------------------------------ MODULE IngestTx ------------------------------
(***************************************************************************)
(* Ingress.receive_event statement by statement, run by several request    *)
(* handlers at once on PostgreSQL's default READ COMMITTED isolation:      *)
(*   - the insert of the claim waits while another open transaction has    *)
(*     inserted a row with the same event_id or idempotency_key;           *)
(*   - SELECT ... FOR UPDATE locks the position row only if there is one:  *)
(*     before the first event of a stream it locks nothing;                *)
(*   - the upsert of the position waits for an open transaction that has   *)
(*     written the row;                                                    *)
(*   - a crash of the handler at any point rolls its transaction back.     *)
(* The specification is shown to implement StreamIngest, in which a whole  *)
(* transaction is one step.                                                *)
(***************************************************************************)
EXTENDS StreamIngest

CONSTANTS
    Handlers,   \* concurrent requests, session batches and replays of this origin
    NoEvent     \* what an idle handler is working on

ASSUME NoEventAssumption == NoEvent \notin Events

VARIABLES
    pc,         \* the statement each handler runs next
    ev,         \* the envelope it is receiving
    holder      \* holder[s]: handlers holding the lock of stream s's position row

txVars == <<pc, ev, holder>>
allVars == <<claims, pos, count, acked, pruned, pc, ev, holder>>

TxInit ==
    /\ Init
    /\ pc = [h \in Handlers |-> "idle"]
    /\ ev = [h \in Handlers |-> NoEvent]
    /\ holder = [s \in Streams |-> {}]

-----------------------------------------------------------------------------
\* The claim row of an open transaction is not visible but is in the index.
HasInserted(h) == pc[h] \in {"check", "apply", "store", "commit", "commit_stale"}

\* Mutant: no unique index, so nothing to wait for.
MustWait_NoUniqueIndex(h, e) == FALSE

\* insert_all(on_conflict: :nothing) waits for an open insert of the same key.
MustWait(h, e) ==
    \E g \in Handlers \ {h} :
        HasInserted(g) /\ (ev[g] = e \/ KeyOf[ev[g]] = KeyOf[e])

\* Mutant: a transaction ends without giving its row lock back.
Release_KeepsLock(h) ==
    /\ pc' = [pc EXCEPT ![h] = "idle"]
    /\ ev' = [ev EXCEPT ![h] = NoEvent]
    /\ UNCHANGED holder

\* The end of a transaction, committed or not, releases its locks.
Release(h) ==
    /\ pc' = [pc EXCEPT ![h] = "idle"]
    /\ ev' = [ev EXCEPT ![h] = NoEvent]
    /\ holder' = [s \in Streams |-> holder[s] \ {h}]

Goto(h, label) == pc' = [pc EXCEPT ![h] = label]

-----------------------------------------------------------------------------
\* A request with this envelope arrives (again); Repo.transaction begins.
Begin(h, e) ==
    /\ pc[h] = "idle"
    /\ Goto(h, "claim")
    /\ ev' = [ev EXCEPT ![h] = e]
    /\ UNCHANGED <<vars, holder>>

\* claim_event_id finds the row: the answer is :duplicate and nothing is held.
ClaimDuplicate(h) ==
    /\ pc[h] = "claim"
    /\ ~MustWait(h, ev[h])
    /\ Claimed(ev[h])
    /\ acked' = acked \cup {ev[h]}
    /\ Release(h)
    /\ UNCHANGED <<claims, pos, count, pruned>>

\* claim_event_id inserts its row.
ClaimNew(h) ==
    /\ pc[h] = "claim"
    /\ ~MustWait(h, ev[h])
    /\ ~Claimed(ev[h])
    /\ Goto(h, "check")
    /\ UNCHANGED <<vars, ev, holder>>

\* SELECT ... FOR UPDATE waits for the lock of a row it can see; a row that an
\* open transaction has just inserted is not seen and not waited for.
LockFree(h, s) == pos[s] > 0 => holder[s] \subseteq {h}

\* check_sequence: lock the position row if it exists, read it, decide.
CheckSequence(h) ==
    LET s == StreamOf[ev[h]]  n == SeqOf[ev[h]] IN
    /\ pc[h] = "check"
    /\ LockFree(h, s)
    /\ n <= pos[s] + 1
    /\ Goto(h, IF n <= pos[s] THEN "commit_stale" ELSE "apply")
    /\ holder' = IF pos[s] > 0 THEN [holder EXCEPT ![s] = {h}] ELSE holder
    /\ UNCHANGED <<vars, ev>>

\* Mutant: the gap is reported without rolling the claim back.
CheckGap_ClaimKept(h) ==
    /\ pc[h] = "check"
    /\ SeqOf[ev[h]] > LastSequence(ev[h]) + 1
    /\ Release(h)
    /\ claims' = claims \cup {ev[h]}
    /\ UNCHANGED <<pos, count, acked, pruned>>

\* check_sequence: {:error, :sequence_gap} rolls the transaction back.
CheckGap(h) ==
    /\ pc[h] = "check"
    /\ LockFree(h, StreamOf[ev[h]])
    /\ SeqOf[ev[h]] > LastSequence(ev[h]) + 1
    /\ Release(h)
    /\ UNCHANGED vars

\* apply_event has written the projection inside the transaction.
ApplyEvent(h) ==
    /\ pc[h] = "apply"
    /\ Goto(h, "store")
    /\ UNCHANGED <<vars, ev, holder>>

\* Mutant: the upsert of the position is forgotten.
StorePosition_Skipped(h) ==
    /\ pc[h] = "store"
    /\ Release(h)
    /\ claims' = claims \cup {ev[h]}
    /\ count' = [count EXCEPT ![ev[h]] = @ + 1]
    /\ acked' = acked \cup {ev[h]}
    /\ UNCHANGED <<pos, pruned>>

\* store_stream_position: the upsert locks the row it writes, new or not.
StorePosition(h) ==
    LET s == StreamOf[ev[h]] IN
    /\ pc[h] = "store"
    /\ holder[s] \subseteq {h}
    /\ Goto(h, "commit")
    /\ holder' = [holder EXCEPT ![s] = {h}]
    /\ UNCHANGED <<vars, ev>>

\* COMMIT makes the claim, the effects and the position visible together.
CommitApplied(h) ==
    /\ pc[h] = "commit"
    /\ claims' = claims \cup {ev[h]}
    /\ count' = [count EXCEPT ![ev[h]] = @ + 1]
    /\ pos' = [pos EXCEPT ![StreamOf[ev[h]]] = SeqOf[ev[h]]]
    /\ acked' = acked \cup {ev[h]}
    /\ Release(h)
    /\ UNCHANGED pruned

\* COMMIT of a stale event keeps its claim.
CommitStale(h) ==
    /\ pc[h] = "commit_stale"
    /\ claims' = claims \cup {ev[h]}
    /\ acked' = acked \cup {ev[h]}
    /\ Release(h)
    /\ UNCHANGED <<pos, count, pruned>>

\* apply_event refuses the event, or the handler or its connection dies:
\* PostgreSQL rolls the open transaction back.
Rollback(h) ==
    /\ pc[h] # "idle"
    /\ Release(h)
    /\ UNCHANGED vars

ArchiveStep == /\ \E e \in Events : ArchiveOldEvent(e)
               /\ UNCHANGED txVars

Step(h) ==
    \/ ClaimDuplicate(h) \/ ClaimNew(h)
    \/ CheckSequence(h) \/ CheckGap(h)
    \/ ApplyEvent(h) \/ StorePosition(h)
    \/ CommitApplied(h) \/ CommitStale(h)

TxNext ==
    \/ \E h \in Handlers : Step(h) \/ Rollback(h) \/ \E e \in Events : Begin(h, e)
    \/ ArchiveStep

\* A handler goes on: the BEAM schedules every runnable process, and PostgreSQL
\* queues the waiters of a row lock, so one that is woken again and again is
\* not overtaken for ever (strong fairness, as the lock is given up in between).
TxSpec ==
    /\ TxInit
    /\ [][TxNext]_allVars
    /\ \A h \in Handlers : SF_allVars(Step(h))

-----------------------------------------------------------------------------
TxTypeOK ==
    /\ TypeOK
    /\ pc \in [Handlers -> {"idle", "claim", "check", "apply", "store", "commit", "commit_stale"}]
    /\ ev \in [Handlers -> Events \cup {NoEvent}]
    /\ \A h \in Handlers : pc[h] # "idle" => ev[h] \in Events
    /\ holder \in [Streams -> SUBSET Handlers]

\* Whatever ran between check_sequence and the commit, the decision is still
\* right when it takes effect.  The row lock cannot ensure it for the first
\* event of a stream, where there is no row to lock.
CheckStillHolds ==
    \A h \in Handlers :
        /\ pc[h] \in {"apply", "store", "commit"} =>
               SeqOf[ev[h]] = LastSequence(ev[h]) + 1
        /\ pc[h] = "commit_stale" => SeqOf[ev[h]] <= LastSequence(ev[h])
        /\ HasInserted(h) => ~Claimed(ev[h])

\* Two open transactions never work on the same semantic event past the claim.
ClaimExclusive ==
    \A g, h \in Handlers :
        /\ g # h
        /\ HasInserted(g)
        /\ HasInserted(h)
        => KeyOf[ev[g]] # KeyOf[ev[h]]

\* Transactions that wait for each other's claim and position rows never
\* block each other for good: every receive_event ends.
EveryReceiveEnds == \A h \in Handlers : pc[h] # "idle" ~> pc[h] = "idle"

\* The three together are inductive.
TxIInv == TxTypeOK /\ CheckStillHolds /\ ClaimExclusive

\* Interleaved statements implement the one-step transaction of StreamIngest.
ImplementsStreamIngest == Spec
=============================================================================
