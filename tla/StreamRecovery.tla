--------------------------- MODULE StreamRecovery ---------------------------
(***************************************************************************)
(* One channel or direct-message stream end to end: messages written and   *)
(* published by the sender, envelopes delivered in any order, and the      *)
(* receiver's repair of a sequence gap: replay of the sender's outbox page *)
(* by page, then a snapshot, with a retry of the event after each.         *)
(*                                                                         *)
(* Ingress.receive_event is one step, which module IngestTx justifies; the *)
(* import of a snapshot is not, since it reads the high-water mark without *)
(* a lock.  A message is the version its author last wrote, 0 for none.    *)
(***************************************************************************)
EXTENDS Naturals, FiniteSets

CONSTANTS
    Objects,        \* messages of the channel
    Handlers,       \* concurrent deliveries and refreshes at the receiver
    HasSnapshot,    \* FALSE for a DM stream: infer_remote_server_id refuses it
    MayBurn,        \* an allocated sequence may never reach the outbox
    Overlap,        \* two writes of one message may be published concurrently
    ReplayLimit,    \* stream_replay_limit: events in a page
    MaxWrites,      \* bound: writes at the sender
    MaxFailures     \* bound: failed requests and handlers that die

ASSUME RecoveryAssumption ==
    /\ HasSnapshot \in BOOLEAN
    /\ MayBurn \in BOOLEAN
    /\ Overlap \in BOOLEAN
    /\ ReplayLimit \in Nat \ {0}
    /\ MaxWrites \in Nat
    /\ MaxFailures \in Nat

VARIABLES
    store,      \* sender: the version of each message
    writes,     \* sender: number of writes
    unnumbered, \* sender: publications that have no sequence yet
    counter,    \* sender: next_sequence of the stream
    numbered,   \* sender: envelopes not yet in the outbox
    outbox,     \* sender: envelopes [seq, obj, ver] that were put in the outbox
    pruned,     \* sender: sequences whose outbox row retention has deleted
    claims,     \* receiver: sequences claimed
    pos,        \* receiver: last_sequence of the stream
    mirror,     \* receiver: the mirrored version of each message
    acked,      \* sequences the sender was told have been received
    pc,         \* what each handler does next
    cur,        \* the sequence it was called with, 0 for a refresh
    after,      \* after_sequence of the page being replayed
    page,       \* sequences of the page still to be imported
    last,       \* next_after_sequence of the page
    more,       \* has_more of the page
    snap,       \* contents and position of the snapshot being built or imported
    inserts,    \* messages inserted by the open import
    store_pos,  \* whether the import decided to store the snapshot's position
    complete,   \* history: no row was missing when the replay began, and
                \* nothing has failed since
    failures

senderVars == <<store, writes, unnumbered, counter, numbered, outbox, pruned>>
receiverVars == <<claims, pos, mirror, acked>>
handlerVars == <<pc, cur, after, page, last, more, snap, inserts, store_pos, complete>>
vars == <<senderVars, receiverVars, handlerVars, failures>>

Sequences == 1..MaxWrites
NoSnapshot == [contents |-> [o \in Objects |-> 0], last |-> 0]

Init ==
    /\ store = [o \in Objects |-> 0]
    /\ writes = 0
    /\ unnumbered = {}
    /\ counter = 1
    /\ numbered = {}
    /\ outbox = {}
    /\ pruned = {}
    /\ claims = {}
    /\ pos = 0
    /\ mirror = [o \in Objects |-> 0]
    /\ acked = {}
    /\ pc = [h \in Handlers |-> "idle"]
    /\ cur = [h \in Handlers |-> 0]
    /\ after = [h \in Handlers |-> 0]
    /\ page = [h \in Handlers |-> {}]
    /\ last = [h \in Handlers |-> 0]
    /\ more = [h \in Handlers |-> FALSE]
    /\ snap = [h \in Handlers |-> NoSnapshot]
    /\ inserts = [h \in Handlers |-> {}]
    /\ store_pos = [h \in Handlers |-> FALSE]
    /\ complete = [h \in Handlers |-> FALSE]
    /\ failures = 0

-----------------------------------------------------------------------------
\* The message is created or edited; the publication comes after the commit.
Write(o) ==
    /\ writes < MaxWrites
    /\ Overlap \/ \A p \in unnumbered \cup numbered : p.obj # o
    /\ store' = [store EXCEPT ![o] = @ + 1]
    /\ writes' = writes + 1
    /\ unnumbered' = unnumbered \cup {[obj |-> o, ver |-> store[o] + 1]}
    /\ UNCHANGED <<counter, numbered, outbox, pruned, receiverVars, handlerVars, failures>>

\* next_outbound_sequence, while the envelope is built.
Allocate(p) ==
    /\ unnumbered' = unnumbered \ {p}
    /\ counter' = counter + 1
    /\ numbered' = numbered \cup {[seq |-> counter, obj |-> p.obj, ver |-> p.ver]}
    /\ UNCHANGED <<store, writes, outbox, pruned, receiverVars, handlerVars, failures>>

\* enqueue_outbox_event inserts the row, in an order of its own.
Enqueue(e) ==
    /\ numbered' = numbered \ {e}
    /\ outbox' = outbox \cup {e}
    /\ UNCHANGED <<store, writes, unnumbered, counter, pruned, receiverVars, handlerVars, failures>>

\* No target domain is left, the insert fails or the process dies: the
\* sequence is used up all the same.
Burn(e) ==
    /\ MayBurn
    /\ numbered' = numbered \ {e}
    /\ UNCHANGED <<store, writes, unnumbered, counter, outbox, pruned, receiverVars, handlerVars, failures>>

\* Maintenance.prune_old_outbox_rows: an acknowledged row is deleted.
Prune(n) ==
    /\ n \in acked \ pruned
    /\ pruned' = pruned \cup {n}
    /\ UNCHANGED <<store, writes, unnumbered, counter, numbered, outbox, receiverVars, handlerVars, failures>>

Envelope(n) == CHOOSE e \in outbox : e.seq = n
Logged == {e.seq : e \in outbox} \ pruned
LastLogged == IF Logged = {} THEN 0 ELSE CHOOSE n \in Logged : \A m \in Logged : m <= n

-----------------------------------------------------------------------------
\* Mutant: one missing sequence is tolerated.
Gap_OffByOne(n) == n \notin claims /\ n > pos + 2

Gap(n) == n \notin claims /\ n > pos + 1

\* Mutant: an update does not touch a message that is there.
Projection_InsertOnly(e) ==
    IF mirror[e.obj] # 0 THEN mirror ELSE [mirror EXCEPT ![e.obj] = e.ver]

\* apply_message_create keeps a message that is there, apply_message_update
\* overwrites it; both insert one that is not.
Projection(e) ==
    IF e.ver = 1 /\ mirror[e.obj] # 0 THEN mirror ELSE [mirror EXCEPT ![e.obj] = e.ver]

\* receive_event with anything but a gap as its result; it waits for an open
\* import that has inserted the message.
Accept(n) ==
    /\ ~Gap(n)
    /\ claims' = claims \cup {n}
    /\ IF n \in claims \/ n <= pos
         THEN UNCHANGED <<pos, mirror>>
         ELSE /\ \A g \in Handlers : Envelope(n).obj \notin inserts[g]
              /\ pos' = n
              /\ mirror' = Projection(Envelope(n))

Goto(h, label) == pc' = [pc EXCEPT ![h] = label]

\* The handler is done; its scratch state goes.
End(h) ==
    /\ Goto(h, "idle")
    /\ cur' = [cur EXCEPT ![h] = 0]
    /\ after' = [after EXCEPT ![h] = 0]
    /\ page' = [page EXCEPT ![h] = {}]
    /\ last' = [last EXCEPT ![h] = 0]
    /\ more' = [more EXCEPT ![h] = FALSE]
    /\ snap' = [snap EXCEPT ![h] = NoSnapshot]
    /\ inserts' = [inserts EXCEPT ![h] = {}]
    /\ store_pos' = [store_pos EXCEPT ![h] = FALSE]
    /\ complete' = [complete EXCEPT ![h] = FALSE]

\* process_incoming_event_result: the outbox delivers an event it has no
\* acknowledgement for, possibly while an earlier delivery is still handled.
DeliverAccepted(h, n) ==
    /\ pc[h] = "idle"
    /\ n \in Logged \ acked
    /\ Accept(n)
    /\ acked' = acked \cup {n}
    /\ UNCHANGED <<senderVars, handlerVars, failures>>

DeliverGap(h, n) ==
    /\ pc[h] = "idle"
    /\ n \in Logged \ acked
    /\ Gap(n)
    /\ Goto(h, "replay")
    /\ cur' = [cur EXCEPT ![h] = n]
    /\ UNCHANGED <<senderVars, receiverVars, after, page, last, more, snap, inserts, store_pos, complete, failures>>

-----------------------------------------------------------------------------
\* recover_sequence_gap_via_stream starts after the receiver's position.
StartReplay(h) ==
    /\ pc[h] = "replay"
    /\ after' = [after EXCEPT ![h] = pos]
    /\ complete' = [complete EXCEPT ![h] = pos + 1 .. cur[h] \subseteq Logged]
    /\ Goto(h, "fetch")
    /\ UNCHANGED <<senderVars, receiverVars, cur, page, last, more, snap, inserts, store_pos, failures>>

\* export_stream_events at the sender: the first query.
FetchPage(h) ==
    LET later == {n \in Logged : n > after[h]}
        events == {n \in later : Cardinality({m \in later : m < n}) < ReplayLimit} IN
    /\ pc[h] = "fetch"
    /\ page' = [page EXCEPT ![h] = events]
    /\ last' = [last EXCEPT ![h] = IF events = {} THEN after[h]
                                   ELSE CHOOSE n \in events : \A m \in events : m <= n]
    /\ Goto(h, "answer")
    /\ UNCHANGED <<senderVars, receiverVars, cur, after, more, snap, inserts, store_pos, complete, failures>>

\* export_stream_events: the second query; has_more.
AnswerPage(h) ==
    /\ pc[h] = "answer"
    /\ more' = [more EXCEPT ![h] = last[h] < LastLogged]
    /\ Goto(h, "events")
    /\ UNCHANGED <<senderVars, receiverVars, cur, after, page, last, snap, inserts, store_pos, complete, failures>>

FirstOf(S) == CHOOSE n \in S : \A m \in S : n <= m

\* import_stream_replay_events: one receive_event after the other.
ReplayEvent(h) ==
    /\ pc[h] = "events"
    /\ page[h] # {}
    /\ Accept(FirstOf(page[h]))
    /\ page' = [page EXCEPT ![h] = @ \ {FirstOf(@)}]
    /\ UNCHANGED <<senderVars, acked, pc, cur, after, last, more, snap, inserts, store_pos, complete, failures>>

\* receive_event reports a gap again, for a replayed event or, after the
\* replay, for the event itself: the snapshot is tried next.
ReplayGap(h) ==
    /\ pc[h] \in {"events", "retry"}
    /\ pc[h] = "events" => page[h] # {}
    /\ Gap(IF pc[h] = "events" THEN FirstOf(page[h]) ELSE cur[h])
    /\ Goto(h, "contents")
    /\ UNCHANGED <<senderVars, receiverVars, cur, after, page, last, more, snap, inserts, store_pos, complete, failures>>

\* recover_stream_replay_pages after a page: the next one, the end of the
\* replay, or an error when the page did not advance.
NextPage(h) ==
    /\ pc[h] = "events"
    /\ page[h] = {}
    /\ \/ more[h] /\ last[h] > after[h] /\ Goto(h, "fetch")
       \/ more[h] /\ last[h] <= after[h] /\ Goto(h, "contents")
       \/ ~more[h] /\ Goto(h, "retry")
    /\ after' = [after EXCEPT ![h] = last[h]]
    /\ UNCHANGED <<senderVars, receiverVars, cur, page, last, more, snap, inserts, store_pos, complete, failures>>

\* A page cannot be fetched, or receive_event refuses a replayed event or the
\* event itself for another reason than a gap: the snapshot is tried next.
ReplayFails(h) ==
    /\ pc[h] \in {"fetch", "answer", "events", "retry"}
    /\ failures < MaxFailures
    /\ failures' = failures + 1
    /\ complete' = [complete EXCEPT ![h] = FALSE]
    /\ Goto(h, "contents")
    /\ UNCHANGED <<senderVars, receiverVars, cur, after, page, last, more, snap, inserts, store_pos>>

\* recover_sequence_gap: the event itself again, after the replay or, at the
\* end of recover_sequence_gap_via_snapshot, after the import.
RetryAccepted(h) ==
    /\ pc[h] \in {"retry", "last_retry"}
    /\ Accept(cur[h])
    /\ acked' = acked \cup {cur[h]}
    /\ End(h)
    /\ UNCHANGED <<senderVars, failures>>

\* post_recovery_apply_failed, or no snapshot for this kind of stream: the
\* sender gets an error for the event.
GiveUp(h) ==
    /\ \/ pc[h] = "last_retry" /\ Gap(cur[h])
       \/ pc[h] = "contents" /\ ~HasSnapshot
    /\ End(h)
    /\ UNCHANGED <<senderVars, receiverVars, failures>>

-----------------------------------------------------------------------------
\* refresh_mirror_server_snapshot, or a snapshot pushed to /_arblarg/sync.
Refresh(h) ==
    /\ HasSnapshot
    /\ pc[h] = "idle"
    /\ Goto(h, "contents")
    /\ UNCHANGED <<senderVars, receiverVars, cur, after, page, last, more, snap, inserts, store_pos, complete, failures>>

\* build_server_snapshot reads the messages first ...
SnapshotContents(h) ==
    /\ HasSnapshot
    /\ pc[h] = "contents"
    /\ snap' = [snap EXCEPT ![h].contents = store]
    /\ Goto(h, "positions")
    /\ UNCHANGED <<senderVars, receiverVars, cur, after, page, last, more, inserts, store_pos, complete, failures>>

\* ... and the stream positions last, outside any transaction.
SnapshotPositions(h) ==
    /\ pc[h] = "positions"
    /\ snap' = [snap EXCEPT ![h].last = LastLogged]
    /\ Goto(h, "messages")
    /\ UNCHANGED <<senderVars, receiverVars, cur, after, page, last, more, inserts, store_pos, complete, failures>>

\* upsert_mirror_message leaves a message that is there as it is.
Missing(h) == {o \in Objects : snap[h].contents[o] # 0 /\ mirror[o] = 0}

\* import_server_snapshot: upsert_mirror_messages inserts what is missing,
\* after any other open import of the same messages.
ImportMessages(h) ==
    /\ pc[h] = "messages"
    /\ \A g \in Handlers \ {h} : Missing(h) \cap inserts[g] = {}
    /\ inserts' = [inserts EXCEPT ![h] = Missing(h)]
    /\ Goto(h, "check")
    /\ UNCHANGED <<senderVars, receiverVars, cur, after, page, last, more, snap, store_pos, complete, failures>>

\* Mutant: the snapshot's position is taken as it is.
ImportCheck_Always(h) ==
    /\ pc[h] = "check"
    /\ store_pos' = [store_pos EXCEPT ![h] = TRUE]
    /\ Goto(h, "store")
    /\ UNCHANGED <<senderVars, receiverVars, cur, after, page, last, more, snap, inserts, complete, failures>>

\* Mutant: the comparison is the wrong way round.
ImportCheck_Reversed(h) ==
    /\ pc[h] = "check"
    /\ store_pos' = [store_pos EXCEPT ![h] = snap[h].last < pos]
    /\ Goto(h, "store")
    /\ UNCHANGED <<senderVars, receiverVars, cur, after, page, last, more, snap, inserts, complete, failures>>

\* store_snapshot_stream_positions compares with current_stream_sequence,
\* read without a lock.
ImportCheck(h) ==
    /\ pc[h] = "check"
    /\ store_pos' = [store_pos EXCEPT ![h] = snap[h].last > pos]
    /\ Goto(h, "store")
    /\ UNCHANGED <<senderVars, receiverVars, cur, after, page, last, more, snap, inserts, complete, failures>>

\* store_stream_position (if the check said so) and the end of the import's
\* transaction; then the event again, if there was one.
ImportCommit(h) ==
    /\ pc[h] = "store"
    /\ mirror' = [o \in Objects |-> IF o \in inserts[h] THEN snap[h].contents[o] ELSE mirror[o]]
    /\ pos' = IF store_pos[h] THEN snap[h].last ELSE pos
    /\ IF cur[h] = 0
         THEN End(h)
         ELSE /\ Goto(h, "last_retry")
              /\ inserts' = [inserts EXCEPT ![h] = {}]
              /\ snap' = [snap EXCEPT ![h] = NoSnapshot]
              /\ store_pos' = [store_pos EXCEPT ![h] = FALSE]
              /\ UNCHANGED <<cur, after, page, last, more, complete>>
    /\ UNCHANGED <<senderVars, claims, acked, failures>>

\* The snapshot cannot be fetched, the import is refused (and rolled back) or
\* the handler dies.
Fail(h) ==
    /\ pc[h] # "idle"
    /\ failures < MaxFailures
    /\ failures' = failures + 1
    /\ End(h)
    /\ UNCHANGED <<senderVars, receiverVars>>

-----------------------------------------------------------------------------
Publish ==
    \/ \E p \in unnumbered : Allocate(p)
    \/ \E e \in numbered : Enqueue(e) \/ Burn(e)

Deliver(n) == \E h \in Handlers : DeliverAccepted(h, n) \/ DeliverGap(h, n)

Recover(h) ==
    \/ StartReplay(h) \/ FetchPage(h) \/ AnswerPage(h)
    \/ ReplayEvent(h) \/ ReplayGap(h) \/ NextPage(h)
    \/ RetryAccepted(h) \/ GiveUp(h)
    \/ SnapshotContents(h) \/ SnapshotPositions(h)
    \/ ImportMessages(h) \/ ImportCheck(h) \/ ImportCommit(h)

Next ==
    \/ \E o \in Objects : Write(o)
    \/ Publish
    \/ \E n \in Sequences : Deliver(n) \/ Prune(n)
    \/ \E h \in Handlers : Recover(h) \/ Refresh(h) \/ ReplayFails(h) \/ Fail(h)

Spec == Init /\ [][Next]_vars

\* Processes go on, and the outbox retries an event for as long as it is not
\* acknowledged (its retry budget is the subject of OutboxDelivery).  Users
\* need not write and nobody needs to refresh.
FairSpec ==
    /\ Spec
    /\ WF_vars(Publish)
    /\ \A n \in Sequences : SF_vars(Deliver(n))
    /\ \A h \in Handlers : SF_vars(Recover(h))

-----------------------------------------------------------------------------
Versions == 0..MaxWrites

TypeOK ==
    /\ store \in [Objects -> Versions]
    /\ writes \in 0..MaxWrites
    /\ unnumbered \subseteq [obj : Objects, ver : Versions]
    /\ counter \in 1..MaxWrites + 1
    /\ numbered \subseteq [seq : Sequences, obj : Objects, ver : Versions]
    /\ outbox \subseteq [seq : Sequences, obj : Objects, ver : Versions]
    /\ claims \subseteq Sequences
    /\ pos \in 0..MaxWrites
    /\ mirror \in [Objects -> Versions]
    /\ acked \subseteq Sequences
    /\ cur \in [Handlers -> 0..MaxWrites]
    /\ page \in [Handlers -> SUBSET Sequences]
    /\ inserts \in [Handlers -> SUBSET Objects]
    /\ \A h \in Handlers : inserts[h] # {} => pc[h] \in {"check", "store"}
    /\ failures \in 0..MaxFailures

\* Replays and deliveries running at the same time leave the mirror exactly
\* where the high-water mark says: at the last version of each message among
\* the envelopes up to it, each of which was really received.
MirrorIsPrefix ==
    /\ 1..pos \subseteq {e.seq : e \in outbox}
    /\ \A o \in Objects :
          LET seen == {e.ver : e \in {f \in outbox : f.obj = o /\ f.seq <= pos}} IN
          mirror[o] = IF seen = {} THEN 0 ELSE CHOOSE v \in seen : \A u \in seen : u <= v

\* What the sender was told is received shows in the mirror: a message is at
\* least at the version of every acknowledged event about it.
AckedIsReflected ==
    \A e \in outbox : e.seq \in acked => mirror[e.obj] >= e.ver

\* Replay alone repairs a gap: if no request fails and every row from the
\* receiver's position to the event was in the outbox when the replay began,
\* no snapshot is asked for and no error returned, whatever else is delivered,
\* replayed or enqueued at the same time, unless the event has been received
\* meanwhile.
ReplayRepairs ==
    \A h \in Handlers :
        pc[h] = "contents" /\ complete[h] => cur[h] <= pos

\* All of it: what replay leaves behind is exactly what was received.
ReplayIsExact == TypeOK /\ MirrorIsPrefix /\ AckedIsReflected /\ ReplayRepairs

\* Nobody who follows the mirror sees a message go back to an older version,
\* although events, replays and snapshots bring the same message, and the
\* high-water mark never moves back (import_snapshot, upsert_mirror_message).
NothingRegresses == [][pos' >= pos /\ \A o \in Objects : mirror'[o] >= mirror[o]]_vars

\* Every event in the outbox is received in the end, in whatever order the
\* envelopes arrive and whatever sequences are missing before it: once the
\* users have stopped writing, all that is there has been acknowledged.
EventuallyAcked == <>[](Logged \subseteq acked)

\* When its users stop writing, the mirror catches up with the sender.
Converges == <>[](mirror = store)
=============================================================================
