---------------------------- MODULE StreamIngest ----------------------------
(***************************************************************************)
(* The receiving side of a durable Arblarg event stream, one transaction   *)
(* per step: Ingress.receive_event with the helpers of EventTracking, and  *)
(* the retention job that forgets old dedupe claims.                       *)
(*                                                                         *)
(* One origin domain is modelled; claims and stream positions are both     *)
(* scoped by origin, so origins do not interact.  An element of Events is  *)
(* one signed envelope (one event_id); SeqOf is its sequence in its        *)
(* stream, KeyOf its idempotency_key.                                      *)
(***************************************************************************)
EXTENDS Naturals

CONSTANTS
    Events,     \* envelopes the origin may send, any number of times, in any order
    Streams,    \* stream_id values
    Keys,       \* idempotency_key values
    StreamOf,   \* Events -> Streams
    SeqOf,      \* Events -> sequence numbers, from 1
    KeyOf       \* Events -> Keys

ASSUME EnvelopeAssumption ==
    /\ StreamOf \in [Events -> Streams]
    /\ SeqOf \in [Events -> Nat \ {0}]
    /\ KeyOf \in [Events -> Keys]

\* The sender's counter hands out each sequence of a stream once
\* (Utils.next_outbound_sequence is one atomic upsert).
ASSUME SequenceAssumption ==
    \A e, f \in Events :
        StreamOf[e] = StreamOf[f] /\ SeqOf[e] = SeqOf[f] => e = f

VARIABLES
    claims,     \* rows of messaging_federation_events, as envelopes
    pos,        \* last_sequence per stream; 0 when the row does not exist
    count,      \* history: how often each envelope's effects were committed
    acked,      \* history: envelopes answered applied, duplicate or stale
    pruned      \* history: envelopes whose claim the retention job deleted

vars == <<claims, pos, count, acked, pruned>>

Init ==
    /\ claims = {}
    /\ pos = [s \in Streams |-> 0]
    /\ count = [e \in Events |-> 0]
    /\ acked = {}
    /\ pruned = {}

-----------------------------------------------------------------------------
\* Mutant: claims are only compared by event_id.
Claimed_ByEventId(e) == e \in claims

\* insert_all(on_conflict: :nothing) inserts no row when the event_id or the
\* idempotency_key is already there.
Claimed(e) == \E f \in claims : f = e \/ KeyOf[f] = KeyOf[e]

LastSequence(e) == pos[StreamOf[e]]

\* claim_event_id answers :duplicate: nothing else happens.
ReceiveDuplicate(e) ==
    /\ Claimed(e)
    /\ acked' = acked \cup {e}
    /\ UNCHANGED <<claims, pos, count, pruned>>

\* check_sequence answers :stale: the transaction commits, and with it the claim.
ReceiveStale(e) ==
    /\ ~Claimed(e)
    /\ SeqOf[e] <= LastSequence(e)
    /\ claims' = claims \cup {e}
    /\ acked' = acked \cup {e}
    /\ UNCHANGED <<pos, count, pruned>>

\* In sequence: apply_event and store_stream_position commit with the claim.
ReceiveApplied(e) ==
    /\ ~Claimed(e)
    /\ SeqOf[e] = LastSequence(e) + 1
    /\ claims' = claims \cup {e}
    /\ count' = [count EXCEPT ![e] = @ + 1]
    /\ pos' = [pos EXCEPT ![StreamOf[e]] = SeqOf[e]]
    /\ acked' = acked \cup {e}
    /\ UNCHANGED pruned

\* A sequence gap, or apply_event refusing an event that is in sequence:
\* Repo.rollback undoes the claim and the sender is told of the error.
ReceiveRejected(e) ==
    /\ ~Claimed(e)
    /\ SeqOf[e] > LastSequence(e)
    /\ UNCHANGED vars

ReceiveEvent(e) ==
    \/ ReceiveDuplicate(e)
    \/ ReceiveStale(e)
    \/ ReceiveApplied(e)
    \/ ReceiveRejected(e)

\* Maintenance.archive_old_events: a claim older than the retention period
\* is moved to the archive table, which claim_event_id does not look at.
ArchiveOldEvent(e) ==
    /\ e \in claims
    /\ claims' = claims \ {e}
    /\ pruned' = pruned \cup {e}
    /\ UNCHANGED <<pos, count, acked>>

Next == \E e \in Events : ReceiveEvent(e) \/ ArchiveOldEvent(e)

Spec == Init /\ [][Next]_vars

-----------------------------------------------------------------------------
TypeOK ==
    /\ claims \subseteq Events
    /\ pos \in [Streams -> Nat]
    /\ count \in [Events -> Nat]
    /\ acked \subseteq Events
    /\ pruned \subseteq Events

\* No envelope's effects are committed twice, whatever is delivered again and
\* although retention forgets claims: the high-water mark of check_sequence
\* must catch what claim_event_id no longer knows.
AppliedOnce == \A e \in Events : count[e] <= 1

\* What a mirror has applied of a stream is exactly the prefix its high-water
\* mark names: no hole below last_sequence and nothing above it.
GaplessPrefix ==
    /\ \A s \in Streams : \A n \in 1..pos[s] :
          \E e \in Events : StreamOf[e] = s /\ SeqOf[e] = n /\ count[e] >= 1
    /\ \A e \in Events : count[e] >= 1 => SeqOf[e] <= LastSequence(e)

\* A sender that was answered applied, duplicate or stale never sends the
\* event again, so its effects (or those of an envelope with the same
\* idempotency_key) must be there: a claim never outlives its rollback.
AckedMeansApplied ==
    \A e \in acked : \E f \in Events : KeyOf[f] = KeyOf[e] /\ count[f] >= 1

\* Two envelopes with one idempotency_key are both applied only if retention
\* forgot the claim of one of them: deduplication by (origin, idempotency_key)
\* lasts as long as the claim.
KeyAppliedOnce ==
    \A e, f \in Events :
        /\ KeyOf[e] = KeyOf[f]
        /\ count[e] >= 1
        /\ count[f] >= 1
        => e = f \/ e \in pruned \/ f \in pruned

\* The high-water mark of a stream never moves back.
HighWaterMonotone == [][\A s \in Streams : pos'[s] >= pos[s]]_vars

-----------------------------------------------------------------------------
\* The inductive strengthening.
ClaimedIsApplied == \A e \in claims : count[e] >= 1

AppliedIsRemembered ==
    \A e \in Events : count[e] >= 1 => e \in claims \/ e \in pruned

IInv ==
    /\ TypeOK
    /\ AppliedOnce
    /\ GaplessPrefix
    /\ AckedMeansApplied
    /\ KeyAppliedOnce
    /\ ClaimedIsApplied
    /\ AppliedIsRemembered
=============================================================================
