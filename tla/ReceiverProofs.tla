--------------------------- MODULE ReceiverProofs ---------------------------
(***************************************************************************)
(* The receiving side of a stream, for every set of envelopes, streams,    *)
(* keys and handlers: what StreamIngest promises, by an inductive invariant*)
(* of its one-step transactions; that the statement-level transaction of   *)
(* IngestTx implements them; and for any calls, buckets, costs and limits  *)
(* of the rate limiter before them: a call that gives back what it reserved*)
(* finds its counters in the table although handle_info(:cleanup) deletes  *)
(* old windows meanwhile, and the budgets hold.                            *)
(***************************************************************************)
EXTENDS IngestTx, IngressRateLimiter, FiniteSetTheorems, TLAPS

(* StreamIngest: transactions of one step *)

\* Every variable keeps its type through every outcome of receive_event and
\* through the retention job.
THEOREM TypeCorrect == Spec => []TypeOK
<1> USE EnvelopeAssumption DEF TypeOK
<1>1. Init => TypeOK
  BY DEF Init
<1>2. TypeOK /\ [Next]_vars => TypeOK'
  <2> SUFFICES ASSUME TypeOK, [Next]_vars PROVE TypeOK'
    OBVIOUS
  <2>1. ASSUME NEW e \in Events, ReceiveDuplicate(e) PROVE TypeOK'
    BY <2>1 DEF ReceiveDuplicate
  <2>2. ASSUME NEW e \in Events, ReceiveStale(e) PROVE TypeOK'
    BY <2>2 DEF ReceiveStale
  <2>3. ASSUME NEW e \in Events, ReceiveApplied(e) PROVE TypeOK'
    BY <2>3 DEF ReceiveApplied
  <2>4. ASSUME NEW e \in Events, ReceiveRejected(e) PROVE TypeOK'
    BY <2>4 DEF ReceiveRejected, vars
  <2>5. ASSUME NEW e \in Events, ArchiveOldEvent(e) PROVE TypeOK'
    BY <2>5 DEF ArchiveOldEvent
  <2>6. CASE UNCHANGED vars
    BY <2>6 DEF vars
  <2> QED
    BY <2>1, <2>2, <2>3, <2>4, <2>5, <2>6 DEF Next, ReceiveEvent
<1> QED
  BY <1>1, <1>2, PTL DEF Spec

-----------------------------------------------------------------------------
\* An unclaimed envelope that check_sequence calls stale was applied: the
\* prefix below the high-water mark has no hole and a sequence is given once.
LEMMA StaleWasApplied ==
  ASSUME IInv, NEW e \in Events, SeqOf[e] <= LastSequence(e)
  PROVE  count[e] >= 1
<1>1. SeqOf[e] \in 1..pos[StreamOf[e]] /\ StreamOf[e] \in Streams
  BY EnvelopeAssumption DEF IInv, TypeOK, LastSequence
<1>2. PICK f \in Events : StreamOf[f] = StreamOf[e] /\ SeqOf[f] = SeqOf[e] /\ count[f] >= 1
  BY <1>1 DEF IInv, GaplessPrefix
<1>3. f = e
  BY <1>2, SequenceAssumption
<1> QED
  BY <1>2, <1>3

\* The initial database satisfies the inductive invariant.
LEMMA InitIInv == Init => IInv
BY EnvelopeAssumption
   DEF Init, IInv, TypeOK, AppliedOnce, GaplessPrefix, AckedMeansApplied,
       KeyAppliedOnce, ClaimedIsApplied, AppliedIsRemembered, LastSequence

\* Applying the next event of a stream keeps the invariant.
LEMMA AppliedIInv ==
  ASSUME IInv, NEW e \in Events, ReceiveApplied(e)
  PROVE  IInv'
<1> USE EnvelopeAssumption
<1>1. /\ ~Claimed(e)
      /\ SeqOf[e] = pos[StreamOf[e]] + 1
      /\ claims' = claims \cup {e}
      /\ count' = [count EXCEPT ![e] = @ + 1]
      /\ pos' = [pos EXCEPT ![StreamOf[e]] = SeqOf[e]]
      /\ acked' = acked \cup {e}
      /\ pruned' = pruned
  BY DEF ReceiveApplied, LastSequence
<1>2. TypeOK /\ StreamOf[e] \in Streams /\ pos[StreamOf[e]] \in Nat
  BY DEF IInv, TypeOK
<1>3. count[e] = 0
  <2>1. ~(count[e] >= 1)
    BY <1>1, <1>2 DEF IInv, GaplessPrefix, LastSequence
  <2> QED
    BY <2>1, <1>2 DEF TypeOK
<1>4. TypeOK'
  BY <1>1, <1>2 DEF TypeOK
<1>5. /\ count'[e] = 1
      /\ \A f \in Events : f # e => count'[f] = count[f]
      /\ \A f \in Events : count[f] >= 1 => count'[f] >= 1
  BY <1>1, <1>2, <1>3 DEF TypeOK
<1>6. AppliedOnce'
  BY <1>5 DEF IInv, AppliedOnce
<1>7. GaplessPrefix'
  <2>1. ASSUME NEW s \in Streams, NEW n \in 1..pos'[s]
        PROVE  \E f \in Events : StreamOf[f] = s /\ SeqOf[f] = n /\ count'[f] >= 1
    <3>1. CASE s = StreamOf[e] /\ n = SeqOf[e]
      BY <3>1, <1>5
    <3>2. CASE ~(s = StreamOf[e] /\ n = SeqOf[e])
      <4>1. n \in 1..pos[s]
        BY <3>2, <2>1, <1>1, <1>2 DEF TypeOK
      <4>2. PICK f \in Events : StreamOf[f] = s /\ SeqOf[f] = n /\ count[f] >= 1
        BY <4>1 DEF IInv, GaplessPrefix
      <4> QED
        BY <4>2, <1>5
    <3> QED
      BY <3>1, <3>2
  <2>2. ASSUME NEW f \in Events, count'[f] >= 1
        PROVE  SeqOf[f] <= pos'[StreamOf[f]]
    <3>1. pos'[StreamOf[e]] = SeqOf[e]
      BY <1>1, <1>2 DEF TypeOK
    <3>2. CASE f = e
      BY <3>1, <3>2
    <3>3. CASE f # e
      <4>1. SeqOf[f] <= pos[StreamOf[f]]
        BY <3>3, <2>2, <1>5 DEF IInv, GaplessPrefix, LastSequence
      <4>2. pos'[StreamOf[f]] >= pos[StreamOf[f]] /\ pos'[StreamOf[f]] \in Nat /\ pos[StreamOf[f]] \in Nat
        BY <1>1, <1>2 DEF TypeOK
      <4> QED
        BY <4>1, <4>2
    <3> QED
      BY <3>2, <3>3
  <2> QED
    BY <2>1, <2>2 DEF GaplessPrefix, LastSequence
<1>8. AckedMeansApplied'
  <2> SUFFICES ASSUME NEW a \in acked'
               PROVE  \E f \in Events : KeyOf[f] = KeyOf[a] /\ count'[f] >= 1
    BY DEF AckedMeansApplied
  <2>1. CASE a = e
    BY <2>1, <1>5
  <2>2. CASE a # e
    <3>1. PICK f \in Events : KeyOf[f] = KeyOf[a] /\ count[f] >= 1
      BY <2>2, <1>1 DEF IInv, AckedMeansApplied
    <3> QED
      BY <3>1, <1>5
  <2> QED
    BY <2>1, <2>2
<1>9. KeyAppliedOnce'
  <2>1. ASSUME NEW f \in Events, f # e, KeyOf[f] = KeyOf[e], count[f] >= 1
        PROVE  f \in pruned
    BY <2>1, <1>1 DEF IInv, AppliedIsRemembered, Claimed
  <2> QED
    BY <2>1, <1>1, <1>5 DEF IInv, KeyAppliedOnce
<1>10. ClaimedIsApplied'
  BY <1>1, <1>2, <1>5 DEF IInv, ClaimedIsApplied, TypeOK
<1>11. AppliedIsRemembered'
  BY <1>1, <1>5 DEF IInv, AppliedIsRemembered
<1> QED
  BY <1>4, <1>6, <1>7, <1>8, <1>9, <1>10, <1>11 DEF IInv

\* The answers that apply nothing keep the invariant.
LEMMA NotAppliedIInv ==
  ASSUME IInv, NEW e \in Events,
         ReceiveDuplicate(e) \/ ReceiveStale(e) \/ ReceiveRejected(e)
  PROVE  IInv'
<1> USE EnvelopeAssumption
<1>1. /\ pos' = pos /\ count' = count /\ pruned' = pruned
      /\ claims' \in {claims, claims \cup {e}}
      /\ acked' \in {acked, acked \cup {e}}
  BY DEF ReceiveDuplicate, ReceiveStale, ReceiveRejected, vars
<1>2. claims' # claims => count[e] >= 1
  BY StaleWasApplied DEF ReceiveDuplicate, ReceiveStale, ReceiveRejected, vars
<1>3. acked' # acked => \E f \in Events : KeyOf[f] = KeyOf[e] /\ count[f] >= 1
  <2>1. CASE ReceiveDuplicate(e)
    <3>1. PICK f \in claims : KeyOf[f] = KeyOf[e]
      BY <2>1 DEF ReceiveDuplicate, Claimed
    <3>2. f \in Events /\ count[f] >= 1
      BY <3>1 DEF IInv, TypeOK, ClaimedIsApplied
    <3> QED
      BY <3>1, <3>2
  <2>2. CASE ReceiveStale(e)
    BY <2>2, StaleWasApplied DEF ReceiveStale
  <2>3. CASE ReceiveRejected(e)
    BY <2>3 DEF ReceiveRejected, vars
  <2> QED
    BY <2>1, <2>2, <2>3
<1>4. TypeOK'
  BY <1>1 DEF IInv, TypeOK
<1>5. AppliedOnce' /\ GaplessPrefix' /\ KeyAppliedOnce'
  BY <1>1 DEF IInv, AppliedOnce, GaplessPrefix, KeyAppliedOnce, LastSequence
<1>6. AckedMeansApplied'
  BY <1>1, <1>3 DEF IInv, AckedMeansApplied
<1>7. ClaimedIsApplied' /\ AppliedIsRemembered'
  BY <1>1, <1>2 DEF IInv, ClaimedIsApplied, AppliedIsRemembered
<1> QED
  BY <1>4, <1>5, <1>6, <1>7 DEF IInv

\* Forgetting a claim keeps the invariant.
LEMMA ArchiveIInv ==
  ASSUME IInv, NEW e \in Events, ArchiveOldEvent(e)
  PROVE  IInv'
BY DEF ArchiveOldEvent, IInv, TypeOK, AppliedOnce, GaplessPrefix, AckedMeansApplied,
       KeyAppliedOnce, ClaimedIsApplied, AppliedIsRemembered, LastSequence

\* The inductive invariant holds in every reachable state.
THEOREM Invariance == Spec => []IInv
<1>1. IInv /\ [Next]_vars => IInv'
  <2> SUFFICES ASSUME IInv, [Next]_vars PROVE IInv'
    OBVIOUS
  <2>1. CASE UNCHANGED vars
    BY <2>1 DEF vars, IInv, TypeOK, AppliedOnce, GaplessPrefix, AckedMeansApplied,
                KeyAppliedOnce, ClaimedIsApplied, AppliedIsRemembered, LastSequence
  <2>2. CASE Next
    BY <2>2, AppliedIInv, NotAppliedIInv, ArchiveIInv DEF Next, ReceiveEvent
  <2> QED
    BY <2>1, <2>2
<1> QED
  BY <1>1, InitIInv, PTL DEF Spec

\* However often and in whatever order receive_event is handed the envelopes
\* of an origin, and whatever claims retention has deleted, no envelope's
\* effects are committed twice.
THEOREM ExactlyOnce == Spec => []AppliedOnce
BY Invariance, PTL DEF IInv

\* The effects committed for a stream are those of a gapless prefix of it,
\* ending at the stored high-water mark.
THEOREM Prefix == Spec => []GaplessPrefix
BY Invariance, PTL DEF IInv

\* An envelope the sender was told to forget has had its effects committed,
\* its own or those of an envelope with the same idempotency_key.
THEOREM NoFalseAck == Spec => []AckedMeansApplied
BY Invariance, PTL DEF IInv

\* store_stream_position as receive_event uses it never lowers last_sequence.
THEOREM Monotone == Spec => HighWaterMonotone
<1>1. IInv /\ [Next]_vars => [\A s \in Streams : pos'[s] >= pos[s]]_vars
  <2> SUFFICES ASSUME IInv, Next, NEW s \in Streams PROVE pos'[s] >= pos[s]
    BY DEF vars
  <2>1. pos \in [Streams -> Nat]
    BY DEF IInv, TypeOK
  <2>2. CASE \E e \in Events : ReceiveApplied(e)
    BY <2>1, <2>2, EnvelopeAssumption DEF ReceiveApplied, LastSequence
  <2>3. CASE pos' = pos
    BY <2>1, <2>3
  <2> QED
    BY <2>2, <2>3 DEF Next, ReceiveEvent, ReceiveDuplicate, ReceiveStale,
                      ReceiveRejected, ArchiveOldEvent, vars
<1> QED
  BY <1>1, Invariance, PTL DEF Spec, HighWaterMonotone

\* Two envelopes with one idempotency_key are both committed only if the
\* retention job has deleted the claim of one of them.
THEOREM KeyOnce == Spec => []KeyAppliedOnce
BY Invariance, PTL DEF IInv

-----------------------------------------------------------------------------
(* IngestTx: transactions of statements *)

\* The end of a transaction leaves a well-typed, idle handler.
LEMMA ReleaseType ==
  ASSUME TxTypeOK, NEW h \in Handlers, Release(h)
  PROVE  /\ pc' \in [Handlers -> {"idle", "claim", "check", "apply", "store", "commit", "commit_stale"}]
         /\ ev' \in [Handlers -> Events \cup {NoEvent}]
         /\ \A g \in Handlers : pc'[g] # "idle" => ev'[g] \in Events
         /\ holder' \in [Streams -> SUBSET Handlers]
         /\ pc'[h] = "idle"
         /\ \A g \in Handlers : g # h => pc'[g] = pc[g] /\ ev'[g] = ev[g]
BY DEF Release, TxTypeOK

\* Every step of a handler keeps the types.
LEMMA TxTypeStep ==
  ASSUME TxTypeOK, [TxNext]_allVars
  PROVE  TxTypeOK'
<1> USE EnvelopeAssumption
<1>1. ASSUME NEW h \in Handlers, Step(h) PROVE TxTypeOK'
  <2>1. CASE ClaimDuplicate(h)
    BY <2>1, ReleaseType DEF ClaimDuplicate, TxTypeOK, TypeOK
  <2>2. CASE ClaimNew(h)
    BY <2>2 DEF ClaimNew, Goto, TxTypeOK, TypeOK, vars
  <2>3. CASE CheckSequence(h)
    BY <2>3 DEF CheckSequence, Goto, TxTypeOK, TypeOK, vars
  <2>4. CASE CheckGap(h)
    BY <2>4, ReleaseType DEF CheckGap, TxTypeOK, TypeOK, vars
  <2>5. CASE ApplyEvent(h)
    BY <2>5 DEF ApplyEvent, Goto, TxTypeOK, TypeOK, vars
  <2>6. CASE StorePosition(h)
    BY <2>6 DEF StorePosition, Goto, TxTypeOK, TypeOK, vars
  <2>7. CASE CommitApplied(h)
    BY <2>7, ReleaseType DEF CommitApplied, TxTypeOK, TypeOK
  <2>8. CASE CommitStale(h)
    BY <2>8, ReleaseType DEF CommitStale, TxTypeOK, TypeOK
  <2> QED
    BY <1>1, <2>1, <2>2, <2>3, <2>4, <2>5, <2>6, <2>7, <2>8 DEF Step
<1>2. ASSUME NEW h \in Handlers, Rollback(h) PROVE TxTypeOK'
  BY <1>2, ReleaseType DEF Rollback, TxTypeOK, TypeOK, vars
<1>3. ASSUME NEW h \in Handlers, NEW e \in Events, Begin(h, e) PROVE TxTypeOK'
  BY <1>3 DEF Begin, Goto, TxTypeOK, TypeOK, vars
<1>4. CASE ArchiveStep
  BY <1>4 DEF ArchiveStep, ArchiveOldEvent, txVars, TxTypeOK, TypeOK
<1>5. CASE UNCHANGED allVars
  BY <1>5 DEF allVars, TxTypeOK, TypeOK
<1> QED
  BY <1>1, <1>2, <1>3, <1>4, <1>5 DEF TxNext

-----------------------------------------------------------------------------
\* Steps that change no committed row and leave a handler idle, or at a label
\* at which it has not inserted its claim, disturb nothing.
LEMMA IdleKeeps ==
  ASSUME TxIInv, NEW h \in Handlers, Release(h),
         pos' = pos, claims' \subseteq claims
  PROVE  CheckStillHolds' /\ ClaimExclusive'
<1>1. /\ pc'[h] = "idle"
      /\ \A g \in Handlers : g # h => pc'[g] = pc[g] /\ ev'[g] = ev[g]
  BY ReleaseType DEF TxIInv
<1>2. \A g \in Handlers : HasInserted(g)' => g # h /\ HasInserted(g)
  BY <1>1 DEF HasInserted
<1>3. ClaimExclusive'
  BY <1>1, <1>2 DEF TxIInv, ClaimExclusive
<1>4. CheckStillHolds'
  BY <1>1, <1>2 DEF TxIInv, CheckStillHolds, LastSequence, Claimed
<1> QED
  BY <1>3, <1>4

\* Moving on inside the transaction after check_sequence.
LEMMA AdvanceKeeps ==
  ASSUME TxIInv, NEW h \in Handlers, HasInserted(h),
         pos' = pos, claims' = claims, ev' = ev,
         NEW label \in {"apply", "store", "commit", "commit_stale"}, Goto(h, label),
         label # "commit_stale" => SeqOf[ev[h]] = LastSequence(ev[h]) + 1,
         label = "commit_stale" => SeqOf[ev[h]] <= LastSequence(ev[h])
  PROVE  CheckStillHolds' /\ ClaimExclusive'
<1>1. /\ pc'[h] = label
      /\ \A g \in Handlers : g # h => pc'[g] = pc[g]
  BY DEF TxIInv, TxTypeOK, Goto
<1>2. \A g \in Handlers : HasInserted(g)' => HasInserted(g)
  BY <1>1 DEF HasInserted
<1> QED
  BY <1>1, <1>2 DEF TxIInv, CheckStillHolds, ClaimExclusive, LastSequence, Claimed

\* A commit moves its stream's position past no other open transaction: one
\* at the same sequence would hold the same claim.
LEMMA CommitKeeps ==
  ASSUME TxIInv, NEW h \in Handlers, CommitApplied(h) \/ CommitStale(h)
  PROVE  CheckStillHolds' /\ ClaimExclusive'
<1> USE EnvelopeAssumption
<1>1. /\ pc'[h] = "idle"
      /\ \A g \in Handlers : g # h => pc'[g] = pc[g] /\ ev'[g] = ev[g]
  BY ReleaseType DEF TxIInv, CommitApplied, CommitStale
<1>2. \A g \in Handlers : HasInserted(g)' => g # h /\ HasInserted(g) /\ ev'[g] = ev[g]
  BY <1>1 DEF HasInserted
<1>3. ClaimExclusive'
  BY <1>1, <1>2 DEF TxIInv, ClaimExclusive
<1>4. HasInserted(h) /\ ev[h] \in Events /\ claims' = claims \cup {ev[h]}
  BY DEF TxIInv, TxTypeOK, CommitApplied, CommitStale, HasInserted
<1>5. ASSUME NEW g \in Handlers, HasInserted(g)'
      PROVE  /\ KeyOf[ev[g]] # KeyOf[ev[h]]
             /\ ~Claimed(ev[g])
             /\ ev'[g] = ev[g]
             /\ ~Claimed(ev[g])'
  BY <1>2, <1>4, <1>5 DEF TxIInv, ClaimExclusive, CheckStillHolds, Claimed
<1>6. ASSUME NEW g \in Handlers, HasInserted(g)', pc'[g] # "check"
      PROVE  /\ pc'[g] # "commit_stale" => SeqOf[ev[g]] = pos'[StreamOf[ev[g]]] + 1
             /\ pc'[g] = "commit_stale" => SeqOf[ev[g]] <= pos'[StreamOf[ev[g]]]
  <2>1. /\ g # h /\ pc'[g] = pc[g] /\ ev[g] \in Events /\ HasInserted(g)
        /\ pc[g] # "commit_stale" => SeqOf[ev[g]] = pos[StreamOf[ev[g]]] + 1
        /\ pc[g] = "commit_stale" => SeqOf[ev[g]] <= pos[StreamOf[ev[g]]]
    BY <1>1, <1>2, <1>6 DEF TxIInv, TxTypeOK, CheckStillHolds, LastSequence, HasInserted
  <2>2. CASE pos' = pos
    BY <2>1, <2>2
  <2>3. CASE CommitApplied(h)
    <3>1. /\ pos' = [pos EXCEPT ![StreamOf[ev[h]]] = SeqOf[ev[h]]]
          /\ SeqOf[ev[h]] = pos[StreamOf[ev[h]]] + 1
          /\ pos \in [Streams -> Nat]
      BY <2>3 DEF CommitApplied, TxIInv, TxTypeOK, TypeOK, CheckStillHolds, LastSequence
    <3>2. CASE StreamOf[ev[g]] # StreamOf[ev[h]]
      BY <3>1, <3>2, <2>1
    <3>3. CASE StreamOf[ev[g]] = StreamOf[ev[h]]
      <4>1. ev[g] # ev[h]
        BY <1>5, <1>6
      <4>2. SeqOf[ev[g]] # SeqOf[ev[h]]
        BY <4>1, <3>3, <2>1, <1>4, SequenceAssumption
      <4>3. pc[g] = "commit_stale"
        BY <4>2, <3>1, <3>3, <2>1
      <4> QED
        BY <4>3, <3>1, <3>3, <2>1, <1>4
    <3> QED
      BY <3>2, <3>3
  <2> QED
    BY <2>2, <2>3 DEF CommitStale
<1>7. CheckStillHolds'
  BY <1>5, <1>6 DEF CheckStillHolds, LastSequence, HasInserted
<1> QED
  BY <1>3, <1>7

\* The invariant is inductive.
LEMMA TxIInvStep ==
  ASSUME TxIInv, [TxNext]_allVars
  PROVE  TxIInv'
<1> USE EnvelopeAssumption
<1>1. TxTypeOK'
  BY TxTypeStep DEF TxIInv
<1>2. ASSUME NEW h \in Handlers, Step(h) PROVE CheckStillHolds' /\ ClaimExclusive'
  <2>1. CASE ClaimDuplicate(h)
    BY <2>1, IdleKeeps DEF ClaimDuplicate
  <2>2. CASE ClaimNew(h)
    <3>1. /\ pos' = pos /\ claims' = claims /\ ev' = ev
          /\ pc'[h] = "check"
          /\ \A g \in Handlers : g # h => pc'[g] = pc[g]
          /\ ~Claimed(ev[h]) /\ ~MustWait(h, ev[h])
      BY <2>2 DEF ClaimNew, Goto, vars, TxIInv, TxTypeOK
    <3>2. \A g \in Handlers : HasInserted(g)' => g = h \/ HasInserted(g)
      BY <3>1 DEF HasInserted
    <3>3. \A g \in Handlers \ {h} : HasInserted(g) => KeyOf[ev[g]] # KeyOf[ev[h]]
      BY <3>1 DEF MustWait
    <3>4. ClaimExclusive'
      BY <3>1, <3>2, <3>3 DEF TxIInv, ClaimExclusive
    <3>5. CheckStillHolds'
      BY <3>1, <3>2 DEF TxIInv, CheckStillHolds, LastSequence, Claimed
    <3> QED
      BY <3>4, <3>5
  <2>3. CASE CheckSequence(h)
    <3>1. /\ HasInserted(h) /\ pos' = pos /\ claims' = claims /\ ev' = ev
          /\ ev[h] \in Events /\ pos[StreamOf[ev[h]]] \in Nat
      BY <2>3 DEF CheckSequence, HasInserted, vars, TxIInv, TxTypeOK, TypeOK
    <3>2. CASE SeqOf[ev[h]] <= pos[StreamOf[ev[h]]]
      BY <3>1, <3>2, <2>3, AdvanceKeeps DEF CheckSequence, LastSequence
    <3>3. CASE ~(SeqOf[ev[h]] <= pos[StreamOf[ev[h]]])
      <4>1. SeqOf[ev[h]] = LastSequence(ev[h]) + 1 /\ Goto(h, "apply")
        BY <3>1, <3>3, <2>3 DEF CheckSequence, LastSequence
      <4> QED
        BY <4>1, <3>1, AdvanceKeeps
    <3> QED
      BY <3>2, <3>3
  <2>4. CASE CheckGap(h)
    BY <2>4, IdleKeeps DEF CheckGap, vars
  <2>5. CASE ApplyEvent(h)
    <3>1. HasInserted(h) /\ SeqOf[ev[h]] = LastSequence(ev[h]) + 1
      BY <2>5 DEF ApplyEvent, HasInserted, TxIInv, CheckStillHolds
    <3> QED
      BY <3>1, <2>5, AdvanceKeeps DEF ApplyEvent, vars
  <2>6. CASE StorePosition(h)
    <3>1. HasInserted(h) /\ SeqOf[ev[h]] = LastSequence(ev[h]) + 1
      BY <2>6 DEF StorePosition, HasInserted, TxIInv, CheckStillHolds
    <3> QED
      BY <3>1, <2>6, AdvanceKeeps DEF StorePosition, vars
  <2>7. CASE CommitApplied(h) \/ CommitStale(h)
    BY <2>7, CommitKeeps
  <2> QED
    BY <1>2, <2>1, <2>2, <2>3, <2>4, <2>5, <2>6, <2>7 DEF Step
<1>3. ASSUME NEW h \in Handlers, Rollback(h) PROVE CheckStillHolds' /\ ClaimExclusive'
  BY <1>3, IdleKeeps DEF Rollback, vars
<1>4. ASSUME NEW h \in Handlers, NEW e \in Events, Begin(h, e)
      PROVE  CheckStillHolds' /\ ClaimExclusive'
  <2>1. /\ pos' = pos /\ claims' = claims
        /\ pc'[h] = "claim"
        /\ \A g \in Handlers : g # h => pc'[g] = pc[g] /\ ev'[g] = ev[g]
    BY <1>4 DEF Begin, Goto, vars, TxIInv, TxTypeOK
  <2>2. \A g \in Handlers : HasInserted(g)' => g # h /\ HasInserted(g)
    BY <2>1 DEF HasInserted
  <2>3. ClaimExclusive'
    BY <2>1, <2>2 DEF TxIInv, ClaimExclusive
  <2>4. CheckStillHolds'
    BY <2>1, <2>2 DEF TxIInv, CheckStillHolds, LastSequence, Claimed
  <2> QED
    BY <2>3, <2>4
<1>5. CASE ArchiveStep
  BY <1>1, <1>5 DEF ArchiveStep, ArchiveOldEvent, txVars, TxIInv, CheckStillHolds,
              ClaimExclusive, HasInserted, LastSequence, Claimed
<1>6. CASE UNCHANGED allVars
  BY <1>1, <1>6 DEF allVars, TxIInv, CheckStillHolds, ClaimExclusive, HasInserted, LastSequence, Claimed
<1> QED
  BY <1>1, <1>2, <1>3, <1>4, <1>5, <1>6 DEF TxNext, TxIInv

\* In every reachable state what a handler read of the position and of the
\* claims is still so when it commits, and no two open transactions hold
\* the same claim.
THEOREM TxInvariance == TxSpec => []TxIInv
<1>1. TxInit => TxIInv
  BY DEF TxInit, Init, TxIInv, TxTypeOK, TypeOK, CheckStillHolds, ClaimExclusive, HasInserted
<1> QED
  BY <1>1, TxIInvStep, PTL DEF TxSpec

\* Statement-level interleaving adds nothing: every behaviour of concurrent
\* receive_event transactions is one of StreamIngest, so what is proved of
\* StreamIngest holds of it.
THEOREM Refinement == TxSpec => ImplementsStreamIngest
<1>1. TxInit => Init
  BY DEF TxInit
<1>2. TxIInv /\ [TxNext]_allVars => [Next]_vars
  <2> SUFFICES ASSUME TxIInv, [TxNext]_allVars PROVE Next \/ UNCHANGED vars
    OBVIOUS
  <2>1. ASSUME NEW h \in Handlers, Step(h) PROVE Next \/ UNCHANGED vars
    <3>1. CASE ClaimDuplicate(h)
      <4>1. ev[h] \in Events /\ ReceiveDuplicate(ev[h])
        BY <3>1 DEF ClaimDuplicate, ReceiveDuplicate, TxIInv, TxTypeOK
      <4> QED
        BY <4>1 DEF Next, ReceiveEvent
    <3>2. CASE CommitApplied(h)
      <4>1. ev[h] \in Events /\ ReceiveApplied(ev[h])
        BY <3>2 DEF CommitApplied, ReceiveApplied, TxIInv, TxTypeOK, CheckStillHolds, HasInserted
      <4> QED
        BY <4>1 DEF Next, ReceiveEvent
    <3>3. CASE CommitStale(h)
      <4>1. ev[h] \in Events /\ ReceiveStale(ev[h])
        BY <3>3 DEF CommitStale, ReceiveStale, TxIInv, TxTypeOK, CheckStillHolds, HasInserted
      <4> QED
        BY <4>1 DEF Next, ReceiveEvent
    <3>4. CASE UNCHANGED vars
      BY <3>4
    <3> QED
      BY <2>1, <3>1, <3>2, <3>3, <3>4
         DEF Step, ClaimNew, CheckSequence, CheckGap, ApplyEvent, StorePosition
  <2>2. CASE ArchiveStep
    BY <2>2 DEF ArchiveStep, Next
  <2>3. CASE \E h \in Handlers : Rollback(h) \/ \E e \in Events : Begin(h, e)
    BY <2>3 DEF Rollback, Begin
  <2>4. CASE UNCHANGED allVars
    BY <2>4 DEF allVars, vars
  <2> QED
    BY <2>1, <2>2, <2>3, <2>4 DEF TxNext
<1> QED
  BY <1>1, <1>2, TxInvariance, PTL DEF TxSpec, Spec, ImplementsStreamIngest

\* What check_sequence decided is still right at the commit, also for the first
\* event of a stream, where SELECT ... FOR UPDATE has locked nothing.
THEOREM DecisionHolds == TxSpec => []CheckStillHolds
BY TxInvariance, PTL DEF TxIInv

\* Two open transactions never hold the claim of one idempotency_key.
THEOREM ClaimsExclusive == TxSpec => []ClaimExclusive
BY TxInvariance, PTL DEF TxIInv

-----------------------------------------------------------------------------
(* IngressRateLimiter: budgets of a call *)

\* The fields the argument reads.
LimiterTypes ==
    /\ now \in Nat
    /\ call \in [Checks -> {"new", "reserve", "undo", "rollback", "ok", "limited", "crashed"}]
    /\ win \in [Checks -> Nat]
    /\ taken \in [Checks -> Nat]
    /\ \A c \in Checks : call[c] = "new" => taken[c] = 0

\* A running call is at most one window behind: what it has reserved is out of
\* the cleanup's reach, and a call that gives back has reserved something.
HoldsItsCounters ==
    \A c \in Checks : Running(c) =>
        /\ win[c] <= now /\ now <= win[c] + 1
        /\ \A i \in 1 .. taken[c] : Key(c, i) \in DOMAIN table
        /\ call[c] \in {"undo", "rollback"} => taken[c] >= 1

LimiterIInv == LimiterTypes /\ NoCrash /\ HoldsItsCounters

-----------------------------------------------------------------------------
\* A step of one call that adds to the table and leaves the other calls alone.
LEMMA OthersKeep ==
  ASSUME LimiterIInv, NEW c \in Checks, NEW l, NEW n \in Nat,
         call' = [call EXCEPT ![c] = l], taken' = [taken EXCEPT ![c] = n],
         win' = win, now' = now, DOMAIN table \subseteq DOMAIN table',
         l \in {"reserve", "undo", "rollback", "ok", "limited"},
         l \in {"reserve", "undo", "rollback"} =>
            /\ Running(c)
            /\ \A i \in 1 .. n : Key(c, i) \in DOMAIN table'
            /\ l # "reserve" => n >= 1
  PROVE  LimiterIInv'
<1>1. /\ call'[c] = l /\ taken'[c] = n
      /\ \A d \in Checks : d # c => call'[d] = call[d] /\ taken'[d] = taken[d]
  BY DEF LimiterIInv, LimiterTypes
<1>2. LimiterTypes'
  BY DEF LimiterIInv, LimiterTypes
<1>3. NoCrash'
  BY <1>1 DEF LimiterIInv, NoCrash
<1>4. HoldsItsCounters'
  <2> SUFFICES ASSUME NEW d \in Checks, Running(d)'
               PROVE  /\ win'[d] <= now' /\ now' <= win'[d] + 1
                      /\ \A i \in 1 .. taken'[d] : Key(d, i)' \in DOMAIN table'
                      /\ call'[d] \in {"undo", "rollback"} => taken'[d] >= 1
    BY DEF HoldsItsCounters
  <2>1. CASE d = c
    <3>1. Running(c) /\ (l # "reserve" => n >= 1)
          /\ \A i \in 1 .. n : Key(c, i)' \in DOMAIN table'
      BY <1>1, <2>1 DEF Running, Key
    <3> QED
      BY <1>1, <2>1, <3>1 DEF LimiterIInv, HoldsItsCounters
  <2>2. CASE d # c
    BY <1>1, <2>2 DEF LimiterIInv, HoldsItsCounters, Running, Key
  <2> QED
    BY <2>1, <2>2
<1> QED
  BY <1>2, <1>3, <1>4 DEF LimiterIInv

\* Add never removes a counter.
LEMMA AddKeeps ==
  ASSUME NEW key, NEW n, Add(key, n)
  PROVE  DOMAIN table' = DOMAIN table \cup {key}
BY DEF Add

\* undo and rollback: the counter is there, so :ets.update_counter/3 succeeds.
LEMMA GiveBackIInv ==
  ASSUME LimiterIInv, NEW c \in Checks, call[c] \in {"undo", "rollback"}, GiveBack(c)
  PROVE  LimiterIInv'
<1>1. /\ Running(c) /\ taken[c] \in Nat /\ taken[c] >= 1
      /\ \A i \in 1 .. taken[c] : Key(c, i) \in DOMAIN table
  BY DEF LimiterIInv, LimiterTypes, HoldsItsCounters, Running
<1>2. Key(c, taken[c]) \in DOMAIN table
  BY <1>1
<1>3. /\ taken' = [taken EXCEPT ![c] = taken[c] - 1]
      /\ Add(Key(c, taken[c]), 0 - Cost(c, taken[c]))
      /\ call' = [call EXCEPT ![c] = IF taken[c] = 1 THEN "limited" ELSE "rollback"]
      /\ now' = now /\ win' = win
  BY <1>2, Zenon DEF GiveBack
<1>4. DOMAIN table \subseteq DOMAIN table'
  BY <1>3, AddKeeps
<1>5. taken[c] - 1 \in Nat /\ (taken[c] # 1 => taken[c] - 1 >= 1)
  BY <1>1
<1>6. \A i \in 1 .. taken[c] - 1 : Key(c, i) \in DOMAIN table'
  BY <1>1, <1>4
<1>7. CASE taken[c] = 1
  <2>1. call' = [call EXCEPT ![c] = "limited"]
    BY <1>3, <1>7
  <2> QED
    BY <2>1, <1>3, <1>4, <1>5, OthersKeep
<1>8. CASE taken[c] # 1
  <2>1. call' = [call EXCEPT ![c] = "rollback"]
    BY <1>3, <1>8
  <2> QED
    BY <2>1, <1>1, <1>3, <1>4, <1>5, <1>6, <1>8, OthersKeep
<1> QED
  BY <1>7, <1>8

\* reserve: the counter it adds to is there afterwards.
LEMMA ReserveIInv ==
  ASSUME LimiterIInv, NEW c \in Checks, Reserve(c)
  PROVE  LimiterIInv'
<1>1. /\ call[c] = "reserve" /\ now' = now /\ win' = win
      /\ Add(Key(c, taken[c] + 1), Cost(c, taken[c] + 1))
      /\ taken' = [taken EXCEPT ![c] = taken[c] + 1]
      /\ call' = [call EXCEPT ![c] = IF table'[Key(c, taken[c] + 1)] > Limit(c, taken[c] + 1)
                                 THEN "undo" ELSE @]
  BY Zenon DEF Reserve
<1>2. PICK l \in {"reserve", "undo"} : call' = [call EXCEPT ![c] = l]
  <2>1. CASE table'[Key(c, taken[c] + 1)] > Limit(c, taken[c] + 1)
    BY <1>1, <2>1
  <2>2. CASE ~(table'[Key(c, taken[c] + 1)] > Limit(c, taken[c] + 1))
    BY <1>1, <2>2
  <2> QED
    BY <2>1, <2>2
<1>3. DOMAIN table' = DOMAIN table \cup {Key(c, taken[c] + 1)}
  BY <1>1, AddKeeps
<1>4. Running(c) /\ taken[c] \in Nat /\ \A i \in 1 .. taken[c] : Key(c, i) \in DOMAIN table
  BY <1>1 DEF LimiterIInv, LimiterTypes, HoldsItsCounters, Running
<1>5. \A i \in 1 .. taken[c] + 1 : i \in 1 .. taken[c] \/ i = taken[c] + 1
  BY <1>4
<1>6. \A i \in 1 .. taken[c] + 1 : Key(c, i) \in DOMAIN table'
  BY <1>3, <1>4, <1>5
<1>7. taken[c] + 1 \in Nat /\ taken[c] + 1 >= 1
  BY <1>4
<1> QED
  BY <1>1, <1>2, <1>3, <1>4, <1>6, <1>7, OthersKeep

\* Every step keeps the invariant.
LEMMA LimiterStep ==
  ASSUME LimiterIInv, [LimiterNext]_limiterVars
  PROVE  LimiterIInv'
<1>1. ASSUME NEW c \in Checks, Start(c) PROVE LimiterIInv'
  <2>1. /\ call[c] = "new" /\ call' = [call EXCEPT ![c] = "reserve"]
        /\ win' = [win EXCEPT ![c] = now]
        /\ now' = now /\ table' = table /\ taken' = taken
    BY <1>1 DEF Start
  <2>2. /\ call'[c] = "reserve" /\ win'[c] = now
        /\ \A d \in Checks : d # c => call'[d] = call[d] /\ win'[d] = win[d]
    BY <2>1 DEF LimiterIInv, LimiterTypes
  <2>3. LimiterTypes' /\ NoCrash'
    BY <2>1, <2>2 DEF LimiterIInv, LimiterTypes, NoCrash
  <2>4. taken[c] = 0
    BY <2>1 DEF LimiterIInv, LimiterTypes
  <2>5. HoldsItsCounters'
    BY <2>1, <2>2, <2>4 DEF LimiterIInv, LimiterTypes, HoldsItsCounters, Running, Key
  <2> QED
    BY <2>3, <2>5 DEF LimiterIInv
<1>2. ASSUME NEW c \in Checks, Reserve(c) PROVE LimiterIInv'
  BY <1>2, ReserveIInv
<1>3. ASSUME NEW c \in Checks, Admit(c) PROVE LimiterIInv'
  <2>1. /\ call' = [call EXCEPT ![c] = "ok"] /\ taken' = [taken EXCEPT ![c] = taken[c]]
        /\ win' = win /\ now' = now /\ table' = table /\ taken[c] \in Nat
    BY <1>3 DEF Admit, LimiterIInv, LimiterTypes
  <2> QED
    BY <2>1, OthersKeep
<1>4. ASSUME NEW c \in Checks, Undo(c) \/ RollbackTaken(c) PROVE LimiterIInv'
  BY <1>4, GiveBackIInv DEF Undo, RollbackTaken
<1>5. CASE Tick
  BY <1>5 DEF Tick, LimiterIInv, LimiterTypes, NoCrash, HoldsItsCounters, Running, Key
<1>6. CASE Cleanup
  <2>1. /\ DOMAIN table' = {k \in DOMAIN table : ~(k[2] < now - 1)}
        /\ now' = now /\ call' = call /\ win' = win /\ taken' = taken
    BY <1>6 DEF Cleanup
  <2>2. ASSUME NEW c \in Checks, Running(c), NEW i \in 1 .. taken[c]
        PROVE  Key(c, i) \in DOMAIN table'
    <3>1. Key(c, i) \in DOMAIN table /\ now <= win[c] + 1 /\ win[c] \in Nat /\ now \in Nat
      BY <2>2 DEF LimiterIInv, LimiterTypes, HoldsItsCounters
    <3>2. Key(c, i)[2] = win[c]
      BY DEF Key
    <3> QED
      BY <2>1, <3>1, <3>2
  <2> QED
    BY <2>1, <2>2 DEF LimiterIInv, LimiterTypes, NoCrash, HoldsItsCounters, Running, Key
<1>7. CASE UNCHANGED limiterVars
  BY <1>7 DEF limiterVars, LimiterIInv, LimiterTypes, NoCrash, HoldsItsCounters, Running, Key
<1> QED
  BY <1>1, <1>2, <1>3, <1>4, <1>5, <1>6, <1>7 DEF LimiterNext, CheckStep

\* The inductive invariant holds throughout.
THEOREM LimiterInvariance == LimiterSpec => []LimiterIInv
<1>1. LimiterInit => LimiterIInv
  BY DEF LimiterInit, LimiterIInv, LimiterTypes, NoCrash, HoldsItsCounters, Running
<1> QED
  BY <1>1, LimiterStep, PTL DEF LimiterSpec

\* No interleaving of reservations, rollbacks, window ends and cleanups makes a
\* rollback fail on a counter that has been deleted (reserve, reserve_all).
THEOREM RollbackNeverFails == LimiterSpec => []NoCrash
BY LimiterInvariance, PTL DEF LimiterIInv

-----------------------------------------------------------------------------
\* Sums of costs over reservations.
UnitsOf(T) == UNION {{s} \X (1 .. Cost(s[1], s[2])) : s \in T}

LEMMA BatchTypes ==
  ASSUME NEW c \in Checks
  PROVE  /\ Len(BatchOf[c]) \in Nat
         /\ DOMAIN BatchOf[c] = 1 .. Len(BatchOf[c])
         /\ \A i \in DOMAIN BatchOf[c] : BatchOf[c][i] \in [bucket : Buckets, cost : Nat]
<1>1. BatchOf[c] \in Seq([bucket : Buckets, cost : Nat])
  BY LimiterAssumption
<1> DEFINE R == [bucket : Buckets, cost : Nat]
<1> HIDE DEF R
<1>2. BatchOf[c] \in Seq(R)
  BY <1>1 DEF R
<1>3. /\ Len(BatchOf[c]) \in Nat
      /\ DOMAIN BatchOf[c] = 1 .. Len(BatchOf[c])
      /\ \A i \in DOMAIN BatchOf[c] : BatchOf[c][i] \in R
  BY <1>2
<1> QED
  BY <1>3 DEF R

LEMMA SlotTypes ==
  ASSUME NEW s \in Slots
  PROVE  /\ s = <<s[1], s[2]>>
         /\ s[1] \in Checks
         /\ s[2] \in 1 .. Len(BatchOf[s[1]])
         /\ BatchOf[s[1]][s[2]].bucket \in Buckets
         /\ Cost(s[1], s[2]) \in Nat
<1>1. PICK c \in Checks : s \in {c} \X DOMAIN BatchOf[c]
  BY DEF Slots
<1>2. s = <<s[1], s[2]>> /\ s[1] = c /\ s[2] \in DOMAIN BatchOf[c]
  BY <1>1
<1>3. /\ DOMAIN BatchOf[c] = 1 .. Len(BatchOf[c])
      /\ \A i \in DOMAIN BatchOf[c] : BatchOf[c][i] \in [bucket : Buckets, cost : Nat]
  BY BatchTypes
<1>4. BatchOf[c][s[2]] \in [bucket : Buckets, cost : Nat]
  BY <1>2, <1>3
<1>5. BatchOf[c][s[2]].bucket \in Buckets /\ BatchOf[c][s[2]].cost \in Nat
  BY <1>4
<1> QED
  BY <1>2, <1>3, <1>5 DEF Cost

LEMMA SlotsFinite ==
  ASSUME NEW T \in SUBSET Slots
  PROVE  IsFiniteSet(T)
<1> DEFINE f == [c \in Checks |-> {c} \X DOMAIN BatchOf[c]]
           All == {{c} \X DOMAIN BatchOf[c] : c \in Checks}
<1>1. f \in Surjection(Checks, All)
  BY DEF Surjection
<1>2. IsFiniteSet(All)
  BY <1>1, LimiterAssumption, FS_Surjection
<1> HIDE DEF f, All
<1>3. ASSUME NEW c \in Checks PROVE IsFiniteSet({c} \X DOMAIN BatchOf[c])
  <2> DEFINE D == DOMAIN BatchOf[c]
  <2>1. D = 1 .. Len(BatchOf[c]) /\ Len(BatchOf[c]) \in Nat
    BY BatchTypes
  <2>2. IsFiniteSet(D)
    BY <2>1, FS_Interval
  <2>3. IsFiniteSet({c})
    BY FS_Singleton
  <2> HIDE DEF D
  <2>4. IsFiniteSet({c} \X D)
    BY <2>2, <2>3, FS_Product
  <2> QED
    BY <2>4 DEF D
<1>4. \A B \in All : IsFiniteSet(B)
  BY <1>3 DEF All
<1>5. IsFiniteSet(UNION All)
  BY <1>2, <1>4, FS_UNION
<1>6. Slots = UNION All
  BY DEF Slots, All
<1> QED
  BY <1>5, <1>6, FS_Subset

LEMMA SlotWeight ==
  ASSUME NEW s \in Slots
  PROVE  /\ IsFiniteSet({s} \X (1 .. Cost(s[1], s[2])))
         /\ Cardinality({s} \X (1 .. Cost(s[1], s[2]))) = Cost(s[1], s[2])
<1>1. Cost(s[1], s[2]) \in Nat
  BY SlotTypes
<1>2. /\ IsFiniteSet(1 .. Cost(s[1], s[2]))
      /\ Cardinality(1 .. Cost(s[1], s[2])) = Cost(s[1], s[2])
  BY <1>1, FS_Interval
<1>3. IsFiniteSet({s}) /\ Cardinality({s}) = 1
  BY FS_Singleton
<1>4. /\ IsFiniteSet({s} \X (1 .. Cost(s[1], s[2])))
      /\ Cardinality({s} \X (1 .. Cost(s[1], s[2]))) = Cardinality({s}) * Cardinality(1 .. Cost(s[1], s[2]))
  BY <1>2, <1>3, FS_Product
<1> QED
  BY <1>1, <1>2, <1>3, <1>4

LEMMA WeightFinite ==
  ASSUME NEW T \in SUBSET Slots
  PROVE  /\ IsFiniteSet(UnitsOf(T))
         /\ Weight(T) = Cardinality(UnitsOf(T))
         /\ Weight(T) \in Nat
<1> DEFINE f == [s \in T |-> {s} \X (1 .. Cost(s[1], s[2]))]
           All == {{s} \X (1 .. Cost(s[1], s[2])) : s \in T}
<1>1. f \in Surjection(T, All)
  BY DEF Surjection
<1>2. IsFiniteSet(All)
  BY <1>1, SlotsFinite, FS_Surjection
<1>3. \A B \in All : IsFiniteSet(B)
  BY SlotWeight
<1>4. IsFiniteSet(UNION All)
  BY <1>2, <1>3, FS_UNION
<1>5. UnitsOf(T) = UNION All /\ Weight(T) = Cardinality(UNION All)
  BY DEF UnitsOf, Weight
<1> QED
  BY <1>4, <1>5, FS_CardinalityType

LEMMA WeightSubset ==
  ASSUME NEW U \in SUBSET Slots, NEW T \in SUBSET U
  PROVE  Weight(T) <= Weight(U)
<1>1. UnitsOf(T) \subseteq UnitsOf(U)
  BY DEF UnitsOf
<1>2. T \in SUBSET Slots
  OBVIOUS
<1> QED
  BY <1>1, <1>2, WeightFinite, FS_Subset

LEMMA WeightAdd ==
  ASSUME NEW T \in SUBSET Slots, NEW s \in Slots, s \notin T
  PROVE  Weight(T \cup {s}) = Weight(T) + Cost(s[1], s[2])
<1> DEFINE U == {s} \X (1 .. Cost(s[1], s[2]))
<1>1. UnitsOf(T \cup {s}) = UnitsOf(T) \cup U
  BY DEF UnitsOf
<1>2. UnitsOf(T) \cap U = {}
  BY DEF UnitsOf
<1>3. IsFiniteSet(U) /\ Cardinality(U) = Cost(s[1], s[2]) /\ Cost(s[1], s[2]) \in Nat
  BY SlotWeight, SlotTypes
<1>4. /\ IsFiniteSet(UnitsOf(T)) /\ Weight(T) = Cardinality(UnitsOf(T)) /\ Weight(T) \in Nat
      /\ Weight(T \cup {s}) = Cardinality(UnitsOf(T \cup {s}))
  BY WeightFinite
<1> HIDE DEF U
<1>5. Cardinality(UnitsOf(T) \cup U) =
        Cardinality(UnitsOf(T)) + Cardinality(U) - Cardinality(UnitsOf(T) \cap U)
  BY <1>3, <1>4, FS_Union
<1>6. Cardinality(UnitsOf(T) \cap U) = 0
  BY <1>2, FS_EmptySet
<1>7. Weight(T \cup {s}) = Cardinality(UnitsOf(T) \cup U)
  BY <1>1, <1>4
<1> QED
  BY <1>3, <1>4, <1>5, <1>6, <1>7

-----------------------------------------------------------------------------
\* The counters.  A reservation that reserve found too much, and has not yet
\* given back, is the only one that may exceed a limit.
Kept(b, w) == {s \in Taken(Checks, b, w) : ~(call[s[1]] = "undo" /\ s[2] = taken[s[1]])}

KeptFits == \A b \in Buckets, w \in Nat : Weight(Kept(b, w)) <= LimitOf[b]

\* No counter is missing that a call could still add to, or give back.
RecentInTable ==
    \A c \in Checks : now <= win[c] + 1 => \A i \in 1 .. taken[c] : Key(c, i) \in DOMAIN table

BudgetIInv ==
    /\ \A c \in Checks : taken[c] <= Len(BatchOf[c]) /\ win[c] <= now
    /\ DOMAIN table \subseteq Buckets \X Nat
    /\ CountersExact
    /\ RecentInTable
    /\ KeptFits

LEMMA TakenSlots ==
  ASSUME NEW S, NEW b, NEW w
  PROVE  /\ Taken(S, b, w) \in SUBSET Slots
         /\ Kept(b, w) \in SUBSET Taken(Checks, b, w)
         /\ (Taken(S, b, w) \in SUBSET Slots)'
BY DEF Taken, Kept

\* A position of a call's batch, as a slot.
LEMMA SlotOf ==
  ASSUME NEW c \in Checks, NEW i \in 1 .. Len(BatchOf[c])
  PROVE  <<c, i>> \in Slots
BY BatchTypes DEF Slots

\* A call that has reserved one bucket more.
LEMMA ReserveTakes ==
  ASSUME LimiterIInv, NEW c \in Checks, NEW i \in 1 .. Len(BatchOf[c]), i = taken[c] + 1,
         taken' = [taken EXCEPT ![c] = i], win' = win, NEW b, NEW w
  PROVE  /\ <<c, i>> \in Slots /\ <<c, i>> \notin Taken(Checks, b, w)
         /\ Taken(Checks, b, w)' = IF Key(c, i) = <<b, w>> THEN Taken(Checks, b, w) \cup {<<c, i>>}
                                                           ELSE Taken(Checks, b, w)
<1>1. <<c, i>> \in Slots
  BY SlotOf
<1>2. taken[c] \in Nat /\ <<c, i>>[1] = c /\ <<c, i>>[2] = i
  BY DEF LimiterIInv, LimiterTypes
<1>3. <<c, i>> \notin Taken(Checks, b, w)
  BY <1>2 DEF Taken
<1>4. ASSUME NEW s \in Slots, s # <<c, i>>
      PROVE  s \in Taken(Checks, b, w)' <=> s \in Taken(Checks, b, w)
  <2>1. s = <<s[1], s[2]>> /\ s[1] \in Checks /\ s[2] \in 1 .. Len(BatchOf[s[1]])
    BY SlotTypes
  <2>2. Key(s[1], s[2])' = Key(s[1], s[2])
    BY DEF Key
  <2>3. s[2] <= taken'[s[1]] <=> s[2] <= taken[s[1]]
    <3>1. CASE s[1] = c
      <4>1. s[2] # i /\ s[2] \in Int
        BY <1>4, <2>1, <3>1
      <4>2. taken'[s[1]] = i
        BY <3>1 DEF LimiterIInv, LimiterTypes
      <4> QED
        BY <1>2, <3>1, <4>1, <4>2
    <3>2. CASE s[1] # c
      BY <2>1, <3>2 DEF LimiterIInv, LimiterTypes
    <3> QED
      BY <3>1, <3>2
  <2> QED
    BY <2>2, <2>3 DEF Taken
<1>5. <<c, i>> \in Taken(Checks, b, w)' <=> Key(c, i) = <<b, w>>
  <2>1. taken'[c] = i
    BY DEF LimiterIInv, LimiterTypes
  <2>2. Key(c, i)' = Key(c, i)
    BY DEF Key
  <2> QED
    BY <1>1, <1>2, <2>1, <2>2 DEF Taken
<1>6. Taken(Checks, b, w)' \subseteq Slots /\ Taken(Checks, b, w) \subseteq Slots
  BY TakenSlots
<1>7. Key(c, i) = <<b, w>> => Taken(Checks, b, w)' = Taken(Checks, b, w) \cup {<<c, i>>}
  BY <1>1, <1>3, <1>4, <1>5, <1>6
<1>8. Key(c, i) # <<b, w>> => Taken(Checks, b, w)' = Taken(Checks, b, w)
  <2> SUFFICES ASSUME Key(c, i) # <<b, w>>, NEW s \in Slots
               PROVE  s \in Taken(Checks, b, w)' <=> s \in Taken(Checks, b, w)
    BY <1>6
  <2> QED
    BY <1>3, <1>4, <1>5
<1> QED
  BY <1>1, <1>3, <1>7, <1>8

\* A step that reserves nothing and gives nothing back.
LEMMA SameTaken ==
  ASSUME LimiterIInv, taken' = taken,
         \A c \in Checks : taken[c] = 0 \/ win'[c] = win[c], NEW b, NEW w
  PROVE  Taken(Checks, b, w)' = Taken(Checks, b, w)
<1>1. ASSUME NEW s \in Slots PROVE s \in Taken(Checks, b, w)' <=> s \in Taken(Checks, b, w)
  <2>1. s[1] \in Checks /\ s[2] >= 1 /\ s[2] \in Int
    BY SlotTypes
  <2>2. CASE taken[s[1]] = 0
    BY <2>1, <2>2 DEF Taken
  <2>3. CASE win'[s[1]] = win[s[1]]
    <3>1. Key(s[1], s[2])' = Key(s[1], s[2])
      BY <2>3 DEF Key
    <3> QED
      BY <3>1 DEF Taken
  <2> QED
    BY <2>1, <2>2, <2>3
<1>2. Taken(Checks, b, w)' \subseteq Slots /\ Taken(Checks, b, w) \subseteq Slots
  BY TakenSlots
<1> QED
  BY <1>1, <1>2

LEMMA KeptShrinks ==
  ASSUME KeptFits, \A b \in Buckets, w \in Nat : Kept(b, w)' \subseteq Kept(b, w)
  PROVE  KeptFits'
<1> SUFFICES ASSUME NEW b \in Buckets, NEW w \in Nat PROVE Weight(Kept(b, w)') <= LimitOf[b]
  BY DEF KeptFits, Weight, Cost
<1>1. Kept(b, w) \in SUBSET Slots /\ Kept(b, w)' \in SUBSET Kept(b, w)
  BY TakenSlots
<1>2. /\ Weight(Kept(b, w)') <= Weight(Kept(b, w)) /\ Weight(Kept(b, w)') \in Nat
      /\ Weight(Kept(b, w)) \in Nat
  BY <1>1, WeightSubset, WeightFinite
<1>3. Weight(Kept(b, w)) <= LimitOf[b] /\ LimitOf[b] \in Nat
  BY LimiterAssumption DEF KeptFits
<1> QED
  BY <1>2, <1>3

\* reserve: the counter is compared after it was raised, so what is kept fits.
LEMMA ReserveBudget ==
  ASSUME LimiterIInv, BudgetIInv, NEW c \in Checks, Reserve(c)
  PROVE  BudgetIInv'
<1>1. /\ call[c] = "reserve" /\ taken[c] < Len(BatchOf[c])
      /\ now' = now /\ win' = win
      /\ Add(Key(c, taken[c] + 1), Cost(c, taken[c] + 1))
      /\ taken' = [taken EXCEPT ![c] = taken[c] + 1]
      /\ call' = [call EXCEPT ![c] = IF table'[Key(c, taken[c] + 1)] > Limit(c, taken[c] + 1)
                                     THEN "undo" ELSE @]
  BY Zenon DEF Reserve
<1>2. /\ taken[c] \in Nat /\ win[c] \in Nat /\ now \in Nat /\ Running(c)
      /\ taken \in [Checks -> Nat] /\ call \in [Checks -> {"new", "reserve", "undo", "rollback", "ok", "limited", "crashed"}]
  BY <1>1 DEF LimiterIInv, LimiterTypes, Running
<1> PICK i \in 1 .. Len(BatchOf[c]) : i = taken[c] + 1
  BY <1>1, <1>2, BatchTypes
<1> DEFINE K == Key(c, i)
<1>3. /\ Add(K, Cost(c, i))
      /\ taken' = [taken EXCEPT ![c] = i]
      /\ call' = [call EXCEPT ![c] = IF table'[K] > Limit(c, i) THEN "undo" ELSE @]
  BY <1>1
<1>4. <<c, i>> \in Slots /\ <<c, i>>[1] = c /\ <<c, i>>[2] = i
  BY SlotOf
<1>5. K = <<BatchOf[c][i].bucket, win[c]>> /\ BatchOf[c][i].bucket \in Buckets /\ K \in Buckets \X Nat
      /\ Cost(c, i) \in Nat
  BY <1>2, <1>4, SlotTypes DEF Key
<1>6. ASSUME NEW b, NEW w
      PROVE  /\ <<c, i>> \notin Taken(Checks, b, w)
             /\ Taken(Checks, b, w)' = IF K = <<b, w>> THEN Taken(Checks, b, w) \cup {<<c, i>>}
                                                       ELSE Taken(Checks, b, w)
  <2>1. i = taken[c] + 1 /\ taken' = [taken EXCEPT ![c] = i] /\ win' = win
    BY <1>1, <1>3
  <2> QED
    BY <2>1, ReserveTakes, Zenon
<1> PICK b0 \in Buckets, w0 \in Nat : b0 = BatchOf[c][i].bucket /\ w0 = win[c] /\ K = <<b0, w0>>
  BY <1>5, <1>2
<1>6a. K = <<b0, w0>> /\ K[1] = b0 /\ K[2] = w0
  OBVIOUS
<1> HIDE DEF K
<1>7. ASSUME K \notin DOMAIN table PROVE Reserved(Checks, b0, w0) = 0
  <2>1. ASSUME NEW s \in Taken(Checks, b0, w0) PROVE FALSE
    <3>1. /\ s \in Slots /\ s[2] <= taken[s[1]] /\ Key(s[1], s[2]) = K
      BY <2>1, <1>6a DEF Taken
    <3>2. s[1] \in Checks /\ s[2] \in 1 .. Len(BatchOf[s[1]])
      BY <3>1, SlotTypes
    <3>3. s[2] \in 1 .. taken[s[1]] /\ taken[s[1]] \in Nat
      BY <1>2, <3>1, <3>2
    <3>4. win[s[1]] = win[c]
      BY <1>6a, <3>1 DEF Key
    <3>5. now <= win[c] + 1
      BY <1>2 DEF LimiterIInv, HoldsItsCounters
    <3>6. Key(s[1], s[2]) \in DOMAIN table
      BY <3>2, <3>3, <3>4, <3>5 DEF BudgetIInv, RecentInTable
    <3> QED
      BY <1>7, <3>1, <3>6
  <2>2. UNION {{s} \X (1 .. Cost(s[1], s[2])) : s \in Taken(Checks, b0, w0)} = {}
    BY <2>1
  <2> QED
    BY <2>2, FS_EmptySet DEF Reserved, Weight
<1>8. Weight(Taken(Checks, b0, w0)') = Reserved(Checks, b0, w0) + Cost(c, i)
  <2>1. Taken(Checks, b0, w0)' = Taken(Checks, b0, w0) \cup {<<c, i>>}
    BY <1>6a, <1>6
  <2>2. Weight(Taken(Checks, b0, w0) \cup {<<c, i>>}) = Weight(Taken(Checks, b0, w0)) + Cost(c, i)
    BY <1>4, <1>6, TakenSlots, WeightAdd
  <2> QED
    BY <2>1, <2>2 DEF Reserved
<1>9. /\ DOMAIN table' = DOMAIN table \cup {K}
      /\ \A k \in DOMAIN table : k # K => table'[k] = table[k]
      /\ table'[K] = IF K \in DOMAIN table THEN table[K] + Cost(c, i) ELSE Cost(c, i)
  BY <1>3 DEF Add
<1>10. table'[K] = Weight(Taken(Checks, b0, w0)')
  <2>2. K \in DOMAIN table => table[K] = Reserved(Checks, b0, w0)
    BY <1>6a DEF BudgetIInv, CountersExact
  <2>3. Weight(Taken(Checks, b0, w0)') \in Nat /\ Reserved(Checks, b0, w0) \in Nat
    BY TakenSlots, WeightFinite DEF Reserved
  <2> QED
    BY <1>5, <1>7, <1>8, <1>9, <2>2, <2>3
<1>11. CountersExact'
  <2> SUFFICES ASSUME NEW k \in DOMAIN table' PROVE table'[k] = Weight(Taken(Checks, k[1], k[2])')
    BY DEF CountersExact, Reserved, Weight, Cost
  <2>1. CASE k = K
    BY <1>6a, <1>10, <2>1
  <2>2. CASE k # K
    <3>1. k \in DOMAIN table /\ table'[k] = table[k]
      BY <1>9, <2>2
    <3>2. k = <<k[1], k[2]>>
      BY <3>1 DEF BudgetIInv
    <3>3. Taken(Checks, k[1], k[2])' = Taken(Checks, k[1], k[2])
      BY <1>6, <2>2, <3>2
    <3> QED
      BY <3>1, <3>3 DEF BudgetIInv, CountersExact, Reserved
  <2> QED
    BY <2>1, <2>2
<1>12. RecentInTable'
  <2> SUFFICES ASSUME NEW d \in Checks, now <= win[d] + 1, NEW j \in 1 .. taken'[d]
               PROVE  Key(d, j) \in DOMAIN table'
    BY <1>1 DEF RecentInTable, Key
  <2>1. CASE d = c /\ j = i
    BY <1>9, <2>1 DEF K
  <2>2. CASE ~(d = c /\ j = i)
    <3>1. j \in 1 .. taken[d]
      BY <1>1, <1>2, <1>3, <2>2
    <3> QED
      BY <1>9, <3>1 DEF BudgetIInv, RecentInTable
  <2> QED
    BY <2>1, <2>2
<1>13. ASSUME NEW b, NEW w, NEW s \in Kept(b, w)', s # <<c, i>> \/ call'[c] = "undo"
       PROVE  s \in Kept(b, w)
  <2>1. s \in Taken(Checks, b, w)' /\ ~(call'[s[1]] = "undo" /\ s[2] = taken'[s[1]])
    BY <1>13 DEF Kept
  <2>2. s \in Slots
    BY <2>1, TakenSlots
  <2>3. s # <<c, i>>
    BY <1>1, <1>2, <1>3, <1>4, <1>13, <2>1
  <2>4. s \in Taken(Checks, b, w)
    BY <1>6, <2>1, <2>3
  <2>5. s[1] \in Checks
    BY <2>2, SlotTypes
  <2>6. ~(call[s[1]] = "undo" /\ s[2] = taken[s[1]])
    BY <1>1, <1>2, <1>3, <2>1, <2>5
  <2> QED
    BY <2>4, <2>6 DEF Kept
<1>14. KeptFits'
  <2>1. CASE table'[K] > Limit(c, i)
    <3>1. call'[c] = "undo"
      BY <1>1, <1>2, <1>3, <2>1
    <3> QED
      BY <3>1, <1>13, KeptShrinks DEF BudgetIInv
  <2>2. CASE ~(table'[K] > Limit(c, i))
    <3> SUFFICES ASSUME NEW b \in Buckets, NEW w \in Nat PROVE Weight(Kept(b, w)') <= LimitOf[b]
      BY DEF KeptFits, Weight, Cost
    <3>1. LimitOf[b] \in Nat
      BY LimiterAssumption
    <3>2. CASE K = <<b, w>>
      <4>1. b = b0 /\ w = w0 /\ Limit(c, i) = LimitOf[b]
        BY <1>6a, <3>2 DEF Limit
      <4>2. Kept(b, w)' \in SUBSET Taken(Checks, b, w)' /\ Taken(Checks, b, w)' \in SUBSET Slots
        BY TakenSlots DEF Kept
      <4>3. /\ Weight(Kept(b, w)') <= Weight(Taken(Checks, b, w)')
            /\ Weight(Kept(b, w)') \in Nat /\ Weight(Taken(Checks, b, w)') \in Nat
        BY <4>2, WeightSubset, WeightFinite
      <4> QED
        BY <1>10, <2>2, <3>1, <4>1, <4>3
    <3>3. CASE K # <<b, w>>
      <4>1. <<c, i>> \notin Kept(b, w)'
        BY <1>6, <3>3 DEF Kept
      <4>2. Kept(b, w)' \in SUBSET Kept(b, w) /\ Kept(b, w) \in SUBSET Slots
        BY <4>1, <1>13, TakenSlots
      <4>3. /\ Weight(Kept(b, w)') <= Weight(Kept(b, w))
            /\ Weight(Kept(b, w)') \in Nat /\ Weight(Kept(b, w)) \in Nat
        BY <4>2, WeightSubset, WeightFinite
      <4>4. Weight(Kept(b, w)) <= LimitOf[b]
        BY DEF BudgetIInv, KeptFits
      <4> QED
        BY <3>1, <4>3, <4>4
    <3> QED
      BY <3>2, <3>3
  <2> QED
    BY <2>1, <2>2
<1>15. \A d \in Checks : taken'[d] <= Len(BatchOf[d]) /\ win'[d] <= now'
  BY <1>1, <1>2, <1>3 DEF BudgetIInv
<1> QED
  BY <1>5, <1>9, <1>11, <1>12, <1>14, <1>15 DEF BudgetIInv

\* undo and rollback: the counter loses exactly what the call had added.
LEMMA GiveBackBudget ==
  ASSUME LimiterIInv, BudgetIInv, NEW c \in Checks, call[c] \in {"undo", "rollback"}, GiveBack(c)
  PROVE  BudgetIInv'
<1>1. /\ taken[c] \in Nat /\ taken[c] >= 1 /\ taken[c] <= Len(BatchOf[c])
      /\ Key(c, taken[c]) \in DOMAIN table
      /\ win[c] \in Nat /\ now \in Nat /\ taken \in [Checks -> Nat]
      /\ call \in [Checks -> {"new", "reserve", "undo", "rollback", "ok", "limited", "crashed"}]
  BY DEF LimiterIInv, LimiterTypes, HoldsItsCounters, Running, BudgetIInv
<1> PICK i \in 1 .. Len(BatchOf[c]) : i = taken[c]
  BY <1>1, BatchTypes
<1>2. /\ taken' = [taken EXCEPT ![c] = i - 1]
      /\ Add(Key(c, i), 0 - Cost(c, i))
      /\ call' = [call EXCEPT ![c] = IF i = 1 THEN "limited" ELSE "rollback"]
      /\ now' = now /\ win' = win
  BY <1>1, Zenon DEF GiveBack
<1>3. <<c, i>> \in Slots /\ <<c, i>>[1] = c /\ <<c, i>>[2] = i /\ Cost(c, i) \in Nat
  BY SlotOf, SlotTypes
<1>4. ASSUME NEW b, NEW w
      PROVE  /\ <<c, i>> \in Taken(Checks, b, w) <=> Key(c, i) = <<b, w>>
             /\ Taken(Checks, b, w)' = Taken(Checks, b, w) \ {<<c, i>>}
  <2>1. <<c, i>> \in Slots
    BY SlotOf
  <2>2. taken[c] \in Nat /\ <<c, i>>[1] = c /\ <<c, i>>[2] = i
    BY DEF LimiterIInv, LimiterTypes
  <2>3. <<c, i>> \in Taken(Checks, b, w) <=> Key(c, i) = <<b, w>>
    BY <2>1, <2>2 DEF Taken
  <2>4. ASSUME NEW s \in Slots, s # <<c, i>>
        PROVE  s \in Taken(Checks, b, w)' <=> s \in Taken(Checks, b, w)
    <3>1. s = <<s[1], s[2]>> /\ s[1] \in Checks /\ s[2] \in 1 .. Len(BatchOf[s[1]])
      BY SlotTypes
    <3>2. Key(s[1], s[2])' = Key(s[1], s[2])
      BY <1>2 DEF Key
    <3>3. s[2] <= taken'[s[1]] <=> s[2] <= taken[s[1]]
      <4>1. CASE s[1] = c
        <5>1. s[2] # i /\ s[2] \in Int
          BY <2>4, <3>1, <4>1
        <5>2. taken'[s[1]] = i - 1
          BY <1>1, <1>2, <4>1
        <5> QED
          BY <2>2, <4>1, <5>1, <5>2
      <4>2. CASE s[1] # c
        BY <1>1, <1>2, <3>1, <4>2
      <4> QED
        BY <4>1, <4>2
    <3> QED
      BY <3>2, <3>3 DEF Taken
  <2>5. <<c, i>> \notin Taken(Checks, b, w)'
    <3>1. taken'[c] = i - 1
      BY <1>1, <1>2
    <3> QED
      BY <2>2, <3>1 DEF Taken
  <2>6. Taken(Checks, b, w)' \subseteq Slots /\ Taken(Checks, b, w) \subseteq Slots
    BY TakenSlots
  <2> QED
    BY <2>1, <2>3, <2>4, <2>5, <2>6
<1>5. /\ DOMAIN table' = DOMAIN table
      /\ \A k \in DOMAIN table : k # Key(c, i) => table'[k] = table[k]
      /\ table'[Key(c, i)] = table[Key(c, i)] + (0 - Cost(c, i))
  BY <1>1, <1>2 DEF Add
<1>6. CountersExact'
  <2> SUFFICES ASSUME NEW k \in DOMAIN table' PROVE table'[k] = Weight(Taken(Checks, k[1], k[2])')
    BY DEF CountersExact, Reserved, Weight, Cost
  <2>0. k \in DOMAIN table /\ k = <<k[1], k[2]>>
    BY <1>5 DEF BudgetIInv
  <2>a. table[k] = Weight(Taken(Checks, k[1], k[2]))
    BY <2>0 DEF BudgetIInv, CountersExact, Reserved
  <2>b. /\ Taken(Checks, k[1], k[2]) \in SUBSET Slots
        /\ Taken(Checks, k[1], k[2]) \ {<<c, i>>} \in SUBSET Slots
    BY TakenSlots
  <2>1. CASE k = Key(c, i)
    <3>1. <<c, i>> \in Taken(Checks, k[1], k[2])
      BY <1>4, <2>0, <2>1
    <3>2. Taken(Checks, k[1], k[2]) = (Taken(Checks, k[1], k[2]) \ {<<c, i>>}) \cup {<<c, i>>}
      BY <3>1
    <3>3. Weight((Taken(Checks, k[1], k[2]) \ {<<c, i>>}) \cup {<<c, i>>})
            = Weight(Taken(Checks, k[1], k[2]) \ {<<c, i>>}) + Cost(c, i)
      BY <1>3, <2>b, WeightAdd
    <3>4. Weight(Taken(Checks, k[1], k[2]) \ {<<c, i>>}) \in Nat
      BY <2>b, WeightFinite
    <3>5. Weight(Taken(Checks, k[1], k[2])) = Weight(Taken(Checks, k[1], k[2]) \ {<<c, i>>}) + Cost(c, i)
      BY <3>2, <3>3
    <3>6. Taken(Checks, k[1], k[2])' = Taken(Checks, k[1], k[2]) \ {<<c, i>>}
      BY <1>4
    <3> QED
      BY <1>3, <1>5, <2>1, <2>a, <3>4, <3>5, <3>6
  <2>2. CASE k # Key(c, i)
    <3>0. <<c, i>> \notin Taken(Checks, k[1], k[2])
      BY <1>4, <2>0, <2>2
    <3>1. Taken(Checks, k[1], k[2])' = Taken(Checks, k[1], k[2])
      BY <1>4, <3>0
    <3> QED
      BY <1>5, <2>0, <2>2, <2>a, <3>1
  <2> QED
    BY <2>1, <2>2
<1>7. RecentInTable'
  <2> SUFFICES ASSUME NEW d \in Checks, now <= win[d] + 1, NEW j \in 1 .. taken'[d]
               PROVE  Key(d, j) \in DOMAIN table
    BY <1>2, <1>5 DEF RecentInTable, Key
  <2>1. j \in 1 .. taken[d]
    BY <1>1, <1>2
  <2> QED
    BY <2>1 DEF BudgetIInv, RecentInTable
<1>8. KeptFits'
  <2> SUFFICES ASSUME NEW b \in Buckets, NEW w \in Nat, NEW s \in Kept(b, w)'
               PROVE  s \in Kept(b, w)
    BY KeptShrinks DEF BudgetIInv
  <2>1. s \in Taken(Checks, b, w)' /\ ~(call'[s[1]] = "undo" /\ s[2] = taken'[s[1]])
    BY DEF Kept
  <2>2. s \in Taken(Checks, b, w) /\ s # <<c, i>>
    BY <1>4, <2>1
  <2>3. s \in Slots /\ s[1] \in Checks /\ s = <<s[1], s[2]>>
    BY <2>2, TakenSlots, SlotTypes
  <2>4. ~(call[s[1]] = "undo" /\ s[2] = taken[s[1]])
    BY <1>1, <1>2, <2>1, <2>2, <2>3
  <2> QED
    BY <2>2, <2>4 DEF Kept
<1>9. \A d \in Checks : taken'[d] <= Len(BatchOf[d]) /\ win'[d] <= now'
  BY <1>1, <1>2 DEF BudgetIInv
<1> QED
  BY <1>5, <1>6, <1>7, <1>8, <1>9 DEF BudgetIInv

\* A step that leaves the reservations and what is left of the counters alone.
LEMMA QuietBudget ==
  ASSUME LimiterIInv, BudgetIInv, taken' = taken,
         \A c \in Checks : win'[c] <= now',
         \A c \in Checks : taken[c] = 0 \/ win'[c] = win[c],
         \A c \in Checks : taken[c] # 0 /\ now' <= win'[c] + 1 => now <= win[c] + 1,
         DOMAIN table' \subseteq DOMAIN table,
         \A k \in DOMAIN table' : table'[k] = table[k],
         \A k \in DOMAIN table : k[2] + 1 >= now' => k \in DOMAIN table',
         \A c \in Checks : call'[c] = call[c] \/ call[c] # "undo"
  PROVE  BudgetIInv'
<1>1. ASSUME NEW b, NEW w PROVE Taken(Checks, b, w)' = Taken(Checks, b, w)
  BY SameTaken
<1>2. CountersExact'
  <2> SUFFICES ASSUME NEW k \in DOMAIN table' PROVE table'[k] = Weight(Taken(Checks, k[1], k[2])')
    BY DEF CountersExact, Reserved, Weight, Cost
  <2> QED
    BY <1>1 DEF BudgetIInv, CountersExact, Reserved
<1>3. RecentInTable'
  <2> SUFFICES ASSUME NEW c \in Checks, now' <= win'[c] + 1, NEW j \in 1 .. taken[c]
               PROVE  Key(c, j)' \in DOMAIN table'
    BY DEF RecentInTable
  <2>1. taken[c] \in Nat /\ win[c] \in Nat
    BY DEF LimiterIInv, LimiterTypes
  <2>2. taken[c] # 0
    BY <2>1
  <2>3. Key(c, j)' = Key(c, j) /\ Key(c, j)[2] = win[c]
    BY <2>2 DEF Key
  <2>4. Key(c, j) \in DOMAIN table
    BY <2>2 DEF BudgetIInv, RecentInTable
  <2>5. win[c] + 1 >= now'
    BY <2>2
  <2> QED
    BY <2>3, <2>4, <2>5
<1>4. KeptFits'
  <2> SUFFICES ASSUME NEW b \in Buckets, NEW w \in Nat, NEW s \in Kept(b, w)'
               PROVE  s \in Kept(b, w)
    BY KeptShrinks DEF BudgetIInv
  <2>1. s \in Taken(Checks, b, w) /\ ~(call'[s[1]] = "undo" /\ s[2] = taken[s[1]])
    BY <1>1 DEF Kept
  <2>2. s[1] \in Checks
    BY <2>1, TakenSlots, SlotTypes
  <2> QED
    BY <2>1, <2>2 DEF Kept
<1> QED
  BY <1>2, <1>3, <1>4 DEF BudgetIInv

LEMMA BudgetStep ==
  ASSUME LimiterIInv, BudgetIInv, [LimiterNext]_limiterVars
  PROVE  BudgetIInv'
<1>0. /\ now \in Nat /\ win \in [Checks -> Nat] /\ \A c \in Checks : win[c] <= now
      /\ call \in [Checks -> {"new", "reserve", "undo", "rollback", "ok", "limited", "crashed"}]
      /\ DOMAIN table \subseteq Buckets \X Nat
  BY DEF LimiterIInv, LimiterTypes, BudgetIInv
<1>1. ASSUME NEW c \in Checks, Start(c) PROVE BudgetIInv'
  <2>1. /\ call[c] = "new" /\ call' = [call EXCEPT ![c] = "reserve"]
        /\ win' = [win EXCEPT ![c] = now]
        /\ now' = now /\ table' = table /\ taken' = taken
    BY <1>1 DEF Start
  <2>2. taken[c] = 0
    BY <2>1 DEF LimiterIInv, LimiterTypes
  <2> QED
    BY <1>0, <2>1, <2>2, QuietBudget
<1>2. ASSUME NEW c \in Checks, Reserve(c) PROVE BudgetIInv'
  BY <1>2, ReserveBudget
<1>3. ASSUME NEW c \in Checks, Admit(c) PROVE BudgetIInv'
  <2>1. /\ call[c] = "reserve" /\ call' = [call EXCEPT ![c] = "ok"]
        /\ UNCHANGED <<now, table, win, taken>>
    BY <1>3 DEF Admit
  <2> QED
    BY <1>0, <2>1, QuietBudget
<1>4. ASSUME NEW c \in Checks, Undo(c) \/ RollbackTaken(c) PROVE BudgetIInv'
  BY <1>4, GiveBackBudget DEF Undo, RollbackTaken
<1>5. CASE Tick
  BY <1>0, <1>5, QuietBudget DEF Tick
<1>6. CASE Cleanup
  <2>1. /\ DOMAIN table' = {k \in DOMAIN table : ~(k[2] < now - 1)}
        /\ \A k \in DOMAIN table' : table'[k] = table[k]
        /\ now' = now /\ call' = call /\ win' = win /\ taken' = taken
    BY <1>6 DEF Cleanup
  <2>2. \A k \in DOMAIN table : k[2] \in Nat
    BY <1>0
  <2> QED
    BY <1>0, <2>1, <2>2, QuietBudget
<1>7. CASE UNCHANGED limiterVars
  BY <1>0, <1>7, QuietBudget DEF limiterVars
<1> QED
  BY <1>1, <1>2, <1>3, <1>4, <1>5, <1>6, <1>7 DEF LimiterNext, CheckStep

\* No bucket lets more through in a window than its limit, the counters are
\* what was admitted and what is still held, and no rollback fails, for any
\* calls, costs and limits and whatever reservations, rollbacks, window ends
\* and cleanups interleave (check_buckets, reserve_all, handle_info).
THEOREM BudgetsAreKept == LimiterSpec => []BudgetsHold
<1>1. LimiterInit => BudgetIInv
  <2> SUFFICES ASSUME LimiterInit PROVE BudgetIInv
    OBVIOUS
  <2>1. DOMAIN table = {} /\ \A c \in Checks : taken[c] = 0 /\ win[c] = 0 /\ now = 0
    BY DEF LimiterInit
  <2>2. ASSUME NEW b \in Buckets, NEW w \in Nat PROVE Weight(Kept(b, w)) <= LimitOf[b]
    <3>1. \A s \in Slots : s[1] \in Checks /\ s[2] \in Nat /\ s[2] >= 1
      BY SlotTypes
    <3>2. Taken(Checks, b, w) = {}
      BY <2>1, <3>1 DEF Taken
    <3>3. UNION {{s} \X (1 .. Cost(s[1], s[2])) : s \in Kept(b, w)} = {}
      BY <3>2 DEF Kept
    <3>4. Weight(Kept(b, w)) = 0
      BY <3>3, FS_EmptySet DEF Weight
    <3> QED
      BY <3>4, LimiterAssumption
  <2>3. \A c \in Checks : taken[c] <= Len(BatchOf[c]) /\ win[c] <= now
    BY <2>1, BatchTypes
  <2> QED
    BY <2>1, <2>2, <2>3 DEF BudgetIInv, CountersExact, RecentInTable, KeptFits
<1>2. LimiterIInv /\ BudgetIInv /\ [LimiterNext]_limiterVars => BudgetIInv'
  BY BudgetStep
<1>3. LimiterIInv /\ BudgetIInv => BudgetsHold
  <2> SUFFICES ASSUME LimiterIInv, BudgetIInv PROVE NeverOverAdmitted
    BY DEF BudgetsHold, LimiterIInv, BudgetIInv
  <2> SUFFICES ASSUME NEW b \in Buckets, NEW w \in Windows
               PROVE  Weight(Taken(Admitted, b, w)) <= LimitOf[b]
    BY DEF NeverOverAdmitted, Reserved
  <2>1. w \in Nat
    BY LimiterAssumption DEF Windows
  <2>2. Taken(Admitted, b, w) \in SUBSET Kept(b, w) /\ Kept(b, w) \in SUBSET Slots
    BY TakenSlots DEF Taken, Kept, Admitted
  <2>3. /\ Weight(Taken(Admitted, b, w)) <= Weight(Kept(b, w))
        /\ Weight(Taken(Admitted, b, w)) \in Nat /\ Weight(Kept(b, w)) \in Nat
    BY <2>2, WeightSubset, WeightFinite
  <2>4. Weight(Kept(b, w)) <= LimitOf[b] /\ LimitOf[b] \in Nat
    BY <2>1, LimiterAssumption DEF BudgetIInv, KeptFits
  <2> QED
    BY <2>3, <2>4
<1> QED
  BY <1>1, <1>2, <1>3, LimiterInvariance, PTL DEF LimiterSpec
=============================================================================
