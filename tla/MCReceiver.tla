----------------------------- MODULE MCReceiver -----------------------------
(***************************************************************************)
(* The receiving side of a stream, in two instances that do not meet:      *)
(* three handlers of envelopes, and four calls of the rate limiter that    *)
(* stands before them.                                                     *)
(*                                                                         *)
(* Stream s1 carries two envelopes, stream s2 one, which shares its        *)
(* idempotency key with the first of s1.  The limiter's calls are a single *)
(* event of room r1, a batch over both rooms, one that exceeds the limit   *)
(* of r1, and one of r2 only.                                              *)
(***************************************************************************)
EXTENDS IngestTx, IngressRateLimiter, TLC

CONSTANTS a1, a2, b1, s1, s2, k1, k2, h1, h2, h3
CONSTANTS c1, c2, c3, c4, peer, r1, r2

MCEvents == {a1, a2, b1}
MCStreams == {s1, s2}
MCKeys == {k1, k2}
MCStreamOf == (a1 :> s1) @@ (a2 :> s1) @@ (b1 :> s2)
MCSeqOf == (a1 :> 1) @@ (a2 :> 2) @@ (b1 :> 1)
MCKeyOf == (a1 :> k1) @@ (a2 :> k2) @@ (b1 :> k1)
MCHandlers == {h1, h2, h3}

Reservation(b, n) == [bucket |-> b, cost |-> n]

MCChecks == {c1, c2, c3, c4}
MCBatchOf ==
    (c1 :> <<Reservation(peer, 1), Reservation(r1, 1)>>)
    @@ (c2 :> <<Reservation(peer, 2), Reservation(r1, 1), Reservation(r2, 1)>>)
    @@ (c3 :> <<Reservation(peer, 3), Reservation(r1, 3)>>)
    @@ (c4 :> <<Reservation(peer, 2), Reservation(r2, 2)>>)
MCBuckets == {peer, r1, r2}
MCLimitOf == (peer :> 4) @@ (r1 :> 2) @@ (r2 :> 2)

VARIABLE part       \* which of the two instances acts

MCInit == part \in {"ingest", "limiter"} /\ TxInit /\ LimiterInit

MCNext == /\ UNCHANGED part
          /\ \/ part = "ingest" /\ TxNext /\ UNCHANGED limiterVars
             \/ part = "limiter" /\ LimiterNext /\ UNCHANGED allVars

MCSpec ==
    /\ MCInit
    /\ [][MCNext]_<<part, allVars, limiterVars>>
    /\ \A h \in Handlers :
          SF_allVars(part = "ingest" /\ Step(h) /\ UNCHANGED <<part, limiterVars>>)
=============================================================================
