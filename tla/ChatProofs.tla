------------------------------ MODULE ChatProofs ------------------------------
(***************************************************************************)
(* Two things that happen to a chat message, and one to its reader.        *)
(*                                                                         *)
(* It is mirrored by another server (StreamRecovery): for every set of     *)
(* messages and handlers, any page size and any number of writes and       *)
(* failures, what is mirrored is exactly what was received, and replay     *)
(* repairs every gap it can, in a stream without snapshots; and, with      *)
(* snapshots too when one handler imports them, neither the mirror nor the *)
(* high-water mark goes back.  Writes of one message are published one     *)
(* after the other (~Overlap).                                             *)
(*                                                                         *)
(* It is encrypted (ChatE2EE): for any devices, conversations and keys it  *)
(* can be read by the devices it was encrypted for and by no other.        *)
(*                                                                         *)
(* It is read (MessageList): however many conversations are opened, and    *)
(* with any number of timers of a restore, a reader who comes back finds   *)
(* the place that was left.                                                *)
(***************************************************************************)
EXTENDS Integers, StreamRecovery, ChatE2EE, MessageList, FiniteSetTheorems,
        WellFoundedInduction, TLAPS

\* Snapshots are imported by one handler only.
Alone == HasSnapshot => \A g, h \in Handlers : g = h

(* Finite sets of numbers *)

\* A set of natural numbers that is not empty has a least element.
LEMMA LeastNumber ==
  ASSUME NEW S \in SUBSET Nat, S # {}
  PROVE  \E n \in S : \A m \in S : n <= m
<1> DEFINE R == OpToRel(<, Nat)
<1>1. IsWellFoundedOn(R, Nat)
  BY NatLessThanWellFounded
<1>2. PICK n \in S : \A m \in S : <<m, n>> \notin R
  <2> HIDE DEF R
  <2> QED
    BY <1>1, WFMin
<1>3. \A m \in S : ~(m < n)
  BY <1>2 DEF OpToRel
<1> QED
  BY <1>3

\* A set of natural numbers with a bound that is not empty has a greatest one.
LEMMA GreatestNumber ==
  ASSUME NEW k \in Nat, NEW S \in SUBSET (0 .. k), S # {}
  PROVE  \E n \in S : \A m \in S : m <= n
<1> DEFINE T == {m \in Nat : \E n \in S : m = k - n}
<1>1. T \in SUBSET Nat /\ \A n \in S : k - n \in T
  OBVIOUS
<1>1a. T # {}
  BY <1>1
<1>2. PICK t \in T : \A u \in T : t <= u
  BY <1>1, <1>1a, LeastNumber
<1>3. PICK n \in S : t = k - n
  BY <1>2
<1>4. \A m \in S : k - n <= k - m
  BY <1>1, <1>2, <1>3
<1> QED
  BY <1>3, <1>4

\* FirstOf chooses the least element.
LEMMA FirstIsLeast ==
  ASSUME NEW S \in SUBSET Nat, S # {}
  PROVE  FirstOf(S) \in S /\ \A m \in S : FirstOf(S) <= m
<1>1. \E n \in S : \A m \in S : n <= m
  BY LeastNumber
<1> QED
  BY <1>1 DEF FirstOf

-----------------------------------------------------------------------------
(* The inductive invariant *)

Drafts == [obj : Objects, ver : Nat \ {0}]
AllEnvelopes == [seq : Nat \ {0}, obj : Objects, ver : Nat \ {0}]
Envelopes == numbered \cup outbox
Known == {e.seq : e \in outbox}

\* A write is a draft, then an envelope: there are no more sequences than
\* writes.
SenderTypes ==
    /\ writes \in 0 .. MaxWrites
    /\ store \in [Objects -> Nat] /\ \A o \in Objects : store[o] <= writes
    /\ unnumbered \in SUBSET Drafts /\ IsFiniteSet(unnumbered)
    /\ numbered \in SUBSET AllEnvelopes /\ outbox \in SUBSET AllEnvelopes
    /\ counter \in Nat \ {0}
    /\ counter + Cardinality(unnumbered) = writes + 1

\* A sequence is given once, and the sequences of a message follow its versions;
\* what is not in the outbox yet is its latest version.
SenderInv ==
    /\ SenderTypes
    /\ \A e \in Envelopes : e.seq < counter /\ e.ver <= store[e.obj]
    /\ \A e, f \in Envelopes : e.seq = f.seq => e = f
    /\ \A e, f \in Envelopes : e.obj = f.obj /\ e.seq < f.seq => e.ver < f.ver
    /\ \A e \in numbered : e.ver = store[e.obj]
    /\ \A p \in unnumbered : p.ver = store[p.obj]
    /\ \A p, q \in unnumbered : p.obj = q.obj => p = q
    /\ \A p \in unnumbered, e \in Envelopes : e.obj = p.obj => e.ver < p.ver

\* No event that is still to come is older than what is mirrored.
ReceiverInv ==
    /\ pos \in 0 .. (counter - 1)
    /\ mirror \in [Objects -> Nat] /\ \A o \in Objects : mirror[o] <= store[o]
    /\ claims \subseteq 1 .. pos /\ acked \subseteq 1 .. pos /\ pruned \subseteq acked
    /\ \A e \in Envelopes : e.seq > pos => mirror[e.obj] <= e.ver

SnapshotLabels == {"positions", "messages", "check", "store", "last_retry"}
Labels == {"idle", "replay", "fetch", "answer", "events", "retry", "contents"} \cup SnapshotLabels
Snapshots == [contents : [Objects -> Nat], last : Nat]

HandlerTypes ==
    /\ pc \in [Handlers -> Labels]
    /\ cur \in [Handlers -> Nat] /\ after \in [Handlers -> Nat]
    /\ page \in [Handlers -> SUBSET Nat] /\ last \in [Handlers -> Nat]
    /\ more \in [Handlers -> BOOLEAN] /\ snap \in [Handlers -> Snapshots]
    /\ inserts \in [Handlers -> SUBSET Objects]
    /\ store_pos \in [Handlers -> BOOLEAN] /\ complete \in [Handlers -> BOOLEAN]
    /\ failures \in 0 .. MaxFailures

\* What a handler works on was in the outbox.
Working(h) ==
    /\ cur[h] = 0 \/ cur[h] \in Known
    /\ pc[h] \in {"replay", "fetch", "answer", "events", "retry", "last_retry"} => cur[h] # 0
    /\ page[h] \subseteq Known
    /\ inserts[h] # {} => pc[h] \in {"check", "store"}
    /\ complete[h] => pc[h] \notin {"idle", "replay"}
    /\ pc[h] \in SnapshotLabels => HasSnapshot

HandlerInv == HandlerTypes /\ \A h \in Handlers : Working(h)

\* The mirror has the last of the versions up to the mark.
Exact ==
    /\ 1 .. pos \subseteq Known
    /\ \A e \in outbox : e.seq <= pos => e.ver <= mirror[e.obj]
    /\ \A o \in Objects : mirror[o] # 0 =>
         \E e \in outbox : e.obj = o /\ e.seq <= pos /\ e.ver = mirror[o]

\* While a replay that found all it needs is under way, what is missing lies
\* in the page or after it.
Replaying(h) ==
    complete[h] /\ cur[h] > pos =>
        /\ pos + 1 .. cur[h] \subseteq Logged
        /\ pc[h] \in {"fetch", "answer", "events"}
        /\ after[h] <= pos
        /\ pc[h] # "fetch" =>
             /\ after[h] < last[h]
             /\ \A n \in page[h] : n <= last[h]
             /\ \A n \in pos + 1 .. cur[h] : n <= last[h] => n \in page[h]
        /\ pc[h] = "events" /\ ~more[h] => cur[h] <= last[h]

\* An event older than the contents of a snapshot is up to its position, or to
\* the mark; the decision about the mark and the inserts stay right.
Importing(h) ==
    /\ pc[h] \in {"positions", "messages", "check", "store"} =>
         /\ \A o \in Objects : snap[h].contents[o] <= store[o]
         /\ \A e \in Envelopes : e.ver < snap[h].contents[e.obj] =>
              /\ e \in outbox
              /\ pc[h] # "positions" => e.seq <= snap[h].last \/ e.seq <= pos
    /\ pc[h] \in {"messages", "check", "store"} => snap[h].last < counter
    /\ pc[h] = "store" => (store_pos[h] <=> snap[h].last > pos)
    /\ \A o \in inserts[h] : mirror[o] = 0

IInv ==
    /\ SenderInv /\ ReceiverInv /\ HandlerInv
    /\ ~HasSnapshot => Exact /\ \A h \in Handlers : Replaying(h)
    /\ HasSnapshot => \A h \in Handlers : Importing(h)
-----------------------------------------------------------------------------
(* The sender *)

LEMMA InitIInv == Init => IInv
<1> SUFFICES ASSUME Init PROVE IInv
  OBVIOUS
<1> USE RecoveryAssumption
<1>1. IsFiniteSet({}) /\ Cardinality({}) = 0
  BY FS_EmptySet
<1>2. SenderInv
  BY <1>1 DEF Init, SenderInv, SenderTypes, Envelopes
<1>3. ReceiverInv
  BY DEF Init, ReceiverInv, Envelopes
<1>4. HandlerInv
  BY DEF Init, HandlerInv, HandlerTypes, Working, Labels, SnapshotLabels, Snapshots, NoSnapshot
<1>5. Exact
  BY DEF Init, Exact
<1>6. \A h \in Handlers : Replaying(h) /\ Importing(h)
  BY DEF Init, Replaying, Importing
<1> QED
  BY <1>2, <1>3, <1>4, <1>5, <1>6 DEF IInv

\* The new version of a message is a draft newer than all there is of it: the
\* earlier one has reached the outbox.
LEMMA WriteSender ==
  ASSUME ~Overlap, SenderInv, NEW o \in Objects, Write(o)
  PROVE  SenderInv'
<1> DEFINE p == [obj |-> o, ver |-> store[o] + 1]
<1>1. /\ writes < MaxWrites /\ writes' = writes + 1
      /\ \A q \in unnumbered : q.obj # o
      /\ \A e \in numbered : e.obj # o
      /\ store' = [store EXCEPT ![o] = @ + 1]
      /\ unnumbered' = unnumbered \cup {p}
      /\ UNCHANGED <<counter, numbered, outbox>>
  BY DEF Write
<1>2. p \in Drafts /\ p \notin unnumbered
  BY <1>1 DEF SenderInv, SenderTypes, Drafts
<1>3. IsFiniteSet(unnumbered') /\ Cardinality(unnumbered') = Cardinality(unnumbered) + 1
  BY <1>1, <1>2, FS_AddElement DEF SenderInv, SenderTypes
<1>4. Cardinality(unnumbered) \in Nat
  BY FS_CardinalityType DEF SenderInv, SenderTypes
<1>5. SenderTypes'
  <2>1. \A q \in Objects : store[q] \in Nat /\ store[q] <= writes
    BY DEF SenderInv, SenderTypes
  <2>2. store' \in [Objects -> Nat] /\ \A q \in Objects : store'[q] <= writes'
    BY <1>1, <2>1 DEF SenderInv, SenderTypes
  <2>3. counter' + Cardinality(unnumbered') = writes' + 1 /\ writes' \in 0 .. MaxWrites
    BY <1>1, <1>3, <1>4, RecoveryAssumption DEF SenderInv, SenderTypes
  <2> QED
    BY <1>1, <1>2, <1>3, <2>2, <2>3 DEF SenderInv, SenderTypes
<1>6. \A q \in Objects : store[q] \in Nat /\ store'[q] = IF q = o THEN store[q] + 1 ELSE store[q]
  BY <1>1 DEF SenderInv, SenderTypes
<1>7. p.obj = o /\ p.ver = store[o] + 1
  OBVIOUS
<1> HIDE DEF p
<1>8. \A e \in Envelopes : e.obj \in Objects /\ e.ver \in Nat
  BY DEF SenderInv, SenderTypes, Envelopes, AllEnvelopes
<1>9. \A q \in unnumbered : q.obj \in Objects
  BY DEF SenderInv, SenderTypes, Drafts
<1>10. Envelopes' = Envelopes
  BY <1>1 DEF Envelopes
<1>11. \A e \in Envelopes : e.seq < counter /\ e.ver <= store'[e.obj]
  BY <1>6, <1>8 DEF SenderInv
<1>12. \A e \in numbered : e.ver = store'[e.obj]
  BY <1>1, <1>6, <1>8 DEF SenderInv, Envelopes
<1>13. \A q \in unnumbered' : q.ver = store'[q.obj]
  BY <1>1, <1>6, <1>7, <1>9 DEF SenderInv
<1>14. \A q, r \in unnumbered' : q.obj = r.obj => q = r
  BY <1>1, <1>7 DEF SenderInv
<1>15. \A q \in unnumbered', e \in Envelopes : e.obj = q.obj => e.ver < q.ver
  BY <1>1, <1>6, <1>7, <1>8 DEF SenderInv
<1> QED
  BY <1>1, <1>5, <1>10, <1>11, <1>12, <1>13, <1>14, <1>15 DEF SenderInv

\* A draft gets the next sequence.
LEMMA AllocateSender ==
  ASSUME SenderInv, NEW p \in unnumbered, Allocate(p)
  PROVE  SenderInv'
<1> DEFINE n == [seq |-> counter, obj |-> p.obj, ver |-> p.ver]
<1>1. /\ unnumbered' = unnumbered \ {p} /\ counter' = counter + 1
      /\ numbered' = numbered \cup {n}
      /\ UNCHANGED <<store, writes, outbox>>
  BY DEF Allocate
<1>2. n \in AllEnvelopes /\ p.obj \in Objects
  BY DEF SenderInv, SenderTypes, Drafts, AllEnvelopes
<1>3. IsFiniteSet(unnumbered') /\ Cardinality(unnumbered') = Cardinality(unnumbered) - 1
  BY <1>1, FS_RemoveElement DEF SenderInv, SenderTypes
<1>4. Cardinality(unnumbered) \in Nat
  BY FS_CardinalityType DEF SenderInv, SenderTypes
<1>5. SenderTypes'
  <2>1. counter' + Cardinality(unnumbered') = writes' + 1 /\ counter' \in Nat \ {0}
    BY <1>1, <1>3, <1>4 DEF SenderInv, SenderTypes
  <2>2. numbered' \in SUBSET AllEnvelopes /\ unnumbered' \in SUBSET Drafts
    BY <1>1, <1>2 DEF SenderInv, SenderTypes
  <2> QED
    BY <1>1, <1>3, <2>1, <2>2 DEF SenderInv, SenderTypes
<1>6. n.seq = counter /\ n.obj = p.obj /\ n.ver = p.ver
  OBVIOUS
<1> HIDE DEF n
<1>7. Envelopes' = Envelopes \cup {n}
  BY <1>1 DEF Envelopes
<1>8. \A e \in Envelopes : e.seq \in Nat /\ e.seq < counter
  BY DEF SenderInv, SenderTypes, Envelopes, AllEnvelopes
<1>9. counter \in Nat /\ n.ver = store[n.obj] /\ store[n.obj] \in Nat
  BY <1>2, <1>6 DEF SenderInv, SenderTypes
<1>10. \A e \in Envelopes : e.obj = n.obj => e.ver < n.ver
  BY <1>6 DEF SenderInv
<1>11. \A e \in Envelopes' : e.seq < counter' /\ e.ver <= store[e.obj]
  BY <1>1, <1>6, <1>7, <1>8, <1>9 DEF SenderInv
<1>12. \A e, f \in Envelopes' : e.seq = f.seq => e = f
  BY <1>6, <1>7, <1>8, <1>9 DEF SenderInv
<1>13. \A e, f \in Envelopes' : e.obj = f.obj /\ e.seq < f.seq => e.ver < f.ver
  BY <1>6, <1>7, <1>8, <1>9, <1>10 DEF SenderInv
<1>14. \A e \in numbered' : e.ver = store[e.obj]
  BY <1>1, <1>9 DEF SenderInv
<1>15. \A q \in unnumbered', e \in Envelopes' : e.obj = q.obj => e.ver < q.ver
  BY <1>1, <1>6, <1>7 DEF SenderInv
<1> QED
  BY <1>1, <1>5, <1>11, <1>12, <1>13, <1>14, <1>15 DEF SenderInv

\* An envelope reaches the outbox, or never does.
LEMMA EnqueueSender ==
  ASSUME SenderInv, NEW e \in numbered, Enqueue(e) \/ Burn(e)
  PROVE  SenderInv'
<1>1. /\ UNCHANGED <<store, writes, unnumbered, counter>>
      /\ numbered' \subseteq numbered /\ outbox' \subseteq outbox \cup {e}
  BY DEF Enqueue, Burn
<1>2. Envelopes' \subseteq Envelopes
  BY <1>1 DEF Envelopes
<1>3. SenderTypes'
  BY <1>1 DEF SenderInv, SenderTypes
<1> QED
  BY <1>1, <1>2, <1>3 DEF SenderInv

\* A number below a bound stays below it when the bound grows (a position in
\* the stream while the sender's counter moves on).
LEMMA RangeGrows ==
  ASSUME NEW c \in Nat, NEW d \in Nat, c <= d, NEW p \in 0 .. (c - 1)
  PROVE  p \in 0 .. (d - 1)
OBVIOUS

\* What it is to be in a range (the events between two positions).
LEMMA InRange ==
  ASSUME NEW a \in Nat, NEW c \in Nat, NEW m \in a + 1 .. c
  PROVE  m \in Nat /\ a < m /\ m <= c
OBVIOUS

\* What the steps of the sender have in common: what is added to the envelopes
\* is the latest version of its message, and what is added to the outbox was
\* an envelope.
SenderMoves ==
    /\ \A o \in Objects : store[o] <= store'[o]
    /\ counter <= counter' /\ pruned' = pruned
    /\ outbox \subseteq outbox' /\ outbox' \subseteq Envelopes
    /\ \A e \in Envelopes' : e \in Envelopes \/ e.ver = store[e.obj]
    /\ UNCHANGED <<receiverVars, handlerVars, failures>>

LEMMA SenderStep ==
  ASSUME IInv, SenderInv', SenderMoves
  PROVE  IInv' /\ pos' = pos /\ mirror' = mirror
<1> USE DEF SenderMoves, receiverVars, handlerVars
<1>1. Known \subseteq Known' /\ Logged \subseteq Logged'
  BY DEF Known, Logged
<1>2. \A e \in Envelopes : e.obj \in Objects /\ e.ver \in Nat /\ e.seq \in Nat
  BY DEF IInv, SenderInv, SenderTypes, Envelopes, AllEnvelopes
<1>2a. \A e \in Envelopes' : e.obj \in Objects /\ e.ver \in Nat /\ e.seq \in Nat
  BY DEF SenderInv, SenderTypes, Envelopes, AllEnvelopes
<1>3. \A o \in Objects : store[o] \in Nat /\ store'[o] \in Nat /\ mirror[o] \in Nat
  BY DEF IInv, SenderInv, SenderTypes, ReceiverInv
<1>4. ReceiverInv'
  <2>1. pos' \in 0 .. (counter' - 1)
    <3>1. pos \in 0 .. (counter - 1) /\ counter \in Nat
      BY DEF IInv, ReceiverInv, SenderInv, SenderTypes
    <3>2. counter' \in Nat /\ counter <= counter' /\ pos' = pos
      BY DEF SenderInv, SenderTypes
    <3> HIDE DEF SenderMoves
    <3> QED
      BY <3>1, <3>2, RangeGrows
  <2>2. mirror' \in [Objects -> Nat] /\ \A o \in Objects : mirror'[o] <= store'[o]
    BY <1>3 DEF IInv, ReceiverInv
  <2>3. \A e \in Envelopes' : e.seq > pos => mirror[e.obj] <= e.ver
    BY <1>2a, <1>3 DEF IInv, ReceiverInv
  <2> QED
    BY <2>1, <2>2, <2>3 DEF IInv, ReceiverInv
<1>5. HandlerInv'
  BY <1>1 DEF IInv, HandlerInv, HandlerTypes, Working
<1>6. ASSUME ~HasSnapshot PROVE Exact' /\ \A h \in Handlers : Replaying(h)'
  <2>1. 1 .. pos \subseteq Known'
    BY <1>1, <1>6 DEF IInv, Exact
  <2>2. ASSUME NEW e \in outbox', e.seq <= pos PROVE e \in outbox
    <3>1. e \in Envelopes /\ e.seq \in 1 .. pos
      BY <2>2, <1>2 DEF IInv, SenderInv, SenderTypes, Envelopes, AllEnvelopes, ReceiverInv
    <3>2. PICK f \in outbox : f.seq = e.seq
      BY <3>1, <1>6 DEF IInv, Exact, Known
    <3> QED
      BY <3>1, <3>2 DEF IInv, SenderInv, Envelopes
  <2>3. Exact'
    BY <2>1, <2>2, <1>6 DEF IInv, Exact
  <2>4. \A h \in Handlers : Replaying(h)'
    BY <1>1, <1>6 DEF IInv, Replaying
  <2> QED
    BY <2>3, <2>4
<1>7. ASSUME HasSnapshot, NEW h \in Handlers PROVE Importing(h)'
  <2>1. snap[h].last \in Nat /\ snap[h].contents \in [Objects -> Nat]
    BY DEF IInv, HandlerInv, HandlerTypes, Snapshots
  <2>2. Importing(h)
    BY <1>7 DEF IInv
  <2>3. CASE pc[h] \in {"positions", "messages", "check", "store"}
    <3>1. \A o \in Objects : snap[h].contents[o] <= store'[o]
      BY <1>3, <2>1, <2>2, <2>3 DEF Importing
    <3>2. \A e \in Envelopes' : e.ver < snap[h].contents[e.obj] => e \in Envelopes
      BY <1>2a, <1>3, <2>1, <2>2, <2>3 DEF Importing
    <3>3. snap[h].last < counter => snap[h].last < counter'
      BY <2>1 DEF IInv, SenderInv, SenderTypes
    <3> QED
      BY <3>1, <3>2, <3>3, <2>2, <2>3 DEF Importing
  <2>4. CASE pc[h] \notin {"positions", "messages", "check", "store"}
    BY <2>2, <2>4 DEF Importing
  <2> QED
    BY <2>3, <2>4
<1> QED
  BY <1>4, <1>5, <1>6, <1>7 DEF IInv
LEMMA SameReceiver ==
  ASSUME IInv, pos' = pos, mirror' = mirror
  PROVE  pos <= pos' /\ \A o \in Objects : mirror[o] <= mirror'[o]
BY DEF IInv, ReceiverInv, SenderInv, SenderTypes

-----------------------------------------------------------------------------
(* The receiver *)

\* receive_event leaves the mirror at the new mark.
LEMMA AcceptKeeps ==
  ASSUME SenderInv, ReceiverInv, NEW n \in Known, Accept(n),
         UNCHANGED senderVars, acked' = acked \/ acked' = acked \cup {n}
  PROVE  /\ ReceiverInv' /\ (Exact => Exact')
         /\ pos <= pos' /\ n <= pos' /\ \A o \in Objects : mirror[o] <= mirror'[o]
<1> USE DEF senderVars
<1>1. /\ n > pos => n \in claims \/ n = pos + 1
      /\ n \in Nat \ {0} /\ n < counter /\ pos \in Nat /\ counter \in Nat
  <2>1. PICK e \in outbox : e.seq = n
    BY DEF Known
  <2>2. n \in Nat \ {0} /\ n < counter
    BY <2>1 DEF SenderInv, SenderTypes, Envelopes, AllEnvelopes
  <2> QED
    BY <2>2 DEF Accept, Gap, ReceiverInv, SenderInv, SenderTypes
<1>2. claims' = claims \cup {n}
  BY DEF Accept
<1>2a. claims \subseteq 1 .. pos /\ acked \subseteq 1 .. pos /\ pruned \subseteq acked
  BY DEF ReceiverInv
<1>2b. ASSUME pos' \in Nat, pos <= pos', n <= pos'
       PROVE  claims' \subseteq 1 .. pos' /\ acked' \subseteq 1 .. pos' /\ pruned' \subseteq acked'
  <2>1. n \in 1 .. pos' /\ 1 .. pos \subseteq 1 .. pos'
    BY <1>1, <1>2b
  <2>2. pruned' = pruned
    OBVIOUS
  <2> QED
    BY <1>2, <1>2a, <2>1, <2>2
<1>3. CASE n \in claims \/ n <= pos
  <2>1. UNCHANGED <<pos, mirror>>
    BY <1>3 DEF Accept
  <2>1a. n <= pos
    BY <1>1, <1>2a, <1>3
  <2>2. claims' \subseteq 1 .. pos' /\ acked' \subseteq 1 .. pos' /\ pruned' \subseteq acked'
    BY <1>1, <1>2b, <2>1, <2>1a
  <2>3. \A o \in Objects : mirror[o] <= mirror'[o]
    BY <2>1 DEF ReceiverInv
  <2> QED
    BY <1>1, <2>1, <2>1a, <2>2, <2>3 DEF ReceiverInv, Exact, Known, Envelopes
<1>4. CASE ~(n \in claims \/ n <= pos)
  <2>1. n = pos + 1 /\ pos' = n
    BY <1>1, <1>4 DEF Accept
  <2>2. PICK e : e = Envelope(n)
    OBVIOUS
  <2>3. e \in outbox /\ e.seq = n
    BY <2>2 DEF Known, Envelope
  <2>4. mirror' = Projection(e)
    BY <1>4, <2>2 DEF Accept
  <2>5. e.obj \in Objects /\ e.ver \in Nat \ {0} /\ e \in Envelopes
    BY <2>3 DEF SenderInv, SenderTypes, Envelopes, AllEnvelopes
  <2>6. mirror[e.obj] <= e.ver
    BY <2>1, <2>3, <2>5 DEF ReceiverInv
  <2>7. \A o \in Objects : mirror[o] \in Nat /\ store[o] \in Nat
    BY DEF ReceiverInv, SenderInv, SenderTypes
  <2>8. /\ mirror' \in [Objects -> Nat]
        /\ \A o \in Objects : o # e.obj => mirror'[o] = mirror[o]
        /\ mirror'[e.obj] = e.ver \/ (e.ver = 1 /\ mirror[e.obj] # 0 /\ mirror'[e.obj] = mirror[e.obj])
    BY <2>4, <2>5, <2>7 DEF Projection, ReceiverInv
  <2>9. mirror'[e.obj] = e.ver
    BY <2>5, <2>6, <2>7, <2>8
  <2>10. \A o \in Objects : mirror[o] <= mirror'[o] /\ mirror'[o] <= store[o]
    <3>1. e.ver <= store[e.obj]
      BY <2>5 DEF SenderInv
    <3> QED
      BY <2>6, <2>7, <2>8, <2>9, <3>1 DEF ReceiverInv
  <2>11. \A f \in Envelopes : f.obj \in Objects /\ f.ver \in Nat \ {0} /\ f.seq \in Nat
    BY DEF SenderInv, SenderTypes, Envelopes, AllEnvelopes
  <2>12. ASSUME NEW f \in Envelopes, f.seq > pos' PROVE mirror'[f.obj] <= f.ver
    <3>1. CASE f.obj = e.obj
      <4>1. e.ver < f.ver
        BY <2>1, <2>3, <2>5, <2>12, <3>1 DEF SenderInv
      <4> QED
        BY <2>5, <2>9, <2>11, <3>1, <4>1
    <3>2. CASE f.obj # e.obj
      BY <1>1, <2>1, <2>8, <2>11, <2>12, <3>2 DEF ReceiverInv
    <3> QED
      BY <3>1, <3>2
  <2>13. ReceiverInv'
    <3>1. claims' \subseteq 1 .. pos' /\ acked' \subseteq 1 .. pos' /\ pruned' \subseteq acked'
      BY <1>1, <1>2b, <2>1
    <3>2. pos' \in 0 .. (counter' - 1)
      BY <1>1, <2>1
    <3> QED
      BY <2>8, <2>10, <2>12, <3>1, <3>2 DEF ReceiverInv, Envelopes
  <2>14. ASSUME Exact PROVE Exact'
    <3>1. 1 .. pos' \subseteq Known'
      BY <1>1, <2>1, <2>14 DEF Exact, Known
    <3>2. ASSUME NEW f \in outbox, f.seq <= pos' PROVE f.ver <= mirror'[f.obj]
      <4>1. f \in Envelopes
        BY DEF Envelopes
      <4>2. CASE f.seq = n
        BY <2>3, <2>5, <2>9, <4>1, <4>2 DEF SenderInv
      <4>3. CASE f.seq # n
        <5>1. f.seq <= pos /\ f.ver <= mirror[f.obj]
          BY <1>1, <2>1, <2>11, <2>14, <3>2, <4>1, <4>3 DEF Exact
        <5> QED
          BY <2>7, <2>8, <2>10, <2>11, <4>1, <5>1
      <4> QED
        BY <4>2, <4>3
    <3>3. ASSUME NEW o \in Objects, mirror'[o] # 0
          PROVE  \E f \in outbox : f.obj = o /\ f.seq <= pos' /\ f.ver = mirror'[o]
      <4>1. CASE o = e.obj
        BY <1>1, <2>1, <2>3, <2>9, <4>1
      <4>2. CASE o # e.obj
        <5>1. PICK f \in outbox : f.obj = o /\ f.seq <= pos /\ f.ver = mirror[o]
          BY <2>8, <2>14, <3>3, <4>2 DEF Exact
        <5>2. f.seq <= pos'
          BY <1>1, <2>1, <2>11, <5>1 DEF Envelopes
        <5> QED
          BY <2>8, <4>2, <5>1, <5>2
      <4> QED
        BY <4>1, <4>2
    <3> QED
      BY <3>1, <3>2, <3>3 DEF Exact
  <2> QED
    BY <1>1, <2>1, <2>10, <2>13, <2>14
<1> QED
  BY <1>3, <1>4
-----------------------------------------------------------------------------
(* The handlers *)

\* Nothing of the other handlers changes.
OnlyMoves(h) ==
    \A g \in Handlers \ {h} :
        /\ pc'[g] = pc[g] /\ cur'[g] = cur[g] /\ after'[g] = after[g]
        /\ page'[g] = page[g] /\ last'[g] = last[g] /\ more'[g] = more[g]
        /\ snap'[g] = snap[g] /\ inserts'[g] = inserts[g]
        /\ store_pos'[g] = store_pos[g] /\ complete'[g] = complete[g]

\* A replay is not disturbed by what the others receive.
LEMMA ReplayUndisturbed ==
  ASSUME NEW h \in Handlers, Replaying(h), pos \in Nat, pos' \in Nat, pos <= pos',
         cur[h] \in Nat, after[h] \in Nat,
         UNCHANGED <<pc[h], cur[h], after[h], page[h], last[h], more[h], complete[h]>>,
         \A n \in Logged : n > pos' => n \in Logged'
  PROVE  Replaying(h)'
<1> SUFFICES ASSUME complete[h], cur[h] > pos'
             PROVE  /\ pos' + 1 .. cur[h] \subseteq Logged'
                    /\ pc[h] \in {"fetch", "answer", "events"}
                    /\ after[h] <= pos'
                    /\ pc[h] # "fetch" =>
                         /\ after[h] < last[h]
                         /\ \A n \in page[h] : n <= last[h]
                         /\ \A n \in pos' + 1 .. cur[h] : n <= last[h] => n \in page[h]
                    /\ pc[h] = "events" /\ ~more[h] => cur[h] <= last[h]
  BY DEF Replaying
<1>1. PICK p, q, c : p = pos /\ q = pos' /\ c = cur[h]
  OBVIOUS
<1>2. p \in Nat /\ q \in Nat /\ c \in Nat /\ p <= q /\ c > q
  BY <1>1
<1>3. c > p /\ \A n \in q + 1 .. c : n \in p + 1 .. c /\ n > q
  BY <1>2
<1>4. /\ p + 1 .. c \subseteq Logged
      /\ pc[h] \in {"fetch", "answer", "events"}
      /\ after[h] <= p
      /\ pc[h] # "fetch" =>
           /\ after[h] < last[h]
           /\ \A n \in page[h] : n <= last[h]
           /\ \A n \in p + 1 .. c : n <= last[h] => n \in page[h]
      /\ pc[h] = "events" /\ ~more[h] => c <= last[h]
  BY <1>1, <1>3 DEF Replaying
<1>5. after[h] <= q
  BY <1>2, <1>4
<1>6. q + 1 .. c \subseteq Logged'
  BY <1>1, <1>3, <1>4
<1> QED
  BY <1>1, <1>3, <1>4, <1>5, <1>6

\* A step of one handler.
LEMMA StepOfHandler ==
  ASSUME IInv, Alone, NEW h \in Handlers, OnlyMoves(h), UNCHANGED senderVars,
         ReceiverInv', ~HasSnapshot => Exact', pos <= pos',
         HandlerTypes', Working(h)',
         ~HasSnapshot => Replaying(h)', HasSnapshot => Importing(h)'
  PROVE  IInv'
<1> USE DEF senderVars
<1>1. SenderInv'
  BY DEF IInv, SenderInv, SenderTypes, Envelopes
<1>2. Known' = Known /\ Logged' = Logged
  BY DEF Known, Logged
<1>3. \A g \in Handlers \ {h} : Working(g)'
  BY <1>2 DEF IInv, HandlerInv, Working, OnlyMoves
<1>4. ASSUME ~HasSnapshot, NEW g \in Handlers \ {h} PROVE Replaying(g)'
  <2>1. pos \in Nat /\ pos' \in Nat /\ cur[g] \in Nat /\ after[g] \in Nat
    BY <1>1 DEF IInv, ReceiverInv, SenderInv, SenderTypes, HandlerInv, HandlerTypes
  <2>2. UNCHANGED <<pc[g], cur[g], after[g], page[g], last[g], more[g], complete[g]>>
    BY DEF OnlyMoves
  <2>3. Replaying(g)
    BY <1>4 DEF IInv
  <2> QED
    BY <1>2, <2>1, <2>2, <2>3, ReplayUndisturbed
<1>5. HasSnapshot => \A g \in Handlers : g = h
  BY DEF Alone
<1> QED
  BY <1>1, <1>3, <1>4, <1>5 DEF IInv, HandlerInv

\* A step that ends a handler's work.
LEMMA EndOfHandler ==
  ASSUME IInv, NEW h \in Handlers, End(h), failures' \in 0 .. MaxFailures
  PROVE  /\ OnlyMoves(h) /\ HandlerTypes' /\ Working(h)'
         /\ Replaying(h)' /\ Importing(h)'
<1> USE DEF End, Goto
<1>1. HandlerTypes
  BY DEF IInv, HandlerInv
<1>2. OnlyMoves(h)
  BY <1>1 DEF OnlyMoves, HandlerTypes
<1>3. NoSnapshot \in Snapshots /\ "idle" \in Labels
  BY DEF NoSnapshot, Snapshots, Labels
<1>4. HandlerTypes'
  <2>1. /\ pc' \in [Handlers -> Labels] /\ cur' \in [Handlers -> Nat]
        /\ after' \in [Handlers -> Nat] /\ page' \in [Handlers -> SUBSET Nat]
        /\ last' \in [Handlers -> Nat]
    BY <1>1, <1>3 DEF HandlerTypes
  <2>2. /\ more' \in [Handlers -> BOOLEAN] /\ snap' \in [Handlers -> Snapshots]
        /\ inserts' \in [Handlers -> SUBSET Objects]
        /\ store_pos' \in [Handlers -> BOOLEAN] /\ complete' \in [Handlers -> BOOLEAN]
    BY <1>1, <1>3 DEF HandlerTypes
  <2> QED
    BY <2>1, <2>2 DEF HandlerTypes
<1>5. /\ pc'[h] = "idle" /\ cur'[h] = 0 /\ page'[h] = {} /\ inserts'[h] = {}
      /\ complete'[h] = FALSE
  BY <1>1 DEF HandlerTypes
<1>6. Working(h)'
  BY <1>5 DEF Working, SnapshotLabels
<1> QED
  BY <1>2, <1>4, <1>5, <1>6 DEF Replaying, Importing

\* Receiving an event, and the end of a handler's work.
LEMMA DeliverAcceptedStep ==
  ASSUME IInv, Alone, NEW h \in Handlers, NEW n \in Sequences, DeliverAccepted(h, n)
  PROVE  IInv' /\ pos <= pos' /\ \A o \in Objects : mirror[o] <= mirror'[o]
<1>1. n \in Known /\ Accept(n) /\ acked' = acked \cup {n} /\ pc[h] = "idle"
      /\ UNCHANGED <<senderVars, handlerVars, failures>>
  BY DEF DeliverAccepted, Logged, Known
<1>2. /\ ReceiverInv' /\ (Exact => Exact') /\ pos <= pos'
      /\ \A o \in Objects : mirror[o] <= mirror'[o]
  BY <1>1, AcceptKeeps DEF IInv
<1>3. Working(h)' /\ HandlerTypes' /\ OnlyMoves(h)
  BY <1>1 DEF IInv, HandlerInv, HandlerTypes, Working, OnlyMoves, handlerVars, senderVars, Known
<1>4. complete'[h] = FALSE /\ inserts'[h] = {} /\ pc'[h] = "idle"
  BY <1>1 DEF IInv, HandlerInv, HandlerTypes, Working, handlerVars
<1>5. Replaying(h)' /\ Importing(h)'
  BY <1>4 DEF Replaying, Importing
<1>6. UNCHANGED senderVars
  BY <1>1
<1> QED
  BY <1>2, <1>3, <1>5, <1>6, StepOfHandler DEF IInv

LEMMA RetryAcceptedStep ==
  ASSUME IInv, Alone, NEW h \in Handlers, RetryAccepted(h)
  PROVE  IInv' /\ pos <= pos' /\ \A o \in Objects : mirror[o] <= mirror'[o]
<1>1. PICK n : n = cur[h]
  OBVIOUS
<1>2. /\ Accept(n) /\ acked' = acked \cup {n} /\ End(h) /\ UNCHANGED senderVars
      /\ failures' = failures /\ pc[h] \in {"retry", "last_retry"}
  BY <1>1 DEF RetryAccepted
<1>3. n \in Known
  BY <1>1, <1>2 DEF IInv, HandlerInv, Working
<1>4. /\ ReceiverInv' /\ (Exact => Exact') /\ pos <= pos'
      /\ \A o \in Objects : mirror[o] <= mirror'[o]
  BY <1>2, <1>3, AcceptKeeps DEF IInv
<1>5. failures' \in 0 .. MaxFailures
  BY <1>2 DEF IInv, HandlerInv, HandlerTypes
<1> QED
  BY <1>2, <1>4, <1>5, EndOfHandler, StepOfHandler DEF IInv

\* The receiver's data stays as it is.
LEMMA ReceiverSame ==
  ASSUME IInv, UNCHANGED <<senderVars, receiverVars>>
  PROVE  /\ ReceiverInv' /\ (~HasSnapshot => Exact') /\ pos <= pos' /\ pos' \in Nat
         /\ \A o \in Objects : mirror[o] <= mirror'[o]
<1>1. pos \in Nat /\ \A o \in Objects : mirror[o] \in Nat
  BY DEF IInv, ReceiverInv, SenderInv, SenderTypes
<1> QED
  BY <1>1 DEF IInv, ReceiverInv, Exact, Known, Envelopes, senderVars, receiverVars

LEMMA StopStep ==
  ASSUME IInv, Alone, NEW h \in Handlers, GiveUp(h) \/ Fail(h)
  PROVE  IInv' /\ pos <= pos' /\ \A o \in Objects : mirror[o] <= mirror'[o]
<1>1. End(h) /\ UNCHANGED <<senderVars, receiverVars>>
  BY DEF GiveUp, Fail
<1>2. failures' \in 0 .. MaxFailures
  BY RecoveryAssumption DEF GiveUp, Fail, IInv, HandlerInv, HandlerTypes
<1>3. UNCHANGED senderVars
  BY <1>1
<1> QED
  BY <1>1, <1>2, <1>3, ReceiverSame, EndOfHandler, StepOfHandler
-----------------------------------------------------------------------------
(* Replay *)

\* The step keeps the invariant, and neither the mark nor the mirror goes back.
Kept == IInv' /\ pos <= pos' /\ \A o \in Objects : mirror[o] <= mirror'[o]

\* A step on the handler's own state only.
LEMMA OwnStep ==
  ASSUME IInv, Alone, NEW h \in Handlers, OnlyMoves(h),
         UNCHANGED <<senderVars, receiverVars>>, HandlerTypes', Working(h)',
         ~HasSnapshot => Replaying(h)', HasSnapshot => Importing(h)'
  PROVE  Kept
<1>1. UNCHANGED senderVars
  OBVIOUS
<1> QED
  BY <1>1, ReceiverSame, StepOfHandler DEF Kept

\* What the invariant says of the values of a handler.
LEMMA HandlerFacts ==
  ASSUME IInv, NEW h \in Handlers
  PROVE  /\ HandlerTypes /\ Working(h)
         /\ pos \in Nat /\ cur[h] \in Nat /\ after[h] \in Nat /\ last[h] \in Nat
         /\ page[h] \in SUBSET Nat /\ Known \in SUBSET (Nat \ {0}) /\ Logged \in SUBSET Known
         /\ ~HasSnapshot => Replaying(h)
         /\ HasSnapshot => Importing(h)
<1>1. Known \in SUBSET (Nat \ {0}) /\ Logged \in SUBSET Known /\ pos \in Nat
  BY DEF IInv, SenderInv, SenderTypes, AllEnvelopes, Known, Logged, ReceiverInv
<1> QED
  BY <1>1 DEF IInv, HandlerInv, HandlerTypes

LEMMA DeliverGapStep ==
  ASSUME IInv, Alone, NEW h \in Handlers, NEW n \in Sequences, DeliverGap(h, n)
  PROVE  Kept
<1> USE DEF Goto
<1>1. HandlerTypes /\ Working(h) /\ n \in Known /\ n \in Nat \ {0}
  BY HandlerFacts DEF DeliverGap, Logged, Known
<1>2. pc[h] = "idle" /\ complete[h] = FALSE /\ inserts[h] = {}
  BY <1>1 DEF DeliverGap, Working, HandlerTypes
<1>3. /\ pc' = [pc EXCEPT ![h] = "replay"] /\ cur' = [cur EXCEPT ![h] = n]
      /\ UNCHANGED <<senderVars, receiverVars, after, page, last, more, snap, inserts,
                     store_pos, complete, failures>>
  BY DEF DeliverGap
<1>4. HandlerTypes' /\ OnlyMoves(h)
  BY <1>1, <1>3 DEF HandlerTypes, OnlyMoves, Labels
<1>5. pc'[h] = "replay" /\ cur'[h] = n
  BY <1>1, <1>3 DEF HandlerTypes
<1>6. Known' = Known
  BY <1>3 DEF Known, senderVars
<1>7. Working(h)'
  BY <1>1, <1>2, <1>3, <1>5, <1>6 DEF Working, SnapshotLabels
<1>8. Replaying(h)' /\ Importing(h)'
  BY <1>2, <1>3, <1>5 DEF Replaying, Importing
<1> QED
  BY <1>3, <1>4, <1>7, <1>8, OwnStep

LEMMA StartReplayStep ==
  ASSUME IInv, Alone, NEW h \in Handlers, StartReplay(h)
  PROVE  Kept
<1> USE DEF Goto
<1>1. HandlerTypes /\ Working(h) /\ pos \in Nat
  BY HandlerFacts
<1>2. /\ pc[h] = "replay" /\ pc' = [pc EXCEPT ![h] = "fetch"] /\ after' = [after EXCEPT ![h] = pos]
      /\ complete' = [complete EXCEPT ![h] = pos + 1 .. cur[h] \subseteq Logged]
      /\ UNCHANGED <<senderVars, receiverVars, cur, page, last, more, snap, inserts,
                     store_pos, failures>>
  BY DEF StartReplay
<1>3. HandlerTypes' /\ OnlyMoves(h)
  BY <1>1, <1>2 DEF HandlerTypes, OnlyMoves, Labels
<1>4. /\ pc'[h] = "fetch" /\ after'[h] = pos
      /\ complete'[h] = (pos + 1 .. cur[h] \subseteq Logged)
  BY <1>1, <1>2 DEF HandlerTypes
<1>5. Known' = Known /\ Logged' = Logged /\ inserts[h] = {} /\ pos' = pos
  BY <1>1, <1>2 DEF Known, Logged, senderVars, receiverVars, Working
<1>6. Working(h)'
  BY <1>1, <1>2, <1>4, <1>5 DEF Working, SnapshotLabels
<1>7. Replaying(h)'
  <2>1. cur'[h] = cur[h]
    BY <1>2
  <2>2. after'[h] <= pos'
    BY <1>1, <1>4, <1>5
  <2>3. complete'[h] => pos + 1 .. cur[h] \subseteq Logged
    BY <1>4
  <2>4. complete'[h] => pos' + 1 .. cur'[h] \subseteq Logged'
    BY <1>5, <2>1, <2>3
  <2> QED
    BY <1>4, <2>2, <2>4 DEF Replaying
<1>8. Importing(h)'
  BY <1>2, <1>4, <1>5 DEF Importing
<1> QED
  BY <1>2, <1>3, <1>6, <1>7, <1>8, OwnStep

\* A page holds the first of the later sequences, all of them up to its last.
LEMMA PageOfLog ==
  ASSUME NEW L \in SUBSET Nat, IsFiniteSet(L), NEW k \in Nat, L \subseteq 0 .. k,
         NEW a \in Nat
  PROVE  LET later == {n \in L : n > a}
             evts == {n \in later : Cardinality({m \in later : m < n}) < ReplayLimit}
         IN  /\ later # {} => evts # {}
             /\ \A n \in evts, m \in later : m < n => m \in evts
             /\ evts # {} => \E n \in evts : \A m \in evts : m <= n
<1> DEFINE later == {n \in L : n > a}
           below(n) == {m \in later : m < n}
           evts == {n \in later : Cardinality(below(n)) < ReplayLimit}
<1>1. IsFiniteSet(later) /\ later \in SUBSET (0 .. k)
  BY FS_Subset
<1>2. ASSUME NEW n \in later PROVE IsFiniteSet(below(n)) /\ Cardinality(below(n)) \in Nat
  <2>1. below(n) \in SUBSET later
    OBVIOUS
  <2> QED
    BY <1>1, <2>1, FS_Subset, FS_CardinalityType
<1>3. ASSUME NEW n \in evts, NEW m \in later, m < n PROVE m \in evts
  <2>1. below(m) \in SUBSET below(n) /\ n \in later
    BY <1>1, <1>3
  <2>2. Cardinality(below(m)) <= Cardinality(below(n))
    BY <1>2, <2>1, FS_Subset
  <2>3. Cardinality(below(n)) < ReplayLimit
    BY <1>3
  <2> QED
    BY <1>2, <2>1, <2>2, <2>3, RecoveryAssumption
<1>4. ASSUME later # {} PROVE evts # {}
  <2>1. PICK n \in later : \A m \in later : n <= m
    BY <1>1, <1>4, LeastNumber
  <2>2. below(n) = {}
    BY <1>1, <2>1
  <2>3. Cardinality(below(n)) = 0
    BY <2>2, FS_EmptySet
  <2> QED
    BY <2>1, <2>3, RecoveryAssumption
<1>5. evts # {} => \E n \in evts : \A m \in evts : m <= n
  <2>1. evts \in SUBSET (0 .. k)
    BY <1>1
  <2> HIDE DEF evts
  <2> QED
    BY <2>1, GreatestNumber
<1> QED
  BY <1>3, <1>4, <1>5

\* The log is finite.
LEMMA LogIsFinite ==
  ASSUME IInv
  PROVE  /\ IsFiniteSet(Logged) /\ Logged \subseteq 0 .. counter /\ counter \in Nat
         /\ \A n \in Logged : n <= LastLogged
         /\ LastLogged \in Nat /\ LastLogged < counter
<1>1. counter \in Nat \ {0} /\ Logged \in SUBSET (0 .. counter)
      /\ \A n \in Logged : n < counter /\ n \in Nat
  BY DEF IInv, SenderInv, SenderTypes, AllEnvelopes, Envelopes, Logged
<1>2. IsFiniteSet(Logged)
  <2>1. IsFiniteSet(0 .. counter)
    BY <1>1, FS_Interval
  <2> QED
    BY <1>1, <2>1, FS_Subset
<1>3. Logged # {} => \E n \in Logged : \A m \in Logged : m <= n
  BY <1>1, GreatestNumber
<1>4. Logged # {} => LastLogged \in Logged /\ \A m \in Logged : m <= LastLogged
  BY <1>3 DEF LastLogged
<1>5. Logged = {} => LastLogged = 0
  BY DEF LastLogged
<1>6. LastLogged \in Nat /\ LastLogged < counter
  <2>1. CASE Logged = {}
    BY <1>1, <1>5, <2>1
  <2>2. CASE Logged # {}
    BY <1>1, <1>4, <2>2
  <2> QED
    BY <2>1, <2>2
<1> QED
  BY <1>1, <1>2, <1>4, <1>6
LEMMA FetchPageStep ==
  ASSUME IInv, Alone, NEW h \in Handlers, FetchPage(h)
  PROVE  Kept
<1> DEFINE later == {n \in Logged : n > after[h]}
           evts == {n \in later : Cardinality({m \in later : m < n}) < ReplayLimit}
           t == IF evts = {} THEN after[h] ELSE CHOOSE n \in evts : \A m \in evts : m <= n
<1>1. /\ HandlerTypes /\ Working(h) /\ pos \in Nat /\ cur[h] \in Nat /\ after[h] \in Nat
      /\ Logged \in SUBSET Nat /\ Logged \subseteq Known
  BY HandlerFacts
<1>2. /\ later # {} => evts # {}
      /\ \A n \in evts, m \in later : m < n => m \in evts
      /\ evts # {} => \E n \in evts : \A m \in evts : m <= n
  <2>1. IsFiniteSet(Logged) /\ Logged \subseteq 0 .. counter /\ counter \in Nat
    BY LogIsFinite
  <2> QED
    BY <1>1, <2>1, PageOfLog
<1>4. /\ pc[h] = "fetch" /\ pc' = [pc EXCEPT ![h] = "answer"]
      /\ page' = [page EXCEPT ![h] = evts] /\ last' = [last EXCEPT ![h] = t]
      /\ UNCHANGED <<senderVars, receiverVars, cur, after, more, snap, inserts, store_pos,
                     complete, failures>>
  BY DEF FetchPage, Goto
<1>5. evts \in SUBSET later /\ later \in SUBSET Logged
  OBVIOUS
<1>6. \A n \in later : n > after[h]
  OBVIOUS
<1>7. \A n \in Logged : n > after[h] => n \in later
  OBVIOUS
<1> HIDE DEF evts, later
<1>8. evts # {} => t \in evts /\ \A m \in evts : m <= t
  BY <1>2
<1>9. t \in Nat /\ evts \in SUBSET Nat
  <2>1. evts = {} => t = after[h]
    OBVIOUS
  <2> HIDE DEF t
  <2> QED
    BY <1>1, <1>5, <1>8, <2>1
<1> HIDE DEF t
<1>10. HandlerTypes' /\ OnlyMoves(h)
  BY <1>1, <1>4, <1>9 DEF HandlerTypes, OnlyMoves, Labels
<1>11. pc'[h] = "answer" /\ page'[h] = evts /\ last'[h] = t
  BY <1>1, <1>4 DEF HandlerTypes
<1>12. Known' = Known /\ Logged' = Logged /\ inserts[h] = {} /\ pos' = pos
  BY <1>1, <1>4 DEF Known, Logged, senderVars, receiverVars, Working
<1>13. Working(h)'
  BY <1>1, <1>4, <1>5, <1>11, <1>12 DEF Working, SnapshotLabels
<1>14. ASSUME ~HasSnapshot PROVE Replaying(h)'
  <2>1. Replaying(h)
    BY <1>14, HandlerFacts
  <2> SUFFICES ASSUME complete[h], cur[h] > pos
               PROVE  /\ after[h] < t
                      /\ \A n \in evts : n <= t
                      /\ \A n \in pos + 1 .. cur[h] : n <= t => n \in evts
    BY <1>4, <1>11, <1>12, <2>1 DEF Replaying
  <2>2. pos + 1 .. cur[h] \subseteq Logged /\ after[h] <= pos
    BY <1>4, <2>1 DEF Replaying
  <2>3. \A n \in pos + 1 .. cur[h] : n \in later /\ n \in Nat
    BY <1>1, <1>7, <2>2
  <2>4. cur[h] \in later
    BY <1>1, <2>3
  <2>5. t \in evts /\ \A m \in evts : m <= t
    BY <1>2, <1>8, <2>4
  <2>6. \A n \in pos + 1 .. cur[h] : n <= t => n \in evts
    BY <1>2, <1>9, <2>3, <2>5
  <2> QED
    BY <1>5, <1>6, <2>5, <2>6
<1>15. Importing(h)'
  BY <1>4, <1>11, <1>12 DEF Importing
<1> QED
  BY <1>4, <1>10, <1>13, <1>14, <1>15, OwnStep

LEMMA AnswerPageStep ==
  ASSUME IInv, Alone, NEW h \in Handlers, AnswerPage(h)
  PROVE  Kept
<1>1. /\ HandlerTypes /\ Working(h) /\ pos \in Nat /\ cur[h] \in Nat /\ last[h] \in Nat
  BY HandlerFacts
<1>2. /\ pc[h] = "answer" /\ pc' = [pc EXCEPT ![h] = "events"]
      /\ more' = [more EXCEPT ![h] = last[h] < LastLogged]
      /\ UNCHANGED <<senderVars, receiverVars, cur, after, page, last, snap, inserts, store_pos,
                     complete, failures>>
  BY DEF AnswerPage, Goto
<1>3. HandlerTypes' /\ OnlyMoves(h)
  BY <1>1, <1>2 DEF HandlerTypes, OnlyMoves, Labels
<1>4. pc'[h] = "events" /\ more'[h] = (last[h] < LastLogged)
  BY <1>1, <1>2 DEF HandlerTypes
<1>5. Known' = Known /\ Logged' = Logged /\ inserts[h] = {} /\ pos' = pos
  BY <1>1, <1>2 DEF Known, Logged, senderVars, receiverVars, Working
<1>6. Working(h)'
  BY <1>1, <1>2, <1>4, <1>5 DEF Working, SnapshotLabels
<1>7. ASSUME ~HasSnapshot PROVE Replaying(h)'
  <2>1. Replaying(h)
    BY <1>7, HandlerFacts
  <2>2. ASSUME complete[h], cur[h] > pos, ~more'[h] PROVE cur[h] <= last[h]
    <3>1. cur[h] \in Logged
      BY <1>1, <2>1, <2>2 DEF Replaying
    <3>2. cur[h] <= LastLogged /\ LastLogged \in Nat
      BY <3>1, LogIsFinite
    <3>3. ~(last[h] < LastLogged)
      BY <1>4, <2>2
    <3> QED
      BY <1>1, <3>2, <3>3
  <2> QED
    BY <1>2, <1>4, <1>5, <2>1, <2>2 DEF Replaying
<1>8. Importing(h)'
  BY <1>2, <1>4, <1>5 DEF Importing
<1> QED
  BY <1>2, <1>3, <1>6, <1>7, <1>8, OwnStep

LEMMA ReplayEventStep ==
  ASSUME IInv, Alone, NEW h \in Handlers, ReplayEvent(h)
  PROVE  Kept
<1>1. /\ HandlerTypes /\ Working(h) /\ pos \in Nat /\ cur[h] \in Nat /\ after[h] \in Nat
      /\ page[h] \in SUBSET Nat /\ page[h] # {} /\ last[h] \in Nat
  BY HandlerFacts DEF ReplayEvent
<1>2. PICK n : n = FirstOf(page[h])
  OBVIOUS
<1>3. n \in page[h] /\ \A m \in page[h] : n <= m
  BY <1>1, <1>2, FirstIsLeast
<1>4. /\ pc[h] = "events" /\ Accept(n) /\ page' = [page EXCEPT ![h] = page[h] \ {n}]
      /\ UNCHANGED <<senderVars, acked, pc, cur, after, last, more, snap, inserts, store_pos,
                     complete, failures>>
  BY <1>2 DEF ReplayEvent
<1>5. n \in Known
  BY <1>1, <1>3 DEF Working
<1>6. UNCHANGED senderVars
  BY <1>4
<1>7. /\ ReceiverInv' /\ (Exact => Exact') /\ pos <= pos' /\ n <= pos'
      /\ \A o \in Objects : mirror[o] <= mirror'[o]
  BY <1>4, <1>5, <1>6, AcceptKeeps DEF IInv
<1>8. HandlerTypes' /\ OnlyMoves(h)
  BY <1>1, <1>4 DEF HandlerTypes, OnlyMoves
<1>9. page'[h] = page[h] \ {n}
  BY <1>1, <1>4 DEF HandlerTypes
<1>10. Known' = Known /\ Logged' = Logged /\ inserts[h] = {}
  BY <1>1, <1>4 DEF Known, Logged, senderVars, Working
<1>11. Working(h)'
  BY <1>1, <1>4, <1>9, <1>10 DEF Working
<1>12. pos' \in Nat
  BY <1>6, <1>7 DEF ReceiverInv, IInv, SenderInv, SenderTypes, senderVars
<1>13. ASSUME ~HasSnapshot PROVE Replaying(h)'
  <2>1. Replaying(h)
    BY <1>13, HandlerFacts
  <2> SUFFICES ASSUME complete[h], cur[h] > pos'
               PROVE  /\ pos' + 1 .. cur[h] \subseteq Logged
                      /\ after[h] <= pos' /\ after[h] < last[h]
                      /\ \A m \in page[h] \ {n} : m <= last[h]
                      /\ \A m \in pos' + 1 .. cur[h] : m <= last[h] => m \in page[h] \ {n}
                      /\ ~more[h] => cur[h] <= last[h]
    BY <1>4, <1>9, <1>10 DEF Replaying
  <2>2. cur[h] > pos
    BY <1>1, <1>7, <1>12
  <2>3. /\ pos + 1 .. cur[h] \subseteq Logged /\ after[h] <= pos /\ after[h] < last[h]
        /\ \A m \in page[h] : m <= last[h]
        /\ \A m \in pos + 1 .. cur[h] : m <= last[h] => m \in page[h]
        /\ ~more[h] => cur[h] <= last[h]
    BY <1>4, <2>1, <2>2 DEF Replaying
  <2>4. \A m \in pos' + 1 .. cur[h] : m \in pos + 1 .. cur[h] /\ m # n
    <3>1. n \in Nat /\ pos <= pos' /\ n <= pos'
      BY <1>1, <1>3, <1>7
    <3>2. pos \in Nat /\ pos' \in Nat /\ cur[h] \in Nat
      BY <1>1, <1>12
    <3> SUFFICES ASSUME NEW m \in pos' + 1 .. cur[h]
                 PROVE  m \in pos + 1 .. cur[h] /\ m # n
      OBVIOUS
    <3>3. m \in Nat /\ pos' < m /\ m <= cur[h]
      BY <3>2, InRange
    <3>4. m # n /\ pos < m
      BY <3>1, <3>2, <3>3
    <3> QED
      BY <3>2, <3>3, <3>4
  <2>5. after[h] <= pos'
    BY <1>1, <1>7, <1>12, <2>3
  <2> QED
    BY <2>3, <2>4, <2>5
<1>14. Importing(h)'
  BY <1>4, <1>10 DEF Importing
<1> QED
  BY <1>6, <1>7, <1>8, <1>11, <1>13, <1>14, StepOfHandler DEF Kept, IInv

\* The replay is given up for a snapshot; a complete one only when the event
\* has been received meanwhile.
LEMMA ToSnapshot ==
  ASSUME IInv, Alone, NEW h \in Handlers,
         pc' = [pc EXCEPT ![h] = "contents"], inserts[h] = {},
         complete' = [complete EXCEPT ![h] = FALSE] \/ complete' = complete,
         complete'[h] /\ ~HasSnapshot => cur[h] <= pos,
         after' \in [Handlers -> Nat], \A g \in Handlers \ {h} : after'[g] = after[g],
         failures' \in 0 .. MaxFailures,
         UNCHANGED <<senderVars, receiverVars, cur, page, last, more, snap, inserts, store_pos>>
  PROVE  Kept
<1>1. HandlerTypes /\ Working(h) /\ pos \in Nat /\ cur[h] \in Nat
  BY HandlerFacts
<1>2. HandlerTypes' /\ OnlyMoves(h)
  BY <1>1 DEF HandlerTypes, OnlyMoves, Labels
<1>3. pc'[h] = "contents"
  BY <1>1 DEF HandlerTypes
<1>4. Known' = Known /\ pos' = pos
  BY DEF Known, senderVars, receiverVars
<1>5. Working(h)'
  BY <1>1, <1>3, <1>4 DEF Working, SnapshotLabels
<1>6. ASSUME ~HasSnapshot PROVE Replaying(h)'
  <2>1. ~(complete'[h] /\ cur'[h] > pos')
    BY <1>1, <1>4, <1>6
  <2> QED
    BY <2>1 DEF Replaying
<1>7. Importing(h)'
  BY <1>3 DEF Importing
<1> QED
  BY <1>2, <1>5, <1>6, <1>7, OwnStep

LEMMA ReplayGapStep ==
  ASSUME IInv, Alone, NEW h \in Handlers, ReplayGap(h)
  PROVE  Kept
<1>1. /\ HandlerTypes /\ Working(h) /\ pos \in Nat /\ cur[h] \in Nat /\ page[h] \in SUBSET Nat
  BY HandlerFacts
<1>2. /\ pc[h] \in {"events", "retry"} /\ pc' = [pc EXCEPT ![h] = "contents"]
      /\ UNCHANGED <<senderVars, receiverVars, cur, after, page, last, more, snap, inserts,
                     store_pos, complete, failures>>
  BY DEF ReplayGap, Goto
<1>3. ASSUME complete[h], ~HasSnapshot PROVE cur[h] <= pos
  <2> SUFFICES ASSUME cur[h] > pos PROVE FALSE
    BY <1>1
  <2>1. Replaying(h)
    BY <1>3, HandlerFacts
  <2>2. pc[h] = "events"
    BY <1>2, <1>3, <2>1 DEF Replaying
  <2>3. page[h] # {} /\ Gap(FirstOf(page[h]))
    BY <2>2 DEF ReplayGap
  <2>4. PICK n : n = FirstOf(page[h])
    OBVIOUS
  <2>5. n \in page[h] /\ n \in Nat /\ (\A m \in page[h] : n <= m) /\ n > pos + 1
    BY <1>1, <2>3, <2>4, FirstIsLeast DEF Gap
  <2>6. n <= last[h] /\ last[h] \in Nat
    BY <1>3, <2>1, <2>2, <2>5, HandlerFacts DEF Replaying
  <2>7. pos + 1 \in page[h]
    <3>1. \A m \in pos + 1 .. cur[h] : m <= last[h] => m \in page[h]
      BY <1>3, <2>1, <2>2 DEF Replaying
    <3>2. pos + 1 \in pos + 1 .. cur[h] /\ pos + 1 <= last[h]
      BY <1>1, <2>5, <2>6
    <3> QED
      BY <3>1, <3>2
  <2> QED
    BY <1>1, <2>5, <2>7
<1>4. /\ after' \in [Handlers -> Nat] /\ (\A g \in Handlers \ {h} : after'[g] = after[g])
      /\ failures' \in 0 .. MaxFailures /\ inserts[h] = {}
  BY <1>1, <1>2 DEF HandlerTypes, Working
<1> QED
  BY <1>2, <1>3, <1>4, ToSnapshot

LEMMA ReplayFailsStep ==
  ASSUME IInv, Alone, NEW h \in Handlers, ReplayFails(h)
  PROVE  Kept
<1>1. HandlerTypes /\ Working(h)
  BY HandlerFacts
<1>2. /\ pc[h] \in {"fetch", "answer", "events", "retry"}
      /\ pc' = [pc EXCEPT ![h] = "contents"] /\ complete' = [complete EXCEPT ![h] = FALSE]
      /\ failures < MaxFailures /\ failures' = failures + 1
      /\ UNCHANGED <<senderVars, receiverVars, cur, after, page, last, more, snap, inserts,
                     store_pos>>
  BY DEF ReplayFails, Goto
<1>3. /\ after' \in [Handlers -> Nat] /\ (\A g \in Handlers \ {h} : after'[g] = after[g])
      /\ inserts[h] = {} /\ complete'[h] = FALSE
  BY <1>1, <1>2 DEF HandlerTypes, Working
<1>4. failures' \in 0 .. MaxFailures
  BY <1>1, <1>2, RecoveryAssumption DEF HandlerTypes
<1> QED
  BY <1>2, <1>3, <1>4, ToSnapshot
LEMMA NextPageStep ==
  ASSUME IInv, Alone, NEW h \in Handlers, NextPage(h)
  PROVE  Kept
<1>1. /\ HandlerTypes /\ Working(h) /\ pos \in Nat /\ cur[h] \in Nat /\ last[h] \in Nat
      /\ after[h] \in Nat
  BY HandlerFacts
<1>2. /\ pc[h] = "events" /\ page[h] = {} /\ after' = [after EXCEPT ![h] = last[h]]
      /\ UNCHANGED <<senderVars, receiverVars, cur, page, last, more, snap, inserts, store_pos,
                     complete, failures>>
  BY DEF NextPage
<1>3. inserts[h] = {} /\ after' \in [Handlers -> Nat]
      /\ after'[h] = last[h] /\ \A g \in Handlers \ {h} : after'[g] = after[g]
  BY <1>1, <1>2 DEF HandlerTypes, Working
\* As long as the event is missing, the page that is done was not the last.
<1>4. ASSUME complete[h], ~HasSnapshot, cur[h] > pos
      PROVE  /\ more[h] /\ after[h] < last[h] /\ last[h] <= pos
             /\ pos + 1 .. cur[h] \subseteq Logged
  <2>1. Replaying(h)
    BY <1>4, HandlerFacts
  <2>2. /\ pos + 1 .. cur[h] \subseteq Logged /\ after[h] < last[h]
        /\ \A n \in pos + 1 .. cur[h] : n <= last[h] => n \in page[h]
        /\ ~more[h] => cur[h] <= last[h]
    BY <1>2, <1>4, <2>1 DEF Replaying
  <2>3. \A n \in pos + 1 .. cur[h] : n > last[h]
    BY <1>1, <1>2, <2>2
  <2>4. pos + 1 \in pos + 1 .. cur[h] /\ cur[h] \in pos + 1 .. cur[h]
    BY <1>1, <1>4
  <2>5. pos + 1 > last[h] /\ cur[h] > last[h]
    BY <2>3, <2>4
  <2> QED
    BY <1>1, <2>2, <2>5
<1>5. CASE pc' = [pc EXCEPT ![h] = "contents"] /\ last[h] <= after[h]
  <2>1. complete'[h] /\ ~HasSnapshot => cur[h] <= pos
    BY <1>1, <1>2, <1>4, <1>5
  <2>2. failures' \in 0 .. MaxFailures
    BY <1>1, <1>2 DEF HandlerTypes
  <2> QED
    BY <1>2, <1>3, <1>5, <2>1, <2>2, ToSnapshot
<1>6. CASE \/ pc' = [pc EXCEPT ![h] = "fetch"]
           \/ pc' = [pc EXCEPT ![h] = "retry"] /\ ~more[h]
  <2>1. HandlerTypes' /\ OnlyMoves(h)
    BY <1>1, <1>2, <1>3, <1>6 DEF HandlerTypes, OnlyMoves, Labels
  <2>2. pc'[h] = "fetch" \/ (pc'[h] = "retry" /\ ~more[h])
    BY <1>1, <1>6 DEF HandlerTypes
  <2>3. Known' = Known /\ Logged' = Logged /\ pos' = pos
    BY <1>2 DEF Known, Logged, senderVars, receiverVars
  <2>4. Working(h)'
    BY <1>1, <1>2, <1>3, <2>2, <2>3 DEF Working, SnapshotLabels
  <2>5. ASSUME ~HasSnapshot PROVE Replaying(h)'
    <3> SUFFICES ASSUME complete[h], cur[h] > pos
                 PROVE  /\ pos + 1 .. cur[h] \subseteq Logged
                        /\ pc'[h] = "fetch" /\ after'[h] <= pos
      BY <1>2, <2>3 DEF Replaying
    <3> QED
      BY <1>3, <1>4, <2>2, <2>5
  <2>6. Importing(h)'
    BY <1>2, <1>3, <2>2 DEF Importing
  <2> QED
    BY <1>2, <2>1, <2>4, <2>5, <2>6, OwnStep
<1> QED
  BY <1>1, <1>5, <1>6 DEF NextPage, Goto

\* Only what has been acknowledged is pruned, and that has been received.
LEMMA PruneStep ==
  ASSUME IInv, NEW n \in Sequences, Prune(n)
  PROVE  Kept
<1>1. /\ n \in acked /\ pruned' = pruned \cup {n}
      /\ UNCHANGED <<store, writes, unnumbered, counter, numbered, outbox, receiverVars,
                     handlerVars, failures>>
  BY DEF Prune
<1> USE DEF receiverVars, handlerVars
<1>2. n <= pos /\ pos \in Nat
  BY <1>1 DEF IInv, ReceiverInv, SenderInv, SenderTypes
<1>3. SenderInv'
  BY <1>1 DEF IInv, SenderInv, SenderTypes, Envelopes
<1>4. ReceiverInv'
  <2>1. pruned' \subseteq acked /\ UNCHANGED <<store, counter, numbered, outbox>>
    BY <1>1 DEF IInv, ReceiverInv
  <2>2. UNCHANGED <<claims, pos, mirror, acked>>
    BY <1>1
  <2> QED
    BY <2>1, <2>2 DEF IInv, ReceiverInv, Envelopes
<1>5. Known' = Known /\ \A m \in Logged : m > pos => m \in Logged'
  <2>1. Known' = Known /\ Logged = Known \ pruned /\ Logged' = Known \ (pruned \cup {n})
    BY <1>1 DEF Known, Logged
  <2>2. \A m : m > pos => m # n
    BY <1>2 DEF Sequences
  <2> QED
    BY <2>1, <2>2
<1>6. HandlerInv'
  BY <1>1, <1>5 DEF IInv, HandlerInv, HandlerTypes, Working
<1>7. Exact => Exact'
  BY <1>1, <1>5 DEF Exact
<1>8. ASSUME ~HasSnapshot, NEW h \in Handlers PROVE Replaying(h)'
  <2>1. cur[h] \in Nat /\ after[h] \in Nat /\ Replaying(h)
    BY <1>8, HandlerFacts
  <2>2. UNCHANGED <<pc[h], cur[h], after[h], page[h], last[h], more[h], complete[h]>>
    BY <1>1
  <2>3. pos' \in Nat /\ pos <= pos' /\ \A m \in Logged : m > pos' => m \in Logged'
    BY <1>1, <1>2, <1>5
  <2> QED
    BY <1>2, <2>1, <2>2, <2>3, ReplayUndisturbed
<1>9. ASSUME HasSnapshot, NEW h \in Handlers PROVE Importing(h)'
  BY <1>1, <1>9 DEF IInv, Importing, Envelopes
<1>10. pos <= pos' /\ \A o \in Objects : mirror[o] <= mirror'[o]
  BY <1>1, <1>2 DEF IInv, ReceiverInv
<1> QED
  BY <1>3, <1>4, <1>6, <1>7, <1>8, <1>9, <1>10 DEF Kept, IInv

-----------------------------------------------------------------------------
(* Snapshots *)

LEMMA RefreshStep ==
  ASSUME IInv, Alone, NEW h \in Handlers, Refresh(h)
  PROVE  Kept
<1>1. HandlerTypes /\ Working(h) /\ HasSnapshot /\ pc[h] = "idle"
  BY HandlerFacts DEF Refresh
<1>2. /\ pc' = [pc EXCEPT ![h] = "contents"]
      /\ UNCHANGED <<senderVars, receiverVars, cur, after, page, last, more, snap, inserts,
                     store_pos, complete, failures>>
  BY DEF Refresh, Goto
<1>3. /\ after' \in [Handlers -> Nat] /\ (\A g \in Handlers \ {h} : after'[g] = after[g])
      /\ inserts[h] = {} /\ failures' \in 0 .. MaxFailures
  BY <1>1, <1>2 DEF HandlerTypes, Working
<1> QED
  BY <1>1, <1>2, <1>3, ToSnapshot

\* A step of an import that touches nothing but the import.
LEMMA ImportStep ==
  ASSUME IInv, Alone, NEW h \in Handlers, HasSnapshot, NEW l \in SnapshotLabels,
         pc' = [pc EXCEPT ![h] = l], l # "last_retry", inserts'[h] # {} => l \in {"check", "store"},
         snap' \in [Handlers -> Snapshots], \A g \in Handlers \ {h} : snap'[g] = snap[g],
         inserts' \in [Handlers -> SUBSET Objects],
         \A g \in Handlers \ {h} : inserts'[g] = inserts[g],
         store_pos' \in [Handlers -> BOOLEAN],
         \A g \in Handlers \ {h} : store_pos'[g] = store_pos[g],
         UNCHANGED <<senderVars, receiverVars, cur, after, page, last, more, complete, failures>>,
         Importing(h)'
  PROVE  Kept
<1>1. HandlerTypes /\ Working(h)
  BY HandlerFacts
<1>2. HandlerTypes' /\ OnlyMoves(h)
  BY <1>1 DEF HandlerTypes, OnlyMoves, Labels
<1>3. pc'[h] = l
  BY <1>1 DEF HandlerTypes
<1>4. Known' = Known
  BY DEF Known, senderVars
<1>5. Working(h)'
  BY <1>1, <1>3, <1>4 DEF Working, SnapshotLabels
<1> QED
  BY <1>2, <1>5, OwnStep

LEMMA SnapshotContentsStep ==
  ASSUME IInv, Alone, NEW h \in Handlers, SnapshotContents(h)
  PROVE  Kept
<1>1. HandlerTypes /\ Working(h) /\ HasSnapshot /\ store \in [Objects -> Nat]
  BY HandlerFacts DEF SnapshotContents, IInv, SenderInv, SenderTypes
<1>2. /\ pc[h] = "contents" /\ pc' = [pc EXCEPT ![h] = "positions"]
      /\ snap' = [snap EXCEPT ![h].contents = store]
      /\ UNCHANGED <<senderVars, receiverVars, cur, after, page, last, more, inserts,
                     store_pos, complete, failures>>
  BY DEF SnapshotContents, Goto
<1>3. /\ snap' \in [Handlers -> Snapshots] /\ (\A g \in Handlers \ {h} : snap'[g] = snap[g])
      /\ snap'[h].contents = store
  BY <1>1, <1>2 DEF HandlerTypes, Snapshots
<1>4. inserts[h] = {} /\ pc'[h] = "positions"
  BY <1>1, <1>2 DEF Working, HandlerTypes
<1>5. Importing(h)'
  <2>1. \A e \in Envelopes : e.ver < store[e.obj] => e \in outbox
    BY DEF IInv, SenderInv, SenderTypes, Envelopes, AllEnvelopes
  <2>2. \A o \in Objects : store[o] <= store[o]
    BY <1>1
  <2>3. Envelopes' = Envelopes /\ outbox' = outbox /\ store' = store
    BY <1>2 DEF Envelopes, senderVars
  <2> QED
    BY <1>2, <1>3, <1>4, <2>1, <2>2, <2>3 DEF Importing
<1>6. "positions" \in SnapshotLabels /\ inserts' \in [Handlers -> SUBSET Objects]
      /\ store_pos' \in [Handlers -> BOOLEAN]
  BY <1>1, <1>2 DEF SnapshotLabels, HandlerTypes
<1> QED
  BY <1>1, <1>2, <1>3, <1>4, <1>5, <1>6, ImportStep

\* Everything older than the contents is in the log, hence up to its end, or
\* was pruned, hence acknowledged.
LEMMA SnapshotPositionsStep ==
  ASSUME IInv, Alone, NEW h \in Handlers, SnapshotPositions(h)
  PROVE  Kept
<1>1. HandlerTypes /\ Working(h) /\ HasSnapshot /\ Importing(h)
  BY HandlerFacts DEF SnapshotPositions, Working, SnapshotLabels
<1>2. /\ pc[h] = "positions" /\ pc' = [pc EXCEPT ![h] = "messages"]
      /\ snap' = [snap EXCEPT ![h].last = LastLogged]
      /\ UNCHANGED <<senderVars, receiverVars, cur, after, page, last, more, inserts,
                     store_pos, complete, failures>>
  BY DEF SnapshotPositions, Goto
<1>3. /\ LastLogged \in Nat /\ LastLogged < counter /\ \A n \in Logged : n <= LastLogged
  BY LogIsFinite
<1>4. /\ snap' \in [Handlers -> Snapshots] /\ (\A g \in Handlers \ {h} : snap'[g] = snap[g])
      /\ snap'[h].contents = snap[h].contents /\ snap'[h].last = LastLogged
  BY <1>1, <1>2, <1>3 DEF HandlerTypes, Snapshots
<1>5. inserts[h] = {} /\ pc'[h] = "messages"
  BY <1>1, <1>2 DEF Working, HandlerTypes
<1>6. Importing(h)'
  <2>1. /\ \A o \in Objects : snap[h].contents[o] <= store[o]
        /\ \A e \in Envelopes : e.ver < snap[h].contents[e.obj] => e \in outbox
    BY <1>1, <1>2 DEF Importing
  <2>2. \A e \in outbox : e.seq <= LastLogged \/ e.seq <= pos
    <3> TAKE e \in outbox
    <3>1. CASE e.seq \in pruned
      <4>1. e.seq \in 1 .. pos
        BY <3>1 DEF IInv, ReceiverInv
      <4>2. pos \in Nat
        BY HandlerFacts
      <4> QED
        BY <4>1, <4>2
    <3>2. CASE e.seq \notin pruned
      BY <1>3, <3>2 DEF Logged
    <3> QED
      BY <3>1, <3>2
  <2>3. Envelopes' = Envelopes /\ outbox' = outbox /\ store' = store /\ pos' = pos
        /\ counter' = counter
    BY <1>2 DEF Envelopes, senderVars, receiverVars
  <2> QED
    BY <1>2, <1>3, <1>4, <1>5, <2>1, <2>2, <2>3 DEF Importing
<1>7. "messages" \in SnapshotLabels /\ inserts' \in [Handlers -> SUBSET Objects]
      /\ store_pos' \in [Handlers -> BOOLEAN]
  BY <1>1, <1>2 DEF SnapshotLabels, HandlerTypes
<1> QED
  BY <1>1, <1>2, <1>4, <1>5, <1>6, <1>7, ImportStep
LEMMA ImportMessagesStep ==
  ASSUME IInv, Alone, NEW h \in Handlers, ImportMessages(h)
  PROVE  Kept
<1>1. HandlerTypes /\ Working(h) /\ HasSnapshot /\ Importing(h)
  BY HandlerFacts DEF ImportMessages, Working, SnapshotLabels
<1>2. /\ pc[h] = "messages" /\ pc' = [pc EXCEPT ![h] = "check"]
      /\ inserts' = [inserts EXCEPT ![h] = Missing(h)]
      /\ UNCHANGED <<senderVars, receiverVars, cur, after, page, last, more, snap, store_pos,
                     complete, failures>>
  BY DEF ImportMessages, Goto
<1>3. /\ inserts' \in [Handlers -> SUBSET Objects]
      /\ (\A g \in Handlers \ {h} : inserts'[g] = inserts[g])
      /\ inserts'[h] = Missing(h) /\ pc'[h] = "check"
  BY <1>1, <1>2 DEF HandlerTypes, Missing
<1>4. Importing(h)'
  <2>1. Envelopes' = Envelopes /\ outbox' = outbox /\ store' = store /\ pos' = pos
        /\ counter' = counter /\ mirror' = mirror /\ snap' = snap
    BY <1>2 DEF Envelopes, senderVars, receiverVars
  <2> QED
    BY <1>1, <1>2, <1>3, <2>1 DEF Importing, Missing
<1>5. "check" \in SnapshotLabels /\ store_pos' \in [Handlers -> BOOLEAN]
      /\ snap' \in [Handlers -> Snapshots]
  BY <1>1, <1>2 DEF SnapshotLabels, HandlerTypes
<1> QED
  BY <1>1, <1>2, <1>3, <1>4, <1>5, ImportStep

LEMMA ImportCheckStep ==
  ASSUME IInv, Alone, NEW h \in Handlers, ImportCheck(h)
  PROVE  Kept
<1>1. HandlerTypes /\ Working(h) /\ HasSnapshot /\ Importing(h)
  BY HandlerFacts DEF ImportCheck, Working, SnapshotLabels
<1>2. /\ pc[h] = "check" /\ pc' = [pc EXCEPT ![h] = "store"]
      /\ store_pos' = [store_pos EXCEPT ![h] = snap[h].last > pos]
      /\ UNCHANGED <<senderVars, receiverVars, cur, after, page, last, more, snap, inserts,
                     complete, failures>>
  BY DEF ImportCheck, Goto
<1>3. /\ store_pos' \in [Handlers -> BOOLEAN]
      /\ (\A g \in Handlers \ {h} : store_pos'[g] = store_pos[g])
      /\ store_pos'[h] = (snap[h].last > pos) /\ pc'[h] = "store"
  BY <1>1, <1>2 DEF HandlerTypes
<1>4. Importing(h)'
  <2>1. Envelopes' = Envelopes /\ outbox' = outbox /\ store' = store /\ pos' = pos
        /\ counter' = counter /\ mirror' = mirror /\ snap' = snap /\ inserts' = inserts
    BY <1>2 DEF Envelopes, senderVars, receiverVars
  <2> QED
    BY <1>1, <1>2, <1>3, <2>1 DEF Importing
<1>5. "store" \in SnapshotLabels /\ inserts' \in [Handlers -> SUBSET Objects]
      /\ snap' \in [Handlers -> Snapshots]
  BY <1>1, <1>2 DEF SnapshotLabels, HandlerTypes
<1> QED
  BY <1>1, <1>2, <1>3, <1>4, <1>5, ImportStep

\* The import inserts what the mirror lacks, no older than any event beyond the
\* mark it stores.
LEMMA ImportCommitStep ==
  ASSUME IInv, Alone, NEW h \in Handlers, ImportCommit(h)
  PROVE  Kept
<1>1. HandlerTypes /\ Working(h) /\ HasSnapshot /\ Importing(h) /\ pos \in Nat
  BY HandlerFacts DEF ImportCommit, Working, SnapshotLabels
<1>2. /\ pc[h] = "store"
      /\ mirror' = [o \in Objects |-> IF o \in inserts[h] THEN snap[h].contents[o] ELSE mirror[o]]
      /\ pos' = IF store_pos[h] THEN snap[h].last ELSE pos
      /\ UNCHANGED <<senderVars, claims, acked, failures>>
  BY DEF ImportCommit
<1>3. PICK s : s = snap[h]
  OBVIOUS
<1>4. s.last \in Nat /\ s.contents \in [Objects -> Nat] /\ inserts[h] \subseteq Objects
  BY <1>1, <1>3 DEF HandlerTypes, Snapshots
<1>5. /\ \A o \in Objects : s.contents[o] <= store[o]
      /\ \A e \in Envelopes : e.ver < s.contents[e.obj] => e.seq <= s.last \/ e.seq <= pos
      /\ s.last < counter /\ (store_pos[h] <=> s.last > pos)
      /\ \A o \in inserts[h] : mirror[o] = 0
  BY <1>1, <1>2, <1>3 DEF Importing
<1>6. pos' \in Nat /\ pos <= pos' /\ s.last <= pos' /\ pos' \in 0 .. (counter - 1)
  <2>1. counter \in Nat /\ pos \in 0 .. (counter - 1)
    BY DEF IInv, ReceiverInv, SenderInv, SenderTypes
  <2>2. CASE store_pos[h]
    <3>1. pos' = s.last
      BY <1>2, <1>3, <2>2
    <3> QED
      BY <1>1, <1>4, <1>5, <2>1, <2>2, <3>1
  <2>3. CASE ~store_pos[h]
    <3>1. pos' = pos
      BY <1>2, <2>3
    <3> QED
      BY <1>1, <1>4, <1>5, <2>1, <2>3, <3>1
  <2> QED
    BY <2>2, <2>3
<1>7. \A o \in Objects : mirror[o] \in Nat /\ store[o] \in Nat /\ mirror[o] <= store[o]
  BY DEF IInv, ReceiverInv, SenderInv, SenderTypes
<1>8. \A o \in Objects : mirror'[o] = IF o \in inserts[h] THEN s.contents[o] ELSE mirror[o]
  BY <1>2, <1>3
<1>9. /\ mirror' \in [Objects -> Nat]
      /\ \A o \in Objects : mirror[o] <= mirror'[o] /\ mirror'[o] <= store[o]
  <2>1. \A o \in Objects : mirror'[o] \in Nat
    BY <1>4, <1>7, <1>8
  <2>2. \A o \in Objects : mirror[o] <= mirror'[o] /\ mirror'[o] <= store[o]
    BY <1>4, <1>5, <1>7, <1>8
  <2> QED
    BY <1>2, <2>1, <2>2
<1>10. ASSUME NEW e \in Envelopes, e.seq > pos' PROVE mirror'[e.obj] <= e.ver
  <2>1. e.seq \in Nat /\ e.obj \in Objects /\ e.ver \in Nat
    BY DEF IInv, SenderInv, SenderTypes, Envelopes, AllEnvelopes
  <2>2. e.seq > pos /\ ~(e.seq <= s.last \/ e.seq <= pos)
    BY <1>1, <1>4, <1>6, <1>10, <2>1
  <2>3. mirror[e.obj] <= e.ver
    BY <2>2 DEF IInv, ReceiverInv
  <2>4. s.contents[e.obj] <= e.ver
    BY <1>4, <1>5, <2>1, <2>2
  <2> QED
    BY <1>8, <2>1, <2>3, <2>4
<1>11. UNCHANGED senderVars
  BY <1>2
<1>12. ReceiverInv'
  <2>1. 1 .. pos \subseteq 1 .. pos'
    BY <1>1, <1>6
  <2>2. UNCHANGED <<store, counter, numbered, outbox, pruned, claims, acked>>
    BY <1>2 DEF senderVars
  <2>3. claims' \subseteq 1 .. pos' /\ acked' \subseteq 1 .. pos' /\ pruned' \subseteq acked'
    BY <2>1, <2>2 DEF IInv, ReceiverInv
  <2>4. pos' \in 0 .. (counter' - 1)
    BY <1>6, <2>2
  <2>5. Envelopes' = Envelopes
    BY <2>2 DEF Envelopes
  <2> QED
    BY <1>9, <1>10, <2>2, <2>3, <2>4, <2>5 DEF ReceiverInv
<1>13. failures' \in 0 .. MaxFailures
  BY <1>1, <1>2 DEF HandlerTypes
<1>14. CASE End(h)
  <2>1. OnlyMoves(h) /\ HandlerTypes' /\ Working(h)' /\ Importing(h)'
    BY <1>13, <1>14, EndOfHandler
  <2> QED
    BY <1>1, <1>6, <1>9, <1>11, <1>12, <2>1, StepOfHandler DEF Kept
<1>15. CASE cur[h] # 0
  <2>1. /\ pc' = [pc EXCEPT ![h] = "last_retry"]
        /\ inserts' = [inserts EXCEPT ![h] = {}] /\ snap' = [snap EXCEPT ![h] = NoSnapshot]
        /\ store_pos' = [store_pos EXCEPT ![h] = FALSE]
        /\ UNCHANGED <<cur, after, page, last, more, complete>>
    BY <1>15 DEF ImportCommit, Goto
  <2>2. HandlerTypes' /\ OnlyMoves(h)
    <3>1. NoSnapshot \in Snapshots /\ "last_retry" \in Labels
      BY DEF NoSnapshot, Snapshots, Labels, SnapshotLabels
    <3>2. HandlerTypes'
      BY <1>1, <1>13, <2>1, <3>1 DEF HandlerTypes
    <3>3. OnlyMoves(h)
      BY <1>1, <2>1 DEF HandlerTypes, OnlyMoves
    <3> QED
      BY <3>2, <3>3
  <2>3. pc'[h] = "last_retry" /\ inserts'[h] = {}
    BY <1>1, <2>1 DEF HandlerTypes
  <2>4. Known' = Known
    BY <1>2 DEF Known, senderVars
  <2>5. Working(h)'
    BY <1>1, <1>15, <2>1, <2>3, <2>4 DEF Working
  <2>6. Importing(h)'
    BY <2>3 DEF Importing
  <2> QED
    BY <1>1, <1>6, <1>9, <1>11, <1>12, <2>2, <2>5, <2>6, StepOfHandler DEF Kept
<1> QED
  BY <1>14, <1>15 DEF ImportCommit

-----------------------------------------------------------------------------
(* The theorems *)

LEMMA NextKeeps ==
  ASSUME IInv, Alone, ~Overlap, Next
  PROVE  Kept
<1>1. ASSUME NEW o \in Objects, Write(o) PROVE Kept
  <2>1. SenderInv'
    BY <1>1, WriteSender DEF IInv
  <2>2. \A q \in Objects : store[q] \in Nat
    BY DEF IInv, SenderInv, SenderTypes
  <2>3. SenderMoves
    <3>1. \A q \in Objects : store[q] <= store'[q]
      BY <1>1, <2>2 DEF Write, IInv, SenderInv, SenderTypes
    <3>2. counter <= counter'
      BY <1>1 DEF Write, IInv, SenderInv, SenderTypes
    <3> QED
      BY <1>1, <3>1, <3>2 DEF Write, SenderMoves, Envelopes
  <2> QED
    BY <2>1, <2>3, SenderStep, SameReceiver DEF Kept
<1>2. ASSUME NEW p \in unnumbered, Allocate(p) PROVE Kept
  <2>1. SenderInv'
    BY <1>2, AllocateSender DEF IInv
  <2>2. SenderMoves
    <3>1. \A q \in Objects : store[q] <= store'[q]
      BY <1>2 DEF Allocate, IInv, SenderInv, SenderTypes
    <3>2. counter <= counter'
      BY <1>2 DEF Allocate, IInv, SenderInv, SenderTypes
    <3>3. \A e \in Envelopes' : e \in Envelopes \/ e.ver = store[e.obj]
      BY <1>2 DEF Allocate, Envelopes, IInv, SenderInv
    <3> QED
      BY <1>2, <3>1, <3>2, <3>3 DEF Allocate, SenderMoves, Envelopes
  <2> QED
    BY <2>1, <2>2, SenderStep, SameReceiver DEF Kept
<1>3. ASSUME NEW e \in numbered, Enqueue(e) \/ Burn(e) PROVE Kept
  <2>1. SenderInv'
    BY <1>3, EnqueueSender DEF IInv
  <2>2. SenderMoves
    <3>1. \A q \in Objects : store[q] <= store'[q]
      BY <1>3 DEF Enqueue, Burn, IInv, SenderInv, SenderTypes
    <3>2. counter <= counter'
      BY <1>3 DEF Enqueue, Burn, IInv, SenderInv, SenderTypes
    <3> QED
      BY <1>3, <3>1, <3>2 DEF Enqueue, Burn, SenderMoves, Envelopes
  <2> QED
    BY <2>1, <2>2, SenderStep, SameReceiver DEF Kept
<1>4. ASSUME NEW n \in Sequences, NEW h \in Handlers, DeliverAccepted(h, n) \/ DeliverGap(h, n)
      PROVE  Kept
  BY <1>4, DeliverAcceptedStep, DeliverGapStep DEF Kept
<1>5. ASSUME NEW n \in Sequences, Prune(n) PROVE Kept
  BY <1>5, PruneStep
<1>6. ASSUME NEW h \in Handlers, Recover(h) PROVE Kept
  <2>1. CASE StartReplay(h)
    BY <2>1, StartReplayStep
  <2>2. CASE FetchPage(h)
    BY <2>2, FetchPageStep
  <2>3. CASE AnswerPage(h)
    BY <2>3, AnswerPageStep
  <2>4. CASE ReplayEvent(h)
    BY <2>4, ReplayEventStep
  <2>5. CASE ReplayGap(h)
    BY <2>5, ReplayGapStep
  <2>6. CASE NextPage(h)
    BY <2>6, NextPageStep
  <2>7. CASE RetryAccepted(h)
    BY <2>7, RetryAcceptedStep DEF Kept
  <2>8. CASE GiveUp(h)
    BY <2>8, StopStep DEF Kept
  <2>9. CASE SnapshotContents(h)
    BY <2>9, SnapshotContentsStep
  <2>10. CASE SnapshotPositions(h)
    BY <2>10, SnapshotPositionsStep
  <2>11. CASE ImportMessages(h)
    BY <2>11, ImportMessagesStep
  <2>12. CASE ImportCheck(h)
    BY <2>12, ImportCheckStep
  <2>13. CASE ImportCommit(h)
    BY <2>13, ImportCommitStep
  <2> QED
    BY <1>6, <2>1, <2>2, <2>3, <2>4, <2>5, <2>6, <2>7, <2>8, <2>9, <2>10, <2>11, <2>12, <2>13
       DEF Recover
<1>7. ASSUME NEW h \in Handlers, Refresh(h) \/ ReplayFails(h) \/ Fail(h) PROVE Kept
  BY <1>7, RefreshStep, ReplayFailsStep, StopStep DEF Kept
<1> QED
  BY <1>1, <1>2, <1>3, <1>4, <1>5, <1>6, <1>7 DEF Next, Publish, Deliver

LEMMA StutterKeeps ==
  ASSUME IInv, UNCHANGED vars
  PROVE  Kept
<1> USE DEF vars, senderVars, receiverVars, handlerVars
<1>1. SenderInv' /\ ReceiverInv'
  BY DEF IInv, SenderInv, SenderTypes, ReceiverInv, Envelopes
<1>2. HandlerInv'
  BY DEF IInv, HandlerInv, HandlerTypes, Working, Known
<1>3. /\ ~HasSnapshot => Exact' /\ \A h \in Handlers : Replaying(h)'
      /\ HasSnapshot => \A h \in Handlers : Importing(h)'
  BY DEF IInv, Exact, Known, Replaying, Importing, Logged, Envelopes
<1>4. pos <= pos' /\ \A o \in Objects : mirror[o] <= mirror'[o]
  BY SameReceiver
<1> QED
  BY <1>1, <1>2, <1>3, <1>4 DEF IInv, Kept

\* The inductive invariant holds in every state, with any number of handlers in
\* a stream without snapshots and with one handler otherwise
\* (recover_sequence_gap, import_server_snapshot).
THEOREM RecoveryInvariance ==
  ASSUME Alone, ~Overlap
  PROVE  Spec => []IInv
<1>1. Init => IInv
  BY InitIInv
<1>2. IInv /\ [Next]_vars => IInv'
  BY NextKeeps, StutterKeeps DEF Kept
<1> QED
  BY <1>1, <1>2, PTL DEF Spec

\* Neither a mirrored message nor the high-water mark goes back
\* (import_server_snapshot, store_snapshot_stream_positions).
THEOREM NothingGoesBack ==
  ASSUME Alone, ~Overlap
  PROVE  Spec => NothingRegresses
<1>1. IInv /\ [Next]_vars => [pos' >= pos /\ \A o \in Objects : mirror'[o] >= mirror[o]]_vars
  <2> SUFFICES ASSUME IInv, Next
               PROVE  pos' >= pos /\ \A o \in Objects : mirror'[o] >= mirror[o]
    OBVIOUS
  <2>1. pos <= pos' /\ \A o \in Objects : mirror[o] <= mirror'[o]
    BY NextKeeps DEF Kept
  <2> QED
    BY <2>1
<1> QED
  BY <1>1, RecoveryInvariance, PTL DEF Spec, NothingRegresses
\* Every variable keeps its type: no sequence beyond the number of writes.
LEMMA TypesFromIInv == IInv => TypeOK
<1> SUFFICES ASSUME IInv PROVE TypeOK
  OBVIOUS
<1>1. /\ SenderTypes /\ MaxWrites \in Nat /\ Cardinality(unnumbered) \in Nat
      /\ writes \in Nat /\ writes <= MaxWrites /\ counter \in Nat
      /\ counter + Cardinality(unnumbered) = writes + 1
  <2>1. SenderTypes /\ MaxWrites \in Nat
    BY RecoveryAssumption DEF IInv, SenderInv
  <2>2. Cardinality(unnumbered) \in Nat
    BY <2>1, FS_CardinalityType DEF SenderTypes
  <2> QED
    BY <2>1, <2>2 DEF SenderTypes
<1>2. counter \in 1 .. MaxWrites + 1
  BY <1>1 DEF SenderTypes
<1>3. store \in [Objects -> Versions]
  <2>1. \A o \in Objects : store[o] \in Versions
    BY <1>1 DEF SenderTypes, Versions
  <2> QED
    BY <1>1, <2>1 DEF SenderTypes
<1>4. \A e \in Envelopes : e.seq \in Sequences /\ e.obj \in Objects /\ e.ver \in Versions
  <2> TAKE e \in Envelopes
  <2>1. e.seq \in Nat \ {0} /\ e.obj \in Objects /\ e.ver \in Nat \ {0}
    BY <1>1 DEF SenderTypes, Envelopes, AllEnvelopes
  <2>2. e.seq < counter /\ e.ver <= store[e.obj] /\ store[e.obj] \in Versions
    BY <1>3, <2>1 DEF IInv, SenderInv
  <2> QED
    BY <1>1, <1>2, <2>1, <2>2 DEF Sequences, Versions
<1>5. numbered \subseteq [seq : Sequences, obj : Objects, ver : Versions]
      /\ outbox \subseteq [seq : Sequences, obj : Objects, ver : Versions]
  <2>1. \A e \in Envelopes : e \in [seq : Sequences, obj : Objects, ver : Versions]
    BY <1>1, <1>4 DEF SenderTypes, Envelopes, AllEnvelopes
  <2> QED
    BY <2>1 DEF Envelopes
<1>6. unnumbered \subseteq [obj : Objects, ver : Versions]
  <2>1. \A p \in unnumbered : p \in [obj : Objects, ver : Nat \ {0}] /\ p.ver = store[p.obj]
    BY <1>1 DEF SenderTypes, Drafts, IInv, SenderInv
  <2> QED
    BY <1>3, <2>1
<1>7. Known \subseteq Sequences
  BY <1>4 DEF Known, Envelopes
<1>8. pos \in 0 .. MaxWrites /\ claims \subseteq Sequences /\ acked \subseteq Sequences
  BY <1>1, <1>2 DEF IInv, ReceiverInv, Sequences
<1>9. mirror \in [Objects -> Versions]
  <2>1. \A o \in Objects : mirror[o] \in Nat /\ mirror[o] <= store[o] /\ store[o] \in Versions
    BY <1>3 DEF IInv, ReceiverInv
  <2>2. \A o \in Objects : mirror[o] \in Versions
    BY <1>1, <2>1 DEF Versions
  <2> QED
    BY <2>2 DEF IInv, ReceiverInv
<1>10. cur \in [Handlers -> 0 .. MaxWrites] /\ page \in [Handlers -> SUBSET Sequences]
       /\ inserts \in [Handlers -> SUBSET Objects] /\ failures \in 0 .. MaxFailures
  <2>1. ASSUME NEW h \in Handlers PROVE cur[h] \in 0 .. MaxWrites /\ page[h] \subseteq Sequences
    <3>1. (cur[h] = 0 \/ cur[h] \in Known) /\ page[h] \subseteq Known
      BY DEF IInv, HandlerInv, Working
    <3>2. \A n \in Known : n \in 0 .. MaxWrites
      BY <1>1, <1>7 DEF Sequences
    <3> QED
      BY <1>1, <1>7, <3>1, <3>2
  <2>2. HandlerTypes
    BY DEF IInv, HandlerInv
  <2> QED
    BY <2>1, <2>2 DEF HandlerTypes
<1>11. \A h \in Handlers : inserts[h] # {} => pc[h] \in {"check", "store"}
  BY DEF IInv, HandlerInv, Working
<1>12. writes \in 0 .. MaxWrites
  BY <1>1
<1> QED
  BY <1>2, <1>3, <1>5, <1>6, <1>8, <1>9, <1>10, <1>11, <1>12 DEF TypeOK

\* The mirror is what its high-water mark names.
LEMMA PrefixFromIInv == IInv /\ Exact => MirrorIsPrefix /\ AckedIsReflected
<1> SUFFICES ASSUME IInv, Exact PROVE MirrorIsPrefix /\ AckedIsReflected
  OBVIOUS
<1>1. \A e \in outbox : e.seq \in Nat /\ e.obj \in Objects /\ e.ver \in Nat \ {0}
  BY DEF IInv, SenderInv, SenderTypes, AllEnvelopes
<1>2. \A o \in Objects : mirror[o] \in Nat
  BY DEF IInv, ReceiverInv
<1>3. ASSUME NEW o \in Objects
      PROVE  LET seen == {e.ver : e \in {f \in outbox : f.obj = o /\ f.seq <= pos}}
             IN  mirror[o] = IF seen = {} THEN 0
                             ELSE CHOOSE v \in seen : \A u \in seen : u <= v
  <2> DEFINE seen == {e.ver : e \in {f \in outbox : f.obj = o /\ f.seq <= pos}}
  <2>1. \A u \in seen : u \in Nat \ {0} /\ u <= mirror[o]
    BY <1>1 DEF Exact
  <2>2. mirror[o] # 0 => mirror[o] \in seen
    BY DEF Exact
  <2> HIDE DEF seen
  <2>3. seen = {} => mirror[o] = 0
    BY <2>2
  <2>4. ASSUME seen # {} PROVE mirror[o] = CHOOSE v \in seen : \A u \in seen : u <= v
    <3>1. mirror[o] \in seen /\ \A u \in seen : u <= mirror[o]
      BY <1>2, <2>1, <2>2, <2>4
    <3>2. \A v \in seen : (\A u \in seen : u <= v) => v = mirror[o]
      <4> TAKE v \in seen
      <4> HAVE \A u \in seen : u <= v
      <4>1. mirror[o] <= v /\ v <= mirror[o] /\ v \in Nat
        BY <2>1, <3>1
      <4> QED
        BY <1>2, <4>1
    <3> QED
      BY <3>1, <3>2
  <2>5. mirror[o] = IF seen = {} THEN 0 ELSE CHOOSE v \in seen : \A u \in seen : u <= v
    BY <2>3, <2>4
  <2> QED
    BY <2>5 DEF seen
<1>4. MirrorIsPrefix
  BY <1>3 DEF MirrorIsPrefix, Exact, Known
<1>5. AckedIsReflected
  <2> SUFFICES ASSUME NEW e \in outbox, e.seq \in acked PROVE mirror[e.obj] >= e.ver
    BY DEF AckedIsReflected
  <2>1. e.seq <= pos
    <3>1. acked \subseteq 1 .. pos /\ pos \in 0 .. (counter - 1)
      BY DEF IInv, ReceiverInv
    <3>2. counter \in Nat
      BY DEF IInv, SenderInv, SenderTypes
    <3>3. pos \in Nat
      BY <3>1, <3>2
    <3>4. e.seq \in 1 .. pos
      BY <3>1
    <3> QED
      BY <3>3, <3>4
  <2> QED
    BY <1>1, <1>2, <2>1 DEF Exact
<1> QED
  BY <1>4, <1>5

\* A replay that found every row asks for no snapshot while the event is missing.
LEMMA RepairFromIInv == IInv /\ ~HasSnapshot => ReplayRepairs
<1> SUFFICES ASSUME IInv, ~HasSnapshot, NEW h \in Handlers, pc[h] = "contents", complete[h]
             PROVE  cur[h] <= pos
  BY DEF ReplayRepairs
<1>1. Replaying(h) /\ cur[h] \in Nat /\ pos \in Nat
  BY HandlerFacts
<1> QED
  BY <1>1 DEF Replaying

\* In a stream without snapshots replay leaves exactly what was received, and
\* repairs every gap it can, whatever is delivered, replayed, enqueued, pruned
\* or lost at the same time (receive_event, recover_sequence_gap_via_stream).
THEOREM ReplayStaysExact ==
  ASSUME ~HasSnapshot, ~Overlap
  PROVE  Spec => []ReplayIsExact
<1>1. Alone
  BY DEF Alone
<1>2. IInv => ReplayIsExact
  <2> SUFFICES ASSUME IInv PROVE ReplayIsExact
    OBVIOUS
  <2>1. Exact
    BY DEF IInv
  <2> QED
    BY <2>1, TypesFromIInv, PrefixFromIInv, RepairFromIInv DEF ReplayIsExact
<1>3. Spec => []IInv
  BY <1>1, RecoveryInvariance
<1> QED
  BY <1>2, <1>3, PTL

-----------------------------------------------------------------------------
(* ChatE2EE: who can read an encrypted message *)

Audiences == SUBSET Devices
Keys == 1 .. made
Running ==
    [pc : {"trust", "key", "store", "pack", "await", "wrap", "push", "sent", "ok", "error"},
     devs : Audiences, typed : Convs, conv : Convs, k : Nat,
     need : BOOLEAN, adopted : BOOLEAN, pkgs : Audiences, waits : Preps \cup {"none"}]
Active(K) == [k : K, devs : Audiences, sent : BOOLEAN, adopted : BOOLEAN]
Prepared == [k : Nat, devs : Audiences, pkgs : Audiences]
Pushed ==
    [k : Nat, devs : Audiences, pkgs : Audiences, typed : Convs, adopted : BOOLEAN, live : BOOLEAN]
Message(K) == [conv : Convs, k : K, devs : Audiences, inline : Audiences, adopted : BOOLEAN]
Fetching(K) == [pc : {"asked", "adopt"}, ck : Convs \X K]

\* What is wrapped of a key is nothing, or the whole list of devices it goes with.
Whole(r) == r.pkgs \in {{}, r.devs}

\* A function that is running.  aud[k] are the devices key k was made for: a key that
\* was not adopted goes with these, and only a key that nobody has yet is wrapped.
TaskGood(t, aud) ==
    t = Idle \/
        /\ t \in Running /\ Whole(t)
        /\ t.adopted => ~t.need
        /\ ~t.need => t.pkgs = {} /\ t.pc \notin {"await", "wrap"}
        /\ t.pc \in {"trust", "key", "store"} => t.need /\ t.pkgs = {}
        /\ t.pc \notin {"trust", "key"} =>
              t.k \in DOMAIN aud /\ (~t.adopted => t.devs = aud[t.k])

ActiveGood(a, aud) ==
    a = NoRecord \/
        /\ a \in Active(DOMAIN aud)
        /\ a.adopted => a.sent
        /\ ~a.adopted => a.devs = aud[a.k]

WireGood(r, aud) ==
    /\ Whole(r) /\ r.k \in DOMAIN aud
    /\ r.adopted => r.pkgs = {}
    /\ ~r.adopted => r.devs = aud[r.k]

MessageGood(m, aud) ==
    /\ m \in Message(DOMAIN aud)
    /\ <<m.conv, m.k>> \in DOMAIN rows
    /\ ~m.adopted => m.devs = aud[m.k]

RowsGood(aud) == \A x \in DOMAIN rows : x \in Convs \X DOMAIN aud /\ rows[x] = aud[x[2]]

PreparedGood(r) == r = NoRecord \/ (r \in Prepared /\ Whole(r))

MadeFor(aud) ==
    /\ \A s \in Slots : TaskGood(task[s], aud)
    /\ \A c \in Convs : ActiveGood(activeKey[c], aud)
    /\ \A i \in DOMAIN wire : WireGood(wire[i], aud)
    /\ \A m \in messages : MessageGood(m, aud)
    /\ RowsGood(aud)
    /\ fetch = NoFetch \/ fetch \in Fetching(DOMAIN aud)

ChatTypes ==
    /\ active \in [Convs -> Audiences] /\ selected \in Convs
    /\ conv \in Convs /\ devs \in Audiences /\ made \in Nat
    /\ wire \in Seq(Pushed)
    /\ promise \in Preps \cup {"none"}
    /\ DOMAIN task = Slots /\ DOMAIN activeKey = Convs
    /\ PreparedGood(prepared)

\* The answer that is still waited for belongs to the message being sent.
OneAnswer ==
    /\ \A i \in DOMAIN wire : wire[i].live => task["send"].pc = "sent"
    /\ \A i, j \in DOMAIN wire : wire[i].live /\ wire[j].live => i = j

ChatIInv == ChatTypes /\ OneAnswer /\ \E aud \in [Keys -> Audiences] : MadeFor(aud)

\* What is good stays good when more keys are made.
LEMMA MoreKeys ==
    ASSUME NEW aud, NEW aud2, DOMAIN aud \subseteq DOMAIN aud2,
           \A k \in DOMAIN aud : aud2[k] = aud[k]
    PROVE  /\ \A t : TaskGood(t, aud) => TaskGood(t, aud2)
           /\ \A a : ActiveGood(a, aud) => ActiveGood(a, aud2)
           /\ \A r : WireGood(r, aud) => WireGood(r, aud2)
           /\ \A m : MessageGood(m, aud) => MessageGood(m, aud2)
           /\ RowsGood(aud) => RowsGood(aud2)
           /\ fetch \in Fetching(DOMAIN aud) => fetch \in Fetching(DOMAIN aud2)
<1>1. \A t : TaskGood(t, aud) => TaskGood(t, aud2)
  BY DEF TaskGood
<1>2. \A a : ActiveGood(a, aud) => ActiveGood(a, aud2)
  BY DEF ActiveGood, Active
<1>3. \A r : WireGood(r, aud) => WireGood(r, aud2)
  BY DEF WireGood
<1>4. \A m : MessageGood(m, aud) => MessageGood(m, aud2)
  BY DEF MessageGood, Message
<1>5. RowsGood(aud) => RowsGood(aud2)
  BY DEF RowsGood
<1>6. fetch \in Fetching(DOMAIN aud) => fetch \in Fetching(DOMAIN aud2)
  BY DEF Fetching
<1>. QED  BY <1>1, <1>2, <1>3, <1>4, <1>5, <1>6

LEMMA ChatStarts == ASSUME ChatInit PROVE ChatIInv
<1> DEFINE aud == [k \in Keys |-> {}]
<1>1. ChatTypes
  BY ChatE2EEAssumption DEF ChatInit, ChatTypes, Audiences, PreparedGood
<1>2. OneAnswer
  BY DEF ChatInit, OneAnswer
<1>3. aud \in [Keys -> Audiences]
  BY DEF Audiences
<1>4. MadeFor(aud)
  <2>1. \A s \in Slots : TaskGood(task[s], aud)
    BY DEF ChatInit, TaskGood
  <2>2. \A c \in Convs : ActiveGood(activeKey[c], aud)
    BY DEF ChatInit, ActiveGood
  <2>3. wire = <<>> /\ messages = {} /\ DOMAIN rows = {} /\ fetch = NoFetch
    BY DEF ChatInit
  <2>4. \A i \in DOMAIN wire : WireGood(wire[i], aud)
    BY <2>3
  <2>5. RowsGood(aud)
    BY <2>3 DEF RowsGood
  <2>. QED  BY <2>1, <2>2, <2>3, <2>4, <2>5 DEF MadeFor
<1>. QED  BY <1>1, <1>2, <1>3, <1>4 DEF ChatIInv

\* The keys and what is sent of them stay; the page or the server's lists change.
LEMMA PageChanges ==
    ASSUME ChatIInv, UNCHANGED <<rows, messages, activeKey, task, wire, fetch, made>>,
           active' \in [Convs -> Audiences], selected' \in Convs, conv' \in Convs,
           devs' \in Audiences, promise' \in Preps \cup {"none"},
           prepared' \in {prepared, NoRecord}
    PROVE  ChatIInv'
<1>1. PICK aud \in [Keys -> Audiences] : MadeFor(aud)
  BY DEF ChatIInv
<1>2. MadeFor(aud)' /\ Keys' = Keys
  BY <1>1 DEF MadeFor, MessageGood, RowsGood, Keys
<1>3. ChatTypes' /\ OneAnswer'
  BY DEF ChatIInv, ChatTypes, OneAnswer, PreparedGood
<1>. QED  BY <1>1, <1>2, <1>3 DEF ChatIInv

LEMMA ActiveKept ==
    ASSUME ChatIInv,
           \/ EnsureDeviceRegistered
           \/ \E c \in Convs, d \in Devices : ToggleDevice(c, d)
    PROVE  active' \in [Convs -> Audiences]
BY ChatE2EEAssumption DEF ChatIInv, ChatTypes, EnsureDeviceRegistered, ToggleDevice, Audiences

LEMMA PageKeeps ==
    ASSUME ChatIInv,
           \/ Updated \/ LoadOrCreateDevice \/ EnsureDeviceRegistered \/ HandleToggle
           \/ SubmitInTheClear \/ (\E c \in Convs : Select(c))
           \/ \E c \in Convs, d \in Devices : ToggleDevice(c, d)
    PROVE  ChatIInv'
<1>1. ChatTypes
  BY DEF ChatIInv
<1>2. CASE Updated
  <2>1. conv' \in Convs /\ devs' \in Audiences /\ promise' \in Preps \cup {"none"}
        /\ prepared' \in {prepared, NoRecord}
    BY <1>1, <1>2 DEF Updated, ChatTypes
  <2>. QED  BY <1>1, <1>2, <2>1, PageChanges DEF Updated, ChatTypes, serverVars
<1>3. CASE LoadOrCreateDevice \/ SubmitInTheClear
  BY <1>1, <1>3, PageChanges DEF LoadOrCreateDevice, SubmitInTheClear, ChatTypes, serverVars,
     keyVars, hookVars
<1>4. CASE EnsureDeviceRegistered
  BY <1>1, <1>4, ActiveKept, PageChanges DEF EnsureDeviceRegistered, ChatTypes, keyVars, hookVars
<1>5. CASE \E c \in Convs, d \in Devices : ToggleDevice(c, d)
  BY <1>1, <1>5, ActiveKept, PageChanges DEF ToggleDevice, ChatTypes, keyVars, hookVars
<1>6. CASE HandleToggle
  BY <1>1, <1>6, PageChanges DEF HandleToggle, ChatTypes, serverVars, hookVars
<1>7. CASE \E c \in Convs : Select(c)
  BY <1>1, <1>7, PageChanges DEF Select, ChatTypes, keyVars, hookVars
<1>. QED  BY <1>2, <1>3, <1>4, <1>5, <1>6, <1>7

\* A step of the functions on which neither keys nor messages depend.
LEMMA TasksChange ==
    ASSUME ChatIInv, NEW aud \in [Keys -> Audiences], MadeFor(aud),
           UNCHANGED <<serverVars, conv, devs, activeKey, wire, fetch, made>>,
           DOMAIN task' = Slots, \A s \in Slots : TaskGood(task'[s], aud),
           task["send"].pc = "sent" => task'["send"].pc = "sent",
           PreparedGood(prepared'), promise' \in Preps \cup {"none"}
    PROVE  ChatIInv'
<1>1. UNCHANGED <<active, selected, rows, messages, Keys>>
  BY DEF serverVars, Keys
<1>2. MadeFor(aud)'
  BY <1>1 DEF MadeFor, MessageGood, RowsGood
<1>3. ChatTypes' /\ OneAnswer'
  BY <1>1 DEF ChatIInv, ChatTypes, OneAnswer, PreparedGood
<1>. QED  BY <1>1, <1>2, <1>3 DEF ChatIInv

\* One function takes a step.
LEMMA OneTask ==
    ASSUME ChatIInv, NEW aud \in [Keys -> Audiences], MadeFor(aud),
           NEW s \in Slots, NEW r, Step(s, r), TaskGood(r, aud),
           s = "send" => task["send"].pc # "sent",
           UNCHANGED <<serverVars, conv, devs, activeKey, wire, fetch, made>>,
           PreparedGood(prepared'), promise' \in Preps \cup {"none"}
    PROVE  ChatIInv'
<1>1. DOMAIN task = Slots
  BY DEF ChatIInv, ChatTypes
<1>2. DOMAIN task' = Slots /\ \A x \in Slots : task'[x] = IF x = s THEN r ELSE task[x]
  BY <1>1 DEF Step
<1>3. \A x \in Slots : TaskGood(task'[x], aud)
  BY <1>2 DEF MadeFor
<1>4. task["send"].pc = "sent" => task'["send"].pc = "sent"
  BY <1>2 DEF Slots
<1>. QED  BY <1>2, <1>3, <1>4, TasksChange

LEMMA BeginKeeps ==
    ASSUME ChatIInv,
           HandleSubmit \/ \E s \in Slots : PrepareConversationKeyPackages(s)
    PROVE  ChatIInv'
<1>1. PICK aud \in [Keys -> Audiences] : MadeFor(aud)
  BY DEF ChatIInv
<1>2. PICK s \in Slots : Begin(s) /\ task[s] = Idle /\ promise' \in {promise, s}
                         /\ (s = "send" => promise' = promise)
  BY DEF HandleSubmit, PrepareConversationKeyPackages, Slots, Preps
<1> DEFINE r == [pc |-> "trust", devs |-> devs, typed |-> conv, conv |-> conv, k |-> NoKey,
                 need |-> TRUE, adopted |-> FALSE, pkgs |-> {}, waits |-> "none"]
<1>3. Step(s, r)
  BY <1>2 DEF Begin, Step
<1>4. TaskGood(r, aud)
  <2>1. conv \in Convs /\ devs \in Audiences /\ {} \in Audiences
    BY DEF ChatIInv, ChatTypes, Audiences
  <2>2. r \in Running
    BY <2>1 DEF Running, NoKey
  <2>. QED  BY <2>2 DEF TaskGood, Whole
<1>5. s = "send" => task["send"].pc # "sent"
  BY <1>2 DEF Idle
<1>6. promise' \in Preps \cup {"none"}
  BY <1>2 DEF ChatIInv, ChatTypes, Preps
<1>7. UNCHANGED <<serverVars, conv, devs, activeKey, wire, fetch, made, prepared>>
  BY DEF HandleSubmit, PrepareConversationKeyPackages, hookVars
<1>8. PreparedGood(prepared')
  BY <1>7 DEF ChatIInv, ChatTypes
<1> HIDE DEF r
<1>. QED  BY <1>1, <1>3, <1>4, <1>5, <1>6, <1>7, <1>8, OneTask

\* A function that is suspended at p is well formed.
LEMMA Suspended ==
    ASSUME NEW aud, MadeFor(aud), NEW s \in Slots, task[s].pc # "idle"
    PROVE  /\ task[s] \in Running /\ Whole(task[s])
           /\ task[s].adopted => ~task[s].need
           /\ ~task[s].need => task[s].pkgs = {} /\ task[s].pc \notin {"await", "wrap"}
           /\ task[s].pc \in {"trust", "key", "store"} => task[s].need /\ task[s].pkgs = {}
           /\ task[s].pc \notin {"trust", "key"} =>
                  task[s].k \in DOMAIN aud /\ (~task[s].adopted => task[s].devs = aud[task[s].k])
BY DEF MadeFor, TaskGood, Idle

LEMMA TrustKeeps ==
    ASSUME ChatIInv, NEW s \in Slots, DevicesTrusted(s)
    PROVE  ChatIInv'
<1>1. PICK aud \in [Keys -> Audiences] : MadeFor(aud)
  BY DEF ChatIInv
<1> DEFINE r == [task[s] EXCEPT !.pc = "key", !.conv = conv]
<1>2. task[s].pc = "trust" /\ Step(s, r)
  BY DEF DevicesTrusted
<1>3. TaskGood(r, aud)
  <2>1. task[s] \in Running /\ task[s].pkgs = {} /\ task[s].need /\ ~task[s].adopted
    BY <1>1, <1>2, Suspended
  <2>2. conv \in Convs
    BY DEF ChatIInv, ChatTypes
  <2>3. r \in Running
    BY <2>1, <2>2 DEF Running
  <2>4. r.pc = "key" /\ r.pkgs = {} /\ r.need = task[s].need /\ r.adopted = task[s].adopted
    BY <2>1 DEF Running
  <2> HIDE DEF r
  <2>. QED  BY <2>1, <2>3, <2>4 DEF TaskGood, Whole
<1>4. UNCHANGED <<serverVars, conv, devs, activeKey, wire, fetch, made, prepared, promise>>
  BY DEF DevicesTrusted, hookVars
<1>5. PreparedGood(prepared') /\ promise' \in Preps \cup {"none"}
  BY <1>4 DEF ChatIInv, ChatTypes
<1> HIDE DEF r
<1>. QED  BY <1>1, <1>2, <1>3, <1>4, <1>5, OneTask

\* An active key that is reused goes with the devices it was made for, or was adopted.
LEMMA ReuseKeeps ==
    ASSUME ChatIInv, NEW s \in Slots, ReuseKey(s)
    PROVE  ChatIInv'
<1>1. PICK aud \in [Keys -> Audiences] : MadeFor(aud)
  BY DEF ChatIInv
<1> DEFINE t == task[s]
           a == activeKey[t.conv]
           r == [t EXCEPT !.pc = "pack", !.k = a.k, !.need = ~a.sent, !.adopted = a.adopted]
<1>2. t.pc = "key" /\ a # NoRecord /\ a.devs = t.devs /\ Step(s, r)
  BY DEF ReuseKey, Reusable
<1>3. t \in Running /\ t.pkgs = {}
  BY <1>1, <1>2, Suspended
<1>4. a \in Active(Keys) /\ (a.adopted => a.sent) /\ (~a.adopted => a.devs = aud[a.k])
  <2>1. t.conv \in Convs
    BY <1>3 DEF Running
  <2>. QED  BY <1>1, <1>2, <2>1 DEF MadeFor, ActiveGood
<1>5. TaskGood(r, aud)
  <2>0. a.k \in Nat /\ a.adopted \in BOOLEAN /\ (~a.sent) \in BOOLEAN
    BY <1>4 DEF Active, Keys
  <2>1. r.pkgs = {} /\ r.k = a.k /\ r.adopted = a.adopted /\ r.need = ~a.sent
        /\ r.devs = a.devs /\ r.pc = "pack"
    BY <1>2, <1>3 DEF Running
  <2>3. r \in Running
    BY <1>3, <2>0 DEF Running
  <2>2. r.k \in DOMAIN aud
    BY <1>4, <2>1 DEF Active
  <2> HIDE DEF r
  <2>. QED  BY <1>4, <2>1, <2>2, <2>3 DEF TaskGood, Whole
<1>6. UNCHANGED <<serverVars, conv, devs, activeKey, wire, fetch, made, prepared, promise>>
  BY DEF ReuseKey, hookVars
<1>7. PreparedGood(prepared') /\ promise' \in Preps \cup {"none"}
  BY <1>6 DEF ChatIInv, ChatTypes
<1>8. s = "send" => task["send"].pc # "sent"
  BY <1>2
<1> HIDE DEF r, t, a
<1>. QED  BY <1>1, <1>2, <1>5, <1>6, <1>7, <1>8, OneTask

\* A function with its key goes on with it.
LEMMA KeyGoesOn ==
    ASSUME NEW aud, NEW t \in Running, TaskGood(t, aud), t.pc \notin {"trust", "key"},
           NEW c \in {"pack", "await", "wrap", "push", "sent", "ok", "error"},
           c \in {"await", "wrap"} => t.need,
           NEW w \in Preps \cup {"none"}
    PROVE  TaskGood([t EXCEPT !.pc = c], aud) /\ TaskGood([t EXCEPT !.pc = c, !.waits = w], aud)
<1>1. t # Idle
  BY DEF Running, Idle
<1>2. Whole(t) /\ t.k \in DOMAIN aud /\ (t.adopted => ~t.need)
      /\ (~t.adopted => t.devs = aud[t.k]) /\ (~t.need => t.pkgs = {})
  BY <1>1 DEF TaskGood
<1>3. ASSUME NEW r, r \in {[t EXCEPT !.pc = c], [t EXCEPT !.pc = c, !.waits = w]}
      PROVE  TaskGood(r, aud)
  <2>1. r \in Running
    BY <1>3 DEF Running
  <2>2. r.pc = c /\ r.pkgs = t.pkgs /\ r.k = t.k /\ r.devs = t.devs /\ r.need = t.need
        /\ r.adopted = t.adopted
    BY <1>3 DEF Running
  <2>. QED  BY <1>2, <2>1, <2>2 DEF TaskGood, Whole
<1>. QED  BY <1>3

\* Packages that fit are those of this key for these devices.
LEMMA PackagesFit ==
    ASSUME NEW aud, NEW t, t \in Running, TaskGood(t, aud), t.need, t.pc \in {"pack", "await"},
           NEW q, PreparedGood(q)
    PROVE  TaskGood(WithPackages(t, q), aud) /\ WithPackages(t, q).pc \in {"push", "wrap"}
<1> DEFINE r == WithPackages(t, q)
<1>1. ~t.adopted /\ t.k \in DOMAIN aud /\ t.devs = aud[t.k] /\ Whole(t)
  BY DEF TaskGood, Idle
<1>2. CASE Fits(q, t)
  <2>1. q.pkgs \in {{}, t.devs} /\ q.pkgs \in Audiences
    BY <1>2 DEF Fits, PreparedGood, Whole, Prepared
  <2>2. r = [t EXCEPT !.pc = "push", !.pkgs = q.pkgs]
    BY <1>2 DEF WithPackages
  <2>3. r \in Running
    BY <2>1, <2>2 DEF Running
  <2>4. r.pc = "push" /\ r.pkgs = q.pkgs /\ r.k = t.k /\ r.devs = t.devs /\ r.need = t.need
        /\ r.adopted = t.adopted
    BY <2>2 DEF Running
  <2>5. TaskGood(r, aud)
    <3> HIDE DEF r
    <3>. QED  BY <1>1, <2>1, <2>3, <2>4 DEF TaskGood, Whole
  <2>. QED  BY <2>4, <2>5
<1>3. CASE ~Fits(q, t)
  <2>1. r = [t EXCEPT !.pc = "wrap"] /\ r.pc = "wrap"
    BY <1>3 DEF WithPackages, Running
  <2>. QED  BY <2>1, KeyGoesOn
<1>. QED  BY <1>2, <1>3

\* A preparation ends, with whatever result; a message that waited for it goes on.
LEMMA PreparationKeeps ==
    ASSUME ChatIInv, NEW aud \in [Keys -> Audiences], MadeFor(aud), NEW s \in Preps, NEW q,
           PreparedGood(q), PreparationEnds(s, q), PreparedGood(prepared'),
           UNCHANGED <<serverVars, conv, devs, activeKey, wire, fetch, made>>
    PROVE  ChatIInv'
<1> DEFINE m == task["send"]
           waiting == m.pc = "await" /\ m.waits = s
           n == IF waiting THEN WithPackages(m, q) ELSE m
<1>1. DOMAIN task = Slots /\ "send" \in Slots /\ s \in Slots /\ s # "send"
  BY DEF ChatIInv, ChatTypes, Slots, Preps
<1>2. task' = [task EXCEPT ![s] = Idle, !["send"] = n] /\ promise' = "none"
  BY DEF PreparationEnds
<1>3. TaskGood(n, aud) /\ (m.pc = "sent" => n.pc = "sent")
  <2>1. CASE waiting
    <3>1. m \in Running /\ TaskGood(m, aud) /\ m.need
      BY <1>1, <2>1, Suspended DEF MadeFor
    <3>. QED  BY <2>1, <3>1, PackagesFit
  <2>2. CASE ~waiting
    BY <1>1, <2>2 DEF MadeFor
  <2>. QED  BY <2>1, <2>2
<1> HIDE DEF n, m
<1>4. DOMAIN task' = Slots /\ task'["send"] = n
      /\ \A x \in Slots : task'[x] \in {Idle, n, task[x]}
  BY <1>1, <1>2
<1>5. \A x \in Slots : TaskGood(task'[x], aud)
  BY <1>3, <1>4 DEF MadeFor, TaskGood
<1>6. task["send"].pc = "sent" => task'["send"].pc = "sent"
  BY <1>3, <1>4 DEF m
<1>. QED  BY <1>2, <1>4, <1>5, <1>6, TasksChange

LEMMA PackKeeps ==
    ASSUME ChatIInv, NEW s \in Slots, PackPrepared(s)
    PROVE  ChatIInv'
<1>1. PICK aud \in [Keys -> Audiences] : MadeFor(aud)
  BY DEF ChatIInv
<1> DEFINE t == task[s]
<1>2. s \in Preps /\ t.pc = "pack"
  BY DEF PackPrepared
<1>3. t \in Running /\ Whole(t) /\ t.k \in Keys
      /\ (t.adopted => ~t.need) /\ (~t.adopted => t.devs = aud[t.k])
  BY <1>1, <1>2, Suspended
<1>4. UNCHANGED <<serverVars, conv, devs, activeKey, wire, fetch, made>>
  BY DEF PackPrepared, Others, hookVars
<1>5. PreparedGood(prepared) /\ promise \in Preps \cup {"none"}
  BY DEF ChatIInv, ChatTypes
<1>6. CASE ~t.need
  <2>1. prepared' = Package(t, {}) /\ PreparationEnds(s, prepared')
    BY <1>6 DEF PackPrepared
  <2>2. PreparedGood(Package(t, {}))
    BY <1>3 DEF PreparedGood, Package, Prepared, Whole, Running, Audiences
  <2>. QED  BY <1>1, <1>2, <1>4, <2>1, <2>2, PreparationKeeps
<1>7. CASE t.need /\ Fits(prepared, t)
  BY <1>1, <1>2, <1>4, <1>5, <1>7, PreparationKeeps DEF PackPrepared
<1>8. CASE t.need /\ ~Fits(prepared, t)
  <2> DEFINE r == [t EXCEPT !.pc = "wrap"]
  <2>1. Step(s, r) /\ UNCHANGED <<prepared, promise>>
    BY <1>8 DEF PackPrepared
  <2>2. TaskGood(t, aud)
    BY <1>1 DEF MadeFor
  <2>4. TaskGood(r, aud)
    BY <1>2, <1>3, <1>8, <2>2, KeyGoesOn
  <2>5. s = "send" => task["send"].pc # "sent"
    BY <1>2
  <2> HIDE DEF r, t
  <2>. QED  BY <1>1, <1>4, <1>5, <2>1, <2>4, <2>5, OneTask
<1>. QED  BY <1>6, <1>7, <1>8

LEMMA PackMessageKeeps == ASSUME ChatIInv, PackMessage PROVE ChatIInv'
<1>1. PICK aud \in [Keys -> Audiences] : MadeFor(aud)
  BY DEF ChatIInv
<1> DEFINE t == task["send"]
<1>2. t.pc = "pack" /\ "send" \in Slots
  BY DEF PackMessage, Slots
<1>3. t \in Running /\ TaskGood(t, aud) /\ t.k \in Keys /\ Whole(t)
      /\ (t.adopted => ~t.need) /\ (~t.adopted => t.devs = aud[t.k])
      /\ (~t.need => t.pkgs = {})
  BY <1>1, <1>2, Suspended DEF MadeFor
<1>4. UNCHANGED <<serverVars, conv, devs, activeKey, wire, fetch, made, prepared, promise>>
  BY DEF PackMessage, Others, hookVars
<1>5. PreparedGood(prepared) /\ promise \in Preps \cup {"none"}
  BY DEF ChatIInv, ChatTypes
<1>6. CASE ~t.need
  <2>1. Step("send", [t EXCEPT !.pc = "push"])
    BY <1>6 DEF PackMessage
  <2>2. TaskGood([t EXCEPT !.pc = "push"], aud)
    BY <1>2, <1>3, KeyGoesOn
  <2>. QED  BY <1>1, <1>2, <1>4, <1>5, <2>1, <2>2, OneTask
<1>7. CASE t.need /\ promise # "none"
  <2>1. Step("send", [t EXCEPT !.pc = "await", !.waits = promise])
    BY <1>7 DEF PackMessage
  <2>2. TaskGood([t EXCEPT !.pc = "await", !.waits = promise], aud)
    BY <1>2, <1>3, <1>5, <1>7, KeyGoesOn
  <2>. QED  BY <1>1, <1>2, <1>4, <1>5, <2>1, <2>2, OneTask
<1>8. CASE t.need /\ promise = "none"
  <2>1. Step("send", WithPackages(t, prepared))
    BY <1>8 DEF PackMessage
  <2>2. TaskGood(WithPackages(t, prepared), aud)
    BY <1>2, <1>3, <1>5, <1>8, PackagesFit
  <2>. QED  BY <1>1, <1>2, <1>4, <1>5, <2>1, <2>2, OneTask
<1>. QED  BY <1>6, <1>7, <1>8

LEMMA WrapKeeps == ASSUME ChatIInv, NEW s \in Slots, WrapConversationKey(s) PROVE ChatIInv'
<1>1. PICK aud \in [Keys -> Audiences] : MadeFor(aud)
  BY DEF ChatIInv
<1> DEFINE t == task[s]
<1>2. t.pc = "wrap" /\ prepared' = Package(t, t.devs)
  BY DEF WrapConversationKey
<1>3. t \in Running /\ t.k \in Keys /\ t.need /\ ~t.adopted /\ t.devs = aud[t.k]
  BY <1>1, <1>2, Suspended
<1>4. UNCHANGED <<serverVars, conv, devs, activeKey, wire, fetch, made>>
  BY DEF WrapConversationKey, Others, hookVars
<1>5. PreparedGood(prepared')
  BY <1>2, <1>3 DEF PreparedGood, Package, Prepared, Whole, Running
<1>6. CASE s = "send"
  <2> DEFINE r == [t EXCEPT !.pc = "push", !.pkgs = t.devs]
  <2>1. Step(s, r) /\ promise' = promise /\ promise \in Preps \cup {"none"}
    BY <1>6 DEF WrapConversationKey, ChatIInv, ChatTypes
  <2>2. r \in Running
    BY <1>3 DEF Running
  <2>3. r.pc = "push" /\ r.pkgs = t.devs /\ r.k = t.k /\ r.devs = t.devs /\ r.need = t.need
        /\ r.adopted = t.adopted
    BY <1>3 DEF Running
  <2>4. TaskGood(r, aud)
    <3> HIDE DEF r, t
    <3>. QED  BY <1>3, <2>2, <2>3 DEF TaskGood, Whole
  <2>5. s = "send" => task["send"].pc # "sent"
    BY <1>2
  <2> HIDE DEF r, t
  <2>. QED  BY <1>1, <1>4, <1>5, <2>1, <2>4, <2>5, OneTask
<1>7. CASE s # "send"
  BY <1>1, <1>4, <1>5, <1>7, PreparationKeeps DEF WrapConversationKey, Preps
<1>. QED  BY <1>6, <1>7

LEMMA UntrustedKeeps == ASSUME ChatIInv, NEW s \in Slots, DevicesUntrusted(s) PROVE ChatIInv'
<1>1. PICK aud \in [Keys -> Audiences] : MadeFor(aud)
  BY DEF ChatIInv
<1>2. UNCHANGED <<serverVars, conv, devs, activeKey, wire, fetch, made, prepared>>
  BY DEF DevicesUntrusted, Others, hookVars
<1>3. PreparedGood(prepared) /\ promise \in Preps \cup {"none"} /\ PreparedGood(NoRecord)
  BY DEF ChatIInv, ChatTypes, PreparedGood
<1>4. CASE s = "send"
  <2>1. Step(s, Idle) /\ promise' = promise /\ task["send"].pc # "sent" /\ TaskGood(Idle, aud)
    BY <1>4 DEF DevicesUntrusted, TaskGood
  <2>. QED  BY <1>1, <1>2, <1>3, <2>1, OneTask
<1>5. CASE s # "send"
  BY <1>1, <1>2, <1>3, <1>5, PreparationKeeps DEF DevicesUntrusted, Preps
<1>. QED  BY <1>4, <1>5

\* Active keys, fetched keys and functions change, with no new key and no message.
LEMMA KeysUsed ==
    ASSUME ChatIInv, NEW aud \in [Keys -> Audiences], MadeFor(aud),
           UNCHANGED <<serverVars, conv, devs, wire, made, prepared, promise>>,
           DOMAIN task' = Slots, \A s \in Slots : TaskGood(task'[s], aud),
           task["send"].pc = "sent" => task'["send"].pc = "sent",
           DOMAIN activeKey' = Convs, \A c \in Convs : ActiveGood(activeKey'[c], aud),
           fetch' = NoFetch \/ fetch' \in Fetching(Keys)
    PROVE  ChatIInv'
<1>1. UNCHANGED <<active, selected, rows, messages, Keys>>
  BY DEF serverVars, Keys
<1>2. MadeFor(aud)'
  BY <1>1 DEF MadeFor, MessageGood, RowsGood
<1>3. ChatTypes' /\ OneAnswer'
  BY <1>1 DEF ChatIInv, ChatTypes, OneAnswer, PreparedGood
<1>. QED  BY <1>1, <1>2, <1>3 DEF ChatIInv

\* One active key is replaced.
LEMMA OneActive ==
    ASSUME ChatIInv, NEW aud, MadeFor(aud), NEW c \in Convs, NEW a, ActiveGood(a, aud),
           activeKey' = [activeKey EXCEPT ![c] = a]
    PROVE  DOMAIN activeKey' = Convs /\ \A d \in Convs : ActiveGood(activeKey'[d], aud)
BY DEF ChatIInv, ChatTypes, MadeFor

LEMMA OneStep ==
    ASSUME ChatIInv, NEW aud, MadeFor(aud), NEW s \in Slots, NEW r, TaskGood(r, aud), Step(s, r)
    PROVE  /\ DOMAIN task' = Slots /\ \A x \in Slots : TaskGood(task'[x], aud)
           /\ \A x \in Slots : task'[x] = IF x = s THEN r ELSE task[x]
BY DEF ChatIInv, ChatTypes, MadeFor, Step

LEMMA StoreKeeps ==
    ASSUME ChatIInv, NEW s \in Slots, StoreActiveConversationKey(s)
    PROVE  ChatIInv'
<1>1. PICK aud \in [Keys -> Audiences] : MadeFor(aud)
  BY DEF ChatIInv
<1> DEFINE t == task[s]
           a == Record(t.k, t.devs, FALSE, FALSE)
<1>2. t.pc = "store" /\ activeKey' = [activeKey EXCEPT ![t.conv] = a]
      /\ Step(s, [t EXCEPT !.pc = "pack"])
  BY DEF StoreActiveConversationKey
<1>3. t \in Running /\ t.k \in Keys /\ t.need /\ ~t.adopted /\ t.devs = aud[t.k] /\ TaskGood(t, aud)
  BY <1>1, <1>2, Suspended DEF MadeFor
<1>4. t.conv \in Convs /\ t.devs \in Audiences
  BY <1>3 DEF Running
<1>5. ActiveGood(a, aud)
  BY <1>3, <1>4 DEF ActiveGood, Record, Active
<1>6. TaskGood([t EXCEPT !.pc = "pack"], aud)
  BY <1>2, <1>3, KeyGoesOn
<1>7. UNCHANGED <<serverVars, conv, devs, wire, made, prepared, promise, fetch>>
  BY DEF StoreActiveConversationKey, hookVars
<1>8. fetch = NoFetch \/ fetch \in Fetching(Keys)
  BY <1>1 DEF MadeFor
<1>9. DOMAIN task' = Slots /\ (\A x \in Slots : TaskGood(task'[x], aud))
      /\ \A x \in Slots : task'[x] = IF x = s THEN [t EXCEPT !.pc = "pack"] ELSE task[x]
  BY <1>1, <1>2, <1>6, OneStep
<1>10. task["send"].pc = "sent" => task'["send"].pc = "sent"
  BY <1>2, <1>9 DEF Slots
<1>11. DOMAIN activeKey' = Convs /\ \A d \in Convs : ActiveGood(activeKey'[d], aud)
  BY <1>1, <1>2, <1>4, <1>5, OneActive
<1>. QED  BY <1>1, <1>7, <1>8, <1>9, <1>10, <1>11, KeysUsed

\* The answer makes the key that was sent active in the conversation shown by now.
LEMMA ReplyKeeps == ASSUME ChatIInv, OnReply PROVE ChatIInv'
<1>1. PICK aud \in [Keys -> Audiences] : MadeFor(aud)
  BY DEF ChatIInv
<1> DEFINE t == task["send"]
           a == Record(t.k, t.devs, TRUE, FALSE)
<1>2. t.pc \in {"ok", "error"} /\ Step("send", Idle) /\ "send" \in Slots
  BY DEF OnReply, Slots
<1>3. t \in Running /\ t.k \in Keys /\ (t.adopted => ~t.need) /\ (~t.adopted => t.devs = aud[t.k])
  BY <1>1, <1>2, Suspended
<1>4. conv \in Convs /\ t.devs \in Audiences
  BY <1>3 DEF Running, ChatIInv, ChatTypes
<1>5. t.need => ActiveGood(a, aud)
  BY <1>3, <1>4 DEF ActiveGood, Record, Active
<1>6. UNCHANGED <<serverVars, conv, devs, wire, made, prepared, promise, fetch>>
  BY DEF OnReply, hookVars
<1>7. fetch = NoFetch \/ fetch \in Fetching(Keys)
  BY <1>1 DEF MadeFor
<1>8. DOMAIN task' = Slots /\ (\A x \in Slots : TaskGood(task'[x], aud))
  BY <1>1, <1>2, OneStep DEF TaskGood
<1>9. DOMAIN activeKey' = Convs /\ \A d \in Convs : ActiveGood(activeKey'[d], aud)
  <2>1. CASE t.pc = "ok" /\ t.need
    BY <1>1, <1>4, <1>5, <2>1, OneActive DEF OnReply
  <2>2. CASE ~(t.pc = "ok" /\ t.need)
    BY <1>1, <2>2 DEF OnReply, MadeFor, ChatIInv, ChatTypes
  <2>. QED  BY <2>1, <2>2
<1>. QED  BY <1>1, <1>2, <1>6, <1>7, <1>8, <1>9, KeysUsed

\* Reading: keys are fetched and adopted.
LEMMA ReadingKeeps ==
    ASSUME ChatIInv, (\E m \in messages : DecryptMessage(m)) \/ KeyAnswered \/ AdoptKey
    PROVE  ChatIInv'
<1>1. PICK aud \in [Keys -> Audiences] : MadeFor(aud)
  BY DEF ChatIInv
<1>2. UNCHANGED <<serverVars, conv, devs, wire, made, prepared, promise, task>>
  BY DEF DecryptMessage, KeyAnswered, AdoptKey, hookVars
<1>3. DOMAIN task = Slots /\ (\A x \in Slots : TaskGood(task[x], aud)) /\ devs \in Audiences
      /\ DOMAIN activeKey = Convs /\ \A d \in Convs : ActiveGood(activeKey[d], aud)
  BY <1>1 DEF ChatIInv, ChatTypes, MadeFor
<1>4. fetch = NoFetch \/ fetch \in Fetching(Keys)
  BY <1>1 DEF MadeFor
<1>5. CASE \E m \in messages : DecryptMessage(m)
  <2>1. PICK m \in messages : DecryptMessage(m)
    BY <1>5
  <2>2. <<m.conv, m.k>> \in Convs \X Keys
    BY <1>1 DEF MadeFor, MessageGood, Message
  <2>3. fetch' = fetch \/ fetch' = [pc |-> "asked", ck |-> <<m.conv, m.k>>]
    BY <2>1 DEF DecryptMessage
  <2>4. fetch' = NoFetch \/ fetch' \in Fetching(Keys)
    BY <1>4, <2>2, <2>3 DEF Fetching
  <2>5. activeKey' = activeKey
    BY <2>1 DEF DecryptMessage
  <2>. QED  BY <1>1, <1>2, <1>3, <2>4, <2>5, KeysUsed
<1>6. CASE KeyAnswered
  <2>1. fetch' = NoFetch \/ (fetch.pc = "asked" /\ fetch' = [fetch EXCEPT !.pc = "adopt"])
    BY <1>6 DEF KeyAnswered
  <2>2. fetch' = NoFetch \/ fetch' \in Fetching(Keys)
    BY <1>4, <2>1 DEF Fetching, NoFetch
  <2>3. activeKey' = activeKey
    BY <1>6 DEF KeyAnswered
  <2>. QED  BY <1>1, <1>2, <1>3, <2>2, <2>3, KeysUsed
<1>7. CASE AdoptKey
  <2> DEFINE a == Record(fetch.ck[2], devs, TRUE, TRUE)
  <2>1. fetch.ck[1] \in Convs /\ fetch.ck[2] \in Keys
    BY <1>4, <1>7 DEF AdoptKey, Fetching, NoFetch
  <2>2. ActiveGood(a, aud)
    BY <1>1, <1>3, <2>1 DEF ActiveGood, Record, Active
  <2>3. DOMAIN activeKey' = Convs /\ \A d \in Convs : ActiveGood(activeKey'[d], aud)
    BY <1>1, <1>7, <2>1, <2>2, OneActive DEF AdoptKey
  <2>4. fetch' = NoFetch
    BY <1>7 DEF AdoptKey
  <2>. QED  BY <1>1, <1>2, <1>3, <2>3, <2>4, KeysUsed
<1>. QED  BY <1>5, <1>6, <1>7

\* The audiences once a new key is made for D.
LEMMA NewAudience ==
    ASSUME ChatIInv, NEW D \in Audiences
    PROVE  \E aud2 \in [1 .. made + 1 -> Audiences] :
               aud2[made + 1] = D /\ made + 1 \in DOMAIN aud2 /\ MadeFor(aud2)
<1>0. PICK aud \in [Keys -> Audiences] : MadeFor(aud)
  BY DEF ChatIInv
<1> DEFINE aud2 == [k \in 1 .. made + 1 |-> IF k = made + 1 THEN D ELSE aud[k]]
<1>1. made \in Nat
  BY DEF ChatIInv, ChatTypes
<1>2. \A k \in 1 .. made + 1 : k = made + 1 \/ k \in Keys
  BY <1>1 DEF Keys
<1>3. made + 1 \in 1 .. made + 1 /\ made + 1 \notin Keys /\ Keys \subseteq 1 .. made + 1
      /\ made + 1 \in Nat
  BY <1>1 DEF Keys
<1>4. DOMAIN aud2 = 1 .. made + 1 /\ aud2[made + 1] = D /\ \A k \in Keys : aud2[k] = aud[k]
  BY <1>3
<1>5. aud2 \in [1 .. made + 1 -> Audiences]
  BY <1>2, <1>3
<1>6. DOMAIN aud = Keys
  OBVIOUS
<1>7. MadeFor(aud2)
  <2> HIDE DEF aud2
  <2>. QED  BY <1>0, <1>3, <1>4, <1>6, MoreKeys DEF MadeFor
<1>. QED  BY <1>3, <1>4, <1>5, <1>7

LEMMA MakeKeyKeeps == ASSUME ChatIInv, NEW s \in Slots, MakeKey(s) PROVE ChatIInv'
<1>1. PICK aud \in [Keys -> Audiences] : MadeFor(aud)
  BY DEF ChatIInv
<1> DEFINE t == task[s]
           r == [t EXCEPT !.pc = "store", !.k = made + 1]
<1>2. t.pc = "key" /\ Step(s, r) /\ made' = made + 1
  BY DEF MakeKey
<1>3. t \in Running /\ t.need /\ ~t.adopted /\ t.pkgs = {}
  BY <1>1, <1>2, Suspended
<1>4. t.devs \in Audiences
  BY <1>3 DEF Running
<1>a. PICK aud2 \in [1 .. made + 1 -> Audiences] :
          aud2[made + 1] = t.devs /\ made + 1 \in DOMAIN aud2 /\ MadeFor(aud2)
  BY <1>4, NewAudience
<1>5. aud2 \in [1 .. made' -> Audiences] /\ made + 1 \in Nat /\ made' \in Nat
  BY <1>2, <1>a DEF ChatIInv, ChatTypes
<1>6. TaskGood(r, aud2)
  <2>1. r \in Running
    BY <1>3, <1>5 DEF Running
  <2>2. r.pc = "store" /\ r.k = made + 1 /\ r.pkgs = t.pkgs /\ r.need = t.need
        /\ r.adopted = t.adopted /\ r.devs = t.devs
    BY <1>3 DEF Running
  <2> HIDE DEF r, t
  <2>. QED  BY <1>3, <1>a, <2>1, <2>2 DEF TaskGood, Whole
<1>7. UNCHANGED <<serverVars, conv, devs, activeKey, wire, prepared, promise, fetch>>
  BY DEF MakeKey, hookVars
<1>8. DOMAIN task' = Slots /\ (\A x \in Slots : TaskGood(task'[x], aud2))
      /\ \A x \in Slots : task'[x] = IF x = s THEN r ELSE task[x]
  BY <1>2, <1>a, <1>6, OneStep
<1>9. task["send"].pc = "sent" => task'["send"].pc = "sent"
  BY <1>2, <1>8 DEF Slots
<1>10. MadeFor(aud2)'
  BY <1>a, <1>7, <1>8 DEF MadeFor, MessageGood, RowsGood, serverVars
<1>11. ChatTypes' /\ OneAnswer'
  BY <1>5, <1>7, <1>8, <1>9 DEF ChatIInv, ChatTypes, OneAnswer, PreparedGood, serverVars
<1>. QED  BY <1>2, <1>5, <1>10, <1>11 DEF ChatIInv, Keys

LEMMA PeerKeeps ==
    ASSUME ChatIInv, NEW c \in Convs, NEW i \in BOOLEAN, PeerSends(c, i)
    PROVE  ChatIInv'
<1>1. PICK D, n : D = active[c] /\ n = made + 1
  OBVIOUS
<1>2. D \in Audiences /\ {} \in Audiences /\ n \in Nat
  BY <1>1 DEF ChatIInv, ChatTypes, Audiences
<1>3. PICK aud2 \in [1 .. n -> Audiences] :
          aud2[n] = D /\ n \in DOMAIN aud2 /\ MadeFor(aud2)
  BY <1>1, <1>2, NewAudience
<1>a. PICK m : m = [conv |-> c, k |-> n, devs |-> D, inline |-> IF i THEN D ELSE {},
                    adopted |-> TRUE]
  OBVIOUS
<1>4. made' = n /\ messages' = messages \cup {m}
      /\ rows' = [x \in DOMAIN rows \cup {<<c, n>>} |-> IF x \in DOMAIN rows THEN rows[x] ELSE D]
  BY <1>1, <1>a DEF PeerSends
<1>5. UNCHANGED <<active, selected, hookVars, keyVars, wire>>
  BY DEF PeerSends
<1>6. RowsGood(aud2)'
  <2> SUFFICES ASSUME NEW x \in DOMAIN rows'
               PROVE  x \in Convs \X DOMAIN aud2 /\ rows'[x] = aud2[x[2]]
    BY DEF RowsGood
  <2>1. CASE x \in DOMAIN rows
    BY <1>3, <1>4, <2>1 DEF MadeFor, RowsGood
  <2>2. CASE x \notin DOMAIN rows
    BY <1>3, <1>4, <2>2
  <2>. QED  BY <2>1, <2>2
<1>7. \A y \in messages' : MessageGood(y, aud2)'
  <2>1. DOMAIN rows' = DOMAIN rows \cup {<<c, n>>}
    BY <1>4
  <2>2. m \in Message(DOMAIN aud2) /\ m.conv = c /\ m.k = n /\ m.adopted
    BY <1>2, <1>3, <1>a DEF Message
  <2>3. MessageGood(m, aud2)'
    BY <2>1, <2>2 DEF MessageGood
  <2>4. \A y \in messages : MessageGood(y, aud2)'
    BY <1>3, <2>1 DEF MadeFor, MessageGood
  <2>. QED  BY <1>4, <2>3, <2>4
<1>8. MadeFor(aud2)'
  BY <1>3, <1>5, <1>6, <1>7 DEF MadeFor, keyVars
<1>9. ChatTypes' /\ OneAnswer'
  BY <1>2, <1>4, <1>5 DEF ChatIInv, ChatTypes, OneAnswer, PreparedGood, keyVars, hookVars
<1>. QED  BY <1>3, <1>4, <1>8, <1>9 DEF ChatIInv, Keys

LEMMA PushKeeps == ASSUME ChatIInv, PushMessage PROVE ChatIInv'
<1>1. PICK aud \in [Keys -> Audiences] : MadeFor(aud)
  BY DEF ChatIInv
<1> DEFINE t == task["send"]
           p == [k |-> t.k, devs |-> t.devs, pkgs |-> t.pkgs, typed |-> t.typed,
                 adopted |-> t.adopted, live |-> TRUE]
<1>2. t.pc = "push" /\ wire' = Append(wire, p) /\ Step("send", [t EXCEPT !.pc = "sent"])
      /\ "send" \in Slots
  BY DEF PushMessage, Slots
<1>3. t \in Running /\ TaskGood(t, aud) /\ Whole(t) /\ t.k \in Keys
      /\ (t.adopted => t.pkgs = {}) /\ (~t.adopted => t.devs = aud[t.k])
  BY <1>1, <1>2, Suspended DEF MadeFor
<1>4. p \in Pushed /\ WireGood(p, aud)
  <2>1. p \in Pushed
    BY <1>3 DEF Running, Pushed
  <2>. QED  BY <1>3, <2>1 DEF WireGood, Whole
<1>5. UNCHANGED <<serverVars, conv, devs, activeKey, fetch, made, prepared, promise>>
  BY DEF PushMessage, Others, hookVars
<1>6. DOMAIN task' = Slots /\ (\A x \in Slots : TaskGood(task'[x], aud)) /\ task'["send"].pc = "sent"
  <2>1. TaskGood([t EXCEPT !.pc = "sent"], aud)
    BY <1>2, <1>3, KeyGoesOn
  <2>2. [t EXCEPT !.pc = "sent"].pc = "sent"
    BY <1>3 DEF Running
  <2>3. /\ DOMAIN task' = Slots /\ \A x \in Slots : TaskGood(task'[x], aud)
        /\ task'["send"] = [t EXCEPT !.pc = "sent"]
    BY <1>1, <1>2, <2>1, OneStep
  <2>. QED  BY <2>2, <2>3
<1>7. wire \in Seq(Pushed) /\ \A i \in DOMAIN wire : ~wire[i].live
  BY <1>2 DEF ChatIInv, ChatTypes, OneAnswer
<1>8. p.live
  OBVIOUS
<1> HIDE DEF p, t
<1>9. /\ wire' \in Seq(Pushed)
      /\ \A i \in DOMAIN wire' : wire'[i] = p \/ (i \in DOMAIN wire /\ wire'[i] = wire[i])
      /\ \A i \in DOMAIN wire' : i \in DOMAIN wire \/ i = Len(wire) + 1
      /\ \A i \in DOMAIN wire : wire'[i] = wire[i]
  BY <1>2, <1>4, <1>7
<1>10. MadeFor(aud)' /\ Keys' = Keys
  BY <1>1, <1>4, <1>5, <1>6, <1>9 DEF MadeFor, MessageGood, RowsGood, serverVars, Keys
<1>11. OneAnswer'
  BY <1>6, <1>7, <1>9 DEF OneAnswer
<1>12. ChatTypes'
  BY <1>5, <1>6, <1>9 DEF ChatIInv, ChatTypes, PreparedGood, serverVars
<1>. QED  BY <1>1, <1>10, <1>11, <1>12 DEF ChatIInv

\* An accepted message leaves every row with the devices its key was made for.
LEMMA ServerKeeps == ASSUME ChatIInv, NEW b \in BOOLEAN, ServerHandles(b) PROVE ChatIInv'
<1>1. PICK aud \in [Keys -> Audiences] : MadeFor(aud)
  BY DEF ChatIInv
<1>2. PICK r, ck, m :
          /\ r = Head(wire) /\ ck = <<selected, r.k>>
          /\ m = [conv |-> selected, k |-> r.k, devs |-> r.devs, inline |-> r.pkgs,
                  adopted |-> r.adopted]
  OBVIOUS
<1>3. wire # <<>> /\ wire' = Tail(wire) /\ wire \in Seq(Pushed) /\ selected \in Convs
  BY DEF ServerHandles, ChatIInv, ChatTypes
<1>4. /\ r = wire[1] /\ 1 \in DOMAIN wire /\ wire' \in Seq(Pushed)
      /\ \A i \in DOMAIN wire' : i + 1 \in DOMAIN wire /\ wire'[i] = wire[i + 1] /\ i + 1 # 1
  BY <1>2, <1>3
<1>5. r \in Pushed /\ WireGood(r, aud)
  BY <1>1, <1>3, <1>4 DEF MadeFor
<1>6. ck \in Convs \X Keys /\ ck[2] = r.k /\ r.pkgs \in Audiences /\ r.devs \in Audiences
  BY <1>2, <1>3, <1>5 DEF WireGood, Pushed
<1>7. UNCHANGED <<active, selected, conv, devs, activeKey, fetch, made, prepared, promise>>
  BY DEF ServerHandles, hookVars
<1>8. RowsGood(aud)' /\ (\A y \in messages' : MessageGood(y, aud)')
  <2>1. CASE Acceptable(r)
    <3>1. /\ rows' = [x \in DOMAIN rows \cup {ck} |->
                        IF x = ck THEN Holders(selected, r.k) \cup r.pkgs ELSE rows[x]]
          /\ messages' = messages \cup {m}
      BY <1>2, <2>1 DEF ServerHandles
    <3>2. Holders(selected, r.k) \cup r.pkgs = aud[r.k]
      <4>1. CASE ck \in DOMAIN rows
        <5>1. Holders(selected, r.k) = aud[r.k]
          BY <1>1, <1>2, <1>6, <4>1 DEF Holders, MadeFor, RowsGood
        <5>2. r.pkgs \in {{}, aud[r.k]}
          BY <1>5 DEF WireGood, Whole
        <5>. QED  BY <5>1, <5>2
      <4>2. CASE ck \notin DOMAIN rows
        <5>1. Holders(selected, r.k) = {} /\ r.pkgs # {}
          BY <1>2, <2>1, <4>2 DEF Holders, Acceptable
        <5>2. r.pkgs = aud[r.k]
          BY <1>5, <5>1 DEF WireGood, Whole, Pushed
        <5>. QED  BY <5>1, <5>2
      <4>. QED  BY <4>1, <4>2
    <3>3. RowsGood(aud)'
      BY <1>1, <1>6, <3>1, <3>2 DEF MadeFor, RowsGood
    <3>4. DOMAIN rows' = DOMAIN rows \cup {ck}
      BY <3>1
    <3>5. MessageGood(m, aud)'
      <4>1. m \in Message(DOMAIN aud)
        BY <1>2, <1>3, <1>5, <1>6 DEF Message, Pushed
      <4>2. m.conv = selected /\ m.k = r.k /\ m.adopted = r.adopted /\ m.devs = r.devs
        BY <1>2
      <4>. QED  BY <1>2, <1>5, <3>4, <4>1, <4>2 DEF MessageGood, WireGood
    <3>6. \A y \in messages : MessageGood(y, aud)'
      BY <1>1, <3>4 DEF MadeFor, MessageGood
    <3>. QED  BY <3>1, <3>3, <3>5, <3>6
  <2>2. CASE ~Acceptable(r)
    <3>1. UNCHANGED <<rows, messages>>
      BY <1>2, <2>2 DEF ServerHandles
    <3>. QED  BY <1>1, <3>1 DEF MadeFor, MessageGood, RowsGood
  <2>. QED  BY <2>1, <2>2
<1>9. PICK c \in {"sent", "ok", "error"} : Answered(r, c)
  BY <1>2 DEF ServerHandles
<1>10. /\ DOMAIN task' = Slots /\ (\A x \in Slots : TaskGood(task'[x], aud))
       /\ r.live \/ task' = task
  <2>1. CASE r.live
    <3>1. task["send"].pc = "sent" /\ "send" \in Slots
      BY <1>4, <2>1 DEF ChatIInv, OneAnswer, Slots
    <3>2. task["send"] \in Running /\ TaskGood(task["send"], aud)
      BY <1>1, <3>1, Suspended DEF MadeFor
    <3>3. TaskGood([task["send"] EXCEPT !.pc = c], aud)
      BY <1>9, <3>1, <3>2, KeyGoesOn
    <3>. QED  BY <1>1, <1>9, <2>1, <3>1, <3>3, OneStep DEF Answered
  <2>2. CASE ~r.live
    BY <1>1, <1>9, <2>2 DEF Answered, MadeFor, ChatIInv, ChatTypes
  <2>. QED  BY <2>1, <2>2
<1>11. OneAnswer'
  <2>1. CASE r.live
    <3>1. \A i \in DOMAIN wire' : ~wire'[i].live
      BY <1>4, <2>1 DEF ChatIInv, OneAnswer
    <3>. QED  BY <3>1 DEF OneAnswer
  <2>2. CASE task' = task
    <3>1. \A i \in DOMAIN wire' : wire'[i].live => task'["send"].pc = "sent"
      BY <1>4, <2>2 DEF ChatIInv, OneAnswer
    <3>2. ASSUME NEW i \in DOMAIN wire', NEW j \in DOMAIN wire', wire'[i].live, wire'[j].live
          PROVE  i = j
      <4>1. i + 1 = j + 1
        BY <1>4, <3>2 DEF ChatIInv, OneAnswer
      <4>. QED  BY <1>4, <4>1
    <3>. QED  BY <3>1, <3>2 DEF OneAnswer
  <2>. QED  BY <1>10, <2>1, <2>2
<1>12. MadeFor(aud)' /\ Keys' = Keys
  <2>1. \A i \in DOMAIN wire' : WireGood(wire'[i], aud)
    BY <1>1, <1>4 DEF MadeFor
  <2>. QED  BY <1>1, <1>7, <1>8, <1>10, <2>1 DEF MadeFor, Keys
<1>13. ChatTypes'
  BY <1>4, <1>7, <1>10 DEF ChatIInv, ChatTypes, PreparedGood
<1>. QED  BY <1>1, <1>11, <1>12, <1>13 DEF ChatIInv

\* What was in flight is no longer waited for.
LEMMA WireDies ==
    ASSUME ChatIInv, NEW aud, MadeFor(aud),
           wire' = [i \in DOMAIN wire |-> [wire[i] EXCEPT !.live = FALSE]]
    PROVE  wire' \in Seq(Pushed) /\ \A i \in DOMAIN wire' : WireGood(wire'[i], aud) /\ ~wire'[i].live
<1>1. wire \in Seq(Pushed)
  BY DEF ChatIInv, ChatTypes
<1>2. ASSUME NEW i \in DOMAIN wire
      PROVE  wire'[i] \in Pushed /\ WireGood(wire'[i], aud) /\ ~wire'[i].live
  <2>1. wire[i] \in Pushed /\ WireGood(wire[i], aud)
    BY <1>1 DEF MadeFor
  <2>2. PICK w : w = [wire[i] EXCEPT !.live = FALSE] /\ wire'[i] = w
    OBVIOUS
  <2>3. w \in Pushed /\ ~w.live /\ w.pkgs = wire[i].pkgs /\ w.devs = wire[i].devs
        /\ w.k = wire[i].k /\ w.adopted = wire[i].adopted
    BY <2>1, <2>2 DEF Pushed
  <2>. QED  BY <2>1, <2>2, <2>3 DEF WireGood, Whole
<1>3. DOMAIN wire' = 1 .. Len(wire) /\ Len(wire) \in Nat /\ DOMAIN wire = DOMAIN wire'
  BY <1>1
<1>4. wire' \in [1 .. Len(wire) -> Pushed]
  BY <1>2, <1>3
<1>5. wire' \in Seq(Pushed)
  BY <1>3, <1>4
<1>. QED  BY <1>2, <1>3, <1>5

LEMMA DeadKeep == ASSUME ChatIInv, SendTimeout \/ Reload PROVE ChatIInv'
<1>1. PICK aud \in [Keys -> Audiences] : MadeFor(aud)
  BY DEF ChatIInv
<1>2. wire' = [i \in DOMAIN wire |-> [wire[i] EXCEPT !.live = FALSE]]
      /\ UNCHANGED <<serverVars, activeKey, made>>
  BY DEF SendTimeout, Reload, Others
<1>3. DOMAIN task' = Slots /\ (\A x \in Slots : TaskGood(task'[x], aud))
  <2>1. CASE SendTimeout
    BY <1>1, <2>1, OneStep DEF SendTimeout, TaskGood, Slots
  <2>2. CASE Reload
    BY <2>2 DEF Reload, TaskGood
  <2>. QED  BY <2>1, <2>2
<1>4. fetch' \in {fetch, NoFetch} /\ prepared' \in {prepared, NoRecord}
      /\ promise' \in {promise, "none"} /\ conv' \in Convs /\ devs' \in Audiences
  BY DEF SendTimeout, Reload, Others, hookVars, ChatIInv, ChatTypes
<1>5. wire' \in Seq(Pushed) /\ \A i \in DOMAIN wire' : WireGood(wire'[i], aud) /\ ~wire'[i].live
  BY <1>1, <1>2, WireDies
<1>6. MadeFor(aud)' /\ Keys' = Keys
  BY <1>1, <1>2, <1>3, <1>4, <1>5 DEF MadeFor, MessageGood, RowsGood, serverVars, Keys
<1>7. ChatTypes' /\ OneAnswer'
  BY <1>2, <1>3, <1>4, <1>5 DEF ChatIInv, ChatTypes, OneAnswer, PreparedGood, serverVars
<1>. QED  BY <1>1, <1>6, <1>7 DEF ChatIInv

LEMMA ChatStep == ASSUME ChatIInv, [ChatNext]_chatVars PROVE ChatIInv'
<1>1. CASE Event
  <2>1. CASE \E c \in Convs : \E d \in Devices : ToggleDevice(c, d)
    BY <2>1, PageKeeps
  <2>2. CASE HandleToggle \/ SubmitInTheClear \/ \E c \in Convs : Select(c)
    BY <2>2, PageKeeps
  <2>3. CASE HandleSubmit
    BY <2>3, BeginKeeps
  <2>4. CASE Reload \/ ServerHandles(FALSE)
    BY <2>4, DeadKeep, ServerKeeps
  <2>5. CASE \E c \in Convs, i \in BOOLEAN : PeerSends(c, i)
    BY <2>5, PeerKeeps
  <2>6. CASE \E s \in Slots : DevicesUntrusted(s)
    BY <2>6, UntrustedKeeps
  <2>. QED  BY <1>1, <2>1, <2>2, <2>3, <2>4, <2>5, <2>6 DEF Event
<1>2. CASE Progress
  <2>1. CASE Updated \/ LoadOrCreateDevice \/ EnsureDeviceRegistered
    BY <2>1, PageKeeps
  <2>2. CASE \E s \in Slots : PrepareConversationKeyPackages(s)
    BY <2>2, BeginKeeps
  <2>3. CASE \E s \in Slots : DevicesTrusted(s) \/ ReuseKey(s) \/ MakeKey(s)
    BY <2>3, TrustKeeps, ReuseKeeps, MakeKeyKeeps
  <2>4. CASE \E s \in Slots :
                StoreActiveConversationKey(s) \/ PackPrepared(s) \/ WrapConversationKey(s)
    BY <2>4, StoreKeeps, PackKeeps, WrapKeeps
  <2>5. CASE PackMessage \/ PushMessage \/ ServerHandles(TRUE) \/ OnReply \/ SendTimeout
    BY <2>5, PackMessageKeeps, PushKeeps, ServerKeeps, ReplyKeeps, DeadKeep
  <2>6. CASE (\E m \in messages : DecryptMessage(m)) \/ KeyAnswered \/ AdoptKey
    BY <2>6, ReadingKeeps
  <2>. QED  BY <1>2, <2>1, <2>2, <2>3, <2>4, <2>5, <2>6 DEF Progress
<1>3. CASE UNCHANGED chatVars
  <2>1. UNCHANGED <<rows, messages, activeKey, task, wire, fetch, made, active, selected, conv,
                    devs, promise, prepared>>
    BY <1>3 DEF chatVars, serverVars, hookVars, keyVars
  <2>. QED  BY <2>1, PageChanges DEF ChatIInv, ChatTypes
<1>. QED  BY <1>1, <1>2, <1>3 DEF ChatNext

\* However conversations, devices and answers interleave, every key has one set of
\* devices it was made for, and rows, messages and suspended functions agree on it.
THEOREM ChatInvariance == ChatSpec => []ChatIInv
<1>1. ChatInit => ChatIInv
  BY ChatStarts
<1>2. ChatIInv /\ [ChatNext]_chatVars => ChatIInv'
  BY ChatStep
<1>. QED  BY <1>1, <1>2, PTL DEF ChatSpec

\* A message under a key this browser made can be read by the devices it was encrypted
\* for and by no other (packMessage, reuseKey, upsert_conversation_key_recipients).
THEOREM AudienceStays == ChatSpec => []AudienceReads
<1>1. ChatIInv => AudienceReads
  <2> SUFFICES ASSUME ChatIInv, NEW m \in messages, ~m.adopted
               PROVE  Holders(m.conv, m.k) = m.devs
    BY DEF AudienceReads, AudienceCanRead, OnlyAudienceCanRead
  <2>1. PICK aud \in [Keys -> Audiences] : MadeFor(aud)
    BY DEF ChatIInv
  <2>2. <<m.conv, m.k>> \in DOMAIN rows /\ m.devs = aud[m.k]
    BY <2>1 DEF MadeFor, MessageGood
  <2>. QED  BY <2>1, <2>2 DEF MadeFor, RowsGood, Holders
<1>. QED  BY <1>1, ChatInvariance, PTL

-----------------------------------------------------------------------------
(* MessageList: the place of a reader *)

\* A place as it is kept, and two that are the same to a restore.
ListPlaces == [top : Nat, end : BOOLEAN] \cup {Nowhere}
Restorations == [place : ListPlaces, left : 1 .. Timers]
SamePlace(p, w) == p.end = w.end /\ (~w.end => p.top = w.top)

ListTypes ==
    /\ opened \in Conversations /\ ready \in BOOLEAN /\ restoring \in BOOLEAN
    /\ above \in Nat /\ top \in Nat /\ arrived \in [Conversations -> Nat]
    /\ places \in [Conversations -> ListPlaces] /\ wanted \in [Conversations -> ListPlaces]
    /\ restores \in Seq(Restorations)
    /\ ~ready => above = 0

\* At rest the place that is kept is the one the reader is at.
PlaceKept ==
    ready /\ ~restoring /\ ~echo /\ frames = {} /\ above = 0 =>
       SamePlace(places[opened], [top |-> top, end |-> NearBottom])

\* The place of a conversation that is not open, or is being restored, is the
\* one its reader left.
AsLeft ==
    \A c \in Conversations :
       (c # opened \/ restoring) /\ wanted[c] # Nowhere => SamePlace(places[c], wanted[c])

\* The timers of an earlier restore are ahead of those of a later one, and the
\* last restore is that of the open conversation.
Newest == restores[Len(restores)]
InTurn ==
    /\ \A i, j \in DOMAIN restores : i < j => restores[i].left <= restores[j].left
    /\ restoring <=> restores # <<>>
    /\ restoring => Newest.place = places[opened]
    /\ ~restoring /\ ~ready => wanted[opened] = Nowhere
    /\ restoring /\ ~stirred => frames \subseteq {"restore"}

\* Before its last timer a restore has brought the page to its place.
There ==
    restoring /\ ready /\ ~stirred /\ Newest.left = 1 =>
       IF Newest.place.end THEN NearBottom \/ frames # {}
       ELSE top = Least(Newest.place.top, Bottom) /\ frames = {}

ListIInv == ListTypes /\ PlaceKept /\ AsLeft /\ InTurn /\ There

LEMMA BottomType == ASSUME ListTypes PROVE Bottom \in Nat
  BY ListAssumption DEF ListTypes, Bottom

LEMMA RestoreTypes ==
  ASSUME ListTypes
  PROVE  /\ Len(restores) \in Nat /\ DOMAIN restores = 1 .. Len(restores)
         /\ restores \in Seq(Restorations)
         /\ \A i \in 1 .. Len(restores) :
               /\ restores[i] \in Restorations
               /\ restores[i].left \in Nat /\ restores[i].left >= 1
<1>1. /\ Len(restores) \in Nat /\ DOMAIN restores = 1 .. Len(restores)
      /\ \A i \in 1 .. Len(restores) : restores[i] \in Restorations
      /\ restores \in Seq(Restorations)
  BY DEF ListTypes
<1>2. \A r \in Restorations : r.left \in Nat /\ r.left >= 1
  BY ListAssumption DEF Restorations
<1>. QED  BY <1>1, <1>2

LEMMA SameBottom ==
  ASSUME UNCHANGED <<opened, ready, above>>, arrived'[opened] = arrived[opened]
  PROVE  Bottom' = Bottom /\ (top' = top => NearBottom' = NearBottom)
  BY DEF Bottom, NearBottom

\* The place that saveCurrentScrollPosition keeps.
LEMMA PlaceHere ==
  ASSUME NEW n \in Nat, NEW v \in BOOLEAN
  PROVE  [top |-> n, end |-> v] \in ListPlaces
  BY DEF ListPlaces

\* Steps that open and restore nothing.
LEMMA StaysInTurn ==
  ASSUME ListIInv, UNCHANGED <<opened, ready, restores, restoring, wanted>>,
         \A c \in Conversations : c # opened \/ restoring => places'[c] = places[c],
         restoring /\ ~stirred' => frames' \subseteq {"restore"}
  PROVE  AsLeft' /\ InTurn'
<1>1. opened \in Conversations
  BY DEF ListIInv, ListTypes
<1>2. AsLeft'
  BY DEF ListIInv, AsLeft
<1>3. restoring => Newest' = Newest /\ places'[opened] = places[opened]
  BY <1>1 DEF Newest
<1>4. InTurn'
  BY <1>3 DEF ListIInv, InTurn
<1>. QED  BY <1>2, <1>4

LEMMA StaysThere ==
  ASSUME ListIInv, UNCHANGED <<opened, ready, restores, restoring>>,
         restoring /\ ~stirred' =>
            ~stirred /\ UNCHANGED <<top, above, frames>> /\ arrived'[opened] = arrived[opened]
  PROVE  There'
<1> SUFFICES ASSUME restoring, ready, ~stirred', Newest'.left = 1
             PROVE  IF Newest'.place.end THEN NearBottom' \/ frames' # {}
                    ELSE top' = Least(Newest'.place.top, Bottom') /\ frames' = {}
  BY DEF There, Least
<1>1. Newest' = Newest
  BY DEF Newest
<1>2. Bottom' = Bottom /\ NearBottom' = NearBottom /\ top' = top /\ frames' = frames
  BY SameBottom
<1>. QED  BY <1>1, <1>2 DEF ListIInv, There

LEMMA ListBegins == ListInit => ListIInv
<1> SUFFICES ASSUME ListInit PROVE ListIInv
  OBVIOUS
<1>1. (CHOOSE c \in Conversations : TRUE) \in Conversations
  BY ListAssumption
<1>2. ListTypes
  <2>1. Nowhere \in ListPlaces
    BY DEF ListPlaces
  <2>2. [c \in Conversations |-> Nowhere] \in [Conversations -> ListPlaces]
    BY <2>1
  <2>3. [c \in Conversations |-> 0] \in [Conversations -> Nat] /\ <<>> \in Seq(Restorations)
    OBVIOUS
  <2>. QED  BY <1>1, <2>2, <2>3, ListAssumption DEF ListInit, ListTypes
<1>3. PlaceKept
  <2>1. Bottom = Base /\ top = Base /\ NearBottom
    BY <1>1, ListAssumption DEF ListInit, Bottom, NearBottom
  <2>2. places[opened] = Nowhere
    BY <1>1 DEF ListInit
  <2>. QED  BY <2>1, <2>2 DEF PlaceKept, SamePlace, Nowhere
<1>4. AsLeft
  BY DEF ListInit, AsLeft
<1>5. InTurn
  BY DEF ListInit, InTurn
<1>6. There
  BY DEF ListInit, There
<1>. QED  BY <1>2, <1>3, <1>4, <1>5, <1>6 DEF ListIInv

\* A new restore: it is the last one, and its timers are all to come.
LEMMA NewRestore ==
  ASSUME ListIInv, NEW c \in Conversations, NEW n \in Nat, NEW high \in Nat,
         RestoreConversationScroll(c, n, high), opened' = c, UNCHANGED places,
         \A d \in Conversations : wanted'[d] # Nowhere => SamePlace(places[d], wanted'[d])
  PROVE  /\ restores' \in Seq(Restorations) /\ restoring' = TRUE
         /\ top' \in Nat
         /\ AsLeft' /\ InTurn' /\ There' /\ PlaceKept'
<1> DEFINE r == [place |-> places[c], left |-> Timers]
           m == Len(restores)
<1>1. /\ restores' = Append(restores, r) /\ restoring' = TRUE
      /\ top' = (IF places[c].end THEN n ELSE Least(places[c].top, high))
      /\ frames' \in {{"restore"}, {}}
  BY DEF RestoreConversationScroll, Restore, MoveTo
<1>2. r \in Restorations /\ r.left = Timers /\ r.place = places[c]
  <2>1. places[c] \in ListPlaces /\ Timers \in 1 .. Timers
    BY ListAssumption DEF ListIInv, ListTypes
  <2>. QED  BY <2>1 DEF Restorations
<1>3. m \in Nat /\ restores \in Seq(Restorations) /\ DOMAIN restores = 1 .. m
  BY DEF ListIInv, ListTypes
<1> HIDE DEF r
<1>4. /\ restores' \in Seq(Restorations) /\ DOMAIN restores' = 1 .. m + 1 /\ Len(restores') = m + 1
      /\ restores'[m + 1] = r /\ \A i \in 1 .. m : restores'[i] = restores[i]
      /\ restores' # <<>>
  BY <1>1, <1>2, <1>3
<1>5. top' \in Nat
  <2>1. places[c].end \/ places[c].top \in Nat
    BY DEF ListIInv, ListTypes, ListPlaces, Nowhere
  <2>. QED  BY <1>1, <2>1 DEF Least
<1>6. AsLeft'
  BY DEF AsLeft
<1>7. Newest' = r
  BY <1>4 DEF Newest
<1>8. InTurn'
  <2>1. ASSUME NEW i \in 1 .. m + 1, NEW j \in 1 .. m + 1, i < j
        PROVE  restores'[i].left <= restores'[j].left
    <3>1. i \in 1 .. m
      BY <1>3, <2>1
    <3>2. CASE j \in 1 .. m
      BY <1>3, <1>4, <2>1, <3>1, <3>2 DEF ListIInv, InTurn
    <3>3. CASE j = m + 1
      <4>1. restores[i] \in Restorations
        BY <1>3, <3>1
      <4>2. restores[i].left <= Timers
        BY <4>1, ListAssumption DEF Restorations
      <4>. QED  BY <1>2, <1>4, <3>1, <3>3, <4>2
    <3>. QED  BY <1>3, <3>2, <3>3
  <2>2. Newest'.place = places'[opened']
    BY <1>2, <1>7
  <2>. QED  BY <1>1, <1>4, <2>1, <2>2 DEF InTurn
<1>9. There'
  <2>1. Newest'.left # 1
    BY <1>2, <1>7, ListAssumption
  <2>. QED  BY <2>1 DEF There
<1>10. PlaceKept'
  BY <1>1 DEF PlaceKept
<1>. QED  BY <1>1, <1>4, <1>5, <1>6, <1>8, <1>9, <1>10

\* Opening a conversation: the place of the one that is left has been kept.
LEMMA OpensOn == ASSUME ListIInv, NEW c \in Conversations, Opens(c) PROVE ListIInv'
<1>1. /\ c # opened /\ opened' = c /\ ready' = FALSE /\ above' = 0
      /\ RestoreConversationScroll(c, 0, 0)
      /\ UNCHANGED <<arrived, places>> /\ stirred' = FALSE
  BY DEF Opens
<1>2. opened \in Conversations /\ wanted \in [Conversations -> ListPlaces] /\ top \in Nat
  BY DEF ListIInv, ListTypes
<1> DEFINE w == IF ready /\ ~echo /\ frames = {} /\ above = 0
                THEN [top |-> top, end |-> NearBottom] ELSE Nowhere
<1>3. wanted' = IF restoring THEN wanted ELSE [wanted EXCEPT ![opened] = w]
  BY DEF Opens
<1>4. w \in ListPlaces
  <2>1. NearBottom \in BOOLEAN
    BY DEF NearBottom
  <2>. QED  BY <1>2, <2>1, PlaceHere DEF ListPlaces
<1>5. ~restoring /\ w # Nowhere => SamePlace(places[opened], w)
  BY DEF ListIInv, PlaceKept
<1> HIDE DEF w
<1>6. wanted' \in [Conversations -> ListPlaces]
  BY <1>2, <1>3, <1>4
<1>7. ASSUME NEW d \in Conversations, wanted'[d] # Nowhere PROVE SamePlace(places[d], wanted'[d])
  <2>1. CASE restoring \/ d # opened
    <3>1. wanted'[d] = wanted[d]
      BY <1>2, <1>3, <2>1
    <3>. QED  BY <1>7, <2>1, <3>1 DEF ListIInv, AsLeft
  <2>2. CASE ~restoring /\ d = opened
    <3>1. wanted'[d] = w
      BY <1>2, <1>3, <2>2
    <3>. QED  BY <1>5, <1>7, <2>2, <3>1
  <2>. QED  BY <2>1, <2>2
<1>8. /\ restores' \in Seq(Restorations) /\ restoring' = TRUE /\ top' \in Nat
      /\ AsLeft' /\ InTurn' /\ There' /\ PlaceKept'
  BY <1>1, <1>7, NewRestore
<1>9. ListTypes'
  BY <1>1, <1>6, <1>8 DEF ListIInv, ListTypes
<1>. QED  BY <1>8, <1>9 DEF ListIInv

LEMMA LoadsOn == ASSUME ListIInv, Loads PROVE ListIInv'
<1>1. /\ ~ready /\ ready' = TRUE
      /\ RestoreConversationScroll(opened, top, Base + arrived[opened])
      /\ UNCHANGED <<opened, above, arrived, places, wanted>>
  BY DEF Loads
<1>2. opened \in Conversations /\ top \in Nat /\ Base + arrived[opened] \in Nat
  BY ListAssumption DEF ListIInv, ListTypes
<1>3. ASSUME NEW d \in Conversations, wanted'[d] # Nowhere PROVE SamePlace(places[d], wanted'[d])
  <2>1. d # opened \/ restoring
    BY <1>1, <1>3 DEF ListIInv, InTurn
  <2>. QED  BY <1>1, <1>3, <2>1 DEF ListIInv, AsLeft
<1>4. /\ restores' \in Seq(Restorations) /\ restoring' = TRUE /\ top' \in Nat
      /\ AsLeft' /\ InTurn' /\ There' /\ PlaceKept'
  BY <1>1, <1>2, <1>3, NewRestore
<1>5. ListTypes'
  BY <1>1, <1>4 DEF ListIInv, ListTypes
<1>. QED  BY <1>4, <1>5 DEF ListIInv

\* The timers of the restores.  One before the last brings the page to its
\* place; the last ends it, when all earlier restores have ended.
LEMMA RestoresOn ==
  ASSUME ListIInv, NEW i \in DOMAIN restores, RestoreFires(i), restores[i].left > 1
  PROVE  ListIInv'
<1> DEFINE r == restores[i]
           m == Len(restores)
<1>1. /\ m \in Nat /\ restores \in Seq(Restorations) /\ DOMAIN restores = 1 .. m /\ i \in 1 .. m
      /\ r \in Restorations /\ r.left \in Nat
  BY RestoreTypes DEF ListIInv
<1>2. restoring
  BY <1>1 DEF ListIInv, InTurn
<1>3. /\ \A j \in 1 .. i - 1 : restores[j].left < r.left
      /\ "restore" \notin frames
      /\ restores' = [restores EXCEPT ![i].left = @ - 1]
      /\ Restore(r.place, top, Bottom)
      /\ UNCHANGED <<opened, ready, above, arrived, restoring, stirred, wanted>>
  BY DEF RestoreFires
<1>4. UNCHANGED places
  BY <1>2 DEF RestoreFires, SaveCurrentScrollPosition
<1>5. Bottom \in Nat /\ Bottom' = Bottom
  BY <1>3, BottomType, SameBottom DEF ListIInv
<1>6. /\ top' = (IF r.place.end THEN top ELSE Least(r.place.top, Bottom))
      /\ frames' = (IF r.place.end \/ frames # {} THEN {"restore"} ELSE {})
  BY <1>3 DEF Restore, MoveTo
<1>7. top' \in Nat
  <2>1. r.place.end \/ r.place.top \in Nat
    BY <1>1 DEF Restorations, ListPlaces, Nowhere
  <2>. QED  BY <1>5, <1>6, <2>1 DEF Least, ListIInv, ListTypes
<1>8. /\ restores' \in Seq(Restorations) /\ DOMAIN restores' = 1 .. m /\ Len(restores') = m
      /\ \A j \in 1 .. m : j # i => restores'[j] = restores[j]
      /\ restores'[i].left = r.left - 1 /\ restores'[i].place = r.place
  <2> DEFINE q == [r EXCEPT !.left = r.left - 1]
  <2>1. q \in Restorations /\ q.left = r.left - 1 /\ q.place = r.place
    <3>1. r.left - 1 \in 1 .. Timers
      BY <1>1, ListAssumption DEF Restorations
    <3>. QED  BY <1>1, <3>1 DEF Restorations
  <2>2. restores' = [restores EXCEPT ![i] = q]
    BY <1>3
  <2> HIDE DEF q
  <2>. QED  BY <1>1, <2>1, <2>2
<1>9. ListTypes'
  BY <1>3, <1>4, <1>7, <1>8 DEF ListIInv, ListTypes
<1>10. AsLeft' /\ PlaceKept'
  BY <1>2, <1>3, <1>4 DEF ListIInv, AsLeft, PlaceKept
<1>11. Newest'.place = Newest.place
  BY <1>1, <1>8 DEF Newest
<1>12. InTurn'
  <2>1. ASSUME NEW j \in 1 .. m, NEW k \in 1 .. m, j < k
        PROVE  restores'[j].left <= restores'[k].left
    <3>1. restores[j].left <= restores[k].left /\ restores[j].left \in Nat /\ restores[k].left \in Nat
      BY <1>1, <2>1, RestoreTypes DEF ListIInv, InTurn
    <3>2. CASE k = i
      <4>1. j \in 1 .. i - 1
        BY <1>1, <2>1, <3>2
      <4>2. restores[j].left < r.left
        BY <1>3, <4>1
      <4>. QED  BY <1>1, <1>8, <2>1, <3>1, <3>2, <4>2
    <3>3. CASE j = i
      BY <1>8, <2>1, <3>1, <3>3
    <3>4. CASE j # i /\ k # i
      BY <1>8, <3>1, <3>4
    <3>. QED  BY <3>2, <3>3, <3>4
  <2>2. restores' # <<>>
    BY <1>1, <1>8
  <2>3. frames' \subseteq {"restore"}
    BY <1>6
  <2>. QED  BY <1>2, <1>3, <1>4, <1>8, <1>11, <2>1, <2>2, <2>3 DEF ListIInv, InTurn
<1>13. There'
  <2> SUFFICES ASSUME ~stirred, Newest'.left = 1
               PROVE  IF Newest'.place.end THEN NearBottom' \/ frames' # {}
                      ELSE top' = Least(Newest'.place.top, Bottom') /\ frames' = {}
    BY <1>3 DEF There
  <2>1. i = m
    <3> SUFFICES ASSUME i # m PROVE FALSE
      OBVIOUS
    <3>1. m \in 1 .. m /\ i < m
      BY <1>1
    <3>2. restores[m].left = 1
      BY <1>8, <3>1 DEF Newest
    <3>3. r.left <= restores[m].left
      BY <1>1, <3>1 DEF ListIInv, InTurn
    <3>. QED  BY <1>1, <3>2, <3>3
  <2>2. Newest'.place = r.place
    BY <1>11, <2>1 DEF Newest
  <2>3. frames = {}
    BY <1>2, <1>3 DEF ListIInv, InTurn
  <2>. QED  BY <1>5, <1>6, <2>2, <2>3
<1>. QED  BY <1>9, <1>10, <1>12, <1>13 DEF ListIInv

\* What the last timer of a restore finds: it is alone, or not the last restore.
LEMMA LastTimer ==
  ASSUME ListIInv, NEW i \in DOMAIN restores, RestoreFires(i), ~(restores[i].left > 1)
  PROVE  /\ restores[i].left = 1 /\ i = 1
         /\ restores' = Tail(restores)
         /\ restoring
         /\ UNCHANGED <<opened, ready, above, arrived, stirred, top, echo, frames>>
         /\ IsNewest(i) => /\ restoring' = FALSE
                           /\ places' = [places EXCEPT ![opened] = [top |-> top, end |-> NearBottom]]
                           /\ wanted' = IF ready THEN wanted ELSE [wanted EXCEPT ![opened] = Nowhere]
         /\ ~IsNewest(i) => UNCHANGED <<restoring, places, wanted>>
<1> DEFINE m == Len(restores)
<1>1. /\ m \in Nat /\ restores \in Seq(Restorations) /\ DOMAIN restores = 1 .. m
      /\ \A j \in 1 .. m : restores[j].left \in Nat /\ restores[j].left >= 1
  BY RestoreTypes DEF ListIInv
<1>2. restores[i].left = 1
  BY <1>1
<1>3. /\ \A j \in 1 .. i - 1 : restores[j].left < restores[i].left
      /\ restores' = RemoveAt(restores, i)
      /\ UNCHANGED <<opened, ready, above, arrived, stirred, top, echo, frames>>
      /\ IsNewest(i) => /\ restoring' = FALSE
                        /\ places' = [places EXCEPT ![opened] = [top |-> top, end |-> NearBottom]]
      /\ ~IsNewest(i) => UNCHANGED <<restoring, places>>
      /\ wanted' = IF restores[i].left = 1 /\ IsNewest(i) /\ ~ready
                   THEN [wanted EXCEPT ![opened] = Nowhere] ELSE wanted
  BY DEF RestoreFires
<1>4. i = 1
  <2> SUFFICES ASSUME i # 1 PROVE FALSE
    OBVIOUS
  <2>1. 1 \in 1 .. i - 1 /\ 1 \in 1 .. m
    BY <1>1
  <2>2. restores[1].left < 1
    BY <1>2, <1>3, <2>1
  <2>. QED  BY <1>1, <2>1, <2>2
<1>5. restores' = Tail(restores)
  <2>1. RemoveAt(restores, 1) = SubSeq(restores, 1, 0) \o SubSeq(restores, 2, m)
    BY DEF RemoveAt
  <2>2. SubSeq(restores, 1, 0) = <<>> /\ SubSeq(restores, 2, m) = Tail(restores)
    BY <1>1
  <2>3. Tail(restores) \in Seq(Restorations)
    BY <1>1
  <2> DEFINE u == Tail(restores)
  <2>4. u \in Seq(Restorations)
    BY <2>3
  <2> HIDE DEF u
  <2>5. <<>> \o u = u
    BY <2>4
  <2>. QED  BY <1>3, <1>4, <2>1, <2>2, <2>5 DEF u
<1>6. restoring
  BY <1>1 DEF ListIInv, InTurn
<1>. QED  BY <1>2, <1>3, <1>4, <1>5, <1>6

LEMMA EndsOn ==
  ASSUME ListIInv, NEW i \in DOMAIN restores, RestoreFires(i), ~(restores[i].left > 1)
  PROVE  ListIInv'
<1> DEFINE m == Len(restores)
           t == Tail(restores)
<1>1. m \in Nat /\ restores \in Seq(Restorations) /\ DOMAIN restores = 1 .. m /\ m >= 1
  BY DEF ListIInv, ListTypes
<1>2. /\ t \in Seq(Restorations) /\ Len(t) = m - 1 /\ DOMAIN t = 1 .. m - 1
      /\ \A j \in 1 .. m - 1 : t[j] = restores[j + 1]
  BY <1>1
<1>3. /\ i = 1 /\ restores[i].left = 1 /\ restores' = t /\ restoring
      /\ UNCHANGED <<opened, ready, above, arrived, stirred, top, echo, frames>>
  BY LastTimer
<1> HIDE DEF t
<1>4. \A j, k \in 1 .. m - 1 : j < k => t[j].left <= t[k].left
  <2> TAKE j \in 1 .. m - 1, k \in 1 .. m - 1
  <2>1. j + 1 \in 1 .. m /\ k + 1 \in 1 .. m /\ (j < k => j + 1 < k + 1)
    BY <1>1
  <2>2. j < k => restores[j + 1].left <= restores[k + 1].left
    BY <1>1, <2>1 DEF ListIInv, InTurn
  <2>. QED  BY <1>2, <2>2
<1>5. top \in Nat /\ NearBottom \in BOOLEAN /\ NearBottom' = NearBottom /\ opened \in Conversations
  BY <1>3, SameBottom DEF NearBottom, ListIInv, ListTypes
<1> DEFINE h == [top |-> top, end |-> NearBottom]
<1>6. h \in ListPlaces /\ Nowhere \in ListPlaces
  BY <1>5, PlaceHere DEF ListPlaces
<1>7. CASE IsNewest(i)
  <2>1. /\ restoring' = FALSE /\ places' = [places EXCEPT ![opened] = h]
        /\ wanted' = IF ready THEN wanted ELSE [wanted EXCEPT ![opened] = Nowhere]
    BY <1>7, LastTimer
  <2>2. t = <<>>
    BY <1>1, <1>2, <1>3, <1>7 DEF IsNewest
  <2> HIDE DEF h
  <2>3. places \in [Conversations -> ListPlaces] /\ wanted \in [Conversations -> ListPlaces]
    BY DEF ListIInv, ListTypes
  <2>4. /\ places' \in [Conversations -> ListPlaces] /\ wanted' \in [Conversations -> ListPlaces]
        /\ places'[opened] = h
        /\ \A c \in Conversations : c # opened => places'[c] = places[c] /\ wanted'[c] = wanted[c]
        /\ ~ready => wanted'[opened] = Nowhere
    BY <1>5, <1>6, <2>1, <2>3
  <2>5. ListTypes'
    BY <1>2, <1>3, <2>1, <2>4 DEF ListIInv, ListTypes
  <2>6. PlaceKept'
    BY <1>3, <1>5, <2>4 DEF PlaceKept, SamePlace, h
  <2>7. AsLeft'
    BY <1>3, <2>1, <2>4 DEF ListIInv, AsLeft
  <2>8. InTurn'
    BY <1>2, <1>3, <1>4, <2>1, <2>2, <2>4 DEF InTurn
  <2>9. There'
    BY <2>1 DEF There
  <2>. QED  BY <2>5, <2>6, <2>7, <2>8, <2>9 DEF ListIInv
<1>8. CASE ~IsNewest(i)
  <2>1. UNCHANGED <<restoring, places, wanted>>
    BY <1>8, LastTimer
  <2>2. m - 1 \in 1 .. m - 1 /\ m - 1 + 1 = m
    BY <1>1, <1>3, <1>8 DEF IsNewest
  <2>3. Newest' = Newest /\ t # <<>>
    <3>1. t[m - 1] = restores[m]
      BY <1>2, <2>2
    <3>. QED  BY <1>2, <1>3, <2>2, <3>1 DEF Newest
  <2>4. ListTypes'
    BY <1>2, <1>3, <2>1 DEF ListIInv, ListTypes
  <2>5. PlaceKept' /\ AsLeft'
    BY <1>3, <2>1 DEF ListIInv, PlaceKept, AsLeft
  <2>6. InTurn'
    <3>1. \A j, k \in DOMAIN restores' : j < k => restores'[j].left <= restores'[k].left
      BY <1>2, <1>3, <1>4
    <3>. QED  BY <1>3, <2>1, <2>3, <3>1 DEF ListIInv, InTurn
  <2>7. There'
    <3>1. Bottom' = Bottom
      BY <1>3, SameBottom
    <3>. QED  BY <1>3, <1>5, <2>1, <2>3, <3>1 DEF ListIInv, There
  <2>. QED  BY <2>4, <2>5, <2>6, <2>7 DEF ListIInv
<1>. QED  BY <1>7, <1>8

\* Every other step leaves the restores as they are.
LEMMA ListGoesOn == ListIInv /\ [ListNext]_listVars => ListIInv'
<1> SUFFICES ASSUME ListIInv, [ListNext]_listVars PROVE ListIInv'
  OBVIOUS
<1>1. /\ opened \in Conversations /\ top \in Nat /\ above \in Nat
      /\ arrived \in [Conversations -> Nat] /\ places \in [Conversations -> ListPlaces]
      /\ Bottom \in Nat
  BY BottomType DEF ListIInv, ListTypes
<1>2. ASSUME NEW n \in Nat,
             places' = IF restoring THEN places
                       ELSE [places EXCEPT ![opened] = [top |-> n, end |-> Bottom - n <= 1]]
      PROVE  /\ places' \in [Conversations -> ListPlaces]
             /\ \A c \in Conversations : c # opened \/ restoring => places'[c] = places[c]
             /\ ~restoring => places'[opened] = [top |-> n, end |-> Bottom - n <= 1]
  <2> DEFINE p == [top |-> n, end |-> Bottom - n <= 1]
  <2>1. p \in ListPlaces
    <3>1. (Bottom - n <= 1) \in BOOLEAN
      OBVIOUS
    <3>. QED  BY <3>1, PlaceHere
  <2> HIDE DEF p
  <2>2. places' = IF restoring THEN places ELSE [places EXCEPT ![opened] = p]
    BY <1>2 DEF p
  <2>3. /\ places' \in [Conversations -> ListPlaces]
        /\ \A c \in Conversations : c # opened \/ restoring => places'[c] = places[c]
        /\ ~restoring => places'[opened] = p
    BY <1>1, <2>1, <2>2
  <2>. QED  BY <2>3 DEF p
<1>3. CASE \E c \in Conversations : Opens(c)
  BY <1>3, OpensOn
<1>4. CASE Loads
  BY <1>4, LoadsOn
<1>5. CASE \E i \in DOMAIN restores : RestoreFires(i)
  BY <1>5, RestoresOn, EndsOn
<1>6. CASE ScrollsToBottom
  <2>1. /\ frames # {} /\ frames' = {} /\ top' = Bottom
        /\ UNCHANGED <<opened, ready, above, arrived, restores, restoring, wanted, stirred>>
    BY <1>6 DEF ScrollsToBottom, MoveTo
  <2>2. /\ places' \in [Conversations -> ListPlaces]
        /\ \A c \in Conversations : c # opened \/ restoring => places'[c] = places[c]
        /\ ~restoring => places'[opened] = [top |-> Bottom, end |-> Bottom - Bottom <= 1]
    <3>1. places' = IF restoring THEN places
                    ELSE [places EXCEPT ![opened] = [top |-> Bottom, end |-> Bottom - Bottom <= 1]]
      BY <1>6 DEF ScrollsToBottom, SaveCurrentScrollPosition
    <3>. QED  BY <1>1, <1>2, <3>1
  <2>3. Bottom' = Bottom /\ NearBottom' = (Bottom - Bottom <= 1)
    <3>1. Bottom' = Bottom
      BY <2>1, SameBottom
    <3>. QED  BY <2>1, <3>1 DEF NearBottom
  <2>4. ListTypes'
    BY <1>1, <2>1, <2>2 DEF ListIInv, ListTypes
  <2>5. PlaceKept'
    BY <2>1, <2>2, <2>3 DEF PlaceKept, SamePlace
  <2>6. AsLeft' /\ InTurn'
    BY <2>1, <2>2, StaysInTurn
  <2>7. There'
    <3>0. Bottom - Bottom <= 1
      BY <1>1
    <3>1. NearBottom' /\ Newest' = Newest
      BY <2>1, <2>3, <3>0, Zenon DEF Newest
    <3>. QED  BY <2>1, <3>1 DEF ListIInv, There
  <2>. QED  BY <2>4, <2>5, <2>6, <2>7 DEF ListIInv
<1>7. CASE ScrollEvent
  <2>1. UNCHANGED <<opened, ready, above, arrived, top, restores, restoring, wanted, stirred, frames>>
    BY <1>7 DEF ScrollEvent
  <2>2. /\ places' \in [Conversations -> ListPlaces]
        /\ \A c \in Conversations : c # opened \/ restoring => places'[c] = places[c]
        /\ ~restoring => places'[opened] = [top |-> top, end |-> Bottom - top <= 1]
    <3>1. places' = IF restoring THEN places
                    ELSE [places EXCEPT ![opened] = [top |-> top, end |-> Bottom - top <= 1]]
      BY <1>7 DEF ScrollEvent, SaveCurrentScrollPosition
    <3>. QED  BY <1>1, <1>2, <3>1
  <2>3. NearBottom' = (Bottom - top <= 1)
    BY <2>1, SameBottom DEF NearBottom
  <2>4. ListTypes'
    BY <1>1, <2>1, <2>2 DEF ListIInv, ListTypes
  <2>5. PlaceKept'
    BY <2>1, <2>2, <2>3 DEF PlaceKept, SamePlace
  <2>6. AsLeft' /\ InTurn'
    BY <2>1, <2>2, StaysInTurn DEF ListIInv, InTurn
  <2>7. There'
    BY <2>1, StaysThere
  <2>. QED  BY <2>4, <2>5, <2>6, <2>7 DEF ListIInv
<1>8. ASSUME UNCHANGED <<opened, ready, places, restores, restoring, wanted>>,
             above' \in Nat, ~ready => above' = 0, top' \in Nat,
             arrived' \in [Conversations -> Nat],
             restoring /\ ~stirred' =>
                ~stirred /\ UNCHANGED <<top, above, frames>> /\ arrived'[opened] = arrived[opened],
             \/ echo' \/ frames' # {} \/ above' # 0
             \/ /\ UNCHANGED <<above, top>> /\ arrived'[opened] = arrived[opened]
                /\ ~echo /\ frames = {}
      PROVE  ListIInv'
  <2>1. ListTypes'
    BY <1>8 DEF ListIInv, ListTypes
  <2>2. PlaceKept'
    <3> SUFFICES ASSUME ready', ~restoring', ~echo', frames' = {}, above' = 0
                 PROVE  SamePlace(places'[opened'], [top |-> top', end |-> NearBottom'])
      BY DEF PlaceKept
    <3>1. UNCHANGED <<above, top>> /\ arrived'[opened] = arrived[opened] /\ ~echo /\ frames = {}
      BY <1>8
    <3>2. NearBottom' = NearBottom
      BY <1>8, <3>1, SameBottom
    <3>. QED  BY <1>8, <3>1, <3>2 DEF ListIInv, PlaceKept
  <2>3. restoring /\ ~stirred' => frames' \subseteq {"restore"}
    BY <1>8 DEF ListIInv, InTurn
  <2>4. AsLeft' /\ InTurn'
    BY <1>8, <2>3, StaysInTurn
  <2>5. There'
    BY <1>8, StaysThere
  <2>. QED  BY <2>1, <2>2, <2>4, <2>5 DEF ListIInv
<1>9. CASE \E n \in 0 .. Bottom : Scrolls(n)
  <2>1. PICK n \in 0 .. Bottom : Scrolls(n)
    BY <1>9
  <2>2. /\ n # top /\ top' = n /\ echo' = (echo \/ n # top) /\ stirred' = TRUE
        /\ UNCHANGED <<opened, ready, above, arrived, places, restores, restoring, frames, wanted>>
    BY <2>1 DEF Scrolls, MoveTo
  <2>3. top' \in Nat
    BY <1>1, <2>2
  <2>4. echo'
    BY <2>2, Zenon
  <2>. QED  BY <1>1, <1>8, <2>2, <2>3, <2>4 DEF ListIInv, ListTypes
<1>10. CASE CheckScrollPosition
  BY <1>1, <1>8, <1>10 DEF CheckScrollPosition, ListIInv, ListTypes
<1>11. CASE OlderComes
  <2>1. /\ stirred' = TRUE
        /\ UNCHANGED <<opened, ready, arrived, places, restores, restoring, frames, wanted>>
    BY <1>11 DEF OlderComes
  <2>2. CASE ready /\ above = 0
    <3>1. above' = 2 /\ \E n \in {top, top + 2} : top' = n
      BY <1>11, <2>2 DEF OlderComes, MoveTo
    <3>. QED  BY <1>1, <1>8, <2>1, <2>2, <3>1
  <2>3. CASE ~(ready /\ above = 0)
    <3>1. UNCHANGED <<above, top, echo>>
      BY <1>11, <2>3 DEF OlderComes
    <3>. QED  BY <1>1, <1>8, <2>1, <3>1 DEF ListIInv, ListTypes
  <2>. QED  BY <2>2, <2>3
<1>12. CASE SendsMessage
  <2>1. /\ arrived' = [arrived EXCEPT ![opened] = @ + 1] /\ frames' = frames \cup {"asked"}
        /\ stirred' = TRUE
        /\ UNCHANGED <<opened, ready, above, top, places, restores, restoring, wanted>>
    BY <1>12 DEF SendsMessage, ScrollToBottom
  <2>2. arrived' \in [Conversations -> Nat] /\ frames' # {}
    BY <1>1, <2>1
  <2>. QED  BY <1>1, <1>8, <2>1, <2>2 DEF ListIInv, ListTypes
<1>13. CASE Jumps
  <2>1. /\ frames' = frames \cup {"asked"} /\ stirred' = TRUE
        /\ UNCHANGED <<opened, ready, above, arrived, top, places, restores, restoring, wanted>>
    BY <1>13 DEF Jumps, ScrollToBottom
  <2>. QED  BY <1>1, <1>8, <2>1 DEF ListIInv, ListTypes
<1>14. CASE \E c \in Conversations : MessageComes(c)
  <2>1. PICK c \in Conversations : MessageComes(c)
    BY <1>14
  <2>2. /\ arrived' = [arrived EXCEPT ![c] = @ + 1]
        /\ UNCHANGED <<opened, ready, above, top, places, restores, restoring, echo, wanted>>
    BY <2>1 DEF MessageComes
  <2>3. arrived' \in [Conversations -> Nat]
    BY <1>1, <2>2
  <2>4. CASE c = opened /\ ready
    <3>1. "news" \in frames' /\ stirred' = TRUE
      BY <2>1, <2>4 DEF MessageComes, ScrollToBottom
    <3>. QED  BY <1>1, <1>8, <2>2, <2>3, <3>1 DEF ListIInv, ListTypes
  <2>5. CASE c # opened
    <3>1. arrived'[opened] = arrived[opened] /\ UNCHANGED <<frames, stirred>>
      BY <1>1, <2>1, <2>2, <2>5 DEF MessageComes
    <3>. QED  BY <1>1, <1>8, <2>2, <2>3, <3>1 DEF ListIInv, ListTypes
  <2>6. CASE ~ready
    <3>1. UNCHANGED <<frames, stirred>>
      BY <2>1, <2>6 DEF MessageComes
    <3>2. ListTypes' /\ PlaceKept' /\ There'
      BY <2>2, <2>3, <2>6, <3>1 DEF ListIInv, ListTypes, PlaceKept, There
    <3>3. AsLeft' /\ InTurn'
      BY <2>2, <3>1, StaysInTurn DEF ListIInv, InTurn
    <3>. QED  BY <3>2, <3>3 DEF ListIInv
  <2>. QED  BY <2>4, <2>5, <2>6
<1>15. CASE TryFires
  <2>1. /\ frames \subseteq frames'
        /\ stirred' = (stirred \/ (restoring /\ frames' # frames))
        /\ UNCHANGED <<opened, ready, above, arrived, top, places, restores, restoring, echo, wanted>>
    BY <1>15 DEF TryFires
  <2>2. restoring /\ ~stirred' => ~stirred /\ frames' = frames
    BY <2>1
  <2>. QED  BY <1>1, <1>8, <2>1, <2>2 DEF ListIInv, ListTypes
<1>16. CASE UNCHANGED listVars
  BY <1>1, <1>8, <1>16 DEF listVars, ListIInv, ListTypes
<1>. QED
  BY <1>3, <1>4, <1>5, <1>6, <1>7, <1>9, <1>10, <1>11, <1>12, <1>13, <1>14, <1>15, <1>16
  DEF ListNext

\* For any number of conversations, timers and gestures: the restores that run
\* end in their order, the last one is that of the open conversation, and a
\* place is kept as it was left until its restore has ended
\* (restoreConversationScroll, restoreToken, saveCurrentScrollPosition).
THEOREM ListInvariance == ListSpec => []ListIInv
<1>. QED  BY ListBegins, ListGoesOn, PTL DEF ListSpec

\* Who comes back to a conversation whose messages arrive within the restore,
\* and does nothing meanwhile, finds the place that was left: over any number
\* of conversations opened in between, whose timers still run
\* (restoreConversationScroll, saveCurrentScrollPosition, updated).
THEOREM PlaceComesBack == ListSpec => PlaceRestored
<1> DEFINE A == restoring /\ ~restoring' /\ ~stirred /\ wanted'[opened] # Nowhere =>
                   IF wanted[opened].end THEN NearBottom \/ frames # {}
                   ELSE top = Least(wanted[opened].top, Bottom)
<1>1. ASSUME ListIInv, [ListNext]_listVars PROVE [A]_listVars
  <2> SUFFICES ASSUME restoring, ~restoring', ~stirred, wanted'[opened] # Nowhere
               PROVE  IF wanted[opened].end THEN NearBottom \/ frames # {}
                      ELSE top = Least(wanted[opened].top, Bottom)
    OBVIOUS
  <2>1. PICK i \in DOMAIN restores : RestoreFires(i)
    BY <1>1 DEF ListNext, listVars, Opens, Loads, RestoreConversationScroll, ScrollsToBottom,
       ScrollEvent, CheckScrollPosition, OlderComes, SendsMessage, Jumps, MessageComes, TryFires,
       Scrolls
  <2>2. ~(restores[i].left > 1)
    BY <2>1 DEF RestoreFires
  <2>3. restores[i].left = 1 /\ IsNewest(i) /\ (~ready => wanted'[opened] = Nowhere)
        /\ (ready => wanted' = wanted)
    <3>1. opened \in Conversations /\ wanted \in [Conversations -> ListPlaces]
      BY <1>1 DEF ListIInv, ListTypes
    <3>. QED  BY <1>1, <2>1, <2>2, <3>1, LastTimer
  <2>4. ready /\ wanted[opened] # Nowhere /\ Newest.left = 1
    BY <2>3 DEF IsNewest, Newest
  <2>5. Newest.place = places[opened] /\ SamePlace(places[opened], wanted[opened])
    BY <1>1, <2>4 DEF ListIInv, ListTypes, InTurn, AsLeft
  <2>6. IF Newest.place.end THEN NearBottom \/ frames # {}
        ELSE top = Least(Newest.place.top, Bottom) /\ frames = {}
    BY <1>1, <2>4 DEF ListIInv, There
  <2>. QED  BY <2>5, <2>6 DEF SamePlace
<1>. QED  BY <1>1, ListInvariance, PTL DEF ListSpec, PlaceRestored
===============================================================================
