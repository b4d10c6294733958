--------------------------- MODULE DeliveryProofs ---------------------------
(***************************************************************************)
(* Proofs about the sending side of federation, in two parts: the outbox   *)
(* and its workers (OutboxDelivery), for any rows, domains, workers and    *)
(* limits, then the websocket client the deliveries go out by              *)
(* (SessionClient), which never has two batches of a stream in flight and  *)
(* none without a session, for any calls, windows and losses.              *)
(***************************************************************************)
EXTENDS OutboxDelivery, SessionClient, FiniteSetTheorems, SequenceTheorems, TLAPS

\* What record_outbox_domain_success does to a row.
LEMMA SuccessFacts ==
  ASSUME NEW row \in Row, NEW r \in Rows, NEW d \in Domains
  PROVE  /\ Success(row, r, d) \in Row
         /\ Success(row, r, d).delivered = row.delivered \cup {d}
         /\ Success(row, r, d).status =
               IF row.delivered \cup {d} = TargetsOf[r] THEN "delivered" ELSE "pending"
<1>1. row.delivered \cup {d} \in SUBSET Domains /\ row.attempts + 1 \in Nat
  BY DEF Row
<1>2. (IF row.delivered \cup {d} = TargetsOf[r] THEN "delivered" ELSE "pending") \in Statuses
  BY DEF Statuses
<1>3. Success(row, r, d) \in Row
  BY <1>1, <1>2 DEF Success, Row
<1>4. Success(row, r, d).delivered = row.delivered \cup {d}
  BY DEF Success, Row
<1>5. Success(row, r, d).status =
         IF row.delivered \cup {d} = TargetsOf[r] THEN "delivered" ELSE "pending"
  BY DEF Success, Row
<1> QED
  BY <1>3, <1>4, <1>5

\* What record_outbox_domain_failure does to a row.
LEMMA FailureFacts ==
  ASSUME NEW row \in Row
  PROVE  /\ Failure(row) \in Row
         /\ Failure(row).delivered = row.delivered
         /\ Failure(row).attempts = row.attempts + 1
         /\ Failure(row).status =
               IF row.attempts + 1 >= MaxAttempts THEN "failed" ELSE "pending"
<1>1. row.attempts + 1 \in Nat
  BY DEF Row
<1>2. (IF row.attempts + 1 >= MaxAttempts THEN "failed" ELSE "pending") \in Statuses
  BY DEF Statuses
<1>3. Failure(row) \in Row
  BY <1>1, <1>2 DEF Failure, Row
<1>4. /\ Failure(row).delivered = row.delivered
      /\ Failure(row).attempts = row.attempts + 1
      /\ Failure(row).status =
            IF row.attempts + 1 >= MaxAttempts THEN "failed" ELSE "pending"
  BY DEF Failure, Row
<1> QED
  BY <1>3, <1>4

\* Setting one field of one row.
LEMMA SetDueFacts ==
  ASSUME NEW f \in [Rows -> Row], NEW r \in Rows
  PROVE  LET g == [f EXCEPT ![r].due = TRUE] IN
         /\ g \in [Rows -> Row]
         /\ \A q \in Rows : /\ g[q].delivered = f[q].delivered
                            /\ g[q].status = f[q].status
                            /\ g[q].attempts = f[q].attempts
                            /\ f[q].due => g[q].due
                            /\ q # r => g[q] = f[q]
         /\ g[r] = [f[r] EXCEPT !.due = TRUE]
<1> DEFINE g == [f EXCEPT ![r].due = TRUE]
<1>1. g = [f EXCEPT ![r] = [f[r] EXCEPT !.due = TRUE]]
  OBVIOUS
<1>2. [f[r] EXCEPT !.due = TRUE] \in Row
  BY DEF Row
<1>3. \A q \in Rows : q # r => g[q] = f[q]
  OBVIOUS
<1>4. /\ g[r].delivered = f[r].delivered
      /\ g[r].status = f[r].status
      /\ g[r].attempts = f[r].attempts
      /\ g[r].due = TRUE
  BY <1>1 DEF Row
<1>5. g \in [Rows -> Row]
  BY <1>1, <1>2
<1> QED
  BY <1>1, <1>3, <1>4, <1>5

LEMMA SetStatusFacts ==
  ASSUME NEW f \in [Rows -> Row], NEW r \in Rows, NEW s \in Statuses
  PROVE  LET g == [f EXCEPT ![r].status = s] IN
         /\ g \in [Rows -> Row]
         /\ g[r] = [f[r] EXCEPT !.status = s]
         /\ g[r].status = s
         /\ \A q \in Rows : /\ g[q].delivered = f[q].delivered
                            /\ q # r => g[q] = f[q]
<1> DEFINE g == [f EXCEPT ![r].status = s]
<1>1. g = [f EXCEPT ![r] = [f[r] EXCEPT !.status = s]]
  OBVIOUS
<1>2. [f[r] EXCEPT !.status = s] \in Row
  BY DEF Row
<1>3. \A q \in Rows : q # r => g[q] = f[q]
  OBVIOUS
<1>4. g[r].delivered = f[r].delivered /\ g[r].status = s
  BY <1>1 DEF Row
<1>5. g \in [Rows -> Row]
  BY <1>1, <1>2
<1> QED
  BY <1>1, <1>3, <1>4, <1>5

\* Batches and chunks are taken from the candidates.
LEMMA LowestSubset ==
  ASSUME NEW S, NEW k
  PROVE  Lowest(S, k) \subseteq S
BY DEF Lowest

\* Every action keeps the types.
LEMMA TypeStep ==
  ASSUME TypeOK, [Next]_vars
  PROVE  TypeOK'
<1> USE OutboxAssumption
<1>1. ASSUME NEW ok \in SUBSET Rows, NEW bad \in SUBSET Rows, NEW d \in Domains, Record(ok, bad, d)
      PROVE  view' \in [Rows -> Row]
  BY <1>1, SuccessFacts, FailureFacts DEF Record, TypeOK
<1>2. ASSUME NEW w \in Workers, Finish(w)
      PROVE  /\ job' \in [Workers -> Rows \cup {NoRow}]
             /\ held' \in [Workers -> SUBSET Rows]
             /\ todo' \in [Workers -> SUBSET Domains]
             /\ domain' \in [Workers -> Domains \cup {NoDomain}]
             /\ unsent' \in [Workers -> SUBSET Rows]
             /\ \A v \in Workers : unsent'[v] # {} => domain'[v] \in Domains
  BY <1>2 DEF Finish, TypeOK
<1>3. ASSUME NEW r \in Rows, Enqueue(r) PROVE TypeOK'
  <2>1. rows' = [rows EXCEPT ![r] = [rows[r] EXCEPT !.status = "pending", !.due = TRUE]]
    BY <1>3 DEF Enqueue
  <2>2. rows[r] \in Row /\ "pending" \in Statuses
    BY DEF TypeOK, Statuses
  <2>3. [rows[r] EXCEPT !.status = "pending", !.due = TRUE] \in Row
    BY <2>2 DEF Row
  <2>4. rows' \in [Rows -> Row] /\ view' \in [Rows -> Row]
    BY <2>1, <2>3, <1>3 DEF Enqueue, TypeOK
  <2> QED
    BY <1>3, <2>4 DEF Enqueue, workVars, TypeOK
<1>4. ASSUME NEW r \in Rows, BecomeDue(r) PROVE TypeOK'
  BY <1>4, SetDueFacts DEF BecomeDue, workVars, TypeOK
<1>5. ASSUME NEW r \in Rows, Prune(r) PROVE TypeOK'
  <2>1. "pruned" \in Statuses
    BY DEF Statuses
  <2> QED
    BY <1>5, <2>1, SetStatusFacts DEF Prune, workVars, TypeOK
<1>6. CASE EnqueueDue
  BY <1>6 DEF EnqueueDue, workVars, TypeOK
<1>7. ASSUME NEW w \in Workers, WorkerStep(w) PROVE TypeOK'
  <2>1. ASSUME NEW r \in Rows, TakeJob(w, r) PROVE TypeOK'
    BY <2>1 DEF TakeJob, TypeOK
  <2>2. CASE Discard(w)
    BY <2>2 DEF Discard, TypeOK
  <2>3. CASE LockRow(w)
    <3>1. job[w] \in Rows
      BY <2>3 DEF LockRow, Waiting, TypeOK
    <3>2. PendingDomains(job[w]) \in SUBSET Domains
      BY <3>1 DEF PendingDomains
    <3>3. view' \in [Rows -> Row]
      <4>1. CASE PendingDomains(job[w]) # {}
        BY <4>1, <2>3 DEF LockRow, TypeOK
      <4>2. CASE PendingDomains(job[w]) = {}
        <5> DEFINE r == job[w]
        <5>1. view' = [view EXCEPT ![r] = [view[r] EXCEPT !.status = "delivered", !.delivered = TargetsOf[r], !.due = TRUE]]
          BY <4>2, <2>3 DEF LockRow
        <5>2. TargetsOf[r] \in SUBSET Domains /\ view[r] \in Row /\ "delivered" \in Statuses
          BY <3>1 DEF TypeOK, Statuses
        <5>3. [view[r] EXCEPT !.status = "delivered", !.delivered = TargetsOf[r], !.due = TRUE] \in Row
          BY <5>2 DEF Row
        <5> QED
          BY <5>1, <5>3, <3>1 DEF TypeOK
      <4> QED
        BY <4>1, <4>2
    <3> QED
      BY <3>1, <3>2, <3>3, <2>3 DEF LockRow, TypeOK
  <2>4. ASSUME NEW d \in Domains, NEW known \in BOOLEAN, NEW ext \in BOOLEAN,
               StartDomain(w, d, known, ext)
        PROVE  TypeOK'
    <3> DEFINE batch == {job[w]} \cup Siblings(w, d)
    <3> DEFINE unsupported == IF ext THEN {} ELSE batch \cap ExtensionRows
    <3>1. batch \in SUBSET Rows
      BY <2>4, LowestSubset DEF StartDomain, Busy, TypeOK, Siblings
    <3>2. unsupported \in SUBSET Rows /\ batch \ unsupported \in SUBSET Rows
      BY <3>1
    <3>3. view' \in [Rows -> Row]
      BY <3>1, <3>2, <2>4, <1>1 DEF StartDomain
    <3>4. /\ held' = [held EXCEPT ![w] = @ \cup batch]
          /\ todo' = [todo EXCEPT ![w] = @ \ {d}]
          /\ UNCHANGED <<rows, jobs, job, crashes>>
      BY <2>4 DEF StartDomain
    <3>5. CASE known
      <4>1. /\ unsent' = [unsent EXCEPT ![w] = batch \ unsupported]
            /\ domain' = [domain EXCEPT ![w] = IF batch \ unsupported = {} THEN NoDomain ELSE d]
        BY <2>4, <3>5 DEF StartDomain
      <4> HIDE DEF batch, unsupported
      <4> QED
        BY <3>1, <3>2, <3>3, <3>4, <4>1 DEF TypeOK
    <3>6. CASE ~known
      <4>1. UNCHANGED <<unsent, domain>>
        BY <2>4, <3>6 DEF StartDomain
      <4> HIDE DEF batch, unsupported
      <4> QED
        BY <3>1, <3>2, <3>3, <3>4, <4>1 DEF TypeOK
    <3> QED
      BY <3>5, <3>6
  <2>5. ASSUME NEW ok \in SUBSET Rows, PushChunk(w, ok) PROVE TypeOK'
    <3>1. Chunk(w) \subseteq unsent[w]
      BY LowestSubset DEF Chunk
    <3>2. domain[w] \in Domains /\ Chunk(w) \in SUBSET Rows /\ Chunk(w) \ ok \in SUBSET Rows
      BY <2>5, <3>1 DEF PushChunk, PushResults, TypeOK
    <3>3. view' \in [Rows -> Row]
      BY <1>1, <2>5, <3>2 DEF PushChunk, PushResults
    <3> QED
      BY <2>5, <3>1, <3>2, <3>3 DEF PushChunk, PushResults, TypeOK
  <2>6. CASE Commit(w)
    BY <2>6, <1>2 DEF Commit, TypeOK
  <2> QED
    BY <1>7, <2>1, <2>2, <2>3, <2>4, <2>5, <2>6 DEF WorkerStep
<1>8. ASSUME NEW w \in Workers, Crash(w) PROVE TypeOK'
  BY <1>8, <1>2 DEF Crash, TypeOK
<1>9. CASE UNCHANGED vars
  BY <1>9 DEF vars, TypeOK
<1> QED
  BY <1>3, <1>4, <1>5, <1>6, <1>7, <1>8, <1>9 DEF Next

-----------------------------------------------------------------------------
\* Recording results for a domain that has not acknowledged these rows.
LEMMA RecordFacts ==
  ASSUME IInv, NEW ok \in SUBSET Rows, NEW bad \in SUBSET Rows, NEW d \in Domains,
         Record(ok, bad, d), rows' = rows,
         \A q \in ok \cup bad : d \in PendingDomains(q)
  PROVE  /\ StatusMeans'
         /\ ExhaustedPendingHasSuccess'
         /\ \A q \in Rows : /\ rows[q].delivered \subseteq view'[q].delivered
                            /\ view'[q].delivered \subseteq view[q].delivered \cup {d}
                            /\ q \notin ok => view'[q].delivered = view[q].delivered
                            /\ q \notin ok \cup bad => view'[q] = view[q]
<1> USE OutboxAssumption
<1>1. ASSUME NEW q \in ok
      PROVE  /\ view'[q] = Success(view[q], q, d)
             /\ view'[q].delivered = view[q].delivered \cup {d}
             /\ view'[q].status =
                   IF view[q].delivered \cup {d} = TargetsOf[q] THEN "delivered" ELSE "pending"
             /\ d \in TargetsOf[q]
  BY SuccessFacts DEF Record, IInv, TypeOK, PendingDomains
<1>2. ASSUME NEW q \in bad \ ok
      PROVE  /\ view'[q].delivered = view[q].delivered
             /\ view'[q].attempts = view[q].attempts + 1
             /\ view'[q].status =
                   IF view[q].attempts + 1 >= MaxAttempts THEN "failed" ELSE "pending"
             /\ d \in TargetsOf[q] /\ d \notin view[q].delivered
  BY FailureFacts DEF Record, IInv, TypeOK, PendingDomains
<1>3. ASSUME NEW q \in Rows, q \notin ok \cup bad PROVE view'[q] = view[q]
  BY <1>3 DEF Record
<1>4. \A q \in Rows : view[q] \in Row /\ view[q].attempts \in Nat
  BY DEF IInv, TypeOK, Row
<1>5. ASSUME NEW q \in Rows
      PROVE  /\ view'[q].status = "delivered" => view'[q].delivered = TargetsOf[q]
             /\ view'[q].status \in {"absent", "pending", "failed"} => view'[q].delivered # TargetsOf[q]
             /\ view'[q].status = "failed" => view'[q].attempts >= MaxAttempts
             /\ view'[q].status = "absent" => view'[q].attempts = 0
             /\ view'[q].delivered \subseteq TargetsOf[q]
  <2>1. CASE q \in ok
    <3>1. view[q].delivered \subseteq TargetsOf[q]
      BY DEF IInv, StatusMeans
    <3>2. /\ view'[q].delivered \subseteq TargetsOf[q]
          /\ view'[q].status = "delivered" <=> view'[q].delivered = TargetsOf[q]
          /\ view'[q].status \in {"delivered", "pending"}
      BY <2>1, <3>1, <1>1
    <3> QED
      BY <3>2
  <2>2. CASE q \in bad \ ok
    <3>1. view[q].delivered \subseteq TargetsOf[q]
      BY DEF IInv, StatusMeans
    <3>2. view'[q].delivered # TargetsOf[q] /\ view'[q].delivered \subseteq TargetsOf[q]
      BY <2>2, <3>1, <1>2
    <3>3. view'[q].status = "failed" => view'[q].attempts >= MaxAttempts
      BY <2>2, <1>2, <1>4
    <3>4. view'[q].status \in {"pending", "failed"}
      BY <2>2, <1>2
    <3> QED
      BY <3>2, <3>3, <3>4
  <2>3. CASE q \notin ok \cup bad
    BY <2>3, <1>3 DEF IInv, StatusMeans
  <2> QED
    BY <2>1, <2>2, <2>3
<1>6. StatusMeans'
  BY <1>5 DEF IInv, StatusMeans
<1>7. ASSUME NEW q \in Rows
      PROVE  view'[q].status = "pending" /\ view'[q].attempts >= MaxAttempts => view'[q].delivered # {}
  <2>1. CASE q \in ok
    BY <2>1, <1>1
  <2>2. CASE q \in bad \ ok
    BY <2>2, <1>2, <1>4
  <2>3. CASE q \notin ok \cup bad
    BY <2>3, <1>3 DEF IInv, ExhaustedPendingHasSuccess
  <2> QED
    BY <2>1, <2>2, <2>3
<1>8. ExhaustedPendingHasSuccess'
  BY <1>7 DEF IInv, ExhaustedPendingHasSuccess
<1>9. ASSUME NEW q \in Rows
      PROVE  /\ rows[q].delivered \subseteq view'[q].delivered
             /\ view'[q].delivered \subseteq view[q].delivered \cup {d}
             /\ q \notin ok => view'[q].delivered = view[q].delivered
  BY <1>1, <1>2, <1>3 DEF IInv, ViewAgrees
<1> QED
  BY <1>3, <1>6, <1>8, <1>9

\* A run that works on a batch it holds, for one of its pending domains,
\* keeps every part of the invariant.
LEMMA WorkKeeps ==
  ASSUME IInv, NEW w \in Workers, NEW d \in Domains,
         NEW batch \in SUBSET Rows, NEW ok \in SUBSET batch, NEW bad \in SUBSET batch,
         NEW T \in SUBSET (todo[w] \ {d}), NEW U \in SUBSET (batch \ (ok \cup bad)),
         Record(ok, bad, d), rows' = rows, job' = job,
         held' = [held EXCEPT ![w] = @ \cup batch],
         todo' = [todo EXCEPT ![w] = T],
         unsent' = [unsent EXCEPT ![w] = U],
         \A v \in Workers \ {w} : domain'[v] = domain[v],
         U # {} => domain'[w] = d,
         job[w] \in held[w],
         \A q \in batch : /\ d \in PendingDomains(q)
                          /\ rows[q].status = "pending" /\ rows[q].due,
         \A v \in Workers \ {w} : batch \cap held[v] = {}
  PROVE  /\ OneRunPerRow' /\ ViewAgrees' /\ RunShape' /\ StatusMeans'
         /\ ExhaustedPendingHasSuccess' /\ NothingPushedTwice'
<1>1. /\ StatusMeans'
      /\ ExhaustedPendingHasSuccess'
      /\ \A q \in Rows : /\ rows[q].delivered \subseteq view'[q].delivered
                         /\ view'[q].delivered \subseteq view[q].delivered \cup {d}
                         /\ q \notin ok => view'[q].delivered = view[q].delivered
                         /\ q \notin ok \cup bad => view'[q] = view[q]
  <2>1. ok \in SUBSET Rows /\ bad \in SUBSET Rows
    OBVIOUS
  <2>2. \A q \in ok \cup bad : d \in PendingDomains(q)
    OBVIOUS
  <2> QED
    BY ONLY IInv, <2>1, <2>2, Record(ok, bad, d), rows' = rows, d \in Domains, RecordFacts
<1>2. /\ held'[w] = held[w] \cup batch /\ todo'[w] = T /\ unsent'[w] = U
      /\ \A v \in Workers \ {w} : held'[v] = held[v] /\ todo'[v] = todo[v] /\ unsent'[v] = unsent[v]
  BY DEF IInv, TypeOK
<1>3. OneRunPerRow'
  <2>1. ASSUME NEW u \in Workers, NEW v \in Workers, u # v PROVE held'[u] \cap held'[v] = {}
    <3>1. held[u] \cap held[v] = {}
      BY <2>1 DEF IInv, OneRunPerRow
    <3>2. CASE u = w
      BY <2>1, <3>1, <3>2, <1>2
    <3>3. CASE v = w
      BY <2>1, <3>1, <3>3, <1>2
    <3>4. CASE u # w /\ v # w
      BY <3>1, <3>4, <1>2
    <3> QED
      BY <3>2, <3>3, <3>4
  <2>2. ASSUME NEW v \in Workers, NEW q \in held'[v]
        PROVE  rows[q].status = "pending" /\ rows[q].due
    BY <2>2, <1>2 DEF IInv, OneRunPerRow
  <2> QED
    BY <2>1, <2>2 DEF OneRunPerRow
<1>4. ViewAgrees'
  <2>1. ASSUME NEW q \in Rows, ~Locked(q)' PROVE view'[q] = rows[q]
    <3>1. ~Locked(q) /\ q \notin batch
      BY <2>1, <1>2 DEF Locked
    <3> QED
      BY <3>1, <1>1 DEF IInv, ViewAgrees
  <2> QED
    BY <2>1, <1>1 DEF IInv, ViewAgrees
<1>5. RunShape'
  <2>1. held[w] \subseteq Rows /\ job[w] \in Rows
    BY DEF IInv, TypeOK
  <2>2. T \subseteq PendingDomains(job[w])'
    BY <2>1, <1>1 DEF IInv, RunShape, PendingDomains
  <2>3. ASSUME NEW v \in Workers \ {w}
        PROVE  /\ held[v] # {} => job[v] \in held[v] /\ todo[v] \subseteq PendingDomains(job[v])'
               /\ unsent[v] \subseteq held[v]
               /\ unsent[v] # {} => domain[v] \notin todo[v]
    <3>1. held[v] # {} => job[v] \in Rows /\ job[v] \notin batch
      BY DEF IInv, RunShape, TypeOK
    <3>2. held[v] # {} => view'[job[v]] = view[job[v]]
      BY <3>1, <1>1
    <3> QED
      BY <3>2 DEF IInv, RunShape, PendingDomains
  <2> QED
    BY <1>2, <2>2, <2>3 DEF RunShape
<1>6. NothingPushedTwice'
  <2>1. ASSUME NEW q \in U PROVE domain'[w] \in TargetsOf[q] \ view'[q].delivered
    BY <1>1 DEF PendingDomains
  <2>2. ASSUME NEW v \in Workers \ {w}, NEW q \in unsent[v]
        PROVE  domain[v] \in TargetsOf[q] \ view'[q].delivered
    <3>1. q \in Rows /\ q \notin batch
      BY DEF IInv, RunShape, TypeOK
    <3> QED
      BY <3>1, <1>1 DEF IInv, NothingPushedTwice
  <2> QED
    BY <1>2, <2>1, <2>2 DEF NothingPushedTwice
<1> QED
  BY <1>1, <1>3, <1>4, <1>5, <1>6

-----------------------------------------------------------------------------
\* Ending a run, with its writes or without.
LEMMA FinishKeeps ==
  ASSUME IInv, NEW w \in Workers, Commit(w) \/ Crash(w)
  PROVE  /\ OneRunPerRow' /\ ViewAgrees' /\ RunShape' /\ StatusMeans'
         /\ ExhaustedPendingHasSuccess' /\ NothingPushedTwice'
<1>1. /\ held'[w] = {} /\ unsent'[w] = {}
      /\ \A v \in Workers \ {w} : /\ held'[v] = held[v] /\ todo'[v] = todo[v] /\ job'[v] = job[v]
                                  /\ unsent'[v] = unsent[v] /\ domain'[v] = domain[v]
  BY DEF Commit, Crash, Finish, IInv, TypeOK
<1>2. \A q \in Rows \ held[w] : rows'[q] = rows[q] /\ view'[q] = view[q]
  BY DEF Commit, Crash
<1>3. \A q \in held[w] : q \in Rows /\ rows'[q] = view'[q] /\ rows'[q] \in {rows[q], view[q]}
  BY DEF Commit, Crash, IInv, TypeOK
<1>4. \A v \in Workers \ {w} : held[v] \subseteq Rows \ held[w]
  BY DEF IInv, OneRunPerRow, TypeOK
<1>5. OneRunPerRow'
  BY <1>1, <1>2, <1>4 DEF IInv, OneRunPerRow
<1>6. ViewAgrees'
  <2>2. ASSUME NEW q \in Rows \ held[w], ~Locked(q)' PROVE ~Locked(q)
    BY <2>2, <1>1 DEF Locked
  <2> QED
    BY <2>2, <1>2, <1>3 DEF IInv, ViewAgrees
<1>7. RunShape'
  BY <1>1, <1>2, <1>4 DEF IInv, RunShape, PendingDomains
<1>8. StatusMeans' /\ ExhaustedPendingHasSuccess'
  BY <1>2, <1>3 DEF IInv, StatusMeans, ExhaustedPendingHasSuccess
<1>9. NothingPushedTwice'
  BY <1>1, <1>2, <1>4 DEF IInv, NothingPushedTwice, RunShape
<1> QED
  BY <1>5, <1>6, <1>7, <1>8, <1>9

\* Steps of a worker inside its run.
LEMMA WorkerKeeps ==
  ASSUME IInv, TypeOK', NEW w \in Workers, WorkerStep(w)
  PROVE  /\ OneRunPerRow' /\ ViewAgrees' /\ RunShape' /\ StatusMeans'
         /\ ExhaustedPendingHasSuccess' /\ NothingPushedTwice'
<1> USE OutboxAssumption
<1>1. ASSUME NEW r \in Rows, TakeJob(w, r)
      PROVE  /\ OneRunPerRow' /\ ViewAgrees' /\ RunShape' /\ StatusMeans'
             /\ ExhaustedPendingHasSuccess' /\ NothingPushedTwice'
  <2>1. held[w] = {}
    BY <1>1 DEF TakeJob, IInv, RunShape, TypeOK
  <2>2. \A v \in Workers \ {w} : job'[v] = job[v]
    BY <1>1 DEF TakeJob, IInv, TypeOK
  <2>3. RunShape'
    BY <1>1, <2>1, <2>2 DEF TakeJob, IInv, RunShape, PendingDomains
  <2> QED
    BY <1>1, <2>3 DEF TakeJob, IInv, OneRunPerRow, ViewAgrees, Locked, StatusMeans,
                      ExhaustedPendingHasSuccess, NothingPushedTwice
<1>2. CASE Discard(w)
  <2>1. held[w] = {}
    BY <1>2 DEF Discard, Waiting, IInv, RunShape, TypeOK
  <2>2. \A v \in Workers \ {w} : job'[v] = job[v]
    BY <1>2 DEF Discard, IInv, TypeOK
  <2>3. RunShape'
    BY <1>2, <2>1, <2>2 DEF Discard, IInv, RunShape, PendingDomains
  <2> QED
    BY <1>2, <2>3 DEF Discard, IInv, OneRunPerRow, ViewAgrees, Locked, StatusMeans,
                      ExhaustedPendingHasSuccess, NothingPushedTwice
<1>3. CASE LockRow(w)
  <2> DEFINE r == job[w]
  <2>1. r \in Rows /\ held[w] = {} /\ ~Locked(r) /\ view[r] = rows[r]
    BY <1>3 DEF LockRow, Waiting, IInv, RunShape, ViewAgrees, TypeOK
  <2>2. view[r].status = "pending" /\ view[r].due
    BY <1>3 DEF LockRow, Open
  <2>3. PendingDomains(r) # {}
    BY <2>1, <2>2 DEF IInv, StatusMeans, PendingDomains
  <2>4. /\ view' = view /\ rows' = rows /\ job' = job /\ unsent' = unsent /\ domain' = domain
        /\ held' = [held EXCEPT ![w] = {r}]
        /\ todo' = [todo EXCEPT ![w] = PendingDomains(r)]
    BY <1>3, <2>3 DEF LockRow
  <2>5. /\ held'[w] = {r} /\ todo'[w] = PendingDomains(r)
        /\ \A v \in Workers \ {w} : held'[v] = held[v] /\ todo'[v] = todo[v]
    BY <2>4 DEF IInv, TypeOK
  <2>6. OneRunPerRow'
    BY <2>1, <2>2, <2>4, <2>5 DEF IInv, OneRunPerRow, Locked
  <2>7. ViewAgrees'
    BY <2>4, <2>5, <2>1 DEF IInv, ViewAgrees, Locked
  <2>8. RunShape'
    <3>1. unsent[w] = {}
      BY <2>1 DEF IInv, RunShape
    <3> QED
      BY <3>1, <2>4, <2>5 DEF IInv, RunShape, PendingDomains
  <2> QED
    BY <2>4, <2>6, <2>7, <2>8 DEF IInv, StatusMeans, ExhaustedPendingHasSuccess, NothingPushedTwice
<1>4. ASSUME NEW d \in Domains, NEW known \in BOOLEAN, NEW ext \in BOOLEAN,
             StartDomain(w, d, known, ext)
      PROVE  /\ OneRunPerRow' /\ ViewAgrees' /\ RunShape' /\ StatusMeans'
             /\ ExhaustedPendingHasSuccess' /\ NothingPushedTwice'
  <2> DEFINE batch == {job[w]} \cup Siblings(w, d)
  <2> DEFINE unsupported == IF ext THEN {} ELSE batch \cap ExtensionRows
  <2>1. job[w] \in held[w] /\ job[w] \in Rows /\ d \in todo[w] /\ unsent[w] = {}
    BY <1>4 DEF StartDomain, Busy, IInv, TypeOK
  <2>2. \A s \in Siblings(w, d) :
           /\ s \in Rows /\ d \in PendingDomains(s)
           /\ view[s].status = "pending" /\ view[s].due
           /\ \A v \in Workers \ {w} : s \notin held[v]
    BY LowestSubset DEF Siblings, Open
  <2>3. \A s \in Siblings(w, d) : rows[s].status = "pending" /\ rows[s].due
    <3> SUFFICES ASSUME NEW s \in Siblings(w, d) PROVE rows[s].status = "pending" /\ rows[s].due
      OBVIOUS
    <3>1. CASE s \in held[w]
      BY <3>1 DEF IInv, OneRunPerRow
    <3>2. CASE s \notin held[w]
      BY <3>2, <2>2 DEF IInv, ViewAgrees, Locked
    <3> QED
      BY <3>1, <3>2
  <2>4. /\ batch \in SUBSET Rows
        /\ \A q \in batch : d \in PendingDomains(q) /\ rows[q].status = "pending" /\ rows[q].due
        /\ \A v \in Workers \ {w} : batch \cap held[v] = {}
    BY <2>1, <2>2, <2>3 DEF IInv, RunShape, OneRunPerRow
  <2>5. /\ rows' = rows /\ job' = job
        /\ held' = [held EXCEPT ![w] = @ \cup batch]
        /\ todo' = [todo EXCEPT ![w] = todo[w] \ {d}]
    BY <1>4 DEF StartDomain
  <2>6. CASE known
    <3>1. /\ Record(unsupported, {}, d)
          /\ unsent' = [unsent EXCEPT ![w] = batch \ unsupported]
          /\ domain' = [domain EXCEPT ![w] = IF batch \ unsupported = {} THEN NoDomain ELSE d]
      BY <1>4, <2>6 DEF StartDomain
    <3>2. unsupported \in SUBSET batch
      OBVIOUS
    <3> HIDE DEF batch, unsupported
    <3>3. /\ \A v \in Workers \ {w} : domain'[v] = domain[v]
          /\ batch \ unsupported # {} => domain'[w] = d
      BY <3>1 DEF IInv, TypeOK
    <3>4. {} \in SUBSET batch /\ batch \ unsupported \in SUBSET (batch \ (unsupported \cup {}))
      OBVIOUS
    <3> QED
      BY <2>1, <2>4, <2>5, <3>1, <3>2, <3>3, <3>4, WorkKeeps
  <2>7. CASE ~known
    <3>1. Record({}, batch, d) /\ unsent' = unsent /\ domain' = domain
      BY <1>4, <2>7 DEF StartDomain
    <3>2. unsent' = [unsent EXCEPT ![w] = {}]
      BY <2>1, <3>1 DEF IInv, TypeOK
    <3> HIDE DEF batch, unsupported
    <3> DEFINE none == {}
    <3>3. none \in SUBSET batch /\ batch \in SUBSET batch /\ none \in SUBSET (batch \ (none \cup batch))
      OBVIOUS
    <3>4. \A v \in Workers \ {w} : domain'[v] = domain[v]
      BY <3>1
    <3>5. none # {} => domain'[w] = d
      OBVIOUS
    <3>6. todo[w] \ {d} \in SUBSET (todo[w] \ {d})
      OBVIOUS
    <3>7. Record(none, batch, d) /\ unsent' = [unsent EXCEPT ![w] = none]
      BY <3>1, <3>2
    <3> HIDE DEF none
    <3> QED
      BY <2>1, <2>4, <2>5, <3>3, <3>4, <3>5, <3>6, <3>7, WorkKeeps
  <2> QED
    BY <2>6, <2>7
<1>5. ASSUME NEW ok \in SUBSET Rows, PushChunk(w, ok)
      PROVE  /\ OneRunPerRow' /\ ViewAgrees' /\ RunShape' /\ StatusMeans'
             /\ ExhaustedPendingHasSuccess' /\ NothingPushedTwice'
  <2> DEFINE d == domain[w]
  <2> DEFINE batch == unsent[w]
  <2> DEFINE chunk == Chunk(w)
  <2> DEFINE bad == chunk \ ok
  <2> DEFINE rest == IF ok = chunk THEN unsent[w] \ chunk ELSE {}
  <2> DEFINE left == todo[w]
  <2>1. /\ job[w] \in held[w] /\ batch # {} /\ ok \subseteq chunk
        /\ Record(ok, bad, d)
        /\ rows' = rows /\ job' = job /\ held' = held /\ todo' = todo
        /\ unsent' = [unsent EXCEPT ![w] = rest]
        /\ domain' = [domain EXCEPT ![w] = IF rest = {} THEN NoDomain ELSE @]
    BY <1>5 DEF PushChunk, PushResults, Busy
  <2>2. d \in Domains /\ d \notin todo[w] /\ batch \subseteq held[w] /\ batch \in SUBSET Rows
    BY <2>1 DEF IInv, TypeOK, RunShape
  <2>3. chunk \subseteq batch
    BY LowestSubset DEF Chunk
  <2>4. /\ ok \in SUBSET batch /\ bad \in SUBSET batch
        /\ rest \in SUBSET (batch \ (ok \cup bad))
        /\ left \in SUBSET (todo[w] \ {d})
    BY <2>1, <2>2, <2>3
  <2>5. /\ \A q \in batch : d \in PendingDomains(q) /\ rows[q].status = "pending" /\ rows[q].due
        /\ \A v \in Workers \ {w} : batch \cap held[v] = {}
    BY <2>2 DEF IInv, NothingPushedTwice, OneRunPerRow, PendingDomains
  <2>6. /\ held' = [held EXCEPT ![w] = @ \cup batch]
        /\ todo' = [todo EXCEPT ![w] = left]
    <3>1. held[w] \cup batch = held[w]
      BY <2>2
    <3> HIDE DEF batch
    <3> QED
      BY <2>1, <3>1 DEF IInv, TypeOK
  <2>7. /\ \A v \in Workers \ {w} : domain'[v] = domain[v]
        /\ rest # {} => domain'[w] = d
    BY <2>1 DEF IInv, TypeOK
  <2>8. /\ job[w] \in held[w] /\ Record(ok, bad, d) /\ rows' = rows /\ job' = job
        /\ unsent' = [unsent EXCEPT ![w] = rest]
    BY <2>1
  <2>9. d \in Domains /\ batch \in SUBSET Rows
    BY <2>2
  <2> HIDE DEF batch, chunk, bad, rest, left, d
  <2> QED
    BY ONLY IInv, w \in Workers, <2>4, <2>5, <2>6, <2>7, <2>8, <2>9, WorkKeeps
<1>6. CASE Commit(w)
  BY <1>6, FinishKeeps
<1> QED
  BY <1>1, <1>2, <1>3, <1>4, <1>5, <1>6 DEF WorkerStep

\* Steps that only concern one unlocked row, or the clock.
LEMMA RowKeeps ==
  ASSUME IInv, NEW r \in Rows, Enqueue(r) \/ BecomeDue(r) \/ Prune(r)
  PROVE  /\ OneRunPerRow' /\ ViewAgrees' /\ RunShape' /\ StatusMeans'
         /\ ExhaustedPendingHasSuccess' /\ NothingPushedTwice'
<1> USE OutboxAssumption
<1>1. /\ UNCHANGED workVars
      /\ rows \in [Rows -> Row] /\ view \in [Rows -> Row]
  BY DEF Enqueue, BecomeDue, Prune, IInv, TypeOK
<1>2. /\ \A q \in Rows : rows'[q].delivered = rows[q].delivered /\ view'[q].delivered = view[q].delivered
      /\ \A q \in Rows \ {r} : rows'[q] = rows[q] /\ view'[q] = view[q]
      /\ view[r] = rows[r] => view'[r] = rows'[r]
      /\ \A q \in Rows : Locked(q) => rows'[q].status = rows[q].status /\ (rows[q].due => rows'[q].due)
      /\ \A row \in {rows'[r], view'[r]} :
            /\ row.status = "delivered" => row.delivered = TargetsOf[r]
            /\ row.status \in {"absent", "pending", "failed"} => row.delivered # TargetsOf[r]
            /\ row.status = "failed" => row.attempts >= MaxAttempts
            /\ row.status = "absent" => row.attempts = 0
            /\ row.status = "pending" /\ row.attempts >= MaxAttempts => row.delivered # {}
  <2>1. CASE Enqueue(r)
    <3>1. rows[r].status = "absent" /\ ~Locked(r) /\ view[r] = rows[r]
      BY <2>1 DEF Enqueue, IInv, OneRunPerRow, ViewAgrees, Locked
    <3>2. rows' = [rows EXCEPT ![r] = [rows[r] EXCEPT !.status = "pending", !.due = TRUE]]
      BY <2>1 DEF Enqueue
    <3>3. rows'[r] = [rows[r] EXCEPT !.status = "pending", !.due = TRUE] /\ view'[r] = rows'[r]
      BY <3>2, <2>1, <1>1 DEF Enqueue
    <3>4. /\ rows'[r].delivered = rows[r].delivered
          /\ rows'[r].status = "pending"
          /\ rows'[r].attempts = rows[r].attempts
      BY <3>3, <1>1 DEF Row
    <3>5. rows[r].delivered # TargetsOf[r] /\ rows[r].attempts = 0
      BY <3>1 DEF IInv, StatusMeans
    <3>6. \A q \in Rows \ {r} : rows'[q] = rows[q] /\ view'[q] = view[q]
      BY <2>1, <1>1 DEF Enqueue
    <3>7. /\ view'[r].delivered = view[r].delivered
          /\ view'[r].status = "pending"
          /\ view'[r].attempts = 0
      BY <3>1, <3>3, <3>4, <3>5
    <3>8. \A q \in Rows : Locked(q) => q # r
      BY <3>1
    <3>9. 0 < MaxAttempts /\ ~(0 >= MaxAttempts)
      OBVIOUS
    <3> QED
      BY <3>3, <3>4, <3>5, <3>6, <3>7, <3>8, <3>9
  <2>2. CASE BecomeDue(r)
    <3>1. rows' = [rows EXCEPT ![r].due = TRUE] /\ view' = [view EXCEPT ![r].due = TRUE]
      BY <2>2 DEF BecomeDue
    <3>2. /\ \A q \in Rows : /\ rows'[q].delivered = rows[q].delivered
                             /\ rows'[q].status = rows[q].status
                             /\ rows'[q].attempts = rows[q].attempts
                             /\ rows[q].due => rows'[q].due
                             /\ q # r => rows'[q] = rows[q]
          /\ rows'[r] = [rows[r] EXCEPT !.due = TRUE]
      BY <3>1, <1>1, SetDueFacts
    <3>3. /\ \A q \in Rows : /\ view'[q].delivered = view[q].delivered
                             /\ view'[q].status = view[q].status
                             /\ view'[q].attempts = view[q].attempts
                             /\ q # r => view'[q] = view[q]
          /\ view'[r] = [view[r] EXCEPT !.due = TRUE]
      BY <3>1, <1>1, SetDueFacts
    <3>4. view[r] = rows[r] => view'[r] = rows'[r]
      BY <3>2, <3>3
    <3>5. \A row \in {rows'[r], view'[r]} :
            /\ row.status = "delivered" => row.delivered = TargetsOf[r]
            /\ row.status \in {"absent", "pending", "failed"} => row.delivered # TargetsOf[r]
            /\ row.status = "failed" => row.attempts >= MaxAttempts
            /\ row.status = "absent" => row.attempts = 0
            /\ row.status = "pending" /\ row.attempts >= MaxAttempts => row.delivered # {}
      <4>1. \A row \in {rows[r], view[r]} :
              /\ row.status = "delivered" => row.delivered = TargetsOf[r]
              /\ row.status \in {"absent", "pending", "failed"} => row.delivered # TargetsOf[r]
              /\ row.status = "failed" => row.attempts >= MaxAttempts
              /\ row.status = "absent" => row.attempts = 0
              /\ row.status = "pending" /\ row.attempts >= MaxAttempts => row.delivered # {}
        BY DEF IInv, StatusMeans, ExhaustedPendingHasSuccess
      <4>2. /\ rows'[r].delivered = rows[r].delivered /\ view'[r].delivered = view[r].delivered
            /\ rows'[r].status = rows[r].status /\ view'[r].status = view[r].status
            /\ rows'[r].attempts = rows[r].attempts /\ view'[r].attempts = view[r].attempts
        BY <3>2, <3>3
      <4> QED
        BY ONLY <4>1, <4>2
    <3> QED
      BY <3>2, <3>3, <3>4, <3>5
  <2>3. CASE Prune(r)
    <3>1. ~Locked(r) /\ view[r] = rows[r] /\ "pruned" \in Statuses
      BY <2>3 DEF Prune, IInv, ViewAgrees, Statuses
    <3>2. rows' = [rows EXCEPT ![r].status = "pruned"] /\ view' = [view EXCEPT ![r].status = "pruned"]
      BY <2>3 DEF Prune
    <3>3. /\ rows'[r] = [rows[r] EXCEPT !.status = "pruned"]
          /\ rows'[r].status = "pruned"
          /\ \A q \in Rows : rows'[q].delivered = rows[q].delivered /\ (q # r => rows'[q] = rows[q])
      BY <3>1, <3>2, <1>1, SetStatusFacts
    <3>4. /\ view'[r] = [view[r] EXCEPT !.status = "pruned"]
          /\ view'[r].status = "pruned"
          /\ \A q \in Rows : view'[q].delivered = view[q].delivered /\ (q # r => view'[q] = view[q])
      BY <3>1, <3>2, <1>1, SetStatusFacts
    <3> QED
      BY <3>1, <3>3, <3>4
  <2> QED
    BY <2>1, <2>2, <2>3
<1>3. \A q \in Rows : Locked(q)' <=> Locked(q)
  BY <1>1 DEF workVars, Locked
<1>4. OneRunPerRow'
  <2>1. \A w \in Workers : \A q \in held[w] : q \in Rows /\ Locked(q)
    BY DEF IInv, TypeOK, Locked
  <2> QED
    BY <2>1, <1>1, <1>2 DEF IInv, OneRunPerRow, workVars
<1>5. ViewAgrees'
  BY <1>2, <1>3 DEF IInv, ViewAgrees
<1>6. RunShape'
  <2>1. \A w \in Workers : held[w] # {} => job[w] \in Rows
    BY DEF IInv, RunShape, TypeOK
  <2> QED
    BY <2>1, <1>1, <1>2 DEF IInv, RunShape, PendingDomains, workVars
<1>7. StatusMeans' /\ ExhaustedPendingHasSuccess'
  BY <1>2 DEF IInv, StatusMeans, ExhaustedPendingHasSuccess
<1>8. NothingPushedTwice'
  <2>1. \A w \in Workers : unsent[w] \subseteq Rows
    BY DEF IInv, TypeOK
  <2> QED
    BY <2>1, <1>1, <1>2 DEF IInv, NothingPushedTwice, workVars
<1> QED
  BY <1>4, <1>5, <1>6, <1>7, <1>8

-----------------------------------------------------------------------------
\* The empty outbox satisfies the invariant.
LEMMA InitIInv == Init => IInv
<1> SUFFICES ASSUME Init PROVE IInv
  OBVIOUS
<1> USE OutboxAssumption
<1> DEFINE blank == [status |-> "absent", delivered |-> {}, attempts |-> 0, due |-> FALSE]
<1>1. blank \in Row
  BY DEF Row, Statuses
<1>2. rows = [r \in Rows |-> blank] /\ view = rows
  BY DEF Init
<1>3. \A r \in Rows : view[r] = rows[r] /\ rows[r].status = "absent" /\ rows[r].delivered = {} /\ rows[r].attempts = 0
  BY <1>2
<1>4. TypeOK
  BY <1>1, <1>2 DEF Init, TypeOK
<1>5. OneRunPerRow /\ ViewAgrees /\ RunShape /\ NothingPushedTwice
  BY <1>3 DEF Init, OneRunPerRow, ViewAgrees, RunShape, NothingPushedTwice
<1>6. StatusMeans /\ ExhaustedPendingHasSuccess
  BY <1>3 DEF StatusMeans, ExhaustedPendingHasSuccess
<1> QED
  BY <1>4, <1>5, <1>6 DEF IInv

\* The invariant is inductive.
LEMMA IInvStep == IInv /\ [Next]_vars => IInv'
<1> SUFFICES ASSUME IInv, [Next]_vars PROVE IInv'
  OBVIOUS
<1>1. TypeOK'
  BY TypeStep DEF IInv
<1>2. ASSUME NEW w \in Workers, WorkerStep(w) PROVE IInv'
  BY <1>1, <1>2, WorkerKeeps DEF IInv
<1>3. ASSUME NEW w \in Workers, Crash(w) PROVE IInv'
  BY <1>1, <1>3, FinishKeeps DEF IInv
<1>4. ASSUME NEW r \in Rows, Enqueue(r) \/ BecomeDue(r) \/ Prune(r) PROVE IInv'
  BY <1>1, <1>4, RowKeeps DEF IInv
<1>5. CASE EnqueueDue \/ UNCHANGED vars
  <2>1. UNCHANGED <<rows, view, job, held, todo, domain, unsent>>
    BY <1>5 DEF EnqueueDue, workVars, vars
  <2> QED
    BY <2>1, <1>1 DEF IInv, OneRunPerRow, ViewAgrees, Locked, RunShape, PendingDomains, StatusMeans,
                      ExhaustedPendingHasSuccess, NothingPushedTwice
<1> QED
  BY <1>2, <1>3, <1>4, <1>5 DEF Next

\* The inductive invariant holds of every reachable state of the outbox.
THEOREM Invariance == Spec => []IInv
BY InitIInv, IInvStep, PTL DEF Spec

\* However many workers run, crash and are started twice for one row, no two
\* of them work on it at a time.
THEOREM Exclusion == Spec => []OneRunPerRow
BY Invariance, PTL DEF IInv

\* delivered means acknowledged by every target domain, failed that the retry
\* budget is used up.
THEOREM StatusIsTruthful == Spec => []StatusMeans
BY Invariance, PTL DEF IInv

\* No event is pushed to a domain that is recorded as having it.
THEOREM NoRepeatedPush == Spec => []NothingPushedTwice
BY Invariance, PTL DEF IInv

\* A committed acknowledgement is never taken back.
THEOREM AcksKept == Spec => AcksNeverLost
<1>1. IInv /\ [Next]_vars => [\A r \in Rows : rows[r].delivered \subseteq rows'[r].delivered]_vars
  <2> SUFFICES ASSUME IInv, Next, NEW q \in Rows PROVE rows[q].delivered \subseteq rows'[q].delivered
    BY DEF vars
  <2>1. rows \in [Rows -> Row] /\ rows[q].delivered \subseteq view[q].delivered
    BY DEF IInv, TypeOK, ViewAgrees
  <2>2. ASSUME NEW w \in Workers, WorkerStep(w) \/ Crash(w) PROVE rows[q].delivered \subseteq rows'[q].delivered
    BY <2>1, <2>2 DEF WorkerStep, TakeJob, Discard, LockRow, StartDomain, PushChunk, PushResults, Commit, Crash
  <2>3. ASSUME NEW r \in Rows, Enqueue(r) \/ BecomeDue(r) \/ Prune(r) PROVE rows'[q].delivered = rows[q].delivered
    <3>1. CASE Enqueue(r)
      <4>1. rows' = [rows EXCEPT ![r] = [rows[r] EXCEPT !.status = "pending", !.due = TRUE]]
        BY <3>1 DEF Enqueue
      <4> QED
        BY <4>1, <2>1 DEF Row
    <3>2. CASE BecomeDue(r)
      BY <3>2, <2>1, SetDueFacts DEF BecomeDue
    <3>3. CASE Prune(r)
      <4>1. "pruned" \in Statuses
        BY DEF Statuses
      <4> QED
        BY <3>3, <4>1, <2>1, SetStatusFacts DEF Prune
    <3> QED
      BY <2>3, <3>1, <3>2, <3>3
  <2>4. CASE EnqueueDue
    BY <2>4 DEF EnqueueDue
  <2> QED
    BY <2>2, <2>3, <2>4 DEF Next
<1> QED
  BY <1>1, Invariance, PTL DEF Spec, AcksNeverLost

\* delivered and failed are final until retention deletes the row.
THEOREM TerminalKept == Spec => TerminalIsFinal
<1>1. IInv /\ [Next]_vars =>
        [\A r \in Rows :
           rows[r].status \in {"delivered", "failed"} =>
               rows'[r] \in {rows[r], [rows[r] EXCEPT !.status = "pruned"]}]_vars
  <2> SUFFICES ASSUME IInv, Next, NEW q \in Rows, rows[q].status \in {"delivered", "failed"}
               PROVE  rows'[q] \in {rows[q], [rows[q] EXCEPT !.status = "pruned"]}
    BY DEF vars
  <2>1. rows \in [Rows -> Row] /\ ~Locked(q) /\ view[q] = rows[q]
    BY DEF IInv, TypeOK, OneRunPerRow, ViewAgrees, Locked
  <2>2. ASSUME NEW w \in Workers, WorkerStep(w) \/ Crash(w) PROVE rows'[q] = rows[q]
    BY <2>1, <2>2 DEF WorkerStep, TakeJob, Discard, LockRow, StartDomain, PushChunk, PushResults, Commit, Crash, Locked
  <2>3. ASSUME NEW r \in Rows, Enqueue(r) \/ BecomeDue(r) PROVE rows'[q] = rows[q]
    BY <2>1, <2>3 DEF Enqueue, BecomeDue
  <2>4. ASSUME NEW r \in Rows, Prune(r)
        PROVE  rows'[q] \in {rows[q], [rows[q] EXCEPT !.status = "pruned"]}
    <3>1. "pruned" \in Statuses
      BY DEF Statuses
    <3> QED
      BY <2>1, <2>4, <3>1, SetStatusFacts DEF Prune
  <2>5. CASE EnqueueDue
    BY <2>5 DEF EnqueueDue
  <2> QED
    BY <2>2, <2>3, <2>4, <2>5 DEF Next
<1> QED
  BY <1>1, Invariance, PTL DEF Spec, TerminalIsFinal

\* A pending row without an attempt left has been acknowledged by some domain:
\* failures alone end a row as failed.
THEOREM StuckHasSuccess == Spec => []ExhaustedPendingHasSuccess
BY Invariance, PTL DEF IInv
-----------------------------------------------------------------------------
(* SessionClient: two batches in flight are of different streams.          *)
Separate(S) == \A c, d \in S : c # d => StreamOf[c] # StreamOf[d] \/ StreamOf[c] = NoStream

FlowIInv ==
    /\ queue \in Seq(Deliveries)
    /\ pending \subseteq Deliveries
    /\ inflight_streams = Streams(pending)
    /\ OnePerStream

-----------------------------------------------------------------------------
\* A set of numbers up to n that contains 0, and with a number all below it,
\* has a greatest element: its cardinality less one.
LEMMA InitialSegmentMax ==
  ASSUME NEW n \in Nat, NEW K \in SUBSET (0 .. n), 0 \in K,
         \A k \in K : \A j \in 0 .. k : j \in K
  PROVE  Max(K) \in K /\ \A k \in K : k <= Max(K)
<1>1. IsFiniteSet(0 .. n) /\ \A m \in 0 .. n : IsFiniteSet(0 .. m) /\ Cardinality(0 .. m) = m + 1
  BY FS_Interval
<1>2. IsFiniteSet(K) /\ Cardinality(K) \in Nat
  BY <1>1, FS_Subset, FS_CardinalityType
<1> DEFINE c == Cardinality(K)
<1>2a. c \in Nat
  BY <1>2
<1>3. ASSUME NEW k \in K PROVE k + 1 <= c
  <2>1. 0 .. k \subseteq K /\ k \in 0 .. n
    BY <1>3
  <2>2. Cardinality(0 .. k) <= c
    BY <2>1, <1>2, FS_Subset
  <2> QED
    BY <2>1, <2>2, <1>1
<1>4. c >= 1
  BY <1>3, <1>2
<1>5. c - 1 \in K
  <2> SUFFICES ASSUME c - 1 \notin K PROVE FALSE
    OBVIOUS
  <2>1. \A k \in K : k < c - 1 /\ k \in Nat
    <3> TAKE k \in K
    <3>1. k + 1 <= c /\ k \in Nat
      BY <1>3
    <3>2. k # c - 1
      OBVIOUS
    <3> QED
      BY <3>1, <3>2, <1>2
  <2>2. c >= 2
    BY <2>1, <1>2
  <2>3. K \subseteq 0 .. (c - 2) /\ c - 2 \in 0 .. n
    <3> HIDE DEF c
    <3>1. \A k \in K : k \in 0 .. (c - 2)
      BY <2>1, <2>2, <1>2a
    <3>2. c <= n + 1
      <4>1. IsFiniteSet(0 .. n) /\ Cardinality(0 .. n) = n + 1
        BY FS_Interval
      <4>2. c <= Cardinality(0 .. n)
        BY <4>1, FS_Subset DEF c
      <4> QED
        BY <4>1, <4>2
    <3>3. K \subseteq 0 .. (c - 2)
      BY <3>1
    <3> QED
      BY <3>2, <3>3, <2>2, <1>2a
  <2>4. c <= Cardinality(0 .. (c - 2)) /\ Cardinality(0 .. (c - 2)) = c - 1
    <3>1. IsFiniteSet(0 .. (c - 2)) /\ Cardinality(0 .. (c - 2)) = (c - 2) + 1
      BY <2>3, <1>1
    <3>2. K \in SUBSET (0 .. (c - 2))
      BY <2>3
    <3>3. c <= Cardinality(0 .. (c - 2))
      BY <3>1, <3>2, FS_Subset
    <3> QED
      BY <3>1, <3>3, <1>2
  <2> QED
    BY <2>4, <1>2
<1>6. \A k \in K : c - 1 >= k
  BY <1>3, <1>2
<1> QED
  BY <1>5, <1>6 DEF Max

\* drain_delivery_queue sends what fits, and all of it.
LEMMA DrainLengthFits ==
  ASSUME queue \in Seq(Deliveries), NEW batches, NEW events, NEW streams, NEW w
  PROVE  /\ DrainLength(batches, events, streams, w) \in 0 .. Len(queue)
         /\ Fits(DrainLength(batches, events, streams, w), batches, events, streams, w)
         /\ \A k \in 0 .. Len(queue) :
               Fits(k, batches, events, streams, w) => k <= DrainLength(batches, events, streams, w)
<1> DEFINE K == {k \in 0 .. Len(queue) : Fits(k, batches, events, streams, w)}
<1>1. Len(queue) \in Nat
  OBVIOUS
<1>2. 0 \in K
  BY <1>1 DEF Fits
<1>3. ASSUME NEW k \in K, NEW j \in 0 .. k PROVE j \in K
  <2>1. j \in 0 .. Len(queue) /\ \A i \in 1 .. j : i \in 1 .. k
    BY <1>1, <1>3
  <2>2. Fits(k, batches, events, streams, w)
    BY <1>3
  <2>3. Fits(j, batches, events, streams, w)
    BY <2>1, <2>2, Zenon DEF Fits
  <2> QED
    BY <2>1, <2>3
<1>4. Max(K) \in K /\ \A k \in K : k <= Max(K)
  BY <1>1, <1>2, <1>3, InitialSegmentMax
<1>5. DrainLength(batches, events, streams, w) = Max(K)
  BY DEF DrainLength
<1> HIDE DEF K
<1>6. \A k \in 0 .. Len(queue) : Fits(k, batches, events, streams, w) => k \in K
  BY Zenon DEF K
<1>7. Max(K) \in 0 .. Len(queue) /\ Fits(Max(K), batches, events, streams, w)
  BY <1>4, Zenon DEF K
<1> QED
  BY <1>4, <1>5, <1>6, <1>7

\* What is sent from the queue shares no stream with what is in flight, nor
\* with what is sent before it in the same drain.
LEMMA DrainSeparates ==
  ASSUME queue \in Seq(Deliveries), NEW kept \in SUBSET Deliveries, Separate(kept),
         NEW batches, NEW events, NEW w,
         Drain(kept, batches, events, Streams(kept), w)
  PROVE  /\ queue' \in Seq(Deliveries)
         /\ pending' \subseteq Deliveries
         /\ inflight_streams' = Streams(pending')
         /\ Separate(pending')
<1> DEFINE k == DrainLength(batches, events, Streams(kept), w)
           sent == {queue[i] : i \in 1 .. k}
<1>1. /\ pending' = kept \cup sent
      /\ queue' = SubSeq(queue, k + 1, Len(queue))
      /\ inflight_streams' = Streams(kept) \cup Streams(sent)
  BY Zenon DEF Drain
<1>2. k \in 0 .. Len(queue) /\ Fits(k, batches, events, Streams(kept), w)
  BY DrainLengthFits
<1> HIDE DEF k
<1>3. \A i \in 1 .. k : queue[i] \in Deliveries /\ i \in DOMAIN queue
  BY <1>2
<1>4. queue' \in Seq(Deliveries)
  BY <1>1, <1>2
<1>5. pending' \subseteq Deliveries
  BY <1>1, <1>3
<1>6. inflight_streams' = Streams(pending')
  BY <1>1 DEF Streams
<1>7. ASSUME NEW i \in 1 .. k
      PROVE  /\ StreamOf[queue[i]] \notin Streams(kept)
             /\ \A j \in 1 .. (i - 1) : StreamOf[queue[i]] \notin Streams({queue[j]})
  <2>1. StreamOf[queue[i]] \notin Streams(kept) \cup Streams({queue[j] : j \in 1 .. (i - 1)})
    BY <1>2, Zenon DEF Fits
  <2> QED
    BY <2>1 DEF Streams
<1>8. ASSUME NEW i \in 1 .. k, NEW d \in kept, StreamOf[queue[i]] = StreamOf[d]
      PROVE  StreamOf[d] = NoStream
  BY <1>7, <1>8 DEF Streams
<1>9. ASSUME NEW i \in 1 .. k, NEW j \in 1 .. k, i # j, StreamOf[queue[i]] = StreamOf[queue[j]]
      PROVE  StreamOf[queue[i]] = NoStream
  <2>1. CASE j < i
    <3>1. j \in 1 .. (i - 1)
      BY <1>2, <2>1
    <3> QED
      BY <3>1, <1>7, <1>9 DEF Streams
  <2>2. CASE i < j
    <3>1. i \in 1 .. (j - 1)
      BY <1>2, <2>2
    <3> QED
      BY <3>1, <1>7, <1>9 DEF Streams
  <2> QED
    BY <2>1, <2>2, <1>2, <1>9
<1>10. Separate(pending')
  <2> SUFFICES ASSUME NEW c \in pending', NEW d \in pending', c # d, StreamOf[c] = StreamOf[d]
               PROVE  StreamOf[c] = NoStream
    BY DEF Separate
  <2>1. CASE c \in kept /\ d \in kept
    BY <2>1 DEF Separate
  <2>2. CASE c \in sent /\ d \in kept
    <3>1. PICK i \in 1 .. k : c = queue[i]
      BY <2>2
    <3> QED
      BY <3>1, <2>2, <1>8
  <2>3. CASE c \in kept /\ d \in sent
    <3>1. PICK i \in 1 .. k : d = queue[i]
      BY <2>3
    <3> QED
      BY <3>1, <2>3, <1>8
  <2>4. CASE c \in sent /\ d \in sent
    <3>1. PICK i \in 1 .. k : c = queue[i]
      BY <2>4
    <3>2. PICK j \in 1 .. k : d = queue[j]
      BY <2>4
    <3> QED
      BY <3>1, <3>2, <1>9
  <2> QED
    BY <1>1, <2>1, <2>2, <2>3, <2>4
<1> QED
  BY <1>4, <1>5, <1>6, <1>10

\* Losing the session empties everything at once.
LEMMA DisconnectIInv ==
  ASSUME FailAndDisconnect
  PROVE  FlowIInv'
<1>1. pending' = {} /\ queue' = <<>> /\ inflight_streams' = {}
  BY DEF FailAndDisconnect
<1> QED
  BY <1>1 DEF FlowIInv, OnePerStream, Streams

\* A connected session with separate streams in flight.
LEMMA ConnectedIInv ==
  ASSUME queue' \in Seq(Deliveries), pending' \subseteq Deliveries,
         inflight_streams' = Streams(pending'), Separate(pending'), connected'
  PROVE  FlowIInv'
BY DEF FlowIInv, OnePerStream, Separate

\* Every callback keeps the invariant.
LEMMA FlowStep ==
  ASSUME FlowIInv, [ClientNext]_clientVars
  PROVE  FlowIInv'
<1>1. ASSUME NEW d \in Deliveries, CallSent(d) PROVE FlowIInv'
  <2>1. /\ StreamOf[d] \notin inflight_streams
        /\ pending' = pending \cup {d} /\ queue' = queue
        /\ inflight_streams' = inflight_streams \cup Streams({d})
    BY <1>1 DEF CallSent, CanSend
  <2>2. connected'
    BY <1>1, Zenon DEF CallSent
  <2>3. inflight_streams' = Streams(pending')
    BY <2>1 DEF FlowIInv, Streams
  <2>4. Separate(pending')
    BY <2>1 DEF FlowIInv, OnePerStream, Separate, Streams
  <2> QED
    BY <1>1, <2>1, <2>2, <2>3, <2>4, ConnectedIInv DEF FlowIInv
<1>2. ASSUME NEW d \in Deliveries, CallQueued(d) PROVE FlowIInv'
  <2>1. /\ queue' = Append(queue, d) /\ pending' = pending
        /\ inflight_streams' = inflight_streams
    BY <1>2 DEF CallQueued
  <2>2. connected'
    BY <1>2, Zenon DEF CallQueued
  <2> QED
    BY <1>2, <2>1, <2>2, ConnectedIInv DEF FlowIInv, OnePerStream, Separate
<1>3. ASSUME NEW w \in Windows, Hello(w) PROVE FlowIInv'
  <2>1. connected' /\ Drain(pending, inflight_batches, inflight_events, Streams(pending), w)
    BY <1>3, Zenon DEF Hello, FlowIInv
  <2>2. Separate(pending)
    BY DEF FlowIInv, OnePerStream, Separate
  <2> QED
    BY <2>1, <2>2, DrainSeparates, ConnectedIInv DEF FlowIInv
<1>4. ASSUME NEW d \in Deliveries, NEW r \in Results, Ack(d, r) PROVE FlowIInv'
  <2>1. Separate(pending)
    BY DEF FlowIInv, OnePerStream, Separate
  <2>2. d \in pending
    BY <1>4 DEF Ack
  <2>3. inflight_streams \ {StreamOf[d]} = Streams(pending \ {d}) /\ Separate(pending \ {d})
    BY <2>1, <2>2 DEF FlowIInv, Separate, Streams
  <2>4. /\ connected'
        /\ Drain(pending \ {d}, Less(inflight_batches, 1), Less(inflight_events, CountOf[d]),
                 Streams(pending \ {d}), window)
    BY <1>4, <2>3, Zenon DEF Ack
  <2>5. pending \ {d} \in SUBSET Deliveries
    BY DEF FlowIInv
  <2> QED
    BY <2>3, <2>4, <2>5, DrainSeparates, ConnectedIInv DEF FlowIInv
<1>5. ASSUME NEW d \in Deliveries, CallFails(d) \/ Timeout(d) PROVE FlowIInv'
  BY <1>5, DisconnectIInv DEF CallFails, Timeout
<1>6. ASSUME NEW d \in Deliveries, NEW r \in Results, AckThenSendFails(d, r) PROVE FlowIInv'
  BY <1>6, DisconnectIInv DEF AckThenSendFails, DrainFails
<1>7. ASSUME NEW w \in Windows, HelloThenSendFails(w) PROVE FlowIInv'
  BY <1>7, DisconnectIInv DEF HelloThenSendFails, DrainFails
<1>8. CASE SessionLost
  BY <1>8, DisconnectIInv DEF SessionLost
<1>9. ASSUME NEW d \in Deliveries, CallerTimeout(d) PROVE FlowIInv'
  BY <1>9 DEF CallerTimeout, flow, FlowIInv, OnePerStream
<1>10. CASE UNCHANGED clientVars
  BY <1>10 DEF clientVars, flow, FlowIInv, OnePerStream
<1> QED
  BY <1>1, <1>2, <1>3, <1>4, <1>5, <1>6, <1>7, <1>8, <1>9, <1>10 DEF ClientNext

\* The inductive invariant holds throughout.
THEOREM FlowInvariance == ClientSpec => []FlowIInv
<1>1. ClientInit => FlowIInv
  BY DEF ClientInit, FlowIInv, OnePerStream, Streams
<1> QED
  BY <1>1, FlowStep, PTL DEF ClientSpec

\* A peer never has two batches of one stream to handle at a time, whatever
\* acks, hellos, timeouts and lost sessions drain or drop the queue.
THEOREM OneBatchPerStream == ClientSpec => []OnePerStream
BY FlowInvariance, PTL DEF FlowIInv

-----------------------------------------------------------------------------
\* The counters.  What is queued or in flight has been called, once.
Fresh ==
    /\ \A d \in Elements(queue) \cup pending : caller[d] # "new"
    /\ Elements(queue) \cap pending = {}
    /\ \A i, j \in DOMAIN queue : queue[i] = queue[j] => i = j

CountIInv ==
    /\ ClientTypeOK
    /\ inflight_batches = Cardinality(pending)
    /\ inflight_events = Events(pending)
    /\ HeadIsBlocked
    /\ pending \subseteq timers
    /\ Fresh

EventsOf(S) == UNION {{d} \X (1 .. CountOf[d]) : d \in S}

LEMMA DeliveriesFinite ==
  ASSUME NEW S \in SUBSET Deliveries
  PROVE  /\ IsFiniteSet(S)
         /\ Cardinality(S) \in Nat
<1>1. IsFiniteSet(Deliveries)
  BY SessionAssumption, FS_Interval DEF Deliveries
<1> QED
  BY <1>1, FS_Subset, FS_CardinalityType

\* The events of one delivery, and of finitely many.
LEMMA OneBatchEvents ==
  ASSUME NEW d \in Deliveries
  PROVE  /\ CountOf[d] \in Nat \ {0}
         /\ IsFiniteSet({d} \X (1 .. CountOf[d]))
         /\ Cardinality({d} \X (1 .. CountOf[d])) = CountOf[d]
<1>1. CountOf[d] \in Nat \ {0}
  BY SessionAssumption
<1>2. /\ IsFiniteSet(1 .. CountOf[d])
      /\ Cardinality(1 .. CountOf[d]) = CountOf[d]
  BY <1>1, FS_Interval
<1>3. IsFiniteSet({d}) /\ Cardinality({d}) = 1
  BY FS_Singleton
<1>4. /\ IsFiniteSet({d} \X (1 .. CountOf[d]))
      /\ Cardinality({d} \X (1 .. CountOf[d])) = Cardinality({d}) * Cardinality(1 .. CountOf[d])
  BY <1>2, <1>3, FS_Product
<1> QED
  BY <1>1, <1>2, <1>3, <1>4

LEMMA EventsFinite ==
  ASSUME NEW S \in SUBSET Deliveries
  PROVE  /\ IsFiniteSet(EventsOf(S))
         /\ Events(S) = Cardinality(EventsOf(S))
         /\ Events(S) \in Nat
<1> DEFINE f == [d \in S |-> {d} \X (1 .. CountOf[d])]
           T == {{d} \X (1 .. CountOf[d]) : d \in S}
<1>1. f \in Surjection(S, T)
  BY DEF Surjection
<1>2. IsFiniteSet(T)
  BY <1>1, DeliveriesFinite, FS_Surjection
<1>3. \A B \in T : IsFiniteSet(B)
  BY OneBatchEvents
<1>4. IsFiniteSet(UNION T)
  BY <1>2, <1>3, FS_UNION
<1>5. EventsOf(S) = UNION T
  BY DEF EventsOf
<1> QED
  BY <1>4, <1>5, FS_CardinalityType DEF Events, EventsOf

\* The events of deliveries that have none in common add up.
LEMMA EventsUnion ==
  ASSUME NEW S \in SUBSET Deliveries, NEW T \in SUBSET Deliveries, S \cap T = {}
  PROVE  Events(S \cup T) = Events(S) + Events(T)
<1>1. EventsOf(S \cup T) = EventsOf(S) \cup EventsOf(T)
  BY DEF EventsOf
<1>2. EventsOf(S) \cap EventsOf(T) = {}
  BY DEF EventsOf
<1>3. /\ IsFiniteSet(EventsOf(S)) /\ IsFiniteSet(EventsOf(T))
      /\ Events(S) = Cardinality(EventsOf(S)) /\ Events(T) = Cardinality(EventsOf(T))
      /\ Events(S) \in Nat /\ Events(T) \in Nat
      /\ Events(S \cup T) = Cardinality(EventsOf(S \cup T))
  BY EventsFinite
<1>4. Cardinality(EventsOf(S) \cup EventsOf(T)) =
        Events(S) + Events(T) - Cardinality(EventsOf(S) \cap EventsOf(T))
  BY <1>3, FS_Union
<1>5. Cardinality(EventsOf(S) \cap EventsOf(T)) = 0
  BY <1>2, FS_EmptySet
<1>6. Events(S \cup T) = Cardinality(EventsOf(S) \cup EventsOf(T))
  BY <1>1, <1>3
<1> QED
  BY <1>3, <1>4, <1>5, <1>6

LEMMA EventsSingleton ==
  ASSUME NEW d \in Deliveries
  PROVE  Events({d}) = CountOf[d]
<1>1. UNION {{e} \X (1 .. CountOf[e]) : e \in {d}} = {d} \X (1 .. CountOf[d])
  OBVIOUS
<1> QED
  BY <1>1, OneBatchEvents DEF Events

\* The accounts without one of the deliveries.
LEMMA AccountWithout ==
  ASSUME NEW S \in SUBSET Deliveries, NEW d \in S
  PROVE  /\ Less(Cardinality(S), 1) = Cardinality(S \ {d})
         /\ Less(Events(S), CountOf[d]) = Events(S \ {d})
<1>1. /\ Events(S) = Events(S \ {d}) + Events({d})
      /\ Events(S \ {d}) \in Nat
  <2>1. S = (S \ {d}) \cup {d} /\ (S \ {d}) \cap {d} = {}
    OBVIOUS
  <2> QED
    BY <2>1, EventsUnion, EventsFinite
<1>2. Events({d}) = CountOf[d] /\ CountOf[d] \in Nat
  BY EventsSingleton, OneBatchEvents
<1>3. /\ Cardinality(S \ {d}) = Cardinality(S) - 1
      /\ Cardinality(S) \in Nat /\ Cardinality(S \ {d}) \in Nat
  BY DeliveriesFinite, FS_RemoveElement
<1> QED
  BY <1>1, <1>2, <1>3 DEF Less

\* Draining keeps the accounts, and leaves a queue whose head must wait.
LEMMA DrainCounts ==
  ASSUME queue \in Seq(Deliveries), pending \in SUBSET Deliveries, timers \in SUBSET Deliveries,
         pending \subseteq timers, Fresh,
         NEW kept \in SUBSET pending, NEW w \in (Nat \ {0}) \X (Nat \ {0}), window' = w,
         Drain(kept, Cardinality(kept), Events(kept), Streams(kept), w)
  PROVE  /\ inflight_batches' = Cardinality(pending')
         /\ inflight_events' = Events(pending')
         /\ HeadIsBlocked'
         /\ pending' \subseteq timers' /\ timers' \subseteq Deliveries
         /\ pending' \in SUBSET Deliveries
         /\ Elements(queue') \subseteq Elements(queue)
         /\ pending' \subseteq Elements(queue) \cup pending
         /\ Elements(queue') \cap pending' = {}
         /\ \A i, j \in DOMAIN queue' : queue'[i] = queue'[j] => i = j
<1> DEFINE batches == Cardinality(kept)
           events == Events(kept)
           k == DrainLength(batches, events, Streams(kept), w)
           sent == {queue[i] : i \in 1 .. k}
<1>1. /\ pending' = kept \cup sent
      /\ queue' = SubSeq(queue, k + 1, Len(queue))
      /\ inflight_batches' = batches + k
      /\ inflight_events' = events + Events(sent)
      /\ inflight_streams' = Streams(kept) \cup Streams(sent)
  BY Zenon DEF Drain
<1>2. PICK late \in SUBSET (pending \ kept) : timers' = (timers \ (pending \ kept)) \cup late \cup sent
  BY Zenon DEF Drain
<1>3. /\ k \in 0 .. Len(queue)
      /\ Fits(k, batches, events, Streams(kept), w)
      /\ \A n \in 0 .. Len(queue) : Fits(n, batches, events, Streams(kept), w) => n <= k
  BY DrainLengthFits
<1>4. batches \in Nat /\ events \in Nat /\ IsFiniteSet(kept)
  BY DeliveriesFinite, EventsFinite
<1> HIDE DEF k, batches, events
<1>5. Len(queue) \in Nat /\ DOMAIN queue = 1 .. Len(queue) /\ \A i \in 1 .. Len(queue) : queue[i] \in Deliveries
  OBVIOUS
<1>6. sent \in SUBSET Deliveries /\ sent \subseteq Elements(queue) /\ sent \cap kept = {}
  BY <1>3, <1>5 DEF Fresh, Elements
<1>7. Cardinality(sent) = k
  <2> DEFINE f == [i \in 1 .. k |-> queue[i]]
  <2>1. IsFiniteSet(1 .. k) /\ Cardinality(1 .. k) = k
    BY <1>3, <1>5, FS_Interval
  <2>2. f \in Surjection(1 .. k, sent)
    BY DEF Surjection
  <2>3. \A i, j \in 1 .. k : queue[i] = queue[j] => i = j
    BY <1>3, <1>5 DEF Fresh
  <2>4. f \in Injection(1 .. k, sent)
    BY <2>2, <2>3 DEF Injection, IsInjective, Surjection
  <2> QED
    BY <2>1, <2>2, <2>4, FS_Surjection
<1>8. Cardinality(pending') = batches + k
  <2>1. Cardinality(kept \cup sent) = Cardinality(kept) + Cardinality(sent) - Cardinality(kept \cap sent)
    BY <1>4, <1>6, DeliveriesFinite, FS_Union
  <2>2. Cardinality(kept \cap sent) = 0
    BY <1>6, FS_EmptySet
  <2> QED
    BY <1>1, <1>3, <1>4, <1>5, <1>7, <2>1, <2>2 DEF batches
<1>9. Events(pending') = events + Events(sent)
  BY <1>1, <1>6, EventsUnion DEF events
<1>10. Len(queue') = Len(queue) - k /\ \A i \in 1 .. (Len(queue) - k) : queue'[i] = queue[i + k]
  <2> DEFINE n == Len(queue)
  <2>1. n \in Nat /\ k \in Int /\ k <= n /\ \A i \in (k + 1) .. n : queue[i] \in Deliveries
    BY <1>3, <1>5
  <2> HIDE DEF n
  <2>2. /\ Len(SubSeq(queue, k + 1, n)) = IF k + 1 <= n THEN n - (k + 1) + 1 ELSE 0
        /\ \A i \in 1 .. (n - (k + 1) + 1) : SubSeq(queue, k + 1, n)[i] = queue[(k + 1) + i - 1]
    BY <2>1, SubSeqProperties
  <2>3. n - (k + 1) + 1 = n - k /\ \A i \in 1 .. (n - k) : (k + 1) + i - 1 = i + k
    BY <2>1
  <2>4. queue' = SubSeq(queue, k + 1, n)
    BY <1>1 DEF n
  <2>5. Len(queue') = n - k
    BY <2>1, <2>2, <2>3, <2>4
  <2>6. \A i \in 1 .. (n - k) : queue'[i] = queue[i + k]
    <3> TAKE i \in 1 .. (n - k)
    <3>1. i \in 1 .. (n - (k + 1) + 1) /\ (k + 1) + i - 1 = i + k
      BY <2>1, <2>3
    <3>2. SubSeq(queue, k + 1, n)[i] = queue[(k + 1) + i - 1]
      BY <2>2, <3>1
    <3> QED
      BY <2>4, <3>1, <3>2
  <2> QED
    BY <2>5, <2>6 DEF n
<1>11. DOMAIN queue' = 1 .. (Len(queue) - k) /\ queue' \in Seq(Deliveries)
  BY <1>1, <1>3, <1>5
<1>12. \A i \in DOMAIN queue' : i + k \in DOMAIN queue /\ i + k > k /\ queue'[i] = queue[i + k]
  BY <1>3, <1>5, <1>10, <1>11
<1>13. Elements(queue') \subseteq Elements(queue)
  BY <1>12 DEF Elements
<1>14. \A i, j \in DOMAIN queue' : queue'[i] = queue'[j] => i = j
  BY <1>3, <1>11, <1>12 DEF Fresh
<1>15. Elements(queue') \cap pending' = {}
  <2> SUFFICES ASSUME NEW i \in DOMAIN queue', queue'[i] \in pending' PROVE FALSE
    BY DEF Elements
  <2>1. queue'[i] \notin kept
    BY <1>12 DEF Fresh, Elements
  <2>2. PICK j \in 1 .. k : queue'[i] = queue[j]
    BY <1>1, <2>1
  <2>3. j \in DOMAIN queue /\ j <= k
    BY <1>3, <1>5
  <2> QED
    BY <1>3, <1>12, <2>2, <2>3 DEF Fresh
<1>16. HeadIsBlocked'
  <2> SUFFICES ASSUME queue' # <<>> PROVE (~CanSend(Head(queue), inflight_batches, inflight_events, inflight_streams))'
    BY DEF HeadIsBlocked
  <2>1. k + 1 \in 1 .. Len(queue) /\ Head(queue') = queue[k + 1]
    BY <1>3, <1>5, <1>10, <1>11
  <2>2. ~Fits(k + 1, batches, events, Streams(kept), w)
    BY <1>3, <1>5, <2>1
  <2>3. PICK i \in 1 .. (k + 1) :
           LET before == {queue[j] : j \in 1 .. (i - 1)} IN
           ~(/\ batches + i - 1 < w[1]
             /\ events + Events(before) + CountOf[queue[i]] <= w[2]
             /\ StreamOf[queue[i]] \notin Streams(kept) \cup Streams(before))
    BY <2>2, Zenon DEF Fits
  <2>4. i = k + 1
    <3>1. CASE i \in 1 .. k
      BY <1>3, <2>3, <3>1, Zenon DEF Fits
    <3> QED
      BY <1>3, <1>5, <3>1
  <2>5. ~(/\ batches + (k + 1) - 1 < w[1]
          /\ events + Events(sent) + CountOf[queue[k + 1]] <= w[2]
          /\ StreamOf[queue[k + 1]] \notin Streams(kept) \cup Streams(sent))
    <3>1. 1 .. ((k + 1) - 1) = 1 .. k
      BY <1>3, <1>5
    <3> QED
      BY <2>3, <2>4, <3>1
  <2>6. batches + (k + 1) - 1 = inflight_batches'
    BY <1>1, <1>3, <1>4, <1>5
  <2> QED
    BY <1>1, <2>1, <2>5, <2>6 DEF CanSend
<1>17. timers' \subseteq Deliveries /\ pending' \subseteq timers'
  BY <1>1, <1>2, <1>6
<1> QED
  BY <1>1, <1>6, <1>8, <1>9, <1>13, <1>14, <1>15, <1>16, <1>17

CallStates == {"new", "waiting", "ok", "error", "timeout"}

\* Answering leaves every call that was made a call that was made.
LEMMA AnswerKeeps ==
  ASSUME caller \in [Deliveries -> CallStates], NEW S, NEW r \in Results
  PROVE  /\ Answer(S, r) \in [Deliveries -> CallStates]
         /\ \A d \in Deliveries : Answer(S, r)[d] # "new" <=> caller[d] # "new"
BY DEF Answer, CallStates, Results

\* What a step has to keep for its successor to be well typed.
LEMMA CountTypes ==
  ASSUME connected' \in BOOLEAN, window' \in Windows \cup {DefaultWindow},
         pending' \in SUBSET Deliveries, Elements(queue') \subseteq Deliveries,
         inflight_batches' = Cardinality(pending'), inflight_events' = Events(pending'),
         inflight_streams' = Streams(pending'), timers' \subseteq Deliveries,
         caller' \in [Deliveries -> CallStates]
  PROVE  ClientTypeOK'
<1>1. inflight_batches' \in Nat /\ inflight_events' \in Nat
  BY DeliveriesFinite, EventsFinite
<1>2. inflight_streams' \subseteq Streams(Deliveries)
  BY DEF Streams
<1> QED
  BY <1>1, <1>2, Zenon DEF ClientTypeOK, CallStates

\* Losing the session keeps it.
LEMMA DisconnectCounts ==
  ASSUME FailAndDisconnect, window' \in Windows \cup {DefaultWindow},
         timers' \subseteq Deliveries, caller' \in [Deliveries -> CallStates]
  PROVE  CountIInv'
<1>1. /\ pending' = {} /\ queue' = <<>> /\ inflight_streams' = {}
      /\ inflight_batches' = 0 /\ inflight_events' = 0
  BY DEF FailAndDisconnect
<1>2. connected' \in BOOLEAN
  BY Zenon DEF FailAndDisconnect
<1>3. Cardinality({}) = 0 /\ Events({}) = 0
  <2>1. UNION {{d} \X (1 .. CountOf[d]) : d \in {}} = {}
    OBVIOUS
  <2> QED
    BY <2>1, FS_EmptySet DEF Events
<1>4. Elements(queue') = {} /\ Streams(pending') = {}
  BY <1>1 DEF Elements, Streams
<1>5. ClientTypeOK'
  BY <1>1, <1>2, <1>3, <1>4, CountTypes
<1>6. HeadIsBlocked' /\ Fresh'
  BY <1>1, <1>4 DEF HeadIsBlocked, Fresh
<1> QED
  BY <1>1, <1>3, <1>5, <1>6 DEF CountIInv

\* A step that leaves the queue and what is in flight alone.
LEMMA QuietCounts ==
  ASSUME CountIInv, UNCHANGED <<connected, window, flow, timers>>,
         caller' \in [Deliveries -> CallStates],
         \A d \in Deliveries : caller[d] # "new" => caller'[d] # "new"
  PROVE  CountIInv'
<1>1. ClientTypeOK'
  BY DEF CountIInv, ClientTypeOK, flow, CallStates
<1>2. HeadIsBlocked'
  BY DEF CountIInv, HeadIsBlocked, CanSend, flow
<1>3. Fresh'
  BY DEF CountIInv, Fresh, flow, ClientTypeOK
<1> QED
  BY <1>1, <1>2, <1>3 DEF CountIInv, flow

LEMMA WindowType ==
  ASSUME NEW w \in Windows \cup {DefaultWindow}
  PROVE  w \in (Nat \ {0}) \X (Nat \ {0})
BY SessionAssumption

\* A drain keeps the counting invariant, whatever is given up before it.
LEMMA DrainStep ==
  ASSUME FlowIInv, FlowIInv', CountIInv, connected' \in BOOLEAN,
         NEW kept \in SUBSET pending, NEW w \in Windows \cup {DefaultWindow}, window' = w,
         Drain(kept, Cardinality(kept), Events(kept), Streams(kept), w),
         caller' \in [Deliveries -> CallStates],
         \A d \in Deliveries : caller[d] # "new" => caller'[d] # "new"
  PROVE  CountIInv'
<1>0. /\ queue \in Seq(Deliveries) /\ pending \in SUBSET Deliveries
      /\ timers \in SUBSET Deliveries /\ pending \subseteq timers /\ Fresh
      /\ Elements(queue) \subseteq Deliveries
  BY DEF FlowIInv, CountIInv, ClientTypeOK
<1>1. w \in (Nat \ {0}) \X (Nat \ {0})
  BY WindowType
<1>2. /\ inflight_batches' = Cardinality(pending')
      /\ inflight_events' = Events(pending')
      /\ HeadIsBlocked'
      /\ pending' \subseteq timers' /\ timers' \subseteq Deliveries
      /\ pending' \in SUBSET Deliveries
      /\ Elements(queue') \subseteq Elements(queue)
      /\ pending' \subseteq Elements(queue) \cup pending
      /\ Elements(queue') \cap pending' = {}
      /\ \A i, j \in DOMAIN queue' : queue'[i] = queue'[j] => i = j
  BY <1>0, <1>1, DrainCounts
<1>3. inflight_streams' = Streams(pending')
  BY DEF FlowIInv
<1>4. ClientTypeOK'
  BY <1>0, <1>2, <1>3, CountTypes
<1>5. Fresh'
  BY <1>0, <1>2 DEF Fresh
<1> QED
  BY <1>2, <1>4, <1>5 DEF CountIInv

\* Every callback keeps the counting invariant.
LEMMA CountStep ==
  ASSUME FlowIInv, CountIInv, [ClientNext]_clientVars
  PROVE  CountIInv'
<1>0. FlowIInv'
  BY FlowStep
<1>a. /\ queue \in Seq(Deliveries) /\ pending \in SUBSET Deliveries
      /\ timers \in SUBSET Deliveries /\ Elements(queue) \subseteq Deliveries
      /\ caller \in [Deliveries -> CallStates]
      /\ window \in Windows \cup {DefaultWindow}
      /\ inflight_batches = Cardinality(pending) /\ inflight_events = Events(pending)
      /\ inflight_streams = Streams(pending)
  BY DEF FlowIInv, CountIInv, ClientTypeOK, CallStates
<1>b. inflight_batches \in Nat /\ inflight_events \in Nat
  BY DEF CountIInv, ClientTypeOK
<1>1. ASSUME NEW d \in Deliveries, CallSent(d) PROVE CountIInv'
  <2>1. /\ caller[d] = "new"
        /\ pending' = pending \cup {d} /\ queue' = queue
        /\ inflight_batches' = inflight_batches + 1
        /\ inflight_events' = inflight_events + CountOf[d]
        /\ inflight_streams' = inflight_streams \cup Streams({d})
        /\ timers' = timers \cup {d}
        /\ caller' = [caller EXCEPT ![d] = "waiting"]
        /\ window' = window
    BY <1>1 DEF CallSent, NextCall
  <2>2. connected' \in BOOLEAN
    BY <1>1, Zenon DEF CallSent
  <2>3. d \notin pending /\ d \notin Elements(queue)
    BY <2>1 DEF CountIInv, Fresh
  <2>4. inflight_batches' = Cardinality(pending')
    BY <2>1, <2>3, <1>a, DeliveriesFinite, FS_AddElement
  <2>5. inflight_events' = Events(pending')
    <3>1. Events(pending \cup {d}) = Events(pending) + Events({d})
      BY <2>3, <1>a, EventsUnion
    <3> QED
      BY <2>1, <3>1, <1>a, EventsSingleton
  <2>6. inflight_streams' = Streams(pending')
    BY <1>0 DEF FlowIInv
  <2>7. CountOf[d] \in Nat
    BY OneBatchEvents
  <2>8. HeadIsBlocked'
    <3> SUFFICES ASSUME queue' # <<>>
                 PROVE  (~CanSend(Head(queue), inflight_batches, inflight_events, inflight_streams))'
      BY DEF HeadIsBlocked
    <3>1. Head(queue) \in Deliveries
      BY <2>1, <1>a
    <3>2. CountOf[Head(queue)] \in Nat
      BY <3>1, OneBatchEvents
    <3>3. window[1] \in Nat /\ window[2] \in Nat
      BY <1>a, WindowType
    <3>4. ~CanSend(Head(queue), inflight_batches, inflight_events, inflight_streams)
      BY <2>1 DEF CountIInv, HeadIsBlocked
    <3>5. \/ ~(inflight_batches < window[1])
          \/ ~(inflight_events + CountOf[Head(queue)] <= window[2])
          \/ StreamOf[Head(queue)] \in inflight_streams
      BY <3>4 DEF CanSend
    <3>6. \/ ~(inflight_batches + 1 < window[1])
          \/ ~(inflight_events + CountOf[d] + CountOf[Head(queue)] <= window[2])
          \/ StreamOf[Head(queue)] \in inflight_streams \cup Streams({d})
      BY <2>7, <3>2, <3>3, <3>5, <1>b
    <3> QED
      BY <2>1, <3>6 DEF CanSend
  <2>9. caller' \in [Deliveries -> CallStates]
    BY <2>1, <1>a DEF CallStates
  <2>10. ClientTypeOK'
    BY <2>1, <2>2, <2>4, <2>5, <2>6, <2>9, <1>a, CountTypes
  <2>11. Fresh'
    BY <2>1, <2>3, <1>a DEF CountIInv, Fresh
  <2> QED
    BY <2>1, <2>4, <2>5, <2>8, <2>10, <2>11 DEF CountIInv
<1>2. ASSUME NEW d \in Deliveries, CallQueued(d) PROVE CountIInv'
  <2>1. /\ caller[d] = "new"
        /\ ~CanSend(d, inflight_batches, inflight_events, inflight_streams)
        /\ queue' = Append(queue, d)
        /\ caller' = [caller EXCEPT ![d] = "waiting"]
        /\ UNCHANGED <<window, pending, inflight_batches, inflight_events, inflight_streams, timers>>
    BY <1>2 DEF CallQueued, NextCall
  <2>2. connected' \in BOOLEAN
    BY <1>2, Zenon DEF CallQueued
  <2>3. d \notin pending /\ d \notin Elements(queue)
    BY <2>1 DEF CountIInv, Fresh
  <2>4. /\ DOMAIN queue' = 1 .. (Len(queue) + 1) /\ Len(queue) \in Nat
        /\ queue'[Len(queue) + 1] = d
        /\ \A i \in 1 .. Len(queue) : queue'[i] = queue[i] /\ i \in DOMAIN queue
    BY <2>1, <1>a
  <2>5. Elements(queue') = Elements(queue) \cup {d}
    BY <2>4, <1>a DEF Elements
  <2>6. HeadIsBlocked'
    <3> SUFFICES (~CanSend(Head(queue), inflight_batches, inflight_events, inflight_streams))'
      BY DEF HeadIsBlocked
    <3>1. CASE queue = <<>>
      BY <2>1, <3>1 DEF CanSend
    <3>2. CASE queue # <<>>
      <4>1. Head(queue') = Head(queue)
        BY <2>1, <3>2, <1>a
      <4>2. ~CanSend(Head(queue), inflight_batches, inflight_events, inflight_streams)
        BY <3>2 DEF CountIInv, HeadIsBlocked
      <4> QED
        BY <2>1, <4>1, <4>2 DEF CanSend
    <3> QED
      BY <3>1, <3>2
  <2>7. caller' \in [Deliveries -> CallStates]
    BY <2>1, <1>a DEF CallStates
  <2>8. ClientTypeOK'
    BY <2>1, <2>2, <2>5, <2>7, <1>a, CountTypes
  <2>9. Fresh'
    <3>1. \A e \in Elements(queue') \cup pending' : caller'[e] # "new"
      BY <2>1, <2>5, <1>a DEF CountIInv, Fresh
    <3>2. Elements(queue') \cap pending' = {}
      BY <2>1, <2>3, <2>5 DEF CountIInv, Fresh
    <3>3. \A i, j \in DOMAIN queue' : queue'[i] = queue'[j] => i = j
      <4> SUFFICES ASSUME NEW i \in DOMAIN queue', NEW j \in DOMAIN queue', queue'[i] = queue'[j]
                   PROVE  i = j
        OBVIOUS
      <4>1. \A n \in 1 .. Len(queue) : queue'[n] # d
        BY <2>3, <2>4 DEF Elements
      <4> QED
        BY <2>4, <4>1 DEF CountIInv, Fresh
    <3> QED
      BY <3>1, <3>2, <3>3 DEF Fresh
  <2> QED
    BY <2>1, <2>6, <2>8, <2>9 DEF CountIInv
<1>3. ASSUME NEW w \in Windows, Hello(w) PROVE CountIInv'
  <2>1. /\ window' = w /\ caller' = caller
        /\ Drain(pending, Cardinality(pending), Events(pending), Streams(pending), w)
    BY <1>3, <1>a, Zenon DEF Hello
  <2>2. connected' \in BOOLEAN
    BY <1>3, Zenon DEF Hello, CountIInv, ClientTypeOK
  <2> QED
    BY <1>0, <1>a, <2>1, <2>2, DrainStep
<1>4. ASSUME NEW d \in Deliveries, NEW r \in Results, Ack(d, r) PROVE CountIInv'
  <2>1. d \in pending
    BY <1>4 DEF Ack
  <2>2. inflight_streams \ {StreamOf[d]} = Streams(pending \ {d})
    BY <2>1 DEF FlowIInv, OnePerStream, Streams
  <2>3. /\ Less(inflight_batches, 1) = Cardinality(pending \ {d})
        /\ Less(inflight_events, CountOf[d]) = Events(pending \ {d})
    BY <2>1, <1>a, AccountWithout
  <2>4. /\ window' = window /\ caller' = Answer({d}, r)
        /\ Drain(pending \ {d}, Cardinality(pending \ {d}), Events(pending \ {d}),
                 Streams(pending \ {d}), window)
    BY <1>4, <2>2, <2>3, Zenon DEF Ack
  <2>5. connected' \in BOOLEAN
    BY <1>4, Zenon DEF Ack, CountIInv, ClientTypeOK
  <2>6. /\ caller' \in [Deliveries -> CallStates]
        /\ \A c \in Deliveries : caller[c] # "new" => caller'[c] # "new"
    BY <2>4, <1>a, AnswerKeeps
  <2> QED
    BY <1>0, <1>a, <2>4, <2>5, <2>6, DrainStep
<1>5. ASSUME NEW d \in Deliveries, CallFails(d) PROVE CountIInv'
  <2>1. /\ caller' = [Answer(pending, "error") EXCEPT ![d] = "error"]
        /\ Cancel(pending) /\ FailAndDisconnect /\ window' = window
    BY <1>5 DEF CallFails
  <2>2. timers' \subseteq Deliveries
    BY <2>1, <1>a DEF Cancel
  <2>3. caller' \in [Deliveries -> CallStates]
    BY <2>1, <1>a, AnswerKeeps DEF Results, CallStates
  <2> QED
    BY <1>a, <2>1, <2>2, <2>3, DisconnectCounts
<1>6. ASSUME NEW d \in Deliveries, Timeout(d) PROVE CountIInv'
  <2>1. /\ caller' = Answer(pending, "error") /\ FailAndDisconnect /\ window' = window
        /\ timers' \subseteq Deliveries
    BY <1>6, <1>a DEF Timeout
  <2>2. caller' \in [Deliveries -> CallStates]
    BY <2>1, <1>a, AnswerKeeps DEF Results
  <2> QED
    BY <1>a, <2>1, <2>2, DisconnectCounts
<1>7. ASSUME NEW batches, NEW events, NEW streams, NEW w, DrainFails(batches, events, streams, w)
      PROVE  FailAndDisconnect /\ window' = window /\ timers' \subseteq Deliveries
  <2>1. FailAndDisconnect /\ window' = window
    BY <1>7 DEF DrainFails
  <2>2. PICK n \in 1 .. DrainLength(batches, events, streams, w) : \E late \in SUBSET pending :
           timers' = (timers \ pending) \cup late \cup {queue[i] : i \in 1 .. (n - 1)}
    BY <1>7, Zenon DEF DrainFails
  <2>3. DrainLength(batches, events, streams, w) \in 0 .. Len(queue)
    BY <1>a, DrainLengthFits
  <2>4. \A i \in 1 .. (n - 1) : queue[i] \in Deliveries
    BY <1>a, <2>2, <2>3
  <2> QED
    BY <1>a, <2>1, <2>2, <2>4
<1>8. ASSUME NEW d \in Deliveries, NEW r \in Results, AckThenSendFails(d, r) PROVE CountIInv'
  <2>1. /\ FailAndDisconnect /\ window' = window /\ timers' \subseteq Deliveries
    BY <1>7, <1>8 DEF AckThenSendFails
  <2>2. caller' = [Answer(pending, "error") EXCEPT ![d] = IF caller[d] = "waiting" THEN r ELSE @]
    BY <1>8 DEF AckThenSendFails
  <2>3. caller' \in [Deliveries -> CallStates]
    BY <2>2, <1>a, AnswerKeeps DEF Results, CallStates
  <2> QED
    BY <1>a, <2>1, <2>3, DisconnectCounts
<1>9. ASSUME NEW w \in Windows, HelloThenSendFails(w) PROVE CountIInv'
  <2>1. /\ FailAndDisconnect /\ window' = window /\ timers' \subseteq Deliveries
        /\ caller' = Answer(pending, "error")
    BY <1>7, <1>9 DEF HelloThenSendFails
  <2>2. caller' \in [Deliveries -> CallStates]
    BY <2>1, <1>a, AnswerKeeps DEF Results
  <2> QED
    BY <1>a, <2>1, <2>2, DisconnectCounts
<1>10. CASE SessionLost
  <2>1. /\ FailAndDisconnect /\ window' = window /\ Cancel(pending)
        /\ caller' = Answer(pending, "error")
    BY <1>10 DEF SessionLost
  <2>2. timers' \subseteq Deliveries /\ caller' \in [Deliveries -> CallStates]
    BY <2>1, <1>a, AnswerKeeps DEF Results, Cancel
  <2> QED
    BY <1>a, <2>1, <2>2, DisconnectCounts
<1>11. ASSUME NEW d \in Deliveries, CallerTimeout(d) PROVE CountIInv'
  <2>1. /\ UNCHANGED <<connected, window, flow, timers>>
        /\ caller' = [caller EXCEPT ![d] = "timeout"]
    BY <1>11 DEF CallerTimeout
  <2>2. /\ caller' \in [Deliveries -> CallStates]
        /\ \A c \in Deliveries : caller[c] # "new" => caller'[c] # "new"
    BY <2>1, <1>a DEF CallStates
  <2> QED
    BY <2>1, <2>2, QuietCounts
<1>12. CASE UNCHANGED clientVars
  BY <1>12, <1>a, QuietCounts DEF clientVars
<1> QED
  BY <1>1, <1>2, <1>3, <1>4, <1>5, <1>6, <1>8, <1>9, <1>10, <1>11, <1>12 DEF ClientNext

\* What a peer was promised is kept: the counters are exactly what is in
\* flight, a delivery in flight has its timer, no stream has two, and the
\* queue never waits behind a head that could be sent, after any sequence of
\* calls, hellos, acks, late timers, failed sends and lost sessions.
THEOREM SessionInvariance == ClientSpec => []ClientIInv
<1>1. ClientInit => CountIInv
  <2> SUFFICES ASSUME ClientInit PROVE CountIInv
    OBVIOUS
  <2>1. UNION {{d} \X (1 .. CountOf[d]) : d \in {}} = {}
    OBVIOUS
  <2>2. Cardinality({}) = 0 /\ Events({}) = 0
    BY <2>1, FS_EmptySet DEF Events
  <2>3. ClientTypeOK
    <3>1. connected \in BOOLEAN
      BY Zenon DEF ClientInit
    <3> QED
      BY <3>1 DEF ClientInit, ClientTypeOK, Elements, Streams
  <2> QED
    BY <2>2, <2>3 DEF ClientInit, CountIInv, HeadIsBlocked, Fresh, Elements
<1>2. FlowIInv /\ CountIInv /\ [ClientNext]_clientVars => CountIInv'
  BY CountStep
<1>3. FlowIInv /\ CountIInv => ClientIInv
  BY DEF FlowIInv, CountIInv, ClientIInv, AccountingExact
<1> QED
  BY <1>1, <1>2, <1>3, FlowInvariance, PTL DEF ClientSpec
=============================================================================
