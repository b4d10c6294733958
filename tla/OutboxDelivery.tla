--------------------------- MODULE OutboxDelivery ---------------------------
(***************************************************************************)
(* The durable outbox of outgoing federation events: rows inserted by      *)
(* Dispatch, delivered per target domain by Oban workers that run          *)
(* Delivery.process_outbox_event, rescanned by the retry worker and pruned *)
(* by the retention worker.                                                *)
(*                                                                         *)
(* One worker run is one PostgreSQL transaction in which peers are called. *)
(* rows holds what is committed, view what the transaction holding the     *)
(* row's lock sees; they agree on every row that is not locked.  Time is   *)
(* only the question whether next_retry_at has passed.                     *)
(***************************************************************************)
EXTENDS Naturals, FiniteSets

CONSTANTS
    Rows,           \* outbox row ids
    Domains,        \* peer domains
    TargetsOf,      \* target_domains of each row
    ExtensionRows,  \* rows whose event type a peer may not support
    Workers,        \* concurrent jobs of the messaging_federation queue
    NoRow, NoDomain,
    MaxAttempts,    \* max_attempts, stored with each row
    BatchSize,      \* delivery_batch_size: a row and its siblings
    PeerLimit,      \* peer_batch_limit: rows in one request
    ScanLimit,      \* rows the retry worker enqueues at a time
    MaxCrashes      \* bound: worker crashes

ASSUME OutboxAssumption ==
    /\ Rows \subseteq Nat
    /\ TargetsOf \in [Rows -> SUBSET Domains]
    /\ \A r \in Rows : TargetsOf[r] # {}
    /\ ExtensionRows \subseteq Rows
    /\ MaxAttempts \in Nat \ {0}
    /\ BatchSize \in Nat \ {0}
    /\ PeerLimit \in Nat \ {0}
    /\ ScanLimit \in Nat \ {0}
    /\ MaxCrashes \in Nat
    /\ NoRow \notin Rows
    /\ NoDomain \notin Domains

VARIABLES
    rows,       \* committed outbox rows
    view,       \* rows as their lock holder sees them
    jobs,       \* rows with an Oban job waiting
    job,        \* the row each worker was started for
    held,       \* rows locked by each worker's transaction
    todo,       \* pending domains a worker has still to visit
    domain,     \* the domain being delivered to
    unsent,     \* rows of the current domain's batch not yet pushed
    crashes

vars == <<rows, view, jobs, job, held, todo, domain, unsent, crashes>>
workVars == <<job, held, todo, domain, unsent>>

Statuses == {"absent", "pending", "delivered", "failed", "pruned"}

Row == [status : Statuses, delivered : SUBSET Domains, attempts : Nat, due : BOOLEAN]

Init ==
    /\ rows = [r \in Rows |-> [status |-> "absent", delivered |-> {}, attempts |-> 0, due |-> FALSE]]
    /\ view = rows
    /\ jobs = {}
    /\ job = [w \in Workers |-> NoRow]
    /\ held = [w \in Workers |-> {}]
    /\ todo = [w \in Workers |-> {}]
    /\ domain = [w \in Workers |-> NoDomain]
    /\ unsent = [w \in Workers |-> {}]
    /\ crashes = 0

Locked(r) == \E w \in Workers : r \in held[w]

-----------------------------------------------------------------------------
\* Dispatch.do_enqueue_nonempty_outbox_event: the row is inserted, then its
\* job; the job insert may fail or never happen (its result is ignored).
Enqueue(r) ==
    /\ rows[r].status = "absent"
    /\ rows' = [rows EXCEPT ![r].status = "pending", ![r].due = TRUE]
    /\ view' = [view EXCEPT ![r] = rows'[r]]
    /\ jobs' \in {jobs, jobs \cup {r}}
    /\ UNCHANGED <<workVars, crashes>>

\* Oban starts the job; max_attempts: 1, so it is gone whatever happens next.
TakeJob(w, r) ==
    /\ job[w] = NoRow
    /\ r \in jobs
    /\ jobs' = jobs \ {r}
    /\ job' = [job EXCEPT ![w] = r]
    /\ UNCHANGED <<rows, view, held, todo, domain, unsent, crashes>>

Busy(w) == job[w] # NoRow /\ job[w] \in held[w]

Waiting(w) == job[w] # NoRow /\ job[w] \notin held[w]

\* process_outbox_event goes on only with a pending row whose retry is due.
Open(r) == view[r].status = "pending" /\ view[r].due

\* process_outbox_event: not_found, already_delivered, already_failed, not_due.
Discard(w) ==
    /\ Waiting(w)
    /\ ~Locked(job[w])
    /\ ~Open(job[w])
    /\ job' = [job EXCEPT ![w] = NoRow]
    /\ UNCHANGED <<rows, view, jobs, held, todo, domain, unsent, crashes>>

\* Mutant: domains that have already acknowledged are visited again.
PendingDomains_All(r) == TargetsOf[r]

PendingDomains(r) == TargetsOf[r] \ view[r].delivered

\* process_outbox_event: the row is locked and still open; do_process_outbox
\* computes its pending domains (mark_outbox_fully_delivered if none is left).
LockRow(w) ==
    LET r == job[w] IN
    /\ Waiting(w)
    /\ ~Locked(r)
    /\ Open(r)
    /\ held' = [held EXCEPT ![w] = {r}]
    /\ todo' = [todo EXCEPT ![w] = PendingDomains(r)]
    /\ view' = IF PendingDomains(r) = {}
                 THEN [view EXCEPT ![r].status = "delivered", ![r].delivered = TargetsOf[r], ![r].due = TRUE]
                 ELSE view
    /\ UNCHANGED <<rows, jobs, job, domain, unsent, crashes>>

-----------------------------------------------------------------------------
\* The k elements of S with the smallest ids.
Lowest(S, k) == {r \in S : Cardinality({q \in S : q < r}) < k}

\* outbox_batch_for_domain: other open rows for this domain, FOR UPDATE SKIP
\* LOCKED; the query sees the transaction's own writes.
Siblings(w, d) ==
    Lowest({s \in Rows \ {job[w]} :
              /\ \A v \in Workers \ {w} : s \notin held[v]
              /\ Open(s)
              /\ view[s].attempts < MaxAttempts
              /\ d \in PendingDomains(s)}, BatchSize - 1)

\* Mutant: every acknowledgement is taken for the last one.
Success_AlwaysDelivered(row, r, d) ==
    [row EXCEPT !.delivered = @ \cup {d}, !.attempts = @ + 1, !.due = TRUE, !.status = "delivered"]

\* record_outbox_domain_success: counts an attempt too, and puts the row back
\* to pending unless every target has it.
Success(row, r, d) ==
    [row EXCEPT !.delivered = @ \cup {d},
                !.attempts = @ + 1,
                !.due = TRUE,
                !.status = IF row.delivered \cup {d} = TargetsOf[r] THEN "delivered" ELSE "pending"]

\* record_outbox_domain_failure: backoff, or failed for good.
Failure(row) ==
    [row EXCEPT !.attempts = @ + 1,
                !.due = FALSE,
                !.status = IF row.attempts + 1 >= MaxAttempts THEN "failed" ELSE "pending"]

\* The rows of ok are recorded as successes for d, those of bad as failures.
Record(ok, bad, d) ==
    view' = [r \in Rows |-> IF r \in ok THEN Success(view[r], r, d)
                            ELSE IF r \in bad THEN Failure(view[r])
                            ELSE view[r]]

\* deliver_outbox_domain_batch up to the first push.  outgoing_peer may know
\* the domain or not at this moment; a known peer that does not support the
\* extension types has those rows recorded as successes without sending them.
StartDomain(w, d, known, supportsExtensions) ==
    LET batch == {job[w]} \cup Siblings(w, d)
        unsupported == IF supportsExtensions THEN {} ELSE batch \cap ExtensionRows IN
    /\ Busy(w)
    /\ unsent[w] = {}
    /\ d \in todo[w]
    /\ held' = [held EXCEPT ![w] = @ \cup batch]
    /\ todo' = [todo EXCEPT ![w] = @ \ {d}]
    /\ IF known
         THEN /\ Record(unsupported, {}, d)
              /\ unsent' = [unsent EXCEPT ![w] = batch \ unsupported]
              /\ domain' = [domain EXCEPT ![w] = IF batch \ unsupported = {} THEN NoDomain ELSE d]
         ELSE /\ Record({}, batch, d)
              /\ UNCHANGED <<unsent, domain>>
    /\ UNCHANGED <<rows, jobs, job, crashes>>

Chunk(w) == Lowest(unsent[w], PeerLimit)

\* push_event_batch_to_peer, over whichever transport: the rows that come back
\* with a successful status.  None after a transport error, even if the peer
\* has got some of them; all after a 2xx with an unreadable body; otherwise
\* what the peer says of each.
PushResults(chunk) == SUBSET chunk

\* One request of the batch, and apply_outbox_batch_results.  Any failure ends
\* the domain and leaves later chunks untouched.
PushChunk(w, ok) ==
    LET chunk == Chunk(w)
        rest == IF ok = chunk THEN unsent[w] \ chunk ELSE {} IN
    /\ Busy(w)
    /\ unsent[w] # {}
    /\ ok \in PushResults(chunk)
    /\ Record(ok, chunk \ ok, domain[w])
    /\ unsent' = [unsent EXCEPT ![w] = rest]
    /\ domain' = [domain EXCEPT ![w] = IF rest = {} THEN NoDomain ELSE @]
    /\ UNCHANGED <<rows, jobs, job, held, todo, crashes>>

Finish(w) ==
    /\ job' = [job EXCEPT ![w] = NoRow]
    /\ held' = [held EXCEPT ![w] = {}]
    /\ todo' = [todo EXCEPT ![w] = {}]
    /\ domain' = [domain EXCEPT ![w] = NoDomain]
    /\ unsent' = [unsent EXCEPT ![w] = {}]

\* Every domain visited: the transaction commits.
Commit(w) ==
    /\ Busy(w)
    /\ todo[w] = {}
    /\ unsent[w] = {}
    /\ rows' = [r \in Rows |-> IF r \in held[w] THEN view[r] ELSE rows[r]]
    /\ Finish(w)
    /\ UNCHANGED <<view, jobs, crashes>>

\* The worker dies, or a session push times out (Task.async_stream exits):
\* everything recorded in this run is rolled back although peers may have
\* received the events.
Crash(w) ==
    /\ job[w] # NoRow
    /\ crashes < MaxCrashes
    /\ crashes' = crashes + 1
    /\ view' = [r \in Rows |-> IF r \in held[w] THEN rows[r] ELSE view[r]]
    /\ Finish(w)
    /\ UNCHANGED <<rows, jobs>>

-----------------------------------------------------------------------------
\* next_retry_at passes.
BecomeDue(r) ==
    /\ view[r].status = "pending"
    /\ ~view[r].due
    /\ view' = [view EXCEPT ![r].due = TRUE]
    /\ rows' = [rows EXCEPT ![r].due = TRUE]
    /\ UNCHANGED <<jobs, workVars, crashes>>

\* The rows enqueue_due_outbox_events selects, from committed data.
Retryable(r) ==
    /\ rows[r].status = "pending"
    /\ rows[r].attempts < MaxAttempts
    /\ rows[r].due

\* Mutant: only the rows that were never tried are scanned.
EnqueueDue_FirstTriesOnly ==
    \E S \in SUBSET {r \in Rows : Retryable(r) /\ rows[r].attempts = 0} :
        /\ S # {}
        /\ ~(S \subseteq jobs)
        /\ Cardinality(S) <= ScanLimit
        /\ jobs' = jobs \cup S
        /\ UNCHANGED <<rows, view, workVars, crashes>>

\* enqueue_due_outbox_events: a job for each of the first ScanLimit due rows
\* (in any order here), whether or not one is waiting or running already.
EnqueueDue ==
    \E S \in SUBSET {r \in Rows : Retryable(r)} :
        /\ S # {}
        /\ ~(S \subseteq jobs)
        /\ Cardinality(S) <= ScanLimit
        /\ S = {r \in Rows : Retryable(r)} \/ Cardinality(S) = ScanLimit
        /\ jobs' = jobs \cup S
        /\ UNCHANGED <<rows, view, workVars, crashes>>

\* Maintenance.prune_old_outbox_rows.
Prune(r) ==
    /\ rows[r].status \in {"delivered", "failed"}
    /\ ~Locked(r)
    /\ rows' = [rows EXCEPT ![r].status = "pruned"]
    /\ view' = [view EXCEPT ![r].status = "pruned"]
    /\ UNCHANGED <<jobs, workVars, crashes>>

WorkerStep(w) ==
    \/ \E r \in Rows : TakeJob(w, r)
    \/ Discard(w)
    \/ LockRow(w)
    \/ \E d \in Domains, known, ext \in BOOLEAN : StartDomain(w, d, known, ext)
    \/ \E ok \in SUBSET Rows : PushChunk(w, ok)
    \/ Commit(w)

Next ==
    \/ \E r \in Rows : Enqueue(r) \/ BecomeDue(r) \/ Prune(r)
    \/ \E w \in Workers : WorkerStep(w) \/ Crash(w)
    \/ EnqueueDue

Spec == Init /\ [][Next]_vars

\* Oban keeps running jobs, the retry worker is started every minute and
\* clocks advance.  Nothing is assumed of what peers answer.
FairSpec ==
    /\ Spec
    /\ \A w \in Workers : WF_vars(WorkerStep(w))
    /\ \A r \in Rows : WF_vars(BecomeDue(r))
    /\ WF_vars(EnqueueDue)
-----------------------------------------------------------------------------
TypeOK ==
    /\ rows \in [Rows -> Row]
    /\ view \in [Rows -> Row]
    /\ jobs \subseteq Rows
    /\ job \in [Workers -> Rows \cup {NoRow}]
    /\ held \in [Workers -> SUBSET Rows]
    /\ todo \in [Workers -> SUBSET Domains]
    /\ domain \in [Workers -> Domains \cup {NoDomain}]
    /\ unsent \in [Workers -> SUBSET Rows]
    /\ \A w \in Workers : unsent[w] # {} => domain[w] \in Domains
    /\ crashes \in 0..MaxCrashes

\* Two runs never work on one row at a time, whether a row is the job of one
\* and a sibling of the other or a sibling of both; and only a row that was
\* pending and due when committed is ever worked on.
OneRunPerRow ==
    /\ \A v, w \in Workers : v # w => held[v] \cap held[w] = {}
    /\ \A w \in Workers : \A r \in held[w] : rows[r].status = "pending" /\ rows[r].due

\* A row is delivered exactly when every target domain has acknowledged it
\* (or needs not be told), and failed only with its retry budget used up;
\* this is so of what a running transaction has written, too.
StatusMeans ==
    \A r \in Rows : \A row \in {rows[r], view[r]} :
        /\ row.status = "delivered" => row.delivered = TargetsOf[r]
        /\ row.status \in {"absent", "pending", "failed"} => row.delivered # TargetsOf[r]
        /\ row.status = "failed" => row.attempts >= MaxAttempts
        /\ row.status = "absent" => row.attempts = 0
        /\ row.delivered \subseteq TargetsOf[r]

\* A row out of the retry worker's reach (pending with no attempt left) is one
\* for which some domain has acknowledged: failures alone end in failed.
ExhaustedPendingHasSuccess ==
    \A r \in Rows : \A row \in {rows[r], view[r]} :
        row.status = "pending" /\ row.attempts >= MaxAttempts => row.delivered # {}

\* What is about to be pushed to a domain is targeted at it and has not been
\* acknowledged by it, although siblings and pending domains were read at
\* different moments of a run that has recorded other results since.
NothingPushedTwice ==
    \A w \in Workers : \A r \in unsent[w] :
        domain[w] \in TargetsOf[r] \ view[r].delivered

\* No interleaving of runs, crashes, scans and retention takes back an
\* acknowledgement that was committed.
AcksNeverLost == [][\A r \in Rows : rows[r].delivered \subseteq rows'[r].delivered]_vars

\* Once committed, delivered and failed are final: a late duplicate job or a
\* sibling query never reopens the row.
TerminalIsFinal ==
    [][\A r \in Rows :
        rows[r].status \in {"delivered", "failed"} =>
            rows'[r] \in {rows[r], [rows[r] EXCEPT !.status = "pruned"]}]_vars

\* Whatever peers answer and although jobs are lost in crashes, every row
\* comes to an end: delivered, failed, or (see DueRowsReenqueued) pending with
\* its retry budget used up.
EventuallySettled ==
    \A r \in Rows :
        rows[r].status = "pending" ~>
            rows[r].status # "pending" \/ rows[r].attempts >= MaxAttempts

\* The retry worker "periodically re-enqueues due messaging federation outbox
\* rows": a pending row that is due is enqueued again or leaves that state.
\* Violated: successes use up attempt_count too, and put even a row that has
\* just become failed back to pending, so a row with one domain down can end
\* a run pending and due with no attempt left, where no scan selects it.
DueRowsReenqueued ==
    \A r \in Rows :
        rows[r].status = "pending" /\ rows[r].due ~>
            r \in jobs \/ rows[r].status # "pending"
-----------------------------------------------------------------------------
\* A row nobody has locked reads the same for everyone, and a transaction only
\* adds acknowledgements to what it found.
ViewAgrees ==
    \A r \in Rows :
        /\ ~Locked(r) => view[r] = rows[r]
        /\ rows[r].delivered \subseteq view[r].delivered

\* What a run holds, has to visit and has to send.
RunShape ==
    \A w \in Workers :
        /\ held[w] # {} => job[w] \in held[w] /\ todo[w] \subseteq PendingDomains(job[w])
        /\ unsent[w] \subseteq held[w]
        /\ unsent[w] # {} => domain[w] \notin todo[w]

\* The inductive invariant.  StatusMeans is not inductive by itself: that a
\* failure leaves a domain unacknowledged needs NothingPushedTwice, and that
\* needs the runs to be kept apart by OneRunPerRow.
IInv ==
    /\ TypeOK
    /\ OneRunPerRow
    /\ ViewAgrees
    /\ RunShape
    /\ StatusMeans
    /\ ExhaustedPendingHasSuccess
    /\ NothingPushedTwice
=============================================================================
