------------------------- MODULE IngressRateLimiter -------------------------
(***************************************************************************)
(* The limits on what one peer domain may send in a minute.  Request       *)
(* processes call check_peer and check_durable concurrently on a public    *)
(* ETS table; one :ets.update_counter is one step, everything between two  *)
(* of them may be interleaved, and a periodic cleanup deletes old windows. *)
(***************************************************************************)
EXTENDS Integers, Sequences, FiniteSets

CONSTANTS
    Checks,     \* calls of check_peer or check_durable, each made once
    Buckets,    \* {:peer, domain, lane} and {:room, domain, stream_id}
    BatchOf,    \* the buckets and costs of a call, in order of reservation
    LimitOf,    \* the limit of each bucket
    MaxWindow   \* bound: minutes

ASSUME LimiterAssumption ==
    /\ IsFiniteSet(Checks)
    /\ \A c \in Checks : BatchOf[c] \in Seq([bucket : Buckets, cost : Nat])
    /\ LimitOf \in [Buckets -> Nat]
    /\ MaxWindow \in Nat

Windows == 0..MaxWindow

VARIABLES
    now,        \* the current window index
    table,      \* the counters in the table, by key <<bucket, window>>
    call,       \* what each call does next
    win,        \* the window index it computed
    taken       \* how many of its buckets it has reserved

limiterVars == <<now, table, call, win, taken>>

LimiterInit ==
    /\ now = 0
    /\ table = <<>>
    /\ call = [c \in Checks |-> "new"]
    /\ win = [c \in Checks |-> 0]
    /\ taken = [c \in Checks |-> 0]

-----------------------------------------------------------------------------
Running(c) == call[c] \in {"reserve", "undo", "rollback"}
Key(c, i) == <<BatchOf[c][i].bucket, win[c]>>
Cost(c, i) == BatchOf[c][i].cost
Limit(c, i) == LimitOf[BatchOf[c][i].bucket]

\* :ets.update_counter/4 starts a missing counter at 0.
Add(key, n) ==
    table' = [k \in DOMAIN table \cup {key} |->
                IF k # key THEN table[k] ELSE IF k \in DOMAIN table THEN table[k] + n ELSE n]

\* check_buckets reads the clock (the limiter is enabled and the domain not
\* exempt: otherwise it does nothing).
Start(c) ==
    /\ call[c] = "new"
    /\ call' = [call EXCEPT ![c] = "reserve"]
    /\ win' = [win EXCEPT ![c] = now]
    /\ UNCHANGED <<now, table, taken>>

\* Mutant: the count before the reservation is compared.
Reserve_ComparesOld(c) ==
    LET i == taken[c] + 1
        old == IF Key(c, i) \in DOMAIN table THEN table[Key(c, i)] ELSE 0 IN
    /\ call[c] = "reserve"
    /\ taken[c] < Len(BatchOf[c])
    /\ Add(Key(c, i), Cost(c, i))
    /\ call' = [call EXCEPT ![c] = IF old > Limit(c, i) THEN "undo" ELSE @]
    /\ taken' = [taken EXCEPT ![c] = i]
    /\ UNCHANGED <<now, win>>

\* reserve: count first, look at the result afterwards.
Reserve(c) ==
    LET i == taken[c] + 1 IN
    /\ call[c] = "reserve"
    /\ taken[c] < Len(BatchOf[c])
    /\ Add(Key(c, i), Cost(c, i))
    /\ call' = [call EXCEPT ![c] = IF table'[Key(c, i)] > Limit(c, i) THEN "undo" ELSE @]
    /\ taken' = [taken EXCEPT ![c] = i]
    /\ UNCHANGED <<now, win>>

\* reserve_all([], ...): every bucket had room.
Admit(c) ==
    /\ call[c] = "reserve"
    /\ taken[c] = Len(BatchOf[c])
    /\ call' = [call EXCEPT ![c] = "ok"]
    /\ UNCHANGED <<now, table, win, taken>>

\* :ets.update_counter/3 fails on a counter that is not there, and with it
\* the request.
GiveBack(c) ==
    LET i == taken[c] IN
    /\ taken' = [taken EXCEPT ![c] = i - 1]
    /\ IF Key(c, i) \in DOMAIN table
         THEN /\ Add(Key(c, i), 0 - Cost(c, i))
              /\ call' = [call EXCEPT ![c] = IF i = 1 THEN "limited" ELSE "rollback"]
         ELSE /\ call' = [call EXCEPT ![c] = "crashed"]
              /\ UNCHANGED table
    /\ UNCHANGED <<now, win>>

\* reserve gives back what it has added to the bucket that was full.
Undo(c) == call[c] = "undo" /\ GiveBack(c)

\* reserve_all gives back the buckets taken before, the last one first.
RollbackTaken(c) == call[c] = "rollback" /\ GiveBack(c)

\* A minute passes.  A call takes far less: it sees at most one window end.
Tick ==
    /\ now < MaxWindow
    /\ \A c \in Checks : Running(c) => win[c] = now
    /\ now' = now + 1
    /\ UNCHANGED <<table, call, win, taken>>

\* handle_info(:cleanup)
Cleanup ==
    LET old == {k \in DOMAIN table : k[2] < now - 1} IN
    /\ old # {}
    /\ table' = [k \in DOMAIN table \ old |-> table[k]]
    /\ UNCHANGED <<now, call, win, taken>>

CheckStep(c) == Start(c) \/ Reserve(c) \/ Admit(c) \/ Undo(c) \/ RollbackTaken(c)

LimiterNext == Tick \/ Cleanup \/ \E c \in Checks : CheckStep(c)

LimiterSpec == LimiterInit /\ [][LimiterNext]_limiterVars

-----------------------------------------------------------------------------
\* Each bucket of each call, by call and position; those of the calls in S
\* that are reserved in window w of bucket b; and their costs together.
Slots == UNION {{c} \X DOMAIN BatchOf[c] : c \in Checks}

Taken(S, b, w) ==
    {s \in Slots : s[1] \in S /\ s[2] <= taken[s[1]] /\ Key(s[1], s[2]) = <<b, w>>}

Weight(T) == Cardinality(UNION {{s} \X (1..Cost(s[1], s[2])) : s \in T})

Reserved(S, b, w) == Weight(Taken(S, b, w))

Admitted == {c \in Checks : call[c] = "ok"}

\* No interleaving of reservations and rollbacks, and no cleanup, lets more
\* through in a window than a bucket's limit.
NeverOverAdmitted ==
    \A b \in Buckets, w \in Windows : Reserved(Admitted, b, w) <= LimitOf[b]

\* A counter is what was admitted plus what calls still running have taken:
\* once they have ended, rejected traffic has used up nothing, and no counter
\* is below what it should be.
CountersExact ==
    \A k \in DOMAIN table : table[k] = Reserved(Checks, k[1], k[2])

\* A rollback never meets a counter that the cleanup has deleted.
NoCrash == \A c \in Checks : call[c] # "crashed"

\* The limiter as its callers rely on it: no bucket is exceeded, counters are
\* exact, and no call fails on a counter that is gone (reserve_all, rollback,
\* handle_info).
BudgetsHold == NeverOverAdmitted /\ CountersExact /\ NoCrash
=============================================================================
