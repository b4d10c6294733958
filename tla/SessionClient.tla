--------------------------- MODULE SessionClient ----------------------------
(***************************************************************************)
(* FederationSessionClient: the GenServer that owns the websocket session  *)
(* to one peer.  Outbox workers call it to deliver stream batches; it has  *)
(* at most one batch of a stream in flight, keeps to the peer's flow       *)
(* control window, and queues what it may not send yet.                    *)
(*                                                                         *)
(* Every callback is one step.  The deliveries are numbered in the order   *)
(* of the calls.  Requests (replay, snapshot) share the socket only: they  *)
(* matter as one more way to lose the session.                             *)
(***************************************************************************)
EXTENDS Naturals, Sequences, FiniteSets, FiniteSetsExt

CONSTANTS
    Calls,      \* the number of send_delivery calls (bound)
    StreamOf,   \* stream_key of each, or NoStream for ephemeral items
    CountOf,    \* event_count of each
    NoStream,
    Windows,    \* <<max_inflight_batches, max_inflight_events>> a peer may say
    DefaultWindow,
    MaxHellos,  \* bound: hello frames
    MaxLosses   \* bound: sessions lost for a reason other than a delivery

Deliveries == 1..Calls

ASSUME SessionAssumption ==
    /\ Calls \in Nat
    /\ CountOf \in [Deliveries -> Nat \ {0}]
    /\ DOMAIN StreamOf = Deliveries
    /\ Windows \subseteq (Nat \ {0}) \X (Nat \ {0})
    /\ DefaultWindow \in (Nat \ {0}) \X (Nat \ {0})
    /\ MaxHellos \in Nat
    /\ MaxLosses \in Nat

VARIABLES
    connected,          \* socket # nil
    window,             \* max_inflight_batches, max_inflight_events
    pending,            \* pending_deliveries
    queue,              \* queued_deliveries
    inflight_batches,
    inflight_events,
    inflight_streams,
    timers,             \* deliveries whose timer is running or has fired
    caller,             \* what became of each call
    hellos, losses

flow == <<pending, queue, inflight_batches, inflight_events, inflight_streams>>
clientVars == <<connected, window, flow, timers, caller, hellos, losses>>

ClientInit ==
    /\ connected = FALSE
    /\ window = DefaultWindow
    /\ pending = {}
    /\ queue = <<>>
    /\ inflight_batches = 0
    /\ inflight_events = 0
    /\ inflight_streams = {}
    /\ timers = {}
    /\ caller = [d \in Deliveries |-> "new"]
    /\ hellos = 0
    /\ losses = 0

-----------------------------------------------------------------------------
\* event_count of the deliveries in S together: the events of the batches.
Events(S) == Cardinality(UNION {{d} \X (1..CountOf[d]) : d \in S})
Streams(S) == {StreamOf[d] : d \in S} \ {NoStream}
Elements(q) == {q[i] : i \in DOMAIN q}

\* Mutant: any number of batches of a stream may be in flight.
CanSend_AnyStream(d, batches, events, streams) ==
    /\ batches < window[1]
    /\ events + CountOf[d] <= window[2]

\* can_send_delivery?
CanSend(d, batches, events, streams) ==
    /\ batches < window[1]
    /\ events + CountOf[d] <= window[2]
    /\ StreamOf[d] \notin streams

\* GenServer.reply reaches a caller that is still waiting.
Answer(S, result) ==
    [d \in Deliveries |-> IF d \in S /\ caller[d] = "waiting" THEN result ELSE caller[d]]

\* cancel_timer comes too late for a timer whose message is in the mailbox.
Cancel(S) == \E late \in SUBSET S : timers' = (timers \ S) \cup (late \cap timers)

\* Mutant: the streams in flight survive the session.
FailAndDisconnect_KeepsStreams ==
    /\ connected' = FALSE
    /\ pending' = {}
    /\ queue' = <<>>
    /\ inflight_batches' = 0
    /\ inflight_events' = 0
    /\ UNCHANGED inflight_streams

\* fail_and_disconnect: the queue is emptied, and its callers not answered.
FailAndDisconnect ==
    /\ connected' = FALSE
    /\ pending' = {}
    /\ queue' = <<>>
    /\ inflight_batches' = 0
    /\ inflight_events' = 0
    /\ inflight_streams' = {}

-----------------------------------------------------------------------------
\* The next call, from a worker's task.
NextCall(d) == caller[d] = "new" /\ \A c \in 1..(d - 1) : caller[c] # "new"

\* handle_call({:delivery, ...}): connected, perhaps only now, and the
\* delivery may be sent at once, whatever is in the queue.
CallSent(d) ==
    /\ NextCall(d)
    /\ CanSend(d, inflight_batches, inflight_events, inflight_streams)
    /\ connected' = TRUE
    /\ pending' = pending \cup {d}
    /\ inflight_batches' = inflight_batches + 1
    /\ inflight_events' = inflight_events + CountOf[d]
    /\ inflight_streams' = inflight_streams \cup Streams({d})
    /\ timers' = timers \cup {d}
    /\ caller' = [caller EXCEPT ![d] = "waiting"]
    /\ UNCHANGED <<window, queue, hellos, losses>>

CallQueued(d) ==
    /\ NextCall(d)
    /\ ~CanSend(d, inflight_batches, inflight_events, inflight_streams)
    /\ connected' = TRUE
    /\ queue' = Append(queue, d)
    /\ caller' = [caller EXCEPT ![d] = "waiting"]
    /\ UNCHANGED <<window, pending, inflight_batches, inflight_events, inflight_streams, timers, hellos, losses>>

\* The connection cannot be opened, or the frame not be sent.
CallFails(d) ==
    /\ NextCall(d)
    /\ losses < MaxLosses
    /\ losses' = losses + 1
    /\ caller' = [Answer(pending, "error") EXCEPT ![d] = "error"]
    /\ Cancel(pending)
    /\ FailAndDisconnect
    /\ UNCHANGED <<window, hellos>>

-----------------------------------------------------------------------------
\* drain_delivery_queue from a state with this much in flight under window w:
\* whether the first k of the queue can be sent one after the other.
Fits(k, batches, events, streams, w) ==
    \A i \in 1..k :
        LET before == {queue[j] : j \in 1..(i - 1)} IN
        /\ batches + i - 1 < w[1]
        /\ events + Events(before) + CountOf[queue[i]] <= w[2]
        /\ StreamOf[queue[i]] \notin streams \cup Streams(before)

DrainLength(batches, events, streams, w) ==
    Max({k \in 0..Len(queue) : Fits(k, batches, events, streams, w)})

\* Deliveries kept pending, and what is sent from the queue when drained.
Drain(kept, batches, events, streams, w) ==
    LET k == DrainLength(batches, events, streams, w)
        now == {queue[i] : i \in 1..k} IN
    /\ pending' = kept \cup now
    /\ queue' = SubSeq(queue, k + 1, Len(queue))
    /\ inflight_batches' = batches + k
    /\ inflight_events' = events + Events(now)
    /\ inflight_streams' = streams \cup Streams(now)
    /\ \E late \in SUBSET (pending \ kept) :
          timers' = (timers \ (pending \ kept)) \cup late \cup now

\* A hello frame changes the window; continue_after_socket_data drains.
Hello(w) ==
    /\ connected
    /\ hellos < MaxHellos
    /\ hellos' = hellos + 1
    /\ window' = w
    /\ Drain(pending, inflight_batches, inflight_events, inflight_streams, w)
    /\ UNCHANGED <<connected, caller, losses>>

Less(n, m) == IF n >= m THEN n - m ELSE 0

\* Mutant: the events of an answered batch are not given back.
Ack_KeepsEvents(d, result) ==
    /\ connected
    /\ d \in pending
    /\ caller' = Answer({d}, result)
    /\ Drain(pending \ {d}, Less(inflight_batches, 1), inflight_events,
             inflight_streams \ {StreamOf[d]}, window)
    /\ UNCHANGED <<connected, window, hellos, losses>>

\* An ack frame: fulfill_pending_delivery, decrement_inflight, drain.
Ack(d, result) ==
    /\ connected
    /\ d \in pending
    /\ caller' = Answer({d}, result)
    /\ Drain(pending \ {d}, Less(inflight_batches, 1), Less(inflight_events, CountOf[d]),
             inflight_streams \ {StreamOf[d]}, window)
    /\ UNCHANGED <<connected, window, hellos, losses>>

\* A queued frame cannot be sent although its turn has come: the deliveries
\* sent in the same drain before it are forgotten, their timers are not, and
\* the error path starts again from the state before the received frame.
DrainFails(batches, events, streams, w) ==
    /\ losses < MaxLosses
    /\ losses' = losses + 1
    /\ \E n \in 1..DrainLength(batches, events, streams, w) :
          \E late \in SUBSET pending :
              timers' = (timers \ pending) \cup late \cup {queue[i] : i \in 1..(n - 1)}
    /\ FailAndDisconnect
    /\ UNCHANGED <<window, hellos>>

HelloThenSendFails(w) ==
    /\ connected
    /\ caller' = Answer(pending, "error")
    /\ DrainFails(inflight_batches, inflight_events, inflight_streams, w)

AckThenSendFails(d, result) ==
    /\ connected
    /\ d \in pending
    /\ caller' = [Answer(pending, "error") EXCEPT ![d] = IF caller[d] = "waiting" THEN result ELSE @]
    /\ DrainFails(Less(inflight_batches, 1), Less(inflight_events, CountOf[d]),
                  inflight_streams \ {StreamOf[d]}, window)

-----------------------------------------------------------------------------
\* handle_info({:session_timeout, :delivery, id}): the session is given up,
\* even when the delivery was answered long ago.
Timeout(d) ==
    /\ d \in timers
    /\ \E late \in SUBSET (pending \ {d}) :
          timers' = (timers \ (pending \cup {d})) \cup late
    /\ caller' = Answer(pending, "error")
    /\ FailAndDisconnect
    /\ UNCHANGED <<window, hellos, losses>>

\* The socket is closed or fails, a frame cannot be decoded, or a request
\* fails or times out.
SessionLost ==
    /\ connected
    /\ losses < MaxLosses
    /\ losses' = losses + 1
    /\ caller' = Answer(pending, "error")
    /\ Cancel(pending)
    /\ FailAndDisconnect
    /\ UNCHANGED <<window, hellos>>

\* GenServer.call gives up; the client is not told.
CallerTimeout(d) ==
    /\ caller[d] = "waiting"
    /\ caller' = [caller EXCEPT ![d] = "timeout"]
    /\ UNCHANGED <<connected, window, flow, timers, hellos, losses>>

Results == {"ok", "error"}

ClientNext ==
    \/ \E d \in Deliveries :
          \/ CallSent(d) \/ CallQueued(d) \/ CallFails(d)
          \/ Timeout(d) \/ CallerTimeout(d)
          \/ \E r \in Results : Ack(d, r) \/ AckThenSendFails(d, r)
    \/ \E w \in Windows : Hello(w) \/ HelloThenSendFails(w)
    \/ SessionLost

ClientSpec == ClientInit /\ [][ClientNext]_clientVars

\* A delivery in flight is answered or its timer fires.
ClientFairSpec ==
    /\ ClientSpec
    /\ \A d \in Deliveries : WF_clientVars(Timeout(d) \/ \E r \in Results : Ack(d, r))

-----------------------------------------------------------------------------
ClientTypeOK ==
    /\ connected \in BOOLEAN
    /\ window \in Windows \cup {DefaultWindow}
    /\ pending \subseteq Deliveries
    /\ Elements(queue) \subseteq Deliveries
    /\ inflight_batches \in Nat
    /\ inflight_events \in Nat
    /\ inflight_streams \subseteq Streams(Deliveries)
    /\ timers \subseteq Deliveries
    /\ caller \in [Deliveries -> {"new", "waiting", "ok", "error", "timeout"}]

\* The window counters are exactly what is in flight, after any sequence of
\* acks, timeouts, failed sends and lost sessions: a counter that drifted up
\* would close the window for good, one that drifted down overrun the peer.
AccountingExact ==
    /\ inflight_batches = Cardinality(pending)
    /\ inflight_events = Events(pending)
    /\ inflight_streams = Streams(pending)

\* Two batches of one stream are never in flight together, so a peer cannot
\* handle them out of order, and none is in flight without a session.
OnePerStream ==
    /\ \A c, d \in pending : c # d => StreamOf[c] # StreamOf[d] \/ StreamOf[c] = NoStream
    /\ ~connected => pending = {} /\ queue = <<>>

\* No lost wakeup: between callbacks the head of the queue is one that may
\* really not be sent yet, whichever of an ack, a hello or a lost session
\* opened the window.
HeadIsBlocked ==
    queue # <<>> => ~CanSend(Head(queue), inflight_batches, inflight_events, inflight_streams)

\* The queue moves although windows shrink, answers get lost and sessions are
\* torn down, as long as every window has room for every batch: whatever was
\* queued is sent or dropped, and once the calls have ended the queue is empty.
QueueMoves == <>[](queue = <<>>)

\* All of it, and that a delivery in flight has its timer, so that the session
\* cannot wait for an ack for ever.
ClientIInv ==
    /\ ClientTypeOK
    /\ AccountingExact
    /\ OnePerStream
    /\ HeadIsBlocked
    /\ pending \subseteq timers
=============================================================================
