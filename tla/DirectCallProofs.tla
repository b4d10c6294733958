-------------------------- MODULE DirectCallProofs --------------------------
(***************************************************************************)
(* Every candidate is kept, a phone rings only for a call that is neither  *)
(* connected nor over, and the pages report a client in order: for any     *)
(* number of clients, ICE restarts and events.                             *)
(*                                                                         *)
(* The argument is about who may be connected.  A client that cleaned up   *)
(* can still make a peer connection, in a function that waited for the     *)
(* microphone, but no signal mentions it: signals are sent on the channel, *)
(* which cleanup() has left.  So nobody holds its description, and it is   *)
(* never connected after its call was reported over.                       *)
(***************************************************************************)
EXTENDS DirectCall, SequenceTheorems, WellFoundedInduction, TLAPS

Roles == {"start", "answer", "reject", "resume"}
Logs == Seq({"connected", "ended"})
Names ==
    {"peer_ready", "offer", "answer", "ice_candidate", "call_rejected", "call_ended",
     "call_missed"}
Kinds == {"none", "ready", "offer", "answer", "restart"}
Points == {"never", "media", "remote", "answer", "offer"}

\* The peer connections a description may come from: of a client that is gone,
\* only those made before it went.
Peers(f) ==
    {NoPeer} \cup
    {p \in (DOMAIN f) \X Nat :
        /\ p[2] <= f[p[1]].gen
        /\ f[p[1]].live \/ ~f[p[1]].peer \/ p[2] < f[p[1]].gen}

\* A description comes from somebody.
Signals(P) ==
    {m \in [t : Names, from : P] : m.from = NoPeer => m.t \notin {"offer", "answer"}}
Tasks(P) ==
    {t \in [k : Kinds, at : Points, from : P] :
        t.from = NoPeer => t.k \notin {"offer", "answer"}}

Clients(P) ==
    [user : Users, role : Roles, main : {"join", "wait", "media", "offer", "none"},
     live : BOOLEAN, chan : BOOLEAN, inbox : Seq(Signals(P)), stream : BOOLEAN,
     peer : BOOLEAN, gen : Nat, sig : {"stable", "local", "remote"}, remote : P,
     remoteDescriptionSet : BOOLEAN, pendingOffer : BOOLEAN, peerReady : BOOLEAN,
     shouldInitiate : BOOLEAN, answerInProgress : BOOLEAN, attempts : Nat, timers : Nat,
     conn : {"new", "broken", "connected"}, tasks : Seq(Tasks(P)),
     queue : SUBSET Nat, added : SUBSET Nat, got : SUBSET Nat, sent : BOOLEAN,
     told : BOOLEAN, ended : BOOLEAN, log : Logs]

Sound(k) ==
    /\ k.chan => k.live
    /\ k.main = "join" => k.live
    /\ k.role = "answer" => k.user = "callee"
    /\ k.remoteDescriptionSet => k.remote # NoPeer
    /\ k.got \subseteq k.queue \cup k.added
    /\ ~k.ended => k.log \in {<<>>, <<"connected">>}

\* Nothing was reported of a client that is live but its present connection.
Whole(k) ==
    /\ Sound(k)
    /\ k.live => ~k.ended /\ (k.log = <<>> \/ (k.told /\ k.peer))

\* Once the page of a client was told of a connection.
Loud(k) == k.told \/ k.conn = "connected"

ClientsInv(f) ==
    /\ f \in Seq(Clients(Peers(f)))
    /\ \A c \in DOMAIN f : Whole(f[c])

PageTypes ==
    /\ hook \in [Users -> Nat] /\ ring \in [Users -> {"off", "outgoing", "incoming"}]
    /\ server \in {"none", "initiated", "ringing", "active", "over"}
    /\ stop \in SUBSET Users

Hooks ==
    \A u \in Users : hook[u] = 0 \/ (hook[u] \in DOMAIN cl /\ cl[hook[u]].user = u)

Rings ==
    /\ server = "none" => DOMAIN cl = {}
    /\ \A c \in DOMAIN cl :
         cl[c].role = "answer" \/ Loud(cl[c]) => ring[cl[c].user] = "off"
    /\ RingingStops

CallIInv == ClientsInv(cl) /\ PageTypes /\ Hooks /\ Rings

(* Lemmas about one client ------------------------------------------------*)

\* The peer connections of a client k that others may mention, they still may.
Grows(k, n) ==
    /\ n.gen >= k.gen
    /\ n.live \/ ~n.peer \/ n.gen > k.gen \/ (~k.live /\ k.peer)

\* What one step may do to a client k, which gets no louder.
Older(k, n) ==
    /\ Grows(k, n)
    /\ n.user = k.user /\ n.role = k.role
    /\ Loud(n) => Loud(k)

Turns(k, n, P) == n \in Clients(P) /\ Whole(n) /\ Older(k, n)

\* A client stays what it is when more peer connections can be mentioned.
LEMMA ClientsGrow ==
    ASSUME NEW P, NEW Q, P \subseteq Q, NEW k \in Clients(P)
    PROVE  k \in Clients(Q)
<1>1. Signals(P) \subseteq Signals(Q) /\ Tasks(P) \subseteq Tasks(Q)
  BY DEF Signals, Tasks
<1>2. k.inbox \in Seq(Signals(Q)) /\ k.tasks \in Seq(Tasks(Q))
  <2>1. k.inbox \in Seq(Signals(P)) /\ k.tasks \in Seq(Tasks(P))
    BY DEF Clients
  <2>. QED BY <2>1, <1>1
<1>. QED BY <1>2 DEF Clients

LEMMA PeerForgotten ==
    ASSUME NEW P, NEW k \in Clients(P)
    PROVE  [k EXCEPT !.remoteDescriptionSet = FALSE, !.pendingOffer = FALSE,
                     !.peerReady = FALSE, !.shouldInitiate = FALSE,
                     !.answerInProgress = FALSE, !.queue = {}] \in Clients(P)
  BY DEF Clients

\* cleanup().
LEMMA CleaningUp ==
    ASSUME NEW P, NoPeer \in P, NEW k \in Clients(P), Sound(k)
    PROVE  /\ Turns(k, CleanedUp(k), P)
           /\ ~CleanedUp(k).live
           /\ CleanedUp(k).log = k.log /\ CleanedUp(k).ended = k.ended
<1>1. CASE ~k.live
  BY <1>1 DEF CleanedUp, Turns, Older, Grows, Whole, Clients
<1>2. CASE k.live
  <2>. DEFINE T == [i \in DOMAIN k.tasks |->
                       IF k.tasks[i].at = "media" THEN k.tasks[i] ELSE Never]
              M == IF k.main \in {"join", "offer"} THEN "none" ELSE k.main
  <2>1. T \in Seq(Tasks(P))
    <3>1. k.tasks \in Seq(Tasks(P))
      BY DEF Clients
    <3>2. Never \in Tasks(P)
      BY DEF Never, Task, Tasks, Kinds, Points
    <3>. QED BY <3>1, <3>2
  <2>2. M \in {"join", "wait", "media", "offer", "none"} /\ M # "join"
    BY DEF Clients
  <2>. DEFINE g == [k EXCEPT !.live = FALSE, !.chan = FALSE, !.inbox = <<>>,
                     !.stream = FALSE, !.peer = FALSE, !.sig = "stable", !.remote = NoPeer]
              h == [g EXCEPT !.remoteDescriptionSet = FALSE, !.pendingOffer = FALSE,
                     !.peerReady = FALSE, !.shouldInitiate = FALSE,
                     !.answerInProgress = FALSE, !.queue = {}]
              n == [h EXCEPT !.timers = 0, !.conn = "new", !.got = {}, !.added = {}, !.attempts = 0,
                     !.tasks = T, !.main = M]
  <2>3. CleanedUp(k) = n
    BY <1>2 DEF CleanedUp, Clients
  <2>. HIDE DEF T, M
  <2>4. g \in Clients(P)
    <3>1. <<>> \in Seq(Signals(P))
      OBVIOUS
    <3>. QED BY <3>1 DEF Clients
  <2>5. /\ ~g.live /\ ~g.chan /\ ~g.peer /\ g.told = k.told /\ g.log = k.log
        /\ g.ended = k.ended /\ g.gen = k.gen /\ g.user = k.user /\ g.role = k.role
    BY DEF Clients
  <2>. HIDE DEF g
  <2>6. h \in Clients(P)
    BY <2>4, PeerForgotten
  <2>7. /\ ~h.live /\ ~h.chan /\ ~h.peer /\ ~h.remoteDescriptionSet
        /\ h.told = k.told /\ h.log = k.log /\ h.ended = k.ended /\ h.gen = k.gen
        /\ h.user = k.user /\ h.role = k.role
    BY <2>4, <2>5 DEF Clients
  <2>. HIDE DEF h
  <2>8. n \in Clients(P)
    BY <2>1, <2>2, <2>6 DEF Clients
  <2>9. /\ ~n.live /\ ~n.chan /\ ~n.peer /\ ~n.remoteDescriptionSet
        /\ n.told = k.told /\ n.log = k.log /\ n.ended = k.ended /\ n.gen = k.gen
        /\ n.user = k.user /\ n.role = k.role
        /\ n.got = {} /\ n.conn = "new" /\ n.main # "join"
    BY <2>2, <2>6, <2>7 DEF Clients
  <2>. HIDE DEF n
  <2>10. k.gen \in Nat
    BY DEF Clients
  <2>. QED BY <2>3, <2>8, <2>9, <2>10 DEF Turns, Older, Grows, Loud, Whole, Sound
<1>. QED BY <1>1, <1>2

(* Lemmas about all the clients -------------------------------------------*)

Like(f, g) ==
    /\ DOMAIN g = DOMAIN f
    /\ \A c \in DOMAIN f :
         g[c].user = f[c].user /\ g[c].role = f[c].role /\ (Loud(g[c]) => Loud(f[c]))

SameLogs(f, g) == \A c \in DOMAIN f : g[c].log = f[c].log

LEMMA InvFacts ==
    ASSUME NEW f, ClientsInv(f), NEW c \in DOMAIN f
    PROVE  /\ DOMAIN f = 1 .. Len(f) /\ Len(f) \in Nat /\ c \in Nat \ {0}
           /\ f[c] \in Clients(Peers(f)) /\ Whole(f[c]) /\ NoPeer \in Peers(f)
           /\ f[c].gen \in Nat
           /\ f[c].live => <<c, f[c].gen>> \in Peers(f)
<1>1. f \in Seq(Clients(Peers(f)))
  BY DEF ClientsInv
<1>2. DOMAIN f = 1 .. Len(f) /\ Len(f) \in Nat /\ f[c] \in Clients(Peers(f))
  BY <1>1
<1>3. f[c].gen \in Nat
  BY <1>2 DEF Clients
<1>. QED BY <1>2, <1>3 DEF ClientsInv, Peers

\* A step that leaves clients what others may mention of them.
LEMMA AllGrow ==
    ASSUME NEW f, ClientsInv(f), NEW g, g = [c \in DOMAIN f |-> g[c]],
           \A c \in DOMAIN f :
              g[c] \in Clients(Peers(f)) /\ Whole(g[c]) /\ Grows(f[c], g[c])
    PROVE  ClientsInv(g)
<1>1. DOMAIN g = DOMAIN f
  OBVIOUS
<1>2. Peers(f) \subseteq Peers(g)
  <2>. SUFFICES ASSUME NEW p \in Peers(f), p # NoPeer PROVE p \in Peers(g)
    BY DEF Peers
  <2>. DEFINE c == p[1]
  <2>1. /\ p \in (DOMAIN f) \X Nat /\ p[2] <= f[c].gen
        /\ f[c].live \/ ~f[c].peer \/ p[2] < f[c].gen
    BY DEF Peers
  <2>2. Grows(f[c], g[c])
    BY <2>1
  <2>3. f[c].gen \in Nat /\ g[c].gen \in Nat /\ p[2] \in Nat /\ c \in DOMAIN f
    <3>1. c \in DOMAIN f /\ p[2] \in Nat
      BY <2>1
    <3>2. f[c] \in Clients(Peers(f)) /\ g[c] \in Clients(Peers(f))
      BY <3>1, InvFacts
    <3>. QED BY <3>1, <3>2 DEF Clients
  <2>4. p[2] <= g[c].gen /\ (g[c].live \/ ~g[c].peer \/ p[2] < g[c].gen)
    <3>. HIDE DEF c
    <3>. QED BY <2>1, <2>2, <2>3 DEF Grows
  <2>. QED BY <2>1, <2>4, <1>1 DEF Peers
<1>3. \A c \in DOMAIN g : g[c] \in Clients(Peers(g)) /\ Whole(g[c])
  <2>. SUFFICES ASSUME NEW c \in DOMAIN g PROVE g[c] \in Clients(Peers(g)) /\ Whole(g[c])
    OBVIOUS
  <2>1. g[c] \in Clients(Peers(f)) /\ Whole(g[c])
    BY <1>1
  <2>. QED BY <2>1, <1>2, ClientsGrow
<1>4. g \in Seq(Clients(Peers(g)))
  <2>1. f \in Seq(Clients(Peers(f)))
    BY DEF ClientsInv
  <2>2. DOMAIN f = 1 .. Len(f) /\ Len(f) \in Nat
    BY <2>1
  <2>. QED BY <2>2, <1>1, <1>3
<1>. QED BY <1>3, <1>4 DEF ClientsInv

\* A step that does to each client what one step may do.
LEMMA AllTurn ==
    ASSUME NEW f, ClientsInv(f), NEW g, g = [c \in DOMAIN f |-> g[c]],
           \A c \in DOMAIN f : Turns(f[c], g[c], Peers(f))
    PROVE  ClientsInv(g) /\ Like(f, g)
<1>1. ClientsInv(g)
  BY AllGrow DEF Turns, Older
<1>2. DOMAIN g = DOMAIN f
  OBVIOUS
<1>. QED BY <1>1, <1>2 DEF Like, Turns, Older

\* Nothing happens to a client.
LEMMA Idle ==
    ASSUME NEW f, ClientsInv(f), NEW c \in DOMAIN f
    PROVE  Turns(f[c], f[c], Peers(f))
<1>1. f[c] \in Clients(Peers(f)) /\ Whole(f[c]) /\ f[c].gen \in Nat
  BY InvFacts
<1>2. Older(f[c], f[c])
  BY <1>1 DEF Older, Grows
<1>. QED BY <1>1, <1>2 DEF Turns

\* One client takes a step.
LEMMA OneTurns ==
    ASSUME NEW f, ClientsInv(f), NEW c \in DOMAIN f, NEW n, Turns(f[c], n, Peers(f))
    PROVE  /\ ClientsInv([f EXCEPT ![c] = n]) /\ Like(f, [f EXCEPT ![c] = n])
           /\ n.log = f[c].log => SameLogs(f, [f EXCEPT ![c] = n])
<1>. DEFINE g == [f EXCEPT ![c] = n]
<1>1. g = [d \in DOMAIN f |-> g[d]] /\ g[c] = n /\ \A d \in DOMAIN f \ {c} : g[d] = f[d]
  OBVIOUS
<1>. HIDE DEF g
<1>2. \A d \in DOMAIN f : Turns(f[d], g[d], Peers(f))
  BY <1>1, Idle
<1>3. ClientsInv(g) /\ Like(f, g)
  BY <1>1, <1>2, AllTurn
<1>4. n.log = f[c].log => SameLogs(f, g)
  BY <1>1 DEF SameLogs
<1>. QED BY <1>3, <1>4 DEF g

\* A signal that the server relays.
LEMMA Relaying ==
    ASSUME NEW f, ClientsInv(f), NEW m, m = NoSignal \/ m \in Signals(Peers(f))
    PROVE  /\ ClientsInv(Relayed(f, m)) /\ Like(f, Relayed(f, m))
           /\ SameLogs(f, Relayed(f, m))
<1>. DEFINE g == Relayed(f, m)
<1>1. g = [c \in DOMAIN f |-> g[c]]
  BY DEF Relayed
<1>2. ASSUME NEW c \in DOMAIN f
      PROVE  Turns(f[c], g[c], Peers(f)) /\ g[c].log = f[c].log
  <2>1. CASE m # NoSignal /\ f[c].chan /\ c # m.from[1]
    <3>. DEFINE b == Append(f[c].inbox, m)
                n == [f[c] EXCEPT !.inbox = b]
    <3>1. g[c] = n
      BY <2>1 DEF Relayed
    <3>2. f[c] \in Clients(Peers(f)) /\ Whole(f[c]) /\ f[c].gen \in Nat
      BY InvFacts
    <3>3. b \in Seq(Signals(Peers(f)))
      <4>1. f[c].inbox \in Seq(Signals(Peers(f)))
        BY <3>2 DEF Clients
      <4>. QED BY <4>1, <2>1
    <3>. HIDE DEF b
    <3>4. n \in Clients(Peers(f))
      BY <3>2, <3>3 DEF Clients
    <3>5. Whole(n) /\ Older(f[c], n) /\ n.log = f[c].log
      BY <3>2 DEF Clients, Whole, Sound, Older, Grows, Loud
    <3>. QED BY <3>1, <3>4, <3>5 DEF Turns
  <2>2. CASE ~(m # NoSignal /\ f[c].chan /\ c # m.from[1])
    <3>1. g[c] = f[c]
      BY <2>2 DEF Relayed
    <3>. QED BY <3>1, Idle
  <2>. QED BY <2>1, <2>2
<1>. QED BY <1>1, <1>2, AllTurn DEF SameLogs

\* What a client sends mentions its present peer connection.
LEMMA Sending ==
    ASSUME NEW f, ClientsInv(f), NEW c \in DOMAIN f, NEW t \in Names
    PROVE  PushSignal(f, c, t) = NoSignal \/ PushSignal(f, c, t) \in Signals(Peers(f))
<1>1. CASE f[c].chan
  <2>1. PushSignal(f, c, t) = [t |-> t, from |-> <<c, f[c].gen>>]
    BY <1>1 DEF PushSignal, Signal
  <2>2. <<c, f[c].gen>> \in Peers(f) /\ c # 0
    BY <1>1, InvFacts DEF Whole, Sound
  <2>3. <<c, f[c].gen>> # NoPeer
    BY <2>2 DEF NoPeer
  <2>. QED BY <2>1, <2>2, <2>3 DEF Signals
<1>2. CASE ~f[c].chan
  BY <1>2 DEF PushSignal
<1>. QED BY <1>1, <1>2

\* Some clients are cleaned up.
LEMMA Disposing ==
    ASSUME NEW f, ClientsInv(f), NEW D
    PROVE  /\ ClientsInv(Dispose(f, D)) /\ Like(f, Dispose(f, D))
           /\ SameLogs(f, Dispose(f, D))
<1>. DEFINE g == Dispose(f, D)
<1>1. g = [c \in DOMAIN f |-> g[c]]
  BY DEF Dispose
<1>2. ASSUME NEW c \in DOMAIN f
      PROVE  Turns(f[c], g[c], Peers(f)) /\ g[c].log = f[c].log
  <2>1. f[c] \in Clients(Peers(f)) /\ Sound(f[c]) /\ NoPeer \in Peers(f)
    BY InvFacts DEF Whole
  <2>2. g[c] = f[c] \/ g[c] = CleanedUp(f[c])
    BY DEF Dispose
  <2>. QED BY <2>1, <2>2, Idle, CleaningUp
<1>. QED BY <1>1, <1>2, AllTurn DEF SameLogs

(* Lemmas about the state -------------------------------------------------*)

LogOf(f, c) == IF c \in DOMAIN f THEN f[c].log ELSE <<>>

\* At most one report of one client.
Reporting(f, g) ==
    \E d \in Nat :
        /\ \A c \in Nat \ {d} : LogOf(g, c) = LogOf(f, c)
        /\ \/ LogOf(g, d) = LogOf(f, d)
           \/ LogOf(f, d) = <<>> /\ LogOf(g, d) = <<"connected">>
           \/ /\ LogOf(f, d) \in {<<>>, <<"connected">>}
              /\ LogOf(g, d) = Append(LogOf(f, d), "ended")

LEMMA NothingReported ==
    ASSUME NEW f, NEW g, Like(f, g), SameLogs(f, g)
    PROVE  Reporting(f, g)
<1>1. \A c : LogOf(g, c) = LogOf(f, c)
  BY DEF LogOf, Like, SameLogs
<1>. QED BY <1>1 DEF Reporting

LEMMA LikeTransitive ==
    ASSUME NEW f, NEW g, NEW h, Like(f, g), Like(g, h)
    PROVE  /\ Like(f, h)
           /\ SameLogs(f, g) /\ SameLogs(g, h) => SameLogs(f, h)
  BY DEF Like, SameLogs

\* What becomes of the hooks, the ringtones and the server in a step that
\* silences phones, and has them all silenced when the call is over.
Calmer ==
    /\ hook' \in [Users -> Nat] /\ \A u \in Users : hook'[u] \in {hook[u], 0}
    /\ ring' \in [Users -> {"off", "outgoing", "incoming"}]
    /\ \A u \in Users : ring[u] = "off" => ring'[u] = "off"
    /\ server' \in {"none", "initiated", "ringing", "active", "over"}
    /\ server' = "none" => server = "none"
    /\ stop' \in SUBSET Users
    /\ \/ server' # "over"
       \/ stop' = Users
       \/ server = "over" /\ \A u \in stop \ stop' : ring'[u] = "off"

LEMMA CalmStep ==
    ASSUME CallIInv, ClientsInv(cl'), Like(cl, cl'), Calmer
    PROVE  CallIInv'
<1>1. PageTypes'
  BY DEF Calmer, PageTypes
<1>2. Hooks'
  BY DEF Calmer, Hooks, Like, CallIInv
<1>3. Rings'
  <2>1. server' = "none" => DOMAIN cl' = {}
    BY DEF Calmer, Rings, Like, CallIInv
  <2>2. ASSUME NEW c \in DOMAIN cl', cl'[c].role = "answer" \/ Loud(cl'[c])
        PROVE  ring'[cl'[c].user] = "off"
    <3>1. c \in DOMAIN cl /\ cl'[c].user = cl[c].user
      BY DEF Like
    <3>2. cl[c].role = "answer" \/ Loud(cl[c])
      BY <3>1, <2>2 DEF Like
    <3>3. ring[cl[c].user] = "off"
      BY <3>1, <3>2 DEF Rings, CallIInv
    <3>4. cl[c].user \in Users
      <4>1. cl[c] \in Clients(Peers(cl))
        BY <3>1, InvFacts DEF CallIInv
      <4>. QED BY <4>1 DEF Clients
    <3>. QED BY <3>1, <3>3, <3>4 DEF Calmer
  <2>3. RingingStops'
    BY DEF Calmer, RingingStops, Rings, CallIInv, PageTypes
  <2>. QED BY <2>1, <2>2, <2>3 DEF Rings, Loud
<1>. QED BY <1>1, <1>2, <1>3 DEF CallIInv, ClientsInv, Peers, Whole, Sound

\* The clients in the middle of a step that has reported nothing yet.
Midway(f) == ClientsInv(f) /\ Like(cl, f) /\ SameLogs(cl, f)

LEMMA Starting == ASSUME CallIInv PROVE Midway(cl)
  BY DEF CallIInv, Midway, Like, SameLogs

LEMMA OneMidway ==
    ASSUME NEW f, Midway(f), NEW c \in DOMAIN f, NEW n,
           Turns(f[c], n, Peers(f)), n.log = f[c].log
    PROVE  Midway([f EXCEPT ![c] = n])
  BY OneTurns, LikeTransitive DEF Midway

LEMMA RelayMidway ==
    ASSUME NEW f, Midway(f), NEW m, m = NoSignal \/ m \in Signals(Peers(f))
    PROVE  Midway(Relayed(f, m))
  BY Relaying, LikeTransitive DEF Midway

LEMMA DisposeMidway ==
    ASSUME NEW f, Midway(f), NEW D
    PROVE  Midway(Dispose(f, D))
  BY Disposing, LikeTransitive DEF Midway

\* Pushing a signal, or none.
LEMMA Pushing ==
    ASSUME CallIInv, NEW f, Midway(f), NEW m, m = NoSignal \/ m \in Signals(Peers(f)),
           Push(f, m)
    PROVE  CallIInv' /\ Reporting(cl, cl')
<1>1. Midway(cl')
  BY RelayMidway DEF Push
<1>2. Calmer
  <2>1. hook' = hook /\ ring' = ring /\ stop' = stop
    BY DEF Push
  <2>2. PageTypes
    BY DEF CallIInv
  <2>3. /\ server' \in {"none", "initiated", "ringing", "active", "over"}
        /\ server' = "none" => server = "none"
        /\ server' = "over" => server = "over"
    BY <2>2 DEF Push, PageTypes
  <2>. QED BY <2>1, <2>2, <2>3 DEF PageTypes, Calmer
<1>. QED BY <1>1, <1>2, CalmStep, NothingReported DEF Midway

\* endCall.
LEMMA EndingCall ==
    ASSUME CallIInv, NEW f, Midway(f), NEW u \in Users
    PROVE  Midway(EndCall(f, u))
<1>1. CASE hook[u] = 0
  BY <1>1 DEF EndCall
<1>2. CASE hook[u] # 0
  <2>1. hook[u] \in DOMAIN f
    BY <1>2 DEF CallIInv, Hooks, Midway, Like
  <2>2. \/ PushSignal(f, hook[u], "call_ended") = NoSignal
        \/ PushSignal(f, hook[u], "call_ended") \in Signals(Peers(f))
    BY <2>1, Sending DEF Names, Midway
  <2>3. PICK m : m = PushSignal(f, hook[u], "call_ended")
    OBVIOUS
  <2>4. PICK g : g = Relayed(f, m)
    OBVIOUS
  <2>5. Midway(g)
    BY <2>2, <2>3, <2>4, RelayMidway
  <2>6. EndCall(f, u) = Dispose(g, {hook[u]})
    BY <1>2, <2>3, <2>4 DEF EndCall
  <2>. QED BY <2>5, <2>6, DisposeMidway
<1>. QED BY <1>1, <1>2

LEMMA HookFailing ==
    ASSUME CallIInv, NEW f, Midway(f), NEW c \in DOMAIN cl, HookFails(c, f)
    PROVE  CallIInv' /\ Reporting(cl, cl')
<1>1. f[c].user \in Users
  <2>1. c \in DOMAIN f /\ ClientsInv(f)
    BY DEF Midway, Like
  <2>2. f[c] \in Clients(Peers(f))
    BY <2>1, InvFacts
  <2>. QED BY <2>2 DEF Clients
<1>2. Midway(cl')
  BY <1>1, EndingCall DEF HookFails
<1>3. Calmer
  <2>1. PageTypes
    BY DEF CallIInv
  <2>. QED BY <1>1, <2>1 DEF HookFails, CallOver, Calmer, PageTypes
<1>. QED BY <1>2, <1>3, CalmStep, NothingReported DEF Midway

\* What is reported of a client whose call is over.
LEMMA Ending ==
    ASSUME NEW P, NoPeer \in P, NEW k \in Clients(P), Whole(k), ~k.ended,
           NEW e, e = [k EXCEPT !.ended = TRUE, !.log = Append(k.log, "ended")]
    PROVE  /\ Turns(k, CleanedUp(e), P)
           /\ k.log \in {<<>>, <<"connected">>}
           /\ CleanedUp(e).log = Append(k.log, "ended")
<1>1. k.log \in {<<>>, <<"connected">>}
  BY DEF Whole, Sound
<1>. DEFINE l == Append(k.log, "ended")
<1>2. l \in Logs
  <2>1. k.log \in Seq({"connected", "ended"})
    BY DEF Clients, Logs
  <2>. QED BY <2>1 DEF Logs
<1>3. e = [k EXCEPT !.ended = TRUE, !.log = l]
  BY DEF Clients
<1>. HIDE DEF l
<1>4. e \in Clients(P)
  <2>1. [k EXCEPT !.ended = TRUE, !.log = l] \in Clients(P)
    BY <1>2 DEF Clients
  <2>. QED BY <1>3, <2>1
<1>5. /\ e.ended /\ e.log = l
      /\ e.chan = k.chan /\ e.live = k.live /\ e.main = k.main /\ e.role = k.role
      /\ e.user = k.user /\ e.remoteDescriptionSet = k.remoteDescriptionSet
      /\ e.remote = k.remote /\ e.got = k.got /\ e.queue = k.queue /\ e.added = k.added
  BY <1>3 DEF Clients
<1>6. e.gen = k.gen /\ e.peer = k.peer /\ e.told = k.told /\ e.conn = k.conn
  BY <1>3 DEF Clients
<1>7. Sound(e)
  BY <1>2, <1>5 DEF Whole, Sound
<1>8. Turns(e, CleanedUp(e), P) /\ CleanedUp(e).log = e.log
  BY <1>4, <1>7, CleaningUp
<1>9. Older(k, CleanedUp(e))
  BY <1>5, <1>6, <1>8 DEF Turns, Older, Grows, Loud
<1>. QED BY <1>1, <1>5, <1>8, <1>9 DEF Turns, l

LEMMA Finishing ==
    ASSUME CallIInv, NEW f, Midway(f), NEW c \in DOMAIN cl, FinishCall(c, f)
    PROVE  CallIInv' /\ Reporting(cl, cl')
<1>1. c \in DOMAIN f /\ DOMAIN f = DOMAIN cl /\ ClientsInv(f)
  BY DEF Midway, Like
<1>2. f[c] \in Clients(Peers(f)) /\ Whole(f[c]) /\ NoPeer \in Peers(f) /\ c \in Nat
  BY <1>1, InvFacts
<1>3. f[c].user \in Users
  BY <1>2 DEF Clients
<1>4. PageTypes
  BY DEF CallIInv
<1>. DEFINE quiet == f[c].ended \/ f[c].role = "reject"
            D == {c} \cup (IF quiet THEN {} ELSE HookClient(f[c].user))
<1>5. CASE quiet
  <2>1. cl' = Dispose(f, D) /\ UNCHANGED <<hook, ring, server, stop>>
    BY <1>5 DEF FinishCall
  <2>2. Midway(cl')
    BY <2>1, DisposeMidway
  <2>3. Calmer
    BY <1>4, <2>1 DEF Calmer, PageTypes
  <2>. QED BY <2>2, <2>3, CalmStep, NothingReported DEF Midway
<1>6. CASE ~quiet
  <2>1. PICK e : e = [f[c] EXCEPT !.ended = TRUE, !.log = Append(f[c].log, "ended")]
    OBVIOUS
  <2>2. PICK g : g = [f EXCEPT ![c].ended = TRUE, ![c].log = Append(@, "ended")]
    OBVIOUS
  <2>3. /\ DOMAIN g = DOMAIN f /\ g[c] = e
        /\ \A d \in DOMAIN f \ {c} : g[d] = f[d]
    BY <1>1, <1>2, <2>1, <2>2 DEF Clients
  <2>4. /\ cl' = Dispose(g, D)
        /\ hook' = [hook EXCEPT ![f[c].user] = 0]
        /\ ring' = [ring EXCEPT ![f[c].user] = "off"]
        /\ CallOver
    BY <1>6, <2>2 DEF FinishCall
  <2>5. c \in D
    OBVIOUS
  <2>. HIDE DEF D
  <2>6. /\ cl' = [d \in DOMAIN f |-> cl'[d]]
        /\ cl'[c] = CleanedUp(e)
        /\ \A d \in DOMAIN f \ {c} : cl'[d] = f[d] \/ cl'[d] = CleanedUp(f[d])
    BY <1>1, <2>3, <2>4, <2>5 DEF Dispose
  <2>7. /\ Turns(f[c], cl'[c], Peers(f)) /\ f[c].log \in {<<>>, <<"connected">>}
        /\ cl'[c].log = Append(f[c].log, "ended")
    <3>1. ~f[c].ended
      BY <1>6
    <3>2. Turns(f[c], CleanedUp(e), Peers(f)) /\ f[c].log \in {<<>>, <<"connected">>}
          /\ CleanedUp(e).log = Append(f[c].log, "ended")
      BY <1>2, <2>1, <3>1, Ending
    <3>. QED BY <2>6, <3>2
  <2>8. ASSUME NEW d \in DOMAIN f \ {c}
        PROVE  Turns(f[d], cl'[d], Peers(f)) /\ cl'[d].log = f[d].log
    <3>1. f[d] \in Clients(Peers(f)) /\ Sound(f[d])
      BY <1>1, InvFacts DEF Whole
    <3>. QED BY <1>1, <1>2, <2>6, <3>1, Idle, CleaningUp
  <2>9. ClientsInv(cl') /\ Like(f, cl')
    BY <1>1, <2>6, <2>7, <2>8, AllTurn
  <2>10. Calmer
    BY <1>3, <1>4, <2>4 DEF Calmer, PageTypes, CallOver
  <2>11. CallIInv'
    BY <2>9, <2>10, CalmStep, LikeTransitive DEF Midway
  <2>12. Reporting(cl, cl')
    <3>1. SameLogs(cl, f)
      BY DEF Midway
    <3>2. LogOf(cl, c) \in {<<>>, <<"connected">>} /\ LogOf(cl', c) = Append(LogOf(cl, c), "ended")
      BY <1>1, <2>6, <2>7, <3>1 DEF LogOf, SameLogs
    <3>3. \A d \in Nat \ {c} : LogOf(cl', d) = LogOf(cl, d)
      BY <1>1, <2>6, <2>8, <3>1 DEF LogOf, SameLogs
    <3>. QED BY <1>2, <3>2, <3>3 DEF Reporting
  <2>. QED BY <2>11, <2>12
<1>. QED BY <1>5, <1>6

\* The constructor.
LEMMA Constructed ==
    ASSUME NEW u \in Users, NEW r \in Roles, r = "answer" => u = "callee", NEW P, NoPeer \in P
    PROVE  /\ New(u, r) \in Clients(P) /\ Whole(New(u, r))
           /\ ~Loud(New(u, r)) /\ New(u, r).log = <<>>
           /\ New(u, r).user = u /\ New(u, r).role = r
<1>. DEFINE k == New(u, r)
<1>1. /\ ~Loud(k) /\ k.log = <<>> /\ k.user = u /\ k.role = r
      /\ k.live /\ ~k.chan /\ ~k.remoteDescriptionSet /\ k.got = {} /\ ~k.ended
  BY DEF New, Loud
<1>2. <<>> \in Seq(Signals(P)) /\ <<>> \in Seq(Tasks(P)) /\ <<>> \in Logs
  BY DEF Logs
<1>3. PICK e : e = <<>>
  OBVIOUS
<1>4. e \in Seq(Signals(P)) /\ e \in Seq(Tasks(P)) /\ e \in Logs
  BY <1>2, <1>3
<1>5. k = [user |-> u, role |-> r, main |-> "join", live |-> TRUE, chan |-> FALSE,
           inbox |-> e, stream |-> FALSE, peer |-> FALSE, gen |-> 0, sig |-> "stable",
           remote |-> NoPeer, remoteDescriptionSet |-> FALSE, pendingOffer |-> FALSE,
           peerReady |-> FALSE, shouldInitiate |-> FALSE, answerInProgress |-> FALSE,
           attempts |-> 0, timers |-> 0, conn |-> "new", tasks |-> e,
           queue |-> {}, added |-> {}, got |-> {}, sent |-> FALSE,
           told |-> FALSE, ended |-> FALSE, log |-> e]
  BY <1>3 DEF New
<1>6. k \in Clients(P)
  BY <1>4, <1>5 DEF Clients
<1>. QED BY <1>1, <1>6 DEF Whole, Sound

NewClients == Clients({NoPeer})

\* g has the clients of f and a last one, k.
Added(f, k, g) ==
    /\ DOMAIN g = DOMAIN f \cup {Len(g)}
    /\ Len(g) \in Nat \ {0} /\ Len(g) \notin DOMAIN f
    /\ g[Len(g)] = k /\ \A c \in DOMAIN f : g[c] = f[c]

LEMMA Adding ==
    ASSUME NEW f, ClientsInv(f), NEW k \in NewClients, Whole(k),
           NEW g, g = Append(f, k)
    PROVE  ClientsInv(g) /\ Added(f, k, g)
<1>1. f \in Seq(Clients(Peers(f))) /\ NoPeer \in Peers(f)
  BY DEF ClientsInv, Peers
<1>2. k \in Clients(Peers(f))
  BY <1>1, ClientsGrow DEF NewClients
<1>3. /\ g \in Seq(Clients(Peers(f))) /\ Len(g) = Len(f) + 1 /\ Len(f) \in Nat
      /\ DOMAIN f = 1 .. Len(f) /\ DOMAIN g = 1 .. Len(g)
      /\ g[Len(g)] = k /\ \A c \in DOMAIN f : g[c] = f[c]
  BY <1>1, <1>2, AppendProperties
<1>4. DOMAIN g = DOMAIN f \cup {Len(g)} /\ Len(g) \in Nat \ {0} /\ Len(g) \notin DOMAIN f
  BY <1>3
<1>5. Peers(f) \subseteq Peers(g)
  <2>1. DOMAIN f \subseteq DOMAIN g /\ \A c \in DOMAIN f : g[c] = f[c]
    BY <1>3, <1>4
  <2>. QED BY <2>1 DEF Peers
<1>6. \A c \in DOMAIN g : g[c] \in Clients(Peers(g)) /\ Whole(g[c])
  <2>. SUFFICES ASSUME NEW c \in DOMAIN g PROVE g[c] \in Clients(Peers(g)) /\ Whole(g[c])
    OBVIOUS
  <2>1. g[c] \in Clients(Peers(f))
    BY <1>3
  <2>2. Whole(g[c])
    BY <1>3, <1>4 DEF ClientsInv
  <2>. QED BY <2>1, <2>2, <1>5, ClientsGrow
<1>7. g \in Seq(Clients(Peers(g)))
  BY <1>3, <1>6
<1>. QED BY <1>3, <1>4, <1>6, <1>7 DEF ClientsInv, Added

\* The page of user u makes a new client.
LEMMA HookCleaning ==
    ASSUME CallIInv, NEW u \in Users, NEW r \in Roles, r = "answer" => u = "callee",
           HookCleanup(u, New(u, r))
    PROVE  /\ ClientsInv(cl') /\ Len(cl') \in Nat \ {0}
           /\ \E f : Midway(f) /\ Added(f, New(u, r), cl')
<1>1. PICK f : f = Dispose(cl, HookClient(u))
  OBVIOUS
<1>2. Midway(f)
  BY <1>1, Starting, DisposeMidway
<1>3. New(u, r) \in NewClients /\ Whole(New(u, r))
  BY Constructed DEF NewClients
<1>4. cl' = Append(f, New(u, r))
  BY <1>1 DEF HookCleanup
<1>5. ClientsInv(cl') /\ Added(f, New(u, r), cl')
  BY <1>2, <1>3, <1>4, Adding DEF Midway
<1>. QED BY <1>2, <1>5 DEF Added

LEMMA NewClient ==
    ASSUME CallIInv, NEW u \in Users, NEW r \in Roles,
           r = "answer" => u = "callee" /\ ring'["callee"] = "off",
           HookCleanup(u, New(u, r)),
           PageTypes', RingingStops', server' # "none",
           \A v \in Users : hook'[v] \in {0, hook[v]} \/ (v = u /\ hook'[v] = Len(cl')),
           \A v \in Users : ring[v] = "off" /\ DOMAIN cl # {} => ring'[v] = "off"
    PROVE  CallIInv' /\ Reporting(cl, cl')
<1>1. PICK k : k = New(u, r)
  OBVIOUS
<1>2. ClientsInv(cl') /\ \E f : Midway(f) /\ Added(f, k, cl')
  BY <1>1, HookCleaning
<1>3. PICK f : Midway(f) /\ Added(f, k, cl')
  BY <1>2
<1>4. ~Loud(k) /\ k.log = <<>> /\ k.user = u /\ k.role = r
  BY <1>1, Constructed
<1>5. /\ DOMAIN cl' = DOMAIN cl \cup {Len(cl')}
      /\ Len(cl') \in Nat \ {0} /\ Len(cl') \notin DOMAIN cl
      /\ cl'[Len(cl')] = k /\ \A c \in DOMAIN cl : cl'[c] = f[c]
  BY <1>3 DEF Midway, Like, Added
<1>6. /\ Like(cl, f) /\ SameLogs(cl, f)
  BY <1>3 DEF Midway
<1>7. Hooks'
  <2>. SUFFICES ASSUME NEW v \in Users, hook'[v] # 0
                PROVE  hook'[v] \in DOMAIN cl' /\ cl'[hook'[v]].user = v
    BY DEF Hooks
  <2>1. CASE hook'[v] = hook[v]
    <3>1. hook[v] \in DOMAIN cl /\ cl[hook[v]].user = v
      BY <2>1 DEF CallIInv, Hooks
    <3>2. f[hook[v]].user = v
      BY <3>1, <1>6 DEF Like
    <3>3. hook[v] \in DOMAIN cl' /\ cl'[hook[v]] = f[hook[v]]
      BY <3>1, <1>5
    <3>. QED BY <2>1, <3>2, <3>3
  <2>2. CASE v = u /\ hook'[v] = Len(cl')
    BY <2>2, <1>4, <1>5
  <2>. QED BY <2>1, <2>2
<1>8. ASSUME NEW c \in DOMAIN cl', cl'[c].role = "answer" \/ Loud(cl'[c])
      PROVE  ring'[cl'[c].user] = "off"
  <2>1. CASE c = Len(cl')
    BY <2>1, <1>4, <1>5, <1>8
  <2>2. CASE c \in DOMAIN cl
    <3>1. cl'[c].user = cl[c].user /\ (cl[c].role = "answer" \/ Loud(cl[c]))
      BY <2>2, <1>5, <1>6, <1>8 DEF Like
    <3>2. ring[cl[c].user] = "off"
      BY <2>2, <3>1 DEF Rings, CallIInv
    <3>3. cl[c].user \in Users
      <4>1. cl[c] \in Clients(Peers(cl))
        BY <2>2, InvFacts DEF CallIInv
      <4>. QED BY <4>1 DEF Clients
    <3>. QED BY <2>2, <3>1, <3>2, <3>3
  <2>. QED BY <1>5, <2>1, <2>2
<1>9. Rings'
  BY <1>8 DEF Rings, Loud
<1>10. Reporting(cl, cl')
  <2>1. \A c \in Nat : LogOf(cl', c) = LogOf(cl, c)
    BY <1>4, <1>5, <1>6 DEF LogOf, SameLogs
  <2>. QED BY <2>1 DEF Reporting
<1>. QED BY <1>2, <1>7, <1>9, <1>10 DEF CallIInv, ClientsInv, Peers, Whole, Sound

(* What the users do, and what fails --------------------------------------*)

LEMMA StartCallStep ==
    ASSUME CallIInv, StartCall
    PROVE  CallIInv' /\ Reporting(cl, cl')
<1>1. PageTypes /\ Rings
  BY DEF CallIInv
<1>2. DOMAIN cl = {} /\ HookCleanup("caller", New("caller", "start"))
  BY <1>1 DEF StartCall, Rings
<1>3. Len(cl') \in Nat
  BY <1>2, HookCleaning DEF Users, Roles
<1>4. /\ hook' = [hook EXCEPT !["caller"] = Len(cl')] /\ server' = "initiated"
      /\ ring' = [caller |-> "outgoing", callee |-> "incoming"] /\ stop' = stop
  BY DEF StartCall
<1>5. PageTypes' /\ RingingStops'
  BY <1>1, <1>3, <1>4 DEF PageTypes, RingingStops, Users
<1>6. \A v \in Users : hook'[v] \in {0, hook[v]} \/ (v = "caller" /\ hook'[v] = Len(cl'))
  BY <1>1, <1>4 DEF PageTypes, Users
<1>. QED BY <1>2, <1>4, <1>5, <1>6, NewClient DEF Users, Roles

LEMMA AnswerCallStep ==
    ASSUME CallIInv, AnswerCall
    PROVE  CallIInv' /\ Reporting(cl, cl')
<1>1. PageTypes
  BY DEF CallIInv
<1>2. HookCleanup("callee", New("callee", "answer"))
  BY DEF AnswerCall
<1>3. Len(cl') \in Nat
  BY <1>2, HookCleaning DEF Users, Roles
<1>4. /\ hook' = [hook EXCEPT !["callee"] = Len(cl')] /\ server' = "active"
      /\ ring' = [ring EXCEPT !["callee"] = "off"] /\ stop' = stop
  BY DEF AnswerCall
<1>5. PageTypes' /\ RingingStops'
  BY <1>1, <1>3, <1>4 DEF PageTypes, RingingStops, Users
<1>6. /\ \A v \in Users : hook'[v] \in {0, hook[v]} \/ (v = "callee" /\ hook'[v] = Len(cl'))
      /\ \A v \in Users : ring[v] = "off" => ring'[v] = "off"
      /\ ring'["callee"] = "off"
  BY <1>1, <1>4 DEF PageTypes, Users
<1>. QED BY <1>2, <1>4, <1>5, <1>6, NewClient DEF Users, Roles

LEMMA RejectCallStep ==
    ASSUME CallIInv, RejectCall
    PROVE  CallIInv' /\ Reporting(cl, cl')
<1>1. PageTypes
  BY DEF CallIInv
<1>2. HookCleanup("callee", New("callee", "reject"))
  BY DEF RejectCall
<1>3. /\ hook' = [hook EXCEPT !["callee"] = 0] /\ server' = "over" /\ stop' = Users
      /\ ring' = [ring EXCEPT !["callee"] = "off"]
  BY DEF RejectCall, CallOver
<1>4. PageTypes' /\ RingingStops'
  BY <1>1, <1>3 DEF PageTypes, RingingStops, Users
<1>5. /\ \A v \in Users : hook'[v] \in {0, hook[v]}
      /\ \A v \in Users : ring[v] = "off" => ring'[v] = "off"
  BY <1>1, <1>3 DEF PageTypes, Users
<1>. QED BY <1>2, <1>3, <1>4, <1>5, NewClient DEF Users, Roles

LEMMA ResumeCallStep ==
    ASSUME CallIInv, NEW u \in Users, ResumeCall(u)
    PROVE  CallIInv' /\ Reporting(cl, cl')
<1>1. PageTypes
  BY DEF CallIInv
<1>2. HookCleanup(u, New(u, "resume"))
  BY DEF ResumeCall
<1>3. Len(cl') \in Nat
  BY <1>2, HookCleaning DEF Roles
<1>4. /\ hook' = [hook EXCEPT ![u] = Len(cl')] /\ ring' = [ring EXCEPT ![u] = "off"]
      /\ server' = server /\ Active(server) /\ stop' = stop
  BY DEF ResumeCall
<1>5. PageTypes' /\ RingingStops'
  BY <1>1, <1>3, <1>4 DEF PageTypes, RingingStops, Active
<1>6. /\ \A v \in Users : hook'[v] \in {0, hook[v]} \/ (v = u /\ hook'[v] = Len(cl'))
      /\ \A v \in Users : ring[v] = "off" => ring'[v] = "off"
      /\ server' # "none"
  BY <1>1, <1>4 DEF PageTypes, Active
<1>. QED BY <1>2, <1>5, <1>6, NewClient DEF Roles

LEMMA HandleEndCallStep ==
    ASSUME CallIInv, NEW u \in Users, HandleEndCall(u)
    PROVE  CallIInv' /\ Reporting(cl, cl')
<1>1. Midway(cl')
  BY Starting, EndingCall DEF HandleEndCall
<1>2. Calmer
  <2>1. PageTypes
    BY DEF CallIInv
  <2>. QED BY <2>1 DEF HandleEndCall, CallOver, Calmer, PageTypes
<1>. QED BY <1>1, <1>2, CalmStep, NothingReported DEF Midway

LEMMA TasksForgotten ==
    ASSUME NEW P, NEW k \in Clients(P), NEW e \in Seq(Tasks(P))
    PROVE  [k EXCEPT !.tasks = e, !.main = "none", !.stream = FALSE, !.peer = FALSE]
              \in Clients(P)
  BY DEF Clients

\* The page of a client is left.
LEMMA PageLeft ==
    ASSUME NEW P, NoPeer \in P, NEW k \in Clients(P), Whole(k),
           NEW n, n = [CleanedUp(k) EXCEPT !.tasks = <<>>, !.main = "none",
                                           !.stream = FALSE, !.peer = FALSE]
    PROVE  Turns(k, n, P) /\ n.log = k.log
<1>1. PICK h : h = CleanedUp(k)
  OBVIOUS
<1>2. Turns(k, h, P) /\ ~h.live /\ h.log = k.log
  BY <1>1, CleaningUp DEF Whole
<1>3. PICK e : e = <<>>
  OBVIOUS
<1>4. e \in Seq(Tasks(P))
  BY <1>3
<1>5. n = [h EXCEPT !.tasks = e, !.main = "none", !.stream = FALSE, !.peer = FALSE]
  BY <1>1, <1>3
<1>6. h \in Clients(P)
  BY <1>2 DEF Turns
<1>. HIDE <1>1
<1>7. n \in Clients(P)
  <2>1. [h EXCEPT !.tasks = e, !.main = "none", !.stream = FALSE, !.peer = FALSE]
           \in Clients(P)
    BY <1>4, <1>6, TasksForgotten
  <2>. QED BY <1>5, <2>1
<1>8. /\ ~n.peer /\ n.main = "none" /\ n.live = h.live /\ n.chan = h.chan /\ n.role = h.role
      /\ n.user = h.user /\ n.remoteDescriptionSet = h.remoteDescriptionSet
      /\ n.remote = h.remote /\ n.got = h.got /\ n.queue = h.queue /\ n.added = h.added
      /\ n.log = h.log /\ n.ended = h.ended /\ n.told = h.told /\ n.conn = h.conn
      /\ n.gen = h.gen
  BY <1>5, <1>6 DEF Clients
<1>9. Whole(n) /\ Older(k, n)
  BY <1>2, <1>8 DEF Turns, Whole, Sound, Older, Grows, Loud
<1>. QED BY <1>2, <1>7, <1>8, <1>9 DEF Turns

LEMMA DestroyedStep ==
    ASSUME CallIInv, NEW u \in Users, Destroyed(u)
    PROVE  CallIInv' /\ Reporting(cl, cl')
<1>1. PageTypes /\ ClientsInv(cl)
  BY DEF CallIInv
<1>2. cl' = [c \in DOMAIN cl |-> cl'[c]]
  BY DEF Destroyed
<1>3. ASSUME NEW c \in DOMAIN cl
      PROVE  Turns(cl[c], cl'[c], Peers(cl)) /\ cl'[c].log = cl[c].log
  <2>1. cl[c] \in Clients(Peers(cl)) /\ Whole(cl[c]) /\ NoPeer \in Peers(cl)
    BY <1>1, InvFacts
  <2>2. \/ cl'[c] = cl[c]
        \/ cl'[c] = [CleanedUp(cl[c]) EXCEPT !.tasks = <<>>, !.main = "none",
                                             !.stream = FALSE, !.peer = FALSE]
    BY DEF Destroyed
  <2>. QED BY <1>1, <2>1, <2>2, Idle, PageLeft
<1>4. ClientsInv(cl') /\ Like(cl, cl') /\ SameLogs(cl, cl')
  BY <1>1, <1>2, <1>3, AllTurn DEF SameLogs
<1>5. Calmer
  BY <1>1 DEF Destroyed, Calmer, PageTypes
<1>. QED BY <1>4, <1>5, CalmStep, NothingReported

(* What a handler does to its client --------------------------------------*)

Quietly(k, n, P) == Turns(k, n, P) /\ n.log = k.log

LEMMA QuietlyTransitive ==
    ASSUME NEW P, NEW k \in Clients(P), NEW n, NEW o, Quietly(k, n, P), Quietly(n, o, P)
    PROVE  Quietly(k, o, P)
<1>1. k.gen \in Nat /\ n.gen \in Nat /\ o.gen \in Nat
  <2>1. n \in Clients(P) /\ o \in Clients(P)
    BY DEF Quietly, Turns
  <2>. QED BY <2>1 DEF Clients
<1>2. Older(k, o)
  BY <1>1 DEF Quietly, Turns, Older, Grows
<1>. QED BY <1>2 DEF Quietly, Turns

\* The fields that the invariant is not about.
Minor(k, n) ==
    /\ n.chan = k.chan /\ n.live = k.live /\ n.role = k.role /\ n.user = k.user
    /\ n.remoteDescriptionSet = k.remoteDescriptionSet /\ n.remote = k.remote
    /\ n.got = k.got /\ n.queue = k.queue /\ n.added = k.added
    /\ n.log = k.log /\ n.ended = k.ended /\ n.told = k.told /\ n.conn = k.conn
    /\ n.gen = k.gen /\ n.peer = k.peer
    /\ n.main = "join" => k.main = "join"

LEMMA MinorTurn ==
    ASSUME NEW P, NEW k \in Clients(P), Whole(k), NEW n \in Clients(P), Minor(k, n)
    PROVE  Quietly(k, n, P)
<1>1. k.gen \in Nat
  BY DEF Clients
<1>. QED BY <1>1 DEF Minor, Quietly, Turns, Whole, Sound, Older, Grows, Loud

LEMMA MainGoesOn ==
    ASSUME NEW P, NEW k \in Clients(P), Whole(k), NEW m \in {"wait", "media", "offer", "none"}
    PROVE  Quietly(k, [k EXCEPT !.main = m], P)
<1>1. PICK n : n = [k EXCEPT !.main = m]
  OBVIOUS
<1>2. n \in Clients(P) /\ Minor(k, n)
  BY <1>1 DEF Clients, Minor
<1>. QED BY <1>1, <1>2, MinorTurn

LEMMA Prepared ==
    ASSUME NEW P, NEW k \in Clients(P), Whole(k), NEW m \in {"offer", "none"}, NEW b \in BOOLEAN
    PROVE  Quietly(k, [k EXCEPT !.main = m, !.shouldInitiate = b], P)
<1>1. PICK n : n = [k EXCEPT !.main = m, !.shouldInitiate = b]
  OBVIOUS
<1>2. n \in Clients(P) /\ Minor(k, n)
  BY <1>1 DEF Clients, Minor
<1>. QED BY <1>1, <1>2, MinorTurn

\* The channel is joined.
LEMMA Joined ==
    ASSUME NEW P, NEW k \in Clients(P), Whole(k), k.main = "join"
    PROVE  Quietly(k, [k EXCEPT !.chan = TRUE, !.main = "wait"], P)
<1>1. PICK n : n = [k EXCEPT !.chan = TRUE, !.main = "wait"]
  OBVIOUS
<1>2. n \in Clients(P)
  BY <1>1 DEF Clients
<1>3. /\ n.live = k.live /\ n.role = k.role /\ n.user = k.user
      /\ n.remoteDescriptionSet = k.remoteDescriptionSet /\ n.remote = k.remote
      /\ n.got = k.got /\ n.queue = k.queue /\ n.added = k.added
      /\ n.log = k.log /\ n.ended = k.ended /\ n.told = k.told /\ n.conn = k.conn
      /\ n.gen = k.gen /\ n.peer = k.peer /\ n.main = "wait" /\ k.gen \in Nat
  BY <1>1 DEF Clients
<1>4. Whole(n) /\ Older(k, n)
  BY <1>3 DEF Whole, Sound, Older, Grows, Loud
<1>. QED BY <1>1, <1>2, <1>3, <1>4 DEF Quietly, Turns

LEMMA TaskAdded ==
    ASSUME NEW P, NEW k \in Clients(P), Whole(k), NEW t \in Tasks(P)
    PROVE  Quietly(k, [k EXCEPT !.tasks = Append(@, t)], P)
<1>1. PICK s : s = Append(k.tasks, t)
  OBVIOUS
<1>2. s \in Seq(Tasks(P))
  <2>1. k.tasks \in Seq(Tasks(P))
    BY DEF Clients
  <2>. QED BY <1>1, <2>1
<1>3. PICK n : n = [k EXCEPT !.tasks = s]
  OBVIOUS
<1>4. n \in Clients(P) /\ Minor(k, n)
  BY <1>2, <1>3 DEF Clients, Minor
<1>5. [k EXCEPT !.tasks = Append(@, t)] = n
  BY <1>1, <1>3
<1>. QED BY <1>4, <1>5, MinorTurn

LEMMA Removed ==
    ASSUME NEW S, NEW s \in Seq(S), NEW i \in DOMAIN s
    PROVE  RemoveAt(s, i) \in Seq(S)
<1>1. DOMAIN s = 1 .. Len(s) /\ Len(s) \in Nat /\ i \in Nat /\ \A j \in 1 .. Len(s) : s[j] \in S
  OBVIOUS
<1>2. SubSeq(s, 1, i - 1) \in Seq(S)
  BY <1>1, SubSeqProperties
<1>3. SubSeq(s, i + 1, Len(s)) \in Seq(S)
  BY <1>1, SubSeqProperties
<1>. QED BY <1>2, <1>3, ConcatProperties DEF RemoveAt

LEMMA TaskDone ==
    ASSUME NEW P, NEW k \in Clients(P), Whole(k), NEW i \in DOMAIN k.tasks
    PROVE  Quietly(k, Without(k, i), P)
<1>1. PICK s : s = RemoveAt(k.tasks, i)
  OBVIOUS
<1>2. s \in Seq(Tasks(P))
  <2>1. k.tasks \in Seq(Tasks(P))
    BY DEF Clients
  <2>. QED BY <1>1, <2>1, Removed
<1>3. PICK n : n = [k EXCEPT !.tasks = s]
  OBVIOUS
<1>4. n \in Clients(P) /\ Minor(k, n)
  BY <1>2, <1>3 DEF Clients, Minor
<1>5. Without(k, i) = n
  BY <1>1, <1>3 DEF Without
<1>. QED BY <1>4, <1>5, MinorTurn

LEMMA TaskMoved ==
    ASSUME NEW P, NEW k \in Clients(P), Whole(k), NEW i \in DOMAIN k.tasks, NEW at \in Points
    PROVE  Quietly(k, Moved(k, i, at), P)
<1>1. PICK t : t = [k.tasks[i] EXCEPT !.at = at]
  OBVIOUS
<1>2. k.tasks \in Seq(Tasks(P))
  BY DEF Clients
<1>3. t \in Tasks(P)
  <2>1. k.tasks[i] \in Tasks(P)
    BY <1>2
  <2>. QED BY <1>1, <2>1 DEF Tasks
<1>4. PICK s : s = [k.tasks EXCEPT ![i] = t]
  OBVIOUS
<1>5. s \in Seq(Tasks(P))
  BY <1>2, <1>3, <1>4
<1>6. PICK n : n = [k EXCEPT !.tasks = s]
  OBVIOUS
<1>7. n \in Clients(P) /\ Minor(k, n)
  BY <1>5, <1>6 DEF Clients, Minor
<1>8. Moved(k, i, at) = n
  BY <1>1, <1>4, <1>6 DEF Moved
<1>. QED BY <1>7, <1>8, MinorTurn

\* createPeerConnection: the new connection has been mentioned to nobody.
LEMMA PeerCreated ==
    ASSUME NEW P, NEW k \in Clients(P), Whole(k)
    PROVE  Quietly(k, CreatePeerConnection(k), P)
<1>0. k.gen \in Nat
  BY DEF Clients
<1>1. CASE k.peer
  <2>1. Minor(k, k)
    BY DEF Minor
  <2>. QED BY <1>1, <2>1, MinorTurn DEF CreatePeerConnection
<1>2. CASE ~k.peer
  <2>0. PICK g : g = k.gen + 1 /\ g \in Nat
    BY <1>0
  <2>1. PICK n : n = [k EXCEPT !.peer = TRUE, !.gen = g, !.told = FALSE]
    OBVIOUS
  <2>2. n \in Clients(P)
    BY <2>0, <2>1 DEF Clients
  <2>3. /\ n.chan = k.chan /\ n.live = k.live /\ n.role = k.role /\ n.user = k.user
        /\ n.remoteDescriptionSet = k.remoteDescriptionSet /\ n.remote = k.remote
        /\ n.got = k.got /\ n.queue = k.queue /\ n.added = k.added
        /\ n.log = k.log /\ n.ended = k.ended /\ n.conn = k.conn /\ n.main = k.main
        /\ n.gen = k.gen + 1 /\ ~n.told
    BY <2>0, <2>1 DEF Clients
  <2>4. Older(k, n) /\ Whole(n)
    BY <1>0, <1>2, <2>3 DEF Older, Grows, Whole, Sound, Loud
  <2>5. CreatePeerConnection(k) = n
    BY <1>2, <2>0, <2>1 DEF CreatePeerConnection
  <2>. QED BY <2>2, <2>3, <2>4, <2>5 DEF Quietly, Turns
<1>. QED BY <1>1, <1>2

\* setRemoteDescription and processIceCandidateQueue.
LEMMA Described ==
    ASSUME NEW P, NEW k \in Clients(P), Whole(k), NEW p \in P, p # NoPeer,
           NEW sig \in {"stable", "local", "remote"}
    PROVE  Quietly(k, RemoteDescribed(k, p, sig), P)
<1>1. PICK a : a = k.added \cup k.queue
  OBVIOUS
<1>2. a \in SUBSET Nat /\ k.got \subseteq a
  BY <1>1 DEF Clients, Whole, Sound
<1>3. PICK n : n = [k EXCEPT !.sig = sig, !.remote = p, !.remoteDescriptionSet = TRUE,
                             !.added = a, !.queue = {}]
  OBVIOUS
<1>4. n \in Clients(P)
  BY <1>2, <1>3 DEF Clients
<1>5. /\ n.chan = k.chan /\ n.live = k.live /\ n.role = k.role /\ n.user = k.user
      /\ n.remote = p /\ n.got = k.got /\ n.added = a
      /\ n.log = k.log /\ n.ended = k.ended /\ n.told = k.told /\ n.conn = k.conn
      /\ n.gen = k.gen /\ n.peer = k.peer /\ n.main = k.main /\ k.gen \in Nat
  BY <1>3 DEF Clients
<1>6. Whole(n) /\ Older(k, n)
  BY <1>2, <1>5 DEF Whole, Sound, Older, Grows, Loud
<1>7. RemoteDescribed(k, p, sig) = n
  BY <1>1, <1>3 DEF RemoteDescribed, ProcessIceCandidateQueue, Clients
<1>. QED BY <1>4, <1>5, <1>6, <1>7 DEF Quietly, Turns

\* handleIceCandidate.
LEMMA CandidateCame ==
    ASSUME NEW P, NEW k \in Clients(P), Whole(k), NEW p, p[1] \in Nat
    PROVE  Quietly(k, HandleIceCandidate(k, p), P)
<1>1. PICK h : h = HandleIceCandidate(k, p)
  OBVIOUS
<1>2. /\ k.got \in SUBSET Nat /\ k.queue \in SUBSET Nat /\ k.added \in SUBSET Nat
      /\ k.got \subseteq k.queue \cup k.added
  BY DEF Clients, Whole, Sound
<1>3. PICK x \in SUBSET Nat, q \in SUBSET Nat, a \in SUBSET Nat :
        x \subseteq q \cup a /\ h = [k EXCEPT !.got = x, !.queue = q, !.added = a]
  <2>1. PICK x : x = k.got \cup {p[1]}
    OBVIOUS
  <2>2. CASE k.remoteDescriptionSet /\ k.peer
    <3>1. PICK a : a = k.added \cup {p[1]}
      OBVIOUS
    <3>2. k.remote # NoPeer
      BY <2>2 DEF Whole, Sound
    <3>3. h = [k EXCEPT !.got = x, !.added = a]
      BY <1>1, <2>1, <2>2, <3>1, <3>2 DEF HandleIceCandidate
    <3>4. h = [k EXCEPT !.got = x, !.queue = k.queue, !.added = a]
      BY <3>3 DEF Clients
    <3>. QED BY <1>2, <2>1, <3>1, <3>4
  <2>3. CASE ~(k.remoteDescriptionSet /\ k.peer)
    <3>1. PICK q : q = k.queue \cup {p[1]}
      OBVIOUS
    <3>2. h = [k EXCEPT !.got = x, !.queue = q]
      BY <1>1, <2>1, <2>3, <3>1 DEF HandleIceCandidate
    <3>3. h = [k EXCEPT !.got = x, !.queue = q, !.added = k.added]
      BY <3>2 DEF Clients
    <3>. QED BY <1>2, <2>1, <3>1, <3>3
  <2>. QED BY <2>2, <2>3
<1>4. h.got \subseteq h.queue \cup h.added
  BY <1>3 DEF Clients
<1>5. h \in Clients(P)
  BY <1>3 DEF Clients
<1>6. /\ h.chan = k.chan /\ h.live = k.live /\ h.role = k.role /\ h.user = k.user
      /\ h.remoteDescriptionSet = k.remoteDescriptionSet /\ h.remote = k.remote
      /\ h.log = k.log /\ h.ended = k.ended /\ h.told = k.told /\ h.conn = k.conn
      /\ h.gen = k.gen /\ h.peer = k.peer /\ h.main = k.main /\ k.gen \in Nat
  BY <1>3 DEF Clients
<1>7. Whole(h) /\ Older(k, h)
  BY <1>4, <1>6 DEF Whole, Sound, Older, Grows, Loud
<1>. QED BY <1>1, <1>5, <1>6, <1>7 DEF Quietly, Turns

\* scheduleIceRestart, in the handler of a lost connection.
LEMMA TroubleCame ==
    ASSUME NEW P, NEW k \in Clients(P), Whole(k)
    PROVE  Quietly(k, [ScheduleIceRestart(k) EXCEPT !.conn = "broken"], P)
<1>1. PICK h : h = ScheduleIceRestart(k)
  OBVIOUS
<1>2. k.timers \in Nat /\ k.gen \in Nat
  BY DEF Clients
<1>3. PICK x \in Nat : h = [k EXCEPT !.timers = x]
  <2>1. h = [k EXCEPT !.timers = k.timers] \/ h = [k EXCEPT !.timers = k.timers + 1]
    BY <1>1 DEF ScheduleIceRestart, Clients
  <2>. QED BY <1>2, <2>1
<1>4. PICK n : n = [k EXCEPT !.timers = x, !.conn = "broken"]
  OBVIOUS
<1>5. n \in Clients(P)
  BY <1>4 DEF Clients
<1>6. /\ n.chan = k.chan /\ n.live = k.live /\ n.role = k.role /\ n.user = k.user
      /\ n.remoteDescriptionSet = k.remoteDescriptionSet /\ n.remote = k.remote
      /\ n.got = k.got /\ n.queue = k.queue /\ n.added = k.added
      /\ n.log = k.log /\ n.ended = k.ended /\ n.told = k.told /\ n.conn = "broken"
      /\ n.gen = k.gen /\ n.peer = k.peer /\ n.main = k.main
  BY <1>4 DEF Clients
<1>7. Whole(n) /\ Older(k, n)
  BY <1>2, <1>6 DEF Whole, Sound, Older, Grows, Loud
<1>8. [ScheduleIceRestart(k) EXCEPT !.conn = "broken"] = n
  BY <1>1, <1>3, <1>4
<1>. QED BY <1>5, <1>6, <1>7, <1>8 DEF Quietly, Turns

(* The steps of a client --------------------------------------------------*)

LEMMA ClientFacts ==
    ASSUME CallIInv, NEW c \in DOMAIN cl
    PROVE  /\ c \in Nat /\ cl[c] \in Clients(Peers(cl)) /\ Whole(cl[c])
           /\ NoPeer \in Peers(cl) /\ cl[c].user \in Users /\ PageTypes
<1>1. ClientsInv(cl) /\ PageTypes
  BY DEF CallIInv
<1>2. c \in Nat /\ cl[c] \in Clients(Peers(cl)) /\ Whole(cl[c]) /\ NoPeer \in Peers(cl)
  BY <1>1, InvFacts
<1>3. cl[c].user \in Users
  BY <1>2 DEF Clients
<1>. QED BY <1>1, <1>2, <1>3

LEMMA Handled ==
    ASSUME CallIInv, NEW c \in DOMAIN cl, NEW n, Quietly(cl[c], n, Peers(cl)),
           NEW f, f = [cl EXCEPT ![c] = n]
    PROVE  Midway(f) /\ f[c] = n /\ c \in DOMAIN f
<1>1. Turns(cl[c], n, Peers(cl)) /\ n.log = cl[c].log
  BY DEF Quietly
<1>2. Midway([cl EXCEPT ![c] = n])
  BY <1>1, Starting, OneMidway
<1>. QED BY <1>2

LEMMA HandledAndPushed ==
    ASSUME CallIInv, NEW c \in DOMAIN cl, NEW n, Quietly(cl[c], n, Peers(cl)),
           NEW f, f = [cl EXCEPT ![c] = n],
           NEW m, m = NoSignal \/ (n.chan /\ \E t \in Names : m = Signal(c, n.gen, t)),
           Push(f, m)
    PROVE  CallIInv' /\ Reporting(cl, cl')
<1>1. Midway(f) /\ f[c] = n /\ c \in DOMAIN f
  BY Handled
<1>2. ASSUME NEW t \in Names, n.chan
      PROVE  Signal(c, n.gen, t) = NoSignal \/ Signal(c, n.gen, t) \in Signals(Peers(f))
  <2>1. PushSignal(f, c, t) = Signal(c, n.gen, t)
    BY <1>1, <1>2 DEF PushSignal
  <2>2. ClientsInv(f)
    BY <1>1 DEF Midway
  <2>. QED BY <1>1, <2>1, <2>2, Sending
<1>3. m = NoSignal \/ m \in Signals(Peers(f))
  BY <1>2
<1>. QED BY <1>1, <1>3, Pushing

LEMMA OfflineStep ==
    ASSUME CallIInv, NEW c \in DOMAIN cl, Offline(c)
    PROVE  CallIInv' /\ Reporting(cl, cl')
<1>1. PICK f : f = cl
  OBVIOUS
<1>2. Midway(f)
  BY <1>1, Starting
<1>3. FinishCall(c, f)
  BY <1>1 DEF Offline, FinishCall
<1>. QED BY <1>2, <1>3, Finishing

LEMMA IceTroubleStep ==
    ASSUME CallIInv, NEW c \in DOMAIN cl, IceTrouble(c)
    PROVE  CallIInv' /\ Reporting(cl, cl')
<1>1. CASE RestartsUsedUp(cl[c])
  <2>1. PICK f : f = cl
    OBVIOUS
  <2>2. Midway(f)
    BY <2>1, Starting
  <2>3. FinishCall(c, f)
    BY <1>1, <2>1 DEF IceTrouble, FinishCall
  <2>. QED BY <2>2, <2>3, Finishing
<1>2. CASE ~RestartsUsedUp(cl[c])
  <2>1. PICK n : n = [ScheduleIceRestart(cl[c]) EXCEPT !.conn = "broken"]
    OBVIOUS
  <2>2. Quietly(cl[c], n, Peers(cl))
    BY <2>1, ClientFacts, TroubleCame
  <2>3. PICK f : f = [cl EXCEPT ![c] = n]
    OBVIOUS
  <2>4. Push(f, NoSignal)
    BY <1>2, <2>1, <2>3 DEF IceTrouble, Push
  <2>. QED BY <2>2, <2>3, <2>4, HandledAndPushed
<1>. QED BY <1>1, <1>2

LEMMA JoinFailsStep ==
    ASSUME CallIInv, NEW c \in DOMAIN cl, JoinFails(c)
    PROVE  CallIInv' /\ Reporting(cl, cl')
<1>1. PICK n : n = [cl[c] EXCEPT !.main = "none"]
  OBVIOUS
<1>2. Quietly(cl[c], n, Peers(cl))
  BY <1>1, ClientFacts, MainGoesOn
<1>3. PICK f : f = [cl EXCEPT ![c] = n]
  OBVIOUS
<1>4. f = [cl EXCEPT ![c].main = "none"]
  BY <1>1, <1>3
<1>5. Midway(f) /\ f[c].role = cl[c].role
  BY <1>2, <1>3, Handled DEF Quietly, Turns, Older, Grows
<1>6. CASE cl[c].role = "reject"
  <2>1. cl' = f /\ UNCHANGED <<hook, server, ring, stop>>
    BY <1>4, <1>6 DEF JoinFails
  <2>2. Calmer
    BY <2>1, ClientFacts DEF Calmer, PageTypes
  <2>. QED BY <1>5, <2>1, <2>2, CalmStep, NothingReported DEF Midway
<1>7. CASE cl[c].role # "reject"
  <2>1. HookFails(c, f)
    BY <1>4, <1>7 DEF JoinFails, HookFails
  <2>. QED BY <1>5, <2>1, HookFailing
<1>. QED BY <1>6, <1>7

LEMMA MediaDeniedStep ==
    ASSUME CallIInv, NEW c \in DOMAIN cl, MediaDenied(c)
    PROVE  CallIInv' /\ Reporting(cl, cl')
<1>1. CASE HookFails(c, [cl EXCEPT ![c].main = "none"])
  <2>1. PICK n : n = [cl[c] EXCEPT !.main = "none"]
    OBVIOUS
  <2>2. Quietly(cl[c], n, Peers(cl))
    BY <2>1, ClientFacts, MainGoesOn
  <2>3. PICK f : f = [cl EXCEPT ![c] = n]
    OBVIOUS
  <2>4. f = [cl EXCEPT ![c].main = "none"]
    BY <2>1, <2>3
  <2>5. HookFails(c, f)
    BY <1>1, <2>4 DEF HookFails
  <2>. QED BY <2>2, <2>3, <2>5, Handled, HookFailing
<1>2. ASSUME NEW i \in DOMAIN cl[c].tasks,
             FinishCall(c, [cl EXCEPT ![c].tasks = RemoveAt(@, i)])
      PROVE  CallIInv' /\ Reporting(cl, cl')
  <2>1. PICK n : n = Without(cl[c], i)
    OBVIOUS
  <2>2. Quietly(cl[c], n, Peers(cl))
    BY <2>1, ClientFacts, TaskDone
  <2>3. PICK f : f = [cl EXCEPT ![c] = n]
    OBVIOUS
  <2>4. f = [cl EXCEPT ![c].tasks = RemoveAt(@, i)]
    BY <2>1, <2>3 DEF Without
  <2>5. FinishCall(c, f)
    BY <1>2, <2>4 DEF FinishCall
  <2>. QED BY <2>2, <2>3, <2>5, Handled, Finishing
<1>. QED BY <1>1, <1>2 DEF MediaDenied

LEMMA JoinOkStep ==
    ASSUME CallIInv, NEW c \in DOMAIN cl, JoinOk(c)
    PROVE  CallIInv' /\ Reporting(cl, cl')
<1>1. PICK n : n = [cl[c] EXCEPT !.chan = TRUE, !.main = "wait"]
  OBVIOUS
<1>2. cl[c].main = "join" /\ PageTypes
  BY ClientFacts DEF JoinOk
<1>3. Quietly(cl[c], n, Peers(cl))
  BY <1>1, <1>2, ClientFacts, Joined
<1>4. PICK f : f = [cl EXCEPT ![c] = n]
  OBVIOUS
<1>5. f = [cl EXCEPT ![c].chan = TRUE, ![c].main = "wait"]
  <2>1. f = [cl EXCEPT ![c] = [cl[c] EXCEPT !.chan = TRUE, !.main = "wait"]]
    BY <1>1, <1>4
  <2>. QED BY <2>1
<1>6. cl' = f /\ UNCHANGED <<hook, server, ring, stop>>
  BY <1>5 DEF JoinOk
<1>7. Calmer
  BY <1>2, <1>6 DEF Calmer, PageTypes
<1>8. Midway(f)
  BY <1>3, <1>4, Handled
<1>. QED BY <1>6, <1>7, <1>8, CalmStep, NothingReported DEF Midway

LEMMA InitializedStep ==
    ASSUME CallIInv, NEW c \in DOMAIN cl, Initialized(c)
    PROVE  CallIInv' /\ Reporting(cl, cl')
<1>1. PICK n : n = [cl[c] EXCEPT !.main = "none"]
  OBVIOUS
<1>2. Quietly(cl[c], n, Peers(cl))
  BY <1>1, ClientFacts, MainGoesOn
<1>3. PICK f : f = [cl EXCEPT ![c] = n]
  OBVIOUS
<1>4. f = [cl EXCEPT ![c].main = "none"]
  BY <1>1, <1>3
<1>5. Midway(f) /\ f[c] = n /\ c \in DOMAIN f /\ ClientsInv(f)
  BY <1>2, <1>3, Handled DEF Midway
<1>6. CASE cl[c].role = "reject"
  <2>1. /\ cl' = Dispose(Relayed(f, PushSignal(f, c, "call_rejected")), {c})
        /\ UNCHANGED <<hook, ring, server, stop>>
    BY <1>4, <1>6 DEF Initialized
  <2>2. PICK m : m = PushSignal(f, c, "call_rejected")
    OBVIOUS
  <2>3. m = NoSignal \/ m \in Signals(Peers(f))
    BY <1>5, <2>2, Sending DEF Names
  <2>4. PICK g : g = Relayed(f, m)
    OBVIOUS
  <2>5. Midway(g)
    BY <1>5, <2>3, <2>4, RelayMidway
  <2>6. Midway(cl')
    BY <2>1, <2>2, <2>4, <2>5, DisposeMidway
  <2>7. Calmer
    BY <2>1, ClientFacts DEF Calmer, PageTypes
  <2>. QED BY <2>6, <2>7, CalmStep, NothingReported DEF Midway
<1>7. CASE cl[c].role # "reject" /\ ~cl[c].live
  <2>1. HookFails(c, f)
    BY <1>4, <1>7 DEF Initialized, HookFails
  <2>. QED BY <1>5, <2>1, HookFailing
<1>8. CASE cl[c].role = "answer" /\ cl[c].live
  <2>1. PICK m : m = PushSignal(f, c, "peer_ready")
    OBVIOUS
  <2>2. Push(f, m)
    BY <1>4, <1>8, <2>1 DEF Initialized, Push
  <2>3. m = NoSignal \/ m \in Signals(Peers(f))
    BY <1>5, <2>1, Sending DEF Names
  <2>. QED BY <1>5, <2>2, <2>3, Pushing
<1>9. CASE cl[c].role \in {"start", "resume"} /\ cl[c].live
  <2>1. PICK o : o = [cl[c] EXCEPT !.main = "media"]
    OBVIOUS
  <2>2. Quietly(cl[c], o, Peers(cl))
    BY <2>1, ClientFacts, MainGoesOn
  <2>3. PICK g : g = [cl EXCEPT ![c] = o]
    OBVIOUS
  <2>4. g = [cl EXCEPT ![c].main = "media"]
    BY <2>1, <2>3
  <2>5. Push(g, NoSignal)
    BY <1>9, <2>4 DEF Initialized, Push
  <2>. QED BY <2>2, <2>3, <2>5, HandledAndPushed
<1>. QED BY <1>6, <1>7, <1>8, <1>9, ClientFacts DEF Clients, Roles

\* The microphone is given.
LEMMA StreamGiven ==
    ASSUME NEW P, NEW k \in Clients(P)
    PROVE  [k EXCEPT !.stream = TRUE] \in Clients(P)
BY DEF Clients

LEMMA StreamIsMinor ==
    ASSUME NEW P, NEW k \in Clients(P)
    PROVE  Minor(k, [k EXCEPT !.stream = TRUE])
BY DEF Clients, Minor

LEMMA LocalPeerPreparedStep ==
    ASSUME CallIInv, NEW c \in DOMAIN cl, LocalPeerPrepared(c)
    PROVE  CallIInv' /\ Reporting(cl, cl')
<1>. PICK P : P = Peers(cl)
  OBVIOUS
<1>1. cl[c] \in Clients(P) /\ Whole(cl[c])
  BY ClientFacts
<1>2. PICK s : s = [cl[c] EXCEPT !.stream = TRUE]
  OBVIOUS
<1>3. s \in Clients(P) /\ Minor(cl[c], s)
  BY <1>1, <1>2, StreamGiven, StreamIsMinor
<1>4. Quietly(cl[c], s, P)
  BY <1>1, <1>3, MinorTurn
<1>5. PICK k : k = CreatePeerConnection(s)
  OBVIOUS
<1>6. Quietly(s, k, P)
  BY <1>4, <1>5, PeerCreated DEF Quietly, Turns
<1>7. PICK m \in {"offer", "none"} : m = (IF k.role = "start" THEN "offer" ELSE "none")
  OBVIOUS
<1>8. PICK b \in BOOLEAN : b = (k.user = "caller")
  OBVIOUS
<1>9. PICK n : n = [k EXCEPT !.main = m, !.shouldInitiate = b]
  OBVIOUS
<1>10. k \in Clients(P) /\ Whole(k)
  BY <1>6 DEF Quietly, Turns
<1>11. Quietly(k, [k EXCEPT !.main = m, !.shouldInitiate = b], P)
  BY <1>10, Prepared
<1>12. Quietly(k, n, P)
  BY <1>9, <1>11
<1>13. Quietly(cl[c], n, P)
  BY <1>1, <1>4, <1>6, <1>12, QuietlyTransitive
<1>14. PICK f : f = [cl EXCEPT ![c] = n]
  OBVIOUS
<1>15. Midway(f) /\ c \in DOMAIN f /\ ClientsInv(f)
  BY <1>13, <1>14, Handled DEF Midway
<1>16. PICK q : q = (IF k.role = "start" THEN NoSignal ELSE PushSignal(f, c, "peer_ready"))
  OBVIOUS
<1>17. q = NoSignal \/ q \in Signals(Peers(f))
  BY <1>15, <1>16, Sending DEF Names
<1>18. Push(f, q)
  <2>1. f = [cl EXCEPT ![c] = [k EXCEPT
                 !.main = IF k.role = "start" THEN "offer" ELSE "none",
                 !.shouldInitiate = k.user = "caller"]]
    BY <1>7, <1>8, <1>9, <1>14
  <2>. QED BY <1>2, <1>5, <1>16, <2>1 DEF LocalPeerPrepared, Push
<1>. QED BY <1>15, <1>17, <1>18, Pushing

\* Fields of the negotiation that the invariant is not about.
LEMMA Negotiating ==
    ASSUME NEW P, NEW k \in Clients(P), Whole(k),
           NEW sig \in {"stable", "local", "remote"}, NEW b \in BOOLEAN
    PROVE  /\ Quietly(k, [k EXCEPT !.sig = sig], P)
           /\ Quietly(k, [k EXCEPT !.pendingOffer = b], P)
           /\ Quietly(k, [k EXCEPT !.peerReady = b], P)
           /\ Quietly(k, [k EXCEPT !.answerInProgress = b], P)
           /\ Quietly(k, [k EXCEPT !.stream = b], P)
           /\ Quietly(k, [k EXCEPT !.sent = b], P)
<1>1. ASSUME NEW n, n = [k EXCEPT !.sig = sig] PROVE Quietly(k, n, P)
  <2>1. n \in Clients(P)
    BY <1>1 DEF Clients
  <2>2. Minor(k, n)
    BY <1>1 DEF Clients, Minor
  <2>. QED BY <2>1, <2>2, MinorTurn
<1>2. ASSUME NEW n, n = [k EXCEPT !.pendingOffer = b] PROVE Quietly(k, n, P)
  <2>1. n \in Clients(P)
    BY <1>2 DEF Clients
  <2>2. Minor(k, n)
    BY <1>2 DEF Clients, Minor
  <2>. QED BY <2>1, <2>2, MinorTurn
<1>3. ASSUME NEW n, n = [k EXCEPT !.peerReady = b] PROVE Quietly(k, n, P)
  <2>1. n \in Clients(P)
    BY <1>3 DEF Clients
  <2>2. Minor(k, n)
    BY <1>3 DEF Clients, Minor
  <2>. QED BY <2>1, <2>2, MinorTurn
<1>4. ASSUME NEW n, n = [k EXCEPT !.answerInProgress = b] PROVE Quietly(k, n, P)
  <2>1. n \in Clients(P)
    BY <1>4 DEF Clients
  <2>2. Minor(k, n)
    BY <1>4 DEF Clients, Minor
  <2>. QED BY <2>1, <2>2, MinorTurn
<1>5. ASSUME NEW n, n = [k EXCEPT !.stream = b] PROVE Quietly(k, n, P)
  <2>1. n \in Clients(P)
    BY <1>5 DEF Clients
  <2>2. Minor(k, n)
    BY <1>5 DEF Clients, Minor
  <2>. QED BY <2>1, <2>2, MinorTurn
<1>6. ASSUME NEW n, n = [k EXCEPT !.sent = b] PROVE Quietly(k, n, P)
  <2>1. n \in Clients(P)
    BY <1>6 DEF Clients
  <2>2. Minor(k, n)
    BY <1>6 DEF Clients, Minor
  <2>. QED BY <2>1, <2>2, MinorTurn
<1>. QED BY <1>1, <1>2, <1>3, <1>4, <1>5, <1>6

\* What Quietly leaves: the client is still one.
LEMMA StillAClient ==
    ASSUME NEW P, NEW k, NEW n, Quietly(k, n, P)
    PROVE  n \in Clients(P) /\ Whole(n)
  BY DEF Quietly, Turns

LEMMA Flushing ==
    ASSUME CallIInv, NEW c \in DOMAIN cl, NEW n, Quietly(cl[c], n, Peers(cl)),
           NEW f, f = [cl EXCEPT ![c] = n], FlushPendingOffer(f, c)
    PROVE  CallIInv' /\ Reporting(cl, cl')
<1>1. f[c] = n
  BY Handled
<1>2. CASE Flushes(n)
  <2>1. PICK o : o = [n EXCEPT !.pendingOffer = FALSE]
    OBVIOUS
  <2>2. Quietly(n, o, Peers(cl))
    BY <2>1, StillAClient, Negotiating
  <2>3. Quietly(cl[c], o, Peers(cl))
    BY <2>2, ClientFacts, QuietlyTransitive
  <2>4. PICK g : g = [cl EXCEPT ![c] = o]
    OBVIOUS
  <2>5. g = [f EXCEPT ![c].pendingOffer = FALSE]
    BY <1>1, <2>1, <2>4
  <2>6. PICK m : m = PushSignal(f, c, "offer")
    OBVIOUS
  <2>7. Push(g, m)
    BY <1>1, <1>2, <2>5, <2>6 DEF FlushPendingOffer, Push
  <2>8. o.chan = n.chan /\ o.gen = n.gen
    <3>1. n \in Clients(Peers(cl))
      BY StillAClient
    <3>. QED BY <2>1, <3>1 DEF Clients
  <2>9. m = NoSignal \/ (o.chan /\ \E t \in Names : m = Signal(c, o.gen, t))
    BY <1>1, <2>6, <2>8 DEF PushSignal, Names
  <2>. QED BY <2>3, <2>4, <2>7, <2>9, HandledAndPushed
<1>3. CASE ~Flushes(n)
  <2>1. Push(f, NoSignal)
    BY <1>1, <1>3 DEF FlushPendingOffer
  <2>. QED BY <2>1, HandledAndPushed
<1>. QED BY <1>2, <1>3

LEMMA Offering ==
    ASSUME CallIInv, NEW c \in DOMAIN cl, NEW n, Quietly(cl[c], n, Peers(cl)),
           NEW f, f = [cl EXCEPT ![c] = n], Offered(f, c)
    PROVE  CallIInv' /\ Reporting(cl, cl')
<1>1. f[c] = n /\ c \in DOMAIN f
  BY Handled
<1>2. PICK h : h = [n EXCEPT !.sig = "local"]
  OBVIOUS
<1>3. PICK o : o = [h EXCEPT !.pendingOffer = TRUE]
  OBVIOUS
<1>4. Quietly(n, h, Peers(cl))
  BY <1>2, StillAClient, Negotiating
<1>5. Quietly(h, o, Peers(cl))
  BY <1>3, <1>4, StillAClient, Negotiating
<1>6. Quietly(cl[c], o, Peers(cl))
  BY <1>4, <1>5, ClientFacts, QuietlyTransitive
<1>7. PICK g : g = [cl EXCEPT ![c] = o]
  OBVIOUS
<1>8. g = [f EXCEPT ![c].sig = "local", ![c].pendingOffer = TRUE]
  BY <1>1, <1>2, <1>3, <1>7
<1>9. FlushPendingOffer(g, c)
  BY <1>8 DEF Offered, FlushPendingOffer, Push
<1>. QED BY <1>6, <1>7, <1>9, Flushing

LEMMA StartOfferedStep ==
    ASSUME CallIInv, NEW c \in DOMAIN cl, StartOffered(c)
    PROVE  CallIInv' /\ Reporting(cl, cl')
<1>1. PICK n : n = [cl[c] EXCEPT !.main = "none"]
  OBVIOUS
<1>2. Quietly(cl[c], n, Peers(cl))
  BY <1>1, ClientFacts, MainGoesOn
<1>3. PICK f : f = [cl EXCEPT ![c] = n]
  OBVIOUS
<1>4. f = [cl EXCEPT ![c].main = "none"]
  BY <1>1, <1>3
<1>5. CASE CanOffer(cl[c])
  <2>1. Offered(f, c)
    BY <1>4, <1>5 DEF StartOffered, Offered, FlushPendingOffer, Push
  <2>. QED BY <1>2, <1>3, <2>1, Offering
<1>6. CASE ~CanOffer(cl[c])
  <2>1. HookFails(c, f)
    BY <1>4, <1>6 DEF StartOffered, HookFails
  <2>. QED BY <1>2, <1>3, <2>1, Handled, HookFailing
<1>. QED BY <1>5, <1>6

\* The next signal is taken from the inbox.
LEMMA Received ==
    ASSUME NEW P, NEW k \in Clients(P), Whole(k), k.inbox # <<>>
    PROVE  /\ Head(k.inbox) \in Signals(P)
           /\ Quietly(k, [k EXCEPT !.inbox = Tail(@)], P)
<1>1. k.inbox \in Seq(Signals(P))
  BY DEF Clients
<1>2. Head(k.inbox) \in Signals(P) /\ Tail(k.inbox) \in Seq(Signals(P))
  BY <1>1
<1>3. PICK s : s = Tail(k.inbox)
  OBVIOUS
<1>4. PICK n : n = [k EXCEPT !.inbox = s]
  OBVIOUS
<1>5. s \in Seq(Signals(P))
  BY <1>2, <1>3
<1>6. n \in Clients(P) /\ Minor(k, n)
  BY <1>4, <1>5 DEF Clients, Minor
<1>7. [k EXCEPT !.inbox = Tail(@)] = n
  BY <1>3, <1>4
<1>. QED BY <1>2, <1>6, <1>7, MinorTurn

LEMMA PeerReadyComes ==
    ASSUME CallIInv, NEW c \in DOMAIN cl, NEW n, Quietly(cl[c], n, Peers(cl)),
           NEW f, f = [cl EXCEPT ![c] = n], HandlePeerReady(c, f)
    PROVE  CallIInv' /\ Reporting(cl, cl')
<1>. PICK P : P = Peers(cl)
  OBVIOUS
<1>1. f[c] = n
  BY Handled
<1>2. PICK k : k = [n EXCEPT !.peerReady = TRUE]
  OBVIOUS
<1>3. Quietly(n, k, P)
  BY <1>2, StillAClient, Negotiating
<1>4. CASE k.shouldInitiate /\ ~k.pendingOffer
  <2>1. PICK h : h = CreatePeerConnection(k)
    OBVIOUS
  <2>2. Quietly(k, h, P)
    BY <1>3, <2>1, StillAClient, PeerCreated
  <2>3. PICK t : t = Task("ready", "offer", NoPeer)
    OBVIOUS
  <2>4. t \in Tasks(P)
    <3>1. NoPeer \in P
      BY ClientFacts
    <3>. QED BY <2>3, <3>1 DEF Task, Tasks, Kinds, Points
  <2>5. PICK o : o = [h EXCEPT !.tasks = Append(@, t)]
    OBVIOUS
  <2>6. Quietly(h, o, P)
    BY <2>2, <2>4, <2>5, StillAClient, TaskAdded
  <2>7. Quietly(cl[c], o, P)
    <3>1. cl[c] \in Clients(P)
      BY ClientFacts
    <3>2. Quietly(cl[c], k, P)
      BY <1>3, <3>1, QuietlyTransitive
    <3>3. Quietly(cl[c], h, P)
      BY <2>2, <3>1, <3>2, QuietlyTransitive
    <3>. QED BY <2>6, <3>1, <3>3, QuietlyTransitive
  <2>8. PICK g : g = [cl EXCEPT ![c] = o]
    OBVIOUS
  <2>9. g = [f EXCEPT ![c] = [CreatePeerConnection(k) EXCEPT
                                 !.tasks = Append(@, Task("ready", "offer", NoPeer))]]
    BY <2>1, <2>3, <2>5, <2>8
  <2>10. Push(g, NoSignal)
    BY <1>1, <1>2, <1>4, <2>9 DEF HandlePeerReady, Push
  <2>. QED BY <2>7, <2>8, <2>10, HandledAndPushed
<1>5. CASE ~(k.shouldInitiate /\ ~k.pendingOffer)
  <2>1. PICK g : g = [cl EXCEPT ![c] = k]
    OBVIOUS
  <2>2. g = [f EXCEPT ![c] = k]
    BY <2>1
  <2>3. FlushPendingOffer(g, c)
    BY <1>1, <1>2, <1>5, <2>2 DEF HandlePeerReady, FlushPendingOffer, Push
  <2>4. Quietly(cl[c], k, P)
    BY <1>3, ClientFacts, QuietlyTransitive
  <2>. QED BY <2>1, <2>3, <2>4, Flushing
<1>. QED BY <1>4, <1>5

LEMMA OfferComes ==
    ASSUME CallIInv, NEW c \in DOMAIN cl, NEW n, Quietly(cl[c], n, Peers(cl)),
           NEW f, f = [cl EXCEPT ![c] = n], NEW p \in Peers(cl), p # NoPeer,
           HandleOffer(c, f, p)
    PROVE  CallIInv' /\ Reporting(cl, cl')
<1>. PICK P : P = Peers(cl)
  OBVIOUS
<1>1. f[c] = n /\ cl[c] \in Clients(P)
  BY Handled, ClientFacts
<1>2. PICK t : t = Task("offer", IF n.stream THEN "remote" ELSE "media", p)
  OBVIOUS
<1>3. t \in Tasks(P)
  BY <1>2 DEF Task, Tasks, Kinds, Points
<1>4. PICK h : h = (IF n.stream THEN CreatePeerConnection(n) ELSE n)
  OBVIOUS
<1>5. Quietly(cl[c], h, P)
  <2>1. Quietly(n, CreatePeerConnection(n), P)
    BY StillAClient, PeerCreated
  <2>2. Quietly(cl[c], CreatePeerConnection(n), P)
    BY <1>1, <2>1, QuietlyTransitive
  <2>. QED BY <1>4, <2>2
<1>6. PICK o : o = [h EXCEPT !.tasks = Append(@, t)]
  OBVIOUS
<1>7. Quietly(cl[c], o, P)
  <2>1. Quietly(h, o, P)
    BY <1>3, <1>5, <1>6, StillAClient, TaskAdded
  <2>. QED BY <1>1, <1>5, <2>1, QuietlyTransitive
<1>8. PICK g : g = [cl EXCEPT ![c] = o]
  OBVIOUS
<1>9. Push(g, NoSignal)
  BY <1>1, <1>2, <1>4, <1>6, <1>8 DEF HandleOffer, Push
<1>. QED BY <1>7, <1>8, <1>9, HandledAndPushed

LEMMA AnswerComes ==
    ASSUME CallIInv, NEW c \in DOMAIN cl, NEW n, Quietly(cl[c], n, Peers(cl)),
           NEW f, f = [cl EXCEPT ![c] = n], NEW p \in Peers(cl), p # NoPeer,
           HandleAnswer(c, f, p)
    PROVE  CallIInv' /\ Reporting(cl, cl')
<1>. PICK P : P = Peers(cl)
  OBVIOUS
<1>1. f[c] = n /\ cl[c] \in Clients(P)
  BY Handled, ClientFacts
<1>2. CASE n.peer /\ ~n.answerInProgress /\ ~n.remoteDescriptionSet /\ n.sig = "local"
  <2>1. PICK t : t = Task("answer", "remote", p)
    OBVIOUS
  <2>2. t \in Tasks(P)
    BY <2>1 DEF Task, Tasks, Kinds, Points
  <2>3. PICK h : h = [n EXCEPT !.answerInProgress = TRUE]
    OBVIOUS
  <2>4. Quietly(n, h, P)
    BY <2>3, StillAClient, Negotiating
  <2>5. PICK o : o = [h EXCEPT !.tasks = Append(@, t)]
    OBVIOUS
  <2>6. Quietly(h, o, P)
    BY <2>2, <2>4, <2>5, StillAClient, TaskAdded
  <2>7. Quietly(cl[c], o, P)
    BY <1>1, <2>4, <2>6, QuietlyTransitive
  <2>8. PICK g : g = [cl EXCEPT ![c] = o]
    OBVIOUS
  <2>9. o = [n EXCEPT !.answerInProgress = TRUE,
                      !.tasks = Append(@, Task("answer", "remote", p))]
    <3>1. n \in Clients(P)
      BY StillAClient
    <3>. QED BY <2>1, <2>3, <2>5, <3>1 DEF Clients
  <2>10. Push(g, NoSignal)
    BY <1>1, <1>2, <2>8, <2>9 DEF HandleAnswer, Push
  <2>. QED BY <2>7, <2>8, <2>10, HandledAndPushed
<1>3. CASE ~(n.peer /\ ~n.answerInProgress /\ ~n.remoteDescriptionSet /\ n.sig = "local")
  <2>1. Push(f, NoSignal)
    BY <1>1, <1>3 DEF HandleAnswer, Push
  <2>. QED BY <2>1, HandledAndPushed
<1>. QED BY <1>2, <1>3

LEMMA DeliverStep ==
    ASSUME CallIInv, NEW c \in DOMAIN cl, Deliver(c)
    PROVE  CallIInv' /\ Reporting(cl, cl')
<1>. PICK P : P = Peers(cl)
  OBVIOUS
<1>1. cl[c] \in Clients(P) /\ Whole(cl[c]) /\ cl[c].inbox # <<>>
  BY ClientFacts DEF Deliver
<1>2. PICK m : m = Head(cl[c].inbox)
  OBVIOUS
<1>3. PICK n : n = [cl[c] EXCEPT !.inbox = Tail(@)]
  OBVIOUS
<1>4. m \in Signals(P) /\ Quietly(cl[c], n, P)
  BY <1>1, <1>2, <1>3, Received
<1>5. PICK f : f = [cl EXCEPT ![c] = n]
  OBVIOUS
<1>6. f = [cl EXCEPT ![c].inbox = Tail(@)]
  BY <1>3, <1>5
<1>7. m.from \in P /\ (m.t \in {"offer", "answer"} => m.from # NoPeer)
  BY <1>4 DEF Signals
<1>8. f[c] = n /\ Midway(f)
  BY <1>4, <1>5, Handled
<1>9. CASE m.t = "peer_ready"
  <2>1. HandlePeerReady(c, f)
    BY <1>2, <1>6, <1>9 DEF Deliver, HandlePeerReady, FlushPendingOffer, Push
  <2>. QED BY <1>4, <1>5, <2>1, PeerReadyComes
<1>10. CASE m.t = "offer"
  <2>1. HandleOffer(c, f, m.from)
    BY <1>2, <1>6, <1>10 DEF Deliver, HandleOffer, Push
  <2>2. PICK p : p = m.from
    OBVIOUS
  <2>. QED BY <1>4, <1>5, <1>7, <1>10, <2>1, <2>2, OfferComes
<1>11. CASE m.t = "answer"
  <2>1. HandleAnswer(c, f, m.from)
    BY <1>2, <1>6, <1>11 DEF Deliver, HandleAnswer, Push
  <2>. QED BY <1>4, <1>5, <1>7, <1>11, <2>1, AnswerComes
<1>12. CASE m.t = "ice_candidate"
  <2>1. PICK p : p = m.from
    OBVIOUS
  <2>2. PICK o : o = HandleIceCandidate(n, p)
    OBVIOUS
  <2>3. p[1] \in Nat
    <3>1. p \in Peers(cl)
      BY <1>7, <2>1
    <3>2. ClientsInv(cl)
      BY DEF CallIInv
    <3>3. DOMAIN cl \subseteq Nat
      BY <3>2, InvFacts
    <3>. QED BY <3>1, <3>3 DEF Peers, NoPeer
  <2>4. Quietly(n, o, P)
    BY <1>4, <2>2, <2>3, StillAClient, CandidateCame
  <2>5. Quietly(cl[c], o, P)
    BY <1>1, <1>4, <2>4, QuietlyTransitive
  <2>6. PICK g : g = [cl EXCEPT ![c] = o]
    OBVIOUS
  <2>7. g = [f EXCEPT ![c] = HandleIceCandidate(@, m.from)]
    BY <1>5, <1>8, <2>1, <2>2, <2>6
  <2>8. Push(g, NoSignal)
    BY <1>2, <1>6, <1>12, <2>7 DEF Deliver, Push
  <2>. QED BY <2>5, <2>6, <2>8, HandledAndPushed
<1>13. CASE m.t \notin {"peer_ready", "offer", "answer", "ice_candidate"}
  <2>1. FinishCall(c, f)
    BY <1>2, <1>6, <1>13 DEF Deliver, FinishCall
  <2>. QED BY <1>8, <2>1, Finishing
<1>. QED BY <1>9, <1>10, <1>11, <1>12, <1>13

(* The handlers go on -----------------------------------------------------*)

LEMMA OfferHasMediaStep ==
    ASSUME CallIInv, NEW c \in DOMAIN cl, NEW i \in DOMAIN cl[c].tasks, OfferHasMedia(c, i)
    PROVE  CallIInv' /\ Reporting(cl, cl')
<1>. PICK P : P = Peers(cl)
  OBVIOUS
<1>1. cl[c] \in Clients(P) /\ Whole(cl[c])
  BY ClientFacts
<1>2. PICK s : s = [cl[c] EXCEPT !.stream = TRUE]
  OBVIOUS
<1>3. Quietly(cl[c], s, P)
  BY <1>1, <1>2, Negotiating
<1>4. PICK h : h = CreatePeerConnection(s)
  OBVIOUS
<1>5. Quietly(s, h, P)
  BY <1>3, <1>4, StillAClient, PeerCreated
<1>6. h.tasks = cl[c].tasks
  <2>1. s \in Clients(P)
    BY <1>3, StillAClient
  <2>2. h.tasks = s.tasks
    BY <1>4, <2>1 DEF CreatePeerConnection, Clients
  <2>. QED BY <1>1, <1>2, <2>2 DEF Clients
<1>7. PICK o : o = Moved(h, i, "remote")
  OBVIOUS
<1>8. Quietly(h, o, P)
  BY <1>5, <1>6, <1>7, StillAClient, TaskMoved DEF Points
<1>9. Quietly(cl[c], o, P)
  <2>1. Quietly(cl[c], h, P)
    BY <1>1, <1>3, <1>5, QuietlyTransitive
  <2>. QED BY <1>1, <1>8, <2>1, QuietlyTransitive
<1>10. PICK f : f = [cl EXCEPT ![c] = o]
  OBVIOUS
<1>11. Push(f, NoSignal)
  BY <1>2, <1>4, <1>7, <1>10 DEF OfferHasMedia, Push
<1>. QED BY <1>9, <1>10, <1>11, HandledAndPushed

LEMMA OfferAppliedStep ==
    ASSUME CallIInv, NEW c \in DOMAIN cl, NEW i \in DOMAIN cl[c].tasks, OfferApplied(c, i)
    PROVE  CallIInv' /\ Reporting(cl, cl')
<1>. PICK P : P = Peers(cl)
  OBVIOUS
<1>1. cl[c] \in Clients(P) /\ Whole(cl[c])
  BY ClientFacts
<1>2. PICK p : p = cl[c].tasks[i].from
  OBVIOUS
<1>3. p \in P /\ p # NoPeer
  <2>1. cl[c].tasks \in Seq(Tasks(P))
    BY <1>1 DEF Clients
  <2>2. cl[c].tasks[i] \in Tasks(P)
    BY <2>1
  <2>. QED BY <1>2, <2>2 DEF OfferApplied, Tasks
<1>4. PICK h : h = RemoteDescribed(cl[c], p, "remote")
  OBVIOUS
<1>5. Quietly(cl[c], h, P)
  BY <1>1, <1>3, <1>4, Described
<1>6. h.tasks = cl[c].tasks
  BY <1>1, <1>4 DEF RemoteDescribed, ProcessIceCandidateQueue, Clients
<1>7. PICK o : o = Moved(h, i, "answer")
  OBVIOUS
<1>8. Quietly(h, o, P)
  BY <1>5, <1>6, <1>7, StillAClient, TaskMoved DEF Points
<1>9. Quietly(cl[c], o, P)
  BY <1>1, <1>5, <1>8, QuietlyTransitive
<1>10. PICK f : f = [cl EXCEPT ![c] = o]
  OBVIOUS
<1>11. Push(f, NoSignal)
  BY <1>2, <1>4, <1>7, <1>10 DEF OfferApplied, Push
<1>. QED BY <1>9, <1>10, <1>11, HandledAndPushed

\* A client whose handler is done, and the clients then.
LEMMA HandlerDone ==
    ASSUME CallIInv, NEW c \in DOMAIN cl, NEW i \in DOMAIN cl[c].tasks,
           NEW n, n = Without(cl[c], i), NEW f, f = [cl EXCEPT ![c] = n]
    PROVE  /\ Quietly(cl[c], n, Peers(cl)) /\ Midway(f) /\ f[c] = n
           /\ f = [cl EXCEPT ![c] = Without(@, i)]
<1>1. Quietly(cl[c], n, Peers(cl))
  BY ClientFacts, TaskDone
<1>. QED BY <1>1, Handled

LEMMA OfferAnsweredStep ==
    ASSUME CallIInv, NEW c \in DOMAIN cl, NEW i \in DOMAIN cl[c].tasks, OfferAnswered(c, i)
    PROVE  CallIInv' /\ Reporting(cl, cl')
<1>1. PICK n : n = Without(cl[c], i)
  OBVIOUS
<1>2. PICK f : f = [cl EXCEPT ![c] = n]
  OBVIOUS
<1>3. /\ Quietly(cl[c], n, Peers(cl)) /\ Midway(f) /\ f[c] = n
      /\ f = [cl EXCEPT ![c] = Without(@, i)]
  BY <1>1, <1>2, HandlerDone
<1>4. CASE cl[c].sig = "remote"
  <2>1. PICK o : o = [n EXCEPT !.sig = "stable"]
    OBVIOUS
  <2>2. n \in Clients(Peers(cl)) /\ Whole(n)
    BY <1>3, StillAClient
  <2>3. Quietly(n, o, Peers(cl))
    BY <2>1, <2>2, Negotiating
  <2>4. Quietly(cl[c], o, Peers(cl))
    BY <1>3, <2>3, ClientFacts, QuietlyTransitive
  <2>5. PICK g : g = [cl EXCEPT ![c] = o]
    OBVIOUS
  <2>6. g = [f EXCEPT ![c].sig = "stable"]
    BY <1>2, <1>3, <2>1, <2>5
  <2>7. PICK m : m = PushSignal(f, c, "answer")
    OBVIOUS
  <2>8. Push(g, m)
    BY <1>3, <1>4, <2>6, <2>7 DEF OfferAnswered, Push
  <2>9. o.chan = n.chan /\ o.gen = n.gen
    BY <2>1, <2>2 DEF Clients
  <2>10. m = NoSignal \/ (o.chan /\ \E t \in Names : m = Signal(c, o.gen, t))
    BY <1>3, <2>7, <2>9 DEF PushSignal, Names
  <2>. QED BY <2>4, <2>5, <2>8, <2>10, HandledAndPushed
<1>5. CASE cl[c].sig # "remote"
  <2>1. FinishCall(c, f)
    BY <1>3, <1>5 DEF OfferAnswered, FinishCall
  <2>. QED BY <1>3, <2>1, Finishing
<1>. QED BY <1>4, <1>5

LEMMA AnswerAppliedStep ==
    ASSUME CallIInv, NEW c \in DOMAIN cl, NEW i \in DOMAIN cl[c].tasks, AnswerApplied(c, i)
    PROVE  CallIInv' /\ Reporting(cl, cl')
<1>. PICK P : P = Peers(cl)
  OBVIOUS
<1>1. cl[c] \in Clients(P) /\ Whole(cl[c])
  BY ClientFacts
<1>2. PICK h : h = Without(cl[c], i)
  OBVIOUS
<1>3. Quietly(cl[c], h, P)
  BY <1>1, <1>2, TaskDone
<1>4. PICK n : n = [h EXCEPT !.answerInProgress = FALSE]
  OBVIOUS
<1>5. Quietly(h, n, P)
  BY <1>3, <1>4, StillAClient, Negotiating
<1>6. Quietly(cl[c], n, P)
  BY <1>1, <1>3, <1>5, QuietlyTransitive
<1>7. PICK f : f = [cl EXCEPT ![c] = n]
  OBVIOUS
<1>8. f = [cl EXCEPT ![c] = [Without(@, i) EXCEPT !.answerInProgress = FALSE]]
  BY <1>2, <1>4, <1>7
<1>9. Midway(f) /\ f[c] = n
  BY <1>6, <1>7, Handled
<1>10. CASE cl[c].sig = "local"
  <2>1. PICK p : p = cl[c].tasks[i].from
    OBVIOUS
  <2>2. p \in P /\ p # NoPeer
    <3>1. cl[c].tasks \in Seq(Tasks(P))
      BY <1>1 DEF Clients
    <3>2. cl[c].tasks[i] \in Tasks(P)
      BY <3>1
    <3>. QED BY <2>1, <3>2 DEF AnswerApplied, Tasks
  <2>3. PICK o : o = RemoteDescribed(n, p, "stable")
    OBVIOUS
  <2>4. Quietly(n, o, P)
    BY <1>6, <2>2, <2>3, StillAClient, Described
  <2>5. Quietly(cl[c], o, P)
    BY <1>1, <1>6, <2>4, QuietlyTransitive
  <2>6. PICK g : g = [cl EXCEPT ![c] = o]
    OBVIOUS
  <2>7. g = [f EXCEPT ![c] = RemoteDescribed(@, p, "stable")]
    BY <1>7, <1>9, <2>3, <2>6
  <2>8. Push(g, NoSignal)
    BY <1>8, <1>10, <2>1, <2>7 DEF AnswerApplied, Push
  <2>. QED BY <2>5, <2>6, <2>8, HandledAndPushed
<1>11. CASE cl[c].sig # "local"
  <2>1. FinishCall(c, f)
    BY <1>8, <1>11 DEF AnswerApplied, FinishCall
  <2>. QED BY <1>9, <2>1, Finishing
<1>. QED BY <1>10, <1>11

LEMMA ReadyOfferedStep ==
    ASSUME CallIInv, NEW c \in DOMAIN cl, NEW i \in DOMAIN cl[c].tasks, ReadyOffered(c, i)
    PROVE  CallIInv' /\ Reporting(cl, cl')
<1>1. PICK n : n = Without(cl[c], i)
  OBVIOUS
<1>2. PICK f : f = [cl EXCEPT ![c] = n]
  OBVIOUS
<1>3. /\ Quietly(cl[c], n, Peers(cl)) /\ Midway(f)
      /\ f = [cl EXCEPT ![c] = Without(@, i)]
  BY <1>1, <1>2, HandlerDone
<1>4. CASE CanOffer(cl[c])
  <2>1. Offered(f, c)
    BY <1>3, <1>4 DEF ReadyOffered, Offered, FlushPendingOffer, Push
  <2>. QED BY <1>2, <1>3, <2>1, Offering
<1>5. CASE ~CanOffer(cl[c])
  <2>1. FinishCall(c, f)
    BY <1>3, <1>5 DEF ReadyOffered, FinishCall
  <2>. QED BY <1>3, <2>1, Finishing
<1>. QED BY <1>4, <1>5

LEMMA RestartOfferedStep ==
    ASSUME CallIInv, NEW c \in DOMAIN cl, NEW i \in DOMAIN cl[c].tasks, RestartOffered(c, i)
    PROVE  CallIInv' /\ Reporting(cl, cl')
<1>1. PICK n : n = Without(cl[c], i)
  OBVIOUS
<1>2. PICK f : f = [cl EXCEPT ![c] = n]
  OBVIOUS
<1>3. /\ Quietly(cl[c], n, Peers(cl)) /\ Midway(f) /\ f[c] = n
      /\ f = [cl EXCEPT ![c] = Without(@, i)]
  BY <1>1, <1>2, HandlerDone
<1>4. CASE CanOffer(cl[c])
  <2>1. PICK o : o = [n EXCEPT !.sig = "local"]
    OBVIOUS
  <2>2. n \in Clients(Peers(cl)) /\ Whole(n)
    BY <1>3, StillAClient
  <2>3. Quietly(n, o, Peers(cl))
    BY <2>1, <2>2, Negotiating
  <2>4. Quietly(cl[c], o, Peers(cl))
    BY <1>3, <2>3, ClientFacts, QuietlyTransitive
  <2>5. PICK g : g = [cl EXCEPT ![c] = o]
    OBVIOUS
  <2>6. g = [f EXCEPT ![c].sig = "local"]
    BY <1>2, <1>3, <2>1, <2>5
  <2>7. PICK m : m = PushSignal(f, c, "offer")
    OBVIOUS
  <2>8. Push(g, m)
    BY <1>3, <1>4, <2>6, <2>7 DEF RestartOffered, Push
  <2>9. o.chan = n.chan /\ o.gen = n.gen
    BY <2>1, <2>2 DEF Clients
  <2>10. m = NoSignal \/ (o.chan /\ \E t \in Names : m = Signal(c, o.gen, t))
    BY <1>3, <2>7, <2>9 DEF PushSignal, Names
  <2>. QED BY <2>4, <2>5, <2>8, <2>10, HandledAndPushed
<1>5. CASE ~CanOffer(cl[c]) /\ cl[c].attempts >= MaxRestarts
  <2>1. FinishCall(c, f)
    BY <1>3, <1>5 DEF RestartOffered, FinishCall
  <2>. QED BY <1>3, <2>1, Finishing
<1>6. CASE ~CanOffer(cl[c]) /\ ~(cl[c].attempts >= MaxRestarts)
  <2>1. Push(f, NoSignal)
    BY <1>3, <1>6 DEF RestartOffered, Push
  <2>. QED BY <1>2, <1>3, <2>1, HandledAndPushed
<1>. QED BY <1>4, <1>5, <1>6

LEMMA Restarting ==
    ASSUME NEW P, NEW k \in Clients(P), Whole(k), NEW x \in Nat, NEW y \in Nat
    PROVE  Quietly(k, [k EXCEPT !.timers = x, !.attempts = y], P)
<1>1. PICK n : n = [k EXCEPT !.timers = x, !.attempts = y]
  OBVIOUS
<1>2. n \in Clients(P) /\ Minor(k, n)
  BY <1>1 DEF Clients, Minor
<1>. QED BY <1>1, <1>2, MinorTurn

LEMMA RestartIceStep ==
    ASSUME CallIInv, NEW c \in DOMAIN cl, RestartIce(c)
    PROVE  CallIInv' /\ Reporting(cl, cl')
<1>. PICK P : P = Peers(cl)
  OBVIOUS
<1>1. cl[c] \in Clients(P) /\ Whole(cl[c]) /\ cl[c].timers > 0 /\ NoPeer \in P
  BY ClientFacts DEF RestartIce
<1>2. PICK x \in Nat, y \in Nat : x = cl[c].timers - 1 /\ y = cl[c].attempts + 1
  <2>1. cl[c].timers \in Nat /\ cl[c].attempts \in Nat
    BY <1>1 DEF Clients
  <2>. QED BY <1>1, <2>1
<1>3. PICK h : h = [cl[c] EXCEPT !.timers = x, !.attempts = y]
  OBVIOUS
<1>4. Quietly(cl[c], h, P)
  BY <1>1, <1>3, Restarting
<1>5. PICK t : t = Task("restart", "offer", NoPeer)
  OBVIOUS
<1>6. t \in Tasks(P)
  BY <1>1, <1>5 DEF Task, Tasks, Kinds, Points
<1>7. PICK o : o = [h EXCEPT !.tasks = Append(@, t)]
  OBVIOUS
<1>8. Quietly(h, o, P)
  BY <1>4, <1>6, <1>7, StillAClient, TaskAdded
<1>9. Quietly(cl[c], o, P)
  BY <1>1, <1>4, <1>8, QuietlyTransitive
<1>10. PICK f : f = [cl EXCEPT ![c] = o]
  OBVIOUS
<1>11. f = [cl EXCEPT ![c].timers = @ - 1, ![c].attempts = @ + 1,
                      ![c].tasks = Append(@, Task("restart", "offer", NoPeer))]
  <2>1. o = [cl[c] EXCEPT !.timers = @ - 1, !.attempts = @ + 1,
                          !.tasks = Append(@, Task("restart", "offer", NoPeer))]
    BY <1>1, <1>2, <1>3, <1>5, <1>7 DEF Clients
  <2>. QED BY <1>1, <1>10, <2>1 DEF Clients
<1>12. Push(f, NoSignal)
  BY <1>11 DEF RestartIce, Push
<1>. QED BY <1>9, <1>10, <1>12, HandledAndPushed

LEMMA OnIceCandidateStep ==
    ASSUME CallIInv, NEW c \in DOMAIN cl, OnIceCandidate(c)
    PROVE  CallIInv' /\ Reporting(cl, cl')
<1>1. PICK n : n = [cl[c] EXCEPT !.sent = TRUE]
  OBVIOUS
<1>2. Quietly(cl[c], n, Peers(cl))
  BY <1>1, ClientFacts, Negotiating
<1>3. PICK f : f = [cl EXCEPT ![c] = n]
  OBVIOUS
<1>4. f = [cl EXCEPT ![c].sent = TRUE]
  BY <1>1, <1>3
<1>5. PICK m : m = PushSignal(cl, c, "ice_candidate")
  OBVIOUS
<1>6. Push(f, m)
  BY <1>4, <1>5 DEF OnIceCandidate, Push
<1>7. n.chan = cl[c].chan /\ n.gen = cl[c].gen
  BY <1>1, ClientFacts DEF Clients
<1>8. m = NoSignal \/ (n.chan /\ \E t \in Names : m = Signal(c, n.gen, t))
  BY <1>5, <1>7 DEF PushSignal, Names
<1>. QED BY <1>2, <1>3, <1>6, <1>8, HandledAndPushed

LEMMA StopRingtoneStep ==
    ASSUME CallIInv, NEW u \in Users, StopRingtone(u)
    PROVE  CallIInv' /\ Reporting(cl, cl')
<1>1. PageTypes
  BY DEF CallIInv
<1>2. Calmer
  BY <1>1 DEF StopRingtone, PageTypes, Calmer
<1>3. cl' = cl
  BY DEF StopRingtone
<1>4. Midway(cl')
  BY <1>3, Starting
<1>. QED BY <1>2, <1>4, CalmStep, NothingReported DEF Midway

LEMMA RingTimeoutStep ==
    ASSUME CallIInv, RingTimeout
    PROVE  CallIInv' /\ Reporting(cl, cl')
<1>1. PICK m : m = Signal(0, 0, "call_missed")
  OBVIOUS
<1>2. m \in Signals(Peers(cl))
  BY <1>1 DEF Signal, Signals, Peers, NoPeer, Names
<1>3. Midway(cl')
  BY <1>1, <1>2, Starting, RelayMidway DEF RingTimeout
<1>4. Calmer
  <2>1. PageTypes
    BY DEF CallIInv
  <2>. QED BY <2>1 DEF RingTimeout, CallOver, PageTypes, Calmer
<1>. QED BY <1>3, <1>4, CalmStep, NothingReported DEF Midway

\* A client that is connected is live: the other client holds the description
\* of its present peer connection.
LEMMA ConnectedIsLive ==
    ASSUME CallIInv, NEW c \in DOMAIN cl, OnConnected(c)
    PROVE  cl[c].live /\ cl[c].peer
<1>. DEFINE k == cl[c]
<1>1. ClientsInv(cl) /\ k \in Clients(Peers(cl)) /\ c \in Nat \ {0} /\ k.gen \in Nat
  BY InvFacts DEF CallIInv
<1>2. k.remote \in Peers(cl) /\ k.remote # NoPeer /\ k.peer
  BY <1>1 DEF Clients, OnConnected
<1>3. PICK e : e = k.remote[1]
  OBVIOUS
<1>4. e \in DOMAIN cl
  BY <1>2, <1>3 DEF Peers
<1>5. cl[e] \in Clients(Peers(cl))
  BY <1>1, <1>4, InvFacts
<1>6. cl[e].remote = <<c, k.gen>> /\ cl[e].remote \in Peers(cl)
  <2>1. cl[e].remote = <<c, k.gen>>
    BY <1>3 DEF OnConnected
  <2>. QED BY <1>5, <2>1 DEF Clients
<1>7. <<c, k.gen>> \in Peers(cl) /\ <<c, k.gen>> # NoPeer
  BY <1>1, <1>6 DEF NoPeer
<1>8. k.live \/ ~k.peer \/ k.gen < k.gen
  BY <1>7 DEF Peers
<1>. QED BY <1>1, <1>2, <1>8

LEMMA ConnectedTurn ==
    ASSUME NEW P, NEW k \in Clients(P), Whole(k), k.live, k.peer
    PROVE  \E n \in Clients(P) :
             /\ n = [k EXCEPT !.conn = "connected", !.attempts = 0, !.told = TRUE,
                              !.log = IF k.told THEN @ ELSE Append(@, "connected")]
             /\ Whole(n) /\ Grows(k, n) /\ n.user = k.user /\ n.role = k.role
             /\ n.log = k.log \/ (k.log = <<>> /\ n.log = <<"connected">>)
<1>1. ~k.ended /\ k.log \in {<<>>, <<"connected">>} /\ (~k.told => k.log = <<>>)
  BY DEF Whole, Sound
<1>2. PICK l : l = (IF k.told THEN k.log ELSE Append(k.log, "connected"))
  OBVIOUS
<1>3. l \in Logs /\ (l = k.log \/ (k.log = <<>> /\ l = <<"connected">>))
  <2>1. k.log \in Logs
    BY DEF Clients
  <2>2. CASE k.told
    BY <1>2, <2>1, <2>2
  <2>3. CASE ~k.told
    <3>1. k.log = <<>> /\ l = Append(<<>>, "connected")
      BY <1>1, <1>2, <2>3
    <3>2. l = <<"connected">>
      BY <3>1
    <3>3. l \in Logs
      BY <1>2, <2>1, <2>3 DEF Logs
    <3>. QED BY <3>1, <3>2, <3>3
  <2>. QED BY <2>2, <2>3
<1>4. PICK n : n = [k EXCEPT !.conn = "connected", !.attempts = 0, !.told = TRUE, !.log = l]
  OBVIOUS
<1>5. n \in Clients(P)
  BY <1>3, <1>4 DEF Clients
<1>6. /\ n.chan = k.chan /\ n.live = k.live /\ n.role = k.role /\ n.user = k.user
      /\ n.remoteDescriptionSet = k.remoteDescriptionSet /\ n.remote = k.remote
      /\ n.got = k.got /\ n.queue = k.queue /\ n.added = k.added /\ n.main = k.main
      /\ n.log = l /\ n.ended = k.ended /\ n.told
      /\ n.gen = k.gen /\ n.peer = k.peer /\ k.gen \in Nat
  BY <1>4 DEF Clients
<1>7. l \in {<<>>, <<"connected">>}
  BY <1>1, <1>3
<1>8. Whole(n) /\ Grows(k, n)
  BY <1>1, <1>6, <1>7 DEF Whole, Sound, Grows
<1>9. n = [k EXCEPT !.conn = "connected", !.attempts = 0, !.told = TRUE,
                    !.log = IF k.told THEN @ ELSE Append(@, "connected")]
  BY <1>2, <1>4
<1>. QED BY <1>3, <1>5, <1>6, <1>8, <1>9

LEMMA OnConnectedStep ==
    ASSUME CallIInv, NEW c \in DOMAIN cl, OnConnected(c)
    PROVE  CallIInv' /\ Reporting(cl, cl')
<1>. DEFINE k == cl[c]
<1>1. PICK n \in Clients(Peers(cl)) :
        /\ n = [k EXCEPT !.conn = "connected", !.attempts = 0, !.told = TRUE,
                         !.log = IF k.told THEN @ ELSE Append(@, "connected")]
        /\ Whole(n) /\ Grows(k, n) /\ n.user = k.user /\ n.role = k.role
        /\ n.log = k.log \/ (k.log = <<>> /\ n.log = <<"connected">>)
  BY ClientFacts, ConnectedIsLive, ConnectedTurn
<1>2. /\ cl' = [cl EXCEPT ![c] = n] /\ UNCHANGED <<hook, server, stop>>
      /\ ring' = IF k.told THEN ring ELSE OnConnectionEstablished(k)
  BY <1>1 DEF OnConnected
<1>3. ClientsInv(cl) /\ PageTypes /\ Rings /\ Hooks
  BY DEF CallIInv
<1>4. /\ cl' = [d \in DOMAIN cl |-> cl'[d]] /\ DOMAIN cl' = DOMAIN cl
      /\ cl'[c] = n /\ \A d \in DOMAIN cl \ {c} : cl'[d] = cl[d]
  BY <1>2
<1>5. \A d \in DOMAIN cl :
        cl'[d] \in Clients(Peers(cl)) /\ Whole(cl'[d]) /\ Grows(cl[d], cl'[d])
  <2>. SUFFICES ASSUME NEW d \in DOMAIN cl
                PROVE  cl'[d] \in Clients(Peers(cl)) /\ Whole(cl'[d]) /\ Grows(cl[d], cl'[d])
    OBVIOUS
  <2>1. CASE d = c
    BY <1>1, <1>4, <2>1
  <2>2. CASE d # c
    BY <1>3, <1>4, <2>2, Idle DEF Turns, Older
  <2>. QED BY <2>1, <2>2
<1>6. ClientsInv(cl')
  BY <1>3, <1>4, <1>5, AllGrow
<1>7. k.user \in Users /\ (k.role = "answer" \/ k.told => ring[k.user] = "off")
  BY <1>3, ClientFacts DEF Rings, Loud
<1>8. /\ ring' \in [Users -> {"off", "outgoing", "incoming"}] /\ ring'[k.user] = "off"
      /\ \A u \in Users : ring[u] = "off" => ring'[u] = "off"
  BY <1>2, <1>3, <1>7 DEF OnConnectionEstablished, PageTypes
<1>9. Hooks'
  <2>1. \A d \in DOMAIN cl : cl'[d].user = cl[d].user
    BY <1>1, <1>4
  <2>. QED BY <1>2, <1>3, <1>4, <2>1 DEF Hooks
<1>10. ASSUME NEW d \in DOMAIN cl', cl'[d].role = "answer" \/ Loud(cl'[d])
       PROVE  ring'[cl'[d].user] = "off"
  <2>1. CASE d = c
    BY <1>1, <1>4, <1>8, <2>1
  <2>2. CASE d # c
    <3>1. d \in DOMAIN cl /\ cl'[d] = cl[d] /\ cl[d].user \in Users
      BY <1>4, <2>2, ClientFacts
    <3>2. ring[cl[d].user] = "off"
      BY <1>3, <1>10, <3>1 DEF Rings
    <3>. QED BY <1>8, <3>1, <3>2
  <2>. QED BY <2>1, <2>2
<1>11. Rings'
  <2>1. RingingStops'
    BY <1>2, <1>3, <1>8 DEF Rings, RingingStops
  <2>. QED BY <1>2, <1>3, <1>4, <1>10, <2>1 DEF Rings, Loud
<1>12. PageTypes'
  BY <1>2, <1>3, <1>8 DEF PageTypes
<1>13. Reporting(cl, cl')
  <2>1. \A d \in Nat \ {c} : LogOf(cl', d) = LogOf(cl, d)
    BY <1>4 DEF LogOf
  <2>2. LogOf(cl', c) = n.log /\ LogOf(cl, c) = k.log /\ c \in Nat
    BY <1>4, ClientFacts DEF LogOf
  <2>. QED BY <1>1, <2>1, <2>2 DEF Reporting
<1>. QED BY <1>6, <1>9, <1>11, <1>12, <1>13 DEF CallIInv, ClientsInv, Peers, Whole, Sound

(* The theorems -----------------------------------------------------------*)

LEMMA CallStep ==
    ASSUME CallIInv, Next
    PROVE  CallIInv' /\ Reporting(cl, cl')
<1>1. CASE Input
  BY <1>1, RejectCallStep, RingTimeoutStep, ResumeCallStep, HandleEndCallStep, DestroyedStep,
     OfflineStep, IceTroubleStep, JoinFailsStep, MediaDeniedStep DEF Input
<1>2. CASE StartCall \/ AnswerCall \/ \E u \in Users : StopRingtone(u)
  BY <1>2, StartCallStep, AnswerCallStep, StopRingtoneStep
<1>3. ASSUME NEW c \in DOMAIN cl, ClientStep(c)
      PROVE  CallIInv' /\ Reporting(cl, cl')
  <2>1. CASE \E i \in DOMAIN cl[c].tasks : TaskStep(c, i)
    BY <2>1, OfferHasMediaStep, OfferAppliedStep, OfferAnsweredStep, AnswerAppliedStep,
       ReadyOfferedStep, RestartOfferedStep DEF TaskStep
  <2>. QED BY <1>3, <2>1, JoinOkStep, InitializedStep, LocalPeerPreparedStep, StartOfferedStep,
              DeliverStep, RestartIceStep, OnIceCandidateStep, OnConnectedStep DEF ClientStep
<1>. QED BY <1>1, <1>2, <1>3 DEF Next

\* However many clients the pages make, and however their functions, signals
\* and failures interleave, the clients, the hooks and the ringtones agree
\* (call_hooks.js, webrtc_client.js).
THEOREM CallInvariance == Spec => []CallIInv
<1>1. Init => CallIInv
  BY DEF Init, CallIInv, ClientsInv, PageTypes, Hooks, Rings, RingingStops
<1>2. CallIInv /\ [Next]_vars => CallIInv'
  <2>. SUFFICES ASSUME CallIInv, [Next]_vars PROVE CallIInv'
    OBVIOUS
  <2>1. CASE Next
    BY <2>1, CallStep
  <2>2. CASE UNCHANGED vars
    BY <2>2 DEF vars, CallIInv, ClientsInv, PageTypes, Hooks, Rings, RingingStops, Loud, Peers,
                Whole, Sound
  <2>. QED BY <2>1, <2>2
<1>. QED BY <1>1, <1>2, PTL DEF Spec

\* No candidate that reaches a client is lost (handleIceCandidate,
\* processIceCandidateQueue).
THEOREM CandidatesAreKept == Spec => []CandidatesKept
<1>1. CallIInv => CandidatesKept
  BY DEF CallIInv, ClientsInv, Whole, Sound, CandidatesKept
<1>. QED BY <1>1, CallInvariance, PTL

\* A phone rings for a call that is neither connected nor over (attachClient,
\* finishCall, handleEndCall).
THEOREM PhonesRingTruly == Spec => []RingingIsTrue
<1>1. CallIInv => RingingStops
  BY DEF CallIInv, Rings
<1>2. CallIInv => QuietWhenConnected
  <2>. SUFFICES ASSUME CallIInv, NEW u \in Users, NEW c \in HookClient(u),
                       cl[c].conn = "connected"
                PROVE  ring[u] = "off"
    BY DEF QuietWhenConnected
  <2>1. c = hook[u] /\ c # 0
    BY DEF HookClient
  <2>2. c \in DOMAIN cl /\ cl[c].user = u
    BY <2>1 DEF CallIInv, Hooks
  <2>. QED BY <2>2 DEF CallIInv, Rings, Loud
<1>. QED BY <1>1, <1>2, CallInvariance, PTL DEF RingingIsTrue

\* The pages report a client's connection at most once and before its end, and
\* its end at most once (onConnectionEstablished, finishCall).
THEOREM ReportsAreInOrder == Spec => ReportsInOrder
<1>1. Init => Reports!Init
  BY DEF Init, Reports!Init, Reported
<1>2. ASSUME CallIInv, [Next]_vars
      PROVE  [Reports!Next]_Reported
  <2>1. CASE UNCHANGED vars
    BY <2>1 DEF vars, Reported
  <2>2. CASE Next
    <3>1. Reporting(cl, cl')
      BY <2>2, <1>2, CallStep
    <3>2. PICK d \in Nat :
            /\ \A c \in Nat \ {d} : LogOf(cl', c) = LogOf(cl, c)
            /\ \/ LogOf(cl', d) = LogOf(cl, d)
               \/ LogOf(cl, d) = <<>> /\ LogOf(cl', d) = <<"connected">>
               \/ /\ LogOf(cl, d) \in {<<>>, <<"connected">>}
                  /\ LogOf(cl', d) = Append(LogOf(cl, d), "ended")
      BY <3>1 DEF Reporting
    <3>3. /\ Reported = [c \in 1 .. MaxClients |-> LogOf(cl, c)]
          /\ Reported' = [c \in 1 .. MaxClients |-> LogOf(cl', c)]
      BY DEF Reported, LogOf
    <3>4. 1 .. MaxClients \subseteq Nat
      OBVIOUS
    <3>5. CASE d \notin 1 .. MaxClients \/ LogOf(cl', d) = LogOf(cl, d)
      BY <3>2, <3>3, <3>4, <3>5
    <3>6. CASE d \in 1 .. MaxClients /\ LogOf(cl, d) = <<>> /\ LogOf(cl', d) = <<"connected">>
      <4>1. Reports!Connected(d)
        BY <3>2, <3>3, <3>4, <3>6 DEF Reports!Connected
      <4>. QED BY <3>6, <4>1 DEF Reports!Next
    <3>7. CASE /\ d \in 1 .. MaxClients /\ LogOf(cl, d) \in {<<>>, <<"connected">>}
               /\ LogOf(cl', d) = Append(LogOf(cl, d), "ended")
      <4>1. Reports!Ended(d)
        BY <3>2, <3>3, <3>4, <3>7 DEF Reports!Ended
      <4>. QED BY <3>7, <4>1 DEF Reports!Next
    <3>. QED BY <3>2, <3>5, <3>6, <3>7
  <2>. QED BY <1>2, <2>1, <2>2
<1>. QED BY <1>1, <1>2, CallInvariance, PTL DEF Spec, ReportsInOrder, Reports!Spec
=============================================================================
