----------------------------- MODULE DirectCall -----------------------------
(***************************************************************************)
(* One local call between two users: the hooks CallInitiator, CallReceiver *)
(* and CallControls of each page (call_hooks.js), the call clients they    *)
(* make (webrtc_client.js), the ringtone (ringtone_player.js), and the     *)
(* channel that relays the signals (call_channel.ex).                      *)
(*                                                                         *)
(* A hook makes a new client for every start, answer and resume, and       *)
(* forgets the old one after cleanup().  The old one's suspended functions *)
(* go on, though, so every client ever made stays in the model.  A         *)
(* client's main function (startCall, answerCall, resumeCall, rejectCall)  *)
(* is at the await in main; handlers of the channel that are suspended are *)
(* in tasks.  A promise of a closed RTCPeerConnection never settles; one   *)
(* of getUserMedia does.                                                   *)
(*                                                                         *)
(* Pushing a signal and its relay by the server are one step: a socket     *)
(* keeps the order, and a client that has left gets nothing.               *)
(***************************************************************************)
EXTENDS Integers, SequencesExt

CONSTANTS
    MaxClients,     \* clients made in the course of a behaviour
    MaxRestarts,    \* MAX_ICE_RESTART_ATTEMPTS
    MaxEvents       \* what the users do and what fails, together

ASSUME DirectCallAssumption == MaxClients \in Nat /\ MaxRestarts \in Nat \ {0}

Users == {"caller", "callee"}

VARIABLES
    cl,         \* the clients made so far
    hook,       \* user -> the client of the page's hook (this.client), or 0
    server,     \* status of the call at the server
    ring,       \* user -> what globalRingtone plays
    stop,       \* users whose page has a "stop_ringtone" on the way
    events

vars == <<cl, hook, server, ring, stop, events>>

NoPeer == <<0, 0>>

(* constructor of WebRTCClient.  gen counts its peer connections, remote   *)
(* is the peer connection whose description it holds; got, log and sent    *)
(* are history.                                                            *)
New(u, role) ==
    [user |-> u, role |-> role, main |-> "join", live |-> TRUE, chan |-> FALSE,
     inbox |-> <<>>, stream |-> FALSE, peer |-> FALSE, gen |-> 0, sig |-> "stable", remote |-> NoPeer,
     remoteDescriptionSet |-> FALSE, pendingOffer |-> FALSE,
     peerReady |-> FALSE, shouldInitiate |-> FALSE, answerInProgress |-> FALSE,
     attempts |-> 0, timers |-> 0, conn |-> "new", tasks |-> <<>>,
     queue |-> {}, added |-> {}, got |-> {}, sent |-> FALSE,
     told |-> FALSE, ended |-> FALSE, log |-> <<>>]

Task(k, at, from) == [k |-> k, at |-> at, from |-> from]
Never == Task("none", "never", NoPeer)  \* awaits a promise that never settles
Active(s) == s \in {"initiated", "ringing", "active"}

(* Signalling ------------------------------------------------------------*)

Signal(c, gen, t) == [t |-> t, from |-> <<c, gen>>]
NoSignal == Signal(0, 0, "none")

(* broadcast of call_channel.ex: every client on the channel but the       *)
(* sender gets the signal.                                                 *)
Relayed(f, m) ==
    [c \in DOMAIN f |->
        IF m # NoSignal /\ f[c].chan /\ c # m.from[1]
        THEN [f[c] EXCEPT !.inbox = Append(@, m)] ELSE f[c]]

(* What pushSignal sends: nothing once the channel is gone.                *)
PushSignal(f, c, t) == IF f[c].chan THEN Signal(c, f[c].gen, t) ELSE NoSignal

\* Mutant: the peer connection is neither closed nor forgotten.
CleanedUp_KeepsPeer(k) ==
    [k EXCEPT !.live = FALSE, !.chan = FALSE, !.inbox = <<>>, !.stream = FALSE]

(* cleanup.  The history of a client that is gone is forgotten too.        *)
CleanedUp(k) ==
    IF ~k.live THEN k
    ELSE [k EXCEPT !.live = FALSE, !.chan = FALSE, !.inbox = <<>>, !.stream = FALSE,
                   !.peer = FALSE, !.sig = "stable", !.remote = NoPeer,
                   !.remoteDescriptionSet = FALSE, !.pendingOffer = FALSE,
                   !.peerReady = FALSE, !.shouldInitiate = FALSE,
                   !.answerInProgress = FALSE, !.queue = {}, !.timers = 0,
                   !.conn = "new", !.got = {}, !.added = {}, !.attempts = 0,
                   !.tasks = [i \in DOMAIN @ |-> IF @[i].at = "media" THEN @[i] ELSE Never],
                   !.main = IF @ \in {"join", "offer"} THEN "none" ELSE @]

Dispose(f, D) ==
    [c \in DOMAIN f |-> IF c \in D THEN CleanedUp(f[c]) ELSE f[c]]

HookClient(u) == {hook[u]} \ {0}

(* The call is over for the LiveViews of both users, who stop the ringing. *)
CallOver ==
    /\ server' = "over"
    /\ stop' = Users

(* finishCall, with the callback that the hooks register by onCallEnded:   *)
(* ring, report "call_ended", clean up the hook's present client.          *)
FinishCall(c, f) ==
    LET u == f[c].user
        quiet == f[c].ended \/ f[c].role = "reject"
        D == {c} \cup (IF quiet THEN {} ELSE HookClient(u))
    IN  /\ cl' = IF quiet THEN Dispose(f, D)
                 ELSE Dispose([f EXCEPT ![c].ended = TRUE,
                                        ![c].log = Append(@, "ended")], D)
        /\ IF quiet
           THEN UNCHANGED <<hook, ring, server, stop>>
           ELSE /\ hook' = [hook EXCEPT ![u] = 0]
                /\ ring' = [ring EXCEPT ![u] = "off"]
                /\ CallOver

(* endCall of the hook's client, if it has one.                            *)
EndCall(f, u) ==
    IF hook[u] = 0 THEN f
    ELSE Dispose(Relayed(f, PushSignal(f, hook[u], "call_ended")), {hook[u]})

(* The catch branch of startCall, answerCall and resumeCall: the error is  *)
(* reported and the hook's client, whichever it is by now, ends its call.  *)
HookFails(c, f) ==
    LET u == f[c].user
    IN  /\ cl' = EndCall(f, u)
        /\ ring' = IF f[c].role = "resume" THEN ring
                   ELSE [ring EXCEPT ![u] = "off"]
        /\ CallOver
        /\ UNCHANGED hook

Push(f, m) ==
    /\ cl' = Relayed(f, m)
    /\ server' = IF m.t = "offer" /\ server = "initiated" THEN "ringing"
                 ELSE IF m.t = "answer" /\ Active(server) THEN "active"
                 ELSE server
    /\ UNCHANGED <<hook, ring, stop>>

(* Peer connection -------------------------------------------------------*)

(* createPeerConnection.                                                   *)
CreatePeerConnection(k) ==
    IF k.peer THEN k ELSE [k EXCEPT !.peer = TRUE, !.gen = @ + 1, !.told = FALSE]

(* flushPendingOffer, as the signal it sends and the client after it.      *)
Flushes(k) == k.pendingOffer /\ k.peerReady /\ k.chan
FlushPendingOffer(f, c) ==
    IF Flushes(f[c])
    THEN Push([f EXCEPT ![c].pendingOffer = FALSE], PushSignal(f, c, "offer"))
    ELSE Push(f, NoSignal)

\* Mutant: the queue is emptied without adding its candidates.
ProcessIceCandidateQueue_Dropped(k) == [k EXCEPT !.queue = {}]

(* processIceCandidateQueue, once remoteDescriptionSet is true.            *)
ProcessIceCandidateQueue(k) ==
    [k EXCEPT !.added = @ \cup k.queue, !.queue = {}]

(* setRemoteDescription has succeeded, in handleOffer or handleAnswer.     *)
RemoteDescribed(k, from, sig) ==
    ProcessIceCandidateQueue(
        [k EXCEPT !.sig = sig, !.remote = from, !.remoteDescriptionSet = TRUE])

(* handleIceCandidate: added at once if there is a remote description      *)
(* (addIceCandidate fails without one), otherwise queued.                  *)
HandleIceCandidate(k, from) ==
    IF k.remoteDescriptionSet /\ k.peer
    THEN [k EXCEPT !.got = @ \cup {from[1]},
                   !.added = IF k.remote = NoPeer THEN @ ELSE @ \cup {from[1]}]
    ELSE [k EXCEPT !.got = @ \cup {from[1]}, !.queue = @ \cup {from[1]}]

(* scheduleIceRestart, unless the attempts are used up.                    *)
ScheduleIceRestart(k) ==
    IF ~k.live \/ ~k.peer \/ ~k.remoteDescriptionSet \/ k.timers > 0 THEN k
    ELSE [k EXCEPT !.timers = @ + 1]

RestartsUsedUp(k) ==
    k.live /\ k.peer /\ k.remoteDescriptionSet /\ k.attempts >= MaxRestarts

(* What the users do -----------------------------------------------------*)

(* cleanup of the hook, and its new client.                                *)
HookCleanup(u, new) == cl' = Append(Dispose(cl, HookClient(u)), new)

(* The LiveView makes the call and pushes "start_call" to the caller and,  *)
(* at the callee, "play_incoming_ringtone".                                *)
StartCall ==
    /\ server = "none"
    /\ server' = "initiated"
    /\ HookCleanup("caller", New("caller", "start"))
    /\ hook' = [hook EXCEPT !["caller"] = Len(cl')]
    /\ ring' = [caller |-> "outgoing", callee |-> "incoming"]
    /\ UNCHANGED stop

(* The callee accepts: the call is active before the page has joined.      *)
AnswerCall ==
    /\ server \in {"initiated", "ringing"} /\ Len(cl) < MaxClients
    /\ ring["callee"] = "incoming"
    /\ server' = "active"
    /\ HookCleanup("callee", New("callee", "answer"))
    /\ hook' = [hook EXCEPT !["callee"] = Len(cl')]
    /\ ring' = [ring EXCEPT !["callee"] = "off"]
    /\ UNCHANGED stop

(* The callee declines: the client is not the hook's.                      *)
RejectCall ==
    /\ server \in {"initiated", "ringing"} /\ Len(cl) < MaxClients
    /\ ring["callee"] = "incoming"
    /\ HookCleanup("callee", New("callee", "reject"))
    /\ hook' = [hook EXCEPT !["callee"] = 0]
    /\ ring' = [ring EXCEPT !["callee"] = "off"]
    /\ CallOver

(* A LiveView that mounts again finds the call and pushes "resume_call".   *)
ResumeCall(u) ==
    /\ Active(server) /\ Len(cl) < MaxClients
    /\ HookCleanup(u, New(u, "resume"))
    /\ hook' = [hook EXCEPT ![u] = Len(cl')]
    /\ ring' = [ring EXCEPT ![u] = "off"]
    /\ UNCHANGED <<server, stop>>

(* handleEndCall of CallControls: endCall of the active client; the        *)
(* LiveView ends the call.  The hook keeps the client.                     *)
HandleEndCall(u) ==
    /\ Active(server)
    /\ cl' = EndCall(cl, u)
    /\ CallOver
    /\ UNCHANGED <<hook, ring>>

(* destroyed: the page is left, and what was suspended in it is gone.      *)
Destroyed(u) ==
    LET mine == {c \in DOMAIN cl : cl[c].user = u}
    IN  /\ mine # {}
        /\ cl' = [c \in DOMAIN cl |->
                     IF c \notin mine THEN cl[c]
                     ELSE [CleanedUp(cl[c]) EXCEPT !.tasks = <<>>, !.main = "none",
                                    !.stream = FALSE, !.peer = FALSE]]
        /\ hook' = [hook EXCEPT ![u] = 0]
        /\ ring' = [ring EXCEPT ![u] = "off"]
        /\ UNCHANGED <<server, stop>>

(* offlineHandler.                                                         *)
Offline(c) == cl[c].live /\ FinishCall(c, cl)

(* onconnectionstatechange or oniceconnectionstatechange to disconnected   *)
(* or failed, or onlineHandler.                                            *)
IceTrouble(c) ==
    /\ cl[c].peer /\ cl[c].remoteDescriptionSet
    /\ IF RestartsUsedUp(cl[c]) THEN FinishCall(c, cl)
       ELSE Push([cl EXCEPT ![c] = [ScheduleIceRestart(@) EXCEPT !.conn = "broken"]],
                 NoSignal)

(* initialize is refused or times out.                                     *)
JoinFails(c) ==
    /\ cl[c].main = "join"
    /\ LET f == [cl EXCEPT ![c].main = "none"]
       IN  IF cl[c].role = "reject"
           THEN cl' = f /\ UNCHANGED <<hook, server, ring, stop>>
           ELSE HookFails(c, f)

(* getUserMedia is refused, in the main function or in handleOffer.        *)
MediaDenied(c) ==
    /\ ~cl[c].stream
    /\ \/ /\ cl[c].main = "media"
          /\ HookFails(c, [cl EXCEPT ![c].main = "none"])
       \/ \E i \in DOMAIN cl[c].tasks :
            /\ cl[c].tasks[i].at = "media"
            /\ FinishCall(c, [cl EXCEPT ![c].tasks = RemoveAt(@, i)])

(* The main functions ----------------------------------------------------*)

JoinOk(c) ==
    /\ cl[c].main = "join"
    /\ cl' = [cl EXCEPT ![c].chan = TRUE, ![c].main = "wait"]
    /\ UNCHANGED <<hook, server, ring, stop>>

(* CHANNEL_JOIN_DELAY_MS are over: initialize returns.                     *)
Initialized(c) ==
    /\ cl[c].main = "wait"
    /\ LET f == [cl EXCEPT ![c].main = "none"]
       IN  CASE cl[c].role = "reject" ->
                    /\ cl' = Dispose(Relayed(f, PushSignal(f, c, "call_rejected")), {c})
                    /\ UNCHANGED <<hook, ring, server, stop>>
             [] cl[c].role # "reject" /\ ~cl[c].live -> HookFails(c, f)
             [] cl[c].role = "answer" /\ cl[c].live ->
                    Push(f, PushSignal(f, c, "peer_ready"))
             [] cl[c].role \in {"start", "resume"} /\ cl[c].live ->
                    Push([cl EXCEPT ![c].main = "media"], NoSignal)

(* prepareLocalPeer has the stream, possibly after the client was cleaned  *)
(* up; startCall goes on to the offer, resumeCall says it is ready.        *)
LocalPeerPrepared(c) ==
    /\ cl[c].main = "media"
    /\ LET k == CreatePeerConnection([cl[c] EXCEPT !.stream = TRUE])
           f == [cl EXCEPT ![c] = [k EXCEPT
                    !.main = IF k.role = "start" THEN "offer" ELSE "none",
                    !.shouldInitiate = k.user = "caller"]]
       IN  Push(f, IF k.role = "start" THEN NoSignal
                   ELSE PushSignal(f, c, "peer_ready"))

(* setLocalDescription of an offer is refused while a remote offer waits   *)
(* for its answer.                                                         *)
CanOffer(k) == k.sig # "remote"
Offered(f, c) ==
    FlushPendingOffer([f EXCEPT ![c].sig = "local", ![c].pendingOffer = TRUE], c)

(* initiateOffer in startCall.                                             *)
StartOffered(c) ==
    /\ cl[c].main = "offer"
    /\ LET f == [cl EXCEPT ![c].main = "none"]
       IN  IF CanOffer(cl[c]) THEN Offered(f, c) ELSE HookFails(c, f)

(* The handlers of the channel -------------------------------------------*)

HandlePeerReady(c, f) ==
    LET k == [f[c] EXCEPT !.peerReady = TRUE]
    IN  IF k.shouldInitiate /\ ~k.pendingOffer
        THEN Push([f EXCEPT ![c] = [CreatePeerConnection(k) EXCEPT
                        !.tasks = Append(@, Task("ready", "offer", NoPeer))]], NoSignal)
        ELSE FlushPendingOffer([f EXCEPT ![c] = k], c)

(* handleOffer up to getUserMedia or, with a stream, setRemoteDescription. *)
HandleOffer(c, f, from) ==
    LET k == f[c]
    IN  Push([f EXCEPT ![c] =
                IF k.stream
                THEN [CreatePeerConnection(k) EXCEPT
                        !.tasks = Append(@, Task("offer", "remote", from))]
                ELSE [k EXCEPT !.tasks = Append(@, Task("offer", "media", from))]],
             NoSignal)

HandleAnswer(c, f, from) ==
    LET k == f[c]
    IN  Push([f EXCEPT ![c] =
                IF k.peer /\ ~k.answerInProgress /\ ~k.remoteDescriptionSet
                   /\ k.sig = "local"
                THEN [k EXCEPT !.answerInProgress = TRUE,
                               !.tasks = Append(@, Task("answer", "remote", from))]
                ELSE k],
             NoSignal)

(* setupChannelHandlers: the next signal.  The server sends no client its  *)
(* own signals, and numbers them, so that ignoreSignal ignores none.       *)
Deliver(c) ==
    /\ cl[c].inbox # <<>>
    /\ LET m == Head(cl[c].inbox)
           f == [cl EXCEPT ![c].inbox = Tail(@)]
       IN  CASE m.t = "peer_ready" -> HandlePeerReady(c, f)
             [] m.t = "offer" -> HandleOffer(c, f, m.from)
             [] m.t = "answer" -> HandleAnswer(c, f, m.from)
             [] m.t = "ice_candidate" ->
                  Push([f EXCEPT ![c] = HandleIceCandidate(@, m.from)], NoSignal)
             [] OTHER -> FinishCall(c, f)

(* The handlers go on ----------------------------------------------------*)

Without(k, i) == [k EXCEPT !.tasks = RemoveAt(@, i)]
Moved(k, i, at) == [k EXCEPT !.tasks[i].at = at]

(* handleOffer has the stream.                                             *)
OfferHasMedia(c, i) ==
    /\ cl[c].tasks[i].at = "media"
    /\ Push([cl EXCEPT ![c] = Moved(
                CreatePeerConnection([@ EXCEPT !.stream = TRUE]), i, "remote")],
            NoSignal)

(* setRemoteDescription of an offer takes back an offer of one's own.      *)
OfferApplied(c, i) ==
    LET t == cl[c].tasks[i]
    IN  /\ t.k = "offer" /\ t.at = "remote"
        /\ Push([cl EXCEPT ![c] = Moved(RemoteDescribed(@, t.from, "remote"), i, "answer")],
                NoSignal)

(* createAnswer and setLocalDescription need a remote offer.               *)
OfferAnswered(c, i) ==
    /\ cl[c].tasks[i].at = "answer"
    /\ LET f == [cl EXCEPT ![c] = Without(@, i)]
       IN  IF cl[c].sig = "remote"
           THEN Push([f EXCEPT ![c].sig = "stable"], PushSignal(f, c, "answer"))
           ELSE FinishCall(c, f)

AnswerApplied(c, i) ==
    LET t == cl[c].tasks[i]
        f == [cl EXCEPT ![c] = [Without(@, i) EXCEPT !.answerInProgress = FALSE]]
    IN  /\ t.k = "answer"
        /\ IF cl[c].sig = "local"
           THEN Push([f EXCEPT ![c] = RemoteDescribed(@, t.from, "stable")], NoSignal)
           ELSE FinishCall(c, f)

(* initiateOffer in the handler of "peer_ready".                           *)
ReadyOffered(c, i) ==
    /\ cl[c].tasks[i].k = "ready"
    /\ LET f == [cl EXCEPT ![c] = Without(@, i)]
       IN  IF CanOffer(cl[c]) THEN Offered(f, c) ELSE FinishCall(c, f)

(* iceRestartTimer fires: restartIce.                                      *)
RestartIce(c) ==
    /\ cl[c].timers > 0
    /\ Push([cl EXCEPT ![c].timers = @ - 1, ![c].attempts = @ + 1,
                       ![c].tasks = Append(@, Task("restart", "offer", NoPeer))], NoSignal)

RestartOffered(c, i) ==
    /\ cl[c].tasks[i].k = "restart"
    /\ LET f == [cl EXCEPT ![c] = Without(@, i)]
       IN  IF CanOffer(cl[c])
           THEN Push([f EXCEPT ![c].sig = "local"], PushSignal(f, c, "offer"))
           ELSE IF cl[c].attempts >= MaxRestarts THEN FinishCall(c, f)
           ELSE Push(f, NoSignal)

(* onicecandidate, once there is a local description; one candidate of     *)
(* each user is enough.                                                    *)
OnIceCandidate(c) ==
    /\ cl[c].peer
    /\ \A d \in DOMAIN cl : cl[d].user = cl[c].user => ~cl[d].sent
    /\ cl[c].sig = "local" \/ (cl[c].sig = "stable" /\ cl[c].remote # NoPeer)
    /\ Push([cl EXCEPT ![c].sent = TRUE], PushSignal(cl, c, "ice_candidate"))

\* Mutant: the callback of the initiator only plays the connected tone.
OnConnectionEstablished_PlaysOnly(k) == ring

(* The callback of the hooks: the one of CallInitiator also silences the   *)
(* ringtone.                                                               *)
OnConnectionEstablished(k) ==
    IF k.role = "answer" THEN ring ELSE [ring EXCEPT ![k.user] = "off"]

(* onconnectionstatechange to connected: both hold the other's             *)
(* description.                                                            *)
OnConnected(c) ==
    LET k == cl[c]
    IN  /\ k.peer /\ k.conn # "connected" /\ k.sig = "stable" /\ k.remote # NoPeer
        /\ LET d == cl[k.remote[1]]
           IN  d.peer /\ d.gen = k.remote[2] /\ d.remote = <<c, k.gen>>
        /\ cl' = [cl EXCEPT ![c] = [k EXCEPT
                     !.conn = "connected", !.attempts = 0, !.told = TRUE,
                     !.log = IF k.told THEN @ ELSE Append(@, "connected")]]
        /\ ring' = IF k.told THEN ring ELSE OnConnectionEstablished(k)
        /\ UNCHANGED <<hook, server, stop>>

(* "stop_ringtone".                                                        *)
StopRingtone(u) ==
    /\ u \in stop
    /\ stop' = stop \ {u}
    /\ ring' = [ring EXCEPT ![u] = "off"]
    /\ UNCHANGED <<cl, hook, server>>

(* ring_timeout of call_channel.ex.                                        *)
RingTimeout ==
    /\ server = "ringing"
    /\ cl' = Relayed(cl, Signal(0, 0, "call_missed"))
    /\ CallOver
    /\ UNCHANGED <<hook, ring>>

Init ==
    /\ cl = <<>> /\ hook = [u \in Users |-> 0]
    /\ server = "none" /\ ring = [u \in Users |-> "off"]
    /\ stop = {} /\ events = 0

Input ==
    /\ events < MaxEvents
    /\ events' = events + 1
    /\ \/ RejectCall \/ RingTimeout
       \/ \E u \in Users : ResumeCall(u) \/ HandleEndCall(u) \/ Destroyed(u)
       \/ \E c \in DOMAIN cl :
            Offline(c) \/ IceTrouble(c) \/ JoinFails(c) \/ MediaDenied(c)

TaskStep(c, i) ==
    \/ OfferHasMedia(c, i) \/ OfferApplied(c, i) \/ OfferAnswered(c, i)
    \/ AnswerApplied(c, i) \/ ReadyOffered(c, i) \/ RestartOffered(c, i)

ClientStep(c) ==
    \/ JoinOk(c) \/ Initialized(c) \/ LocalPeerPrepared(c) \/ StartOffered(c)
    \/ Deliver(c) \/ RestartIce(c) \/ OnIceCandidate(c) \/ OnConnected(c)
    \/ \E i \in DOMAIN cl[c].tasks : TaskStep(c, i)

Next ==
    \/ Input
    \/ /\ UNCHANGED events
       /\ \/ StartCall \/ AnswerCall
          \/ \E c \in DOMAIN cl : ClientStep(c)
          \/ \E u \in Users : StopRingtone(u)

Spec == Init /\ [][Next]_vars

(* No candidate that reaches a client whose call goes on is lost: it waits *)
(* in iceCandidateQueue or was added to the peer connection, however       *)
(* offers, answers and candidates interleave (handleIceCandidate,          *)
(* processIceCandidateQueue).                                              *)
CandidatesKept ==
    \A c \in DOMAIN cl : cl[c].live => cl[c].got \subseteq cl[c].queue \cup cl[c].added

(* A page does not ring while the call that its hook manages is connected  *)
(* (attachClient, answerCall).                                             *)
QuietWhenConnected ==
    \A u \in Users : \A c \in HookClient(u) :
        cl[c].conn = "connected" => ring[u] = "off"

(* Whatever the pages have reported of a client is a behaviour of          *)
(* CallReports (finishCall, onConnectionEstablished).                      *)
Reported == [c \in 1 .. MaxClients |-> IF c \in DOMAIN cl THEN cl[c].log ELSE <<>>]
Reports == INSTANCE CallReports WITH Ids <- 1 .. MaxClients, log <- Reported
ReportsInOrder == Reports!Spec

(* Once the call is over, a phone that still rings has a "stop_ringtone"   *)
(* on the way, whoever ended the call and whatever its own client was      *)
(* doing (StopRingtone, finishCall, handleEndCall).                        *)
RingingStops ==
    server = "over" => \A u \in Users : ring[u] = "off" \/ u \in stop
(* A phone rings for a call that is neither connected nor over.            *)
RingingIsTrue == QuietWhenConnected /\ RingingStops
=============================================================================
