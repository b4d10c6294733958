----------------------------- MODULE VoiceMesh ------------------------------
(***************************************************************************)
(* Two members in one voice channel of a community: the VoiceChannel hook  *)
(* of each page (voice_channel_hook.js), the LiveView behind the page      *)
(* (voice_channel_operations.ex) and the channel process of each session   *)
(* (voice_channel.ex), which tracks presence and relays signals.           *)
(*                                                                         *)
(* A channel process outlives the page's interest in it, so every one ever *)
(* started stays in the model.  Presence diffs reach the channel later     *)
(* than the list a process reads, as Phoenix broadcasts them from the      *)
(* tracker.  A peer connection is a number; the promises of a closed one   *)
(* never settle.  The cap of eight occupants is out of reach of two.       *)
(***************************************************************************)
EXTENDS Integers, SequencesExt

CONSTANTS
    MaxSessions, \* bound: sessions one member starts
    MaxTurns,   \* bound: joins and leaves of two members
    MaxAlone    \* bound: what one member alone does and meets

Members == {1, 2}
Other(u) == 3 - u
Infinity == 99

VARIABLES
    crowd,      \* the members who take part
    bar,        \* member -> [joined, muted] of the LiveView
    toView,     \* member -> events the hook pushed to the LiveView
    awaiting,   \* member -> joins that wait for the microphone
    session,    \* member -> this.session
    task,       \* member -> functions suspended in the negotiation
    proc,       \* the channel processes: <<member, session>> -> process
    inbox,      \* process -> what it has pushed to its page
    news,       \* presence diffs not broadcast yet
    clock,      \* milliseconds
    conns,      \* member -> peer connections made
    hasty,      \* history: members who clicked before the last click was done
    crossed,    \* history: members whom news of the other reached out of turn
    turns

voiceVars == <<crowd, bar, toView, awaiting, session, task, proc, inbox, news, clock,
               conns, hasty, crossed, turns>>

Pids == Members \X (1 .. MaxSessions)
Unstarted == [user |-> 0, st |-> "gone", at |-> 0, open |-> FALSE]
NoSession == [pid |-> <<0, 0>>]
Unpeered == [conn |-> 0]
NoDesc == [t |-> "none", conn |-> 0]
Desc(t, c) == [t |-> t, conn |-> c]

VoiceInit ==
    /\ crowd \in {{1}, Members}
    /\ bar = [u \in Members |-> [joined |-> FALSE, muted |-> FALSE]]
    /\ toView = [u \in Members |-> <<>>]
    /\ awaiting = [u \in Members |-> 0]
    /\ session = [u \in Members |-> NoSession]
    /\ task = [u \in Members |-> <<>>]
    /\ proc = [i \in Pids |-> Unstarted] /\ inbox = [i \in Pids |-> <<>>] /\ news = <<>>
    /\ clock = 0 /\ conns = [u \in Members |-> 0] /\ hasty = {} /\ crossed = {} /\ turns = 0

Alone == crowd = {1}
Turn == turns < (IF Alone THEN MaxAlone ELSE MaxTurns) /\ turns' = turns + 1
Incident == Alone /\ Turn
Tell(u, e) == toView' = [toView EXCEPT ![u] = Append(@, e)]
Bar(j, m) == [joined |-> j, muted |-> m]

(* The LiveView ----------------------------------------------------------*)

Tracked(st) == st \in {"tracked", "present"}
Occupants == {proc[i].user : i \in {j \in Pids : Tracked(proc[j].st)}}

(* What the member did before has come to its end.                         *)
Settled(u) ==
    /\ toView[u] = <<>> /\ awaiting[u] = 0
    /\ \A i \in Pids : proc[i].user = u =>
          /\ inbox[i] = <<>>
          /\ proc[i].st = "gone" \/ (proc[i].st = "present" /\ proc[i].open)

(* Two members click when they are settled, one alone at any time.         *)
Clicked(u) ==
    /\ Alone \/ Settled(u)
    /\ hasty' = IF Settled(u) THEN hasty ELSE hasty \cup {u}

(* teardown: the channel is left and its socket closed.                    *)
Teardown(u) ==
    LET i == session[u].pid
    IN  /\ session' = [session EXCEPT ![u] = NoSession]
        /\ task' = [task EXCEPT ![u] = <<>>]
        /\ IF i \notin Pids THEN UNCHANGED <<proc, inbox>>
           ELSE /\ proc' = [proc EXCEPT ![i].open = FALSE]
                /\ inbox' = [inbox EXCEPT ![i] = <<>>]

(* join_voice_channel, leave_voice_channel and toggle_voice_mute, with the *)
(* part of the hook's handler that does not wait.                          *)
ClicksJoin(u) ==
    /\ Turn /\ u \in crowd /\ Clicked(u) /\ ~bar[u].joined /\ u \notin Occupants
    /\ bar' = [bar EXCEPT ![u] = Bar(TRUE, FALSE)]
    /\ Teardown(u)
    /\ awaiting' = [awaiting EXCEPT ![u] = @ + 1]
    /\ UNCHANGED <<toView, news, clock, conns, crossed>>

ClicksLeave(u) ==
    /\ Turn /\ Clicked(u) /\ bar[u].joined
    /\ bar' = [bar EXCEPT ![u] = Bar(FALSE, FALSE)]
    /\ Teardown(u)
    /\ Tell(u, [t |-> "left"])
    /\ UNCHANGED <<awaiting, news, clock, conns, crossed>>

(* toggleMute.                                                             *)
ClicksMute(u) ==
    LET m == ~session[u].muted
    IN  /\ Incident /\ bar[u].joined /\ session[u] # NoSession
        /\ session' = [session EXCEPT ![u].muted = m]
        /\ Tell(u, [t |-> "muted", muted |-> m])
        /\ UNCHANGED <<bar, awaiting, task, proc, inbox, news, clock, conns, hasty, crossed>>

(* The confirmations of the hook.                                          *)
ViewHears(u) ==
    LET e == Head(toView[u])
    IN  /\ toView[u] # <<>>
        /\ toView' = [toView EXCEPT ![u] = Tail(@)]
        /\ bar' = [bar EXCEPT ![u] =
               CASE e.t \in {"left", "error"} -> Bar(FALSE, FALSE)
                 [] e.t = "rejoined" -> Bar(TRUE, e.muted)
                 [] e.t = "muted" -> [@ EXCEPT !.muted = e.muted]]
        /\ UNCHANGED <<awaiting, session, task, proc, inbox, news, clock, conns,
                       hasty, crossed, turns>>

(* reconnected.                                                            *)
Rejoined(u) ==
    IF session[u] = NoSession THEN <<>>
    ELSE <<[t |-> "rejoined", muted |-> session[u].muted]>>

(* The LiveView dies and is mounted anew, without its assigns and without  *)
(* what was on the way.                                                    *)
ViewRemounts(u) ==
    /\ Incident /\ u \in crowd
    /\ bar' = [bar EXCEPT ![u] = Bar(FALSE, FALSE)]
    /\ toView' = [toView EXCEPT ![u] = Rejoined(u)]
    /\ Clicked(u)
    /\ UNCHANGED <<awaiting, session, task, proc, inbox, news, clock, conns, crossed>>

(* The hook --------------------------------------------------------------*)

(* join after its await: whatever session there is by now is replaced.     *)
GetsMicrophone(u) ==
    /\ awaiting[u] > 0
    /\ awaiting' = [awaiting EXCEPT ![u] = @ - 1]
    /\ \E i \in {u} \X (1 .. MaxSessions) :
        /\ proc[i] = Unstarted /\ \A k \in 1 .. i[2] - 1 : proc[<<u, k>>] # Unstarted
        /\ proc' = [proc EXCEPT ![i] = [user |-> u, st |-> "joining", at |-> 0, open |-> TRUE]]
        /\ session' = [session EXCEPT ![u] =
           [pid |-> i, joined |-> FALSE, at |-> Infinity, muted |-> FALSE,
            peer |-> Unpeered]]
    /\ UNCHANGED <<bar, toView, task, inbox, news, clock, conns, hasty, crossed, turns>>

GetsNoMicrophone(u) ==
    /\ awaiting[u] > 0 /\ Incident
    /\ awaiting' = [awaiting EXCEPT ![u] = @ - 1]
    /\ Tell(u, [t |-> "error"])
    /\ UNCHANGED <<bar, session, task, proc, inbox, news, clock, conns, hasty, crossed>>

(* The channel process ---------------------------------------------------*)

Pushes(i, m) == inbox' = [inbox EXCEPT ![i] = Append(@, m)]
At(i, st) == proc' = [proc EXCEPT ![i].st = st]

(* join, whose answer opens the channel to the page's signals, and the     *)
(* time that handle_info(:after_join) reads before it tracks the process.  *)
Authorizes(i) ==
    LET u == proc[i].user
    IN  /\ proc[i].st = "joining" /\ proc[i].open
        /\ IF u \in Occupants
           THEN /\ At(i, "gone") /\ Pushes(i, [t |-> "refused"])
                /\ UNCHANGED <<session, clock>>
           ELSE /\ clock' \in {clock} \cup {proc[j].at + 1 : j \in {k \in Pids :
                                    proc[k].st \notin {"gone", "joining"} /\ proc[k].at = clock}}
                /\ proc' = [proc EXCEPT ![i].st = "stamped", ![i].at = clock']
                /\ session' = IF session[u].pid = i THEN [session EXCEPT ![u].joined = TRUE]
                              ELSE session
                /\ UNCHANGED inbox
        /\ UNCHANGED <<bar, toView, awaiting, task, news, conns, hasty, crossed, turns>>

Diff(t, i) == [t |-> t, user |-> proc[i].user, at |-> proc[i].at]

Tracks(i) ==
    /\ proc[i].st = "stamped"
    /\ At(i, "tracked")
    /\ news' = Append(news, Diff("join", i))
    /\ UNCHANGED <<bar, toView, awaiting, session, task, inbox, clock, conns, hasty, crossed, turns>>

Lists(i) ==
    /\ proc[i].st = "tracked"
    /\ At(i, "present")
    /\ IF proc[i].open
       THEN Pushes(i, [t |-> "state",
                     list |-> {[user |-> proc[j].user, at |-> proc[j].at] :
                               j \in {k \in Pids : Tracked(proc[k].st)}}])
       ELSE UNCHANGED inbox
    /\ UNCHANGED <<bar, toView, awaiting, session, task, news, clock, conns, hasty, crossed, turns>>

(* The process sees that its page has left, and the tracker that it died.  *)
Ends(i) ==
    /\ ~proc[i].open /\ proc[i].st # "gone"
    /\ At(i, "gone")
    /\ news' = IF Tracked(proc[i].st) THEN Append(news, Diff("leave", i)) ELSE news
    /\ UNCHANGED <<bar, toView, awaiting, session, task, inbox, clock, conns, hasty, crossed, turns>>

Listens(i) == proc[i].open /\ proc[i].st \in {"stamped", "tracked", "present"}

NewsSpreads ==
    /\ news # <<>>
    /\ news' = Tail(news)
    /\ inbox' = [i \in Pids |->
                    IF Listens(i) THEN Append(inbox[i], Head(news)) ELSE inbox[i]]
    /\ UNCHANGED <<bar, toView, awaiting, session, task, proc, clock, conns, hasty, crossed, turns>>

(* Negotiation -----------------------------------------------------------*)

\* Mutant: members who came in the same millisecond are not told apart.
ShouldInitiateTo_TimeOnly(u, mine, e) == e.at < mine

(* shouldInitiateTo, for a member u who joined at mine.                    *)
ShouldInitiateTo(u, mine, e) ==
    IF e.at # mine THEN e.at < mine ELSE e.user < u

(* getOrCreatePeer.                                                        *)
Made(p, c) ==
    IF p # Unpeered THEN p
    ELSE [conn |-> c, sig |-> "stable", loc |-> NoDesc, rem |-> NoDesc,
          pending |-> {}, got |-> {}, added |-> {}]

WithPeer(u) == Made(session[u].peer, conns[u] + 1)
Counted(u) == conns' = IF session[u].peer = Unpeered THEN [conns EXCEPT ![u] = @ + 1] ELSE conns

(* pushSignal and its relay, to every process of the other member: a       *)
(* description, and the candidate of onicecandidate after it.              *)
Signalled(f, u, m) ==
    IF session[u] = NoSession \/ ~session[u].joined THEN f
    ELSE [i \in Pids |->
             IF Listens(i) /\ proc[i].user = Other(u)
             THEN f[i] \o <<m, Desc("ice", m.conn)>> ELSE f[i]]

Wait(u, k, c, d) == task' = [task EXCEPT ![u] = Append(@, [k |-> k, conn |-> c, desc |-> d])]

(* createPeer as the initiator, up to its first await.                     *)
Offers(u) ==
    /\ session' = [session EXCEPT ![u].peer = WithPeer(u)]
    /\ Counted(u)
    /\ Wait(u, "offer", WithPeer(u).conn, NoDesc)

Ignored(u) == UNCHANGED <<session, conns, task>>

(* handlePresenceState.                                                    *)
HearsState(u, m) ==
    LET me == {e \in m.list : e.user = u}
        s == [session EXCEPT ![u].at =
                 IF me = {} THEN @ ELSE (CHOOSE e \in me : \A f \in me : e.at <= f.at).at]
    IN  IF \E e \in m.list : e.user # u /\ ShouldInitiateTo(u, s[u].at, e)
        THEN /\ session' = [s EXCEPT ![u].peer = WithPeer(u)]
             /\ Counted(u)
             /\ Wait(u, "offer", WithPeer(u).conn, NoDesc)
        ELSE /\ session' = s
             /\ UNCHANGED <<conns, task>>

(* handlePresenceDiff.                                                     *)
HearsJoin(u, m) ==
    IF m.user # u /\ session[u].peer = Unpeered /\ ShouldInitiateTo(u, session[u].at, m)
    THEN Offers(u) ELSE Ignored(u)

Closed(u) ==
    /\ session' = [session EXCEPT ![u].peer = Unpeered]
    /\ task' = [task EXCEPT ![u] = <<>>]

HearsLeave(u, m) ==
    IF m.user = u THEN Ignored(u) ELSE Closed(u) /\ UNCHANGED conns

(* handleRemoteCandidate.                                                  *)
Candidate(p, c) ==
    IF p.rem # NoDesc THEN [p EXCEPT !.got = @ \cup {c}, !.added = @ \cup {c}]
    ELSE [p EXCEPT !.got = @ \cup {c}, !.pending = @ \cup {c}]

(* handleSignal, up to the first await.                                    *)
HearsSignal(u, m) ==
    CASE m.t = "offer" ->
           /\ session' = [session EXCEPT ![u].peer = WithPeer(u)]
           /\ Counted(u)
           /\ Wait(u, "remote offer", WithPeer(u).conn, m)
      [] m.t = "answer" ->
           IF session[u].peer = Unpeered THEN Ignored(u)
           ELSE /\ Wait(u, "remote answer", session[u].peer.conn, m)
                /\ UNCHANGED <<session, conns>>
      [] m.t = "ice" ->
           /\ session' = [session EXCEPT ![u].peer = Candidate(WithPeer(u), m.conn)]
           /\ Counted(u)
           /\ UNCHANGED task

(* A join heard before the member's own list, when its own time is not     *)
(* known yet, and the leave of a session that another has replaced.        *)
OutOfTurn(u, m) ==
    /\ session[u] # NoSession
    /\ \/ m.t = "join" /\ m.user # u /\ session[u].at = Infinity
       \/ m.t = "leave" /\ m.user # u /\ \E j \in Pids : proc[j].user = m.user /\ Listens(j)

(* A message of the channel of process i: its handlers act on this.session *)
(* whichever session that is by now.                                       *)
Receives(i) ==
    LET u == proc[i].user
        m == Head(inbox[i])
    IN  /\ proc[i].open /\ inbox[i] # <<>>
        /\ CASE m.t = "refused" ->
                  /\ session' = [session EXCEPT ![u] = NoSession]
                  /\ task' = [task EXCEPT ![u] = <<>>]
                  /\ proc' = [j \in Pids |->
                                 IF j \in {i, session[u].pid} THEN [proc[j] EXCEPT !.open = FALSE]
                                 ELSE proc[j]]
                  /\ inbox' = [j \in Pids |->
                                 IF j \in {i, session[u].pid} THEN <<>> ELSE inbox[j]]
                  /\ Tell(u, [t |-> "error"])
                  /\ UNCHANGED conns
             [] OTHER ->
                  /\ inbox' = [inbox EXCEPT ![i] = Tail(@)]
                  /\ UNCHANGED <<proc, toView>>
                  /\ CASE session[u] = NoSession -> Ignored(u)
                       [] session[u] # NoSession /\ m.t = "state" -> HearsState(u, m)
                       [] session[u] # NoSession /\ m.t = "join" -> HearsJoin(u, m)
                       [] session[u] # NoSession /\ m.t = "leave" -> HearsLeave(u, m)
                       [] session[u] # NoSession /\ m.t \in {"offer", "answer", "ice"} ->
                            HearsSignal(u, m)
        /\ crossed' = IF OutOfTurn(u, m) THEN crossed \cup {u} ELSE crossed
        /\ UNCHANGED <<bar, awaiting, news, clock, hasty, turns>>

(* setRemoteDescription and flushCandidates.                               *)
RemoteSet(p, d, sig) ==
    [p EXCEPT !.rem = d, !.sig = sig, !.added = @ \cup p.pending, !.pending = {}]

(* A suspended function goes on.                                           *)
Negotiates(u, n) ==
    LET t == task[u][n]
        p == session[u].peer
        rest == RemoveAt(task[u], n)
        Peer(q) == session' = [session EXCEPT ![u].peer = q]
        Send(q, m) == Peer(q) /\ inbox' = Signalled(inbox, u, m)
    IN  /\ p.conn = t.conn
        /\ CASE t.k = "offer" /\ p.sig # "have-remote-offer" ->
                  LET d == Desc("offer", p.conn)
                  IN  /\ Send([p EXCEPT !.sig = "have-local-offer", !.loc = d], d)
                      /\ task' = [task EXCEPT ![u] = rest]
             [] t.k = "offer" /\ p.sig = "have-remote-offer" ->
                  Closed(u) /\ UNCHANGED inbox
             [] t.k = "remote offer" ->
                  /\ Peer(RemoteSet(p, t.desc, "have-remote-offer"))
                  /\ task' = [task EXCEPT ![u] = Append(rest, [t EXCEPT !.k = "answer"])]
                  /\ UNCHANGED inbox
             [] t.k = "answer" ->
                  LET d == Desc("answer", p.conn)
                  IN  /\ IF p.sig = "have-remote-offer"
                         THEN Send([p EXCEPT !.sig = "stable", !.loc = d], d)
                         ELSE UNCHANGED <<session, inbox>>
                      /\ task' = [task EXCEPT ![u] = rest]
             [] t.k = "remote answer" ->
                  /\ IF p.sig = "have-local-offer"
                     THEN Peer(RemoteSet(p, t.desc, "stable")) ELSE UNCHANGED session
                  /\ task' = [task EXCEPT ![u] = rest]
                  /\ UNCHANGED inbox
        /\ UNCHANGED <<bar, toView, awaiting, proc, news, clock, conns, hasty, crossed, turns>>

VoiceNext ==
  /\ UNCHANGED crowd
  /\ \/ \E u \in Members :
            \/ ClicksJoin(u) \/ ClicksLeave(u) \/ ClicksMute(u) \/ ViewRemounts(u)
            \/ ViewHears(u) \/ GetsMicrophone(u) \/ GetsNoMicrophone(u)
            \/ \E n \in DOMAIN task[u] : session[u] # NoSession /\ Negotiates(u, n)
      \/ \E i \in Pids :
            \/ Authorizes(i) \/ Tracks(i) \/ Lists(i) \/ Ends(i) \/ Receives(i)
      \/ NewsSpreads

VoiceSpec == VoiceInit /\ [][VoiceNext]_voiceVars

(* Properties ------------------------------------------------------------*)

Quiet ==
    /\ news = <<>>
    /\ \A u \in Members : /\ toView[u] = <<>> /\ awaiting[u] = 0
                          /\ task[u] = <<>>
    /\ \A i \in Pids : inbox[i] = <<>> /\ proc[i].st \in {"present", "gone"}
                              /\ (proc[i].st = "present" => proc[i].open)

In(u) == session[u] # NoSession /\ session[u].joined

(* Two members who are both in the channel have a connection to each       *)
(* other once all is quiet, whichever of them came first and also when     *)
(* they came in the same millisecond, unless news of one reached the other *)
(* out of turn (handlePresenceState, handlePresenceDiff,                   *)
(* shouldInitiateTo).                                                      *)
EveryPairOffered ==
    Quiet /\ In(1) /\ In(2) /\ crossed = {} => \A u \in Members : session[u].peer # Unpeered

(* No ICE candidate is lost between the signal that brings it and the      *)
(* description it waits for (handleRemoteCandidate, flushCandidates).      *)
CandidatesReach ==
    \A u \in Members : session[u] # NoSession /\ session[u].peer # Unpeered =>
        LET p == session[u].peer
        IN  IF p.rem = NoDesc THEN p.got = p.pending ELSE p.got = p.added

(* The bar of the page tells whether the member is in the channel, and     *)
(* muted, through every reconnection of the LiveView, unless the member    *)
(* clicked again before the last click was done (reconnected, voice_left). *)
BarIsTrue ==
    Quiet => \A u \in Members \ hasty :
        /\ bar[u].joined <=> session[u] # NoSession
        /\ session[u] # NoSession => bar[u].muted = session[u].muted

(* A channel in which members hear each other, and a page that shows it    *)
(* (shouldInitiateTo, handleRemoteCandidate, voice_joined).                *)
VoiceHolds == EveryPairOffered /\ CandidatesReach /\ BarIsTrue
=============================================================================
