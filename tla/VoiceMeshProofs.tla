-------------------------- MODULE VoiceMeshProofs ---------------------------
(***************************************************************************)
(* Two members of a voice channel who are both on it and at rest have one  *)
(* connection between them, no candidate is lost, and the bar says what    *)
(* the page does: for any number of sessions and clicks.                   *)
(*                                                                         *)
(* Why they meet: what a process of a member sends and what the tracker    *)
(* tells of it, its leaving last, the other member hears in that order, or *)
(* out of turn, which `crossed' records.  So while two sessions are        *)
(* joined, either nothing of an earlier session is still to be heard, or   *)
(* news of its leaving are (Traced).  Of the two the later one initiates   *)
(* (Later): until it has heard of the other it still will, and from then   *)
(* on its offer is at the other or on the way there (Agreed).              *)
(***************************************************************************)
EXTENDS VoiceMesh, SequenceTheorems, WellFoundedInduction, TLAPS

Words == [t : {"left", "error"}] \cup [t : {"rejoined", "muted"}, muted : BOOLEAN]
Conns == Nat \ {0}
Entries == [user : Members, at : Nat]
Diffs == [t : {"join", "leave"}, user : Members, at : Nat]
Descriptions == [t : {"offer", "answer"}, conn : Conns]
Relays == Descriptions \cup [t : {"ice"}, conn : Conns]
Pushed == [t : {"refused"}] \cup [t : {"state"}, list : SUBSET Entries] \cup Diffs \cup Relays
Waits ==
    [k : {"offer"}, conn : Conns, desc : {NoDesc}]
    \cup [k : {"remote offer", "answer", "remote answer"}, conn : Conns, desc : Descriptions]
Processes ==
    [user : {0} \cup Members, st : {"joining", "stamped", "tracked", "present", "gone"},
     at : Nat, open : BOOLEAN]

\* A connection with no candidate lost: all wait for the description, or all are added.
Links ==
    {p \in [conn : Conns, sig : {"stable", "have-local-offer", "have-remote-offer"},
            loc : {NoDesc} \cup Descriptions, rem : {NoDesc} \cup Descriptions,
            pending : SUBSET Conns, got : SUBSET Conns, added : SUBSET Conns] :
        IF p.rem = NoDesc THEN p.got = p.pending /\ p.added = {}
        ELSE p.got = p.added /\ p.pending = {}}
Sessions ==
    [pid : Pids, joined : BOOLEAN, at : Nat, muted : BOOLEAN, peer : {Unpeered} \cup Links]

VoiceTypes ==
    /\ crowd \in {{1}, Members}
    /\ bar \in [Members -> [joined : BOOLEAN, muted : BOOLEAN]]
    /\ toView \in [Members -> Seq(Words)]
    /\ awaiting \in [Members -> Nat]
    /\ session \in [Members -> {NoSession} \cup Sessions]
    /\ task \in [Members -> Seq(Waits)]
    /\ proc \in [Pids -> Processes] /\ inbox \in [Pids -> Seq(Pushed)] /\ news \in Seq(Diffs)
    /\ clock \in Nat /\ conns \in [Members -> Nat]
    /\ hasty \subseteq Members /\ crossed \subseteq Members

\* A process and a session belong to the member who started them.
Owned ==
    /\ \A i \in Pids : proc[i] = Unstarted \/ proc[i].user = i[1]
    /\ \A u \in Members : session[u] # NoSession => session[u].pid[1] = u

(* The bar *)

\* No join of the member is, or may yet be, refused.
NothingRefused(u) ==
    \A i \in Pids : proc[i].user = u =>
        /\ proc[i].st # "joining"
        /\ \A n \in DOMAIN inbox[i] : inbox[i][n].t # "refused"

\* What the hook has told the LiveView, once heard, makes the bar true.
BarFollows(u) ==
    LET w == toView[u]
    IN  IF awaiting[u] > 0
        THEN /\ awaiting[u] = 1 /\ session[u] = NoSession /\ w = <<>> /\ bar[u] = Bar(TRUE, FALSE)
             /\ NothingRefused(u)
        ELSE IF session[u] = NoSession
        THEN IF w = <<>> THEN ~bar[u].joined ELSE w[Len(w)].t \in {"left", "error"}
        ELSE /\ \A n \in DOMAIN w : w[n].t \in {"rejoined", "muted"}
             /\ bar[u].joined \/ \E n \in DOMAIN w : w[n].t = "rejoined"
             /\ session[u].muted = IF w = <<>> THEN bar[u].muted ELSE w[Len(w)].muted

(* Two members *)

Live(st) == st \in {"stamped", "tracked", "present"}

\* One process of a member is not gone: that of the session, or one whose page has
\* left it when it was present.
OneProcess ==
    /\ hasty = {}
    /\ \A i, j \in Pids : proc[i].st # "gone" /\ proc[j].st # "gone" /\ i[1] = j[1] => i = j
    /\ \A u \in Members : awaiting[u] > 0 => \A i \in Pids : i[1] = u => proc[i].st = "gone"
    /\ \A i \in Pids : proc[i].st # "gone" =>
          IF proc[i].open THEN session[i[1]] # NoSession /\ session[i[1]].pid = i
          ELSE proc[i].st = "present"

\* A session is joined when its process is.
Attached ==
    /\ \A u \in Members : session[u] = NoSession => task[u] = <<>>
    /\ \A u \in Members : session[u] # NoSession =>
          LET s == session[u]
          IN  /\ proc[s.pid].open /\ proc[s.pid].st # "gone"
              /\ s.joined <=> proc[s.pid].st # "joining"
              /\ s.at \in {Infinity, proc[s.pid].at}
              /\ ~s.joined => s.at = Infinity /\ s.peer = Unpeered /\ task[u] = <<>>

\* What is pushed is for a session that listens; a list holds the member's own entry.
Heeded ==
    /\ \A i \in Pids : ~Listens(i) => inbox[i] = <<>>
    /\ \A i \in Pids : \A n \in DOMAIN inbox[i] :
          /\ inbox[i][n].t # "refused"
          /\ inbox[i][n].t = "state" =>
                {e \in inbox[i][n].list : e.user = i[1]} = {[user |-> i[1], at |-> proc[i].at]}

Here(v) == \E j \in Pids : proc[j].user = v /\ Live(proc[j].st)
TrackedAt(v, t) == \E j \in Pids : proc[j].user = v /\ Tracked(proc[j].st) /\ proc[j].at = t
IsLeave(m, v) == m.t = "leave" /\ m.user = v
LeaveAfter(i, n, v) ==
    \/ \E m \in DOMAIN inbox[i] : m > n /\ IsLeave(inbox[i][m], v)
    \/ \E m \in DOMAIN news : IsLeave(news[m], v)
IsSignal(m) == m.t \in {"offer", "answer", "ice"}

\* What a member hears or holds of the other is of a process that is still there, or
\* news of its leaving are to come.
TracedMessage(i, n) ==
    LET m == inbox[i][n]
        v == Other(i[1])
    IN  /\ IsSignal(m) => Here(v) \/ LeaveAfter(i, n, v)
        /\ m.t = "join" /\ m.user = v => TrackedAt(v, m.at) \/ LeaveAfter(i, n, v)
        /\ m.t = "state" => \A e \in m.list : e.user = v =>
              TrackedAt(v, e.at) \/ LeaveAfter(i, n, v)

TracedNews(n) ==
    news[n].t = "join" =>
        \/ TrackedAt(news[n].user, news[n].at)
        \/ \E m \in DOMAIN news : m > n /\ IsLeave(news[m], news[n].user)

TracedPeer(u) ==
    session[u] # NoSession =>
        \/ session[u].peer = Unpeered /\ task[u] = <<>>
        \/ Here(Other(u)) \/ LeaveAfter(session[u].pid, 0, Other(u))

Traced ==
    /\ \A i \in Pids : \A n \in DOMAIN inbox[i] : TracedMessage(i, n)
    /\ \A n \in DOMAIN news : TracedNews(n)
    /\ \A u \in Members : TracedPeer(u)

\* The entry of process j is still to be heard by process i.
ToBeHeard(i, j) ==
    \/ proc[j].st = "stamped" \/ proc[i].st \in {"stamped", "tracked"}
    \/ \E n \in DOMAIN news : news[n].t = "join" /\ news[n].user = j[1]
    \/ \E n \in DOMAIN inbox[i] :
          LET m == inbox[i][n]
          IN  \/ m.t = "join" /\ m.user = j[1]
              \/ m.t = "state" /\ \E e \in m.list : e.user = j[1]

Untouched(u, i) ==
    /\ session[u].peer = Unpeered /\ task[u] = <<>>
    /\ \A n \in DOMAIN inbox[i] : ~IsSignal(inbox[i][n])

\* Member v, whose session is not that of process i, offers nothing to member u.
OneOffers(u, v, i) ==
    /\ \A n \in DOMAIN task[v] : task[v][n].k # "offer"
    /\ \A n \in DOMAIN task[u] : task[u][n].k # "remote offer"
    /\ \A n \in DOMAIN inbox[i] : inbox[i][n].t # "offer"

\* The offer of member u has reached member v, or will.
Reached(u, v, j) ==
    \/ session[v].peer # Unpeered
    \/ \E n \in DOMAIN inbox[j] : inbox[j][n].t = "offer"
    \/ \E n \in DOMAIN task[u] : task[u][n].k = "offer"

\* Member u in the session of process i, who came later, offers to v in that of j.
Agreed(u, v, i, j) ==
    /\ OneOffers(u, v, i)
    /\ IF session[u].peer = Unpeered
       THEN Untouched(u, i) /\ Untouched(v, j) /\ ToBeHeard(i, j)
       ELSE session[u].peer.sig # "have-remote-offer" /\ Reached(u, v, j)

\* Both are in the channel, and no leaving of an earlier session is to be heard.
LeavePending(u) == LeaveAfter(session[u].pid, 0, Other(u))
Meeting == \A u \in Members : session[u] # NoSession /\ session[u].joined /\ ~LeavePending(u)

Later(u, v, i, j) == ShouldInitiateTo(u, proc[i].at, [user |-> v, at |-> proc[j].at])

Pairing ==
    crossed = {} /\ Meeting =>
        \A u \in Members : \A i, j \in Pids :
            /\ session[u].pid = i /\ session[Other(u)].pid = j
            /\ Later(u, Other(u), i, j)
            => Agreed(u, Other(u), i, j)

\* Who takes no part is not in the channel.
Absent == \A u \in Members \ crowd : session[u] = NoSession /\ awaiting[u] = 0

VoiceIInv ==
    /\ VoiceTypes /\ Owned /\ Absent
    /\ \A u \in Members \ hasty : BarFollows(u)
    /\ crowd = Members => OneProcess /\ Attached /\ Heeded /\ Traced /\ Pairing

-----------------------------------------------------------------------------
(* VoiceMesh: sequences and connections *)

LEMMA Appended ==
  ASSUME NEW S, NEW s \in Seq(S), NEW e \in S
  PROVE  /\ Append(s, e) \in Seq(S) /\ Append(s, e) # <<>>
         /\ Len(Append(s, e)) = Len(s) + 1
         /\ DOMAIN Append(s, e) = DOMAIN s \cup {Len(s) + 1}
         /\ \A n \in DOMAIN s : n \in Nat /\ n < Len(s) + 1 /\ Append(s, e)[n] = s[n]
         /\ Append(s, e)[Len(s) + 1] = e
<1>1. Len(s) \in Nat /\ DOMAIN s = 1 .. Len(s)
  BY LenProperties
<1>2. Append(s, e) \in Seq(S) /\ Len(Append(s, e)) = Len(s) + 1
  OBVIOUS
<1>3. DOMAIN Append(s, e) = 1 .. (Len(s) + 1)
  BY <1>2, LenProperties
<1>4. \A n \in 1 .. Len(s) + 1 : Append(s, e)[n] = IF n <= Len(s) THEN s[n] ELSE e
  BY <1>1
<1>5. 1 .. (Len(s) + 1) = (1 .. Len(s)) \cup {Len(s) + 1}
  BY <1>1
<1>6. \A n \in DOMAIN s : n \in Nat /\ n < Len(s) + 1 /\ Append(s, e)[n] = s[n]
  BY <1>1, <1>4
<1>7. Append(s, e)[Len(s) + 1] = e
  BY <1>1, <1>4
<1>. QED  BY <1>1, <1>2, <1>3, <1>5, <1>6, <1>7

LEMMA OldOrAppended ==
  ASSUME NEW S, NEW s \in Seq(S), NEW e \in S
  PROVE  \A n \in DOMAIN Append(s, e) :
            Append(s, e)[n] = e \/ \E k \in DOMAIN s : Append(s, e)[n] = s[k]
<1>1. DOMAIN Append(s, e) = DOMAIN s \cup {Len(s) + 1} /\ Append(s, e)[Len(s) + 1] = e
      /\ \A n \in DOMAIN s : Append(s, e)[n] = s[n]
  BY Appended
<1>. QED  BY <1>1

LEMMA Shortened ==
  ASSUME NEW S, NEW s \in Seq(S), s # <<>>
  PROVE  /\ 1 \in DOMAIN s /\ Head(s) = s[1] /\ s[1] \in S
         /\ Tail(s) \in Seq(S)
         /\ \A n \in DOMAIN Tail(s) :
               n \in Nat /\ n > 0 /\ n + 1 \in DOMAIN s /\ Tail(s)[n] = s[n + 1]
         /\ \A n \in DOMAIN s :
               n \in Nat /\ n >= 1 /\ (n > 1 => n - 1 \in DOMAIN Tail(s) /\ Tail(s)[n - 1] = s[n])
         /\ Tail(s) = <<>> => Len(s) = 1
         /\ Tail(s) # <<>> => Tail(s)[Len(Tail(s))] = s[Len(s)]
<1>1. Len(s) \in Nat \ {0} /\ DOMAIN s = 1 .. Len(s)
  BY LenProperties, EmptySeq
<1>2. Tail(s) \in Seq(S) /\ Len(Tail(s)) = Len(s) - 1
      /\ \A n \in 1 .. Len(Tail(s)) : Tail(s)[n] = s[n + 1]
  BY HeadTailProperties
<1>3. DOMAIN Tail(s) = 1 .. (Len(s) - 1)
  BY <1>2, LenProperties
<1>4. 1 \in DOMAIN s /\ s[1] \in S
  BY <1>1, ElementOfSeq
<1>5. Tail(s) # <<>> => Len(s) > 1 /\ Tail(s)[Len(Tail(s))] = s[Len(s)]
  <2> SUFFICES ASSUME Tail(s) # <<>> PROVE Len(s) > 1 /\ Tail(s)[Len(Tail(s))] = s[Len(s)]
    OBVIOUS
  <2>1. Len(s) - 1 \in Nat \ {0}
    BY <1>2, EmptySeq
  <2>. QED  BY <1>1, <1>2, <2>1
<1>6. Tail(s) = <<>> => Len(s) = 1
  <2> SUFFICES ASSUME Tail(s) = <<>> PROVE Len(s) = 1
    OBVIOUS
  <2>1. Len(Tail(s)) = 0
    BY EmptySeq
  <2>. QED  BY <1>1, <1>2, <2>1
<1>7. Head(s) = s[1]
  BY <1>1
<1>. QED  BY <1>1, <1>2, <1>3, <1>4, <1>5, <1>6, <1>7

LEMMA TwoAppended ==
  ASSUME NEW S, NEW s \in Seq(S), NEW e \in S, NEW f \in S
  PROVE  /\ s \o <<e, f>> \in Seq(S)
         /\ DOMAIN (s \o <<e, f>>) = DOMAIN s \cup {Len(s) + 1, Len(s) + 2}
         /\ \A n \in DOMAIN s : n \in Nat /\ n < Len(s) + 1 /\ (s \o <<e, f>>)[n] = s[n]
         /\ (s \o <<e, f>>)[Len(s) + 1] = e /\ (s \o <<e, f>>)[Len(s) + 2] = f
<1> DEFINE t == <<e, f>>
<1>1. Len(s) \in Nat /\ DOMAIN s = 1 .. Len(s)
  BY LenProperties
<1>2. t \in Seq(S) /\ Len(t) = 2 /\ t[1] = e /\ t[2] = f
  OBVIOUS
<1> HIDE DEF t
<1>3. s \o t \in Seq(S) /\ Len(s \o t) = Len(s) + 2
      /\ \A n \in 1 .. Len(s) + 2 : (s \o t)[n] = IF n <= Len(s) THEN s[n] ELSE t[n - Len(s)]
  <2>1. /\ s \o t \in Seq(S) /\ Len(s \o t) = Len(s) + Len(t)
        /\ \A n \in 1 .. Len(s) + Len(t) :
              (s \o t)[n] = IF n <= Len(s) THEN s[n] ELSE t[n - Len(s)]
    BY <1>2, ConcatProperties
  <2>. QED  BY <1>2, <2>1
<1>4. DOMAIN (s \o t) = 1 .. (Len(s) + 2)
  BY <1>3, LenProperties
<1>5. 1 .. (Len(s) + 2) = (1 .. Len(s)) \cup {Len(s) + 1, Len(s) + 2}
  BY <1>1
<1>6. \A n \in DOMAIN s : n \in Nat /\ n < Len(s) + 1 /\ (s \o t)[n] = s[n]
  BY <1>1, <1>3
<1>7. (s \o t)[Len(s) + 1] = e /\ (s \o t)[Len(s) + 2] = f
  <2>1. ~(Len(s) + 1 <= Len(s)) /\ (Len(s) + 1) - Len(s) = 1
        /\ ~(Len(s) + 2 <= Len(s)) /\ (Len(s) + 2) - Len(s) = 2
        /\ Len(s) + 1 \in 1 .. Len(s) + 2 /\ Len(s) + 2 \in 1 .. Len(s) + 2
    BY <1>1
  <2>. QED  BY <1>2, <1>3, <2>1
<1>. QED  BY <1>1, <1>3, <1>4, <1>5, <1>6, <1>7 DEF t

LEMMA OldOrTwo ==
  ASSUME NEW S, NEW s \in Seq(S), NEW e \in S, NEW f \in S
  PROVE  LET r == s \o <<e, f>>
         IN  \A n \in DOMAIN r : r[n] \in {e, f} \/ \E k \in DOMAIN s : r[n] = s[k]
<1> DEFINE r == s \o <<e, f>>
<1>1. DOMAIN r = DOMAIN s \cup {Len(s) + 1, Len(s) + 2}
      /\ r[Len(s) + 1] = e /\ r[Len(s) + 2] = f
      /\ \A n \in DOMAIN s : r[n] = s[n]
  BY TwoAppended
<1> HIDE DEF r
<1>2. \A n \in DOMAIN r : r[n] \in {e, f} \/ \E k \in DOMAIN s : r[n] = s[k]
  BY <1>1
<1>. QED  BY <1>2 DEF r

LEMMA OneRemoved ==
  ASSUME NEW S, NEW s \in Seq(S), NEW n \in DOMAIN s
  PROVE  /\ RemoveAt(s, n) \in Seq(S)
         /\ \A k \in DOMAIN RemoveAt(s, n) : \E j \in DOMAIN s : RemoveAt(s, n)[k] = s[j]
         /\ \A j \in DOMAIN s : j # n => \E k \in DOMAIN RemoveAt(s, n) : RemoveAt(s, n)[k] = s[j]
<1>1. Len(s) \in Nat /\ DOMAIN s = 1 .. Len(s) /\ \A k \in 1 .. Len(s) : s[k] \in S
  BY LenProperties, ElementOfSeq
<1> DEFINE a == SubSeq(s, 1, n - 1)
           b == SubSeq(s, n + 1, Len(s))
<1>2. n \in Nat /\ n >= 1 /\ n <= Len(s) /\ n - 1 \in Int /\ n + 1 \in Int /\ Len(s) \in Int
  BY <1>1
<1>3. a \in Seq(S) /\ Len(a) = n - 1 /\ \A k \in 1 .. (n - 1) - 1 + 1 : a[k] = s[1 + k - 1]
  <2>1. \A k \in 1 .. (n - 1) : s[k] \in S
    BY <1>1, <1>2
  <2>2. /\ a \in Seq(S)
        /\ Len(a) = IF 1 <= n - 1 THEN (n - 1) - 1 + 1 ELSE 0
        /\ \A k \in 1 .. (n - 1) - 1 + 1 : a[k] = s[1 + k - 1]
    BY <1>2, <2>1, SubSeqProperties
  <2>3. (IF 1 <= n - 1 THEN (n - 1) - 1 + 1 ELSE 0) = n - 1
    BY <1>2
  <2>. QED  BY <2>2, <2>3
<1>4. b \in Seq(S) /\ Len(b) = Len(s) - n /\ \A k \in 1 .. Len(s) - (n + 1) + 1 : b[k] = s[n + 1 + k - 1]
  <2>1. \A k \in (n + 1) .. Len(s) : s[k] \in S
    BY <1>1, <1>2
  <2>2. /\ b \in Seq(S)
        /\ Len(b) = IF n + 1 <= Len(s) THEN Len(s) - (n + 1) + 1 ELSE 0
        /\ \A k \in 1 .. Len(s) - (n + 1) + 1 : b[k] = s[n + 1 + k - 1]
    BY <1>2, <2>1, SubSeqProperties
  <2>3. (IF n + 1 <= Len(s) THEN Len(s) - (n + 1) + 1 ELSE 0) = Len(s) - n
    BY <1>2
  <2>. QED  BY <2>2, <2>3
<1> HIDE DEF a, b
<1>5. /\ a \o b \in Seq(S) /\ Len(a \o b) = Len(s) - 1
      /\ \A k \in 1 .. (Len(s) - 1) : (a \o b)[k] = IF k <= n - 1 THEN a[k] ELSE b[k - (n - 1)]
  <2>1. /\ a \o b \in Seq(S) /\ Len(a \o b) = Len(a) + Len(b)
        /\ \A k \in 1 .. Len(a) + Len(b) :
              (a \o b)[k] = IF k <= Len(a) THEN a[k] ELSE b[k - Len(a)]
    BY <1>3, <1>4, ConcatProperties
  <2>2. Len(a) + Len(b) = Len(s) - 1
    BY <1>2, <1>3, <1>4
  <2>. QED  BY <1>3, <2>1, <2>2
<1>6. DOMAIN (a \o b) = 1 .. (Len(s) - 1)
  BY <1>5, LenProperties
<1>7. ASSUME NEW k \in 1 .. (Len(s) - 1)
      PROVE  (a \o b)[k] = IF k <= n - 1 THEN s[k] ELSE s[k + 1]
  <2>1. CASE k <= n - 1
    <3>1. k \in 1 .. (n - 1) - 1 + 1 /\ 1 + k - 1 = k
      BY <1>2, <2>1
    <3>. QED  BY <1>3, <1>5, <2>1, <3>1
  <2>2. CASE ~(k <= n - 1)
    <3>1. k - (n - 1) \in 1 .. Len(s) - (n + 1) + 1 /\ n + 1 + (k - (n - 1)) - 1 = k + 1
      BY <1>2, <2>2
    <3>. QED  BY <1>4, <1>5, <2>2, <3>1
  <2>. QED  BY <2>1, <2>2
<1>8. ASSUME NEW k \in 1 .. (Len(s) - 1) PROVE \E j \in DOMAIN s : (a \o b)[k] = s[j]
  <2>1. k \in DOMAIN s /\ k + 1 \in DOMAIN s
    BY <1>1
  <2>. QED  BY <1>7, <2>1
<1>9. ASSUME NEW j \in DOMAIN s, j # n PROVE \E k \in 1 .. (Len(s) - 1) : (a \o b)[k] = s[j]
  <2>1. CASE j < n
    <3>1. j \in 1 .. (Len(s) - 1) /\ j <= n - 1
      BY <1>1, <1>2, <2>1
    <3>. QED  BY <1>7, <3>1
  <2>2. CASE j > n
    <3>1. j - 1 \in 1 .. (Len(s) - 1) /\ ~(j - 1 <= n - 1) /\ (j - 1) + 1 = j
      BY <1>1, <1>2, <2>2
    <3>. QED  BY <1>7, <3>1
  <2>3. j < n \/ j > n
    BY <1>1, <1>2, <1>9
  <2>. QED  BY <2>1, <2>2, <2>3
<1>10. RemoveAt(s, n) = a \o b
  BY DEF RemoveAt, a, b
<1>. QED  BY <1>5, <1>6, <1>8, <1>9, <1>10

\* The connection of a page: made when there is none, told a candidate, described.
LEMMA LinkMade ==
  ASSUME NEW p \in {Unpeered} \cup Links, NEW c \in Conns
  PROVE  Made(p, c) \in Links /\ (p = Unpeered => Made(p, c).sig = "stable")
         /\ (p # Unpeered => Made(p, c) = p)
<1>1. NoDesc \in {NoDesc} \cup Descriptions
  OBVIOUS
<1>. QED  BY <1>1 DEF Made, Links

LEMMA LinkNotNone == \A p \in Links : p # Unpeered /\ p.conn \in Conns
BY DEF Links, Unpeered, Conns

LEMMA LinkCandidate ==
  ASSUME NEW p \in Links, NEW c \in Conns
  PROVE  Candidate(p, c) \in Links /\ Candidate(p, c).sig = p.sig
BY DEF Candidate, Links

LEMMA LinkDescribed ==
  ASSUME NEW p \in Links, NEW d \in Descriptions, NEW sig \in {"stable", "have-remote-offer"}
  PROVE  RemoteSet(p, d, sig) \in Links /\ RemoteSet(p, d, sig).sig = sig
<1>1. d # NoDesc
  BY DEF Descriptions, NoDesc
<1>. QED  BY <1>1 DEF RemoteSet, Links

LEMMA LinkChanged ==
  ASSUME NEW p \in Links, NEW d \in Descriptions,
         NEW sig \in {"stable", "have-local-offer"}
  PROVE  [p EXCEPT !.sig = sig, !.loc = d] \in Links
         /\ [p EXCEPT !.sig = sig, !.loc = d].sig = sig
BY DEF Links

-----------------------------------------------------------------------------
(* VoiceMesh: types *)

LEMMA OtherMember == \A u \in Members : Other(u) \in Members /\ Other(u) # u /\ Other(Other(u)) = u
BY DEF Other, Members

LEMMA PidMember == \A i \in Pids : i[1] \in Members /\ <<0, 0>> # i
BY DEF Pids, Members

LEMMA SessionFacts ==
  ASSUME VoiceTypes, Owned, NEW u \in Members, session[u] # NoSession
  PROVE  session[u] \in Sessions /\ session[u].pid \in Pids /\ session[u].pid[1] = u
BY DEF VoiceTypes, Owned, Sessions

LEMMA RealSession == NoSession \notin Sessions /\ NoSession.pid \notin Pids
BY PidMember DEF NoSession, Sessions

LEMMA StartedProcess ==
  ASSUME VoiceTypes, Owned, NEW i \in Pids, proc[i].open \/ proc[i].st # "gone"
  PROVE  proc[i].user = i[1] /\ proc[i].user \in Members
BY PidMember DEF Owned, Unstarted

\* Only the connection and the time of a session change.
LEMMA PeerSet ==
  ASSUME VoiceTypes, Owned, NEW u \in Members, session[u] # NoSession,
         NEW q \in {Unpeered} \cup Links
  PROVE  LET t == [session EXCEPT ![u].peer = q]
         IN  /\ t \in [Members -> {NoSession} \cup Sessions]
             /\ t[u] = [session[u] EXCEPT !.peer = q]
             /\ t[u] # NoSession /\ t[u].peer = q
             /\ t[u].pid = session[u].pid /\ t[u].joined = session[u].joined
             /\ t[u].muted = session[u].muted /\ t[u].at = session[u].at
             /\ \A w \in Members \ {u} : t[w] = session[w]
<1>1. session[u] \in Sessions /\ [session[u] EXCEPT !.peer = q] \in Sessions
  BY SessionFacts DEF Sessions
<1>2. session \in [Members -> {NoSession} \cup Sessions]
  BY DEF VoiceTypes
<1>. QED  BY <1>1, <1>2, RealSession DEF Sessions

LEMMA TornDown ==
  ASSUME VoiceTypes, Owned, NEW u \in Members, Teardown(u)
  PROVE  /\ session' \in [Members -> {NoSession} \cup Sessions] /\ session'[u] = NoSession
         /\ \A w \in Members \ {u} : session'[w] = session[w]
         /\ task' \in [Members -> Seq(Waits)] /\ task'[u] = <<>>
         /\ \A w \in Members \ {u} : task'[w] = task[w]
         /\ proc' \in [Pids -> Processes] /\ inbox' \in [Pids -> Seq(Pushed)]
         /\ \A i \in Pids : IF session[u] # NoSession /\ i = session[u].pid
                            THEN proc'[i] = [proc[i] EXCEPT !.open = FALSE] /\ inbox'[i] = <<>>
                            ELSE proc'[i] = proc[i] /\ inbox'[i] = inbox[i]
<1>1. <<>> \in Seq(Waits) /\ <<>> \in Seq(Pushed)
  OBVIOUS
<1>2. \A i \in Pids : [proc[i] EXCEPT !.open = FALSE] \in Processes
  BY DEF VoiceTypes, Processes
<1>3. session[u] # NoSession => session[u].pid \in Pids
  BY SessionFacts
<1>4. CASE session[u] = NoSession
  BY <1>1, <1>4, RealSession DEF Teardown, VoiceTypes
<1>5. CASE session[u] # NoSession
  <2>1. proc' = [proc EXCEPT ![session[u].pid].open = FALSE]
        /\ inbox' = [inbox EXCEPT ![session[u].pid] = <<>>]
    BY <1>3, <1>5 DEF Teardown
  <2>. QED  BY <1>1, <1>2, <1>3, <1>5, <2>1 DEF Teardown, VoiceTypes
<1>. QED  BY <1>4, <1>5

LEMMA TornDownOwned ==
  ASSUME VoiceTypes, Owned, NEW u \in Members, Teardown(u)
  PROVE  Owned'
<1>1. Unstarted.open = FALSE
      /\ \A p \in Processes : p.open = FALSE => [p EXCEPT !.open = FALSE] = p
  BY DEF Unstarted, Processes
<1>2. \A i \in Pids : [proc[i] EXCEPT !.open = FALSE].user = proc[i].user
  BY DEF VoiceTypes, Processes
<1>3. ASSUME NEW i \in Pids PROVE proc'[i] = Unstarted \/ proc'[i].user = i[1]
  <2>1. proc[i] \in Processes /\ (proc[i] = Unstarted \/ proc[i].user = i[1])
    BY DEF VoiceTypes, Owned
  <2>2. proc'[i] = proc[i] \/ proc'[i] = [proc[i] EXCEPT !.open = FALSE]
    BY TornDown
  <2>. QED  BY <1>1, <1>2, <2>1, <2>2
<1>4. \A w \in Members : session'[w] # NoSession => session'[w].pid[1] = w
  BY TornDown DEF Owned
<1>. QED  BY <1>3, <1>4 DEF Owned

LEMMA Told ==
  ASSUME VoiceTypes, NEW u \in Members, NEW e \in Words, Tell(u, e)
  PROVE  /\ toView' \in [Members -> Seq(Words)] /\ toView'[u] = Append(toView[u], e)
         /\ \A w \in Members \ {u} : toView'[w] = toView[w]
BY Appended DEF VoiceTypes, Tell

LEMMA SignalTypes ==
  ASSUME VoiceTypes, Owned, NEW u \in Members, NEW m \in Descriptions
  PROVE  /\ Signalled(inbox, u, m) \in [Pids -> Seq(Pushed)]
         /\ \A i \in Pids :
               Signalled(inbox, u, m)[i] =
                  IF session[u] # NoSession /\ session[u].joined /\ Listens(i) /\ i[1] = Other(u)
                  THEN inbox[i] \o <<m, Desc("ice", m.conn)>> ELSE inbox[i]
<1>1. m \in Pushed /\ Desc("ice", m.conn) \in Pushed
  BY DEF Desc, Pushed, Relays, Descriptions
<1>2. \A i \in Pids : inbox[i] \in Seq(Pushed)
                      /\ inbox[i] \o <<m, Desc("ice", m.conn)>> \in Seq(Pushed)
  BY <1>1, TwoAppended DEF VoiceTypes
<1>3. \A i \in Pids : Listens(i) => proc[i].user = i[1]
  BY StartedProcess DEF Listens
<1>4. inbox = [i \in Pids |-> inbox[i]]
  BY DEF VoiceTypes
<1>. QED  BY <1>2, <1>3, <1>4 DEF Signalled

LEMMA Waiting ==
  ASSUME VoiceTypes, NEW u \in Members, NEW k, NEW c, NEW d,
         [k |-> k, conn |-> c, desc |-> d] \in Waits, Wait(u, k, c, d)
  PROVE  /\ task' \in [Members -> Seq(Waits)]
         /\ task'[u] = Append(task[u], [k |-> k, conn |-> c, desc |-> d])
         /\ \A w \in Members \ {u} : task'[w] = task[w]
BY Appended DEF VoiceTypes, Wait

LEMMA CountedUp ==
  ASSUME VoiceTypes, NEW u \in Members, Counted(u)
  PROVE  conns' \in [Members -> Nat]
BY DEF VoiceTypes, Counted

LEMMA WithPeerTyped ==
  ASSUME VoiceTypes, Owned, NEW u \in Members, session[u] # NoSession
  PROVE  /\ WithPeer(u) \in Links /\ WithPeer(u) # Unpeered /\ WithPeer(u).conn \in Conns
         /\ session[u].peer = Unpeered => WithPeer(u).sig = "stable"
         /\ session[u].peer # Unpeered => WithPeer(u) = session[u].peer
<1>1. session[u].peer \in {Unpeered} \cup Links /\ conns[u] + 1 \in Conns
  BY SessionFacts DEF Sessions, VoiceTypes, Conns
<1>. QED  BY <1>1, LinkMade, LinkNotNone DEF WithPeer

\* A page that makes an offer.
LEMMA OffersTyped ==
  ASSUME VoiceTypes, Owned, NEW u \in Members, session[u] # NoSession, Offers(u)
  PROVE  /\ session' = [session EXCEPT ![u].peer = WithPeer(u)]
         /\ task' \in [Members -> Seq(Waits)] /\ conns' \in [Members -> Nat]
         /\ task'[u] = Append(task[u], [k |-> "offer", conn |-> WithPeer(u).conn, desc |-> NoDesc])
         /\ \A w \in Members \ {u} : task'[w] = task[w]
<1>1. [k |-> "offer", conn |-> WithPeer(u).conn, desc |-> NoDesc] \in Waits
  BY WithPeerTyped DEF Waits
<1>. QED  BY <1>1, Waiting, CountedUp DEF Offers

\* A set of natural numbers that is not empty has a least element.
LEMMA Smallest ==
  ASSUME NEW S \in SUBSET Nat, S # {}
  PROVE  \E n \in S : \A m \in S : n <= m
<1> DEFINE R == OpToRel(<, Nat)
<1>1. IsWellFoundedOn(R, Nat)
  BY NatLessThanWellFounded
<1>2. PICK n \in S : \A m \in S : <<m, n>> \notin R
  <2> HIDE DEF R
  <2>. QED  BY <1>1, WFMin
<1>3. \A m \in S : ~(m < n)
  BY <1>2 DEF OpToRel
<1>. QED  BY <1>3

\* What a page does with a message of its channel, by the kind of the message.
HeardState(u, m) ==
    LET me == {e \in m.list : e.user = u}
        t == session'[u].at
    IN  /\ me # {} => t \in {e.at : e \in me}
        /\ IF \E e \in m.list : e.user # u /\ ShouldInitiateTo(u, t, e)
           THEN /\ session'[u].peer = WithPeer(u)
                /\ task'[u] = Append(task[u], [k |-> "offer", conn |-> WithPeer(u).conn,
                                               desc |-> NoDesc])
           ELSE session'[u].peer = session[u].peer /\ task'[u] = task[u]

HeardJoin(u, m) ==
    IF m.user # u /\ session[u].peer = Unpeered /\ ShouldInitiateTo(u, session[u].at, m)
    THEN /\ session'[u].peer = WithPeer(u)
         /\ task'[u] = Append(task[u], [k |-> "offer", conn |-> WithPeer(u).conn,
                                        desc |-> NoDesc])
    ELSE session'[u].peer = session[u].peer /\ task'[u] = task[u]

HeardLeave(u, m) ==
    IF m.user = u THEN session'[u].peer = session[u].peer /\ task'[u] = task[u]
    ELSE session'[u].peer = Unpeered /\ task'[u] = <<>>

HeardOffer(u, m) ==
    /\ session'[u].peer = WithPeer(u)
    /\ task'[u] = Append(task[u], [k |-> "remote offer", conn |-> WithPeer(u).conn, desc |-> m])

HeardAnswer(u, m) ==
    /\ session'[u].peer = session[u].peer
    /\ IF session[u].peer = Unpeered THEN task'[u] = task[u]
       ELSE task'[u] = Append(task[u], [k |-> "remote answer", conn |-> session[u].peer.conn,
                                        desc |-> m])

HeardIce(u) ==
    /\ task'[u] = task[u]
    /\ session'[u].peer \in Links /\ session'[u].peer.sig = WithPeer(u).sig

\* What the other member's variables and the session's own data do meanwhile.
SessionGoesOn(u) ==
    /\ session' \in [Members -> {NoSession} \cup Sessions] /\ session'[u] # NoSession
    /\ session'[u].pid = session[u].pid /\ session'[u].joined = session[u].joined
    /\ session'[u].muted = session[u].muted
    /\ task' \in [Members -> Seq(Waits)] /\ conns' \in [Members -> Nat]
    /\ \A w \in Members \ {u} : session'[w] = session[w] /\ task'[w] = task[w]

LEMMA GoesOnIgnored ==
  ASSUME VoiceTypes, NEW u \in Members, session[u] # NoSession, Ignored(u)
  PROVE  SessionGoesOn(u) /\ session' = session /\ task' = task
BY DEF VoiceTypes, Ignored, SessionGoesOn

LEMMA GoesOnWithPeer ==
  ASSUME VoiceTypes, Owned, NEW u \in Members, session[u] # NoSession,
         NEW q \in {Unpeered} \cup Links, session' = [session EXCEPT ![u].peer = q],
         task' \in [Members -> Seq(Waits)], conns' \in [Members -> Nat],
         \A w \in Members \ {u} : task'[w] = task[w]
  PROVE  SessionGoesOn(u) /\ session'[u].peer = q /\ session'[u].at = session[u].at
BY PeerSet DEF SessionGoesOn

LEMMA HearingState ==
  ASSUME VoiceTypes, Owned, NEW u \in Members, session[u] # NoSession,
         NEW m \in Pushed, m.t = "state", HearsState(u, m)
  PROVE  SessionGoesOn(u) /\ HeardState(u, m)
<1> DEFINE me == {e \in m.list : e.user = u}
           t == IF me = {} THEN session[u].at
                ELSE (CHOOSE e \in me : \A f \in me : e.at <= f.at).at
           s == [session EXCEPT ![u].at = t]
<1>1. m.list \subseteq Entries
  BY DEF Pushed, Diffs, Relays, Descriptions
<1>2. t \in Nat /\ (me # {} => t \in {e.at : e \in me})
  <2>1. CASE me = {}
    BY <2>1, SessionFacts DEF Sessions
  <2>2. CASE me # {}
    <3>1. {e.at : e \in me} \in SUBSET Nat /\ {e.at : e \in me} # {}
      BY <1>1, <2>2 DEF Entries
    <3>2. \E n \in {e.at : e \in me} : \A k \in {e.at : e \in me} : n <= k
      BY <3>1, Smallest
    <3>3. \E e \in me : \A f \in me : e.at <= f.at
      BY <3>2
    <3>. QED  BY <2>2, <3>1, <3>3
  <2>. QED  BY <2>1, <2>2
<1> HIDE DEF t
<1>3. session[u] \in Sessions /\ [session[u] EXCEPT !.at = t] \in Sessions
  BY <1>2, SessionFacts DEF Sessions
<1>4. /\ s \in [Members -> {NoSession} \cup Sessions] /\ s[u] = [session[u] EXCEPT !.at = t]
      /\ \A w \in Members \ {u} : s[w] = session[w]
  BY <1>3 DEF VoiceTypes
<1>5. /\ s[u].at = t /\ s[u].pid = session[u].pid /\ s[u].joined = session[u].joined
      /\ s[u].muted = session[u].muted /\ s[u].peer = session[u].peer
      /\ s[u] # NoSession
  BY <1>3, <1>4, RealSession DEF Sessions
<1>6. s = [session EXCEPT ![u].at = IF me = {} THEN @
                                   ELSE (CHOOSE e \in me : \A f \in me : e.at <= f.at).at]
  BY DEF t, VoiceTypes
<1>7. IF \E e \in m.list : e.user # u /\ ShouldInitiateTo(u, s[u].at, e)
      THEN /\ session' = [s EXCEPT ![u].peer = WithPeer(u)]
           /\ Counted(u)
           /\ Wait(u, "offer", WithPeer(u).conn, NoDesc)
      ELSE session' = s /\ UNCHANGED <<conns, task>>
  BY <1>6 DEF HearsState
<1>8. CASE \E e \in m.list : e.user # u /\ ShouldInitiateTo(u, t, e)
  <2>1. session' = [s EXCEPT ![u].peer = WithPeer(u)] /\ Counted(u)
        /\ Wait(u, "offer", WithPeer(u).conn, NoDesc)
    BY <1>5, <1>7, <1>8
  <2>2. [k |-> "offer", conn |-> WithPeer(u).conn, desc |-> NoDesc] \in Waits
    BY WithPeerTyped DEF Waits
  <2>3. /\ task' \in [Members -> Seq(Waits)] /\ conns' \in [Members -> Nat]
        /\ task'[u] = Append(task[u], [k |-> "offer", conn |-> WithPeer(u).conn, desc |-> NoDesc])
        /\ \A w \in Members \ {u} : task'[w] = task[w]
    BY <2>1, <2>2, Waiting, CountedUp
  <2>4. WithPeer(u) \in Links
    BY WithPeerTyped
  <2>5. s[u] \in Sessions /\ [s[u] EXCEPT !.peer = WithPeer(u)] \in Sessions
    BY <1>3, <1>4, <2>4 DEF Sessions
  <2>6. session'[u] = [s[u] EXCEPT !.peer = WithPeer(u)]
        /\ session' \in [Members -> {NoSession} \cup Sessions]
        /\ \A w \in Members \ {u} : session'[w] = session[w]
    BY <1>4, <2>1, <2>5
  <2>7. /\ session'[u].at = t /\ session'[u].pid = session[u].pid
        /\ session'[u].joined = session[u].joined /\ session'[u].muted = session[u].muted
        /\ session'[u].peer = WithPeer(u) /\ session'[u] # NoSession
    BY <1>5, <2>5, <2>6, RealSession DEF Sessions
  <2>. QED  BY <1>2, <1>8, <2>3, <2>6, <2>7 DEF SessionGoesOn, HeardState
<1>9. CASE ~\E e \in m.list : e.user # u /\ ShouldInitiateTo(u, t, e)
  <2>1. session' = s /\ UNCHANGED <<conns, task>>
    BY <1>5, <1>7, <1>9
  <2>. QED  BY <1>2, <1>4, <1>5, <1>9, <2>1 DEF SessionGoesOn, HeardState, VoiceTypes
<1>. QED  BY <1>8, <1>9

LEMMA HearingJoin ==
  ASSUME VoiceTypes, Owned, NEW u \in Members, session[u] # NoSession, NEW m, HearsJoin(u, m)
  PROVE  SessionGoesOn(u) /\ HeardJoin(u, m) /\ session'[u].at = session[u].at
<1>1. CASE m.user # u /\ session[u].peer = Unpeered /\ ShouldInitiateTo(u, session[u].at, m)
  BY <1>1, OffersTyped, WithPeerTyped, GoesOnWithPeer DEF HearsJoin, HeardJoin
<1>2. CASE ~(m.user # u /\ session[u].peer = Unpeered /\ ShouldInitiateTo(u, session[u].at, m))
  BY <1>2, GoesOnIgnored DEF HearsJoin, HeardJoin
<1>. QED  BY <1>1, <1>2

LEMMA Closing ==
  ASSUME VoiceTypes, Owned, NEW u \in Members, session[u] # NoSession, Closed(u),
         conns' = conns
  PROVE  /\ SessionGoesOn(u) /\ session'[u].at = session[u].at
         /\ session'[u].peer = Unpeered /\ task'[u] = <<>>
<1>1. <<>> \in Seq(Waits)
  OBVIOUS
<1>2. /\ task' \in [Members -> Seq(Waits)] /\ task'[u] = <<>>
      /\ \A w \in Members \ {u} : task'[w] = task[w]
  BY <1>1 DEF Closed, VoiceTypes
<1>3. conns' \in [Members -> Nat] /\ session' = [session EXCEPT ![u].peer = Unpeered]
  BY DEF VoiceTypes, Closed
<1>. QED  BY <1>2, <1>3, GoesOnWithPeer

LEMMA HearingLeave ==
  ASSUME VoiceTypes, Owned, NEW u \in Members, session[u] # NoSession, NEW m, HearsLeave(u, m)
  PROVE  SessionGoesOn(u) /\ HeardLeave(u, m) /\ session'[u].at = session[u].at
BY Closing, GoesOnIgnored DEF HearsLeave, HeardLeave

LEMMA HearingSignal ==
  ASSUME VoiceTypes, Owned, NEW u \in Members, session[u] # NoSession,
         NEW m \in Relays, HearsSignal(u, m)
  PROVE  /\ SessionGoesOn(u) /\ session'[u].at = session[u].at
         /\ m.t = "offer" => HeardOffer(u, m)
         /\ m.t = "answer" => HeardAnswer(u, m)
         /\ m.t = "ice" => HeardIce(u)
<1>1. CASE m.t = "offer"
  <2>1. [k |-> "remote offer", conn |-> WithPeer(u).conn, desc |-> m] \in Waits
    BY <1>1, WithPeerTyped DEF Waits, Relays
  <2>2. session' = [session EXCEPT ![u].peer = WithPeer(u)] /\ Counted(u)
        /\ Wait(u, "remote offer", WithPeer(u).conn, m)
    BY <1>1 DEF HearsSignal
  <2>3. /\ task' \in [Members -> Seq(Waits)] /\ \A w \in Members \ {u} : task'[w] = task[w]
        /\ task'[u] = Append(task[u], [k |-> "remote offer", conn |-> WithPeer(u).conn, desc |-> m])
    BY <2>1, <2>2, Waiting
  <2>4. SessionGoesOn(u) /\ session'[u].peer = WithPeer(u) /\ session'[u].at = session[u].at
    BY <2>2, <2>3, CountedUp, WithPeerTyped, GoesOnWithPeer
  <2>. QED  BY <1>1, <2>3, <2>4 DEF HeardOffer
<1>2. CASE m.t = "answer" /\ session[u].peer = Unpeered
  BY <1>2, GoesOnIgnored DEF HearsSignal, HeardAnswer
<1>3. CASE m.t = "answer" /\ session[u].peer # Unpeered
  <2>1. session[u].peer.conn \in Conns
    BY <1>3, SessionFacts, LinkNotNone DEF Sessions
  <2>2. [k |-> "remote answer", conn |-> session[u].peer.conn, desc |-> m] \in Waits
    BY <1>3, <2>1 DEF Waits, Relays
  <2>3. Wait(u, "remote answer", session[u].peer.conn, m) /\ UNCHANGED <<session, conns>>
    BY <1>3 DEF HearsSignal
  <2>4. /\ task' \in [Members -> Seq(Waits)] /\ \A w \in Members \ {u} : task'[w] = task[w]
        /\ task'[u] = Append(task[u], [k |-> "remote answer", conn |-> session[u].peer.conn,
                                       desc |-> m])
    BY <2>2, <2>3, Waiting
  <2>5. SessionGoesOn(u) /\ session' = session
    BY <2>3, <2>4 DEF SessionGoesOn, VoiceTypes
  <2>. QED  BY <1>3, <2>4, <2>5 DEF HeardAnswer
<1>4. CASE m.t = "ice"
  <2>1. m.conn \in Conns
    BY <1>4 DEF Relays, Descriptions
  <2>2. Candidate(WithPeer(u), m.conn) \in Links
        /\ Candidate(WithPeer(u), m.conn).sig = WithPeer(u).sig
    BY <2>1, WithPeerTyped, LinkCandidate
  <2>3. session' = [session EXCEPT ![u].peer = Candidate(WithPeer(u), m.conn)]
        /\ Counted(u) /\ task' = task
    BY <1>4 DEF HearsSignal
  <2>4. task' \in [Members -> Seq(Waits)]
    BY <2>3 DEF VoiceTypes
  <2>. QED  BY <1>4, <2>2, <2>3, <2>4, CountedUp, GoesOnWithPeer DEF HeardIce
<1>5. m.t \in {"offer", "answer", "ice"}
  BY DEF Relays, Descriptions
<1>. QED  BY <1>1, <1>2, <1>3, <1>4, <1>5

\* The answer to a join that was refused ends whatever session there is.
Refused(u, i) ==
    /\ session' = [session EXCEPT ![u] = NoSession]
    /\ task' = [task EXCEPT ![u] = <<>>]
    /\ proc' = [j \in Pids |-> IF j \in {i, session[u].pid} THEN [proc[j] EXCEPT !.open = FALSE]
                               ELSE proc[j]]
    /\ inbox' = [j \in Pids |-> IF j \in {i, session[u].pid} THEN <<>> ELSE inbox[j]]
    /\ Tell(u, [t |-> "error"])
    /\ UNCHANGED conns

HandledBy(u, i, m) ==
    /\ proc' = proc /\ toView' = toView /\ inbox' = [inbox EXCEPT ![i] = Tail(@)]
    /\ session[u] = NoSession => UNCHANGED <<session, task, conns>>
    /\ session[u] # NoSession =>
          /\ SessionGoesOn(u)
          /\ m.t # "state" => session'[u].at = session[u].at
          /\ m.t = "state" => HeardState(u, m)
          /\ m.t = "join" => HeardJoin(u, m)
          /\ m.t = "leave" => HeardLeave(u, m)
          /\ m.t = "offer" => HeardOffer(u, m)
          /\ m.t = "answer" => HeardAnswer(u, m)
          /\ m.t = "ice" => HeardIce(u)

LEMMA Receiving ==
  ASSUME VoiceTypes, Owned, NEW i \in Pids, Receives(i)
  PROVE  LET u == i[1]
             m == inbox[i][1]
         IN  /\ proc[i].open /\ proc[i].user = u /\ u \in Members /\ inbox[i] # <<>>
             /\ 1 \in DOMAIN inbox[i] /\ m \in Pushed
             /\ IF m.t = "refused" THEN Refused(u, i) ELSE HandledBy(u, i, m)
             /\ crossed' = IF OutOfTurn(u, m) THEN crossed \cup {u} ELSE crossed
             /\ UNCHANGED <<bar, awaiting, news, clock, hasty, turns>>
<1> DEFINE u == i[1]
           m == inbox[i][1]
<1>1. proc[i].open /\ inbox[i] # <<>> /\ inbox[i] \in Seq(Pushed)
  BY DEF Receives, VoiceTypes
<1>2. proc[i].user = u /\ u \in Members
  BY <1>1, StartedProcess
<1>3. 1 \in DOMAIN inbox[i] /\ Head(inbox[i]) = m /\ m \in Pushed
  BY <1>1, Shortened
<1>4. /\ crossed' = IF OutOfTurn(u, m) THEN crossed \cup {u} ELSE crossed
      /\ UNCHANGED <<bar, awaiting, news, clock, hasty, turns>>
  BY <1>2, <1>3 DEF Receives
<1>5. CASE m.t = "refused"
  BY <1>1, <1>2, <1>3, <1>4, <1>5 DEF Receives, Refused
<1>6. CASE m.t # "refused"
  <2>1. /\ proc' = proc /\ toView' = toView /\ inbox' = [inbox EXCEPT ![i] = Tail(@)]
        /\ CASE session[u] = NoSession -> Ignored(u)
             [] session[u] # NoSession /\ m.t = "state" -> HearsState(u, m)
             [] session[u] # NoSession /\ m.t = "join" -> HearsJoin(u, m)
             [] session[u] # NoSession /\ m.t = "leave" -> HearsLeave(u, m)
             [] session[u] # NoSession /\ m.t \in {"offer", "answer", "ice"} -> HearsSignal(u, m)
    BY <1>2, <1>3, <1>6 DEF Receives
  <2>2. CASE session[u] = NoSession
    <3>1. Ignored(u)
      BY <2>1, <2>2
    <3>. QED  BY <1>1, <1>2, <1>3, <1>4, <1>6, <2>1, <2>2, <3>1 DEF HandledBy, Ignored
  <2>3. CASE session[u] # NoSession
    <3>1. m.t \in {"state", "join", "leave", "offer", "answer", "ice"}
      BY <1>3, <1>6 DEF Pushed, Diffs, Relays, Descriptions
    <3>2. CASE m.t = "state"
      <4>1. HearsState(u, m)
        BY <2>1, <2>3, <3>2
      <4>. QED  BY <1>1, <1>2, <1>3, <1>4, <1>6, <2>1, <2>3, <3>2, <4>1, HearingState DEF HandledBy
    <3>3. CASE m.t = "join"
      <4>1. HearsJoin(u, m)
        BY <2>1, <2>3, <3>3
      <4>. QED  BY <1>1, <1>2, <1>3, <1>4, <1>6, <2>1, <2>3, <3>3, <4>1, HearingJoin DEF HandledBy
    <3>4. CASE m.t = "leave"
      <4>1. HearsLeave(u, m)
        BY <2>1, <2>3, <3>4
      <4>. QED  BY <1>1, <1>2, <1>3, <1>4, <1>6, <2>1, <2>3, <3>4, <4>1, HearingLeave DEF HandledBy
    <3>5. CASE m.t \in {"offer", "answer", "ice"}
      <4>1. HearsSignal(u, m)
        BY <2>1, <2>3, <3>5
      <4>2. m \in Relays
        BY <1>3, <3>5 DEF Pushed, Diffs
      <4>. QED  BY <1>1, <1>2, <1>3, <1>4, <1>6, <2>1, <2>3, <3>5, <4>1, <4>2, HearingSignal
                DEF HandledBy
    <3>. QED  BY <3>1, <3>2, <3>3, <3>4, <3>5
  <2>. QED  BY <2>2, <2>3
<1>. QED  BY <1>5, <1>6

\* What a suspended function does when it goes on, by the kind of the function.
WentOn(u, n) ==
    LET t == task[u][n]
        p == session[u].peer
        q == session'[u].peer
        rest == RemoveAt(task[u], n)
    IN  \/ /\ t.k = "offer" /\ p.sig # "have-remote-offer"
           /\ q \in Links /\ q.sig = "have-local-offer" /\ task'[u] = rest
           /\ inbox' = Signalled(inbox, u, Desc("offer", p.conn))
        \/ /\ t.k = "offer" /\ p.sig = "have-remote-offer"
           /\ q = Unpeered /\ task'[u] = <<>> /\ inbox' = inbox
        \/ /\ t.k = "remote offer"
           /\ q \in Links /\ q.sig = "have-remote-offer" /\ inbox' = inbox
           /\ task'[u] = Append(rest, [t EXCEPT !.k = "answer"])
        \/ /\ t.k = "answer" /\ q \in Links /\ q.sig \in {p.sig, "stable"} /\ task'[u] = rest
           /\ inbox' \in {inbox, Signalled(inbox, u, Desc("answer", p.conn))}
        \/ /\ t.k = "remote answer" /\ q \in Links /\ q.sig \in {p.sig, "stable"}
           /\ task'[u] = rest /\ inbox' = inbox

LEMMA GoingOn ==
  ASSUME VoiceTypes, Owned, NEW u \in Members, NEW n \in DOMAIN task[u],
         session[u] # NoSession, Negotiates(u, n)
  PROVE  /\ SessionGoesOn(u) /\ session'[u].at = session[u].at /\ WentOn(u, n)
         /\ session[u].peer \in Links /\ task[u][n] \in Waits
         /\ UNCHANGED <<bar, toView, awaiting, proc, news, clock, conns, hasty, crossed, turns>>
<1> DEFINE t == task[u][n]
           p == session[u].peer
           rest == RemoveAt(task[u], n)
<1>1. task[u] \in Seq(Waits) /\ t \in Waits /\ t.conn \in Conns
  <2>1. task[u] \in Seq(Waits)
    BY DEF VoiceTypes
  <2>2. t \in Waits
    BY <2>1, LenProperties, ElementOfSeq
  <2>. QED  BY <2>1, <2>2 DEF Waits
<1>2. p \in Links /\ p.conn \in Conns
  <2>1. p \in {Unpeered} \cup Links
    BY SessionFacts DEF Sessions
  <2>2. p.conn \in Conns
    BY <1>1 DEF Negotiates
  <2>. QED  BY <2>1, <2>2 DEF Unpeered, Conns
<1>3. rest \in Seq(Waits)
  BY <1>1, OneRemoved
<1>4. UNCHANGED <<bar, toView, awaiting, proc, news, clock, conns, hasty, crossed, turns>>
  BY DEF Negotiates
<1>5. /\ Desc("offer", p.conn) \in Descriptions /\ Desc("answer", p.conn) \in Descriptions
  BY <1>2 DEF Desc, Descriptions
<1>6. /\ conns' \in [Members -> Nat]
      /\ \A f \in Seq(Waits) : task' = [task EXCEPT ![u] = f] =>
            /\ task' \in [Members -> Seq(Waits)] /\ task'[u] = f
            /\ \A w \in Members \ {u} : task'[w] = task[w]
  BY <1>4 DEF VoiceTypes
<1> HIDE DEF t, p, rest
<1>7. CASE t.k = "offer" /\ p.sig # "have-remote-offer"
  <2> DEFINE q == [p EXCEPT !.sig = "have-local-offer", !.loc = Desc("offer", p.conn)]
  <2>1. /\ session' = [session EXCEPT ![u].peer = q] /\ task' = [task EXCEPT ![u] = rest]
        /\ inbox' = Signalled(inbox, u, Desc("offer", p.conn))
    BY <1>7 DEF Negotiates, t, p, rest
  <2>2. q \in Links /\ q.sig = "have-local-offer"
    BY <1>2, <1>5, LinkChanged
  <2> HIDE DEF q
  <2>3. SessionGoesOn(u) /\ session'[u].peer = q /\ session'[u].at = session[u].at
    BY <1>3, <1>6, <2>1, <2>2, GoesOnWithPeer
  <2>. QED  BY <1>1, <1>2, <1>3, <1>4, <1>6, <1>7, <2>1, <2>2, <2>3 DEF WentOn, t, p, rest
<1>8. CASE t.k = "offer" /\ p.sig = "have-remote-offer"
  <2>1. Closed(u) /\ inbox' = inbox
    BY <1>8 DEF Negotiates, t, p
  <2>. QED  BY <1>1, <1>2, <1>4, <1>8, <2>1, Closing DEF WentOn, t, p
<1>9. CASE t.k = "remote offer"
  <2> DEFINE q == RemoteSet(p, t.desc, "have-remote-offer")
             f == Append(rest, [t EXCEPT !.k = "answer"])
  <2>1. session' = [session EXCEPT ![u].peer = q] /\ task' = [task EXCEPT ![u] = f]
        /\ inbox' = inbox
    BY <1>9 DEF Negotiates, t, p, rest
  <2>2. t.desc \in Descriptions /\ [t EXCEPT !.k = "answer"] \in Waits
    BY <1>1, <1>9 DEF Waits
  <2>3. q \in Links /\ q.sig = "have-remote-offer" /\ f \in Seq(Waits)
    BY <1>2, <1>3, <2>2, LinkDescribed
  <2> HIDE DEF q, f
  <2>4. task' \in [Members -> Seq(Waits)] /\ task'[u] = f /\ \A w \in Members \ {u} : task'[w] = task[w]
    BY <1>6, <2>1, <2>3
  <2>5. SessionGoesOn(u) /\ session'[u].peer = q /\ session'[u].at = session[u].at
    BY <1>6, <2>1, <2>3, <2>4, GoesOnWithPeer
  <2>. QED  BY <1>1, <1>2, <1>4, <1>9, <2>1, <2>3, <2>4, <2>5 DEF WentOn, t, p, rest, f
<1>10. CASE t.k = "answer"
  <2>1. task' = [task EXCEPT ![u] = rest]
    BY <1>10 DEF Negotiates, t, rest
  <2>2. CASE p.sig = "have-remote-offer"
    <3> DEFINE q == [p EXCEPT !.sig = "stable", !.loc = Desc("answer", p.conn)]
    <3>1. session' = [session EXCEPT ![u].peer = q]
          /\ inbox' = Signalled(inbox, u, Desc("answer", p.conn))
      BY <1>10, <2>2 DEF Negotiates, t, p
    <3>2. q \in Links /\ q.sig = "stable"
      BY <1>2, <1>5, LinkChanged
    <3> HIDE DEF q
    <3>3. SessionGoesOn(u) /\ session'[u].peer = q /\ session'[u].at = session[u].at
      BY <1>3, <1>6, <2>1, <3>1, <3>2, GoesOnWithPeer
    <3>. QED  BY <1>1, <1>2, <1>3, <1>4, <1>6, <1>10, <2>1, <3>1, <3>2, <3>3
              DEF WentOn, t, p, rest
  <2>3. CASE p.sig # "have-remote-offer"
    <3>1. UNCHANGED <<session, inbox>>
      BY <1>10, <2>3 DEF Negotiates, t, p
    <3>2. SessionGoesOn(u)
      BY <1>3, <1>6, <2>1, <3>1 DEF SessionGoesOn, VoiceTypes
    <3>. QED  BY <1>1, <1>2, <1>3, <1>4, <1>6, <1>10, <2>1, <3>1, <3>2
              DEF WentOn, t, p, rest
  <2>. QED  BY <2>2, <2>3
<1>11. CASE t.k = "remote answer"
  <2>1. task' = [task EXCEPT ![u] = rest] /\ inbox' = inbox
    BY <1>11 DEF Negotiates, t, rest
  <2>2. CASE p.sig = "have-local-offer"
    <3> DEFINE q == RemoteSet(p, t.desc, "stable")
    <3>1. session' = [session EXCEPT ![u].peer = q]
      BY <1>11, <2>2 DEF Negotiates, t, p
    <3>2. t.desc \in Descriptions
      BY <1>1, <1>11 DEF Waits
    <3>3. q \in Links /\ q.sig = "stable"
      BY <1>2, <3>2, LinkDescribed
    <3> HIDE DEF q
    <3>4. SessionGoesOn(u) /\ session'[u].peer = q /\ session'[u].at = session[u].at
      BY <1>3, <1>6, <2>1, <3>1, <3>3, GoesOnWithPeer
    <3>. QED  BY <1>1, <1>2, <1>3, <1>4, <1>6, <1>11, <2>1, <3>3, <3>4
              DEF WentOn, t, p, rest
  <2>3. CASE p.sig # "have-local-offer"
    <3>1. session' = session
      BY <1>11, <2>3 DEF Negotiates, t, p
    <3>2. SessionGoesOn(u)
      BY <1>3, <1>6, <2>1, <3>1 DEF SessionGoesOn, VoiceTypes
    <3>. QED  BY <1>1, <1>2, <1>3, <1>4, <1>6, <1>11, <2>1, <3>1, <3>2
              DEF WentOn, t, p, rest
  <2>. QED  BY <2>2, <2>3
<1>12. t.k \in {"offer", "remote offer", "answer", "remote answer"}
  BY <1>1 DEF Waits
<1>. QED  BY <1>7, <1>8, <1>9, <1>10, <1>11, <1>12

\* Every step keeps the types, and processes and sessions with their owners.
LEMMA TypesOfClicks ==
  ASSUME VoiceTypes, Owned, NEW u \in Members, crowd' = crowd,
         ClicksJoin(u) \/ ClicksLeave(u)
  PROVE  VoiceTypes' /\ Owned'
<1>1. Teardown(u) /\ UNCHANGED <<news, clock, conns, crossed>>
  BY DEF ClicksJoin, ClicksLeave
<1>2. hasty' \subseteq Members
  BY DEF ClicksJoin, ClicksLeave, Clicked, VoiceTypes
<1>3. bar' \in [Members -> [joined : BOOLEAN, muted : BOOLEAN]]
  <2>1. Bar(TRUE, FALSE) \in [joined : BOOLEAN, muted : BOOLEAN]
        /\ Bar(FALSE, FALSE) \in [joined : BOOLEAN, muted : BOOLEAN]
    BY DEF Bar
  <2>2. bar' = [bar EXCEPT ![u] = Bar(TRUE, FALSE)] \/ bar' = [bar EXCEPT ![u] = Bar(FALSE, FALSE)]
    BY DEF ClicksJoin, ClicksLeave
  <2>. QED  BY <2>1, <2>2 DEF VoiceTypes
<1>4. awaiting' \in [Members -> Nat]
  <2>1. awaiting' = [awaiting EXCEPT ![u] = @ + 1] \/ awaiting' = awaiting
    BY DEF ClicksJoin, ClicksLeave
  <2>2. awaiting \in [Members -> Nat] /\ awaiting[u] + 1 \in Nat
    BY DEF VoiceTypes
  <2>. QED  BY <2>1, <2>2
<1>5. toView' \in [Members -> Seq(Words)]
  <2>1. [t |-> "left"] \in Words
    BY DEF Words
  <2>. QED  BY <2>1, Told DEF ClicksJoin, ClicksLeave, VoiceTypes
<1>. QED  BY <1>1, <1>2, <1>3, <1>4, <1>5, TornDown, TornDownOwned DEF VoiceTypes

LEMMA TypesOfMute ==
  ASSUME VoiceTypes, Owned, NEW u \in Members, crowd' = crowd, ClicksMute(u)
  PROVE  /\ VoiceTypes' /\ Owned' /\ session'[u] # NoSession
         /\ session'[u] = [session[u] EXCEPT !.muted = ~session[u].muted]
         /\ toView'[u] = Append(toView[u], [t |-> "muted", muted |-> ~session[u].muted])
         /\ \A w \in Members \ {u} : session'[w] = session[w] /\ toView'[w] = toView[w]
<1> DEFINE m == ~session[u].muted
           s == [session[u] EXCEPT !.muted = m]
<1>1. session[u] \in Sessions /\ m \in BOOLEAN
  BY SessionFacts DEF ClicksMute, Sessions
<1>2. s \in Sessions /\ s.pid = session[u].pid
  BY <1>1 DEF Sessions
<1>3. session' = [session EXCEPT ![u].muted = m]
  BY DEF ClicksMute
<1>4. /\ session' \in [Members -> {NoSession} \cup Sessions]
      /\ session'[u] = s
      /\ \A w \in Members \ {u} : session'[w] = session[w]
  BY <1>2, <1>3 DEF VoiceTypes
<1>5. [t |-> "muted", muted |-> m] \in Words
  BY <1>1 DEF Words
<1>6. Tell(u, [t |-> "muted", muted |-> m])
  BY DEF ClicksMute
<1>7. /\ toView' \in [Members -> Seq(Words)]
      /\ toView'[u] = Append(toView[u], [t |-> "muted", muted |-> m])
      /\ \A w \in Members \ {u} : toView'[w] = toView[w]
  BY <1>5, <1>6, Told
<1>8. VoiceTypes'
  BY <1>4, <1>7 DEF ClicksMute, VoiceTypes
<1>9. Owned'
  <2>1. proc' = proc
    BY DEF ClicksMute
  <2>2. \A w \in Members : session'[w] # NoSession => session'[w].pid[1] = w
    BY <1>2, <1>4 DEF Owned, ClicksMute
  <2>. QED  BY <2>1, <2>2 DEF Owned
<1>. QED  BY <1>2, <1>4, <1>7, <1>8, <1>9, RealSession

LEMMA Hearing ==
  ASSUME VoiceTypes, NEW u \in Members, ViewHears(u)
  PROVE  LET e == toView[u][1]
         IN  /\ e \in Words /\ toView[u] # <<>> /\ toView' = [toView EXCEPT ![u] = Tail(toView[u])]
             /\ Tail(toView[u]) \in Seq(Words)
             /\ bar' \in [Members -> [joined : BOOLEAN, muted : BOOLEAN]]
             /\ e.t \in {"left", "error"} => ~bar'[u].joined
             /\ e.t = "rejoined" => bar'[u].joined /\ bar'[u].muted = e.muted
             /\ e.t = "muted" => bar'[u].joined = bar[u].joined /\ bar'[u].muted = e.muted
             /\ e.t \in {"left", "error", "rejoined", "muted"}
             /\ \A w \in Members \ {u} : bar'[w] = bar[w]
<1>1. toView[u] \in Seq(Words) /\ toView[u] # <<>> /\ bar[u] \in [joined : BOOLEAN, muted : BOOLEAN]
  BY DEF VoiceTypes, ViewHears
<1> DEFINE e == toView[u][1]
           b == CASE e.t \in {"left", "error"} -> Bar(FALSE, FALSE)
                  [] e.t = "rejoined" -> Bar(TRUE, e.muted)
                  [] e.t = "muted" -> [bar[u] EXCEPT !.muted = e.muted]
<1>2. e \in Words /\ e = Head(toView[u]) /\ Tail(toView[u]) \in Seq(Words)
  BY <1>1, Shortened
<1>3. e.t \in {"left", "error", "rejoined", "muted"}
      /\ (e.t \in {"rejoined", "muted"} => e.muted \in BOOLEAN)
  BY <1>2 DEF Words
<1>4. b \in [joined : BOOLEAN, muted : BOOLEAN]
      /\ (e.t \in {"left", "error"} => ~b.joined)
      /\ (e.t = "rejoined" => b.joined /\ b.muted = e.muted)
      /\ (e.t = "muted" => b.joined = bar[u].joined /\ b.muted = e.muted)
  <2>1. CASE e.t \in {"left", "error"}
    BY <2>1 DEF Bar
  <2>2. CASE e.t = "rejoined"
    BY <1>3, <2>2 DEF Bar
  <2>3. CASE e.t = "muted"
    BY <1>1, <1>3, <2>3
  <2>. QED  BY <1>3, <2>1, <2>2, <2>3
<1>5. bar' = [bar EXCEPT ![u] = b] /\ toView' = [toView EXCEPT ![u] = Tail(toView[u])]
  BY <1>2 DEF ViewHears, VoiceTypes
<1> HIDE DEF b
<1>. QED  BY <1>1, <1>2, <1>3, <1>4, <1>5 DEF VoiceTypes

LEMMA TypesOfView ==
  ASSUME VoiceTypes, Owned, NEW u \in Members, crowd' = crowd,
         ViewHears(u) \/ ViewRemounts(u)
  PROVE  VoiceTypes' /\ Owned'
<1>1. CASE ViewHears(u)
  <2>1. UNCHANGED <<awaiting, session, task, proc, inbox, news, clock, conns, hasty, crossed>>
    BY <1>1 DEF ViewHears
  <2>2. toView' \in [Members -> Seq(Words)]
        /\ bar' \in [Members -> [joined : BOOLEAN, muted : BOOLEAN]]
    BY <1>1, Hearing DEF VoiceTypes
  <2>. QED  BY <2>1, <2>2 DEF VoiceTypes, Owned
<1>2. CASE ViewRemounts(u)
  <2>1. Rejoined(u) \in Seq(Words)
    <3>1. CASE session[u] = NoSession
      BY <3>1 DEF Rejoined
    <3>2. CASE session[u] # NoSession
      <4>1. [t |-> "rejoined", muted |-> session[u].muted] \in Words
        BY <3>2, SessionFacts DEF Words, Sessions
      <4>. QED  BY <3>2, <4>1 DEF Rejoined
    <3>. QED  BY <3>1, <3>2
  <2>2. toView' \in [Members -> Seq(Words)]
    BY <1>2, <2>1 DEF ViewRemounts, VoiceTypes
  <2>3. bar' \in [Members -> [joined : BOOLEAN, muted : BOOLEAN]] /\ hasty' \subseteq Members
    BY <1>2 DEF ViewRemounts, VoiceTypes, Bar, Clicked
  <2>4. UNCHANGED <<awaiting, session, task, proc, inbox, news, clock, conns, crossed>>
    BY <1>2 DEF ViewRemounts
  <2>. QED  BY <2>2, <2>3, <2>4 DEF VoiceTypes, Owned
<1>. QED  BY <1>1, <1>2

\* A process that starts, and its session.
Starts(u, i) ==
    /\ i \in Pids /\ i[1] = u /\ proc[i] = Unstarted
    /\ proc' = [proc EXCEPT ![i] = [user |-> u, st |-> "joining", at |-> 0, open |-> TRUE]]
    /\ session' = [session EXCEPT ![u] =
          [pid |-> i, joined |-> FALSE, at |-> Infinity, muted |-> FALSE, peer |-> Unpeered]]
    /\ awaiting' = [awaiting EXCEPT ![u] = @ - 1] /\ awaiting[u] > 0
    /\ UNCHANGED <<bar, toView, task, inbox, news, clock, conns, hasty, crossed>>

LEMMA TypesOfStart ==
  ASSUME VoiceTypes, Owned, NEW u \in Members, crowd' = crowd, GetsMicrophone(u)
  PROVE  VoiceTypes' /\ Owned' /\ \E i \in Pids : Starts(u, i)
<1>1. PICK i \in {u} \X (1 .. MaxSessions) :
        /\ proc[i] = Unstarted
        /\ proc' = [proc EXCEPT ![i] = [user |-> u, st |-> "joining", at |-> 0, open |-> TRUE]]
        /\ session' = [session EXCEPT ![u] =
             [pid |-> i, joined |-> FALSE, at |-> Infinity, muted |-> FALSE, peer |-> Unpeered]]
  BY DEF GetsMicrophone
<1>2. i \in Pids /\ i[1] = u
  BY <1>1 DEF Pids
<1>3. /\ [user |-> u, st |-> "joining", at |-> 0, open |-> TRUE] \in Processes
      /\ [pid |-> i, joined |-> FALSE, at |-> Infinity, muted |-> FALSE, peer |-> Unpeered]
           \in Sessions
  BY <1>2 DEF Processes, Sessions, Infinity
<1>4. awaiting' \in [Members -> Nat]
  BY DEF GetsMicrophone, VoiceTypes
<1>5. VoiceTypes'
  BY <1>1, <1>2, <1>3, <1>4 DEF GetsMicrophone, VoiceTypes
<1>6. Owned'
  <2>1. ASSUME NEW j \in Pids PROVE proc'[j] = Unstarted \/ proc'[j].user = j[1]
    <3>1. CASE j = i
      BY <1>1, <1>2, <3>1 DEF VoiceTypes
    <3>2. CASE j # i
      BY <1>1, <3>2 DEF VoiceTypes, Owned
    <3>. QED  BY <3>1, <3>2
  <2>2. ASSUME NEW w \in Members, session'[w] # NoSession PROVE session'[w].pid[1] = w
    <3>1. CASE w = u
      BY <1>1, <1>2, <3>1 DEF VoiceTypes
    <3>2. CASE w # u
      BY <1>1, <2>2, <3>2 DEF VoiceTypes, Owned
    <3>. QED  BY <3>1, <3>2
  <2>. QED  BY <2>1, <2>2 DEF Owned
<1>. QED  BY <1>1, <1>2, <1>5, <1>6 DEF Starts, GetsMicrophone

LEMMA TypesOfFailure ==
  ASSUME VoiceTypes, Owned, NEW u \in Members, crowd' = crowd, GetsNoMicrophone(u)
  PROVE  VoiceTypes' /\ Owned' /\ toView'[u] = Append(toView[u], [t |-> "error"])
         /\ \A w \in Members \ {u} : toView'[w] = toView[w]
<1>1. [t |-> "error"] \in Words
  BY DEF Words
<1>2. awaiting' \in [Members -> Nat]
  BY DEF GetsNoMicrophone, VoiceTypes
<1>. QED  BY <1>1, <1>2, Told DEF GetsNoMicrophone, VoiceTypes, Owned

LEMMA Statuses ==
  ASSUME VoiceTypes, Owned, NEW i \in Pids,
         NEW st \in {"joining", "stamped", "tracked", "present", "gone"}, NEW t \in Nat,
         proc[i].open \/ proc[i].st # "gone",
         proc' = [proc EXCEPT ![i].st = st] \/ proc' = [proc EXCEPT ![i].st = st, ![i].at = t]
  PROVE  /\ proc' \in [Pids -> Processes]
         /\ proc'[i].st = st /\ proc'[i].user = i[1] /\ proc'[i].open = proc[i].open
         /\ \A j \in Pids \ {i} : proc'[j] = proc[j]
         /\ \A j \in Pids : proc'[j] = Unstarted \/ proc'[j].user = j[1]
<1>1. proc[i] \in Processes /\ proc[i].user = i[1]
  BY StartedProcess DEF VoiceTypes
<1>2. proc'[i] = [proc[i] EXCEPT !.st = st] \/ proc'[i] = [proc[i] EXCEPT !.st = st, !.at = t]
  BY DEF VoiceTypes
<1>3. /\ proc'[i] \in Processes /\ proc'[i].st = st /\ proc'[i].user = i[1]
      /\ proc'[i].open = proc[i].open
  BY <1>1, <1>2 DEF Processes
<1>4. \A j \in Pids \ {i} : proc'[j] = proc[j]
  BY DEF VoiceTypes
<1>5. DOMAIN proc' = Pids /\ proc' = [j \in Pids |-> proc'[j]]
  BY DEF VoiceTypes
<1>6. \A j \in Pids : proc'[j] \in Processes
  BY <1>3, <1>4 DEF VoiceTypes
<1>. QED  BY <1>3, <1>4, <1>5, <1>6 DEF Owned

\* The process of a channel answers the join, tracks itself, lists, and ends.
LEMMA TypesOfAnswer ==
  ASSUME VoiceTypes, Owned, NEW i \in Pids, crowd' = crowd, Authorizes(i)
  PROVE  /\ VoiceTypes' /\ Owned' /\ proc[i].user = i[1] /\ proc'[i].user = i[1] /\ proc'[i].open
         /\ \A j \in Pids \ {i} : proc'[j] = proc[j]
         /\ IF i[1] \in Occupants
            THEN /\ proc'[i].st = "gone" /\ session' = session
                 /\ inbox' = [inbox EXCEPT ![i] = Append(@, [t |-> "refused"])]
            ELSE /\ proc'[i].st = "stamped" /\ inbox' = inbox
                 /\ \A w \in Members \ {i[1]} : session'[w] = session[w]
                 /\ IF session[i[1]].pid = i
                    THEN session'[i[1]] = [session[i[1]] EXCEPT !.joined = TRUE]
                         /\ session'[i[1]] # NoSession /\ session'[i[1]] \in Sessions
                    ELSE session' = session
<1> DEFINE u == i[1]
<1>1. proc[i].st = "joining" /\ proc[i].open /\ proc[i].user = u /\ u \in Members
  BY StartedProcess DEF Authorizes
<1>2. UNCHANGED <<bar, toView, awaiting, task, news, conns, hasty, crossed, turns>>
  BY DEF Authorizes
<1>3. CASE u \in Occupants
  <2>1. /\ proc' = [proc EXCEPT ![i].st = "gone"] /\ UNCHANGED <<session, clock>>
        /\ inbox' = [inbox EXCEPT ![i] = Append(@, [t |-> "refused"])]
    BY <1>1, <1>3 DEF Authorizes, At, Pushes
  <2>2. [t |-> "refused"] \in Pushed
    BY DEF Pushed
  <2>3. inbox' \in [Pids -> Seq(Pushed)]
    BY <2>1, <2>2, Appended DEF VoiceTypes
  <2>4. /\ proc' \in [Pids -> Processes]
        /\ proc'[i].st = "gone" /\ proc'[i].open = proc[i].open /\ proc'[i].user = u
        /\ \A j \in Pids \ {i} : proc'[j] = proc[j]
        /\ \A j \in Pids : proc'[j] = Unstarted \/ proc'[j].user = j[1]
    BY <1>1, <2>1, Statuses
  <2>. QED  BY <1>1, <1>2, <1>3, <2>1, <2>3, <2>4 DEF VoiceTypes, Owned
<1>4. CASE u \notin Occupants
  <2>1. /\ clock' \in {clock} \cup {proc[j].at + 1 : j \in {k \in Pids :
                               proc[k].st \notin {"gone", "joining"} /\ proc[k].at = clock}}
        /\ proc' = [proc EXCEPT ![i].st = "stamped", ![i].at = clock']
        /\ session' = IF session[u].pid = i THEN [session EXCEPT ![u].joined = TRUE] ELSE session
        /\ inbox' = inbox
    BY <1>1, <1>4 DEF Authorizes
  <2>2. clock' \in Nat
    <3>1. \A j \in Pids : proc[j].at \in Nat
      BY DEF VoiceTypes, Processes
    <3>. QED  BY <2>1, <3>1 DEF VoiceTypes
  <2>3. /\ proc' \in [Pids -> Processes]
        /\ proc'[i].st = "stamped" /\ proc'[i].open = proc[i].open /\ proc'[i].user = u
        /\ \A j \in Pids \ {i} : proc'[j] = proc[j]
        /\ \A j \in Pids : proc'[j] = Unstarted \/ proc'[j].user = j[1]
    BY <1>1, <2>1, <2>2, Statuses
  <2>4. CASE session[u].pid = i
    <3>1. session[u] # NoSession
      BY <2>4, RealSession
    <3>2. session[u] \in Sessions /\ [session[u] EXCEPT !.joined = TRUE] \in Sessions
          /\ [session[u] EXCEPT !.joined = TRUE].pid = i
      <4>1. session[u] \in Sessions
        BY <1>1, <3>1, SessionFacts
      <4>. QED  BY <2>4, <4>1 DEF Sessions
    <3>3. session'[u] = [session[u] EXCEPT !.joined = TRUE]
          /\ session' \in [Members -> {NoSession} \cup Sessions]
          /\ \A w \in Members \ {u} : session'[w] = session[w]
      <4>1. session \in [Members -> {NoSession} \cup Sessions]
        BY DEF VoiceTypes
      <4>. QED  BY <1>1, <2>1, <2>4, <3>2, <4>1
    <3>4. \A w \in Members : session'[w] # NoSession => session'[w].pid[1] = w
      <4> SUFFICES ASSUME NEW w \in Members, session'[w] # NoSession PROVE session'[w].pid[1] = w
        OBVIOUS
      <4>1. w # u => session'[w] = session[w]
        BY <3>3
      <4>2. w = u => session'[w].pid = i
        BY <3>2, <3>3
      <4>. QED  BY <4>1, <4>2 DEF Owned
    <3>5. VoiceTypes'
      BY <1>2, <2>1, <2>2, <2>3, <3>3 DEF VoiceTypes
    <3>6. Owned'
      BY <2>3, <3>4 DEF Owned
    <3>7. session'[u] # NoSession /\ session'[u] \in Sessions
      BY <3>2, <3>3, RealSession
    <3>8. proc[i].user = u /\ proc'[i].open
      BY <1>1, <2>3
    <3>. QED  BY <1>4, <2>1, <2>3, <2>4, <3>3, <3>5, <3>6, <3>7, <3>8
  <2>5. CASE session[u].pid # i
    <3>1. session' = session
      BY <2>1, <2>5
    <3>2. VoiceTypes'
      BY <1>2, <2>1, <2>2, <2>3, <3>1 DEF VoiceTypes
    <3>3. Owned'
      BY <2>3, <3>1 DEF Owned
    <3>. QED  BY <1>1, <1>4, <2>1, <2>3, <2>5, <3>1, <3>2, <3>3
  <2>. QED  BY <2>4, <2>5
<1>. QED  BY <1>3, <1>4

Listing == {[user |-> proc[j].user, at |-> proc[j].at] : j \in {k \in Pids : Tracked(proc[k].st)}}

LEMMA TypesOfProcess ==
  ASSUME VoiceTypes, Owned, NEW i \in Pids, crowd' = crowd,
         Tracks(i) \/ Lists(i) \/ Ends(i)
  PROVE  /\ VoiceTypes' /\ Owned'
         /\ proc[i].user = i[1] /\ proc'[i].user = i[1] /\ proc'[i].open = proc[i].open
         /\ proc'[i].at = proc[i].at
         /\ \A j \in Pids \ {i} : proc'[j] = proc[j]
         /\ Tracks(i) => proc'[i].st = "tracked" /\ news' = Append(news, Diff("join", i))
                         /\ inbox' = inbox
         /\ Lists(i) => proc'[i].st = "present" /\ news' = news
               /\ inbox' = IF proc[i].open
                           THEN [inbox EXCEPT ![i] = Append(@, [t |-> "state", list |-> Listing])]
                           ELSE inbox
         /\ Ends(i) => proc'[i].st = "gone" /\ inbox' = inbox
               /\ news' = IF Tracked(proc[i].st) THEN Append(news, Diff("leave", i)) ELSE news
         /\ Diff("join", i) \in Diffs /\ Diff("leave", i) \in Diffs
         /\ [t |-> "state", list |-> Listing] \in Pushed
<1>1. proc[i].st # "gone" /\ proc[i].user = i[1] /\ i[1] \in Members /\ proc[i].at \in Nat
  BY StartedProcess DEF Tracks, Lists, Ends, VoiceTypes, Processes
<1>2. Diff("join", i) \in Diffs /\ Diff("leave", i) \in Diffs
  BY <1>1 DEF Diff, Diffs
<1>3. [t |-> "state", list |-> Listing] \in Pushed
  <2>1. \A j \in Pids : Tracked(proc[j].st) => proc[j].user \in Members /\ proc[j].at \in Nat
    BY StartedProcess DEF Tracked, VoiceTypes, Processes
  <2>2. Listing \in SUBSET Entries
    BY <2>1 DEF Listing, Entries
  <2>. QED  BY <2>2 DEF Pushed
<1>4. UNCHANGED <<bar, toView, awaiting, session, task, clock, conns, hasty, crossed, turns>>
  BY DEF Tracks, Lists, Ends
<1>5. \A st \in {"tracked", "present", "gone"} : proc' = [proc EXCEPT ![i].st = st] =>
         /\ proc' \in [Pids -> Processes]
         /\ proc'[i].st = st /\ proc'[i].user = i[1] /\ proc'[i].open = proc[i].open
         /\ proc'[i].at = proc[i].at
         /\ \A j \in Pids \ {i} : proc'[j] = proc[j]
         /\ Owned'
  <2> SUFFICES ASSUME NEW st \in {"tracked", "present", "gone"}, proc' = [proc EXCEPT ![i].st = st]
               PROVE  /\ proc' \in [Pids -> Processes]
                      /\ proc'[i].st = st /\ proc'[i].user = i[1] /\ proc'[i].open = proc[i].open
                      /\ proc'[i].at = proc[i].at
                      /\ \A j \in Pids \ {i} : proc'[j] = proc[j]
                      /\ Owned'
    OBVIOUS
  <2>1. /\ proc' \in [Pids -> Processes]
        /\ proc'[i].st = st /\ proc'[i].user = i[1] /\ proc'[i].open = proc[i].open
        /\ \A j \in Pids \ {i} : proc'[j] = proc[j]
        /\ \A j \in Pids : proc'[j] = Unstarted \/ proc'[j].user = j[1]
    BY <1>1, Statuses
  <2>2. proc'[i].at = proc[i].at
    BY DEF VoiceTypes, Processes
  <2>. QED  BY <1>4, <2>1, <2>2 DEF Owned
<1>6. CASE Tracks(i)
  <2>2. news' \in Seq(Diffs)
    BY <1>2, <1>6, Appended DEF VoiceTypes, Tracks
  <2>3. proc' = [proc EXCEPT ![i].st = "tracked"] /\ inbox' = inbox
        /\ news' = Append(news, Diff("join", i)) /\ proc[i].st = "stamped"
    BY <1>6 DEF Tracks, At
  <2>4. proc'[i].st = "tracked"
    BY <1>5, <2>3
  <2>5. ~Lists(i) /\ ~Ends(i)
    BY <1>5, <2>3, <2>4 DEF Lists, Ends, At
  <2>. QED  BY <1>1, <1>2, <1>3, <1>4, <1>5, <2>2, <2>3, <2>5 DEF VoiceTypes
<1>7. CASE Lists(i)
  <2>1. proc' = [proc EXCEPT ![i].st = "present"] /\ news' = news /\ proc[i].st = "tracked"
        /\ inbox' = IF proc[i].open
                    THEN [inbox EXCEPT ![i] = Append(@, [t |-> "state", list |-> Listing])]
                    ELSE inbox
    BY <1>7 DEF Lists, At, Pushes, Listing
  <2>2. inbox' \in [Pids -> Seq(Pushed)]
    BY <1>3, <2>1, Appended DEF VoiceTypes
  <2>3. proc'[i].st = "present"
    BY <1>5, <2>1
  <2>4. ~Tracks(i) /\ ~Ends(i)
    BY <1>5, <2>1, <2>3 DEF Tracks, Ends, At
  <2>. QED  BY <1>1, <1>2, <1>3, <1>4, <1>5, <2>1, <2>2, <2>4 DEF VoiceTypes
<1>8. CASE Ends(i)
  <2>1. proc' = [proc EXCEPT ![i].st = "gone"] /\ inbox' = inbox
        /\ news' = IF Tracked(proc[i].st) THEN Append(news, Diff("leave", i)) ELSE news
    BY <1>8 DEF Ends, At
  <2>2. news' \in Seq(Diffs)
    BY <1>2, <2>1, Appended DEF VoiceTypes
  <2>3. proc'[i].st = "gone"
    BY <1>5, <2>1
  <2>4. ~Tracks(i) /\ ~Lists(i)
    BY <1>5, <2>3 DEF Tracks, Lists, At
  <2>. QED  BY <1>1, <1>2, <1>3, <1>4, <1>5, <2>1, <2>2, <2>4 DEF VoiceTypes
<1>. QED  BY <1>6, <1>7, <1>8

LEMMA TypesOfNews ==
  ASSUME VoiceTypes, Owned, crowd' = crowd, NewsSpreads
  PROVE  /\ VoiceTypes' /\ Owned' /\ news # <<>> /\ news[1] \in Diffs /\ 1 \in DOMAIN news
         /\ news' = Tail(news) /\ Head(news) = news[1]
         /\ \A i \in Pids : inbox'[i] = IF Listens(i) THEN Append(inbox[i], news[1]) ELSE inbox[i]
<1>1. /\ news \in Seq(Diffs) /\ news # <<>> /\ news' = Tail(news)
      /\ inbox' = [i \in Pids |-> IF Listens(i) THEN Append(inbox[i], Head(news)) ELSE inbox[i]]
      /\ UNCHANGED <<bar, toView, awaiting, session, task, proc, clock, conns, hasty, crossed, turns>>
  BY DEF NewsSpreads, VoiceTypes
<1>2. news[1] \in Diffs /\ 1 \in DOMAIN news /\ Head(news) = news[1] /\ Tail(news) \in Seq(Diffs)
  BY <1>1, Shortened
<1>3. \A i \in Pids : inbox[i] \in Seq(Pushed) /\ Append(inbox[i], news[1]) \in Seq(Pushed)
  <2>1. news[1] \in Pushed
    BY <1>2 DEF Pushed
  <2>. QED  BY <2>1, Appended DEF VoiceTypes
<1>4. inbox' \in [Pids -> Seq(Pushed)]
  BY <1>1, <1>2, <1>3
<1>. QED  BY <1>1, <1>2, <1>4 DEF VoiceTypes, Owned

LEMMA GoesOnOwned ==
  ASSUME Owned, NEW u \in Members, session[u] # NoSession, SessionGoesOn(u)
  PROVE  \A w \in Members : session'[w] # NoSession => session'[w].pid[1] = w
<1> SUFFICES ASSUME NEW w \in Members, session'[w] # NoSession PROVE session'[w].pid[1] = w
  OBVIOUS
<1>1. session'[w] = session[w] \/ (w = u /\ session'[w].pid = session[w].pid)
  BY DEF SessionGoesOn
<1>. QED  BY <1>1 DEF Owned

LEMMA TypesOfReceiving ==
  ASSUME VoiceTypes, Owned, NEW i \in Pids, crowd' = crowd, Receives(i)
  PROVE  VoiceTypes' /\ Owned'
<1> DEFINE u == i[1]
           m == inbox[i][1]
<1>1. /\ proc[i].open /\ proc[i].user = u /\ u \in Members /\ inbox[i] # <<>>
      /\ 1 \in DOMAIN inbox[i] /\ m \in Pushed
      /\ IF m.t = "refused" THEN Refused(u, i) ELSE HandledBy(u, i, m)
      /\ crossed' \in {crossed, crossed \cup {u}}
      /\ UNCHANGED <<bar, awaiting, news, clock, hasty, turns>>
  BY Receiving
<1>2. CASE m.t = "refused"
  <2>1. Refused(u, i)
    BY <1>1, <1>2
  <2>2. [t |-> "error"] \in Words /\ <<>> \in Seq(Waits) /\ <<>> \in Seq(Pushed)
    BY DEF Words
  <2>3. toView' \in [Members -> Seq(Words)]
    BY <1>1, <2>1, <2>2, Told DEF Refused
  <2>4. \A j \in Pids : [proc[j] EXCEPT !.open = FALSE] \in Processes
                        /\ [proc[j] EXCEPT !.open = FALSE].user = proc[j].user
    BY DEF VoiceTypes, Processes
  <2>5. proc' \in [Pids -> Processes] /\ inbox' \in [Pids -> Seq(Pushed)]
    BY <2>1, <2>2, <2>4 DEF Refused, VoiceTypes
  <2>6. session' \in [Members -> {NoSession} \cup Sessions] /\ task' \in [Members -> Seq(Waits)]
    BY <2>1, <2>2 DEF Refused, VoiceTypes
  <2>7. VoiceTypes'
    BY <1>1, <2>1, <2>3, <2>5, <2>6 DEF Refused, VoiceTypes
  <2>8. ASSUME NEW j \in Pids PROVE proc'[j] = Unstarted \/ proc'[j].user = j[1]
    <3>1. proc[j] \in Processes /\ (proc[j] = Unstarted \/ proc[j].user = j[1])
      BY DEF VoiceTypes, Owned
    <3>2. proc'[j] = proc[j] \/ proc'[j] = [proc[j] EXCEPT !.open = FALSE]
      BY <2>1 DEF Refused
    <3>3. Unstarted.open = FALSE
          /\ \A p \in Processes : p.open = FALSE => [p EXCEPT !.open = FALSE] = p
      BY DEF Unstarted, Processes
    <3>. QED  BY <2>4, <3>1, <3>2, <3>3
  <2>9. \A w \in Members : session'[w] # NoSession => session'[w].pid[1] = w
    BY <2>1 DEF Refused, Owned, VoiceTypes
  <2>. QED  BY <2>7, <2>8, <2>9 DEF Owned
<1>3. CASE m.t # "refused"
  <2>1. HandledBy(u, i, m)
    BY <1>1, <1>3
  <2>2. inbox[i] \in Seq(Pushed) /\ Tail(inbox[i]) \in Seq(Pushed)
    BY <1>1, Shortened DEF VoiceTypes
  <2>3. inbox' \in [Pids -> Seq(Pushed)]
    BY <2>1, <2>2 DEF HandledBy, VoiceTypes
  <2>4. /\ session' \in [Members -> {NoSession} \cup Sessions] /\ task' \in [Members -> Seq(Waits)]
        /\ conns' \in [Members -> Nat]
    BY <2>1 DEF HandledBy, SessionGoesOn, VoiceTypes
  <2>5. VoiceTypes'
    <3>1. proc' = proc /\ toView' = toView
      BY <2>1 DEF HandledBy
    <3>2. crossed' \subseteq Members
      BY <1>1 DEF VoiceTypes
    <3>. QED  BY <1>1, <2>3, <2>4, <3>1, <3>2 DEF VoiceTypes
  <2>6. \A w \in Members : session'[w] # NoSession => session'[w].pid[1] = w
    <3>1. CASE session[u] = NoSession
      BY <2>1, <3>1 DEF HandledBy, Owned
    <3>2. CASE session[u] # NoSession
      BY <1>1, <2>1, <3>2, GoesOnOwned DEF HandledBy
    <3>. QED  BY <3>1, <3>2
  <2>. QED  BY <2>1, <2>5, <2>6 DEF Owned, HandledBy
<1>. QED  BY <1>2, <1>3

LEMMA TypesOfNegotiation ==
  ASSUME VoiceTypes, Owned, NEW u \in Members, NEW n \in DOMAIN task[u], crowd' = crowd,
         session[u] # NoSession, Negotiates(u, n)
  PROVE  VoiceTypes' /\ Owned'
<1>1. /\ SessionGoesOn(u) /\ WentOn(u, n) /\ session[u].peer \in Links
      /\ UNCHANGED <<bar, toView, awaiting, proc, news, clock, conns, hasty, crossed, turns>>
  BY GoingOn
<1>2. inbox' \in [Pids -> Seq(Pushed)]
  <2>1. session[u].peer.conn \in Conns
    BY <1>1, LinkNotNone
  <2>2. Desc("offer", session[u].peer.conn) \in Descriptions /\ Desc("answer", session[u].peer.conn) \in Descriptions
    BY <2>1 DEF Desc, Descriptions
  <2>3. inbox' \in {inbox, Signalled(inbox, u, Desc("offer", session[u].peer.conn)),
                   Signalled(inbox, u, Desc("answer", session[u].peer.conn))}
    BY <1>1 DEF WentOn
  <2>4. /\ Signalled(inbox, u, Desc("offer", session[u].peer.conn)) \in [Pids -> Seq(Pushed)]
        /\ Signalled(inbox, u, Desc("answer", session[u].peer.conn)) \in [Pids -> Seq(Pushed)]
    BY <2>2, SignalTypes
  <2>. QED  BY <2>3, <2>4 DEF VoiceTypes
<1>3. \A w \in Members : session'[w] # NoSession => session'[w].pid[1] = w
  BY <1>1, GoesOnOwned
<1>. QED  BY <1>1, <1>2, <1>3 DEF SessionGoesOn, VoiceTypes, Owned

LEMMA TypesKept ==
  ASSUME VoiceTypes, Owned, [VoiceNext]_voiceVars
  PROVE  VoiceTypes' /\ Owned'
<1>1. CASE UNCHANGED voiceVars
  BY <1>1 DEF voiceVars, VoiceTypes, Owned
<1>2. CASE VoiceNext
  BY <1>2, TypesOfClicks, TypesOfMute, TypesOfView, TypesOfStart, TypesOfFailure, TypesOfAnswer,
     TypesOfProcess, TypesOfNews, TypesOfReceiving, TypesOfNegotiation DEF VoiceNext
<1>. QED  BY <1>1, <1>2

-----------------------------------------------------------------------------
(* VoiceMesh: the bar *)

LEMMA RefusalFrame ==
  ASSUME NEW w \in Members, NothingRefused(w),
         \A i \in Pids : proc'[i].user = w =>
            /\ proc[i].user = w /\ (proc'[i].st = proc[i].st \/ proc'[i].st # "joining")
            /\ \A n \in DOMAIN inbox'[i] :
                  \/ inbox'[i][n].t # "refused"
                  \/ \E k \in DOMAIN inbox[i] : inbox'[i][n] = inbox[i][k]
  PROVE  NothingRefused(w)'
BY DEF NothingRefused

LEMMA BarFrame ==
  ASSUME NEW w \in Members, BarFollows(w), awaiting'[w] = awaiting[w],
         toView'[w] = toView[w], bar'[w] = bar[w],
         session'[w] = NoSession <=> session[w] = NoSession,
         session[w] # NoSession => session'[w].muted = session[w].muted,
         NothingRefused(w) /\ awaiting[w] > 0 => NothingRefused(w)'
  PROVE  BarFollows(w)'
BY DEF BarFollows

LEMMA RefusalUnderTeardown ==
  ASSUME VoiceTypes, Owned, NEW u \in Members, NEW w \in Members, Teardown(u), NothingRefused(w)
  PROVE  NothingRefused(w)'
<1>1. ASSUME NEW i \in Pids, proc'[i].user = w
      PROVE  /\ proc[i].user = w /\ proc'[i].st = proc[i].st
             /\ inbox'[i] = inbox[i] \/ inbox'[i] = <<>>
  <2>1. proc'[i] = proc[i] \/ proc'[i] = [proc[i] EXCEPT !.open = FALSE]
    BY TornDown
  <2>2. proc[i] \in Processes
    BY DEF VoiceTypes
  <2>3. inbox'[i] = inbox[i] \/ inbox'[i] = <<>>
    BY TornDown
  <2>. QED  BY <1>1, <2>1, <2>2, <2>3 DEF Processes
<1>2. DOMAIN <<>> = {}
  OBVIOUS
<1>. QED  BY <1>1, <1>2 DEF NothingRefused

LEMMA BarOfJoin ==
  ASSUME VoiceTypes, Owned, NEW u \in Members, ClicksJoin(u), NEW w \in Members \ hasty',
         BarFollows(w)
  PROVE  BarFollows(w)'
<1>1. Teardown(u) /\ toView' = toView /\ session'[u] = NoSession
      /\ (w # u => session'[w] = session[w])
  BY TornDown DEF ClicksJoin
<1>2. bar' = [bar EXCEPT ![u] = Bar(TRUE, FALSE)] /\ awaiting' = [awaiting EXCEPT ![u] = @ + 1]
  BY DEF ClicksJoin
<1>3. CASE w = u
  <2>1. Settled(u)
    BY <1>3 DEF ClicksJoin, Clicked
  <2>2. NothingRefused(u)
    BY <2>1 DEF Settled, NothingRefused
  <2>3. awaiting'[u] = 1 /\ bar'[u] = Bar(TRUE, FALSE) /\ toView'[u] = <<>>
    BY <1>1, <1>2, <2>1 DEF Settled, VoiceTypes
  <2>. QED  BY <1>1, <1>3, <2>2, <2>3, RefusalUnderTeardown DEF BarFollows
<1>4. CASE w # u
  <2>1. bar'[w] = bar[w] /\ awaiting'[w] = awaiting[w]
    BY <1>2, <1>4 DEF VoiceTypes
  <2>. QED  BY <1>1, <1>4, <2>1, BarFrame, RefusalUnderTeardown
<1>. QED  BY <1>3, <1>4

LEMMA BarOfLeave ==
  ASSUME VoiceTypes, Owned, NEW u \in Members, ClicksLeave(u), NEW w \in Members \ hasty',
         BarFollows(w)
  PROVE  BarFollows(w)'
<1>1. Teardown(u) /\ session'[u] = NoSession /\ awaiting' = awaiting
      /\ (w # u => session'[w] = session[w])
  BY TornDown DEF ClicksLeave
<1>2. [t |-> "left"] \in Words
  BY DEF Words
<1>3. toView'[u] = Append(toView[u], [t |-> "left"]) /\ (w # u => toView'[w] = toView[w])
  BY <1>2, Told DEF ClicksLeave
<1>4. CASE w = u
  <2>1. Settled(u)
    BY <1>4 DEF ClicksLeave, Clicked
  <2>2. awaiting'[u] = 0
    BY <1>1, <2>1 DEF Settled
  <2>3. toView'[u] # <<>> /\ toView'[u][Len(toView'[u])] = [t |-> "left"]
    <3>1. toView[u] \in Seq(Words)
      BY DEF VoiceTypes
    <3>. QED  BY <1>2, <1>3, <3>1, Appended
  <2>. QED  BY <1>1, <1>4, <2>2, <2>3 DEF BarFollows
<1>5. CASE w # u
  <2>1. bar'[w] = bar[w]
    BY <1>5 DEF ClicksLeave, VoiceTypes
  <2>. QED  BY <1>1, <1>3, <1>5, <2>1, BarFrame, RefusalUnderTeardown
<1>. QED  BY <1>4, <1>5

LEMMA BarOfMute ==
  ASSUME VoiceTypes, Owned, NEW u \in Members, crowd' = crowd, ClicksMute(u),
         NEW w \in Members \ hasty', BarFollows(w)
  PROVE  BarFollows(w)'
<1> DEFINE m == ~session[u].muted
<1>1. /\ session[u] # NoSession /\ session'[u] # NoSession
      /\ session'[u] = [session[u] EXCEPT !.muted = m]
      /\ toView'[u] = Append(toView[u], [t |-> "muted", muted |-> m])
      /\ \A v \in Members \ {u} : session'[v] = session[v] /\ toView'[v] = toView[v]
      /\ UNCHANGED <<bar, awaiting, proc, inbox>>
  BY TypesOfMute DEF ClicksMute
<1>2. session'[u].muted = m /\ m \in BOOLEAN
  BY <1>1, SessionFacts DEF Sessions
<1>3. CASE w = u
  <2> DEFINE f == toView[u]
             e == [t |-> "muted", muted |-> m]
  <2>1. f \in Seq(Words) /\ e \in Words /\ toView'[u] = Append(f, e)
    BY <1>1, <1>2 DEF VoiceTypes, Words
  <2>2. /\ toView'[u] # <<>> /\ Len(toView'[u]) = Len(f) + 1
        /\ DOMAIN toView'[u] = DOMAIN f \cup {Len(f) + 1}
        /\ \A n \in DOMAIN f : toView'[u][n] = f[n]
        /\ toView'[u][Len(f) + 1] = e
    BY <2>1, Appended
  <2>3. ~(awaiting[u] > 0)
    BY <1>1, <1>3 DEF BarFollows
  <2>4. /\ \A n \in DOMAIN f : f[n].t \in {"rejoined", "muted"}
        /\ bar[u].joined \/ \E n \in DOMAIN f : f[n].t = "rejoined"
    BY <1>1, <1>3, <2>3 DEF BarFollows
  <2>5. e.t = "muted" /\ e.muted = m
    OBVIOUS
  <2> HIDE DEF e, f, m
  <2>6. \A n \in DOMAIN toView'[u] : toView'[u][n].t \in {"rejoined", "muted"}
    BY <2>2, <2>4, <2>5
  <2>7. bar'[u].joined \/ \E n \in DOMAIN toView'[u] : toView'[u][n].t = "rejoined"
    BY <1>1, <2>2, <2>4
  <2>8. session'[u].muted = toView'[u][Len(toView'[u])].muted
    BY <1>2, <2>2, <2>5
  <2>9. ~(awaiting'[u] > 0) /\ session'[u] # NoSession /\ toView'[u] # <<>>
    BY <1>1, <2>2, <2>3
  <2>. QED  BY <1>3, <2>6, <2>7, <2>8, <2>9 DEF BarFollows
<1>4. CASE w # u
  BY <1>1, <1>4, BarFrame DEF NothingRefused
<1>. QED  BY <1>3, <1>4

LEMMA BarHeard ==
  ASSUME VoiceTypes, Owned, NEW u \in Members, ViewHears(u), NEW w \in Members, BarFollows(w)
  PROVE  BarFollows(w)'
<1> DEFINE f == toView[u]
           e == f[1]
<1>1. UNCHANGED <<awaiting, session, proc, inbox>>
  BY DEF ViewHears
<1>2. /\ f # <<>> /\ toView' = [toView EXCEPT ![u] = Tail(f)]
      /\ e.t \in {"left", "error"} => ~bar'[u].joined
      /\ e.t = "rejoined" => bar'[u].joined /\ bar'[u].muted = e.muted
      /\ e.t = "muted" => bar'[u].joined = bar[u].joined /\ bar'[u].muted = e.muted
      /\ \A v \in Members \ {u} : bar'[v] = bar[v]
  BY Hearing
<1>3. CASE w = u
  <2>1. toView'[u] = Tail(f) /\ f \in Seq(Words)
    BY <1>2 DEF VoiceTypes
  <2>2. /\ 1 \in DOMAIN f
        /\ \A n \in DOMAIN Tail(f) : n + 1 \in DOMAIN f /\ Tail(f)[n] = f[n + 1]
        /\ \A n \in DOMAIN f :
              n \in Nat /\ n >= 1 /\ (n > 1 => n - 1 \in DOMAIN Tail(f) /\ Tail(f)[n - 1] = f[n])
        /\ Tail(f) = <<>> => Len(f) = 1
        /\ Tail(f) # <<>> => Tail(f)[Len(Tail(f))] = f[Len(f)]
    BY <1>2, <2>1, Shortened
  <2>3. ~(awaiting[u] > 0)
    BY <1>2, <1>3 DEF BarFollows
  <2>4. CASE session[u] = NoSession
    <3>1. f[Len(f)].t \in {"left", "error"}
      BY <1>2, <1>3, <2>3, <2>4 DEF BarFollows
    <3>2. IF Tail(f) = <<>> THEN ~bar'[u].joined ELSE Tail(f)[Len(Tail(f))].t \in {"left", "error"}
      BY <1>2, <2>2, <3>1
    <3>. QED  BY <1>1, <1>3, <2>1, <2>3, <2>4, <3>2 DEF BarFollows
  <2>5. CASE session[u] # NoSession
    <3>1. /\ \A n \in DOMAIN f : f[n].t \in {"rejoined", "muted"}
          /\ bar[u].joined \/ \E n \in DOMAIN f : f[n].t = "rejoined"
          /\ session[u].muted = f[Len(f)].muted
      BY <1>2, <1>3, <2>3, <2>5 DEF BarFollows
    <3>2. \A n \in DOMAIN Tail(f) : Tail(f)[n].t \in {"rejoined", "muted"}
      BY <2>2, <3>1
    <3>3. e.t \in {"rejoined", "muted"}
      BY <2>2, <3>1
    <3>4. bar'[u].joined \/ \E n \in DOMAIN Tail(f) : Tail(f)[n].t = "rejoined"
      <4>1. CASE e.t = "rejoined"
        BY <1>2, <4>1
      <4>2. CASE e.t = "muted" /\ bar[u].joined
        BY <1>2, <4>2
      <4>3. CASE e.t = "muted" /\ \E n \in DOMAIN f : f[n].t = "rejoined"
        <5>1. PICK n \in DOMAIN f : f[n].t = "rejoined"
          BY <4>3
        <5>2. n # 1
          BY <4>3, <5>1
        <5>3. n > 1
          BY <2>2, <5>1, <5>2
        <5>. QED  BY <2>2, <5>1, <5>3
      <4>. QED  BY <3>1, <3>3, <4>1, <4>2, <4>3
    <3>5. session[u].muted = IF Tail(f) = <<>> THEN bar'[u].muted ELSE Tail(f)[Len(Tail(f))].muted
      BY <1>2, <2>2, <3>1, <3>3
    <3>. QED  BY <1>1, <1>3, <2>1, <2>3, <2>5, <3>2, <3>4, <3>5 DEF BarFollows
  <2>. QED  BY <2>4, <2>5
<1>4. CASE w # u
  <2>1. toView'[w] = toView[w] /\ bar'[w] = bar[w]
    BY <1>2, <1>4 DEF VoiceTypes
  <2>. QED  BY <1>1, <1>4, <2>1, BarFrame DEF NothingRefused
<1>. QED  BY <1>3, <1>4

LEMMA BarOfRemount ==
  ASSUME VoiceTypes, Owned, NEW u \in Members, ViewRemounts(u), NEW w \in Members \ hasty',
         BarFollows(w)
  PROVE  BarFollows(w)'
<1>1. UNCHANGED <<awaiting, session, proc, inbox>>
      /\ bar' = [bar EXCEPT ![u] = Bar(FALSE, FALSE)]
      /\ toView' = [toView EXCEPT ![u] = Rejoined(u)]
  BY DEF ViewRemounts
<1>2. CASE w = u
  <2>1. awaiting[u] = 0
    BY <1>2 DEF ViewRemounts, Clicked, Settled
  <2>2. bar'[u] = Bar(FALSE, FALSE) /\ toView'[u] = Rejoined(u)
    BY <1>1 DEF VoiceTypes
  <2>3. CASE session[u] = NoSession
    BY <1>1, <1>2, <2>1, <2>2, <2>3 DEF BarFollows, Rejoined, Bar
  <2>4. CASE session[u] # NoSession
    <3> DEFINE e == [t |-> "rejoined", muted |-> session[u].muted]
    <3>1. toView'[u] = <<e>> /\ e.t = "rejoined" /\ e.muted = session[u].muted
      BY <2>2, <2>4 DEF Rejoined
    <3> HIDE DEF e
    <3>2. toView'[u] # <<>> /\ Len(toView'[u]) = 1 /\ DOMAIN toView'[u] = {1} /\ toView'[u][1] = e
      BY <3>1
    <3>3. \A n \in DOMAIN toView'[u] : toView'[u][n].t \in {"rejoined", "muted"}
      BY <3>1, <3>2
    <3>4. \E n \in DOMAIN toView'[u] : toView'[u][n].t = "rejoined"
      BY <3>1, <3>2
    <3>5. session'[u].muted = toView'[u][Len(toView'[u])].muted
      BY <1>1, <3>1, <3>2
    <3>6. ~(awaiting'[u] > 0) /\ session'[u] # NoSession
      BY <1>1, <2>1, <2>4
    <3>. QED  BY <1>2, <3>2, <3>3, <3>4, <3>5, <3>6 DEF BarFollows
  <2>. QED  BY <2>3, <2>4
<1>3. CASE w # u
  <2>1. toView'[w] = toView[w] /\ bar'[w] = bar[w]
    BY <1>1, <1>3 DEF VoiceTypes
  <2>. QED  BY <1>1, <1>3, <2>1, BarFrame DEF NothingRefused
<1>. QED  BY <1>2, <1>3

LEMMA BarOfStart ==
  ASSUME VoiceTypes, Owned, NEW u \in Members, crowd' = crowd, GetsMicrophone(u),
         NEW w \in Members, BarFollows(w)
  PROVE  BarFollows(w)'
<1>1. PICK i \in Pids : Starts(u, i)
  BY TypesOfStart
<1>2. /\ awaiting' = [awaiting EXCEPT ![u] = @ - 1] /\ awaiting[u] > 0
      /\ UNCHANGED <<bar, toView, inbox>>
  BY DEF GetsMicrophone
<1>3. CASE w = u
  <2>1. awaiting[u] = 1 /\ toView[u] = <<>> /\ bar[u] = Bar(TRUE, FALSE)
    BY <1>2, <1>3 DEF BarFollows
  <2>2. awaiting'[u] = 0
    BY <1>2, <2>1 DEF VoiceTypes
  <2>3. session'[u] # NoSession /\ session'[u].muted = FALSE
    BY <1>1, RealSession DEF Starts, VoiceTypes
  <2>4. bar'[u].joined /\ bar'[u].muted = FALSE /\ toView'[u] = <<>>
    BY <1>2, <2>1 DEF Bar
  <2>5. \A n \in DOMAIN toView'[u] : FALSE
    BY <2>4
  <2>6. ~(awaiting'[u] > 0)
    BY <2>2
  <2>. QED  BY <1>3, <2>6, <2>3, <2>4, <2>5 DEF BarFollows
<1>4. CASE w # u
  <2>1. session'[w] = session[w] /\ awaiting'[w] = awaiting[w]
    BY <1>1, <1>2, <1>4 DEF Starts, VoiceTypes
  <2>2. ASSUME NothingRefused(w) PROVE NothingRefused(w)'
    <3>1. proc'[i].user = u /\ \A j \in Pids \ {i} : proc'[j] = proc[j]
      BY <1>1 DEF Starts, VoiceTypes
    <3>. QED  BY <1>2, <1>4, <2>2, <3>1 DEF NothingRefused
  <2>. QED  BY <1>2, <2>1, <2>2, BarFrame
<1>. QED  BY <1>3, <1>4

LEMMA BarOfFailure ==
  ASSUME VoiceTypes, Owned, NEW u \in Members, crowd' = crowd, GetsNoMicrophone(u),
         NEW w \in Members, BarFollows(w)
  PROVE  BarFollows(w)'
<1>1. /\ awaiting' = [awaiting EXCEPT ![u] = @ - 1] /\ awaiting[u] > 0
      /\ UNCHANGED <<bar, session, proc, inbox>>
  BY DEF GetsNoMicrophone
<1>2. toView'[u] = Append(toView[u], [t |-> "error"])
      /\ \A v \in Members \ {u} : toView'[v] = toView[v]
  BY TypesOfFailure
<1>3. CASE w = u
  <2>1. awaiting[u] = 1 /\ session[u] = NoSession
    BY <1>1, <1>3 DEF BarFollows
  <2>2. awaiting'[u] = 0
    BY <1>1, <2>1 DEF VoiceTypes
  <2>3. toView'[u] # <<>> /\ toView'[u][Len(toView'[u])] = [t |-> "error"]
    <3>1. toView[u] \in Seq(Words) /\ [t |-> "error"] \in Words
      BY DEF VoiceTypes, Words
    <3>. QED  BY <1>2, <3>1, Appended
  <2>4. ~(awaiting'[u] > 0) /\ session'[u] = NoSession
        /\ toView'[u][Len(toView'[u])].t = "error"
    BY <1>1, <2>1, <2>2, <2>3
  <2>. QED  BY <1>3, <2>3, <2>4 DEF BarFollows
<1>4. CASE w # u
  <2>1. awaiting'[w] = awaiting[w]
    BY <1>1, <1>4 DEF VoiceTypes
  <2>. QED  BY <1>1, <1>2, <1>4, <2>1, BarFrame DEF NothingRefused
<1>. QED  BY <1>3, <1>4

LEMMA BarOfAnswer ==
  ASSUME VoiceTypes, Owned, NEW i \in Pids, crowd' = crowd, Authorizes(i),
         NEW w \in Members, BarFollows(w)
  PROVE  BarFollows(w)'
<1>1. UNCHANGED <<bar, toView, awaiting>> /\ proc[i].st = "joining"
  BY DEF Authorizes
<1>2. /\ proc[i].user = i[1] /\ \A j \in Pids \ {i} : proc'[j] = proc[j]
      /\ IF i[1] \in Occupants
         THEN inbox' = [inbox EXCEPT ![i] = Append(@, [t |-> "refused"])]
         ELSE inbox' = inbox
  BY TypesOfAnswer
<1>3. (session'[w] = NoSession <=> session[w] = NoSession)
      /\ (session[w] # NoSession => session'[w].muted = session[w].muted)
  <2>1. CASE session'[w] = session[w]
    BY <2>1
  <2>2. CASE session'[w] # session[w]
    <3>1. /\ w = i[1] /\ session[w].pid = i /\ session'[w] = [session[w] EXCEPT !.joined = TRUE]
          /\ session'[w] # NoSession /\ session'[w] \in Sessions
      BY <2>2, TypesOfAnswer
    <3>2. session[w] # NoSession
      BY <3>1, RealSession
    <3>3. session[w] \in Sessions
      BY <3>2, SessionFacts
    <3>. QED  BY <3>1, <3>2, <3>3 DEF Sessions
  <2>. QED  BY <2>1, <2>2
<1>4. ASSUME NothingRefused(w) PROVE NothingRefused(w)'
  <2>1. i[1] # w
    BY <1>1, <1>2, <1>4 DEF NothingRefused
  <2>2. proc'[i].user = i[1]
    BY TypesOfAnswer
  <2>3. \A j \in Pids \ {i} : inbox'[j] = inbox[j]
    BY <1>2 DEF VoiceTypes
  <2>. QED  BY <1>2, <1>4, <2>1, <2>2, <2>3 DEF NothingRefused
<1>. QED  BY <1>1, <1>3, <1>4, BarFrame

LEMMA BarOfProcess ==
  ASSUME VoiceTypes, Owned, NEW i \in Pids, crowd' = crowd, Tracks(i) \/ Lists(i) \/ Ends(i),
         NEW w \in Members, BarFollows(w)
  PROVE  BarFollows(w)'
<1>1. UNCHANGED <<bar, toView, awaiting, session>>
  BY DEF Tracks, Lists, Ends
<1>2. ASSUME NothingRefused(w) PROVE NothingRefused(w)'
  <2> DEFINE e == [t |-> "state", list |-> Listing]
  <2>1. inbox[i] \in Seq(Pushed) /\ e \in Pushed /\ e.t # "refused"
    BY TypesOfProcess DEF VoiceTypes
  <2>2. inbox' = inbox \/ inbox' = [inbox EXCEPT ![i] = Append(@, e)]
    BY TypesOfProcess
  <2> HIDE DEF e
  <2>3. \A n \in DOMAIN Append(inbox[i], e) : Append(inbox[i], e)[n] = e
              \/ \E k \in DOMAIN inbox[i] : Append(inbox[i], e)[n] = inbox[i][k]
    BY <2>1, OldOrAppended
  <2>4. \A j \in Pids : \A n \in DOMAIN inbox'[j] :
           inbox'[j][n].t # "refused" \/ \E k \in DOMAIN inbox[j] : inbox'[j][n] = inbox[j][k]
    BY <2>1, <2>2, <2>3 DEF VoiceTypes
  <2>5. /\ proc[i].user = i[1] /\ proc'[i].user = i[1] /\ proc'[i].st # "joining"
        /\ \A j \in Pids \ {i} : proc'[j] = proc[j]
    BY TypesOfProcess
  <2>. QED  BY <1>2, <2>4, <2>5, RefusalFrame
<1>. QED  BY <1>1, <1>2, BarFrame

LEMMA BarOfNews ==
  ASSUME VoiceTypes, Owned, crowd' = crowd, NewsSpreads, NEW w \in Members, BarFollows(w)
  PROVE  BarFollows(w)'
<1>1. UNCHANGED <<bar, toView, awaiting, session, proc>>
  BY DEF NewsSpreads
<1>2. ASSUME NothingRefused(w) PROVE NothingRefused(w)'
  <2> DEFINE e == news[1]
  <2>1. e \in Pushed /\ e.t # "refused"
    BY TypesOfNews DEF Diffs, Pushed
  <2>2. \A j \in Pids : inbox[j] \in Seq(Pushed) /\ inbox'[j] \in {inbox[j], Append(inbox[j], e)}
    BY TypesOfNews DEF VoiceTypes
  <2> HIDE DEF e
  <2>3. \A j \in Pids : \A n \in DOMAIN Append(inbox[j], e) : Append(inbox[j], e)[n] = e
              \/ \E k \in DOMAIN inbox[j] : Append(inbox[j], e)[n] = inbox[j][k]
    BY <2>1, <2>2, OldOrAppended
  <2>4. \A j \in Pids : \A n \in DOMAIN inbox'[j] :
           inbox'[j][n].t # "refused" \/ \E k \in DOMAIN inbox[j] : inbox'[j][n] = inbox[j][k]
    BY <2>1, <2>2, <2>3
  <2>. QED  BY <1>1, <1>2, <2>4, RefusalFrame
<1>. QED  BY <1>1, <1>2, BarFrame

LEMMA BarOfReceiving ==
  ASSUME VoiceTypes, Owned, NEW i \in Pids, crowd' = crowd, Receives(i),
         NEW w \in Members, BarFollows(w)
  PROVE  BarFollows(w)'
<1> DEFINE u == i[1]
           m == inbox[i][1]
<1>1. /\ proc[i].open /\ proc[i].user = u /\ u \in Members /\ inbox[i] # <<>>
      /\ 1 \in DOMAIN inbox[i] /\ m \in Pushed
      /\ IF m.t = "refused" THEN Refused(u, i) ELSE HandledBy(u, i, m)
      /\ UNCHANGED <<bar, awaiting, news, clock, hasty, turns>>
  BY Receiving
<1> HIDE DEF u, m
<1>2. CASE m.t = "refused"
  <2>1. Refused(u, i)
    BY <1>1, <1>2
  <2>2. toView'[u] = Append(toView[u], [t |-> "error"]) /\ [t |-> "error"] \in Words
        /\ \A v \in Members \ {u} : toView'[v] = toView[v]
    <3>1. [t |-> "error"] \in Words
      BY DEF Words
    <3>. QED  BY <1>1, <2>1, <3>1, Told DEF Refused
  <2>3. session'[u] = NoSession /\ \A v \in Members \ {u} : session'[v] = session[v]
    BY <1>1, <2>1 DEF Refused, VoiceTypes
  <2>4. CASE w = u
    <3>1. ~(awaiting'[u] > 0)
      BY <1>1, <1>2, <2>4 DEF BarFollows, NothingRefused, m
    <3>2. toView'[u] # <<>> /\ toView'[u][Len(toView'[u])].t = "error"
      <4>1. toView[u] \in Seq(Words)
        BY <1>1 DEF VoiceTypes
      <4>2. toView'[u] # <<>> /\ toView'[u][Len(toView'[u])] = [t |-> "error"]
        BY <2>2, <4>1, Appended
      <4>. QED  BY <4>2
    <3>. QED  BY <2>3, <2>4, <3>1, <3>2 DEF BarFollows
  <2>5. CASE w # u
    <3>1. ASSUME NothingRefused(w) PROVE NothingRefused(w)'
      <4>1. ASSUME NEW j \in Pids
            PROVE  /\ proc'[j].user = proc[j].user /\ proc'[j].st = proc[j].st
                   /\ \A n \in DOMAIN inbox'[j] : \E k \in DOMAIN inbox[j] : inbox'[j][n] = inbox[j][k]
        <5>1. proc'[j] = proc[j] \/ proc'[j] = [proc[j] EXCEPT !.open = FALSE]
          BY <2>1 DEF Refused
        <5>2. proc[j] \in Processes
          BY DEF VoiceTypes
        <5>3. inbox'[j] = inbox[j] \/ inbox'[j] = <<>>
          BY <2>1 DEF Refused
        <5>4. \A n \in DOMAIN <<>> : FALSE
          OBVIOUS
        <5>. QED  BY <5>1, <5>2, <5>3, <5>4 DEF Processes
      <4>. QED  BY <3>1, <4>1, RefusalFrame
    <3>2. session'[w] = session[w] /\ toView'[w] = toView[w] /\ awaiting'[w] = awaiting[w]
          /\ bar'[w] = bar[w]
      BY <1>1, <2>2, <2>3, <2>5
    <3>. QED  BY <3>1, <3>2, BarFrame
  <2>. QED  BY <2>4, <2>5
<1>3. CASE m.t # "refused"
  <2>1. HandledBy(u, i, m)
    BY <1>1, <1>3
  <2>2. (session'[w] = NoSession <=> session[w] = NoSession)
        /\ (session[w] # NoSession => session'[w].muted = session[w].muted)
    BY <2>1 DEF HandledBy, SessionGoesOn
  <2>3. ASSUME NothingRefused(w) PROVE NothingRefused(w)'
    <3>1. proc' = proc /\ inbox' = [inbox EXCEPT ![i] = Tail(@)]
      BY <2>1 DEF HandledBy
    <3>2. inbox[i] \in Seq(Pushed)
      BY DEF VoiceTypes
    <3>3. \A n \in DOMAIN Tail(inbox[i]) :
             n + 1 \in DOMAIN inbox[i] /\ Tail(inbox[i])[n] = inbox[i][n + 1]
      BY <1>1, <3>2, Shortened
    <3>4. \A j \in Pids : \A n \in DOMAIN inbox'[j] :
             \E k \in DOMAIN inbox[j] : inbox'[j][n] = inbox[j][k]
      BY <3>1, <3>3 DEF VoiceTypes
    <3>. QED  BY <2>3, <3>1, <3>4, RefusalFrame
  <2>4. toView' = toView
    BY <2>1 DEF HandledBy
  <2>. QED  BY <1>1, <2>2, <2>3, <2>4, BarFrame
<1>. QED  BY <1>2, <1>3

\* What a page signals of one process to another: a description and a candidate.
LEMMA SignalAdds ==
  ASSUME VoiceTypes, Owned, NEW u \in Members, NEW m \in Descriptions, NEW j \in Pids
  PROVE  LET f == Signalled(inbox, u, m)[j]
         IN  /\ f \in Seq(Pushed)
             /\ \A n \in DOMAIN inbox[j] : n \in DOMAIN f /\ f[n] = inbox[j][n]
             /\ \A n \in DOMAIN f : n \in DOMAIN inbox[j] \/ f[n] \in {m, Desc("ice", m.conn)}
             /\ (\E n \in DOMAIN f : n \notin DOMAIN inbox[j]) =>
                   session[u] # NoSession /\ session[u].joined /\ Listens(j) /\ j[1] = Other(u)
             /\ session[u] # NoSession /\ session[u].joined /\ Listens(j) /\ j[1] = Other(u) =>
                   \E n \in DOMAIN f : f[n] = m
<1> DEFINE f == Signalled(inbox, u, m)[j]
           g == inbox[j] \o <<m, Desc("ice", m.conn)>>
<1>1. f = IF session[u] # NoSession /\ session[u].joined /\ Listens(j) /\ j[1] = Other(u)
          THEN g ELSE inbox[j]
  BY SignalTypes
<1>2. m \in Pushed /\ Desc("ice", m.conn) \in Pushed /\ inbox[j] \in Seq(Pushed)
  BY DEF Desc, Pushed, Relays, Descriptions, VoiceTypes
<1>3. /\ g \in Seq(Pushed) /\ DOMAIN g = DOMAIN inbox[j] \cup {Len(inbox[j]) + 1, Len(inbox[j]) + 2}
      /\ \A n \in DOMAIN inbox[j] : g[n] = inbox[j][n]
      /\ g[Len(inbox[j]) + 1] = m /\ g[Len(inbox[j]) + 2] = Desc("ice", m.conn)
  BY <1>2, TwoAppended
<1> HIDE DEF f, g
<1>4. CASE f = g
  BY <1>1, <1>3, <1>4 DEF f
<1>5. CASE f = inbox[j] /\ ~(session[u] # NoSession /\ session[u].joined /\ Listens(j) /\ j[1] = Other(u))
  BY <1>2, <1>5 DEF f
<1>. QED  BY <1>1, <1>4, <1>5

LEMMA BarOfNegotiation ==
  ASSUME VoiceTypes, Owned, NEW u \in Members, NEW n \in DOMAIN task[u], session[u] # NoSession,
         Negotiates(u, n), NEW w \in Members, BarFollows(w)
  PROVE  BarFollows(w)'
<1>1. /\ SessionGoesOn(u) /\ WentOn(u, n) /\ session[u].peer \in Links
      /\ UNCHANGED <<bar, toView, awaiting, proc>>
  BY GoingOn
<1>2. (session'[w] = NoSession <=> session[w] = NoSession)
      /\ (session[w] # NoSession => session'[w].muted = session[w].muted)
  BY <1>1 DEF SessionGoesOn
<1>3. ASSUME NothingRefused(w) PROVE NothingRefused(w)'
  <2>1. \/ inbox' = inbox
        \/ \E m \in Descriptions : inbox' = Signalled(inbox, u, m)
    <3>1. session[u].peer.conn \in Conns
      BY <1>1, LinkNotNone
    <3>2. Desc("offer", session[u].peer.conn) \in Descriptions /\ Desc("answer", session[u].peer.conn) \in Descriptions
      BY <3>1 DEF Desc, Descriptions
    <3>. QED  BY <1>1, <3>2 DEF WentOn
  <2>2. ASSUME NEW m \in Descriptions, inbox' = Signalled(inbox, u, m), NEW j \in Pids
        PROVE  \A k \in DOMAIN inbox'[j] :
                  inbox'[j][k].t # "refused" \/ \E l \in DOMAIN inbox[j] : inbox'[j][k] = inbox[j][l]
    <3>1. m.t # "refused" /\ Desc("ice", m.conn).t # "refused"
      BY DEF Descriptions, Desc
    <3>2. /\ \A k \in DOMAIN inbox[j] : inbox'[j][k] = inbox[j][k]
          /\ \A k \in DOMAIN inbox'[j] : k \in DOMAIN inbox[j] \/ inbox'[j][k] \in {m, Desc("ice", m.conn)}
      BY <2>2, SignalAdds
    <3>. QED  BY <3>1, <3>2
  <2>3. \A j \in Pids : \A k \in DOMAIN inbox'[j] :
           inbox'[j][k].t # "refused" \/ \E l \in DOMAIN inbox[j] : inbox'[j][k] = inbox[j][l]
    BY <2>1, <2>2
  <2>. QED  BY <1>1, <1>3, <2>3, RefusalFrame
<1>. QED  BY <1>1, <1>2, <1>3, BarFrame

LEMMA BarKept ==
  ASSUME VoiceTypes, Owned, \A w \in Members \ hasty : BarFollows(w), [VoiceNext]_voiceVars
  PROVE  \A w \in Members \ hasty' : BarFollows(w)'
<1>1. ASSUME UNCHANGED voiceVars, NEW w \in Members \ hasty' PROVE BarFollows(w)'
  <2>1. UNCHANGED <<bar, toView, awaiting, session, proc, inbox, hasty>>
    BY <1>1 DEF voiceVars
  <2>2. BarFollows(w)
    BY <1>1, <2>1
  <2>3. NothingRefused(w) => NothingRefused(w)'
    BY <2>1 DEF NothingRefused
  <2>. QED  BY <2>1, <2>2, <2>3, BarFrame
<1>2. ASSUME VoiceNext, NEW w \in Members \ hasty' PROVE BarFollows(w)'
  <2>1. crowd' = crowd /\ hasty \subseteq hasty'
    <3>1. \A u \in Members : Clicked(u) => hasty \subseteq hasty'
      BY DEF Clicked
    <3>2. \A u \in Members : ClicksJoin(u) \/ ClicksLeave(u) \/ ClicksMute(u) \/ ViewRemounts(u)
                               \/ ViewHears(u) \/ GetsMicrophone(u) \/ GetsNoMicrophone(u)
             => hasty \subseteq hasty'
      BY <3>1 DEF ClicksJoin, ClicksLeave, ClicksMute, ViewRemounts, ViewHears, GetsMicrophone,
                  GetsNoMicrophone
    <3>3. \A u \in Members : \A n \in DOMAIN task[u] : Negotiates(u, n) => hasty \subseteq hasty'
      BY DEF Negotiates
    <3>4. \A i \in Pids : Authorizes(i) \/ Tracks(i) \/ Lists(i) \/ Ends(i) \/ Receives(i)
             => hasty \subseteq hasty'
      BY DEF Authorizes, Tracks, Lists, Ends, Receives
    <3>5. NewsSpreads => hasty \subseteq hasty'
      BY DEF NewsSpreads
    <3>. QED  BY <1>2, <3>2, <3>3, <3>4, <3>5 DEF VoiceNext
  <2>2. BarFollows(w)
    BY <1>2, <2>1
  <2>. QED  BY <1>2, <2>1, <2>2, BarOfJoin, BarOfLeave, BarOfMute, BarHeard, BarOfRemount,
               BarOfStart, BarOfFailure, BarOfAnswer, BarOfProcess, BarOfNews, BarOfReceiving,
               BarOfNegotiation DEF VoiceNext
<1>. QED  BY <1>1, <1>2

-----------------------------------------------------------------------------
(* VoiceMesh: two members, one process each *)

LEMMA TwoAreNotAlone == crowd = Members => ~Alone
BY DEF Alone, Members

LEMMA PairClick ==
  ASSUME crowd = Members, OneProcess, NEW u \in Members, Clicked(u)
  PROVE  Settled(u) /\ hasty' = {}
BY TwoAreNotAlone DEF Clicked, OneProcess

\* A member who has joined clicks leave, any other join: the process is as settled.
LEMMA PairJoin ==
  ASSUME VoiceTypes, Owned, crowd = Members, OneProcess, Attached, NEW u \in Members,
         BarFollows(u), ClicksJoin(u)
  PROVE  /\ session[u] = NoSession /\ \A i \in Pids : i[1] = u => proc[i].st = "gone"
         /\ awaiting' = [awaiting EXCEPT ![u] = @ + 1] /\ hasty' = {}
         /\ UNCHANGED <<session, task, proc, inbox, news, crossed>>
<1>1. Settled(u) /\ hasty' = {}
  BY PairClick DEF ClicksJoin
<1>2. /\ ~bar[u].joined /\ u \notin Occupants /\ Teardown(u)
      /\ awaiting' = [awaiting EXCEPT ![u] = @ + 1] /\ UNCHANGED <<news, crossed>>
  BY DEF ClicksJoin
<1>3. session[u] = NoSession
  <2>1. ~(awaiting[u] > 0) /\ toView[u] = <<>> /\ \A n \in DOMAIN <<>> : FALSE
    BY <1>1 DEF Settled
  <2>. QED  BY <1>2, <2>1 DEF BarFollows
<1>4. task[u] = <<>>
  BY <1>3 DEF Attached
<1>5. UNCHANGED <<session, task, proc, inbox>>
  BY <1>2, <1>3, <1>4, RealSession DEF Teardown, VoiceTypes
<1>6. ASSUME NEW i \in Pids, i[1] = u PROVE proc[i].st = "gone"
  <2>1. CASE proc[i] = Unstarted
    BY <2>1 DEF Unstarted
  <2>2. CASE proc[i].user = u
    <3>1. proc[i].st # "present"
      BY <1>2, <2>2 DEF Occupants, Tracked
    <3>. QED  BY <1>1, <2>2, <3>1 DEF Settled
  <2>. QED  BY <1>6, <2>1, <2>2 DEF Owned
<1>. QED  BY <1>1, <1>2, <1>3, <1>5, <1>6

LEMMA PairLeave ==
  ASSUME VoiceTypes, Owned, crowd = Members, OneProcess, Attached, NEW u \in Members,
         BarFollows(u), ClicksLeave(u)
  PROVE  LET i == session[u].pid
         IN  /\ session[u] # NoSession /\ i \in Pids /\ i[1] = u /\ proc[i].st = "present"
             /\ proc'[i].open = FALSE /\ proc'[i].st = "present" /\ inbox'[i] = <<>>
             /\ proc'[i].user = proc[i].user /\ proc'[i].at = proc[i].at
             /\ \A j \in Pids \ {i} : proc'[j] = proc[j] /\ inbox'[j] = inbox[j]
             /\ session'[u] = NoSession /\ task'[u] = <<>>
             /\ \A w \in Members \ {u} : session'[w] = session[w] /\ task'[w] = task[w]
             /\ hasty' = {} /\ UNCHANGED <<awaiting, news, crossed>>
<1> DEFINE i == session[u].pid
<1>1. Settled(u) /\ hasty' = {}
  BY PairClick DEF ClicksLeave
<1>2. bar[u].joined /\ Teardown(u) /\ UNCHANGED <<awaiting, news, crossed>>
  BY DEF ClicksLeave
<1>3. session[u] # NoSession
  <2>1. ~(awaiting[u] > 0) /\ toView[u] = <<>>
    BY <1>1 DEF Settled
  <2>. QED  BY <1>2, <2>1 DEF BarFollows
<1>4. i \in Pids /\ i[1] = u
  BY <1>3, SessionFacts
<1>5. proc[i].st = "present" /\ proc[i] \in Processes
  <2>1. proc[i].open /\ proc[i].st # "gone"
    BY <1>3 DEF Attached
  <2>2. proc[i].user = u
    BY <1>4, <2>1, StartedProcess
  <2>. QED  BY <1>1, <1>4, <2>1, <2>2 DEF Settled, VoiceTypes
<1>6. /\ proc'[i] = [proc[i] EXCEPT !.open = FALSE] /\ inbox'[i] = <<>>
      /\ \A j \in Pids \ {i} : proc'[j] = proc[j] /\ inbox'[j] = inbox[j]
      /\ session'[u] = NoSession /\ task'[u] = <<>>
      /\ \A w \in Members \ {u} : session'[w] = session[w] /\ task'[w] = task[w]
  <2>1. /\ session'[u] = NoSession /\ task'[u] = <<>>
        /\ \A w \in Members \ {u} : session'[w] = session[w] /\ task'[w] = task[w]
        /\ \A j \in Pids : IF session[u] # NoSession /\ j = session[u].pid
                           THEN proc'[j] = [proc[j] EXCEPT !.open = FALSE] /\ inbox'[j] = <<>>
                           ELSE proc'[j] = proc[j] /\ inbox'[j] = inbox[j]
    BY <1>2, TornDown
  <2>. QED  BY <1>3, <1>4, <2>1
<1>7. /\ proc'[i].open = FALSE /\ proc'[i].st = "present"
      /\ proc'[i].user = proc[i].user /\ proc'[i].at = proc[i].at
  BY <1>5, <1>6 DEF Processes
<1>. QED  BY <1>1, <1>2, <1>3, <1>4, <1>5, <1>6, <1>7

\* A process that is not gone and has not been left is that of the session.
LEMMA OwnSession ==
  ASSUME OneProcess, NEW i \in Pids, proc[i].st # "gone", proc[i].open \/ proc[i].st # "present"
  PROVE  proc[i].open /\ session[i[1]] # NoSession /\ session[i[1]].pid = i
BY DEF OneProcess

LEMMA ListeningSession ==
  ASSUME OneProcess, Attached, NEW i \in Pids, Listens(i)
  PROVE  /\ session[i[1]] # NoSession /\ session[i[1]].pid = i /\ session[i[1]].joined
         /\ i[1] \in Members
BY OwnSession, PidMember DEF Attached, Listens

LEMMA PairAnswer ==
  ASSUME VoiceTypes, Owned, crowd = Members, crowd' = crowd, OneProcess, Attached, NEW i \in Pids,
         Authorizes(i)
  PROVE  LET u == i[1]
         IN  /\ proc[i].st = "joining" /\ proc[i].open /\ u \in Members
             /\ session[u] # NoSession /\ session[u].pid = i
             /\ proc'[i].st = "stamped" /\ proc'[i].open /\ proc'[i].user = u
             /\ \A j \in Pids \ {i} : proc'[j] = proc[j]
             /\ session'[u] # NoSession /\ session'[u] = [session[u] EXCEPT !.joined = TRUE]
             /\ session'[u].pid = i /\ session'[u].joined
             /\ session'[u].at = session[u].at /\ session'[u].peer = session[u].peer
             /\ \A w \in Members \ {u} : session'[w] = session[w]
             /\ UNCHANGED <<awaiting, task, inbox, news, hasty, crossed>>
<1> DEFINE u == i[1]
<1>1. proc[i].st = "joining" /\ proc[i].open /\ UNCHANGED <<awaiting, task, news, hasty, crossed>>
  BY DEF Authorizes
<1>2. session[u] # NoSession /\ session[u].pid = i /\ u \in Members
  BY <1>1, OwnSession, PidMember
<1>3. u \notin Occupants
  <2> SUFFICES ASSUME u \in Occupants PROVE FALSE
    OBVIOUS
  <2>1. PICK j \in Pids : Tracked(proc[j].st) /\ proc[j].user = u
    BY DEF Occupants
  <2>2. proc[j].st # "gone" /\ proc[j].st # "joining"
    BY <2>1 DEF Tracked
  <2>3. j[1] = u
    BY <2>1, <2>2, StartedProcess
  <2>4. j = i
    BY <1>1, <2>2, <2>3 DEF OneProcess
  <2>. QED  BY <1>1, <2>2, <2>4
<1>4. /\ proc'[i].st = "stamped" /\ proc'[i].open /\ proc'[i].user = u /\ inbox' = inbox
      /\ \A j \in Pids \ {i} : proc'[j] = proc[j]
      /\ session'[u] # NoSession /\ session'[u] = [session[u] EXCEPT !.joined = TRUE]
      /\ \A w \in Members \ {u} : session'[w] = session[w]
  BY <1>2, <1>3, TypesOfAnswer
<1>5. session[u] \in Sessions
  BY <1>2, SessionFacts
<1>6. /\ session'[u].pid = i /\ session'[u].joined
      /\ session'[u].at = session[u].at /\ session'[u].peer = session[u].peer
  BY <1>2, <1>4, <1>5 DEF Sessions
<1>. QED  BY <1>1, <1>2, <1>4, <1>6

LEMMA PairTracks ==
  ASSUME VoiceTypes, Owned, crowd' = crowd, OneProcess, NEW i \in Pids, Tracks(i)
  PROVE  /\ proc[i].st = "stamped" /\ proc'[i].st = "tracked" /\ proc[i].open /\ proc'[i].open
         /\ proc'[i].open = proc[i].open
         /\ proc[i].user = i[1] /\ proc'[i].user = i[1] /\ proc'[i].at = proc[i].at
         /\ \A j \in Pids \ {i} : proc'[j] = proc[j]
         /\ news' = Append(news, Diff("join", i)) /\ Diff("join", i) \in Diffs
         /\ UNCHANGED <<awaiting, session, task, inbox, hasty, crossed>>
<1>1. proc[i].st = "stamped" /\ UNCHANGED <<awaiting, session, task, hasty, crossed>>
  BY DEF Tracks
<1>. QED  BY <1>1, OwnSession, TypesOfProcess

LEMMA PairLists ==
  ASSUME VoiceTypes, Owned, crowd' = crowd, OneProcess, NEW i \in Pids, Lists(i)
  PROVE  LET e == [t |-> "state", list |-> Listing]
         IN  /\ proc[i].st = "tracked" /\ proc'[i].st = "present" /\ proc[i].open /\ proc'[i].open
             /\ proc'[i].open = proc[i].open
             /\ proc[i].user = i[1] /\ proc'[i].user = i[1] /\ proc'[i].at = proc[i].at
             /\ \A j \in Pids \ {i} : proc'[j] = proc[j] /\ inbox'[j] = inbox[j]
             /\ inbox'[i] = Append(inbox[i], e) /\ inbox[i] \in Seq(Pushed) /\ e \in Pushed
             /\ UNCHANGED <<awaiting, session, task, news, hasty, crossed>>
<1>1. proc[i].st = "tracked" /\ UNCHANGED <<awaiting, session, task, hasty, crossed>>
  BY DEF Lists
<1>2. proc[i].open
  BY <1>1, OwnSession
<1>3. inbox' = [inbox EXCEPT ![i] = Append(@, [t |-> "state", list |-> Listing])]
  BY <1>2, TypesOfProcess
<1>4. inbox \in [Pids -> Seq(Pushed)]
  BY DEF VoiceTypes
<1>5. \A j \in Pids \ {i} : inbox'[j] = inbox[j]
  BY <1>3, <1>4
<1>6. inbox'[i] = Append(inbox[i], [t |-> "state", list |-> Listing]) /\ inbox[i] \in Seq(Pushed)
  BY <1>3, <1>4
<1>. QED  BY <1>1, <1>2, <1>5, <1>6, TypesOfProcess

\* What lists itself in a channel that has one process of each member.
LEMMA ListingOfTwo ==
  ASSUME VoiceTypes, Owned, OneProcess, NEW i \in Pids, proc[i].st = "tracked"
  PROVE  /\ {e \in Listing : e.user = i[1]} = {[user |-> i[1], at |-> proc[i].at]}
         /\ \A e \in Listing : TrackedAt(e.user, e.at)
         /\ \A j \in Pids : Tracked(proc[j].st) =>
               [user |-> proc[j].user, at |-> proc[j].at] \in Listing /\ proc[j].user = j[1]
<1>1. \A j \in Pids : Tracked(proc[j].st) =>
         /\ [user |-> proc[j].user, at |-> proc[j].at] \in Listing /\ proc[j].user = j[1]
         /\ (j[1] = i[1] => j = i)
  <2> SUFFICES ASSUME NEW j \in Pids, Tracked(proc[j].st)
               PROVE  /\ [user |-> proc[j].user, at |-> proc[j].at] \in Listing
                      /\ proc[j].user = j[1] /\ (j[1] = i[1] => j = i)
    OBVIOUS
  <2>1. proc[j].st # "gone" /\ proc[i].st # "gone"
    BY DEF Tracked
  <2>2. proc[j].user = j[1]
    BY <2>1, StartedProcess
  <2>3. j[1] = i[1] => j = i
    BY <2>1 DEF OneProcess
  <2>. QED  BY <2>2, <2>3 DEF Listing
<1>2. ASSUME NEW e \in Listing
      PROVE  \E j \in Pids : Tracked(proc[j].st) /\ e = [user |-> proc[j].user, at |-> proc[j].at]
  BY DEF Listing
<1>3. Tracked(proc[i].st)
  BY DEF Tracked
<1>4. {e \in Listing : e.user = i[1]} \subseteq {[user |-> i[1], at |-> proc[i].at]}
  <2> SUFFICES ASSUME NEW e \in Listing, e.user = i[1] PROVE e = [user |-> i[1], at |-> proc[i].at]
    OBVIOUS
  <2>1. PICK j \in Pids : Tracked(proc[j].st) /\ e = [user |-> proc[j].user, at |-> proc[j].at]
    BY <1>2
  <2>2. proc[j].user = i[1]
    BY <2>1
  <2>3. j = i
    BY <1>1, <2>1, <2>2
  <2>. QED  BY <2>1, <2>2, <2>3
<1>5. [user |-> i[1], at |-> proc[i].at] \in {e \in Listing : e.user = i[1]}
  BY <1>1, <1>3
<1>6. \A e \in Listing : TrackedAt(e.user, e.at)
  BY <1>2 DEF TrackedAt
<1>. QED  BY <1>1, <1>4, <1>5, <1>6

LEMMA PairEnds ==
  ASSUME VoiceTypes, Owned, crowd' = crowd, OneProcess, NEW i \in Pids, Ends(i)
  PROVE  /\ ~proc[i].open /\ proc[i].st = "present" /\ proc'[i].st = "gone"
         /\ proc[i].user = i[1] /\ ~proc'[i].open /\ proc'[i].open = proc[i].open
         /\ \A j \in Pids \ {i} : proc'[j] = proc[j]
         /\ news' = Append(news, Diff("leave", i)) /\ Diff("leave", i) \in Diffs
         /\ IsLeave(Diff("leave", i), i[1])
         /\ UNCHANGED <<awaiting, session, task, inbox, hasty, crossed>>
<1>1. ~proc[i].open /\ proc[i].st # "gone" /\ UNCHANGED <<awaiting, session, task, hasty, crossed>>
  BY DEF Ends
<1>2. proc[i].st = "present"
  BY <1>1 DEF OneProcess
<1>3. Tracked(proc[i].st)
  BY <1>2 DEF Tracked
<1>4. IsLeave(Diff("leave", i), i[1])
  BY TypesOfProcess DEF IsLeave, Diff
<1>. QED  BY <1>1, <1>2, <1>3, <1>4, TypesOfProcess

LEMMA PairReceives ==
  ASSUME VoiceTypes, Owned, crowd' = crowd, OneProcess, Attached, Heeded, NEW i \in Pids, Receives(i)
  PROVE  LET u == i[1]
             m == inbox[i][1]
         IN  /\ Listens(i) /\ u \in Members /\ m \in Pushed /\ m.t # "refused"
             /\ inbox[i] # <<>> /\ 1 \in DOMAIN inbox[i] /\ inbox[i] \in Seq(Pushed)
             /\ session[u] # NoSession /\ session[u].pid = i /\ session[u].joined
             /\ HandledBy(u, i, m) /\ SessionGoesOn(u)
             /\ inbox'[i] = Tail(inbox[i]) /\ \A j \in Pids \ {i} : inbox'[j] = inbox[j]
             /\ session'[u].at \in {session[u].at, proc[i].at}
             /\ m.t = "state" => session'[u].at = proc[i].at
             /\ crossed' = IF OutOfTurn(u, m) THEN crossed \cup {u} ELSE crossed
             /\ UNCHANGED <<proc, awaiting, news, hasty>>
<1> DEFINE u == i[1]
           m == inbox[i][1]
<1>1. /\ proc[i].open /\ proc[i].user = u /\ u \in Members /\ inbox[i] # <<>>
      /\ 1 \in DOMAIN inbox[i] /\ m \in Pushed
      /\ IF m.t = "refused" THEN Refused(u, i) ELSE HandledBy(u, i, m)
      /\ crossed' = IF OutOfTurn(u, m) THEN crossed \cup {u} ELSE crossed
      /\ UNCHANGED <<bar, awaiting, news, clock, hasty, turns>>
  BY Receiving
<1>2. Listens(i) /\ m.t # "refused"
  BY <1>1 DEF Heeded
<1>3. session[u] # NoSession /\ session[u].pid = i /\ session[u].joined
  BY <1>2, ListeningSession
<1>4. HandledBy(u, i, m)
  BY <1>1, <1>2
<1>5. SessionGoesOn(u) /\ proc' = proc /\ inbox' = [inbox EXCEPT ![i] = Tail(@)]
  BY <1>3, <1>4 DEF HandledBy
<1>6. inbox[i] \in Seq(Pushed) /\ inbox'[i] = Tail(inbox[i])
      /\ \A j \in Pids \ {i} : inbox'[j] = inbox[j]
  BY <1>5 DEF VoiceTypes
<1>7. m.t = "state" => session'[u].at = proc[i].at
  <2> SUFFICES ASSUME m.t = "state" PROVE session'[u].at = proc[i].at
    OBVIOUS
  <2>1. {e \in m.list : e.user = u} = {[user |-> u, at |-> proc[i].at]}
    BY <1>1 DEF Heeded
  <2>2. session'[u].at \in {e.at : e \in {e \in m.list : e.user = u}}
    BY <1>3, <1>4, <2>1 DEF HandledBy, HeardState
  <2>. QED  BY <2>1, <2>2
<1>8. m.t # "state" => session'[u].at = session[u].at
  BY <1>3, <1>4 DEF HandledBy
<1>. QED  BY <1>1, <1>2, <1>3, <1>4, <1>5, <1>6, <1>7, <1>8

\* No process comes into being; one that is left has become present.
LEMMA OneFrame ==
  ASSUME OneProcess, hasty' = {},
         \A i \in Pids : proc'[i].st # "gone" =>
            /\ proc[i].st # "gone"
            /\ IF proc'[i].open
               THEN /\ proc[i].open /\ session'[i[1]] # NoSession
                    /\ session'[i[1]].pid = session[i[1]].pid
               ELSE proc'[i].st = "present",
         \A u \in Members : awaiting'[u] > 0 => awaiting[u] > 0
  PROVE  OneProcess'
BY DEF OneProcess

LEMMA OneKept ==
  ASSUME VoiceTypes, Owned, crowd = Members, OneProcess, Attached, Heeded,
         \A u \in Members \ hasty : BarFollows(u), [VoiceNext]_voiceVars
  PROVE  OneProcess'
<1>0. hasty = {} /\ \A u \in Members : BarFollows(u)
  BY DEF OneProcess
<1>1. CASE UNCHANGED voiceVars
  <2>1. UNCHANGED <<hasty, proc, session, awaiting>>
    BY <1>1 DEF voiceVars
  <2>. QED  BY <2>1 DEF OneProcess
<1>2. ASSUME crowd' = crowd, NEW u \in Members, ClicksJoin(u) PROVE OneProcess'
  <2>1. /\ session[u] = NoSession /\ \A i \in Pids : i[1] = u => proc[i].st = "gone"
        /\ awaiting' = [awaiting EXCEPT ![u] = @ + 1] /\ hasty' = {}
        /\ UNCHANGED <<session, proc>>
    BY <1>0, <1>2, PairJoin
  <2>2. \A w \in Members \ {u} : awaiting'[w] = awaiting[w]
    BY <2>1 DEF VoiceTypes
  <2>. QED  BY <2>1, <2>2 DEF OneProcess
<1>3. ASSUME crowd' = crowd, NEW u \in Members, ClicksLeave(u) PROVE OneProcess'
  <2> DEFINE i == session[u].pid
  <2>1. /\ i \in Pids /\ i[1] = u /\ proc[i].st = "present"
        /\ proc'[i].open = FALSE /\ proc'[i].st = "present"
        /\ \A j \in Pids \ {i} : proc'[j] = proc[j]
        /\ \A w \in Members \ {u} : session'[w] = session[w]
        /\ hasty' = {} /\ awaiting' = awaiting
    BY <1>0, <1>3, PairLeave
  <2> HIDE DEF i
  <2>2. ASSUME NEW j \in Pids, proc'[j].st # "gone"
        PROVE  /\ proc[j].st # "gone"
               /\ IF proc'[j].open
                  THEN /\ proc[j].open /\ session'[j[1]] # NoSession
                       /\ session'[j[1]].pid = session[j[1]].pid
                  ELSE proc'[j].st = "present"
    <3>1. CASE j = i
      BY <2>1, <3>1
    <3>2. CASE j # i
      <4>1. proc'[j] = proc[j] /\ proc[j].st # "gone"
        BY <2>1, <2>2, <3>2
      <4>2. j[1] # u /\ j[1] \in Members
        BY <2>1, <3>2, <4>1, PidMember DEF OneProcess
      <4>. QED  BY <2>1, <4>1, <4>2 DEF OneProcess
    <3>. QED  BY <3>1, <3>2
  <2>. QED  BY <2>1, <2>2, OneFrame
<1>4. ASSUME NEW u \in Members, ViewHears(u) PROVE OneProcess'
  BY <1>4 DEF ViewHears, OneProcess
<1>5. ASSUME crowd' = crowd, NEW u \in Members, GetsMicrophone(u) PROVE OneProcess'
  <2>1. PICK i \in Pids : Starts(u, i)
    BY <1>5, TypesOfStart
  <2>2. /\ i[1] = u /\ awaiting[u] > 0 /\ awaiting' = [awaiting EXCEPT ![u] = @ - 1]
        /\ hasty' = hasty
        /\ proc' = [proc EXCEPT ![i] = [user |-> u, st |-> "joining", at |-> 0, open |-> TRUE]]
        /\ session' = [session EXCEPT ![u] =
              [pid |-> i, joined |-> FALSE, at |-> Infinity, muted |-> FALSE, peer |-> Unpeered]]
    BY <2>1 DEF Starts
  <2>3. awaiting'[u] = 0 /\ \A w \in Members \ {u} : awaiting'[w] = awaiting[w]
    <3>1. awaiting[u] = 1 /\ awaiting \in [Members -> Nat]
      BY <1>0, <2>2 DEF BarFollows, VoiceTypes
    <3>. QED  BY <2>2, <3>1
  <2>4. /\ proc'[i].st = "joining" /\ proc'[i].open
        /\ \A j \in Pids \ {i} : proc'[j] = proc[j]
        /\ session'[u].pid = i /\ session'[u] # NoSession
        /\ \A w \in Members \ {u} : session'[w] = session[w]
    BY <2>2, RealSession DEF VoiceTypes, NoSession
  <2>5. \A j \in Pids \ {i} : j[1] = u => proc'[j].st = "gone"
    BY <2>2, <2>4 DEF OneProcess
  <2>. QED  BY <2>2, <2>3, <2>4, <2>5, <1>0, PidMember DEF OneProcess
<1>6. ASSUME NEW u \in Members, ClicksMute(u) \/ ViewRemounts(u) \/ GetsNoMicrophone(u)
      PROVE  OneProcess'
  BY <1>6, TwoAreNotAlone DEF ClicksMute, ViewRemounts, GetsNoMicrophone, Incident
<1>7. ASSUME NEW u \in Members, NEW n \in DOMAIN task[u], session[u] # NoSession, Negotiates(u, n)
      PROVE  OneProcess'
  <2>1. SessionGoesOn(u) /\ UNCHANGED <<proc, hasty, awaiting>>
    BY <1>7, GoingOn
  <2>2. \A w \in Members : (session[w] # NoSession => session'[w] # NoSession)
                           /\ session'[w].pid = session[w].pid
    BY <2>1, <1>7 DEF SessionGoesOn
  <2>. QED  BY <1>0, <2>1, <2>2, OneFrame, PidMember DEF OneProcess
<1>8. ASSUME crowd' = crowd, NEW i \in Pids, Authorizes(i) PROVE OneProcess'
  <2>1. /\ proc[i].st = "joining" /\ proc[i].open /\ i[1] \in Members
        /\ session[i[1]].pid = i
        /\ proc'[i].st = "stamped" /\ proc'[i].open
        /\ \A j \in Pids \ {i} : proc'[j] = proc[j]
        /\ session'[i[1]] # NoSession /\ session'[i[1]].pid = i
        /\ \A w \in Members \ {i[1]} : session'[w] = session[w]
        /\ UNCHANGED <<awaiting, hasty>>
    BY <1>8, PairAnswer
  <2>2. \A w \in Members : (session[w] # NoSession => session'[w] # NoSession)
                           /\ session'[w].pid = session[w].pid
    BY <2>1
  <2>3. ASSUME NEW j \in Pids, proc'[j].st # "gone"
        PROVE  /\ proc[j].st # "gone" /\ proc'[j].open = proc[j].open
               /\ (j = i \/ proc'[j].st = proc[j].st)
    <3>1. CASE j = i
      BY <2>1, <3>1
    <3>2. CASE j # i
      BY <2>1, <2>3, <3>2
    <3>. QED  BY <3>1, <3>2
  <2>4. ASSUME NEW j \in Pids, proc'[j].st # "gone"
        PROVE  /\ proc[j].st # "gone"
               /\ IF proc'[j].open
                  THEN /\ proc[j].open /\ session'[j[1]] # NoSession
                       /\ session'[j[1]].pid = session[j[1]].pid
                  ELSE proc'[j].st = "present"
    BY <2>1, <2>2, <2>3, <2>4, PidMember DEF OneProcess
  <2>. QED  BY <1>0, <2>1, <2>4, OneFrame
<1>9. ASSUME crowd' = crowd, NEW i \in Pids, Tracks(i) \/ Lists(i) \/ Ends(i) PROVE OneProcess'
  <2>1. /\ proc'[i].open = proc[i].open /\ proc[i].st # "gone"
        /\ \A j \in Pids \ {i} : proc'[j] = proc[j]
        /\ UNCHANGED <<awaiting, hasty, session>>
        /\ proc'[i].st = "gone" \/ proc[i].open
    <3>1. CASE Tracks(i)
      BY <1>9, <3>1, PairTracks
    <3>2. CASE Lists(i)
      BY <1>9, <3>2, PairLists
    <3>3. CASE Ends(i)
      BY <1>9, <3>3, PairEnds
    <3>. QED  BY <1>9, <3>1, <3>2, <3>3
  <2>2. ASSUME NEW j \in Pids, proc'[j].st # "gone"
        PROVE  /\ proc[j].st # "gone" /\ proc'[j].open = proc[j].open
               /\ (proc[j].open \/ proc'[j].st = proc[j].st)
    <3>1. CASE j = i
      BY <2>1, <2>2, <3>1
    <3>2. CASE j # i
      BY <2>1, <2>2, <3>2
    <3>. QED  BY <3>1, <3>2
  <2>3. ASSUME NEW j \in Pids, proc'[j].st # "gone"
        PROVE  /\ proc[j].st # "gone"
               /\ IF proc'[j].open
                  THEN /\ proc[j].open /\ session'[j[1]] # NoSession
                       /\ session'[j[1]].pid = session[j[1]].pid
                  ELSE proc'[j].st = "present"
    BY <2>1, <2>2, <2>3 DEF OneProcess
  <2>. QED  BY <1>0, <2>1, <2>3, OneFrame
<1>10. ASSUME crowd' = crowd, NEW i \in Pids, Receives(i) PROVE OneProcess'
  <2>1. SessionGoesOn(i[1]) /\ UNCHANGED <<proc, awaiting, hasty>> /\ i[1] \in Members
        /\ session[i[1]] # NoSession
    BY <1>10, PairReceives
  <2>2. \A w \in Members : (session[w] # NoSession => session'[w] # NoSession)
                           /\ session'[w].pid = session[w].pid
    BY <2>1 DEF SessionGoesOn
  <2>. QED  BY <1>0, <2>1, <2>2, OneFrame, PidMember DEF OneProcess
<1>11. ASSUME NewsSpreads PROVE OneProcess'
  BY <1>11 DEF NewsSpreads, OneProcess
<1>. QED  BY <1>1, <1>2, <1>3, <1>4, <1>5, <1>6, <1>7, <1>8, <1>9, <1>10, <1>11 DEF VoiceNext

\* The process of a session and what it has said go on.
LEMMA AttachedFrame ==
  ASSUME Attached, VoiceTypes, Owned,
         \A u \in Members : session'[u] = NoSession => task'[u] = <<>>,
         \A u \in Members : session'[u] # NoSession =>
            LET i == session[u].pid
            IN  /\ session[u] # NoSession /\ session'[u].pid = i
                /\ session'[u].joined = session[u].joined
                /\ session'[u].at \in {session[u].at, proc[i].at}
                /\ proc'[i].open = proc[i].open /\ proc'[i].at = proc[i].at
                /\ proc'[i].st # "gone" /\ (proc'[i].st = "joining" <=> proc[i].st = "joining")
                /\ ~session[u].joined => /\ session'[u].at = session[u].at
                                         /\ session'[u].peer = session[u].peer
                                         /\ task'[u] = task[u]
  PROVE  Attached'
<1>1. ASSUME NEW u \in Members, session'[u] # NoSession
      PROVE  LET s == session'[u]
             IN  /\ proc'[s.pid].open /\ proc'[s.pid].st # "gone"
                 /\ s.joined <=> proc'[s.pid].st # "joining"
                 /\ s.at \in {Infinity, proc'[s.pid].at}
                 /\ ~s.joined => s.at = Infinity /\ s.peer = Unpeered /\ task'[u] = <<>>
  <2> DEFINE i == session[u].pid
  <2>1. /\ session[u] # NoSession /\ session'[u].pid = i
        /\ session'[u].joined = session[u].joined
        /\ session'[u].at \in {session[u].at, proc[i].at}
        /\ proc'[i].open = proc[i].open /\ proc'[i].at = proc[i].at
        /\ proc'[i].st # "gone" /\ (proc'[i].st = "joining" <=> proc[i].st = "joining")
        /\ ~session[u].joined => /\ session'[u].at = session[u].at
                                 /\ session'[u].peer = session[u].peer
                                 /\ task'[u] = task[u]
    BY <1>1
  <2>2. /\ proc[i].open /\ proc[i].st # "gone"
        /\ session[u].joined <=> proc[i].st # "joining"
        /\ session[u].at \in {Infinity, proc[i].at}
        /\ ~session[u].joined => session[u].at = Infinity /\ session[u].peer = Unpeered
                                 /\ task[u] = <<>>
    BY <2>1 DEF Attached
  <2> HIDE DEF i
  <2>. QED  BY <2>1, <2>2
<1>. QED  BY <1>1 DEF Attached

LEMMA AttachedKept ==
  ASSUME VoiceTypes, Owned, crowd = Members, OneProcess, Attached, Heeded,
         \A u \in Members \ hasty : BarFollows(u), [VoiceNext]_voiceVars
  PROVE  Attached'
<1>0. /\ hasty = {} /\ \A u \in Members : BarFollows(u)
      /\ \A u \in Members : session[u] # NoSession =>
            /\ session[u].pid \in Pids /\ session[u].pid[1] = u
            /\ proc[session[u].pid].open /\ proc[session[u].pid].st # "gone"
  BY SessionFacts DEF OneProcess, Attached
<1>1. ASSUME UNCHANGED <<session, task, proc>> PROVE Attached'
  BY <1>1 DEF Attached
<1>2. ASSUME NEW u \in Members, ClicksJoin(u) PROVE Attached'
  BY <1>0, <1>1, <1>2, PairJoin
<1>3. ASSUME NEW u \in Members, ClicksLeave(u) PROVE Attached'
  <2> DEFINE i == session[u].pid
  <2>1. /\ i \in Pids /\ i[1] = u /\ session'[u] = NoSession /\ task'[u] = <<>>
        /\ \A j \in Pids \ {i} : proc'[j] = proc[j]
        /\ \A w \in Members \ {u} : session'[w] = session[w] /\ task'[w] = task[w]
    <3>1. BarFollows(u)
      BY <1>0
    <3>. QED  BY <1>3, <3>1, PairLeave
  <2> HIDE DEF i
  <2>2. \A w \in Members \ {u} : session[w] # NoSession => proc'[session[w].pid] = proc[session[w].pid]
    BY <1>0, <2>1
  <2>3. \A w \in Members : session'[w] = NoSession => task'[w] = <<>>
    BY <2>1 DEF Attached
  <2>4. \A w \in Members : session'[w] # NoSession => w # u
    BY <2>1
  <2>5. ASSUME NEW w \in Members, session'[w] # NoSession
        PROVE  LET j == session[w].pid
               IN  /\ session[w] # NoSession /\ session'[w].pid = j
                   /\ session'[w].joined = session[w].joined
                   /\ session'[w].at \in {session[w].at, proc[j].at}
                   /\ proc'[j].open = proc[j].open /\ proc'[j].at = proc[j].at
                   /\ proc'[j].st # "gone" /\ (proc'[j].st = "joining" <=> proc[j].st = "joining")
                   /\ ~session[w].joined => /\ session'[w].at = session[w].at
                                            /\ session'[w].peer = session[w].peer
                                            /\ task'[w] = task[w]
    BY <1>0, <2>1, <2>2, <2>4, <2>5
  <2>. QED  BY <2>3, <2>5, AttachedFrame
<1>4. ASSUME NEW u \in Members, ViewHears(u) PROVE Attached'
  BY <1>1, <1>4 DEF ViewHears
<1>5. ASSUME crowd' = crowd, NEW u \in Members, GetsMicrophone(u) PROVE Attached'
  <2>1. PICK i \in Pids : Starts(u, i)
    BY <1>5, TypesOfStart
  <2>2. /\ i[1] = u /\ awaiting[u] > 0 /\ task' = task
        /\ proc' = [proc EXCEPT ![i] = [user |-> u, st |-> "joining", at |-> 0, open |-> TRUE]]
        /\ session' = [session EXCEPT ![u] =
              [pid |-> i, joined |-> FALSE, at |-> Infinity, muted |-> FALSE, peer |-> Unpeered]]
    BY <2>1 DEF Starts
  <2>3. session[u] = NoSession /\ task'[u] = <<>>
    BY <1>0, <2>2 DEF BarFollows, Attached
  <2>4. /\ proc'[i].st = "joining" /\ proc'[i].open
        /\ \A j \in Pids \ {i} : proc'[j] = proc[j]
        /\ session'[u].pid = i /\ session'[u] # NoSession /\ session'[u].joined = FALSE
        /\ session'[u].at = Infinity /\ session'[u].peer = Unpeered
        /\ \A w \in Members \ {u} : session'[w] = session[w]
    BY <2>2, RealSession DEF VoiceTypes, NoSession
  <2>5. \A w \in Members \ {u} : session[w] # NoSession => proc'[session[w].pid] = proc[session[w].pid]
    BY <1>0, <2>2, <2>4
  <2>6. \A w \in Members : session'[w] = NoSession => task'[w] = <<>>
    BY <2>2, <2>4 DEF Attached
  <2>7. ASSUME NEW w \in Members \ {u}, session'[w] # NoSession
        PROVE  LET s == session'[w]
               IN  /\ proc'[s.pid].open /\ proc'[s.pid].st # "gone"
                   /\ s.joined <=> proc'[s.pid].st # "joining"
                   /\ s.at \in {Infinity, proc'[s.pid].at}
                   /\ ~s.joined => s.at = Infinity /\ s.peer = Unpeered /\ task'[w] = <<>>
    BY <2>2, <2>4, <2>5, <2>7 DEF Attached
  <2>8. LET s == session'[u]
        IN  /\ proc'[s.pid].open /\ proc'[s.pid].st # "gone"
            /\ s.joined <=> proc'[s.pid].st # "joining"
            /\ s.at \in {Infinity, proc'[s.pid].at}
            /\ ~s.joined => s.at = Infinity /\ s.peer = Unpeered /\ task'[u] = <<>>
    BY <2>3, <2>4
  <2>. QED  BY <2>6, <2>7, <2>8 DEF Attached
<1>6. ASSUME NEW u \in Members, ClicksMute(u) \/ ViewRemounts(u) \/ GetsNoMicrophone(u)
      PROVE  Attached'
  BY <1>6, TwoAreNotAlone DEF ClicksMute, ViewRemounts, GetsNoMicrophone, Incident
<1>7. ASSUME NEW u \in Members, session[u] # NoSession, session[u].joined, SessionGoesOn(u),
             proc' = proc, session'[u].at \in {session[u].at, proc[session[u].pid].at}
      PROVE  Attached'
  <2>1. /\ session'[u] # NoSession /\ session'[u].pid = session[u].pid
        /\ session'[u].joined = session[u].joined
        /\ \A w \in Members \ {u} : session'[w] = session[w] /\ task'[w] = task[w]
    BY <1>7 DEF SessionGoesOn
  <2>2. \A w \in Members : session'[w] = NoSession => task'[w] = <<>>
    BY <2>1 DEF Attached
  <2>3. ASSUME NEW w \in Members, session'[w] # NoSession
        PROVE  LET j == session[w].pid
               IN  /\ session[w] # NoSession /\ session'[w].pid = j
                   /\ session'[w].joined = session[w].joined
                   /\ session'[w].at \in {session[w].at, proc[j].at}
                   /\ proc'[j].open = proc[j].open /\ proc'[j].at = proc[j].at
                   /\ proc'[j].st # "gone" /\ (proc'[j].st = "joining" <=> proc[j].st = "joining")
                   /\ ~session[w].joined => /\ session'[w].at = session[w].at
                                            /\ session'[w].peer = session[w].peer
                                            /\ task'[w] = task[w]
    <3>1. CASE w = u
      BY <1>0, <1>7, <2>1, <3>1
    <3>2. CASE w # u
      BY <1>0, <1>7, <2>1, <2>3, <3>2
    <3>. QED  BY <3>1, <3>2
  <2>. QED  BY <2>2, <2>3, AttachedFrame
<1>8. ASSUME NEW u \in Members, NEW n \in DOMAIN task[u], session[u] # NoSession, Negotiates(u, n)
      PROVE  Attached'
  <2>1. SessionGoesOn(u) /\ proc' = proc /\ session'[u].at = session[u].at
    BY <1>8, GoingOn
  <2>2. session[u].joined
    <3>1. task[u] # <<>>
      BY <1>8
    <3>. QED  BY <1>8, <3>1 DEF Attached
  <2>. QED  BY <1>7, <1>8, <2>1, <2>2
<1>9. ASSUME crowd' = crowd, NEW i \in Pids, Authorizes(i) PROVE Attached'
  <2> DEFINE u == i[1]
  <2>1. /\ proc[i].st = "joining" /\ proc[i].open /\ u \in Members
        /\ session[u] # NoSession /\ session[u].pid = i
        /\ proc'[i].st = "stamped" /\ proc'[i].open
        /\ \A j \in Pids \ {i} : proc'[j] = proc[j]
        /\ session'[u] # NoSession /\ session'[u].pid = i /\ session'[u].joined
        /\ session'[u].at = session[u].at
        /\ \A w \in Members \ {u} : session'[w] = session[w]
        /\ task' = task
    BY <1>9, PairAnswer
  <2> HIDE DEF u
  <2>2. session[u].at = Infinity
    BY <2>1 DEF Attached
  <2>3. \A w \in Members \ {u} : session[w] # NoSession => proc'[session[w].pid] = proc[session[w].pid]
    BY <1>0, <2>1
  <2>4. ASSUME NEW w \in Members, session'[w] # NoSession
        PROVE  LET s == session'[w]
               IN  /\ proc'[s.pid].open /\ proc'[s.pid].st # "gone"
                   /\ s.joined <=> proc'[s.pid].st # "joining"
                   /\ s.at \in {Infinity, proc'[s.pid].at}
                   /\ ~s.joined => s.at = Infinity /\ s.peer = Unpeered /\ task'[w] = <<>>
    <3>1. CASE w = u
      BY <2>1, <2>2, <3>1
    <3>2. CASE w # u
      BY <2>1, <2>3, <2>4, <3>2 DEF Attached
    <3>. QED  BY <3>1, <3>2
  <2>5. \A w \in Members : session'[w] = NoSession => task'[w] = <<>>
    BY <2>1 DEF Attached
  <2>. QED  BY <2>4, <2>5 DEF Attached
<1>10. ASSUME crowd' = crowd, NEW i \in Pids, Tracks(i) \/ Lists(i) \/ Ends(i) PROVE Attached'
  <2>1. /\ proc'[i].open = proc[i].open /\ proc[i].st \notin {"gone", "joining"}
        /\ \A j \in Pids \ {i} : proc'[j] = proc[j]
        /\ UNCHANGED <<session, task>>
        /\ proc'[i].st # "joining" /\ (proc'[i].st # "gone" \/ ~proc[i].open)
        /\ (proc'[i].at = proc[i].at \/ ~proc[i].open)
    <3>1. CASE Tracks(i)
      BY <1>10, <3>1, PairTracks
    <3>2. CASE Lists(i)
      BY <1>10, <3>2, PairLists
    <3>3. CASE Ends(i)
      BY <1>10, <3>3, PairEnds
    <3>. QED  BY <1>10, <3>1, <3>2, <3>3
  <2>2. ASSUME NEW w \in Members, session'[w] # NoSession
        PROVE  LET j == session[w].pid
               IN  /\ session[w] # NoSession /\ session'[w].pid = j
                   /\ session'[w].joined = session[w].joined
                   /\ session'[w].at \in {session[w].at, proc[j].at}
                   /\ proc'[j].open = proc[j].open /\ proc'[j].at = proc[j].at
                   /\ proc'[j].st # "gone" /\ (proc'[j].st = "joining" <=> proc[j].st = "joining")
                   /\ ~session[w].joined => /\ session'[w].at = session[w].at
                                            /\ session'[w].peer = session[w].peer
                                            /\ task'[w] = task[w]
    <3>1. session'[w] = session[w] /\ task'[w] = task[w]
      BY <2>1
    <3>2. CASE session[w].pid = i
      BY <1>0, <2>1, <2>2, <3>1, <3>2
    <3>3. CASE session[w].pid # i
      BY <1>0, <2>1, <2>2, <3>1, <3>3
    <3>. QED  BY <3>2, <3>3
  <2>3. \A w \in Members : session'[w] = NoSession => task'[w] = <<>>
    BY <2>1 DEF Attached
  <2>. QED  BY <2>2, <2>3, AttachedFrame
<1>11. ASSUME crowd' = crowd, NEW i \in Pids, Receives(i) PROVE Attached'
  <2>1. /\ SessionGoesOn(i[1]) /\ proc' = proc /\ i[1] \in Members
        /\ session[i[1]] # NoSession /\ session[i[1]].joined /\ session[i[1]].pid = i
        /\ session'[i[1]].at \in {session[i[1]].at, proc[i].at}
    BY <1>11, PairReceives
  <2>. QED  BY <1>7, <2>1
<1>12. ASSUME NewsSpreads PROVE Attached'
  BY <1>1, <1>12 DEF NewsSpreads
<1>13. CASE UNCHANGED voiceVars
  BY <1>1, <1>13 DEF voiceVars
<1>. QED  BY <1>2, <1>3, <1>4, <1>5, <1>6, <1>8, <1>9, <1>10, <1>11, <1>12, <1>13 DEF VoiceNext

\* A listening process still listens; what is new in its inbox is fit to be heard.
LEMMA HeededFrame ==
  ASSUME Heeded,
         \A i \in Pids : Listens(i)' => Listens(i) /\ proc'[i].at = proc[i].at,
         \A i \in Pids : ~Listens(i)' => inbox'[i] = <<>>,
         \A i \in Pids : \A n \in DOMAIN inbox'[i] :
            \/ \E k \in DOMAIN inbox[i] : inbox'[i][n] = inbox[i][k]
            \/ /\ inbox'[i][n].t # "refused"
               /\ inbox'[i][n].t = "state" =>
                     {e \in inbox'[i][n].list : e.user = i[1]} = {[user |-> i[1], at |-> proc[i].at]}
  PROVE  Heeded'
<1>1. ASSUME NEW i \in Pids, NEW n \in DOMAIN inbox'[i]
      PROVE  /\ inbox'[i][n].t # "refused"
             /\ inbox'[i][n].t = "state" =>
                   {e \in inbox'[i][n].list : e.user = i[1]} = {[user |-> i[1], at |-> proc'[i].at]}
  <2>1. Listens(i)'
    <3>1. \A k \in DOMAIN <<>> : FALSE
      OBVIOUS
    <3>2. inbox'[i] # <<>>
      BY <1>1, <3>1
    <3>. QED  BY <3>2
  <2>2. proc'[i].at = proc[i].at
    BY <2>1
  <2>3. CASE \E k \in DOMAIN inbox[i] : inbox'[i][n] = inbox[i][k]
    <3>1. PICK k \in DOMAIN inbox[i] : inbox'[i][n] = inbox[i][k]
      BY <2>3
    <3>. QED  BY <2>2, <3>1 DEF Heeded
  <2>4. CASE /\ inbox'[i][n].t # "refused"
             /\ inbox'[i][n].t = "state" =>
                   {e \in inbox'[i][n].list : e.user = i[1]} = {[user |-> i[1], at |-> proc[i].at]}
    BY <2>2, <2>4
  <2>. QED  BY <1>1, <2>3, <2>4
<1>. QED  BY <1>1 DEF Heeded

LEMMA HeededKept ==
  ASSUME VoiceTypes, Owned, crowd = Members, OneProcess, Attached, Heeded,
         \A u \in Members \ hasty : BarFollows(u), [VoiceNext]_voiceVars
  PROVE  Heeded'
<1>0. /\ hasty = {} /\ \A u \in Members : BarFollows(u)
      /\ \A i \in Pids : \A n \in DOMAIN inbox[i] : inbox[i] # <<>> /\ Listens(i)
      /\ \A n \in DOMAIN <<>> : FALSE
  <2>1. \A n \in DOMAIN <<>> : FALSE
    OBVIOUS
  <2>. QED  BY <2>1 DEF OneProcess, Heeded
<1>1. ASSUME UNCHANGED <<proc, inbox>> PROVE Heeded'
  BY <1>1 DEF Heeded, Listens
<1>2. ASSUME NEW u \in Members, ClicksJoin(u) PROVE Heeded'
  BY <1>0, <1>1, <1>2, PairJoin
<1>3. ASSUME NEW u \in Members, ClicksLeave(u) PROVE Heeded'
  <2> DEFINE i == session[u].pid
  <2>1. BarFollows(u)
    BY <1>0
  <2>2. /\ i \in Pids /\ proc'[i].open = FALSE /\ inbox'[i] = <<>>
        /\ \A j \in Pids \ {i} : proc'[j] = proc[j] /\ inbox'[j] = inbox[j]
    BY <1>3, <2>1, PairLeave
  <2> HIDE DEF i
  <2>3. \A j \in Pids : Listens(j)' => j # i
    BY <2>2 DEF Listens
  <2>4. \A j \in Pids : j # i => (Listens(j)' <=> Listens(j))
    BY <2>2 DEF Listens
  <2>5. \A j \in Pids : Listens(j)' => Listens(j) /\ proc'[j].at = proc[j].at
    BY <2>2, <2>3, <2>4
  <2>6. \A j \in Pids : ~Listens(j)' => inbox'[j] = <<>>
    BY <2>2, <2>4 DEF Heeded
  <2>7. \A j \in Pids : \A n \in DOMAIN inbox'[j] : \E k \in DOMAIN inbox[j] : inbox'[j][n] = inbox[j][k]
    BY <1>0, <2>2
  <2>. QED  BY <2>5, <2>6, <2>7, HeededFrame
<1>4. ASSUME NEW u \in Members, ViewHears(u) PROVE Heeded'
  BY <1>1, <1>4 DEF ViewHears
<1>5. ASSUME crowd' = crowd, NEW u \in Members, GetsMicrophone(u) PROVE Heeded'
  <2>1. PICK i \in Pids : Starts(u, i)
    BY <1>5, TypesOfStart
  <2>2. /\ proc[i] = Unstarted /\ inbox' = inbox
        /\ proc' = [proc EXCEPT ![i] = [user |-> u, st |-> "joining", at |-> 0, open |-> TRUE]]
    BY <2>1 DEF Starts
  <2>3. proc'[i].st = "joining" /\ \A j \in Pids \ {i} : proc'[j] = proc[j]
    BY <2>2 DEF VoiceTypes
  <2>4. ~Listens(i) /\ ~Listens(i)'
    BY <2>2, <2>3 DEF Listens, Unstarted
  <2>5. \A j \in Pids : (Listens(j)' <=> Listens(j)) /\ (Listens(j) => proc'[j].at = proc[j].at)
    BY <2>3, <2>4 DEF Listens
  <2>6. \A j \in Pids : ~Listens(j)' => inbox'[j] = <<>>
    BY <2>2, <2>5 DEF Heeded
  <2>7. \A j \in Pids : \A n \in DOMAIN inbox'[j] : \E k \in DOMAIN inbox[j] : inbox'[j][n] = inbox[j][k]
    BY <2>2
  <2>. QED  BY <2>5, <2>6, <2>7, HeededFrame
<1>6. ASSUME NEW u \in Members, ClicksMute(u) \/ ViewRemounts(u) \/ GetsNoMicrophone(u)
      PROVE  Heeded'
  BY <1>6, TwoAreNotAlone DEF ClicksMute, ViewRemounts, GetsNoMicrophone, Incident
<1>7. ASSUME crowd' = crowd, NEW i \in Pids, Authorizes(i) PROVE Heeded'
  <2>1. /\ proc[i].st = "joining" /\ proc'[i].open /\ proc'[i].st = "stamped"
        /\ \A j \in Pids \ {i} : proc'[j] = proc[j]
        /\ inbox' = inbox
    BY <1>7, PairAnswer
  <2>2. inbox[i] = <<>> /\ Listens(i)' /\ ~Listens(i)
    BY <2>1 DEF Heeded, Listens
  <2>3. \A j \in Pids \ {i} : Listens(j)' <=> Listens(j)
    BY <2>1 DEF Listens
  <2>4. \A j \in Pids : ~Listens(j)' => inbox'[j] = <<>>
    BY <2>1, <2>2, <2>3 DEF Heeded
  <2>5. ASSUME NEW j \in Pids, NEW n \in DOMAIN inbox'[j]
        PROVE  /\ inbox'[j][n].t # "refused"
               /\ inbox'[j][n].t = "state" =>
                     {e \in inbox'[j][n].list : e.user = j[1]} = {[user |-> j[1], at |-> proc'[j].at]}
    <3>1. j # i /\ n \in DOMAIN inbox[j]
      BY <1>0, <2>1, <2>2, <2>5
    <3>2. proc'[j] = proc[j] /\ inbox'[j] = inbox[j]
      BY <2>1, <3>1
    <3>. QED  BY <3>1, <3>2 DEF Heeded
  <2>. QED  BY <2>4, <2>5 DEF Heeded
<1>8. ASSUME crowd' = crowd, NEW i \in Pids, Tracks(i) \/ Ends(i) PROVE Heeded'
  <2>1. /\ proc'[i].open = proc[i].open /\ inbox' = inbox
        /\ \A j \in Pids \ {i} : proc'[j] = proc[j]
        /\ \/ ~proc[i].open
           \/ proc[i].st = "stamped" /\ proc'[i].st = "tracked" /\ proc'[i].at = proc[i].at
    <3>1. CASE Tracks(i)
      BY <1>8, <3>1, PairTracks
    <3>2. CASE Ends(i)
      BY <1>8, <3>2, PairEnds
    <3>. QED  BY <1>8, <3>1, <3>2
  <2>2. \A j \in Pids : (Listens(j)' <=> Listens(j)) /\ (Listens(j) => proc'[j].at = proc[j].at)
    BY <2>1 DEF Listens
  <2>3. \A j \in Pids : ~Listens(j)' => inbox'[j] = <<>>
    BY <2>1, <2>2 DEF Heeded
  <2>4. \A j \in Pids : \A n \in DOMAIN inbox'[j] : \E k \in DOMAIN inbox[j] : inbox'[j][n] = inbox[j][k]
    BY <2>1
  <2>. QED  BY <2>2, <2>3, <2>4, HeededFrame
<1>9. ASSUME crowd' = crowd, NEW i \in Pids, Lists(i) PROVE Heeded'
  <2> DEFINE e == [t |-> "state", list |-> Listing]
  <2>1. /\ proc[i].st = "tracked" /\ proc'[i].st = "present" /\ proc[i].open /\ proc'[i].open
        /\ proc'[i].at = proc[i].at
        /\ \A j \in Pids \ {i} : proc'[j] = proc[j] /\ inbox'[j] = inbox[j]
        /\ inbox'[i] = Append(inbox[i], e) /\ inbox[i] \in Seq(Pushed) /\ e \in Pushed
    BY <1>9, PairLists
  <2>2. e.t = "state" /\ {f \in e.list : f.user = i[1]} = {[user |-> i[1], at |-> proc[i].at]}
    BY <2>1, ListingOfTwo
  <2> HIDE DEF e
  <2>3. \A j \in Pids : (Listens(j)' <=> Listens(j)) /\ (Listens(j) => proc'[j].at = proc[j].at)
    BY <2>1 DEF Listens
  <2>4. Listens(i)
    BY <2>1 DEF Listens
  <2>5. \A j \in Pids : ~Listens(j)' => inbox'[j] = <<>>
    BY <2>1, <2>3, <2>4 DEF Heeded
  <2>6. \A n \in DOMAIN inbox'[i] : inbox'[i][n] = e \/ \E k \in DOMAIN inbox[i] : inbox'[i][n] = inbox[i][k]
    BY <2>1, OldOrAppended
  <2>7. ASSUME NEW j \in Pids, NEW n \in DOMAIN inbox'[j]
        PROVE  \/ \E k \in DOMAIN inbox[j] : inbox'[j][n] = inbox[j][k]
               \/ /\ inbox'[j][n].t # "refused"
                  /\ inbox'[j][n].t = "state" =>
                        {f \in inbox'[j][n].list : f.user = j[1]} = {[user |-> j[1], at |-> proc[j].at]}
    <3>1. CASE j = i
      BY <2>2, <2>6, <2>7, <3>1
    <3>2. CASE j # i
      BY <2>1, <2>7, <3>2
    <3>. QED  BY <3>1, <3>2
  <2>. QED  BY <2>3, <2>5, <2>7, HeededFrame
<1>10. ASSUME crowd' = crowd, NEW i \in Pids, Receives(i) PROVE Heeded'
  <2>1. /\ Listens(i) /\ proc' = proc /\ inbox[i] # <<>> /\ inbox[i] \in Seq(Pushed)
        /\ inbox'[i] = Tail(inbox[i]) /\ \A j \in Pids \ {i} : inbox'[j] = inbox[j]
    BY <1>10, PairReceives
  <2>2. \A n \in DOMAIN inbox'[i] : n + 1 \in DOMAIN inbox[i] /\ inbox'[i][n] = inbox[i][n + 1]
    BY <2>1, Shortened
  <2>3. \A j \in Pids : (Listens(j)' <=> Listens(j)) /\ proc'[j].at = proc[j].at
    BY <2>1 DEF Listens
  <2>4. \A j \in Pids : ~Listens(j)' => inbox'[j] = <<>>
    BY <2>1, <2>3 DEF Heeded
  <2>5. \A j \in Pids : \A n \in DOMAIN inbox'[j] : \E k \in DOMAIN inbox[j] : inbox'[j][n] = inbox[j][k]
    BY <2>1, <2>2
  <2>. QED  BY <2>3, <2>4, <2>5, HeededFrame
<1>11. ASSUME crowd' = crowd, NewsSpreads PROVE Heeded'
  <2>1. /\ news[1] \in Diffs /\ proc' = proc
        /\ \A i \in Pids : inbox'[i] = IF Listens(i) THEN Append(inbox[i], news[1]) ELSE inbox[i]
    BY <1>11, TypesOfNews DEF NewsSpreads
  <2>2. news[1] \in Pushed /\ news[1].t \notin {"refused", "state"}
    BY <2>1 DEF Pushed, Diffs
  <2>3. \A j \in Pids : (Listens(j)' <=> Listens(j)) /\ proc'[j].at = proc[j].at
    BY <2>1 DEF Listens
  <2>4. \A j \in Pids : ~Listens(j)' => inbox'[j] = <<>>
    BY <2>1, <2>3 DEF Heeded
  <2>5. ASSUME NEW j \in Pids, NEW n \in DOMAIN inbox'[j]
        PROVE  inbox'[j][n] = news[1] \/ \E k \in DOMAIN inbox[j] : inbox'[j][n] = inbox[j][k]
    <3>1. inbox[j] \in Seq(Pushed)
      BY DEF VoiceTypes
    <3>2. \A k \in DOMAIN Append(inbox[j], news[1]) : Append(inbox[j], news[1])[k] = news[1]
              \/ \E l \in DOMAIN inbox[j] : Append(inbox[j], news[1])[k] = inbox[j][l]
      BY <2>2, <3>1, OldOrAppended
    <3>3. CASE inbox'[j] = Append(inbox[j], news[1])
      BY <2>5, <3>2, <3>3
    <3>4. CASE inbox'[j] = inbox[j]
      BY <2>5, <3>4
    <3>. QED  BY <2>1, <3>3, <3>4
  <2>. QED  BY <2>2, <2>3, <2>4, <2>5, HeededFrame
<1>12. ASSUME NEW u \in Members, NEW n \in DOMAIN task[u], session[u] # NoSession, Negotiates(u, n)
       PROVE  Heeded'
  <2>1. WentOn(u, n) /\ session[u].peer \in Links /\ proc' = proc
    BY <1>12, GoingOn
  <2>2. \/ inbox' = inbox
        \/ \E m \in Descriptions : inbox' = Signalled(inbox, u, m)
    <3>1. session[u].peer.conn \in Conns
      BY <2>1, LinkNotNone
    <3>2. Desc("offer", session[u].peer.conn) \in Descriptions /\ Desc("answer", session[u].peer.conn) \in Descriptions
      BY <3>1 DEF Desc, Descriptions
    <3>. QED  BY <2>1, <3>2 DEF WentOn
  <2>3. ASSUME NEW m \in Descriptions, inbox' = Signalled(inbox, u, m) PROVE Heeded'
    <3>1. m.t \notin {"refused", "state"} /\ Desc("ice", m.conn).t \notin {"refused", "state"}
      BY DEF Descriptions, Desc
    <3>2. \A j \in Pids : (Listens(j)' <=> Listens(j)) /\ proc'[j].at = proc[j].at
      BY <2>1 DEF Listens
    <3>3. \A j \in Pids : ~Listens(j) => inbox'[j] = inbox[j]
      BY <2>3, SignalTypes
    <3>4. \A j \in Pids : ~Listens(j)' => inbox'[j] = <<>>
      BY <3>2, <3>3 DEF Heeded
    <3>5. \A j \in Pids : \A n_1 \in DOMAIN inbox'[j] :
             inbox'[j][n_1] \in {m, Desc("ice", m.conn)}
             \/ \E k \in DOMAIN inbox[j] : inbox'[j][n_1] = inbox[j][k]
      BY <2>3, SignalAdds
    <3>. QED  BY <3>1, <3>2, <3>4, <3>5, HeededFrame
  <2>. QED  BY <1>1, <2>1, <2>2, <2>3
<1>13. CASE UNCHANGED voiceVars
  BY <1>1, <1>13 DEF voiceVars
<1>. QED  BY <1>2, <1>3, <1>4, <1>5, <1>6, <1>7, <1>8, <1>9, <1>10, <1>11, <1>12, <1>13 DEF VoiceNext

-----------------------------------------------------------------------------
(* VoiceMesh: what one hears of the other *)

Prolongs(s, t) == \A n \in DOMAIN s : n \in DOMAIN t /\ t[n] = s[n]

LEMMA ProlongsAppend ==
  ASSUME NEW S, NEW s \in Seq(S), NEW e \in S
  PROVE  Prolongs(s, Append(s, e))
BY Appended DEF Prolongs

LEMMA SameProlongs == \A s : Prolongs(s, s)
BY DEF Prolongs

\* Nothing goes that was there; what comes is traced.
LEMMA TracedFrame ==
  ASSUME Traced,
         \A v \in Members : Here(v) => Here(v)',
         \A v \in Members, t \in Nat : TrackedAt(v, t) => TrackedAt(v, t)',
         \A i \in Pids : inbox'[i] = <<>> \/ Prolongs(inbox[i], inbox'[i]),
         Prolongs(news, news'),
         VoiceTypes,
         \A i \in Pids : \A n \in DOMAIN inbox'[i] : n \in DOMAIN inbox[i] \/ TracedMessage(i, n)',
         \A n \in DOMAIN news' : n \in DOMAIN news \/ TracedNews(n)',
         \A u \in Members : session'[u] # NoSession =>
            \/ session'[u].peer = Unpeered /\ task'[u] = <<>>
            \/ /\ session[u] # NoSession /\ session'[u].pid = session[u].pid
               /\ session[u].pid \in Pids
               /\ inbox'[session[u].pid] = <<>> => inbox[session[u].pid] = <<>>
               /\ (session[u].peer # Unpeered \/ task[u] # <<>>)
  PROVE  Traced'
<1>0. \A n \in DOMAIN <<>> : FALSE
  OBVIOUS
<1>1. \A i \in Pids : \A n : \A v : inbox'[i] # <<>> \/ inbox[i] = <<>> =>
         (LeaveAfter(i, n, v) => LeaveAfter(i, n, v)')
  BY <1>0 DEF LeaveAfter, Prolongs
<1>2. ASSUME NEW i \in Pids, NEW n \in DOMAIN inbox'[i] PROVE TracedMessage(i, n)'
  <2>1. inbox'[i] # <<>>
    BY <1>0, <1>2
  <2>2. CASE n \in DOMAIN inbox[i]
    <3> DEFINE m == inbox[i][n]
               v == Other(i[1])
    <3>1. inbox'[i][n] = m /\ TracedMessage(i, n) /\ v \in Members
      BY <2>1, <2>2, PidMember, OtherMember DEF Prolongs, Traced
    <3>2. LeaveAfter(i, n, v) => LeaveAfter(i, n, v)'
      BY <1>1, <2>1
    <3>3. m \in Pushed
      BY <2>2, LenProperties, ElementOfSeq DEF VoiceTypes
    <3>4. m.t = "join" => m.at \in Nat
      BY <3>3 DEF Pushed, Diffs, Relays, Descriptions
    <3>5. m.t = "state" => \A e \in m.list : e.at \in Nat
      BY <3>3 DEF Pushed, Diffs, Relays, Descriptions, Entries
    <3> HIDE DEF m, v
    <3>6. /\ IsSignal(m) => Here(v)' \/ LeaveAfter(i, n, v)'
          /\ m.t = "join" /\ m.user = v => TrackedAt(v, m.at)' \/ LeaveAfter(i, n, v)'
          /\ m.t = "state" => \A e \in m.list : e.user = v =>
                TrackedAt(v, e.at)' \/ LeaveAfter(i, n, v)'
      BY <3>1, <3>2, <3>4, <3>5 DEF TracedMessage, m, v
    <3>. QED  BY <3>1, <3>6 DEF TracedMessage, m, v, Here, TrackedAt, LeaveAfter
  <2>. QED  BY <1>2, <2>2
<1>3. ASSUME NEW n \in DOMAIN news' PROVE TracedNews(n)'
  <2>1. CASE n \in DOMAIN news
    <3>1. news'[n] = news[n] /\ TracedNews(n) /\ news[n] \in Diffs
      BY <2>1, LenProperties, ElementOfSeq DEF Prolongs, Traced, VoiceTypes
    <3>2. news[n].user \in Members /\ news[n].at \in Nat
      BY <3>1 DEF Diffs
    <3>3. TrackedAt(news[n].user, news[n].at) => TrackedAt(news[n].user, news[n].at)'
      <4>1. news'[n] = news[n]
        BY <3>1
      <4>. QED  BY <3>2, <4>1 DEF TrackedAt
    <3>. QED  BY <3>1, <3>3 DEF TracedNews, Prolongs, TrackedAt
  <2>. QED  BY <1>3, <2>1
<1>4. ASSUME NEW u \in Members, session'[u] # NoSession PROVE TracedPeer(u)'
  <2>1. CASE session'[u].peer = Unpeered /\ task'[u] = <<>>
    BY <2>1 DEF TracedPeer
  <2>2. CASE /\ session[u] # NoSession /\ session'[u].pid = session[u].pid
             /\ session[u].pid \in Pids
             /\ inbox'[session[u].pid] = <<>> => inbox[session[u].pid] = <<>>
             /\ (session[u].peer # Unpeered \/ task[u] # <<>>)
    <3> DEFINE i == session[u].pid
    <3>1. Here(Other(u)) \/ LeaveAfter(i, 0, Other(u))
      BY <2>2 DEF Traced, TracedPeer
    <3>2. Here(Other(u)) => Here(Other(u))'
      BY OtherMember
    <3>3. LeaveAfter(i, 0, Other(u)) =>
             \/ \E m \in DOMAIN inbox'[i] : m > 0 /\ IsLeave(inbox'[i][m], Other(u))
             \/ \E m \in DOMAIN news' : IsLeave(news'[m], Other(u))
      BY <1>0, <2>2 DEF LeaveAfter, Prolongs
    <3>. QED  BY <2>2, <3>1, <3>2, <3>3 DEF TracedPeer, LeaveAfter
  <2>. QED  BY <1>4, <2>1, <2>2
<1>5. \A u \in Members : TracedPeer(u)'
  BY <1>4 DEF TracedPeer
<1>. QED  BY <1>2, <1>3, <1>5 DEF Traced

\* Processes come and go on: all who were there still are.
LEMMA StillHere ==
  ASSUME \A j \in Pids : Live(proc[j].st) => Live(proc'[j].st) /\ proc'[j].user = proc[j].user,
         \A j \in Pids : Tracked(proc[j].st) => Tracked(proc'[j].st) /\ proc'[j].at = proc[j].at
  PROVE  /\ \A v \in Members : Here(v) => Here(v)'
         /\ \A v \in Members, t \in Nat : TrackedAt(v, t) => TrackedAt(v, t)'
BY DEF Here, TrackedAt, Live, Tracked

LEMMA TracedLeave ==
  ASSUME VoiceTypes, Owned, crowd = Members, OneProcess, Attached, Heeded, Traced,
         NEW u \in Members, BarFollows(u), ClicksLeave(u)
  PROVE  Traced'
<1> DEFINE i == session[u].pid
<1>1. /\ i \in Pids /\ i[1] = u /\ proc[i].st = "present" /\ proc'[i].st = "present"
      /\ inbox'[i] = <<>> /\ proc'[i].user = proc[i].user /\ proc'[i].at = proc[i].at
      /\ \A j \in Pids \ {i} : proc'[j] = proc[j] /\ inbox'[j] = inbox[j]
      /\ session'[u] = NoSession
      /\ \A w \in Members \ {u} : session'[w] = session[w] /\ task'[w] = task[w]
      /\ news' = news
  BY PairLeave
<1> HIDE DEF i
<1>2. /\ \A v \in Members : Here(v) => Here(v)'
      /\ \A v \in Members, t \in Nat : TrackedAt(v, t) => TrackedAt(v, t)'
  BY <1>1, StillHere DEF Tracked, Live
<1>3. \A n \in DOMAIN <<>> : FALSE
  OBVIOUS
<1>4. \A j \in Pids : inbox'[j] = <<>> \/ Prolongs(inbox[j], inbox'[j])
  BY <1>1, SameProlongs
<1>5. \A j \in Pids : \A n \in DOMAIN inbox'[j] : n \in DOMAIN inbox[j]
  BY <1>1, <1>3
<1>6. Prolongs(news, news') /\ \A n \in DOMAIN news' : n \in DOMAIN news
  BY <1>1, SameProlongs
<1>7. \A w \in Members : session'[w] # NoSession =>
         w # u /\ session[w] # NoSession /\ session[w].pid \in Pids /\ session[w].pid # i
  BY <1>1, SessionFacts
<1>8. \A w \in Members : session'[w] # NoSession =>
         \/ session'[w].peer = Unpeered /\ task'[w] = <<>>
         \/ /\ session[w] # NoSession /\ session'[w].pid = session[w].pid
            /\ session[w].pid \in Pids
            /\ inbox'[session[w].pid] = <<>> => inbox[session[w].pid] = <<>>
            /\ (session[w].peer # Unpeered \/ task[w] # <<>>)
  BY <1>1, <1>7
<1>. QED  BY <1>2, <1>4, <1>5, <1>6, <1>8, TracedFrame

LEMMA TracedStart ==
  ASSUME VoiceTypes, Owned, crowd = Members, OneProcess, Attached, Heeded, Traced, crowd' = crowd,
         NEW u \in Members, BarFollows(u), GetsMicrophone(u)
  PROVE  Traced'
<1>1. PICK i \in Pids : Starts(u, i)
  BY TypesOfStart
<1>2. /\ i[1] = u /\ awaiting[u] > 0 /\ UNCHANGED <<task, inbox, news>> /\ proc[i] = Unstarted
      /\ proc' = [proc EXCEPT ![i] = [user |-> u, st |-> "joining", at |-> 0, open |-> TRUE]]
      /\ session' = [session EXCEPT ![u] =
            [pid |-> i, joined |-> FALSE, at |-> Infinity, muted |-> FALSE, peer |-> Unpeered]]
  BY <1>1 DEF Starts
<1>3. session[u] = NoSession /\ task'[u] = <<>>
  BY <1>2 DEF BarFollows, Attached
<1>4. /\ \A j \in Pids \ {i} : proc'[j] = proc[j]
      /\ session'[u].peer = Unpeered
      /\ \A w \in Members \ {u} : session'[w] = session[w]
  BY <1>2 DEF VoiceTypes
<1>5. ~Live(proc[i].st) /\ ~Tracked(proc[i].st)
  BY <1>2 DEF Live, Tracked, Unstarted
<1>6. /\ \A v \in Members : Here(v) => Here(v)'
      /\ \A v \in Members, t \in Nat : TrackedAt(v, t) => TrackedAt(v, t)'
  BY <1>4, <1>5, StillHere
<1>7. \A w \in Members : session'[w] # NoSession =>
         \/ session'[w].peer = Unpeered /\ task'[w] = <<>>
         \/ /\ session[w] # NoSession /\ session'[w].pid = session[w].pid
            /\ session[w].pid \in Pids
            /\ inbox'[session[w].pid] = <<>> => inbox[session[w].pid] = <<>>
            /\ (session[w].peer # Unpeered \/ task[w] # <<>>)
  BY <1>2, <1>3, <1>4, SessionFacts
<1>8. \A j \in Pids : Prolongs(inbox[j], inbox'[j]) /\ \A n \in DOMAIN inbox'[j] : n \in DOMAIN inbox[j]
  BY <1>2, SameProlongs
<1>9. Prolongs(news, news') /\ \A n \in DOMAIN news' : n \in DOMAIN news
  BY <1>2, SameProlongs
<1>. QED  BY <1>6, <1>7, <1>8, <1>9, TracedFrame

LEMMA TracedAnswer ==
  ASSUME VoiceTypes, Owned, crowd = Members, OneProcess, Attached, Heeded, Traced, crowd' = crowd,
         NEW i \in Pids, Authorizes(i)
  PROVE  Traced'
<1> DEFINE u == i[1]
<1>1. /\ proc[i].st = "joining" /\ u \in Members
      /\ session[u] # NoSession /\ session[u].pid = i
      /\ \A j \in Pids \ {i} : proc'[j] = proc[j]
      /\ session'[u].pid = i /\ session'[u].peer = session[u].peer
      /\ \A w \in Members \ {u} : session'[w] = session[w]
      /\ UNCHANGED <<task, inbox, news>>
  BY PairAnswer
<1> HIDE DEF u
<1>2. ~Live(proc[i].st) /\ ~Tracked(proc[i].st)
  BY <1>1 DEF Live, Tracked
<1>3. /\ \A v \in Members : Here(v) => Here(v)'
      /\ \A v \in Members, t \in Nat : TrackedAt(v, t) => TrackedAt(v, t)'
  BY <1>1, <1>2, StillHere
<1>4. \A w \in Members : session'[w] # NoSession =>
         \/ session'[w].peer = Unpeered /\ task'[w] = <<>>
         \/ /\ session[w] # NoSession /\ session'[w].pid = session[w].pid
            /\ session[w].pid \in Pids
            /\ inbox'[session[w].pid] = <<>> => inbox[session[w].pid] = <<>>
            /\ (session[w].peer # Unpeered \/ task[w] # <<>>)
  BY <1>1, SessionFacts
<1>5. \A j \in Pids : Prolongs(inbox[j], inbox'[j]) /\ \A n \in DOMAIN inbox'[j] : n \in DOMAIN inbox[j]
  BY <1>1, SameProlongs
<1>6. Prolongs(news, news') /\ \A n \in DOMAIN news' : n \in DOMAIN news
  BY <1>1, SameProlongs
<1>. QED  BY <1>3, <1>4, <1>5, <1>6, TracedFrame

LEMMA TracedTracks ==
  ASSUME VoiceTypes, Owned, crowd = Members, OneProcess, Attached, Heeded, Traced, crowd' = crowd,
         NEW i \in Pids, Tracks(i)
  PROVE  Traced'
<1>1. /\ proc[i].st = "stamped" /\ proc'[i].st = "tracked"
      /\ proc[i].user = i[1] /\ proc'[i].user = i[1] /\ proc'[i].at = proc[i].at
      /\ \A j \in Pids \ {i} : proc'[j] = proc[j]
      /\ news' = Append(news, Diff("join", i)) /\ Diff("join", i) \in Diffs
      /\ UNCHANGED <<session, task, inbox>>
  BY PairTracks
<1>2. /\ \A v \in Members : Here(v) => Here(v)'
      /\ \A v \in Members, t \in Nat : TrackedAt(v, t) => TrackedAt(v, t)'
  BY <1>1, StillHere DEF Live, Tracked
<1>3. news \in Seq(Diffs)
  BY DEF VoiceTypes
<1>4. /\ Prolongs(news, news') /\ DOMAIN news' = DOMAIN news \cup {Len(news) + 1}
      /\ news'[Len(news) + 1] = Diff("join", i)
  BY <1>1, <1>3, ProlongsAppend, Appended
<1>5. ASSUME NEW n \in DOMAIN news' PROVE n \in DOMAIN news \/ TracedNews(n)'
  <2>1. CASE n = Len(news) + 1
    <3>1. news'[n].user = i[1] /\ news'[n].at = proc[i].at
      BY <1>1, <1>4, <2>1 DEF Diff
    <3>2. TrackedAt(news[n].user, news[n].at)'
      BY <1>1, <3>1 DEF TrackedAt, Tracked
    <3>. QED  BY <3>2 DEF TracedNews
  <2>. QED  BY <1>4, <1>5, <2>1
<1>6. \A w \in Members : session'[w] # NoSession =>
         \/ session'[w].peer = Unpeered /\ task'[w] = <<>>
         \/ /\ session[w] # NoSession /\ session'[w].pid = session[w].pid
            /\ session[w].pid \in Pids
            /\ inbox'[session[w].pid] = <<>> => inbox[session[w].pid] = <<>>
            /\ (session[w].peer # Unpeered \/ task[w] # <<>>)
  BY <1>1, SessionFacts
<1>7. \A j \in Pids : Prolongs(inbox[j], inbox'[j]) /\ \A n \in DOMAIN inbox'[j] : n \in DOMAIN inbox[j]
  BY <1>1, SameProlongs
<1>. QED  BY <1>2, <1>4, <1>5, <1>6, <1>7, TracedFrame

LEMMA TracedLists ==
  ASSUME VoiceTypes, Owned, crowd = Members, OneProcess, Attached, Heeded, Traced, crowd' = crowd,
         NEW i \in Pids, Lists(i)
  PROVE  Traced'
<1> DEFINE e == [t |-> "state", list |-> Listing]
<1>1. /\ proc[i].st = "tracked" /\ proc'[i].st = "present"
      /\ proc[i].user = i[1] /\ proc'[i].user = i[1] /\ proc'[i].at = proc[i].at
      /\ \A j \in Pids \ {i} : proc'[j] = proc[j] /\ inbox'[j] = inbox[j]
      /\ inbox'[i] = Append(inbox[i], e) /\ inbox[i] \in Seq(Pushed) /\ e \in Pushed
      /\ UNCHANGED <<session, task, news>>
  BY PairLists
<1>2. /\ \A v \in Members : Here(v) => Here(v)'
      /\ \A v \in Members, t \in Nat : TrackedAt(v, t) => TrackedAt(v, t)'
  BY <1>1, StillHere DEF Live, Tracked
<1>3. e.t = "state" /\ \A f \in e.list : TrackedAt(f.user, f.at) /\ f \in Entries
  <2>1. \A f \in Listing : TrackedAt(f.user, f.at)
    BY <1>1, ListingOfTwo
  <2>2. e.list \subseteq Entries
    BY <1>1 DEF Pushed, Diffs, Relays, Descriptions
  <2>. QED  BY <2>1, <2>2
<1> HIDE DEF e
<1>4. /\ Prolongs(inbox[i], inbox'[i]) /\ inbox'[i] # <<>>
      /\ DOMAIN inbox'[i] = DOMAIN inbox[i] \cup {Len(inbox[i]) + 1}
      /\ inbox'[i][Len(inbox[i]) + 1] = e
  BY <1>1, ProlongsAppend, Appended
<1>5. ASSUME NEW j \in Pids, NEW n \in DOMAIN inbox'[j] PROVE n \in DOMAIN inbox[j] \/ TracedMessage(j, n)'
  <2>1. CASE j = i /\ n = Len(inbox[i]) + 1
    <3>1. inbox'[j][n] = e
      BY <1>4, <2>1
    <3>2. \A f \in e.list : f.user \in Members /\ f.at \in Nat
      BY <1>3 DEF Entries
    <3>3. ASSUME NEW f \in inbox'[j][n].list PROVE TrackedAt(f.user, f.at)'
      BY <1>2, <1>3, <3>1, <3>2
    <3>4. \A f \in inbox'[j][n].list : f.user = Other(j[1]) => TrackedAt(Other(j[1]), f.at)'
      BY <3>3
    <3>5. inbox'[j][n].t = "state"
      BY <1>3, <3>1
    <3>6. ~IsSignal(inbox'[j][n]) /\ inbox'[j][n].t # "join"
      BY <3>5 DEF IsSignal
    <3>. QED  BY <3>4, <3>6 DEF TracedMessage
  <2>. QED  BY <1>1, <1>4, <1>5, <2>1
<1>6. \A j \in Pids : Prolongs(inbox[j], inbox'[j])
  BY <1>1, <1>4, SameProlongs
<1>7. Prolongs(news, news') /\ \A n \in DOMAIN news' : n \in DOMAIN news
  BY <1>1, SameProlongs
<1>8. \A w \in Members : session'[w] # NoSession =>
         \/ session'[w].peer = Unpeered /\ task'[w] = <<>>
         \/ /\ session[w] # NoSession /\ session'[w].pid = session[w].pid
            /\ session[w].pid \in Pids
            /\ inbox'[session[w].pid] = <<>> => inbox[session[w].pid] = <<>>
            /\ (session[w].peer # Unpeered \/ task[w] # <<>>)
  BY <1>1, <1>4, SessionFacts
<1>. QED  BY <1>2, <1>5, <1>6, <1>7, <1>8, TracedFrame

LEMMA TracedEnds ==
  ASSUME VoiceTypes, Owned, crowd = Members, OneProcess, Attached, Heeded, Traced, crowd' = crowd,
         NEW i \in Pids, Ends(i)
  PROVE  Traced'
<1> DEFINE d == Diff("leave", i)
           w == i[1]
<1>1. /\ proc[i].user = w /\ w \in Members
      /\ \A j \in Pids \ {i} : proc'[j] = proc[j]
      /\ news' = Append(news, d) /\ d \in Diffs /\ IsLeave(d, w)
      /\ UNCHANGED <<session, task, inbox>>
  BY PairEnds, PidMember
<1>2. news \in Seq(Diffs)
  BY DEF VoiceTypes
<1> HIDE DEF d, w
<1>3. /\ Prolongs(news, news') /\ DOMAIN news' = DOMAIN news \cup {Len(news) + 1}
      /\ news'[Len(news) + 1] = d /\ \A n \in DOMAIN news : n < Len(news) + 1
  BY <1>1, <1>2, ProlongsAppend, Appended
<1>4. \A j, n : LeaveAfter(j, n, w)'
  <2>1. Len(news) + 1 \in DOMAIN news' /\ IsLeave(news'[Len(news) + 1], w)
    BY <1>1, <1>3
  <2>2. \E m \in DOMAIN news' : IsLeave(news'[m], w)
    BY <2>1
  <2>. QED  BY <2>2 DEF LeaveAfter, w
<1>5. \A j, n, v : LeaveAfter(j, n, v) => LeaveAfter(j, n, v)'
  BY <1>1, <1>3 DEF LeaveAfter, Prolongs
<1>6. \A v : v # w => /\ Here(v) => Here(v)'
                      /\ \A t : TrackedAt(v, t) => TrackedAt(v, t)'
  BY <1>1 DEF Here, TrackedAt
<1>7. ASSUME NEW j \in Pids, NEW n \in DOMAIN inbox'[j] PROVE TracedMessage(j, n)'
  <2>1. inbox' = inbox /\ TracedMessage(j, n)
    BY <1>1, <1>7 DEF Traced
  <2>2. CASE Other(j[1]) = w
    <3>1. LeaveAfter(j, n, Other(j[1]))'
      BY <1>4, <2>2 DEF w
    <3>. QED  BY <3>1 DEF TracedMessage
  <2>3. CASE Other(j[1]) # w
    <3>1. LeaveAfter(j, n, Other(j[1])) => LeaveAfter(j, n, Other(j[1]))'
      BY <1>5
    <3>2. Here(Other(j[1])) => Here(Other(j[1]))'
      BY <1>6, <2>3
    <3>3. \A t : TrackedAt(Other(j[1]), t) => TrackedAt(Other(j[1]), t)'
      BY <1>6, <2>3
    <3>4. inbox[j][n].t = "join" => (TrackedAt(Other(j[1]), inbox[j][n].at) =>
                                     TrackedAt(Other(j[1]), inbox[j][n].at)')
      BY <2>1, <3>3 DEF TrackedAt
    <3>. QED  BY <2>1, <3>1, <3>2, <3>3, <3>4 DEF TracedMessage
  <2>. QED  BY <2>2, <2>3
<1>8. ASSUME NEW n \in DOMAIN news' PROVE TracedNews(n)'
  <2>1. CASE n = Len(news) + 1
    <3>1. news'[n].t = "leave"
      BY <1>1, <1>3, <2>1 DEF IsLeave
    <3>. QED  BY <3>1 DEF TracedNews
  <2>2. CASE n \in DOMAIN news
    <3>1. news'[n] = news[n] /\ TracedNews(n)
      BY <1>3, <2>2 DEF Prolongs, Traced
    <3>2. CASE news[n].user = w
      <4>1. Len(news) + 1 \in DOMAIN news' /\ Len(news) + 1 > n /\ IsLeave(news'[Len(news) + 1], w)
        BY <1>1, <1>2, <1>3, <2>2, LenProperties
      <4>. QED  BY <3>1, <3>2, <4>1 DEF TracedNews
    <3>3. CASE news[n].user # w
      <4>1. TrackedAt(news[n].user, news[n].at) =>
               \E j \in Pids : proc'[j].user = news[n].user /\ Tracked(proc'[j].st)
                               /\ proc'[j].at = news[n].at
        BY <1>1, <3>3 DEF TrackedAt
      <4>. QED  BY <1>3, <3>1, <4>1 DEF TracedNews, TrackedAt, Prolongs
    <3>. QED  BY <3>2, <3>3
  <2>. QED  BY <1>3, <1>8, <2>1, <2>2
<1>9. ASSUME NEW u \in Members PROVE TracedPeer(u)'
  <2>1. session' = session /\ task' = task /\ inbox' = inbox /\ TracedPeer(u)
    BY <1>1 DEF Traced
  <2>2. CASE Other(u) = w
    <3>1. \E m \in DOMAIN news' : IsLeave(news'[m], Other(u))
      BY <1>1, <1>3, <2>2
    <3>. QED  BY <3>1 DEF TracedPeer, LeaveAfter
  <2>3. CASE Other(u) # w
    <3>1. LeaveAfter(session[u].pid, 0, Other(u)) => LeaveAfter(session[u].pid, 0, Other(u))'
      BY <1>3, <2>1 DEF LeaveAfter, Prolongs
    <3>2. Here(Other(u)) => Here(Other(u))'
      BY <1>6, <2>3
    <3>. QED  BY <2>1, <3>1, <3>2 DEF TracedPeer
  <2>. QED  BY <2>2, <2>3
<1>. QED  BY <1>7, <1>8, <1>9 DEF Traced

LEMMA TracedSpread ==
  ASSUME VoiceTypes, Owned, crowd = Members, OneProcess, Attached, Heeded, Traced, crowd' = crowd,
         NewsSpreads
  PROVE  Traced'
<1> DEFINE d == news[1]
<1>1. /\ d \in Diffs /\ news' = Tail(news) /\ news # <<>> /\ 1 \in DOMAIN news
      /\ \A i \in Pids : inbox'[i] = IF Listens(i) THEN Append(inbox[i], d) ELSE inbox[i]
      /\ UNCHANGED <<session, task, proc>>
  BY TypesOfNews DEF NewsSpreads
<1>2. d \in Pushed /\ news \in Seq(Diffs) /\ \A i \in Pids : inbox[i] \in Seq(Pushed)
  BY <1>1 DEF Pushed, VoiceTypes
<1>3. /\ \A n \in DOMAIN news' : n \in Nat /\ n > 0 /\ n + 1 \in DOMAIN news /\ news'[n] = news[n + 1]
      /\ \A n \in DOMAIN news : n \in Nat /\ n >= 1
                                /\ (n > 1 => n - 1 \in DOMAIN news' /\ news'[n - 1] = news[n])
  BY <1>1, <1>2, Shortened
<1> HIDE DEF d
<1>4. ASSUME NEW i \in Pids, Listens(i)
      PROVE  /\ DOMAIN inbox'[i] = DOMAIN inbox[i] \cup {Len(inbox[i]) + 1}
             /\ inbox'[i][Len(inbox[i]) + 1] = d
             /\ \A n \in DOMAIN inbox[i] : n \in Nat /\ n < Len(inbox[i]) + 1 /\ inbox'[i][n] = inbox[i][n]
             /\ Len(inbox[i]) \in Nat
  <2>1. inbox'[i] = Append(inbox[i], d)
    BY <1>1, <1>4
  <2>2. Len(inbox[i]) \in Nat
    BY <1>2, LenProperties
  <2>. QED  BY <1>2, <2>1, <2>2, Appended
<1>5. ASSUME NEW i \in Pids, Listens(i), NEW n \in DOMAIN inbox[i] \cup {0}, NEW v, LeaveAfter(i, n, v)
      PROVE  LeaveAfter(i, n, v)'
  <2>1. CASE \E m \in DOMAIN inbox[i] : m > n /\ IsLeave(inbox[i][m], v)
    BY <1>4, <1>5, <2>1 DEF LeaveAfter
  <2>2. CASE \E m \in DOMAIN news : IsLeave(news[m], v)
    <3>1. PICK m \in DOMAIN news : IsLeave(news[m], v)
      BY <2>2
    <3>2. CASE m = 1
      <4>1. /\ Len(inbox[i]) + 1 \in DOMAIN inbox'[i] /\ Len(inbox[i]) + 1 > n
            /\ IsLeave(inbox'[i][Len(inbox[i]) + 1], v)
        BY <1>4, <1>5, <3>1, <3>2 DEF d
      <4>. QED  BY <4>1 DEF LeaveAfter
    <3>3. CASE m # 1
      <4>1. m > 1
        BY <1>3, <3>1, <3>3
      <4>. QED  BY <1>3, <3>1, <4>1 DEF LeaveAfter
    <3>. QED  BY <3>2, <3>3
  <2>. QED  BY <1>5, <2>1, <2>2 DEF LeaveAfter
<1>6. ASSUME NEW i \in Pids, NEW n \in DOMAIN inbox'[i] PROVE TracedMessage(i, n)'
  <2>1. Listens(i) \/ inbox[i] = <<>>
    BY DEF Heeded
  <2>2. \A k \in DOMAIN <<>> : FALSE
    OBVIOUS
  <2>3. Listens(i)
    BY <1>1, <1>6, <2>1, <2>2
  <2>4. CASE n \in DOMAIN inbox[i]
    <3>1. inbox'[i][n] = inbox[i][n] /\ TracedMessage(i, n)
      BY <1>4, <2>3, <2>4 DEF Traced
    <3>2. LeaveAfter(i, n, Other(i[1])) => LeaveAfter(i, n, Other(i[1]))'
      BY <1>5, <2>3, <2>4
    <3>. QED  BY <1>1, <3>1, <3>2 DEF TracedMessage, Here, TrackedAt
  <2>5. CASE n = Len(inbox[i]) + 1
    <3>1. inbox'[i][n] = d /\ d.t \in {"join", "leave"}
      BY <1>1, <1>4, <2>3, <2>5 DEF Diffs
    <3>2. ASSUME d.t = "join" PROVE TrackedAt(d.user, d.at) \/ \E m \in DOMAIN news' : IsLeave(news'[m], d.user)
      <4>1. TracedNews(1)
        BY <1>1 DEF Traced
      <4>2. ASSUME NEW m \in DOMAIN news, m > 1, IsLeave(news[m], d.user)
            PROVE  \E k \in DOMAIN news' : IsLeave(news'[k], d.user)
        BY <1>3, <4>2
      <4>. QED  BY <3>2, <4>1, <4>2 DEF TracedNews, d
    <3>3. ~IsSignal(inbox'[i][n]) /\ inbox'[i][n].t # "state"
      BY <3>1 DEF IsSignal
    <3>4. ASSUME d.t = "join", d.user = Other(i[1])
          PROVE  \/ \E j \in Pids : proc'[j].user = Other(i[1]) /\ Tracked(proc'[j].st)
                                   /\ proc'[j].at = inbox'[i][n].at
                 \/ LeaveAfter(i, n, Other(i[1]))'
      <4>1. CASE \E m \in DOMAIN news' : IsLeave(news'[m], d.user)
        BY <3>4, <4>1 DEF LeaveAfter
      <4>2. CASE TrackedAt(d.user, d.at)
        BY <1>1, <3>1, <3>4, <4>2 DEF TrackedAt
      <4>. QED  BY <3>2, <3>4, <4>1, <4>2
    <3>. QED  BY <3>1, <3>3, <3>4 DEF TracedMessage, TrackedAt
  <2>. QED  BY <1>4, <1>6, <2>3, <2>4, <2>5
<1>7. ASSUME NEW n \in DOMAIN news' PROVE TracedNews(n)'
  <2>1. n + 1 \in DOMAIN news /\ news'[n] = news[n + 1] /\ TracedNews(n + 1) /\ n \in Nat
    BY <1>3 DEF Traced
  <2>2. ASSUME NEW v, NEW m \in DOMAIN news, m > n + 1, IsLeave(news[m], v)
        PROVE  \E k \in DOMAIN news' : k > n /\ IsLeave(news'[k], v)
    <3>1. m > 1 /\ m - 1 > n
      BY <1>3, <2>1, <2>2
    <3>. QED  BY <1>3, <2>2, <3>1
  <2>. QED  BY <1>1, <2>1, <2>2 DEF TracedNews, TrackedAt
<1>8. ASSUME NEW u \in Members PROVE TracedPeer(u)'
  <2>1. CASE session[u] = NoSession
    BY <1>1, <2>1 DEF TracedPeer
  <2>2. CASE session[u] # NoSession /\ Listens(session[u].pid)
    <3>1. LeaveAfter(session[u].pid, 0, Other(u)) => LeaveAfter(session[u].pid, 0, Other(u))'
      <4> DEFINE i == session[u].pid
      <4>1. i \in Pids /\ session' = session
        BY <1>1, <2>2, SessionFacts
      <4>2. ASSUME NEW j \in Pids, j = i, LeaveAfter(j, 0, Other(u)) PROVE LeaveAfter(j, 0, Other(u))'
        BY <1>5, <2>2, <4>2
      <4>3. LeaveAfter(i, 0, Other(u)) =>
               \/ \E m \in DOMAIN inbox'[i] : m > 0 /\ IsLeave(inbox'[i][m], Other(u))
               \/ \E m \in DOMAIN news' : IsLeave(news'[m], Other(u))
        BY <4>1, <4>2 DEF LeaveAfter
      <4>. QED  BY <4>1, <4>3 DEF LeaveAfter
    <3>2. Here(Other(u)) => Here(Other(u))'
      BY <1>1 DEF Here
    <3>. QED  BY <1>1, <3>1, <3>2 DEF Traced, TracedPeer
  <2>3. CASE session[u] # NoSession /\ ~Listens(session[u].pid)
    <3>1. session[u].peer = Unpeered /\ task[u] = <<>>
      <4>1. proc[session[u].pid] \in Processes /\ proc[session[u].pid].open
            /\ proc[session[u].pid].st # "gone"
        BY <2>3, SessionFacts DEF Attached, VoiceTypes
      <4>2. proc[session[u].pid].st = "joining"
        BY <2>3, <4>1 DEF Listens, Processes
      <4>. QED  BY <2>3, <4>2 DEF Attached
    <3>. QED  BY <1>1, <3>1 DEF TracedPeer
  <2>. QED  BY <2>1, <2>2, <2>3
<1>. QED  BY <1>6, <1>7, <1>8 DEF Traced

LEMMA TracedReceives ==
  ASSUME VoiceTypes, Owned, crowd = Members, OneProcess, Attached, Heeded, Traced, crowd' = crowd,
         NEW i \in Pids, Receives(i)
  PROVE  Traced'
<1> DEFINE u == i[1]
           m == inbox[i][1]
           v == Other(i[1])
<1>1. /\ u \in Members /\ m \in Pushed /\ m.t # "refused"
      /\ inbox[i] # <<>> /\ inbox[i] \in Seq(Pushed) /\ 1 \in DOMAIN inbox[i]
      /\ session[u] # NoSession /\ session[u].pid = i
      /\ HandledBy(u, i, m) /\ SessionGoesOn(u)
      /\ inbox'[i] = Tail(inbox[i]) /\ \A j \in Pids \ {i} : inbox'[j] = inbox[j]
      /\ UNCHANGED <<proc, news>>
  BY PairReceives
<1>2. v \in Members /\ v # u
  BY <1>1, OtherMember
<1>3. /\ \A n \in DOMAIN inbox'[i] : /\ n \in Nat /\ n > 0 /\ n + 1 \in DOMAIN inbox[i]
                                     /\ inbox'[i][n] = inbox[i][n + 1]
      /\ \A n \in DOMAIN inbox[i] : /\ n \in Nat /\ n >= 1
                                    /\ (n > 1 => n - 1 \in DOMAIN inbox'[i] /\ inbox'[i][n - 1] = inbox[i][n])
  BY <1>1, Shortened
<1> HIDE DEF u, m, v
<1>4. ASSUME NEW n \in Nat, LeaveAfter(i, n + 1, v) PROVE LeaveAfter(i, n, v)'
  <2>1. CASE \E k \in DOMAIN inbox[i] : k > n + 1 /\ IsLeave(inbox[i][k], v)
    <3>1. PICK k \in DOMAIN inbox[i] : k > n + 1 /\ IsLeave(inbox[i][k], v)
      BY <2>1
    <3>2. k - 1 \in DOMAIN inbox'[i] /\ inbox'[i][k - 1] = inbox[i][k] /\ k - 1 > n
      BY <1>3, <1>4, <3>1
    <3>. QED  BY <3>1, <3>2 DEF LeaveAfter, v
  <2>2. CASE \E k \in DOMAIN news : IsLeave(news[k], v)
    BY <1>1, <2>2 DEF LeaveAfter, v
  <2>. QED  BY <1>4, <2>1, <2>2 DEF LeaveAfter
<1>5. ASSUME NEW j \in Pids, NEW n \in DOMAIN inbox'[j] PROVE TracedMessage(j, n)'
  <2>1. CASE j # i
    <3>1. TracedMessage(j, n) /\ inbox'[j] = inbox[j]
      BY <1>1, <1>5, <2>1 DEF Traced
    <3>. QED  BY <1>1, <3>1 DEF TracedMessage, LeaveAfter, Here, TrackedAt
  <2>2. CASE j = i
    <3>1. TracedMessage(i, n + 1) /\ inbox'[i][n] = inbox[i][n + 1] /\ n \in Nat
      BY <1>3, <1>5, <2>2 DEF Traced
    <3>2. LeaveAfter(i, n + 1, v) => LeaveAfter(i, n, v)'
      BY <1>4, <3>1
    <3>. QED  BY <1>1, <2>2, <3>1, <3>2 DEF TracedMessage, Here, TrackedAt, v
  <2>. QED  BY <2>1, <2>2
<1>6. ASSUME NEW n \in DOMAIN news' PROVE TracedNews(n)'
  BY <1>1, <1>6 DEF Traced, TracedNews, TrackedAt
<1>7. ASSUME Here(v) \/ LeaveAfter(i, 1, v) PROVE TracedPeer(u)'
  <2>1. session'[u].pid = i
    BY <1>1 DEF SessionGoesOn
  <2>2. LeaveAfter(i, 1, v) => LeaveAfter(i, 0, v)'
    BY <1>4
  <2>3. LeaveAfter(i, 1, v) => \/ \E k \in DOMAIN inbox'[i] : k > 0 /\ IsLeave(inbox'[i][k], v)
                               \/ \E k \in DOMAIN news' : IsLeave(news'[k], v)
    BY <2>2 DEF LeaveAfter, v
  <2>4. Here(v) => \E j \in Pids : proc'[j].user = v /\ Live(proc'[j].st)
    BY <1>1 DEF Here
  <2>. QED  BY <1>1, <1>7, <2>1, <2>3, <2>4 DEF TracedPeer, LeaveAfter, Here, u, v
<1>8. \A t : TrackedAt(v, t) => Here(v)
  BY DEF TrackedAt, Here, Tracked, Live
<1>9. TracedMessage(i, 1)
  BY <1>1 DEF Traced
<1>10. TracedPeer(u)'
  <2>1. m.t \in {"state", "join", "leave", "offer", "answer", "ice"}
    BY <1>1 DEF Pushed, Diffs, Relays, Descriptions
  <2>2. CASE session'[u].peer = Unpeered /\ task'[u] = <<>>
    BY <2>2 DEF TracedPeer, u
  <2>3. CASE session[u].peer # Unpeered \/ task[u] # <<>>
    <3>1. Here(v) \/ LeaveAfter(i, 0, v)
      BY <1>1, <2>3 DEF Traced, TracedPeer, u, v
    <3>2. CASE m.t = "leave" /\ m.user = v
      BY <1>1, <1>2, <2>2, <3>2 DEF HandledBy, HeardLeave
    <3>3. CASE ~(m.t = "leave" /\ m.user = v)
      <4>1. ~IsLeave(inbox[i][1], v)
        BY <3>3 DEF IsLeave, m
      <4>2. LeaveAfter(i, 0, v) => LeaveAfter(i, 1, v)
        <5>1. ASSUME NEW k \in DOMAIN inbox[i], IsLeave(inbox[i][k], v) PROVE k > 1
          BY <1>3, <4>1, <5>1
        <5>. QED  BY <5>1 DEF LeaveAfter
      <4>. QED  BY <1>7, <3>1, <4>2
    <3>. QED  BY <3>2, <3>3
  <2>4. CASE /\ ~(session'[u].peer = Unpeered /\ task'[u] = <<>>)
             /\ session[u].peer = Unpeered /\ task[u] = <<>>
    <3>1. CASE m.t = "state"
      <4>1. \E e \in m.list : e.user # u
        BY <1>1, <2>4, <3>1 DEF HandledBy, HeardState
      <4>2. PICK e \in m.list : e.user # u
        BY <4>1
      <4>3. e.user = v
        <5>1. e.user \in Members
          BY <1>1, <3>1, <4>2 DEF Pushed, Diffs, Relays, Descriptions, Entries
        <5>. QED  BY <1>1, <4>2, <5>1 DEF Members, Other, u, v
      <4>. QED  BY <1>7, <1>8, <1>9, <3>1, <4>2, <4>3 DEF TracedMessage, m, v
    <3>2. CASE m.t = "join"
      <4>1. m.user # u
        BY <1>1, <2>4, <3>2 DEF HandledBy, HeardJoin
      <4>2. m.user = v
        <5>1. m.user \in Members
          BY <1>1, <3>2 DEF Pushed, Diffs, Relays, Descriptions
        <5>. QED  BY <1>1, <4>1, <5>1 DEF Members, Other, u, v
      <4>. QED  BY <1>7, <1>8, <1>9, <3>2, <4>2 DEF TracedMessage, m, v
    <3>3. CASE m.t = "leave"
      BY <1>1, <2>4, <3>3 DEF HandledBy, HeardLeave
    <3>4. CASE m.t \in {"offer", "answer", "ice"}
      BY <1>7, <1>9, <3>4 DEF TracedMessage, IsSignal, m, v
    <3>. QED  BY <2>1, <3>1, <3>2, <3>3, <3>4
  <2>. QED  BY <2>2, <2>3, <2>4
<1>11. TracedPeer(v)'
  <2>1. session'[v] = session[v] /\ task'[v] = task[v] /\ TracedPeer(v)
    BY <1>1, <1>2 DEF SessionGoesOn, Traced
  <2>2. session[v] # NoSession => session[v].pid \in Pids /\ session[v].pid # i
    BY <1>2, SessionFacts DEF u
  <2>3. session[v] # NoSession => inbox'[session[v].pid] = inbox[session[v].pid]
    BY <1>1, <2>2
  <2>. QED  BY <1>1, <2>1, <2>3 DEF TracedPeer, LeaveAfter, Here, v
<1>12. \A w \in Members : w = u \/ w = v
  BY <1>1 DEF Members, Other, u, v
<1>13. ASSUME NEW w \in Members PROVE TracedPeer(w)'
  <2>1. CASE w = u
    BY <1>10, <2>1 DEF u
  <2>2. CASE w = v
    BY <1>11, <2>2 DEF v
  <2>. QED  BY <1>12, <2>1, <2>2
<1>. QED  BY <1>5, <1>6, <1>13 DEF Traced

LEMMA TracedNegotiates ==
  ASSUME VoiceTypes, Owned, crowd = Members, OneProcess, Attached, Heeded, Traced,
         NEW u \in Members, NEW n \in DOMAIN task[u], session[u] # NoSession, Negotiates(u, n)
  PROVE  Traced'
<1>1. WentOn(u, n) /\ SessionGoesOn(u) /\ session[u].peer \in Links /\ UNCHANGED <<proc, news>>
  BY GoingOn
<1>2. /\ \A v \in Members : Here(v) => Here(v)'
      /\ \A v \in Members, t \in Nat : TrackedAt(v, t) => TrackedAt(v, t)'
  BY <1>1 DEF Here, TrackedAt
<1>3. \/ inbox' = inbox
      \/ \E m \in Descriptions : inbox' = Signalled(inbox, u, m)
  <2>1. session[u].peer.conn \in Conns
    BY <1>1, LinkNotNone
  <2>2. Desc("offer", session[u].peer.conn) \in Descriptions /\ Desc("answer", session[u].peer.conn) \in Descriptions
    BY <2>1 DEF Desc, Descriptions
  <2>. QED  BY <1>1, <2>2 DEF WentOn
<1>4. task[u] # <<>>
  OBVIOUS
<1>5. Prolongs(news, news') /\ \A k \in DOMAIN news' : k \in DOMAIN news
  BY <1>1, SameProlongs
<1>6. \A j \in Pids : /\ Prolongs(inbox[j], inbox'[j])
                      /\ \A k \in DOMAIN inbox'[j] : k \in DOMAIN inbox[j] \/ TracedMessage(j, k)'
  <2>1. CASE inbox' = inbox
    BY <2>1, SameProlongs
  <2>2. ASSUME NEW m \in Descriptions, inbox' = Signalled(inbox, u, m), NEW j \in Pids
        PROVE  /\ Prolongs(inbox[j], inbox'[j])
               /\ \A k \in DOMAIN inbox'[j] : k \in DOMAIN inbox[j] \/ TracedMessage(j, k)'
    <3>1. /\ \A k \in DOMAIN inbox[j] : k \in DOMAIN inbox'[j] /\ inbox'[j][k] = inbox[j][k]
          /\ \A k \in DOMAIN inbox'[j] : k \in DOMAIN inbox[j] \/ inbox'[j][k] \in {m, Desc("ice", m.conn)}
          /\ (\E k \in DOMAIN inbox'[j] : k \notin DOMAIN inbox[j]) =>
                session[u].joined /\ j[1] = Other(u)
      BY <2>2, SignalAdds
    <3>2. ASSUME NEW k \in DOMAIN inbox'[j], k \notin DOMAIN inbox[j] PROVE TracedMessage(j, k)'
      <4>1. session[u].joined /\ Other(j[1]) = u
        BY <3>1, <3>2, OtherMember
      <4>2. session[u].pid \in Pids /\ proc[session[u].pid].open
            /\ proc[session[u].pid].st \notin {"joining", "gone"}
        BY <1>1, <4>1, SessionFacts DEF Attached
      <4>3. proc[session[u].pid].user = u /\ proc[session[u].pid] \in Processes
        BY <4>2, StartedProcess, SessionFacts DEF VoiceTypes
      <4>4. Here(u)
        BY <4>2, <4>3 DEF Here, Live, Processes
      <4>5. Here(Other(j[1]))'
        BY <1>2, <4>1, <4>4
      <4>6. inbox'[j][k].t \in {"offer", "answer", "ice"}
        BY <3>1, <3>2 DEF Descriptions, Desc
      <4>. QED  BY <4>5, <4>6 DEF TracedMessage
    <3>. QED  BY <3>1, <3>2 DEF Prolongs
  <2>. QED  BY <1>3, <2>1, <2>2
<1>7. ASSUME NEW w \in Members, session'[w] # NoSession
      PROVE  \/ session'[w].peer = Unpeered /\ task'[w] = <<>>
             \/ /\ session[w] # NoSession /\ session'[w].pid = session[w].pid
                /\ session[w].pid \in Pids
                /\ inbox'[session[w].pid] = <<>> => inbox[session[w].pid] = <<>>
                /\ (session[w].peer # Unpeered \/ task[w] # <<>>)
  <2>1. session[w] # NoSession /\ session'[w].pid = session[w].pid
        /\ (w # u => session'[w].peer = session[w].peer /\ task'[w] = task[w])
    BY <1>1, <1>7 DEF SessionGoesOn
  <2>2. session[w].pid \in Pids
    BY <2>1, SessionFacts
  <2>3. \A j \in Pids : inbox'[j] = <<>> => inbox[j] = <<>>
    <3>1. ASSUME NEW j \in Pids, inbox'[j] = <<>>, inbox[j] # <<>> PROVE FALSE
      <4>1. 1 \in DOMAIN inbox[j]
        BY <3>1, Shortened DEF VoiceTypes
      <4>2. 1 \in DOMAIN inbox'[j]
        BY <1>6, <4>1 DEF Prolongs
      <4>. QED  BY <3>1, <4>2
    <3>. QED  BY <3>1
  <2>. QED  BY <1>4, <2>1, <2>2, <2>3
<1>. QED  BY <1>2, <1>5, <1>6, <1>7, TracedFrame

LEMMA TracedKept ==
  ASSUME VoiceTypes, Owned, crowd = Members, OneProcess, Attached, Heeded, Traced,
         \A u \in Members \ hasty : BarFollows(u), [VoiceNext]_voiceVars
  PROVE  Traced'
<1>0. \A u \in Members : BarFollows(u)
  BY DEF OneProcess
<1>1. ASSUME UNCHANGED <<session, task, proc, inbox, news>> PROVE Traced'
  BY <1>1 DEF Traced, TracedMessage, TracedNews, TracedPeer, Here, TrackedAt, LeaveAfter
<1>2. ASSUME NEW u \in Members, ClicksJoin(u) PROVE Traced'
  BY <1>0, <1>1, <1>2, PairJoin
<1>3. ASSUME NEW u \in Members, ViewHears(u) PROVE Traced'
  BY <1>1, <1>3 DEF ViewHears
<1>4. ASSUME NEW u \in Members, ClicksMute(u) \/ ViewRemounts(u) \/ GetsNoMicrophone(u)
      PROVE  Traced'
  BY <1>4, TwoAreNotAlone DEF ClicksMute, ViewRemounts, GetsNoMicrophone, Incident
<1>5. CASE UNCHANGED voiceVars
  BY <1>1, <1>5 DEF voiceVars
<1>6. ASSUME VoiceNext PROVE Traced'
  BY <1>0, <1>2, <1>3, <1>4, <1>6, TracedLeave, TracedStart, TracedAnswer, TracedTracks, TracedLists,
     TracedEnds, TracedSpread, TracedReceives, TracedNegotiates DEF VoiceNext
<1>. QED  BY <1>5, <1>6

-----------------------------------------------------------------------------
(* VoiceMesh: two members meet *)

\* The two processes of members who meet, each the only one of its member.
Pair(u, v, i, j) ==
    /\ u \in Members /\ v \in Members /\ v = Other(u) /\ u = Other(v)
    /\ i \in Pids /\ j \in Pids /\ i[1] = u /\ j[1] = v /\ i # j
    /\ session[u] # NoSession /\ session[v] # NoSession
    /\ session[u].pid = i /\ session[v].pid = j
    /\ session[u].joined /\ session[v].joined
    /\ session[u].at \in {Infinity, proc[i].at} /\ session[v].at \in {Infinity, proc[j].at}
    /\ proc[i].user = u /\ proc[j].user = v
    /\ proc[i].open /\ proc[j].open /\ Listens(i) /\ Listens(j)
    /\ Live(proc[i].st) /\ Live(proc[j].st)
    /\ \A k \in Pids : proc[k].st # "gone" => k \in {i, j}

LEMMA OneOfMember ==
  ASSUME VoiceTypes, Owned, OneProcess, Attached, NEW u \in Members,
         session[u] # NoSession, session[u].joined
  PROVE  LET i == session[u].pid
         IN  /\ i \in Pids /\ i[1] = u /\ proc[i].user = u /\ proc[i].open
             /\ Listens(i) /\ Live(proc[i].st) /\ session[u].at \in {Infinity, proc[i].at}
             /\ \A k \in Pids : proc[k].st # "gone" /\ k[1] = u => k = i
<1> DEFINE i == session[u].pid
<1>1. i \in Pids /\ i[1] = u
  BY SessionFacts
<1>2. /\ proc[i].open /\ proc[i].st # "gone" /\ proc[i].st # "joining"
      /\ session[u].at \in {Infinity, proc[i].at}
  BY DEF Attached
<1>3. proc[i].user = u /\ proc[i] \in Processes
  BY <1>1, <1>2, StartedProcess DEF VoiceTypes
<1>4. Live(proc[i].st) /\ Listens(i)
  BY <1>2, <1>3 DEF Processes, Live, Listens
<1>5. \A k \in Pids : proc[k].st # "gone" /\ k[1] = u => k = i
  BY <1>1, <1>2 DEF OneProcess
<1>. QED  BY <1>1, <1>2, <1>3, <1>4, <1>5

LEMMA MeetingPair ==
  ASSUME VoiceTypes, Owned, OneProcess, Attached, Meeting, NEW u \in Members,
         NEW i \in Pids, NEW j \in Pids, session[u].pid = i, session[Other(u)].pid = j
  PROVE  /\ Pair(u, Other(u), i, j)
         /\ \A n \in DOMAIN inbox[i] : ~IsLeave(inbox[i][n], Other(u))
         /\ \A n \in DOMAIN inbox[j] : ~IsLeave(inbox[j][n], u)
         /\ \A n \in DOMAIN news : ~IsLeave(news[n], u) /\ ~IsLeave(news[n], Other(u))
<1> DEFINE v == Other(u)
<1>1. v \in Members /\ v # u /\ Other(v) = u
  BY OtherMember
<1>2. /\ session[u] # NoSession /\ session[u].joined /\ ~LeavePending(u)
      /\ session[v] # NoSession /\ session[v].joined /\ ~LeavePending(v)
  BY <1>1 DEF Meeting
<1>3. /\ i[1] = u /\ proc[i].user = u /\ proc[i].open
      /\ Listens(i) /\ Live(proc[i].st) /\ session[u].at \in {Infinity, proc[i].at}
      /\ \A k \in Pids : proc[k].st # "gone" /\ k[1] = u => k = i
  BY <1>2, OneOfMember
<1>4. /\ j[1] = v /\ proc[j].user = v /\ proc[j].open
      /\ Listens(j) /\ Live(proc[j].st) /\ session[v].at \in {Infinity, proc[j].at}
      /\ \A k \in Pids : proc[k].st # "gone" /\ k[1] = v => k = j
  BY <1>1, <1>2, OneOfMember
<1> HIDE DEF v
<1>5. \A k \in Pids : k[1] = u \/ k[1] = v
  BY PidMember DEF Members, Other, v
<1>6. \A k \in Pids : proc[k].st # "gone" => k \in {i, j}
  BY <1>3, <1>4, <1>5
<1>7. Pair(u, v, i, j)
  BY <1>1, <1>2, <1>3, <1>4, <1>6 DEF Pair, v
<1>8. ~LeaveAfter(i, 0, v) /\ ~LeaveAfter(j, 0, u)
  BY <1>1, <1>2 DEF LeavePending, v
<1>9. \A k \in Pids : \A n \in DOMAIN inbox[k] : n > 0
  BY LenProperties DEF VoiceTypes
<1>. QED  BY <1>7, <1>8, <1>9 DEF LeaveAfter, v

\* The times of two sessions that meet say which of the two came later.
LEMMA OneIsLater ==
  ASSUME VoiceTypes, NEW u \in Members, NEW i \in Pids, NEW j \in Pids
  PROVE  Later(u, Other(u), i, j) <=> ~Later(Other(u), u, j, i)
<1>1. proc[i].at \in Nat /\ proc[j].at \in Nat
  BY DEF VoiceTypes, Processes
<1>2. (u < Other(u) <=> ~(Other(u) < u))
  BY DEF Members, Other
<1>. QED  BY <1>1, <1>2 DEF Later, ShouldInitiateTo

LEMMA MeetingGoesOn ==
  ASSUME Meeting',
         \A u \in Members : session'[u] # NoSession =>
            /\ session[u] # NoSession /\ session'[u].pid = session[u].pid
            /\ session'[u].joined = session[u].joined,
         \A u \in Members : session'[u] # NoSession /\ session[u] # NoSession /\ LeavePending(u) =>
            \/ \E n \in DOMAIN inbox'[session[u].pid] :
                  n > 0 /\ IsLeave(inbox'[session[u].pid][n], Other(u))
            \/ \E n \in DOMAIN news' : IsLeave(news'[n], Other(u))
  PROVE  Meeting
<1> SUFFICES ASSUME NEW u \in Members
             PROVE  session[u] # NoSession /\ session[u].joined /\ ~LeavePending(u)
  BY DEF Meeting
<1>1. session'[u] # NoSession /\ session'[u].joined /\ ~LeavePending(u)'
  BY DEF Meeting
<1>2. session[u] # NoSession /\ session'[u].pid = session[u].pid /\ session[u].joined
  BY <1>1
<1>3. ~LeavePending(u)
  BY <1>1, <1>2 DEF LeavePending, LeaveAfter
<1>. QED  BY <1>2, <1>3

\* What makes Agreed(u, v, i, j) hold after a step that changes no peer and no task.
LEMMA AgreedFrame ==
  ASSUME NEW u \in Members, NEW v \in Members, NEW i \in Pids, NEW j \in Pids, Agreed(u, v, i, j),
         session'[u].peer = session[u].peer, session'[v].peer = session[v].peer,
         task'[u] = task[u], task'[v] = task[v],
         \A n \in DOMAIN inbox'[i] : ~IsSignal(inbox'[i][n])
                                     \/ \E k \in DOMAIN inbox[i] : inbox'[i][n] = inbox[i][k],
         \A n \in DOMAIN inbox'[j] : ~IsSignal(inbox'[j][n])
                                     \/ \E k \in DOMAIN inbox[j] : inbox'[j][n] = inbox[j][k],
         \A k \in DOMAIN inbox[j] : inbox[j][k].t = "offer" =>
            \E n \in DOMAIN inbox'[j] : inbox'[j][n] = inbox[j][k],
         session[u].peer = Unpeered /\ ToBeHeard(i, j) => ToBeHeard(i, j)'
  PROVE  Agreed(u, v, i, j)'
<1>1. OneOffers(u, v, i)'
  <2>1. OneOffers(u, v, i)
    BY DEF Agreed
  <2>2. \A n \in DOMAIN inbox'[i] : inbox'[i][n].t # "offer"
    BY <2>1 DEF OneOffers, IsSignal
  <2>3. (\A n \in DOMAIN task'[v] : task'[v][n].k # "offer")
        /\ \A n \in DOMAIN task'[u] : task'[u][n].k # "remote offer"
    BY <2>1 DEF OneOffers
  <2>. QED  BY <2>2, <2>3 DEF OneOffers
<1>2. CASE session[u].peer = Unpeered
  <2>1. Untouched(u, i)' /\ Untouched(v, j)'
    BY <1>2 DEF Agreed, Untouched
  <2>. QED  BY <1>1, <1>2, <2>1 DEF Agreed
<1>3. CASE session[u].peer # Unpeered
  <2>1. Reached(u, v, j)'
    BY <1>3 DEF Agreed, Reached
  <2>. QED  BY <1>1, <1>3, <2>1 DEF Agreed
<1>. QED  BY <1>2, <1>3

\* When both begin to listen, nothing of an earlier session is left on either side.
LEMMA PairingBegins ==
  ASSUME VoiceTypes, Owned, crowd = Members, OneProcess, Attached, Heeded, Traced, crowd' = crowd,
         VoiceTypes', Owned', OneProcess', Attached',
         NEW k \in Pids, Authorizes(k), Meeting', NEW u \in Members, NEW i \in Pids, NEW j \in Pids,
         session'[u].pid = i, session'[Other(u)].pid = j
  PROVE  Agreed(u, Other(u), i, j)'
<1> DEFINE v == Other(u)
<1>1. /\ v \in Members /\ v # u /\ Other(v) = u
  BY OtherMember
<1>2. /\ proc[k].st = "joining" /\ proc[k].open /\ k[1] \in Members
      /\ session[k[1]] # NoSession /\ session[k[1]].pid = k /\ proc'[k].st = "stamped"
      /\ session'[k[1]].pid = k /\ session'[k[1]].peer = session[k[1]].peer
      /\ \A w \in Members \ {k[1]} : session'[w] = session[w]
      /\ UNCHANGED <<task, inbox, news>>
  BY PairAnswer
<1> HIDE DEF v
<1>3. ASSUME NEW w \in Members, NEW l \in Pids, w # k[1], session[w].pid = l, session[w] # NoSession,
             session[w].joined, ~LeaveAfter(l, 0, k[1])
      PROVE  /\ session[w].peer = Unpeered /\ task[w] = <<>>
             /\ \A n \in DOMAIN inbox[l] : ~IsSignal(inbox[l][n])
  <2>1. Other(w) = k[1] /\ l[1] = w
    <3>1. l[1] = w
      BY <1>3, SessionFacts
    <3>. QED  BY <1>2, <1>3, <3>1 DEF Other, Members
  <2>2. ~Here(k[1])
    <3> SUFFICES ASSUME NEW m \in Pids, proc[m].user = k[1], Live(proc[m].st) PROVE FALSE
      BY DEF Here
    <3>1. proc[m].st # "gone" /\ proc[k].st # "gone"
      BY <1>2 DEF Live
    <3>2. m[1] = k[1]
      BY <3>1, StartedProcess
    <3>3. m = k
      BY <3>1, <3>2 DEF OneProcess
    <3>. QED  BY <1>2, <3>3 DEF Live
  <2>3. session[w].peer = Unpeered /\ task[w] = <<>>
    <3>1. TracedPeer(w)
      BY DEF Traced
    <3>2. ~LeaveAfter(session[w].pid, 0, Other(w)) /\ ~Here(Other(w))
      BY <1>3, <2>1, <2>2
    <3>. QED  BY <1>3, <3>1, <3>2 DEF TracedPeer
  <2>4. \A n \in DOMAIN inbox[l] : n > 0 /\ n \in Nat
    <3>1. inbox[l] \in Seq(Pushed)
      BY DEF VoiceTypes
    <3>. QED  BY <3>1, LenProperties
  <2>5. ASSUME NEW n \in DOMAIN inbox[l] PROVE ~IsSignal(inbox[l][n])
    <3>1. TracedMessage(l, n)
      BY DEF Traced
    <3>2. ~LeaveAfter(l, n, k[1])
      BY <1>3, <2>4 DEF LeaveAfter
    <3>. QED  BY <2>1, <2>2, <3>1, <3>2 DEF TracedMessage
  <2>. QED  BY <2>3, <2>5
<1>4. /\ session[k[1]].peer = Unpeered /\ task[k[1]] = <<>> /\ inbox[k] = <<>>
      /\ \A n \in DOMAIN <<>> : FALSE
  <2>1. ~session[k[1]].joined /\ ~Listens(k)
    BY <1>2 DEF Attached, Listens
  <2>2. \A n \in DOMAIN <<>> : FALSE
    OBVIOUS
  <2>. QED  BY <1>2, <2>1, <2>2 DEF Attached, Heeded
<1>5. ASSUME NEW w \in Members, NEW l \in Pids, session'[w].pid = l
      PROVE  Untouched(w, l)'
  <2>1. CASE w = k[1]
    <3>1. l = k
      BY <1>2, <1>5, <2>1
    <3>. QED  BY <1>2, <1>4, <2>1, <3>1 DEF Untouched
  <2>2. CASE w # k[1]
    <3>1. session'[w] = session[w] /\ session'[w] # NoSession /\ session'[w].joined /\ ~LeavePending(w)'
      BY <1>2, <2>2 DEF Meeting
    <3>2. Other(w) = k[1]
      BY <1>2, <2>2 DEF Other, Members
    <3>3. ~LeaveAfter(l, 0, k[1])
      BY <1>2, <1>5, <3>1, <3>2 DEF LeavePending, LeaveAfter
    <3>4. /\ session[w].peer = Unpeered /\ task[w] = <<>>
          /\ \A n \in DOMAIN inbox[l] : ~IsSignal(inbox[l][n])
      BY <1>3, <1>5, <2>2, <3>1, <3>3
    <3>. QED  BY <1>2, <3>1, <3>4 DEF Untouched
  <2>. QED  BY <2>1, <2>2
<1>6. Untouched(u, i)' /\ Untouched(v, j)'
  BY <1>1, <1>5 DEF v
<1>7. ToBeHeard(i, j)'
  <2>1. k[1] = u \/ k[1] = v
    BY <1>2 DEF Members, Other, v
  <2>2. k = i \/ k = j
    BY <1>2, <2>1 DEF v
  <2>. QED  BY <1>2, <2>2 DEF ToBeHeard
<1>8. OneOffers(u, v, i)'
  <2>1. \A n \in DOMAIN inbox'[i] : inbox'[i][n].t # "offer"
    BY <1>6 DEF Untouched, IsSignal
  <2>2. task'[u] = <<>> /\ task'[v] = <<>>
    BY <1>6 DEF Untouched
  <2>. QED  BY <1>4, <2>1, <2>2 DEF OneOffers
<1>9. session'[u].peer = Unpeered
  BY <1>6 DEF Untouched
<1>. QED  BY <1>6, <1>7, <1>8, <1>9 DEF Agreed, v

LEMMA PairingTracks ==
  ASSUME VoiceTypes, Owned, OneProcess, Attached, Meeting, crowd' = crowd,
         NEW k \in Pids, Tracks(k), NEW u \in Members, NEW i \in Pids, NEW j \in Pids,
         session[u].pid = i, session[Other(u)].pid = j, Agreed(u, Other(u), i, j)
  PROVE  Agreed(u, Other(u), i, j)'
<1> DEFINE v == Other(u)
<1>1. Pair(u, v, i, j)
  BY MeetingPair
<1>2. /\ proc[k].st = "stamped" /\ proc'[k].st = "tracked" /\ proc[k].user = k[1]
      /\ \A l \in Pids \ {k} : proc'[l] = proc[l]
      /\ news' = Append(news, Diff("join", k)) /\ Diff("join", k) \in Diffs
      /\ UNCHANGED <<session, task, inbox>>
  BY PairTracks
<1> HIDE DEF v
<1>3. k \in {i, j} /\ v \in Members
  BY <1>1, <1>2 DEF Pair
<1>4. news \in Seq(Diffs)
  BY DEF VoiceTypes
<1>5. /\ Len(news) + 1 \in DOMAIN news' /\ news'[Len(news) + 1] = Diff("join", k)
      /\ \A n \in DOMAIN news : n \in DOMAIN news' /\ news'[n] = news[n]
  BY <1>2, <1>4, Appended
<1>6. ASSUME ToBeHeard(i, j) PROVE ToBeHeard(i, j)'
  <2>1. CASE k = i
    BY <1>2, <2>1 DEF ToBeHeard
  <2>2. CASE k = j
    <3>1. news'[Len(news) + 1].t = "join" /\ news'[Len(news) + 1].user = j[1]
      BY <1>2, <1>5, <2>2 DEF Diff
    <3>. QED  BY <1>5, <3>1 DEF ToBeHeard
  <2>. QED  BY <1>3, <2>1, <2>2
<1>7. Agreed(u, v, i, j)
  BY DEF v
<1>8. Agreed(u, v, i, j)'
  BY <1>2, <1>3, <1>6, <1>7, AgreedFrame
<1>. QED  BY <1>8 DEF v

LEMMA PairingLists ==
  ASSUME VoiceTypes, Owned, OneProcess, Attached, Meeting, crowd' = crowd,
         NEW k \in Pids, Lists(k), NEW u \in Members, NEW i \in Pids, NEW j \in Pids,
         session[u].pid = i, session[Other(u)].pid = j, Agreed(u, Other(u), i, j)
  PROVE  Agreed(u, Other(u), i, j)'
<1> DEFINE v == Other(u)
           e == [t |-> "state", list |-> Listing]
<1>1. Pair(u, v, i, j)
  BY MeetingPair
<1>2. /\ proc[k].st = "tracked" /\ proc'[k].st = "present"
      /\ \A l \in Pids \ {k} : proc'[l] = proc[l] /\ inbox'[l] = inbox[l]
      /\ inbox'[k] = Append(inbox[k], e) /\ inbox[k] \in Seq(Pushed) /\ e \in Pushed
      /\ UNCHANGED <<session, task, news>>
  BY PairLists
<1>3. /\ e.t = "state" /\ ~IsSignal(e)
      /\ Tracked(proc[j].st) => \E f \in e.list : f.user = j[1]
  <2>1. Tracked(proc[j].st) => [user |-> proc[j].user, at |-> proc[j].at] \in Listing
                               /\ proc[j].user = j[1]
    BY <1>2, ListingOfTwo
  <2>2. Tracked(proc[j].st) => \E f \in Listing : f.user = j[1]
    BY <2>1
  <2>. QED  BY <2>2 DEF IsSignal
<1> HIDE DEF v, e
<1>4. k \in {i, j} /\ v \in Members
  BY <1>1, <1>2 DEF Pair
<1>5. /\ Len(inbox[k]) + 1 \in DOMAIN inbox'[k] /\ inbox'[k][Len(inbox[k]) + 1] = e
      /\ \A n \in DOMAIN inbox[k] : n \in DOMAIN inbox'[k] /\ inbox'[k][n] = inbox[k][n]
      /\ \A n \in DOMAIN inbox'[k] : inbox'[k][n] = e \/ \E l \in DOMAIN inbox[k] : inbox'[k][n] = inbox[k][l]
  BY <1>2, Appended, OldOrAppended
<1>6. ASSUME NEW l \in Pids
      PROVE  /\ \A n \in DOMAIN inbox[l] : n \in DOMAIN inbox'[l] /\ inbox'[l][n] = inbox[l][n]
             /\ \A n \in DOMAIN inbox'[l] : ~IsSignal(inbox'[l][n])
                   \/ \E h \in DOMAIN inbox[l] : inbox'[l][n] = inbox[l][h]
  <2>1. CASE l = k
    BY <1>3, <1>5, <2>1
  <2>2. CASE l # k
    BY <1>2, <2>2
  <2>. QED  BY <2>1, <2>2
<1>7. ASSUME ToBeHeard(i, j) PROVE ToBeHeard(i, j)'
  <2>1. CASE proc[j].st = "stamped"
    <3>1. j # k
      BY <1>2, <2>1
    <3>2. proc'[j].st = "stamped"
      BY <1>2, <2>1, <3>1
    <3>. QED  BY <3>2 DEF ToBeHeard
  <2>2. CASE proc[j].st # "stamped" /\ k = i
    <3>1. Tracked(proc[j].st)
      BY <1>1, <2>2 DEF Pair, Live, Tracked
    <3>2. Len(inbox[i]) + 1 \in DOMAIN inbox'[i] /\ inbox'[i][Len(inbox[i]) + 1] = e
      BY <1>5, <2>2
    <3>3. \E n \in DOMAIN inbox'[i] : inbox'[i][n].t = "state" /\ \E f \in inbox'[i][n].list : f.user = j[1]
      BY <1>3, <3>1, <3>2
    <3>. QED  BY <3>3 DEF ToBeHeard
  <2>3. CASE proc[j].st # "stamped" /\ k # i
    <3>1. proc'[i] = proc[i] /\ news' = news
      BY <1>2, <2>3
    <3>. QED  BY <1>6, <1>7, <2>3, <3>1 DEF ToBeHeard
  <2>. QED  BY <2>1, <2>2, <2>3
<1>8. Agreed(u, v, i, j)
  BY DEF v
<1>9. Agreed(u, v, i, j)'
  BY <1>2, <1>4, <1>6, <1>7, <1>8, AgreedFrame
<1>. QED  BY <1>9 DEF v

LEMMA PairingSpread ==
  ASSUME VoiceTypes, Owned, OneProcess, Attached, Meeting, crowd' = crowd, NewsSpreads,
         NEW u \in Members, NEW i \in Pids, NEW j \in Pids,
         session[u].pid = i, session[Other(u)].pid = j, Agreed(u, Other(u), i, j)
  PROVE  Agreed(u, Other(u), i, j)'
<1> DEFINE v == Other(u)
           d == news[1]
<1>1. Pair(u, v, i, j)
  BY MeetingPair
<1>2. /\ d \in Diffs /\ news' = Tail(news) /\ news # <<>> /\ news \in Seq(Diffs)
      /\ \A k \in Pids : inbox'[k] = IF Listens(k) THEN Append(inbox[k], d) ELSE inbox[k]
      /\ UNCHANGED <<session, task, proc>>
  BY TypesOfNews DEF NewsSpreads, VoiceTypes
<1>3. \A n \in DOMAIN news : n \in Nat /\ n >= 1
                             /\ (n > 1 => n - 1 \in DOMAIN news' /\ news'[n - 1] = news[n])
  BY <1>2, Shortened
<1> HIDE DEF v
<1>4. /\ d \in Pushed /\ ~IsSignal(d) /\ \A k \in Pids : inbox[k] \in Seq(Pushed)
  BY <1>2 DEF Diffs, Pushed, IsSignal, VoiceTypes
<1>5. inbox'[i] = Append(inbox[i], d) /\ inbox'[j] = Append(inbox[j], d) /\ v \in Members
  BY <1>1, <1>2 DEF Pair
<1>6. /\ Len(inbox[i]) + 1 \in DOMAIN inbox'[i] /\ inbox'[i][Len(inbox[i]) + 1] = d
      /\ \A n \in DOMAIN inbox[i] : n \in DOMAIN inbox'[i] /\ inbox'[i][n] = inbox[i][n]
      /\ \A n \in DOMAIN inbox'[i] : inbox'[i][n] = d \/ \E l \in DOMAIN inbox[i] : inbox'[i][n] = inbox[i][l]
  BY <1>4, <1>5, Appended, OldOrAppended
<1>7. /\ \A n \in DOMAIN inbox[j] : n \in DOMAIN inbox'[j] /\ inbox'[j][n] = inbox[j][n]
      /\ \A n \in DOMAIN inbox'[j] : inbox'[j][n] = d \/ \E l \in DOMAIN inbox[j] : inbox'[j][n] = inbox[j][l]
  BY <1>4, <1>5, Appended, OldOrAppended
<1>8. ASSUME ToBeHeard(i, j) PROVE ToBeHeard(i, j)'
  <2>1. CASE \E n \in DOMAIN news : news[n].t = "join" /\ news[n].user = j[1]
    <3>1. PICK n \in DOMAIN news : news[n].t = "join" /\ news[n].user = j[1]
      BY <2>1
    <3>2. CASE n = 1
      <4>1. \E k \in DOMAIN inbox'[i] : inbox'[i][k].t = "join" /\ inbox'[i][k].user = j[1]
        BY <1>6, <3>1, <3>2
      <4>. QED  BY <4>1 DEF ToBeHeard
    <3>3. CASE n # 1
      <4>1. n > 1
        BY <1>3, <3>3
      <4>2. \E k \in DOMAIN news' : news'[k].t = "join" /\ news'[k].user = j[1]
        BY <1>3, <3>1, <4>1
      <4>. QED  BY <4>2 DEF ToBeHeard
    <3>. QED  BY <3>2, <3>3
  <2>2. CASE ~\E n \in DOMAIN news : news[n].t = "join" /\ news[n].user = j[1]
    BY <1>2, <1>6, <1>8, <2>2 DEF ToBeHeard
  <2>. QED  BY <2>1, <2>2
<1>9. Agreed(u, v, i, j)
  BY DEF v
<1> HIDE DEF d
<1>10. /\ \A n \in DOMAIN inbox'[i] : ~IsSignal(inbox'[i][n])
             \/ \E k \in DOMAIN inbox[i] : inbox'[i][n] = inbox[i][k]
       /\ \A n \in DOMAIN inbox'[j] : ~IsSignal(inbox'[j][n])
             \/ \E k \in DOMAIN inbox[j] : inbox'[j][n] = inbox[j][k]
  BY <1>4, <1>6, <1>7
<1>11. /\ session'[u].peer = session[u].peer /\ session'[v].peer = session[v].peer
       /\ task'[u] = task[u] /\ task'[v] = task[v]
       /\ session[u].peer = Unpeered /\ ToBeHeard(i, j) => ToBeHeard(i, j)'
       /\ \A k \in DOMAIN inbox[j] : inbox[j][k].t = "offer" =>
             \E n \in DOMAIN inbox'[j] : inbox'[j][n] = inbox[j][k]
  BY <1>2, <1>7, <1>8
<1>12. Agreed(u, v, i, j)'
  BY <1>5, <1>9, <1>10, <1>11, AgreedFrame
<1>. QED  BY <1>12 DEF v

\* A member who meets the other hears of its process with the time it has.
LEMMA HeardTimes ==
  ASSUME NEW u, NEW v, NEW i, NEW j, Pair(u, v, i, j), Traced,
         \A n \in DOMAIN inbox[i] : ~IsLeave(inbox[i][n], v),
         \A n \in DOMAIN news : ~IsLeave(news[n], v), NEW n \in DOMAIN inbox[i]
  PROVE  LET m == inbox[i][n]
         IN  /\ m.t = "join" /\ m.user = v => m.at = proc[j].at
             /\ m.t = "state" => \A e \in m.list : e.user = v => e.at = proc[j].at
<1>1. ASSUME NEW t, TrackedAt(v, t) PROVE t = proc[j].at
  <2>1. PICK l \in Pids : proc[l].user = v /\ Tracked(proc[l].st) /\ proc[l].at = t
    BY <1>1 DEF TrackedAt
  <2>2. l = i \/ l = j
    BY <2>1 DEF Pair, Tracked
  <2>3. l # i
    BY <2>1, OtherMember DEF Pair
  <2>. QED  BY <2>1, <2>2, <2>3
<1>2. i \in Pids /\ TracedMessage(i, n) /\ Other(i[1]) = v /\ ~LeaveAfter(i, n, v)
  BY DEF Pair, Traced, LeaveAfter
<1>. QED  BY <1>1, <1>2 DEF TracedMessage

LEMMA PairingHeardByFirst ==
  ASSUME VoiceTypes, Owned, OneProcess, Attached, Heeded, Traced, Meeting, crowd' = crowd,
         crossed' = {}, NEW u \in Members, NEW i \in Pids, NEW j \in Pids, Receives(j),
         session[u].pid = i, session[Other(u)].pid = j, Later(u, Other(u), i, j),
         Agreed(u, Other(u), i, j)
  PROVE  Agreed(u, Other(u), i, j)'
<1> DEFINE v == Other(u)
           m == inbox[j][1]
<1>0. v \in Members /\ Other(v) = u /\ u # v
  BY OtherMember
<1>1. /\ Pair(u, v, i, j) /\ Pair(v, u, j, i)
      /\ \A n \in DOMAIN inbox[j] : ~IsLeave(inbox[j][n], u)
      /\ \A n \in DOMAIN news : ~IsLeave(news[n], u)
  <2>1. /\ Pair(u, v, i, j) /\ \A n \in DOMAIN inbox[j] : ~IsLeave(inbox[j][n], u)
        /\ \A n \in DOMAIN news : ~IsLeave(news[n], u)
    BY MeetingPair
  <2>2. Pair(v, Other(v), j, i)
    BY <1>0, MeetingPair
  <2>. QED  BY <1>0, <2>1, <2>2
<1>2. j[1] = v /\ i # j
  BY <1>1 DEF Pair
<1>3. /\ m \in Pushed /\ m.t # "refused" /\ inbox[j] # <<>> /\ 1 \in DOMAIN inbox[j]
      /\ inbox[j] \in Seq(Pushed) /\ session[v] # NoSession
      /\ HandledBy(v, j, m) /\ SessionGoesOn(v)
      /\ inbox'[j] = Tail(inbox[j]) /\ \A l \in Pids \ {j} : inbox'[l] = inbox[l]
      /\ m.t = "state" => session'[v].at = proc[j].at
      /\ crossed' = IF OutOfTurn(v, m) THEN crossed \cup {v} ELSE crossed
      /\ UNCHANGED <<proc, news>>
  BY <1>2, PairReceives
<1>4. /\ \A n \in DOMAIN inbox'[j] : \E k \in DOMAIN inbox[j] : inbox'[j][n] = inbox[j][k]
      /\ \A k \in DOMAIN inbox[j] : k # 1 => \E n \in DOMAIN inbox'[j] : inbox'[j][n] = inbox[j][k]
  <2>1. /\ \A n \in DOMAIN Tail(inbox[j]) : n + 1 \in DOMAIN inbox[j] /\ Tail(inbox[j])[n] = inbox[j][n + 1]
        /\ \A n \in DOMAIN inbox[j] : n \in Nat /\ n >= 1 /\
              (n > 1 => n - 1 \in DOMAIN Tail(inbox[j]) /\ Tail(inbox[j])[n - 1] = inbox[j][n])
    BY <1>3, Shortened
  <2>2. \A k \in DOMAIN inbox[j] : k # 1 => k > 1
    BY <2>1
  <2>. QED  BY <1>3, <2>1, <2>2
<1>5. /\ m.t = "join" /\ m.user = u => m.at = proc[i].at
      /\ m.t = "state" => \A e \in m.list : e.user = u => e.at = proc[i].at
  BY <1>1, <1>3, HeardTimes
<1>6. ~Later(v, u, j, i)
  BY OneIsLater
<1>7. session[v].at \in {Infinity, proc[j].at} /\ ~OutOfTurn(v, m)
  BY <1>1, <1>3 DEF Pair
<1>8. ~IsLeave(m, u)
  BY <1>1, <1>3
<1>9. /\ session'[u] = session[u] /\ task'[u] = task[u] /\ inbox'[i] = inbox[i]
      /\ Agreed(u, v, i, j)
  BY <1>0, <1>2, <1>3 DEF SessionGoesOn
<1>10. m.t \in {"state", "join", "leave", "offer", "answer", "ice"}
  BY <1>3 DEF Pushed, Diffs, Relays, Descriptions
<1>11. CASE m.t \in {"state", "join", "leave"}
  <2>1. session'[v].peer = session[v].peer /\ task'[v] = task[v]
    <3>1. CASE m.t = "state"
      <4>1. ASSUME NEW e \in m.list, e.user # v, ShouldInitiateTo(v, session'[v].at, e) PROVE FALSE
        <5>1. m.list \subseteq Entries
          BY <1>3, <3>1 DEF Pushed, Diffs, Relays, Descriptions
        <5>2. e.user = u /\ e.at = proc[i].at
          BY <1>0, <1>5, <3>1, <4>1, <5>1 DEF Entries, Members
        <5>. QED  BY <1>3, <1>6, <3>1, <4>1, <5>2 DEF Later, ShouldInitiateTo
      <4>2. HeardState(v, m)
        BY <1>3, <3>1 DEF HandledBy
      <4>. QED  BY <4>1, <4>2 DEF HeardState
    <3>2. CASE m.t = "join"
      <4>1. HeardJoin(v, m) /\ m.user \in Members
        BY <1>3, <3>2 DEF HandledBy, Pushed, Diffs, Relays, Descriptions
      <4>2. CASE m.user = v
        BY <4>1, <4>2 DEF HeardJoin
      <4>3. CASE m.user = u
        <5>1. session[v].at = proc[j].at
          BY <1>0, <1>3, <1>7, <3>2, <4>3 DEF OutOfTurn
        <5>2. ~ShouldInitiateTo(v, session[v].at, m)
          BY <1>5, <1>6, <3>2, <4>3, <5>1 DEF Later, ShouldInitiateTo
        <5>. QED  BY <4>1, <5>2 DEF HeardJoin
      <4>4. m.user = u \/ m.user = v
        BY <4>1, <1>0 DEF Members
      <4>. QED  BY <4>2, <4>3, <4>4
    <3>3. CASE m.t = "leave"
      <4>1. HeardLeave(v, m) /\ m.user \in Members
        BY <1>3, <3>3 DEF HandledBy, Pushed, Diffs, Relays, Descriptions
      <4>2. m.user = v
        BY <1>0, <1>8, <3>3, <4>1 DEF Members, IsLeave
      <4>. QED  BY <4>1, <4>2 DEF HeardLeave
    <3>. QED  BY <1>11, <3>1, <3>2, <3>3
  <2>2. \A k \in DOMAIN inbox[j] : inbox[j][k].t = "offer" => k # 1
    BY <1>11
  <2>3. ToBeHeard(i, j) => ToBeHeard(i, j)'
    BY <1>3, <1>9 DEF ToBeHeard
  <2>4. /\ session'[u].peer = session[u].peer /\ session'[v].peer = session[v].peer
        /\ task'[u] = task[u] /\ task'[v] = task[v]
        /\ session[u].peer = Unpeered /\ ToBeHeard(i, j) => ToBeHeard(i, j)'
    BY <1>9, <2>1, <2>3
  <2>5. /\ \A n \in DOMAIN inbox'[i] : ~IsSignal(inbox'[i][n])
                                     \/ \E k \in DOMAIN inbox[i] : inbox'[i][n] = inbox[i][k]
        /\ \A n \in DOMAIN inbox'[j] : ~IsSignal(inbox'[j][n])
                                     \/ \E k \in DOMAIN inbox[j] : inbox'[j][n] = inbox[j][k]
        /\ \A k \in DOMAIN inbox[j] : inbox[j][k].t = "offer" =>
              \E n \in DOMAIN inbox'[j] : inbox'[j][n] = inbox[j][k]
    BY <1>4, <1>9, <2>2
  <2> HIDE DEF v, m
  <2>6. Agreed(u, v, i, j)'
    BY <1>0, <1>9, <2>4, <2>5, AgreedFrame
  <2>. QED  BY <2>6 DEF v
<1>12. CASE m.t \in {"offer", "answer", "ice"}
  <2>1. session[u].peer # Unpeered /\ session[u].peer.sig # "have-remote-offer" /\ Reached(u, v, j)
        /\ OneOffers(u, v, i)
    BY <1>3, <1>9, <1>12 DEF Agreed, Untouched, IsSignal
  <2>2. \/ session'[v].peer # Unpeered
        \/ session'[v].peer = session[v].peer /\ m.t # "offer"
    <3>1. CASE m.t = "offer"
      BY <1>0, <1>3, <3>1, WithPeerTyped DEF HandledBy, HeardOffer
    <3>2. CASE m.t = "answer"
      BY <1>3, <3>2 DEF HandledBy, HeardAnswer
    <3>3. CASE m.t = "ice"
      BY <1>3, <3>3, LinkNotNone DEF HandledBy, HeardIce
    <3>. QED  BY <1>12, <3>1, <3>2, <3>3
  <2>3. Reached(u, v, j)'
    <3>1. CASE session'[v].peer # Unpeered
      BY <3>1 DEF Reached
    <3>2. CASE session'[v].peer = session[v].peer /\ session'[v].peer = Unpeered /\ m.t # "offer"
      <4>1. \A k \in DOMAIN inbox[j] : inbox[j][k].t = "offer" => k # 1
        BY <3>2
      <4>2. \A k \in DOMAIN inbox[j] : inbox[j][k].t = "offer" =>
               \E n \in DOMAIN inbox'[j] : inbox'[j][n].t = "offer"
        BY <1>4, <4>1
      <4>. QED  BY <1>9, <2>1, <3>2, <4>2 DEF Reached
    <3>. QED  BY <2>2, <3>1, <3>2
  <2>4. \A n \in DOMAIN task'[v] : task'[v][n].k # "offer"
    <3>1. task[v] \in Seq(Waits)
      BY <1>0 DEF VoiceTypes
    <3>2. \A n \in DOMAIN task[v] : task[v][n].k # "offer"
      BY <2>1 DEF OneOffers
    <3>3. CASE task'[v] = task[v]
      BY <3>2, <3>3
    <3>4. ASSUME NEW e \in Waits, e.k # "offer", task'[v] = Append(task[v], e) PROVE \A n \in DOMAIN task'[v] : task'[v][n].k # "offer"
      BY <3>1, <3>2, <3>4, OldOrAppended
    <3>5. WithPeer(v).conn \in Conns /\ (session[v].peer # Unpeered => session[v].peer.conn \in Conns)
      BY <1>0, <1>3, WithPeerTyped
    <3>6. CASE m.t = "offer"
      <4>1. [k |-> "remote offer", conn |-> WithPeer(v).conn, desc |-> m] \in Waits
        BY <1>3, <3>5, <3>6 DEF Waits, Pushed, Diffs, Relays, Descriptions
      <4>. QED  BY <1>3, <3>4, <3>6, <4>1 DEF HandledBy, HeardOffer
    <3>7. CASE m.t = "answer"
      <4>1. session[v].peer # Unpeered =>
               [k |-> "remote answer", conn |-> session[v].peer.conn, desc |-> m] \in Waits
        BY <1>3, <3>5, <3>7 DEF Waits, Pushed, Diffs, Relays, Descriptions
      <4>. QED  BY <1>3, <3>3, <3>4, <3>7, <4>1 DEF HandledBy, HeardAnswer
    <3>8. CASE m.t = "ice"
      BY <1>3, <3>3, <3>8 DEF HandledBy, HeardIce
    <3>. QED  BY <1>12, <3>6, <3>7, <3>8
  <2>5. OneOffers(u, v, i)'
    BY <1>9, <2>1, <2>4 DEF OneOffers
  <2>6. Agreed(u, v, i, j)'
    BY <1>9, <2>1, <2>3, <2>5 DEF Agreed
  <2>. QED  BY <2>6
<1>. QED  BY <1>10, <1>11, <1>12

LEMMA WaitAdded ==
  ASSUME NEW f, NEW s \in Seq(Waits), NEW e \in Waits, f = Append(s, e)
  PROVE  /\ \A n \in DOMAIN f : f[n] = e \/ \E h \in DOMAIN s : f[n] = s[h]
         /\ \A h \in DOMAIN s : \E n \in DOMAIN f : f[n] = s[h]
         /\ \E n \in DOMAIN f : f[n] = e
<1>1. DOMAIN f = DOMAIN s \cup {Len(s) + 1} /\ f[Len(s) + 1] = e
      /\ \A n \in DOMAIN s : f[n] = s[n]
  BY Appended
<1>. QED  BY <1>1

LEMMA PairingHeardByLater ==
  ASSUME VoiceTypes, Owned, OneProcess, Attached, Heeded, Traced, Meeting, crowd' = crowd,
         crossed' = {}, NEW u \in Members, NEW i \in Pids, NEW j \in Pids, Receives(i),
         session[u].pid = i, session[Other(u)].pid = j, Later(u, Other(u), i, j),
         Agreed(u, Other(u), i, j)
  PROVE  Agreed(u, Other(u), i, j)'
<1> DEFINE v == Other(u)
           m == inbox[i][1]
           offer == [k |-> "offer", conn |-> WithPeer(u).conn, desc |-> NoDesc]
<1>0. v \in Members /\ Other(v) = u /\ u # v
  BY OtherMember
<1>1. /\ Pair(u, v, i, j) /\ \A n \in DOMAIN inbox[i] : ~IsLeave(inbox[i][n], v)
      /\ \A n \in DOMAIN news : ~IsLeave(news[n], v)
  BY MeetingPair
<1>2. i[1] = u /\ j[1] = v /\ i # j
  BY <1>1 DEF Pair
<1>3. /\ m \in Pushed /\ m.t # "refused" /\ inbox[i] # <<>> /\ 1 \in DOMAIN inbox[i]
      /\ inbox[i] \in Seq(Pushed) /\ session[u] # NoSession
      /\ HandledBy(u, i, m) /\ SessionGoesOn(u)
      /\ inbox'[i] = Tail(inbox[i]) /\ \A l \in Pids \ {i} : inbox'[l] = inbox[l]
      /\ m.t = "state" => session'[u].at = proc[i].at
      /\ crossed' = IF OutOfTurn(u, m) THEN crossed \cup {u} ELSE crossed
      /\ UNCHANGED <<proc, news>>
  BY <1>2, PairReceives
<1>4. /\ \A n \in DOMAIN inbox'[i] : \E k \in DOMAIN inbox[i] : inbox'[i][n] = inbox[i][k]
      /\ \A k \in DOMAIN inbox[i] : k # 1 => \E n \in DOMAIN inbox'[i] : inbox'[i][n] = inbox[i][k]
  <2>1. /\ \A n \in DOMAIN Tail(inbox[i]) : n + 1 \in DOMAIN inbox[i] /\ Tail(inbox[i])[n] = inbox[i][n + 1]
        /\ \A n \in DOMAIN inbox[i] : n \in Nat /\ n >= 1 /\
              (n > 1 => n - 1 \in DOMAIN Tail(inbox[i]) /\ Tail(inbox[i])[n - 1] = inbox[i][n])
    BY <1>3, Shortened
  <2>2. \A k \in DOMAIN inbox[i] : k # 1 => k > 1
    BY <2>1
  <2>. QED  BY <1>3, <2>1, <2>2
<1>5. /\ m.t = "join" /\ m.user = v => m.at = proc[j].at
      /\ m.t = "state" => \A e \in m.list : e.user = v => e.at = proc[j].at
  BY <1>1, <1>3, HeardTimes
<1>6. session[u].at \in {Infinity, proc[i].at} /\ ~OutOfTurn(u, m)
  BY <1>1, <1>3 DEF Pair
<1>7. ~IsLeave(m, v)
  BY <1>1, <1>3
<1>8. /\ session'[v] = session[v] /\ task'[v] = task[v] /\ inbox'[j] = inbox[j]
      /\ Agreed(u, v, i, j) /\ OneOffers(u, v, i)
  BY <1>0, <1>2, <1>3 DEF SessionGoesOn, Agreed
<1>9. m.t \in {"state", "join", "leave", "answer", "ice"}
  BY <1>3, <1>8 DEF Pushed, Diffs, Relays, Descriptions, OneOffers
<1>10. /\ WithPeer(u) # Unpeered /\ WithPeer(u).sig # "have-remote-offer"
       /\ session[u].peer # Unpeered => WithPeer(u) = session[u].peer
  <2>1. /\ WithPeer(u) # Unpeered /\ (session[u].peer = Unpeered => WithPeer(u).sig = "stable")
        /\ session[u].peer # Unpeered => WithPeer(u) = session[u].peer
    BY <1>3, WithPeerTyped
  <2>. QED  BY <1>8, <2>1 DEF Agreed
<1>11. \A n \in DOMAIN inbox'[i] : inbox'[i][n].t # "offer"
  <2>1. \A n \in DOMAIN inbox[i] : inbox[i][n].t # "offer"
    BY <1>8 DEF OneOffers
  <2>. QED  BY <1>4, <2>1
<1>12. /\ task[u] \in Seq(Waits) /\ offer \in Waits /\ offer.k = "offer"
       /\ \A n \in DOMAIN task[u] : task[u][n].k # "remote offer"
  <2>1. WithPeer(u).conn \in Conns
    BY <1>3, WithPeerTyped
  <2>2. offer \in Waits
    BY <2>1 DEF Waits
  <2>3. task[u] \in Seq(Waits)
    BY DEF VoiceTypes
  <2>. QED  BY <1>8, <2>2, <2>3 DEF OneOffers
<1> HIDE DEF offer
\* Nothing but the message has changed.
<1>13. ASSUME session'[u].peer = session[u].peer, task'[u] = task[u],
              ToBeHeard(i, j) => session[u].peer # Unpeered \/ ToBeHeard(i, j)'
       PROVE  Agreed(u, v, i, j)'
  <2>1. /\ session'[u].peer = session[u].peer /\ session'[v].peer = session[v].peer
        /\ task'[u] = task[u] /\ task'[v] = task[v]
        /\ session[u].peer = Unpeered /\ ToBeHeard(i, j) => ToBeHeard(i, j)'
    BY <1>8, <1>13
  <2>2. /\ \A n \in DOMAIN inbox'[i] : ~IsSignal(inbox'[i][n])
                                     \/ \E k \in DOMAIN inbox[i] : inbox'[i][n] = inbox[i][k]
        /\ \A n \in DOMAIN inbox'[j] : ~IsSignal(inbox'[j][n])
                                     \/ \E k \in DOMAIN inbox[j] : inbox'[j][n] = inbox[j][k]
        /\ \A k \in DOMAIN inbox[j] : inbox[j][k].t = "offer" =>
              \E n \in DOMAIN inbox'[j] : inbox'[j][n] = inbox[j][k]
    BY <1>4, <1>8
  <2> HIDE DEF v, m
  <2>. QED  BY <1>0, <1>8, <2>1, <2>2, AgreedFrame
\* The message makes the later member offer.
<1>14. ASSUME session'[u].peer = WithPeer(u), task'[u] = Append(task[u], offer)
       PROVE  Agreed(u, v, i, j)'
  <2>0. /\ \A n \in DOMAIN task'[u] : task'[u][n] = offer
                                         \/ \E h \in DOMAIN task[u] : task'[u][n] = task[u][h]
        /\ \E n \in DOMAIN task'[u] : task'[u][n] = offer
    <3>1. task[u] \in Seq(Waits) /\ offer \in Waits /\ task'[u] = Append(task[u], offer)
      BY <1>12, <1>14
    <3>. QED  BY <3>1, WaitAdded
  <2>1. \E n \in DOMAIN task'[u] : task'[u][n].k = "offer"
    BY <1>12, <2>0
  <2>2. \A n \in DOMAIN task'[u] : task'[u][n].k # "remote offer"
    BY <1>12, <2>0
  <2>3. OneOffers(u, v, i)'
    BY <1>8, <1>11, <2>2 DEF OneOffers
  <2>4. Reached(u, v, j)'
    BY <2>1 DEF Reached
  <2>. QED  BY <1>10, <1>14, <2>3, <2>4 DEF Agreed
\* The entry of the other is not in the message.
<1>15. ASSUME ~(m.t = "join" /\ m.user = v), ~(m.t = "state" /\ \E e \in m.list : e.user = v),
              ToBeHeard(i, j)
       PROVE  ToBeHeard(i, j)'
  <2>1. CASE \E n \in DOMAIN inbox[i] :
                 \/ inbox[i][n].t = "join" /\ inbox[i][n].user = j[1]
                 \/ inbox[i][n].t = "state" /\ \E e \in inbox[i][n].list : e.user = j[1]
    <3>1. PICK n \in DOMAIN inbox[i] :
                 \/ inbox[i][n].t = "join" /\ inbox[i][n].user = j[1]
                 \/ inbox[i][n].t = "state" /\ \E e \in inbox[i][n].list : e.user = j[1]
      BY <2>1
    <3>2. n # 1
      BY <1>2, <1>15, <3>1
    <3>3. PICK k \in DOMAIN inbox'[i] : inbox'[i][k] = inbox[i][n]
      BY <1>4, <3>2
    <3>. QED  BY <3>1, <3>3 DEF ToBeHeard
  <2>2. CASE ~\E n \in DOMAIN inbox[i] :
                 \/ inbox[i][n].t = "join" /\ inbox[i][n].user = j[1]
                 \/ inbox[i][n].t = "state" /\ \E e \in inbox[i][n].list : e.user = j[1]
    BY <1>3, <1>15, <2>2 DEF ToBeHeard
  <2>. QED  BY <2>1, <2>2
<1>16. CASE m.t = "state"
  <2>1. HeardState(u, m) /\ session'[u].at = proc[i].at /\ m.list \subseteq Entries
    BY <1>3, <1>16 DEF HandledBy, Pushed, Diffs, Relays, Descriptions
  <2>2. CASE \E e \in m.list : e.user = v
    <3>1. PICK e \in m.list : e.user = v
      BY <2>2
    <3>2. e.user # u /\ e.at = proc[j].at
      BY <1>0, <1>5, <1>16, <3>1
    <3>3. ShouldInitiateTo(u, session'[u].at, e)
      BY <2>1, <3>1, <3>2 DEF Later, ShouldInitiateTo
    <3>4. session'[u].peer = WithPeer(u) /\ task'[u] = Append(task[u], offer)
      BY <2>1, <3>2, <3>3 DEF HeardState, offer
    <3>. QED  BY <1>14, <3>4
  <2>3. CASE ~\E e \in m.list : e.user = v
    <3>1. \A e \in m.list : e.user = u
      BY <1>0, <2>1, <2>3 DEF Entries, Members
    <3>2. session'[u].peer = session[u].peer /\ task'[u] = task[u]
      BY <2>1, <3>1 DEF HeardState
    <3>3. ToBeHeard(i, j) => ToBeHeard(i, j)'
      BY <1>15, <1>16, <2>3
    <3>. QED  BY <1>13, <3>2, <3>3
  <2>. QED  BY <2>2, <2>3
<1>17. CASE m.t = "join"
  <2>1. HeardJoin(u, m) /\ m.user \in Members
    BY <1>3, <1>17 DEF HandledBy, Pushed, Diffs, Relays, Descriptions
  <2>2. CASE m.user = u
    <3>1. session'[u].peer = session[u].peer /\ task'[u] = task[u]
      BY <2>1, <2>2 DEF HeardJoin
    <3>2. ToBeHeard(i, j) => ToBeHeard(i, j)'
      BY <1>0, <1>15, <1>17, <2>2
    <3>. QED  BY <1>13, <3>1, <3>2
  <2>3. CASE m.user = v
    <3>1. session[u].at = proc[i].at
      BY <1>0, <1>3, <1>6, <1>17, <2>3 DEF OutOfTurn
    <3>2. ShouldInitiateTo(u, session[u].at, m)
      BY <1>5, <1>17, <2>3, <3>1 DEF Later, ShouldInitiateTo
    <3>3. CASE session[u].peer = Unpeered
      BY <1>0, <1>14, <2>1, <2>3, <3>2, <3>3 DEF HeardJoin, offer
    <3>4. CASE session[u].peer # Unpeered
      BY <1>13, <2>1, <3>4 DEF HeardJoin
    <3>. QED  BY <3>3, <3>4
  <2>4. m.user = u \/ m.user = v
    BY <1>0, <2>1 DEF Members
  <2>. QED  BY <2>2, <2>3, <2>4
<1>18. CASE m.t = "leave"
  <2>1. HeardLeave(u, m) /\ m.user \in Members
    BY <1>3, <1>18 DEF HandledBy, Pushed, Diffs, Relays, Descriptions
  <2>2. m.user = u
    BY <1>0, <1>7, <1>18, <2>1 DEF Members, IsLeave
  <2>3. session'[u].peer = session[u].peer /\ task'[u] = task[u]
    BY <2>1, <2>2 DEF HeardLeave
  <2>4. ToBeHeard(i, j) => ToBeHeard(i, j)'
    BY <1>15, <1>18
  <2>. QED  BY <1>13, <2>3, <2>4
<1>19. CASE m.t \in {"answer", "ice"}
  <2>1. session[u].peer # Unpeered /\ session[u].peer.sig # "have-remote-offer" /\ Reached(u, v, j)
    BY <1>3, <1>8, <1>19 DEF Agreed, Untouched, IsSignal
  <2>2. /\ session'[u].peer # Unpeered /\ session'[u].peer.sig # "have-remote-offer"
    <3>1. CASE m.t = "answer"
      BY <1>3, <2>1, <3>1 DEF HandledBy, HeardAnswer
    <3>2. CASE m.t = "ice"
      BY <1>3, <1>10, <3>2, LinkNotNone DEF HandledBy, HeardIce
    <3>. QED  BY <1>19, <3>1, <3>2
  <2> DEFINE answer == [k |-> "remote answer", conn |-> session[u].peer.conn, desc |-> m]
  <2>3. task'[u] = task[u] \/ (answer \in Waits /\ answer.k = "remote answer" /\ task'[u] = Append(task[u], answer))
    <3>1. CASE m.t = "answer"
      <4>1. session[u].peer \in Links
        BY <1>3, <2>1, SessionFacts DEF Sessions
      <4>2. answer \in Waits
        BY <1>3, <3>1, <4>1, LinkNotNone DEF Waits, Pushed, Diffs, Relays, Descriptions
      <4>. QED  BY <1>3, <2>1, <3>1, <4>2 DEF HandledBy, HeardAnswer
    <3>2. CASE m.t = "ice"
      BY <1>3, <3>2 DEF HandledBy, HeardIce
    <3>. QED  BY <1>19, <3>1, <3>2
  <2> HIDE DEF answer
  <2>4. ASSUME NEW e \in Waits, e.k # "remote offer", task'[u] = Append(task[u], e)
        PROVE  /\ \A n \in DOMAIN task'[u] : task'[u][n].k # "remote offer"
               /\ \A h \in DOMAIN task[u] : \E n \in DOMAIN task'[u] : task'[u][n] = task[u][h]
    <3>1. /\ \A n \in DOMAIN task'[u] : task'[u][n] = e
                                         \/ \E h \in DOMAIN task[u] : task'[u][n] = task[u][h]
          /\ \A h \in DOMAIN task[u] : \E n \in DOMAIN task'[u] : task'[u][n] = task[u][h]
      <4>1. task[u] \in Seq(Waits) /\ task'[u] = Append(task[u], e)
        BY <1>12, <2>4
      <4>2. \A n \in DOMAIN Append(task[u], e) : Append(task[u], e)[n] = e
               \/ \E h \in DOMAIN task[u] : Append(task[u], e)[n] = task[u][h]
        BY <4>1, OldOrAppended
      <4>3. \A h \in DOMAIN task[u] : h \in DOMAIN Append(task[u], e)
                                      /\ Append(task[u], e)[h] = task[u][h]
        BY <4>1, Appended
      <4>. QED  BY <4>1, <4>2, <4>3
    <3>. QED  BY <1>12, <2>4, <3>1
  <2>5. /\ \A n \in DOMAIN task'[u] : task'[u][n].k # "remote offer"
        /\ \A h \in DOMAIN task[u] : \E n \in DOMAIN task'[u] : task'[u][n] = task[u][h]
    BY <1>12, <2>3, <2>4
  <2>6. OneOffers(u, v, i)'
    BY <1>8, <1>11, <2>5 DEF OneOffers
  <2>7. Reached(u, v, j)'
    BY <1>8, <2>1, <2>5 DEF Reached
  <2>. QED  BY <2>2, <2>6, <2>7 DEF Agreed
<1>. QED  BY <1>9, <1>16, <1>17, <1>18, <1>19

LEMMA PairingNegotiates ==
  ASSUME VoiceTypes, Owned, OneProcess, Attached, Meeting, crowd' = crowd,
         NEW w \in Members, NEW n \in DOMAIN task[w], Negotiates(w, n),
         NEW u \in Members, NEW i \in Pids, NEW j \in Pids,
         session[u].pid = i, session[Other(u)].pid = j, Agreed(u, Other(u), i, j)
  PROVE  Agreed(u, Other(u), i, j)'
<1> DEFINE v == Other(u)
           t == task[w][n]
           p == session[w].peer
           rest == RemoveAt(task[w], n)
<1>1. Pair(u, v, i, j) /\ v \in Members /\ u # v /\ w \in {u, v}
  BY MeetingPair, OtherMember DEF Members, Other
<1>2. /\ session[w] # NoSession /\ session[w].joined
  BY <1>1 DEF Pair
<1>3. /\ SessionGoesOn(w) /\ WentOn(w, n) /\ p \in Links /\ t \in Waits /\ UNCHANGED <<proc, news>>
      /\ session[w].peer # Unpeered /\ p.conn \in Conns
  BY <1>2, GoingOn, LinkNotNone
<1>4. /\ rest \in Seq(Waits) /\ task[w] \in Seq(Waits)
      /\ \A h \in DOMAIN rest : \E l \in DOMAIN task[w] : rest[h] = task[w][l]
      /\ \A l \in DOMAIN task[w] : l # n => \E h \in DOMAIN rest : rest[h] = task[w][l]
  <2>1. task[w] \in Seq(Waits)
    BY DEF VoiceTypes
  <2>. QED  BY <2>1, OneRemoved
\* Member u is not without a connection: a suspended function has one.
<1>5. /\ session[u].peer # Unpeered /\ session[u].peer.sig # "have-remote-offer"
      /\ Reached(u, v, j) /\ OneOffers(u, v, i)
  <2>1. task[w] # <<>>
    OBVIOUS
  <2>2. task[u] # <<>> \/ task[v] # <<>>
    BY <1>1, <2>1
  <2>. QED  BY <2>2 DEF Agreed, Untouched, v
<1>6. /\ Desc("offer", p.conn) \in Descriptions /\ Desc("answer", p.conn) \in Descriptions
      /\ Desc("offer", p.conn).t = "offer" /\ Desc("answer", p.conn).t = "answer"
      /\ Desc("offer", p.conn).conn = p.conn /\ Desc("answer", p.conn).conn = p.conn
      /\ \A c : Desc("ice", c).t = "ice"
  BY <1>3 DEF Desc, Descriptions
<1> HIDE DEF v, t, p, rest
<1>7. \A x \in Members \ {w} : session'[x] = session[x] /\ task'[x] = task[x]
  BY <1>3 DEF SessionGoesOn
<1>8. ASSUME NEW m \in Descriptions, inbox' = Signalled(inbox, w, m), m.t # "offer" \/ w = u
      PROVE  /\ \A h \in DOMAIN inbox[j] : h \in DOMAIN inbox'[j] /\ inbox'[j][h] = inbox[j][h]
             /\ \A h \in DOMAIN inbox'[i] : inbox'[i][h].t # "offer"
             /\ w = u => \E h \in DOMAIN inbox'[j] : inbox'[j][h] = m
  <2>1. /\ \A h \in DOMAIN inbox[j] : h \in DOMAIN inbox'[j] /\ inbox'[j][h] = inbox[j][h]
        /\ session[w] # NoSession /\ session[w].joined /\ Listens(j) /\ j[1] = Other(w) =>
              \E h \in DOMAIN inbox'[j] : inbox'[j][h] = m
    BY <1>1, <1>8, SignalAdds DEF Pair
  <2>2. /\ \A h \in DOMAIN inbox[i] : h \in DOMAIN inbox'[i] /\ inbox'[i][h] = inbox[i][h]
        /\ \A h \in DOMAIN inbox'[i] : h \in DOMAIN inbox[i] \/ inbox'[i][h] \in {m, Desc("ice", m.conn)}
        /\ (\E h \in DOMAIN inbox'[i] : h \notin DOMAIN inbox[i]) => i[1] = Other(w)
    BY <1>1, <1>8, SignalAdds DEF Pair
  <2>3. i[1] = u /\ j[1] = v /\ Listens(j) /\ Other(u) = v
    BY <1>1 DEF Pair
  <2>4. \A h \in DOMAIN inbox'[i] : inbox'[i][h].t # "offer"
    <3>1. ASSUME NEW h \in DOMAIN inbox'[i] PROVE inbox'[i][h].t # "offer"
      <4>1. CASE h \in DOMAIN inbox[i]
        BY <1>5, <2>2, <4>1 DEF OneOffers
      <4>2. CASE h \notin DOMAIN inbox[i]
        <5>1. w # u /\ inbox'[i][h] \in {m, Desc("ice", m.conn)}
          BY <1>1, <2>2, <2>3, <3>1, <4>2
        <5>. QED  BY <1>6, <1>8, <5>1
      <4>. QED  BY <4>1, <4>2
    <3>. QED  BY <3>1
  <2>. QED  BY <1>2, <2>1, <2>3, <2>4
\* What is left of the suspended functions offers as little as before.
<1>9. /\ w = v => \A h \in DOMAIN rest : rest[h].k # "offer"
      /\ w = u => \A h \in DOMAIN rest : rest[h].k # "remote offer"
  <2>1. /\ \A h \in DOMAIN task[v] : task[v][h].k # "offer"
        /\ \A h \in DOMAIN task[u] : task[u][h].k # "remote offer"
    BY <1>5 DEF OneOffers
  <2>2. ASSUME NEW h \in DOMAIN rest
        PROVE  (w = v => rest[h].k # "offer") /\ (w = u => rest[h].k # "remote offer")
    <3>1. PICK l \in DOMAIN task[w] : rest[h] = task[w][l]
      BY <1>4
    <3>. QED  BY <2>1, <3>1
  <2>. QED  BY <2>2
<1>10. CASE w = u
  <2>1. t.k # "remote offer" /\ p.sig # "have-remote-offer" /\ p = session[u].peer
    BY <1>5, <1>10 DEF OneOffers, t, p
  <2>2. session'[v].peer = session[v].peer /\ task'[v] = task[v]
    BY <1>1, <1>7, <1>10
  <2>3. task'[u] = rest /\ session'[u].peer \in Links
        /\ session'[u].peer.sig # "have-remote-offer"
    BY <1>3, <1>10, <2>1 DEF WentOn, t, p, rest
  <2>4. /\ \A h \in DOMAIN inbox[j] : h \in DOMAIN inbox'[j] /\ inbox'[j][h] = inbox[j][h]
        /\ \A h \in DOMAIN inbox'[i] : inbox'[i][h].t # "offer"
        /\ t.k = "offer" => \E h \in DOMAIN inbox'[j] : inbox'[j][h].t = "offer"
    <3>1. CASE inbox' = inbox /\ t.k # "offer"
      BY <1>5, <3>1 DEF OneOffers
    <3>2. CASE inbox' = Signalled(inbox, u, Desc("answer", p.conn)) /\ t.k # "offer"
      BY <1>6, <1>8, <1>10, <3>2
    <3>3. CASE inbox' = Signalled(inbox, u, Desc("offer", p.conn))
      BY <1>6, <1>8, <1>10, <3>3
    <3>. QED  BY <1>3, <1>10, <2>1, <3>1, <3>2, <3>3 DEF WentOn, t, p
  <2>5. OneOffers(u, v, i)'
    BY <1>5, <1>9, <1>10, <2>2, <2>3, <2>4 DEF OneOffers
  <2>6. Reached(u, v, j)'
    <3>1. CASE session[v].peer # Unpeered
      BY <2>2, <3>1 DEF Reached
    <3>2. CASE \E h \in DOMAIN inbox[j] : inbox[j][h].t = "offer"
      BY <2>4, <3>2 DEF Reached
    <3>3. CASE t.k = "offer"
      BY <2>4, <3>3 DEF Reached
    <3>4. CASE t.k # "offer" /\ \E h \in DOMAIN task[u] : task[u][h].k = "offer"
      <4>1. PICK h \in DOMAIN task[u] : task[u][h].k = "offer"
        BY <3>4
      <4>2. h # n
        BY <1>10, <3>4, <4>1 DEF t
      <4>3. \E l \in DOMAIN rest : rest[l].k = "offer"
        BY <1>4, <1>10, <4>1, <4>2
      <4>. QED  BY <2>3, <4>3 DEF Reached
    <3>. QED  BY <1>5, <3>1, <3>2, <3>3, <3>4 DEF Reached
  <2>7. session'[u].peer # Unpeered
    BY <2>3, LinkNotNone
  <2>. QED  BY <2>3, <2>5, <2>6, <2>7 DEF Agreed, v
<1>11. CASE w = v
  <2>1. t.k # "offer"
    BY <1>5, <1>11 DEF OneOffers, t
  <2>2. session'[u].peer = session[u].peer /\ task'[u] = task[u]
    BY <1>1, <1>7, <1>11
  <2>3. session'[v].peer \in Links
    BY <1>3, <1>11, <2>1 DEF WentOn, t
  <2>4. \A h \in DOMAIN task'[v] : task'[v][h].k # "offer"
    <3>1. CASE task'[v] = rest
      BY <1>9, <1>11, <3>1
    <3>2. CASE task'[v] = Append(rest, [t EXCEPT !.k = "answer"]) /\ t.k = "remote offer"
      <4> DEFINE e == [t EXCEPT !.k = "answer"]
      <4>1. e \in Waits /\ e.k = "answer"
        BY <1>3, <3>2 DEF Waits, t
      <4> HIDE DEF e
      <4>2. \A h \in DOMAIN Append(rest, e) : Append(rest, e)[h] = e
               \/ \E l \in DOMAIN rest : Append(rest, e)[h] = rest[l]
        BY <1>4, <4>1, OldOrAppended
      <4>3. task'[v] = Append(rest, e)
        BY <3>2 DEF e
      <4>. QED  BY <1>9, <1>11, <4>1, <4>2, <4>3
    <3>. QED  BY <1>3, <1>11, <2>1, <3>1, <3>2 DEF WentOn, t, rest
  <2>5. \A h \in DOMAIN inbox'[i] : inbox'[i][h].t # "offer"
    <3>1. CASE inbox' = inbox
      BY <1>5, <3>1 DEF OneOffers
    <3>2. CASE inbox' = Signalled(inbox, w, Desc("answer", p.conn))
      BY <1>6, <1>8, <3>2
    <3>. QED  BY <1>3, <1>11, <2>1, <3>1, <3>2 DEF WentOn, t, p
  <2>6. OneOffers(u, v, i)'
    BY <1>5, <2>2, <2>4, <2>5 DEF OneOffers
  <2>7. Reached(u, v, j)'
    BY <2>3, LinkNotNone DEF Reached
  <2>. QED  BY <1>5, <2>2, <2>6, <2>7 DEF Agreed, v
<1>. QED  BY <1>1, <1>10, <1>11

LEMMA PairingKept ==
  ASSUME VoiceTypes, Owned, crowd = Members, OneProcess, Attached, Heeded, Traced, Pairing,
         VoiceTypes', Owned', OneProcess', Attached',
         \A u \in Members \ hasty : BarFollows(u), [VoiceNext]_voiceVars
  PROVE  Pairing'
<1>0. \A u \in Members : BarFollows(u)
  BY DEF OneProcess
<1> SUFFICES ASSUME crossed' = {}, Meeting',
                    NEW u \in Members, NEW i \in Pids, NEW j \in Pids,
                    session'[u].pid = i, session'[Other(u)].pid = j, Later(u, Other(u), i, j)'
             PROVE  Agreed(u, Other(u), i, j)'
  BY DEF Pairing
<1>1. \A w \in Members : session'[w] # NoSession /\ session'[w].joined /\ ~LeavePending(w)'
  BY DEF Meeting
<1>2. Other(u) \in Members
  BY OtherMember
\* A step that keeps both sessions, their times, and what is to be heard of leaving.
<1>3. ASSUME crossed \subseteq crossed',
             \A w \in Members : /\ session[w] # NoSession /\ session'[w].pid = session[w].pid
                                /\ session'[w].joined = session[w].joined,
             \A k \in Pids : proc'[k].at = proc[k].at,
             \A w \in Members : LeavePending(w) =>
                \/ \E n \in DOMAIN inbox'[session[w].pid] :
                      n > 0 /\ IsLeave(inbox'[session[w].pid][n], Other(w))
                \/ \E n \in DOMAIN news' : IsLeave(news'[n], Other(w))
      PROVE  /\ Meeting /\ session[u].pid = i /\ session[Other(u)].pid = j
             /\ Later(u, Other(u), i, j) /\ Agreed(u, Other(u), i, j)
  <2>1. Meeting
    BY <1>3, MeetingGoesOn
  <2>2. session[u].pid = i /\ session[Other(u)].pid = j /\ Later(u, Other(u), i, j)
    BY <1>2, <1>3 DEF Later
  <2>3. crossed = {}
    BY <1>3
  <2>. QED  BY <2>1, <2>2, <2>3 DEF Pairing
<1>4. ASSUME UNCHANGED <<session, task, proc, inbox, news, crossed>>
      PROVE  Agreed(u, Other(u), i, j)'
  <2>1. Agreed(u, Other(u), i, j)
    BY <1>1, <1>3, <1>4 DEF LeavePending, LeaveAfter
  <2>. QED  BY <1>4, <2>1 DEF Agreed, OneOffers, Untouched, ToBeHeard, Reached
<1>5. ASSUME NEW w \in Members, ClicksJoin(w) PROVE FALSE
  BY <1>0, <1>1, <1>5, PairJoin
<1>6. ASSUME NEW w \in Members, ClicksLeave(w) PROVE FALSE
  BY <1>0, <1>1, <1>6, PairLeave
<1>7. ASSUME NEW w \in Members, NEW k \in Pids, Starts(w, k) PROVE FALSE
  <2>1. session'[w].joined = FALSE
    BY <1>7 DEF Starts, VoiceTypes
  <2>. QED  BY <1>1, <2>1
<1>8. ASSUME NEW w \in Members, ClicksMute(w) \/ ViewRemounts(w) \/ GetsNoMicrophone(w)
      PROVE  FALSE
  BY <1>8, TwoAreNotAlone DEF ClicksMute, ViewRemounts, GetsNoMicrophone, Incident
<1>9. ASSUME NEW w \in Members, ViewHears(w) PROVE Agreed(u, Other(u), i, j)'
  BY <1>4, <1>9 DEF ViewHears
<1>10. ASSUME NEW k \in Pids, crowd' = crowd, Ends(k) PROVE FALSE
  <2>1. /\ news' = Append(news, Diff("leave", k)) /\ Diff("leave", k) \in Diffs
        /\ IsLeave(Diff("leave", k), k[1])
    BY <1>10, PairEnds
  <2>2. news \in Seq(Diffs)
    BY DEF VoiceTypes
  <2>3. Len(news) + 1 \in DOMAIN news' /\ IsLeave(news'[Len(news) + 1], k[1])
    BY <2>1, <2>2, Appended
  <2>4. Other(k[1]) \in Members /\ Other(Other(k[1])) = k[1]
    BY PidMember, OtherMember
  <2>5. ~LeavePending(Other(k[1]))'
    BY <1>1, <2>4
  <2>. QED  BY <2>3, <2>4, <2>5 DEF LeavePending, LeaveAfter
<1>11. ASSUME NEW k \in Pids, crowd' = crowd, Authorizes(k) PROVE Agreed(u, Other(u), i, j)'
  BY <1>11, PairingBegins
<1>12. ASSUME NEW k \in Pids, crowd' = crowd, Tracks(k) PROVE Agreed(u, Other(u), i, j)'
  <2>1. /\ \A l \in Pids \ {k} : proc'[l] = proc[l] /\ proc'[k].at = proc[k].at
        /\ news' = Append(news, Diff("join", k)) /\ Diff("join", k) \in Diffs
        /\ UNCHANGED <<session, inbox, crossed>>
    BY <1>12, PairTracks
  <2>2. news \in Seq(Diffs)
    BY DEF VoiceTypes
  <2>3. \A n \in DOMAIN news : n \in DOMAIN news' /\ news'[n] = news[n]
    BY <2>1, <2>2, Appended
  <2>4. \A w \in Members : LeavePending(w) =>
                \/ \E n \in DOMAIN inbox'[session[w].pid] :
                      n > 0 /\ IsLeave(inbox'[session[w].pid][n], Other(w))
                \/ \E n \in DOMAIN news' : IsLeave(news'[n], Other(w))
    BY <2>1, <2>3 DEF LeavePending, LeaveAfter
  <2>5. \A l \in Pids : proc'[l].at = proc[l].at
    BY <1>12, <2>1, PairTracks
  <2>6. /\ Meeting /\ session[u].pid = i /\ session[Other(u)].pid = j
        /\ Agreed(u, Other(u), i, j)
    BY <1>1, <1>3, <2>1, <2>4, <2>5
  <2>. QED  BY <1>12, <2>6, PairingTracks
<1>13. ASSUME NEW k \in Pids, crowd' = crowd, Lists(k) PROVE Agreed(u, Other(u), i, j)'
  <2> DEFINE e == [t |-> "state", list |-> Listing]
  <2>1. /\ \A l \in Pids \ {k} : proc'[l] = proc[l] /\ inbox'[l] = inbox[l]
        /\ proc'[k].at = proc[k].at
        /\ inbox'[k] = Append(inbox[k], e) /\ inbox[k] \in Seq(Pushed) /\ e \in Pushed
        /\ UNCHANGED <<session, news, crossed>>
    BY <1>13, PairLists
  <2> HIDE DEF e
  <2>2. \A n \in DOMAIN inbox[k] : n \in DOMAIN inbox'[k] /\ inbox'[k][n] = inbox[k][n]
    BY <2>1, Appended
  <2>3. \A w \in Members : session[w].pid \in Pids
    BY <1>1, <2>1, SessionFacts
  <2>4. \A l \in Pids : /\ \A n \in DOMAIN inbox[l] : n \in DOMAIN inbox'[l] /\ inbox'[l][n] = inbox[l][n]
                        /\ proc'[l].at = proc[l].at
    BY <2>1, <2>2
  <2>5. \A w \in Members : LeavePending(w) =>
                \/ \E n \in DOMAIN inbox'[session[w].pid] :
                      n > 0 /\ IsLeave(inbox'[session[w].pid][n], Other(w))
                \/ \E n \in DOMAIN news' : IsLeave(news'[n], Other(w))
    BY <2>1, <2>3, <2>4 DEF LeavePending, LeaveAfter
  <2>6. /\ Meeting /\ session[u].pid = i /\ session[Other(u)].pid = j
        /\ Agreed(u, Other(u), i, j)
    BY <1>1, <1>3, <2>1, <2>4, <2>5
  <2>. QED  BY <1>13, <2>6, PairingLists
<1>14. ASSUME crowd' = crowd, NewsSpreads PROVE Agreed(u, Other(u), i, j)'
  <2>1. /\ news # <<>> /\ news[1] \in Diffs /\ news' = Tail(news) /\ news \in Seq(Diffs)
        /\ \A k \in Pids : inbox'[k] = IF Listens(k) THEN Append(inbox[k], news[1]) ELSE inbox[k]
        /\ UNCHANGED <<session, proc, crossed>>
    BY <1>14, TypesOfNews DEF NewsSpreads, VoiceTypes
  <2>2. \A n \in DOMAIN news : n \in Nat /\ n >= 1
                               /\ (n > 1 => n - 1 \in DOMAIN news' /\ news'[n - 1] = news[n])
    BY <2>1, Shortened
  <2>3. ASSUME NEW w \in Members, LeavePending(w)
        PROVE  \/ \E n \in DOMAIN inbox'[session[w].pid] :
                      n > 0 /\ IsLeave(inbox'[session[w].pid][n], Other(w))
               \/ \E n \in DOMAIN news' : IsLeave(news'[n], Other(w))
    <3> DEFINE k == session[w].pid
    <3>1. k \in Pids /\ Listens(k)
      BY <1>1, <2>1, OneOfMember
    <3> HIDE DEF k
    <3>2. /\ Len(inbox[k]) + 1 \in DOMAIN inbox'[k] /\ inbox'[k][Len(inbox[k]) + 1] = news[1]
          /\ \A n \in DOMAIN inbox[k] : n \in DOMAIN inbox'[k] /\ inbox'[k][n] = inbox[k][n]
          /\ Len(inbox[k]) + 1 > 0
      <4>1. inbox[k] \in Seq(Pushed) /\ news[1] \in Pushed /\ inbox'[k] = Append(inbox[k], news[1])
        BY <2>1, <3>1 DEF VoiceTypes, Pushed
      <4>2. Len(inbox[k]) \in Nat
        BY <4>1, LenProperties
      <4>. QED  BY <4>1, <4>2, Appended
    <3>3. LeaveAfter(k, 0, Other(w))
      BY <2>3 DEF LeavePending, k
    <3>4. CASE \E n \in DOMAIN inbox[k] : n > 0 /\ IsLeave(inbox[k][n], Other(w))
      BY <3>2, <3>4 DEF k
    <3>5. CASE \E n \in DOMAIN news : IsLeave(news[n], Other(w))
      <4>1. PICK n \in DOMAIN news : IsLeave(news[n], Other(w))
        BY <3>5
      <4>2. CASE n = 1
        BY <3>2, <4>1, <4>2 DEF k
      <4>3. CASE n # 1
        <5>1. n > 1
          BY <2>2, <4>3
        <5>. QED  BY <2>2, <4>1, <5>1
      <4>. QED  BY <4>2, <4>3
    <3>. QED  BY <3>3, <3>4, <3>5 DEF LeaveAfter
  <2>4. /\ Meeting /\ session[u].pid = i /\ session[Other(u)].pid = j
        /\ Agreed(u, Other(u), i, j)
    BY <1>1, <1>3, <2>1, <2>3
  <2>. QED  BY <1>14, <2>4, PairingSpread
<1>15. ASSUME NEW k \in Pids, crowd' = crowd, Receives(k) PROVE Agreed(u, Other(u), i, j)'
  <2> DEFINE x == k[1]
             m == inbox[k][1]
  <2>1. /\ Listens(k) /\ x \in Members /\ session[x] # NoSession /\ session[x].pid = k
        /\ session[x].joined /\ SessionGoesOn(x)
        /\ inbox[k] # <<>> /\ inbox[k] \in Seq(Pushed)
        /\ inbox'[k] = Tail(inbox[k]) /\ \A l \in Pids \ {k} : inbox'[l] = inbox[l]
        /\ crossed' = IF OutOfTurn(x, m) THEN crossed \cup {x} ELSE crossed
        /\ UNCHANGED <<proc, news>>
    BY <1>15, PairReceives
  <2>2. /\ crossed \subseteq crossed' /\ ~OutOfTurn(x, m)
    BY <2>1
  <2>3. \A w \in Members : /\ session[w] # NoSession /\ session'[w].pid = session[w].pid
                           /\ session'[w].joined = session[w].joined
    BY <1>1, <2>1 DEF SessionGoesOn
  <2>4. \A n \in DOMAIN inbox[k] : n \in Nat /\ n >= 1 /\
              (n > 1 => n - 1 \in DOMAIN inbox'[k] /\ inbox'[k][n - 1] = inbox[k][n])
    BY <2>1, Shortened
  <2>5. ~IsLeave(m, Other(x))
    <3> DEFINE y == Other(x)
    <3>1. y \in Members /\ y # x
      BY <2>1, OtherMember
    <3>2. session[y] # NoSession /\ session[y].joined
      BY <1>1, <2>3, <3>1
    <3>3. session[y].pid \in Pids /\ proc[session[y].pid].user = y /\ Listens(session[y].pid)
      BY <3>1, <3>2, OneOfMember
    <3>. QED  BY <2>1, <2>2, <3>1, <3>3 DEF OutOfTurn, IsLeave
  <2>6. ASSUME NEW w \in Members, LeavePending(w)
        PROVE  \/ \E n \in DOMAIN inbox'[session[w].pid] :
                      n > 0 /\ IsLeave(inbox'[session[w].pid][n], Other(w))
               \/ \E n \in DOMAIN news' : IsLeave(news'[n], Other(w))
    <3>1. session[w].pid \in Pids /\ session[w].pid[1] = w
      BY <2>3, SessionFacts
    <3>2. CASE session[w].pid # k
      BY <2>1, <2>6, <3>1, <3>2 DEF LeavePending, LeaveAfter
    <3>3. CASE session[w].pid = k
      <4>1. w = x
        BY <3>1, <3>3
      <4>2. CASE \E n \in DOMAIN inbox[k] : n > 0 /\ IsLeave(inbox[k][n], Other(w))
        <5>1. PICK n \in DOMAIN inbox[k] : IsLeave(inbox[k][n], Other(w))
          BY <4>2
        <5>2. n # 1
          BY <2>5, <4>1, <5>1
        <5>3. n > 1 /\ n - 1 > 0
          BY <2>4, <5>2
        <5>. QED  BY <2>4, <3>3, <5>1, <5>3
      <4>3. CASE \E n \in DOMAIN news : IsLeave(news[n], Other(w))
        BY <2>1, <4>3
      <4>. QED  BY <2>6, <3>3, <4>2, <4>3 DEF LeavePending, LeaveAfter
    <3>. QED  BY <3>2, <3>3
  <2>7. \A l \in Pids : proc'[l].at = proc[l].at
    BY <2>1
  <2> HIDE DEF x, m
  <2>8. /\ Meeting /\ session[u].pid = i /\ session[Other(u)].pid = j
        /\ Later(u, Other(u), i, j) /\ Agreed(u, Other(u), i, j)
    BY <1>3, <2>2, <2>3, <2>6, <2>7
  <2>9. k = i \/ k = j
    <3>1. x = u \/ x = Other(u)
      BY <2>1 DEF Members, Other
    <3>. QED  BY <2>1, <2>8, <3>1
  <2>. QED  BY <1>15, <2>8, <2>9, PairingHeardByFirst, PairingHeardByLater
<1>16. ASSUME NEW w \in Members, NEW n \in DOMAIN task[w], session[w] # NoSession, crowd' = crowd,
              Negotiates(w, n)
       PROVE  Agreed(u, Other(u), i, j)'
  <2>1. SessionGoesOn(w) /\ WentOn(w, n) /\ session[w].peer \in Links /\ UNCHANGED <<proc, news, crossed>>
    BY <1>16, GoingOn
  <2>2. \A x \in Members : /\ session[x] # NoSession /\ session'[x].pid = session[x].pid
                           /\ session'[x].joined = session[x].joined /\ session[x].pid \in Pids
    BY <1>1, <1>16, <2>1, SessionFacts DEF SessionGoesOn
  <2>3. /\ Desc("offer", session[w].peer.conn) \in Descriptions
        /\ Desc("answer", session[w].peer.conn) \in Descriptions
    BY <2>1, LinkNotNone DEF Desc, Descriptions
  <2>4. ASSUME NEW l \in Pids
        PROVE  \A h \in DOMAIN inbox[l] : h \in DOMAIN inbox'[l] /\ inbox'[l][h] = inbox[l][h]
    <3>1. CASE inbox' = inbox
      BY <3>1
    <3>2. ASSUME NEW m \in Descriptions, inbox' = Signalled(inbox, w, m) PROVE \A h \in DOMAIN inbox[l] : h \in DOMAIN inbox'[l] /\ inbox'[l][h] = inbox[l][h]
      BY <3>2, SignalAdds
    <3>. QED  BY <2>1, <2>3, <3>1, <3>2 DEF WentOn
  <2>5. \A x \in Members : LeavePending(x) =>
                \/ \E h \in DOMAIN inbox'[session[x].pid] :
                      h > 0 /\ IsLeave(inbox'[session[x].pid][h], Other(x))
                \/ \E h \in DOMAIN news' : IsLeave(news'[h], Other(x))
    BY <2>1, <2>2, <2>4 DEF LeavePending, LeaveAfter
  <2>6. /\ Meeting /\ session[u].pid = i /\ session[Other(u)].pid = j
        /\ Agreed(u, Other(u), i, j)
    BY <1>3, <2>1, <2>2, <2>5
  <2>. QED  BY <1>16, <2>6, PairingNegotiates
<1>17. CASE UNCHANGED voiceVars
  BY <1>4, <1>17 DEF voiceVars
<1>18. CASE VoiceNext
  <2>1. ASSUME NEW w \in Members, GetsMicrophone(w) PROVE FALSE
    BY <1>7, <1>18, <2>1, TypesOfStart DEF VoiceNext
  <2>. QED  BY <1>5, <1>6, <1>8, <1>9, <1>10, <1>11, <1>12, <1>13, <1>14, <1>15, <1>16, <1>18, <2>1
            DEF VoiceNext
<1>. QED  BY <1>17, <1>18

-----------------------------------------------------------------------------
(* VoiceMesh: the theorems *)

LEMMA AbsentKept ==
  ASSUME VoiceTypes, Owned, Absent, [VoiceNext]_voiceVars
  PROVE  Absent'
<1>1. crowd' = crowd
  BY DEF VoiceNext, voiceVars
<1> SUFFICES ASSUME NEW w \in Members \ crowd
             PROVE  session'[w] = NoSession /\ awaiting'[w] = 0
  BY <1>1 DEF Absent
<1>2. session[w] = NoSession /\ awaiting[w] = 0
  BY DEF Absent
<1>3. session \in [Members -> {NoSession} \cup Sessions] /\ awaiting \in [Members -> Nat]
  BY DEF VoiceTypes
<1>4. ASSUME NEW u \in Members, ClicksJoin(u) \/ ClicksLeave(u) PROVE session'[w] = NoSession /\ awaiting'[w] = 0
  <2>1. session' = [session EXCEPT ![u] = NoSession]
    BY <1>4 DEF ClicksJoin, ClicksLeave, Teardown
  <2>2. awaiting'[w] = 0
    BY <1>2, <1>3, <1>4 DEF ClicksJoin, ClicksLeave
  <2>. QED  BY <1>2, <1>3, <2>1, <2>2
<1>5. ASSUME NEW u \in Members, ClicksMute(u) PROVE session'[w] = NoSession /\ awaiting'[w] = 0
  BY <1>2, <1>3, <1>5 DEF ClicksMute
<1>6. ASSUME NEW u \in Members, ViewRemounts(u) \/ ViewHears(u)
      PROVE  session'[w] = NoSession /\ awaiting'[w] = 0
  BY <1>2, <1>6 DEF ViewRemounts, ViewHears
<1>7. ASSUME NEW u \in Members, GetsMicrophone(u) PROVE session'[w] = NoSession /\ awaiting'[w] = 0
  <2>1. PICK i \in Pids : Starts(u, i)
    BY <1>1, <1>7, TypesOfStart
  <2>2. u # w
    BY <1>2, <2>1 DEF Starts
  <2>. QED  BY <1>2, <1>3, <2>1, <2>2 DEF Starts
<1>8. ASSUME NEW u \in Members, GetsNoMicrophone(u) PROVE session'[w] = NoSession /\ awaiting'[w] = 0
  BY <1>2, <1>3, <1>8 DEF GetsNoMicrophone
<1>9. ASSUME NEW i \in Pids, Authorizes(i) PROVE session'[w] = NoSession /\ awaiting'[w] = 0
  <2>1. session'[w] = session[w]
    <3>1. session' = session \/ (session[i[1]].pid = i /\ \A x \in Members \ {i[1]} : session'[x] = session[x])
      BY <1>1, <1>9, TypesOfAnswer
    <3>2. session[w].pid # i
      BY <1>2, RealSession
    <3>. QED  BY <3>1, <3>2
  <2>. QED  BY <1>2, <1>9, <2>1 DEF Authorizes
<1>10. ASSUME NEW i \in Pids, Tracks(i) \/ Lists(i) \/ Ends(i)
       PROVE  session'[w] = NoSession /\ awaiting'[w] = 0
  BY <1>2, <1>10 DEF Tracks, Lists, Ends
<1>11. ASSUME NEW i \in Pids, Receives(i) PROVE session'[w] = NoSession /\ awaiting'[w] = 0
  <2>1. /\ proc[i].user \in Members
        /\ IF inbox[i][1].t = "refused" THEN Refused(proc[i].user, i)
           ELSE HandledBy(proc[i].user, i, inbox[i][1])
        /\ awaiting' = awaiting
    <3>1. proc[i].open
      BY <1>11 DEF Receives
    <3>2. proc[i].user = i[1] /\ proc[i].user \in Members
      BY <3>1, StartedProcess
    <3>. QED  BY <1>1, <1>11, <3>2, Receiving
  <2>2. session'[w] = NoSession
    <3>1. CASE Refused(proc[i].user, i)
      BY <1>2, <1>3, <2>1, <3>1 DEF Refused
    <3>2. CASE HandledBy(proc[i].user, i, inbox[i][1])
      BY <1>2, <1>3, <2>1, <3>2 DEF HandledBy, SessionGoesOn
    <3>. QED  BY <2>1, <3>1, <3>2
  <2>. QED  BY <1>2, <2>1, <2>2
<1>12. ASSUME NewsSpreads PROVE session'[w] = NoSession /\ awaiting'[w] = 0
  BY <1>2, <1>12 DEF NewsSpreads
<1>13. ASSUME NEW u \in Members, NEW n \in DOMAIN task[u], session[u] # NoSession, Negotiates(u, n)
       PROVE  session'[w] = NoSession /\ awaiting'[w] = 0
  BY <1>2, <1>13, GoingOn DEF SessionGoesOn
<1>14. CASE UNCHANGED voiceVars
  BY <1>2, <1>14 DEF voiceVars
<1>15. CASE VoiceNext
  BY <1>4, <1>5, <1>6, <1>7, <1>8, <1>9, <1>10, <1>11, <1>12, <1>13, <1>15 DEF VoiceNext
<1>. QED  BY <1>14, <1>15

LEMMA VoiceBegins == VoiceInit => VoiceIInv
<1> SUFFICES ASSUME VoiceInit PROVE VoiceIInv
  OBVIOUS
<1>1. /\ \A u \in Members : /\ toView[u] = <<>> /\ awaiting[u] = 0 /\ session[u] = NoSession
                            /\ task[u] = <<>> /\ ~bar[u].joined
      /\ \A i \in Pids : proc[i] = Unstarted /\ proc[i].st = "gone" /\ ~proc[i].open /\ inbox[i] = <<>>
      /\ news = <<>> /\ hasty = {} /\ crossed = {}
  BY DEF VoiceInit, Unstarted
<1>2. \A n \in DOMAIN <<>> : FALSE
  OBVIOUS
<1>3. VoiceTypes
  <2>1. Unstarted \in Processes
    BY DEF Unstarted, Processes
  <2>2. {} \subseteq Members /\ \A S : <<>> \in Seq(S)
    OBVIOUS
  <2>. QED  BY <2>1, <2>2 DEF VoiceInit, VoiceTypes
<1>4. Owned /\ Absent
  BY <1>1 DEF Owned, Absent
<1>5. ASSUME NEW u \in Members PROVE BarFollows(u)
  <2>1. ~(awaiting[u] > 0) /\ session[u] = NoSession /\ toView[u] = <<>> /\ ~bar[u].joined
    BY <1>1
  <2>. QED  BY <2>1 DEF BarFollows
<1>6. OneProcess
  BY <1>1 DEF OneProcess
<1>7. Attached
  BY <1>1 DEF Attached
<1>8. Heeded
  BY <1>1, <1>2 DEF Heeded
<1>9. Traced
  BY <1>1, <1>2 DEF Traced, TracedPeer
<1>10. Pairing
  <2>1. 1 \in Members
    BY DEF Members
  <2>2. ~Meeting
    BY <1>1, <2>1 DEF Meeting
  <2>. QED  BY <2>2 DEF Pairing
<1>. QED  BY <1>3, <1>4, <1>5, <1>6, <1>7, <1>8, <1>9, <1>10 DEF VoiceIInv

LEMMA VoiceGoesOn == VoiceIInv /\ [VoiceNext]_voiceVars => VoiceIInv'
<1> SUFFICES ASSUME VoiceIInv, [VoiceNext]_voiceVars PROVE VoiceIInv'
  OBVIOUS
<1>1. VoiceTypes /\ Owned /\ Absent /\ \A u \in Members \ hasty : BarFollows(u)
  BY DEF VoiceIInv
<1>2. VoiceTypes' /\ Owned' /\ Absent' /\ \A u \in Members \ hasty' : BarFollows(u)'
  BY <1>1, TypesKept, AbsentKept, BarKept
<1>3. crowd' = crowd
  BY DEF VoiceNext, voiceVars
<1>4. ASSUME crowd = Members PROVE OneProcess' /\ Attached' /\ Heeded' /\ Traced' /\ Pairing'
  <2>1. OneProcess /\ Attached /\ Heeded /\ Traced /\ Pairing
    BY <1>4 DEF VoiceIInv
  <2>2. OneProcess' /\ Attached' /\ Heeded' /\ Traced'
    BY <1>1, <1>4, <2>1, OneKept, AttachedKept, HeededKept, TracedKept
  <2>3. Pairing'
    BY <1>1, <1>2, <1>4, <2>1, <2>2, PairingKept
  <2>. QED  BY <2>2, <2>3
<1>. QED  BY <1>2, <1>3, <1>4 DEF VoiceIInv

\* When all is quiet, the offer of the later member has reached the other.
LEMMA VoiceMeets == VoiceIInv => EveryPairOffered
<1> SUFFICES ASSUME VoiceIInv, Quiet, In(1), In(2), crossed = {}
             PROVE  \A u \in Members : session[u].peer # Unpeered
  BY DEF EveryPairOffered
<1>1. VoiceTypes /\ Owned /\ Absent
  BY DEF VoiceIInv
<1>2. \A u \in Members : session[u] # NoSession /\ session[u].joined
  BY DEF In, Members
<1>3. crowd = Members
  BY <1>1, <1>2 DEF Absent, VoiceTypes, Members
<1>4. Pairing
  BY <1>3 DEF VoiceIInv
<1>5. \A u \in Members : session[u].pid \in Pids
  BY <1>1, <1>2, SessionFacts
<1>6. \A n \in DOMAIN <<>> : FALSE
  OBVIOUS
<1>7. Meeting
  BY <1>2, <1>5, <1>6 DEF Meeting, LeavePending, LeaveAfter, Quiet
<1>8. ASSUME NEW u \in Members, NEW i \in Pids, NEW j \in Pids,
             session[u].pid = i, session[Other(u)].pid = j, Later(u, Other(u), i, j)
      PROVE  session[u].peer # Unpeered /\ session[Other(u)].peer # Unpeered
  <2>1. Agreed(u, Other(u), i, j)
    BY <1>4, <1>7, <1>8 DEF Pairing
  <2>2. ~ToBeHeard(i, j)
    BY <1>6 DEF ToBeHeard, Quiet
  <2>3. Reached(u, Other(u), j) => session[Other(u)].peer # Unpeered
    BY <1>6 DEF Reached, Quiet
  <2>. QED  BY <2>1, <2>2, <2>3 DEF Agreed
<1>9. ASSUME NEW u \in Members PROVE session[u].peer # Unpeered
  <2>1. Other(u) \in Members /\ Other(Other(u)) = u
    BY OtherMember
  <2>2. session[u].pid \in Pids /\ session[Other(u)].pid \in Pids
    BY <1>5, <2>1
  <2>3. \/ Later(u, Other(u), session[u].pid, session[Other(u)].pid)
        \/ Later(Other(u), u, session[Other(u)].pid, session[u].pid)
    BY <1>1, <2>2, OneIsLater
  <2>. QED  BY <1>8, <2>1, <2>2, <2>3
<1>. QED  BY <1>9

LEMMA VoiceShows == VoiceIInv => CandidatesReach /\ BarIsTrue
<1> SUFFICES ASSUME VoiceIInv PROVE CandidatesReach /\ BarIsTrue
  OBVIOUS
<1>1. VoiceTypes /\ Owned /\ \A u \in Members \ hasty : BarFollows(u)
  BY DEF VoiceIInv
<1>2. ASSUME NEW u \in Members, session[u] # NoSession, session[u].peer # Unpeered
      PROVE  LET p == session[u].peer
             IN  IF p.rem = NoDesc THEN p.got = p.pending ELSE p.got = p.added
  <2>1. session[u].peer \in Links
    BY <1>1, <1>2, SessionFacts DEF Sessions
  <2>. QED  BY <2>1 DEF Links
<1>3. ASSUME Quiet, NEW u \in Members \ hasty
      PROVE  /\ bar[u].joined <=> session[u] # NoSession
             /\ session[u] # NoSession => bar[u].muted = session[u].muted
  <2>1. toView[u] = <<>> /\ awaiting[u] = 0 /\ BarFollows(u)
    BY <1>1, <1>3 DEF Quiet
  <2>2. \A n \in DOMAIN <<>> : FALSE
    OBVIOUS
  <2>. QED  BY <2>1, <2>2 DEF BarFollows
<1>. QED  BY <1>2, <1>3 DEF CandidatesReach, BarIsTrue

\* For any numbers of sessions, clicks and moves: what is on its way between the
\* members, the tracker and the bar is what the sessions still have to do
\* (handlePresenceDiff, shouldInitiateTo, handleSignal).
THEOREM VoiceInvariance == VoiceSpec => []VoiceIInv
<1>. QED  BY VoiceBegins, VoiceGoesOn, PTL DEF VoiceSpec

\* Members who are in the channel and at rest have a connection between them, no
\* candidate is lost, and the bar tells what the page does (shouldInitiateTo,
\* handleRemoteCandidate, reconnected, voice_left).
THEOREM MembersMeet == VoiceSpec => []VoiceHolds
<1>1. VoiceIInv => VoiceHolds
  BY VoiceMeets, VoiceShows DEF VoiceHolds
<1>. QED  BY <1>1, VoiceInvariance, PTL
=============================================================================
