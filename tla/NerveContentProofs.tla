------------------------- MODULE NerveContentProofs -------------------------
(***************************************************************************)
(* What the extension's calls carry across their awaits, for any tabs,     *)
(* sites, calls in flight and inputs: a password is filled into a page of  *)
(* the site where the user chose it, from a session that had not expired,  *)
(* and a login is stored under the site it was submitted on.               *)
(***************************************************************************)
EXTENDS NerveContent, SequenceTheorems, TLAPS

CallFields == {"op", "tab", "live", "pc", "status", "pwd", "wrapped", "hydrated", "entry",
               "page", "from", "rec", "map", "ack", "late"}
UiFields == {"ctx", "pop", "banner", "shown", "filled", "stagedTimer", "checks", "hideTimer"}
LoginFields == {"tab", "host", "step", "acct", "secret", "old"}
Message == [tab : Tabs, status : {"locked", "unlocked"}, ack : SUBSET Slots]

\* No login of another site is pending in tab t.
Here(t, pg, pn) == pn[t] # NoRec => pn[t].host = pg[t].host

\* A map of staged fills, of n entries.
StagedGood(f, n) ==
    /\ DOMAIN f = Tabs
    /\ \A t \in Tabs : f[t] # NoRec => /\ DOMAIN f[t] = {"entry", "host", "old"}
                                       /\ f[t].entry \in 0 .. n

\* What an operation is at in its part of the background.
RightPlace(k) ==
    /\ k.op = "suggest" => k.pc \in {"list", "unwrap", "reply"}
    /\ k.op = "suggest" /\ k.pc = "reply" => k.status \in Popovers \cup {"closed", "ready"}
    /\ k.pc = "write" => k.op = "save"
    /\ k.pc = "entry" => k.op \in {"fill", "staged"}
    /\ k.pc \in {"get", "set"} => k.op \in {"stage", "unstage", "unstageDirect", "staged"}

\* A call in flight: it began in a page of the site that its tab still shows; a
\* prompt's login is of that site, and so is what is pending there; a save's login
\* is one of its tab and of the site in the prompt.
CallGood(k, pg, pn, n) ==
    /\ DOMAIN k = CallFields
    /\ k.tab \in Tabs /\ k.entry \in 0 .. n /\ k.pwd \in Passwords \cup {NoPass}
    /\ k.live \in BOOLEAN /\ k.late = FALSE
    /\ RightPlace(k)
    /\ k.live => k.from = pg[k.tab].host
    /\ k.op = "prompt" => k.rec.host = k.from
    /\ k.op = "prompt" /\ k.live => Here(k.tab, pg, pn)
    /\ k.op = "save" /\ k.pc \in {"list", "unwrap", "write"} =>
          k.rec.host = k.map.host /\ k.map.tab = k.tab
    /\ k.pc = "set" => StagedGood(k.map, n)

CallsGood ==
    /\ DOMAIN call = Slots
    /\ \A c \in Slots : ~Free(c) => CallGood(call[c], page, pending, Len(entries))

UiGood(u, t, pg, pn) ==
    /\ DOMAIN u = UiFields /\ u.pop \in Popovers /\ u.banner \in Banners
    /\ u.shown # NoRec => u.shown.host = pg[t].host /\ Here(t, pg, pn)

PagesGood ==
    /\ DOMAIN ui = Tabs
    /\ \A t \in Tabs : UiGood(ui[t], t, page, pending)

PendingGood ==
    /\ DOMAIN pending = Tabs
    /\ \A t \in Tabs : pending[t] # NoRec =>
          DOMAIN pending[t] = LoginFields /\ pending[t].tab = t

Types ==
    /\ SessionTypeOK /\ token \in BOOLEAN
    /\ page \in [Tabs -> [host : Hosts, step : {"login", "home", "closed"}, pw : BOOLEAN]]
    /\ inbox \in SUBSET Message
    /\ entries \in Seq(Range(entries))
    /\ StagedGood(staged, Len(entries))

Carried ==
    /\ Types /\ CallsGood /\ PagesGood /\ PendingGood
    /\ FillsWhereChosen /\ NoFillFromExpiredSession /\ SaveKeepsSite

IInv == Carried /\ events \in 0 .. MaxEvents

-----------------------------------------------------------------------------
(* Records, calls and sequences *)

\* A record changed in some of its fields keeps the others.
LEMMA Changed ==
    ASSUME NEW r, NEW k, DOMAIN r \subseteq DOMAIN k
    PROVE  /\ DOMAIN Over(r, k) = DOMAIN k
           /\ \A x \in DOMAIN k : Over(r, k)[x] = IF x \in DOMAIN r THEN r[x] ELSE k[x]
BY DEF Over

\* The list of saved logins only grows.
LEMMA OwnRange ==
    ASSUME NEW s, NEW n \in Nat, NEW S, s \in [1 .. n -> S]
    PROVE  s \in Seq(Range(s)) /\ Len(s) = n
<1>1. s \in [1 .. n -> Range(s)]
  BY DEF Range
<1>2. \A T : [1 .. n -> T] \subseteq Seq(T)
  BY SeqDef
<1>3. s \in Seq(Range(s))
  BY <1>1, <1>2
<1>4. Len(s) = n
  BY <1>3, LenProperties
<1>. QED  BY <1>3, <1>4

LEMMA Appended ==
    ASSUME NEW s, s \in Seq(Range(s)), NEW e
    PROVE  /\ Append(s, e) \in Seq(Range(Append(s, e)))
           /\ Len(Append(s, e)) = Len(s) + 1
<1> DEFINE S == Range(s) \cup {e}
           a == Append(s, e)
<1>1. s \in Seq(S)
  BY SeqMonotonic
<1>2. a \in Seq(S) /\ Len(a) = Len(s) + 1
  BY <1>1
<1>3. a \in [1 .. Len(s) + 1 -> S] /\ Len(s) + 1 \in Nat
  BY <1>1, <1>2, LenProperties
<1>. QED  BY <1>3, OwnRange

LEMMA Replaced ==
    ASSUME NEW s, s \in Seq(Range(s)), NEW i, NEW e
    PROVE  /\ [s EXCEPT ![i] = e] \in Seq(Range([s EXCEPT ![i] = e]))
           /\ Len([s EXCEPT ![i] = e]) = Len(s)
<1> DEFINE S == Range(s) \cup {e}
           a == [s EXCEPT ![i] = e]
<1>1. Len(s) \in Nat /\ s \in [1 .. Len(s) -> Range(s)]
  BY LenProperties
<1>2. a \in [1 .. Len(s) -> S]
  BY <1>1
<1>. QED  BY <1>1, <1>2, OwnRange

-----------------------------------------------------------------------------
(* What a step leaves alone stays good *)

LEMMA CallKept ==
    ASSUME NEW k, NEW j, NEW pg, NEW pn, NEW n \in Nat, NEW pg2, NEW pn2, NEW n2 \in Nat,
           CallGood(k, pg, pn, n), n <= n2,
           DOMAIN j = DOMAIN k, \A x \in CallFields \ {"live", "ack"} : j[x] = k[x],
           j.live \in BOOLEAN,
           j.live => /\ k.live /\ pg2[k.tab].host = pg[k.tab].host
                     /\ Here(k.tab, pg, pn) => Here(k.tab, pg2, pn2)
    PROVE  CallGood(j, pg2, pn2, n2)
<1>1. \A f : StagedGood(f, n) => StagedGood(f, n2)
  BY DEF StagedGood
<1>2. \A x \in CallFields \ {"live", "ack"} : j[x] = k[x]
  OBVIOUS
<1>3. /\ j.op = k.op /\ j.tab = k.tab /\ j.pc = k.pc /\ j.status = k.status
      /\ j.pwd = k.pwd /\ j.entry = k.entry /\ j.from = k.from /\ j.rec = k.rec
      /\ j.map = k.map /\ j.late = k.late
  BY <1>2 DEF CallFields
<1>. QED  BY <1>1, <1>3 DEF CallGood, RightPlace

\* The sites of the pages and what may be pending there.
Steady ==
    /\ \A t \in Tabs : /\ page'[t].host = page[t].host
                       /\ Here(t, page, pending) => Here(t, page', pending')
    /\ Len(entries) \in Nat /\ Len(entries') \in Nat /\ Len(entries) <= Len(entries')

LEMMA CallsKept ==
    ASSUME CallsGood, Steady, DOMAIN call' = Slots,
           \A c \in Slots : \/ call'[c] = call[c]
                            \/ call'[c] = NoCall
                            \/ call'[c] = [call[c] EXCEPT !.ack = call'[c].ack]
                            \/ CallGood(call'[c], page', pending', Len(entries'))
    PROVE  CallsGood'
<1> SUFFICES ASSUME NEW c \in Slots, call'[c] # NoCall
             PROVE  CallGood(call'[c], page', pending', Len(entries'))
  BY DEF CallsGood, Free
<1>1. CASE CallGood(call'[c], page', pending', Len(entries'))
  BY <1>1
<1>2. CASE call'[c] = call[c]
  <2>1. CallGood(call[c], page, pending, Len(entries))
    BY <1>2 DEF CallsGood, Free
  <2>2. call[c].live \in BOOLEAN /\ call[c].tab \in Tabs
    BY <2>1 DEF CallGood
  <2>. QED  BY <1>2, <2>1, <2>2, CallKept DEF Steady
<1>3. CASE call'[c] = [call[c] EXCEPT !.ack = call'[c].ack]
  <2>1. CASE Free(c)
    <3>1. call[c] = [op |-> "none", pc |-> "none"]
      BY <2>1 DEF Free, NoCall
    <3>2. [call[c] EXCEPT !.ack = call'[c].ack] = call[c]
      BY <3>1
    <3>. QED  BY <1>3, <2>1, <3>2 DEF Free
  <2>2. CASE ~Free(c)
    <3>1. CallGood(call[c], page, pending, Len(entries))
      BY <2>2 DEF CallsGood
    <3>2. DOMAIN call[c] = CallFields /\ call[c].live \in BOOLEAN /\ call[c].tab \in Tabs
      BY <3>1 DEF CallGood
    <3>3. DOMAIN call'[c] = CallFields /\ \A x \in CallFields \ {"ack"} : call'[c][x] = call[c][x]
      BY <1>3, <3>2
    <3>4. call'[c].live = call[c].live
      BY <3>3 DEF CallFields
    <3>. QED  BY <3>1, <3>2, <3>3, <3>4, CallKept DEF Steady
  <2>. QED  BY <2>1, <2>2
<1>. QED  BY <1>1, <1>2, <1>3

\* What may be written to a page's own state.
UiOk(r, t) ==
    /\ DOMAIN r \subseteq UiFields
    /\ "pop" \in DOMAIN r => r.pop \in Popovers
    /\ "banner" \in DOMAIN r => r.banner \in Banners
    /\ "shown" \in DOMAIN r /\ r.shown # NoRec =>
          r.shown.host = page[t].host /\ Here(t, page, pending)

LEMMA UiUpdated ==
    ASSUME NEW t \in Tabs, NEW u, UiGood(u, t, page, pending), NEW r, UiOk(r, t)
    PROVE  UiGood(Over(r, u), t, page, pending)
<1> DEFINE v == Over(r, u)
<1>1. DOMAIN v = UiFields /\ \A x \in UiFields : v[x] = IF x \in DOMAIN r THEN r[x] ELSE u[x]
  BY Changed DEF UiGood, UiOk
<1>2. {"pop", "banner", "shown"} \subseteq UiFields
  BY DEF UiFields
<1>3. /\ v.pop = (IF "pop" \in DOMAIN r THEN r.pop ELSE u.pop)
      /\ v.banner = (IF "banner" \in DOMAIN r THEN r.banner ELSE u.banner)
      /\ v.shown = (IF "shown" \in DOMAIN r THEN r.shown ELSE u.shown)
  BY <1>1, <1>2
<1>. QED  BY <1>1, <1>3 DEF UiGood, UiOk

LEMMA PagesKept ==
    ASSUME PagesGood, Steady, DOMAIN ui' = Tabs,
           \A t \in Tabs : ui'[t] = ui[t] \/ UiGood(ui'[t], t, page, pending)
                                          \/ UiGood(ui'[t], t, page', pending')
    PROVE  PagesGood'
BY DEF PagesGood, UiGood, Steady

\* A step of the background: what the pages and the server hold does not change.
LEMMA Behind ==
    ASSUME Carried, UNCHANGED <<token, page, ui, pending, entries, fills, saves>>,
           SessionTypeOK', inbox' \in SUBSET Message, StagedGood(staged', Len(entries)),
           CallsGood'
    PROVE  Carried'
BY DEF Carried, Types, PagesGood, PendingGood, FillsWhereChosen, NoFillFromExpiredSession,
       SaveKeepsSite, Here, UiGood

\* A step of a page.
LEMMA PageKept ==
    ASSUME Carried, NEW t \in Tabs, NEW r, UiOk(r, t), PageSending(t, r), CallsGood'
    PROVE  Carried'
<1>1. UNCHANGED <<sessionVars, page, pending, staged, entries, inbox, fills, saves>>
  BY DEF PageSending
<1>2. DOMAIN ui' = Tabs /\ \A u \in Tabs : u # t => ui'[u] = ui[u]
  BY DEF PageSending, SetUi, Carried, PagesGood
<1>3. ui'[t] = Over(r, ui[t])
  BY DEF PageSending, SetUi, Carried, PagesGood
<1>4. UiGood(ui[t], t, page, pending)
  BY DEF Carried, PagesGood
<1>5. UiGood(ui'[t], t, page, pending)
  BY <1>3, <1>4, UiUpdated
<1>6. PagesGood'
  BY <1>1, <1>2, <1>5 DEF Carried, PagesGood
<1>. QED  BY <1>1, <1>6 DEF Carried, Types, SessionTypeOK, sessionVars, PendingGood,
            FillsWhereChosen, NoFillFromExpiredSession, SaveKeepsSite

LEMMA EntriesCount ==
    ASSUME Carried
    PROVE  Len(entries) \in Nat /\ DOMAIN entries = 1 .. Len(entries)
<1>1. entries \in Seq(Range(entries))
  BY DEF Carried, Types
<1>. QED  BY <1>1, LenProperties

LEMMA SameSites ==
    ASSUME Carried, UNCHANGED <<page, pending, entries>>
    PROVE  Steady
BY EntriesCount DEF Steady, Here

\* Steps of a page that send nothing.
LEMMA PageOnlyKeeps ==
    ASSUME Carried, NEW t \in Tabs, NEW r, UiOk(r, t), PageOnly(t, r)
    PROVE  Carried'
<1>1. UNCHANGED <<page, pending, entries, call>>
  BY DEF PageOnly
<1>2. CallsGood'
  BY <1>1 DEF Carried, CallsGood, Free
<1>3. PageSending(t, r)
  BY DEF PageOnly, PageSending
<1>. QED  BY <1>2, <1>3, PageKept

\* The answer to a call changes some of its fields.
LEMMA CallChanged ==
    ASSUME Carried, NEW c \in Slots, ~Free(c), NEW r, DOMAIN r \subseteq CallFields,
           SetCall(c, r)
    PROVE  /\ DOMAIN call' = Slots
           /\ \A d \in Slots : d # c => call'[d] = call[d]
           /\ call'[c] = Over(r, call[c])
           /\ DOMAIN call'[c] = CallFields
           /\ \A x \in CallFields : call'[c][x] = IF x \in DOMAIN r THEN r[x] ELSE call[c][x]
<1>1. DOMAIN call = Slots /\ DOMAIN call[c] = CallFields
  BY DEF Carried, CallsGood, CallGood
<1>2. call'[c] = Over(r, call[c])
  BY <1>1 DEF SetCall
<1>. QED  BY <1>1, <1>2, Changed DEF SetCall

\* One call has changed.
LEMMA OneCall ==
    ASSUME Carried, Steady, NEW c \in Slots, DOMAIN call' = Slots,
           \A d \in Slots : d # c => call'[d] = call[d],
           call'[c] = NoCall \/ CallGood(call'[c], page', pending', Len(entries'))
    PROVE  CallsGood'
BY CallsKept DEF Carried

-----------------------------------------------------------------------------
(* The background *)

\* A call moves on: what it began with stays, and its new place is one of its
\* operation.
LEMMA CallMoves ==
    ASSUME Carried, Steady, NEW c \in Slots, ~Free(c), NEW r, SetCall(c, r),
           DOMAIN r \subseteq {"pc", "status", "pwd", "wrapped", "late", "hydrated", "rec",
                               "map", "ack"},
           "pc" \in DOMAIN r,
           "pwd" \in DOMAIN r => r.pwd \in Passwords \cup {NoPass},
           "late" \in DOMAIN r => r.late = FALSE,
           "rec" \in DOMAIN r => call[c].op \notin {"prompt", "save"},
           "map" \in DOMAIN r => call[c].op # "save" /\ StagedGood(r.map, Len(entries)),
           r.pc = "set" => "map" \in DOMAIN r,
           r.pc = "write" => call[c].op = "save",
           r.pc = "entry" => call[c].op \in {"fill", "staged"},
           r.pc \in {"get", "set"} => call[c].op \in {"stage", "unstage", "unstageDirect", "staged"},
           r.pc \in {"list", "unwrap", "write"} => call[c].pc \in {"list", "unwrap"},
           call[c].op = "suggest" =>
              \/ r.pc = "unwrap"
              \/ r.pc = "reply" /\ "status" \in DOMAIN r /\ r.status \in Popovers \cup {"closed", "ready"}
    PROVE  CallsGood'
<1> DEFINE k == call[c]
           j == call'[c]
<1>1. CallGood(k, page, pending, Len(entries))
  BY DEF Carried, CallsGood
<1>2. /\ DOMAIN call' = Slots /\ \A d \in Slots : d # c => call'[d] = call[d]
      /\ DOMAIN j = CallFields
      /\ \A x \in CallFields : j[x] = IF x \in DOMAIN r THEN r[x] ELSE k[x]
  BY CallChanged DEF CallFields
<1>3. /\ j.op = k.op /\ j.tab = k.tab /\ j.live = k.live /\ j.entry = k.entry
      /\ j.from = k.from
      /\ j.pc = r.pc
  BY <1>2 DEF CallFields
<1>4. /\ j.pwd = (IF "pwd" \in DOMAIN r THEN r.pwd ELSE k.pwd)
      /\ j.late = (IF "late" \in DOMAIN r THEN r.late ELSE k.late)
      /\ j.rec = (IF "rec" \in DOMAIN r THEN r.rec ELSE k.rec)
      /\ j.map = (IF "map" \in DOMAIN r THEN r.map ELSE k.map)
      /\ j.status = (IF "status" \in DOMAIN r THEN r.status ELSE k.status)
  BY <1>2 DEF CallFields
<1>5. /\ j.tab \in Tabs /\ j.entry \in 0 .. Len(entries) /\ j.pwd \in Passwords \cup {NoPass}
      /\ j.live \in BOOLEAN /\ j.late = FALSE
  BY <1>1, <1>3, <1>4 DEF CallGood
<1>6. RightPlace(j)
  BY <1>1, <1>3, <1>4 DEF CallGood, RightPlace
<1>7. /\ j.live => j.from = page[j.tab].host
      /\ j.op = "prompt" => j.rec.host = j.from
      /\ j.op = "prompt" /\ j.live => Here(j.tab, page, pending)
  BY <1>1, <1>3, <1>4 DEF CallGood
<1>8. j.op = "save" /\ j.pc \in {"list", "unwrap", "write"} =>
          j.rec.host = j.map.host /\ j.map.tab = j.tab
  BY <1>1, <1>3, <1>4 DEF CallGood
<1>9. j.pc = "set" => StagedGood(j.map, Len(entries))
  BY <1>3, <1>4
<1>10. CallGood(j, page, pending, Len(entries))
  BY <1>2, <1>5, <1>6, <1>7, <1>8, <1>9 DEF CallGood
<1>11. CallGood(j, page', pending', Len(entries'))
  BY <1>2, <1>5, <1>10, CallKept DEF Steady
<1>. QED  BY <1>2, <1>11, OneCall

LEMMA AnswerKeeps ==
    ASSUME Carried, Steady, NEW c \in Slots, ~Free(c), NEW status, Answer(c, status),
           call[c].op = "suggest" => status \in Popovers \cup {"closed", "ready"}
    PROVE  CallsGood'
<1> DEFINE r == [pc |-> "reply", status |-> status]
<1>1. DOMAIN r = {"pc", "status"} /\ r.pc = "reply" /\ r.status = status
  OBVIOUS
<1>2. SetCall(c, r)
  BY DEF Answer
<1> HIDE DEF r
<1>. QED  BY <1>1, <1>2, CallMoves

LEMMA BroadcastKeeps ==
    ASSUME Carried, NEW status \in {"locked", "unlocked"}, NEW ack \in SUBSET Slots,
           Broadcast(status, ack)
    PROVE  inbox' \in SUBSET Message
BY DEF Broadcast, OpenTabs, Message, Carried, Types

LEMMA LockKeeps ==
    ASSUME Carried, LockAndBroadcast
    PROVE  /\ inbox' \in SUBSET Message
           /\ pass' = NoPass /\ timer' = "off"
BY BroadcastKeeps DEF LockAndBroadcast, ClearRuntimeSession

LEMMA TimerKeeps ==
    ASSUME Carried, TimerFires
    PROVE  Carried'
<1>1. UNCHANGED <<token, account, page, ui, pending, staged, entries, call, fills, saves>>
      /\ LockAndBroadcast
  BY DEF TimerFires
<1>2. CallsGood'
  BY <1>1 DEF Carried, CallsGood, Free
<1>3. SessionTypeOK'
  BY <1>1, LockKeeps DEF SessionTypeOK, Carried, Types
<1>4. StagedGood(staged', Len(entries))
  BY <1>1 DEF Carried, Types
<1>. QED  BY <1>1, <1>2, <1>3, <1>4, LockKeeps, Behind

LEMMA ListKeeps ==
    ASSUME Carried, NEW c \in Slots, ListAnswers(c)
    PROVE  Carried'
<1>1. call[c].pc = "list" /\ ~Free(c)
  BY DEF ListAnswers, Free, NoCall
<1>2. UNCHANGED <<token, account, page, ui, pending, staged, entries, fills, saves>>
  BY DEF ListAnswers
<1>3. Steady
  BY <1>2, SameSites
<1>4. StagedGood(staged', Len(entries))
  BY <1>2 DEF Carried, Types
<1>5. CASE \/ account = Unset /\ Answer(c, "unconfigured") /\ UNCHANGED <<pass, timer, inbox>>
           \/ Answer(c, "locked") /\ UNCHANGED <<pass, timer, inbox>>
           \/ Answer(c, "locked") /\ LockAndBroadcast
  <2>1. CallsGood'
    BY <1>1, <1>3, <1>5, AnswerKeeps DEF Popovers, Statuses
  <2>2. SessionTypeOK' /\ inbox' \in SUBSET Message
    BY <1>2, <1>5, LockKeeps DEF SessionTypeOK, Carried, Types
  <2>. QED  BY <1>2, <1>4, <2>1, <2>2, Behind
<1>6. CASE /\ pass # NoPass /\ ~DeadlinePassed
           /\ SetCall(c, [pc |-> "unwrap", pwd |-> pass, wrapped |-> account,
                             late |-> timer = "due"])
           /\ UNCHANGED <<pass, timer, inbox>>
  <2> DEFINE r == [pc |-> "unwrap", pwd |-> pass, wrapped |-> account, late |-> timer = "due"]
  <2>1. timer # "due"
    BY <1>6 DEF DeadlinePassed
  <2>2. /\ DOMAIN r = {"pc", "pwd", "wrapped", "late"} /\ r.pc = "unwrap" /\ r.pwd = pass
        /\ r.late = FALSE
    BY <2>1
  <2>3. pass \in Passwords \cup {NoPass} /\ SetCall(c, r)
    BY <1>6 DEF Carried, Types, SessionTypeOK
  <2> HIDE DEF r
  <2>4. CallsGood'
    BY <1>1, <1>3, <2>2, <2>3, CallMoves
  <2>5. SessionTypeOK' /\ inbox' \in SUBSET Message
    BY <1>2, <1>6 DEF SessionTypeOK, Carried, Types
  <2>. QED  BY <1>2, <1>4, <2>4, <2>5, Behind
<1>. QED  BY <1>5, <1>6 DEF ListAnswers

LEMMA UnwrapKeeps ==
    ASSUME Carried, NEW c \in Slots, UnwrapAnswers(c)
    PROVE  Carried'
<1> DEFINE k == call[c]
           allowed == k.entry # 0 /\ EntryAllowedForPage(entries[k.entry], k.page)
<1>1. k.pc = "unwrap" /\ ~Free(c)
  BY DEF UnwrapAnswers, Free, NoCall
<1>2. UNCHANGED <<token, account, page, ui, pending, staged, entries, fills, saves>>
  BY DEF UnwrapAnswers
<1>3. Steady
  BY <1>2, SameSites
<1>4. StagedGood(staged', Len(entries))
  BY <1>2 DEF Carried, Types
<1>5. CASE LockAndBroadcast /\ Answer(c, "locked")
  <2>1. CallsGood'
    BY <1>1, <1>3, <1>5, AnswerKeeps DEF Popovers, Statuses
  <2>2. SessionTypeOK' /\ inbox' \in SUBSET Message
    BY <1>2, <1>5, LockKeeps DEF SessionTypeOK, Carried, Types
  <2>. QED  BY <1>2, <1>4, <2>1, <2>2, Behind
<1>6. CASE /\ ScheduleExpiry /\ UNCHANGED inbox
           /\ \/ k.op = "fill" /\ Answer(c, "error")
              \/ k.op \in {"fill", "staged"} /\ SetCall(c, [pc |-> "entry"])
              \/ k.op = "save" /\ SetCall(c, [pc |-> "write"])
              \/ SetCall(c, [pc |-> "reply", status |-> "ready", hydrated |-> TRUE])
  <2>1. SessionTypeOK' /\ inbox' \in SUBSET Message
    BY <1>2, <1>6 DEF SessionTypeOK, Carried, Types, ScheduleExpiry, ClearRuntimeSession
  <2>2. CASE k.op = "fill" /\ Answer(c, "error")
    <3>1. CallsGood'
      BY <1>1, <1>3, <2>2, AnswerKeeps
    <3>. QED  BY <1>2, <1>4, <2>1, <3>1, Behind
  <2>3. CASE k.op \in {"fill", "staged"} /\ SetCall(c, [pc |-> "entry"])
    <3>1. CallsGood'
      BY <1>1, <1>3, <2>3, CallMoves
    <3>. QED  BY <1>2, <1>4, <2>1, <3>1, Behind
  <2>4. CASE k.op = "save" /\ SetCall(c, [pc |-> "write"])
    <3>1. CallsGood'
      BY <1>1, <1>3, <2>4, CallMoves
    <3>. QED  BY <1>2, <1>4, <2>1, <3>1, Behind
  <2>5. CASE SetCall(c, [pc |-> "reply", status |-> "ready", hydrated |-> TRUE])
    <3>1. CallsGood'
      BY <1>1, <1>3, <2>5, CallMoves
    <3>. QED  BY <1>2, <1>4, <2>1, <3>1, Behind
  <2>. QED  BY <1>6, <2>2, <2>3, <2>4, <2>5
<1>7. CASE Unwraps(k.wrapped, k.pwd)
  BY <1>6, <1>7 DEF UnwrapAnswers
<1>8. CASE ~Unwraps(k.wrapped, k.pwd)
  BY <1>5, <1>8 DEF UnwrapAnswers
<1>. QED  BY <1>7, <1>8

LEMMA FailureKeeps ==
    ASSUME Carried, NEW c \in Slots, RequestFails(c)
    PROVE  Carried'
<1>1. call[c].pc \in {"list", "entry", "write"} /\ ~Free(c)
  BY DEF RequestFails, Free, NoCall
<1>2. UNCHANGED <<sessionVars, page, ui, pending, staged, entries, inbox, fills, saves>>
  BY DEF RequestFails
<1>3. Steady
  BY <1>2, SameSites
<1>4. CallsGood'
  <2>1. CASE call[c].op = "staged" /\ SetCall(c, [pc |-> "get", status |-> "error"])
    BY <1>1, <1>3, <2>1, CallMoves
  <2>2. CASE Answer(c, "error")
    BY <1>1, <1>3, <2>2, AnswerKeeps DEF Popovers
  <2>. QED  BY <2>1, <2>2 DEF RequestFails
<1>. QED  BY <1>2, <1>4, Behind DEF sessionVars, SessionTypeOK, Carried, Types

LEMMA EntryKeeps ==
    ASSUME Carried, NEW c \in Slots, EntryAnswers(c)
    PROVE  Carried'
<1>1. call[c].pc = "entry" /\ ~Free(c)
  BY DEF EntryAnswers, Free, NoCall
<1>2. UNCHANGED <<sessionVars, page, ui, pending, staged, entries, inbox, fills, saves>>
  BY DEF EntryAnswers
<1>3. Steady
  BY <1>2, SameSites
<1>4. call[c].op \in {"fill", "staged"}
  BY <1>1 DEF Carried, CallsGood, CallGood, RightPlace
<1> DEFINE r == [pc |-> IF call[c].op = "staged" THEN "get" ELSE "reply",
                 status |-> "ready", rec |-> entries[call[c].entry]]
<1>5. /\ DOMAIN r = {"pc", "status", "rec"} /\ r.pc \in {"get", "reply"}
      /\ r.pc = "get" => call[c].op = "staged"
  OBVIOUS
<1>6. SetCall(c, r)
  BY DEF EntryAnswers
<1> HIDE DEF r
<1>7. CallsGood'
  BY <1>1, <1>3, <1>4, <1>5, <1>6, CallMoves
<1>. QED  BY <1>2, <1>7, Behind DEF sessionVars, SessionTypeOK, Carried, Types

LEMMA MapReadKeeps ==
    ASSUME Carried, NEW c \in Slots, StagedMapRead(c)
    PROVE  Carried'
<1>1. call[c].pc = "get" /\ ~Free(c)
  BY DEF StagedMapRead, Free, NoCall
<1>2. UNCHANGED <<sessionVars, page, ui, pending, staged, entries, inbox, fills, saves>>
  BY DEF StagedMapRead
<1>3. Steady
  BY <1>2, SameSites
<1>4. call[c].op \in {"stage", "unstage", "unstageDirect", "staged"}
  BY <1>1 DEF Carried, CallsGood, CallGood, RightPlace
<1> DEFINE r == [pc |-> "set", map |-> staged]
<1>5. DOMAIN r = {"pc", "map"} /\ r.pc = "set" /\ r.map = staged /\ SetCall(c, r)
  BY DEF StagedMapRead
<1>6. StagedGood(staged, Len(entries))
  BY DEF Carried, Types
<1> HIDE DEF r
<1>7. CallsGood'
  BY <1>1, <1>3, <1>4, <1>5, <1>6, CallMoves
<1>. QED  BY <1>2, <1>7, Behind DEF sessionVars, SessionTypeOK, Carried, Types

LEMMA MapWriteKeeps ==
    ASSUME Carried, NEW c \in Slots, StagedMapWrite(c)
    PROVE  Carried'
<1> DEFINE k == call[c]
           value == IF k.op = "stage" THEN [entry |-> k.entry, host |-> k.page.host, old |-> FALSE]
                    ELSE NoRec
<1>1. k.pc = "set" /\ ~Free(c)
  BY DEF StagedMapWrite, Free, NoCall
<1>2. UNCHANGED <<sessionVars, page, ui, pending, entries, inbox, fills, saves>>
  BY DEF StagedMapWrite
<1>3. Steady
  BY <1>2, SameSites
<1>4. CallGood(k, page, pending, Len(entries))
  BY <1>1 DEF Carried, CallsGood
<1>5. k.op \in {"stage", "unstage", "unstageDirect", "staged"}
  BY <1>1, <1>4 DEF CallGood, RightPlace
<1>6. SetCall(c, [pc |-> "reply"]) /\ staged' = [k.map EXCEPT ![k.tab] = value]
  BY DEF StagedMapWrite
<1>7. CallsGood'
  BY <1>1, <1>3, <1>5, <1>6, CallMoves
<1>8. StagedGood(k.map, Len(entries)) /\ k.entry \in 0 .. Len(entries)
  BY <1>1, <1>4 DEF CallGood
<1>9. value # NoRec => DOMAIN value = {"entry", "host", "old"} /\ value.entry = k.entry
  OBVIOUS
<1> HIDE DEF value
<1>10. StagedGood(staged', Len(entries))
  BY <1>6, <1>8, <1>9 DEF StagedGood
<1>. QED  BY <1>2, <1>7, <1>10, Behind DEF sessionVars, SessionTypeOK, Carried, Types

LEMMA StoreKeeps ==
    ASSUME Carried, NEW c \in Slots, EntryStored(c)
    PROVE  Carried'
<1> DEFINE k == call[c]
           e == [title |-> k.rec.title, host |-> k.rec.host, acct |-> k.rec.acct,
                 secret |-> k.map.secret]
<1>1. k.pc = "write" /\ ~Free(c)
  BY DEF EntryStored, Free, NoCall
<1>2. CallGood(k, page, pending, Len(entries))
  BY <1>1 DEF Carried, CallsGood
<1>3. k.op = "save" /\ k.rec.host = k.map.host /\ k.map.tab = k.tab /\ k.tab \in Tabs
  BY <1>1, <1>2 DEF CallGood, RightPlace
<1>4. /\ UNCHANGED <<sessionVars, page, ui, staged, inbox, fills>>
      /\ pending' = [pending EXCEPT ![k.tab] = NoRec]
      /\ saves' = saves \cup {[tab |-> k.tab, prompt |-> k.rec, login |-> k.map]}
      /\ Answer(c, "ready")
      /\ entries' = IF k.rec.id # 0 THEN [entries EXCEPT ![k.rec.id] = e] ELSE Append(entries, e)
  BY DEF EntryStored
<1>5. /\ entries' \in Seq(Range(entries'))
      /\ Len(entries) \in Nat /\ Len(entries') \in Nat /\ Len(entries) <= Len(entries')
  <2> HIDE DEF e
  <2>0. entries \in Seq(Range(entries))
    BY DEF Carried, Types
  <2>1. Len(entries) \in Nat
    BY EntriesCount
  <2>2. CASE k.rec.id # 0
    <3> DEFINE i == k.rec.id
               s == [entries EXCEPT ![i] = e]
    <3>1. entries' = s
      BY <1>4, <2>2
    <3> HIDE DEF i
    <3>2. s \in Seq(Range(s)) /\ Len(s) = Len(entries)
      BY <2>0, Replaced
    <3> HIDE DEF s
    <3>. QED  BY <2>1, <3>1, <3>2
  <2>3. CASE k.rec.id = 0
    BY <1>4, <2>0, <2>1, <2>3, Appended
  <2>. QED  BY <2>0, <2>1, <2>2, <2>3
<1>6. Steady
  BY <1>4, <1>5 DEF Steady, Here, Carried, PendingGood
<1>7. CallsGood'
  BY <1>1, <1>3, <1>4, <1>6, AnswerKeeps
<1>8. PagesGood'
  BY <1>4, <1>6, PagesKept DEF Carried, PagesGood
<1>9. PendingGood'
  BY <1>4 DEF Carried, PendingGood
<1>10. SaveKeepsSite'
  BY <1>3, <1>4 DEF Carried, SaveKeepsSite
<1>11. StagedGood(staged', Len(entries'))
  BY <1>4, <1>5 DEF Carried, Types, StagedGood
<1>12. Types'
  BY <1>4, <1>5, <1>11 DEF Carried, Types, SessionTypeOK, sessionVars
<1>. QED  BY <1>4, <1>7, <1>8, <1>9, <1>10, <1>12
          DEF Carried, FillsWhereChosen, NoFillFromExpiredSession

LEMMA UnlockKeeps ==
    ASSUME Carried, NEW c \in Slots, ~Free(c),
           \/ UnlockListed(c) \/ UnlockUnwrapped(c) \/ UnlockArmed(c) \/ UnlockBroadcastDone(c)
    PROVE  Carried'
<1> DEFINE k == call[c]
<1>1. CallGood(k, page, pending, Len(entries))
  BY DEF Carried, CallsGood
<1>2. UNCHANGED <<token, account, page, ui, pending, staged, entries, fills, saves>>
  BY DEF UnlockListed, UnlockUnwrapped, UnlockArmed, UnlockBroadcastDone, sessionVars
<1>3. Steady
  BY <1>2, SameSites
<1>4. StagedGood(staged', Len(entries))
  BY <1>2 DEF Carried, Types
<1>5. k.op # "suggest"
  BY <1>1 DEF UnlockListed, UnlockUnwrapped, UnlockArmed, UnlockBroadcastDone, CallGood, RightPlace
<1>6. CallsGood'
  <2>1. CASE \E s \in {"error", "ready"} : Answer(c, s)
    BY <1>3, <1>5, <2>1, AnswerKeeps
  <2>2. CASE SetCall(c, [pc |-> "uwrap", wrapped |-> account])
    BY <1>3, <1>5, <2>2, CallMoves
  <2>3. CASE SetCall(c, [pc |-> "arm"])
    BY <1>3, <1>5, <2>3, CallMoves
  <2>4. CASE SetCall(c, [pc |-> "bcast", ack |-> OpenTabs])
    BY <1>3, <1>5, <2>4, CallMoves
  <2>. QED  BY <2>1, <2>2, <2>3, <2>4
            DEF UnlockListed, UnlockUnwrapped, UnlockArmed, UnlockBroadcastDone
<1>7. SessionTypeOK'
  BY <1>1, <1>2 DEF UnlockListed, UnlockUnwrapped, UnlockArmed, UnlockBroadcastDone, sessionVars,
     SessionTypeOK, Carried, Types, ScheduleExpiry, ClearRuntimeSession, CallGood
<1>8. inbox' \in SUBSET Message
  <2>1. CASE UnlockArmed(c)
    BY <2>1, BroadcastKeeps DEF UnlockArmed
  <2>2. CASE UNCHANGED inbox
    BY <2>2 DEF Carried, Types
  <2>. QED  BY <2>1, <2>2 DEF UnlockListed, UnlockUnwrapped, UnlockBroadcastDone
<1>. QED  BY <1>2, <1>4, <1>6, <1>7, <1>8, Behind

LEMMA DeadlineKeeps ==
    ASSUME Carried, DeadlinePasses, UNCHANGED contentVars
    PROVE  Carried'
<1>1. SessionTypeOK'
  BY DEF DeadlinePasses, SessionTypeOK, Carried, Types
<1>2. CallsGood'
  BY DEF Carried, CallsGood, Free, contentVars
<1>. QED  BY <1>1, <1>2, Behind DEF DeadlinePasses, contentVars, Carried, Types

LEMMA PasswordKeeps ==
    ASSUME Carried, AccountPasswordChanges, UNCHANGED contentVars
    PROVE  Carried'
<1>1. SessionTypeOK'
  BY NerveSessionAssumption DEF AccountPasswordChanges, SessionTypeOK, Carried, Types, Passwords, Unset
<1>2. CallsGood'
  BY DEF Carried, CallsGood, Free, contentVars
<1>. QED  BY <1>1, <1>2, Behind DEF AccountPasswordChanges, contentVars, Carried, Types

LEMMA StopKeeps ==
    ASSUME Carried, WorkerStops
    PROVE  Carried'
<1>1. UNCHANGED <<token, account, page, ui, staged, entries, fills, saves>>
  BY DEF WorkerStops
<1>2. pending' = [t \in Tabs |-> NoRec]
  BY DEF WorkerStops
<1>3. Steady
  BY <1>1, <1>2, EntriesCount DEF Steady, Here
<1>4. DOMAIN call' = Slots
      /\ \A c \in Slots : call'[c] = IF Free(c) \/ ~call[c].live THEN NoCall
             ELSE [call[c] EXCEPT !.pc = "reply", !.status = "closed", !.ack = {}]
  BY DEF WorkerStops
<1>5. ASSUME NEW c \in Slots, ~Free(c), call[c].live
      PROVE  CallGood(call'[c], page', pending', Len(entries'))
  <2> DEFINE k == call[c]
             j == call'[c]
  <2>1. CallGood(k, page, pending, Len(entries))
    BY <1>5 DEF Carried, CallsGood
  <2>2. DOMAIN k = CallFields
    BY <2>1 DEF CallGood
  <2>3. j = [k EXCEPT !.pc = "reply", !.status = "closed", !.ack = {}]
    BY <1>4, <1>5
  <2>4. DOMAIN j = CallFields /\ j.pc = "reply" /\ j.status = "closed"
    BY <2>2, <2>3 DEF CallFields
  <2>5. /\ j.op = k.op /\ j.tab = k.tab /\ j.live = k.live /\ j.entry = k.entry
        /\ j.from = k.from /\ j.pwd = k.pwd /\ j.late = k.late /\ j.rec = k.rec
    BY <2>2, <2>3 DEF CallFields
  <2>. QED  BY <1>1, <1>2, <2>1, <2>4, <2>5 DEF CallGood, RightPlace, Here
<1>6. CallsGood'
  BY <1>3, <1>4, <1>5, CallsKept DEF Carried
<1>7. PagesGood'
  BY <1>1, <1>3, PagesKept DEF Carried, PagesGood
<1>8. PendingGood'
  BY <1>2 DEF PendingGood
<1>9. inbox' \in SUBSET Message
  BY DEF WorkerStops, Carried, Types, Message
<1>10. Types'
  BY <1>1, <1>9 DEF Carried, Types, SessionTypeOK, WorkerStops, ClearRuntimeSession
<1>. QED  BY <1>1, <1>6, <1>7, <1>8, <1>10 DEF Carried, FillsWhereChosen,
            NoFillFromExpiredSession, SaveKeepsSite

-----------------------------------------------------------------------------
(* What a page sends *)

\* A new call, before its operation's own fields are set.
LEMMA NewCallGood ==
    ASSUME Carried, NEW t \in Tabs, NEW op
    PROVE  /\ DOMAIN NewCall(op, t) = CallFields
           /\ NewCall(op, t).op = op /\ NewCall(op, t).tab = t /\ NewCall(op, t).live = TRUE
           /\ NewCall(op, t).pc = "list" /\ NewCall(op, t).status = "none"
           /\ NewCall(op, t).pwd = NoPass /\ NewCall(op, t).entry = 0
           /\ NewCall(op, t).from = page[t].host /\ NewCall(op, t).rec = NoRec
           /\ NewCall(op, t).map = NoRec /\ NewCall(op, t).late = FALSE
           /\ op \notin {"prompt", "save"} => CallGood(NewCall(op, t), page, pending, Len(entries))
<1>1. Len(entries) \in Nat
  BY EntriesCount
<1>. QED  BY <1>1 DEF NewCall, CallFields, CallGood, RightPlace

\* The background refuses a call without a token at once.
LEMMA EnterKeeps ==
    ASSUME Carried, Steady, NEW c \in Slots, NEW k, CallGood(k, page', pending', Len(entries')),
           NEW f, DOMAIN f = Slots,
           call' = [f EXCEPT ![c] =
                       IF token THEN k ELSE [k EXCEPT !.pc = "reply", !.status = "disconnected"]],
           \A d \in Slots : d # c => \/ f[d] = call[d]
                                     \/ f[d] = [call[d] EXCEPT !.ack = f[d].ack]
    PROVE  CallsGood'
<1> DEFINE j == [k EXCEPT !.pc = "reply", !.status = "disconnected"]
<1>1. DOMAIN k = CallFields
  BY DEF CallGood
<1>2. DOMAIN j = CallFields /\ j.pc = "reply" /\ j.status = "disconnected"
  BY <1>1 DEF CallFields
<1>3. /\ j.op = k.op /\ j.tab = k.tab /\ j.live = k.live /\ j.entry = k.entry
      /\ j.from = k.from /\ j.pwd = k.pwd /\ j.late = k.late /\ j.rec = k.rec
  BY <1>1 DEF CallFields
<1>4. CallGood(j, page', pending', Len(entries'))
  BY <1>2, <1>3 DEF CallGood, RightPlace, Popovers, Statuses
<1>5. DOMAIN call' = Slots /\ call'[c] \in {j, k}
      /\ \A d \in Slots : d # c => call'[d] = f[d]
  OBVIOUS
<1> HIDE DEF j
<1>6. CallGood(call'[c], page', pending', Len(entries'))
  BY <1>4, <1>5
<1>. QED  BY <1>5, <1>6, CallsKept DEF Carried

LEMMA FocusKeeps ==
    ASSUME Carried, NEW t \in Tabs, HandleFocusIn(t) \/ HandleFocusOut(t) \/ HidePopover(t)
                                    \/ HideBannerTimer(t)
    PROVE  Carried'
<1>1. CASE HandleFocusIn(t)
  <2> DEFINE r == [ctx |-> TRUE, stagedTimer |-> ui[t].stagedTimer \/ page[t].pw]
  <2>1. UiOk(r, t)
    BY DEF UiOk, UiFields
  <2>2. PageOnly(t, r)
    BY <1>1 DEF HandleFocusIn, PageOnly
  <2>. QED  BY <2>1, <2>2, PageOnlyKeeps
<1>2. CASE HandleFocusOut(t)
  <2>1. UiOk([ctx |-> FALSE, pop |-> "hidden"], t)
    BY DEF UiOk, UiFields, Popovers
  <2>. QED  BY <1>2, <2>1, PageOnlyKeeps DEF HandleFocusOut
<1>3. CASE HidePopover(t)
  <2>1. UiOk([pop |-> "hidden"], t)
    BY DEF UiOk, UiFields, Popovers
  <2>. QED  BY <1>3, <2>1, PageOnlyKeeps DEF HidePopover
<1>4. CASE HideBannerTimer(t)
  <2>1. UiOk([hideTimer |-> FALSE, banner |-> "none", shown |-> NoRec], t)
    BY DEF UiOk, UiFields, Banners
  <2>. QED  BY <1>4, <2>1, PageOnlyKeeps DEF HideBannerTimer
<1>. QED  BY <1>1, <1>2, <1>3, <1>4

LEMMA ButtonKeeps ==
    ASSUME Carried, NEW t \in Tabs, NEW c \in Slots, HandleInlineButtonClick(t, c)
    PROVE  Carried'
<1>1. PageSending(t, [pop |-> "checking"])
  BY DEF HandleInlineButtonClick, PageSending
<1>2. UiOk([pop |-> "checking"], t)
  BY DEF UiOk, UiFields, Popovers
<1>3. Steady
  BY <1>1, SameSites DEF HandleInlineButtonClick
<1>4. CallGood(NewCall("suggest", t), page', pending', Len(entries'))
  BY NewCallGood DEF HandleInlineButtonClick
<1>5. CallsGood'
  BY <1>3, <1>4, EnterKeeps DEF HandleInlineButtonClick, Enter, Carried, CallsGood
<1>. QED  BY <1>1, <1>2, <1>5, PageKept

\* A page that sends and does not change.
LEMMA StillKept ==
    ASSUME Carried, CallsGood',
           UNCHANGED <<sessionVars, page, ui, pending, staged, entries, inbox, fills, saves>>
    PROVE  Carried'
BY Behind DEF sessionVars, SessionTypeOK, Carried, Types

LEMMA FillActionKeeps ==
    ASSUME Carried, NEW t \in Tabs, NEW c \in Slots, NEW e \in DOMAIN entries,
           HandleFillEntryAction(t, c, e)
    PROVE  Carried'
<1> DEFINE n == NewCall("fill", t)
           k == [n EXCEPT !.entry = e]
<1>1. UNCHANGED <<sessionVars, page, ui, pending, staged, entries, inbox, fills, saves>>
  BY DEF HandleFillEntryAction
<1>2. Steady
  BY <1>1, SameSites
<1>3. e \in 0 .. Len(entries)
  BY EntriesCount
<1>4. CallGood(k, page, pending, Len(entries))
  <2>1. DOMAIN n = CallFields /\ CallGood(n, page, pending, Len(entries)) /\ n.op = "fill"
    BY NewCallGood
  <2> HIDE DEF n
  <2>2. /\ DOMAIN k = CallFields /\ k.entry = e
        /\ k.op = n.op /\ k.tab = n.tab /\ k.live = n.live /\ k.pc = n.pc
        /\ k.from = n.from /\ k.pwd = n.pwd /\ k.late = n.late /\ k.rec = n.rec
        /\ k.map = n.map /\ k.status = n.status
    BY <2>1 DEF CallFields
  <2> HIDE DEF k
  <2>. QED  BY <1>3, <2>1, <2>2 DEF CallGood, RightPlace
<1>5. CallsGood'
  <2> HIDE DEF k
  <2>1. call' = [call EXCEPT ![c] =
                   IF token THEN k ELSE [k EXCEPT !.pc = "reply", !.status = "disconnected"]]
    BY DEF HandleFillEntryAction, Enter, k
  <2>. QED  BY <1>1, <1>2, <1>4, <2>1, EnterKeeps DEF Carried, CallsGood
<1>. QED  BY <1>1, <1>5, StillKept

LEMMA SetAck ==
    ASSUME NEW k, NEW a
    PROVE  LET j == [k EXCEPT !.ack = a] IN j = k \/ j = [k EXCEPT !.ack = j.ack]
<1> DEFINE j == [k EXCEPT !.ack = a]
<1>1. CASE "ack" \in DOMAIN k
  <2>1. j.ack = a
    BY <1>1
  <2>. QED  BY <2>1
<1>2. CASE "ack" \notin DOMAIN k
  OBVIOUS
<1>. QED  BY <1>1, <1>2

\* A page's answer to the call that unlocks changes nothing else.
LEMMA AckedCalls ==
    ASSUME NEW f, NEW acks, NEW t
    PROVE  LET g == Acknowledge(f, acks, t)
           IN  /\ DOMAIN g = Slots
               /\ \A d \in Slots : g[d] = f[d] \/ g[d] = [f[d] EXCEPT !.ack = g[d].ack]
<1> DEFINE g == Acknowledge(f, acks, t)
<1>1. DOMAIN g = Slots
      /\ \A d \in Slots : g[d] = f[d] \/ g[d] = [f[d] EXCEPT !.ack = f[d].ack \ {t}]
  BY DEF Acknowledge
<1> HIDE DEF g
<1>2. ASSUME NEW d \in Slots PROVE g[d] = f[d] \/ g[d] = [f[d] EXCEPT !.ack = g[d].ack]
  BY <1>1, SetAck
<1>. QED  BY <1>1, <1>2 DEF g

LEMMA PagesWritten ==
    ASSUME Carried, Steady, NEW t \in Tabs, NEW r, SetUi(t, r), UiOk(r, t)
    PROVE  PagesGood'
<1>1. DOMAIN ui' = Tabs /\ ui'[t] = Over(r, ui[t]) /\ \A u \in Tabs : u # t => ui'[u] = ui[u]
  BY DEF SetUi, Carried, PagesGood
<1>2. UiGood(ui'[t], t, page, pending)
  BY <1>1, UiUpdated DEF Carried, PagesGood
<1>. QED  BY <1>1, <1>2, PagesKept DEF Carried

\* A step of a page that also touches the pending logins and the messages to pages.
LEMMA Ahead ==
    ASSUME Carried, UNCHANGED <<sessionVars, page, staged, entries, fills, saves>>,
           inbox' \in SUBSET Message, CallsGood', PagesGood', PendingGood'
    PROVE  Carried'
BY DEF Carried, Types, SessionTypeOK, sessionVars, FillsWhereChosen, NoFillFromExpiredSession,
       SaveKeepsSite

\* A prompt begins with a login of the site that its page shows.
LEMMA PromptKeeps ==
    ASSUME Carried, NEW t \in Tabs, NEW c \in Slots, NEW r, UiOk(r, t), NEW ack,
           StartPrompt(t, c, r, ack), inbox' \in SUBSET Message,
           UNCHANGED <<sessionVars, page, staged, entries, fills, saves>>
    PROVE  Carried'
<1> DEFINE p == pending[t]
           n == NewCall("prompt", t)
           k == [n EXCEPT !.rec = p, !.ack = ack]
           quiet == p = NoRec \/ (p # NoRec /\ (p.old \/ ~ShouldPromptForPendingSave(p, page[t])))
           b == [banner |-> "none", shown |-> NoRec]
<1>1. pending' = pending \/ pending' = [pending EXCEPT ![t] = NoRec]
  BY DEF StartPrompt
<1>2. Steady
  BY <1>1, EntriesCount DEF Steady, Here, Carried, PendingGood
<1>3. PendingGood'
  BY <1>1 DEF Carried, PendingGood
<1>4. CASE quiet
  <2>1. SetUi(t, Over(b, r)) /\ call' = Acknowledge(call, ack, t)
    BY <1>4 DEF StartPrompt
  <2>2. UiOk(Over(b, r), t)
    <3>1. /\ DOMAIN Over(b, r) = {"banner", "shown"} \cup DOMAIN r
          /\ Over(b, r).banner = "none" /\ Over(b, r).shown = NoRec
          /\ "pop" \in DOMAIN r => Over(b, r).pop = r.pop
      BY DEF Over
    <3>. QED  BY <3>1 DEF UiOk, UiFields, Banners
  <2>3. PagesGood'
    BY <1>2, <2>1, <2>2, PagesWritten
  <2>4. CallsGood'
    BY <1>2, <2>1, AckedCalls, CallsKept DEF Carried
  <2>. QED  BY <1>3, <2>3, <2>4, Ahead
<1>5. CASE ~quiet
  <2>1. /\ SetUi(t, r) /\ p # NoRec /\ p.host = page[t].host
        /\ call' = [call EXCEPT ![c] =
                       IF token THEN k ELSE [k EXCEPT !.pc = "reply", !.status = "disconnected"]]
    BY <1>5 DEF StartPrompt, ShouldPromptForPendingSave, Enter
  <2>2. PagesGood'
    BY <1>2, <2>1, PagesWritten
  <2>3. /\ DOMAIN n = CallFields /\ n.op = "prompt" /\ n.tab = t /\ n.live = TRUE /\ n.pc = "list"
        /\ n.pwd = NoPass /\ n.entry = 0 /\ n.from = page[t].host /\ n.late = FALSE
    BY DEF NewCall, CallFields
  <2> HIDE DEF n
  <2>4. /\ DOMAIN k = CallFields /\ k.rec = p
        /\ k.op = n.op /\ k.tab = n.tab /\ k.live = n.live /\ k.pc = n.pc
        /\ k.from = n.from /\ k.pwd = n.pwd /\ k.late = n.late /\ k.entry = n.entry
    BY <2>3 DEF CallFields
  <2> HIDE DEF k
  <2>5. CallGood(k, page', pending', Len(entries'))
    <3>1. k.tab = t /\ k.from = page'[t].host /\ k.rec.host = k.from /\ k.live = TRUE
      BY <2>1, <2>3, <2>4
    <3>2. Here(t, page', pending')
      BY <1>1, <2>1 DEF Here, Carried, PendingGood
    <3>3. RightPlace(k) /\ k.op # "save" /\ k.pc # "set"
      BY <2>3, <2>4 DEF RightPlace
    <3>4. k.entry \in 0 .. Len(entries') /\ k.pwd \in Passwords \cup {NoPass} /\ k.late = FALSE
      BY <2>3, <2>4, EntriesCount
    <3>. QED  BY <2>4, <3>1, <3>2, <3>3, <3>4 DEF CallGood
  <2>6. CallsGood'
    BY <1>2, <2>1, <2>5, EnterKeeps DEF Carried, CallsGood
  <2>. QED  BY <1>3, <2>2, <2>6, Ahead
<1>. QED  BY <1>4, <1>5

LEMMA CheckKeeps ==
    ASSUME Carried, NEW t \in Tabs, NEW c \in Slots, MaybeShowPendingSavePrompt(t, c)
    PROVE  Carried'
<1> DEFINE r == [checks |-> ui[t].checks - 1]
<1>1. UiOk(r, t)
  BY DEF UiOk, UiFields
<1>2. inbox' \in SUBSET Message
  BY DEF MaybeShowPendingSavePrompt, Carried, Types
<1>3. StartPrompt(t, c, r, {})
  BY DEF MaybeShowPendingSavePrompt
<1> HIDE DEF r
<1>. QED  BY <1>1, <1>2, <1>3, PromptKeeps DEF MaybeShowPendingSavePrompt

LEMMA SessionChangeKeeps ==
    ASSUME Carried, NEW m \in inbox, NEW c \in Slots, HandleSessionChanged(m, c)
    PROVE  Carried'
<1> DEFINE t == m.tab
           r == [pop |-> IF ui[t].pop # "hidden" THEN "locked" ELSE "hidden"]
           s == [stagedTimer |-> TRUE]
<1>1. t \in Tabs
  BY DEF Carried, Types, Message
<1>2. UNCHANGED <<sessionVars, page, staged, entries, fills, saves>>
  BY DEF HandleSessionChanged
<1>3. inbox' \in SUBSET Message
  BY DEF HandleSessionChanged, Carried, Types
<1>4. UiOk(r, t) /\ UiOk(s, t)
  BY DEF UiOk, UiFields, Popovers, Statuses
<1>5. \/ StartPrompt(t, c, r, {})
      \/ SetUi(t, r) /\ UNCHANGED <<call, pending>>
      \/ StartPrompt(t, c, s, m.ack)
  BY DEF HandleSessionChanged
<1> HIDE DEF t, r, s
<1>6. CASE SetUi(t, r) /\ UNCHANGED <<call, pending>>
  <2>1. Steady
    BY <1>2, <1>6, SameSites
  <2>2. PagesGood'
    BY <1>1, <1>4, <1>6, <2>1, PagesWritten
  <2>3. CallsGood' /\ PendingGood'
    BY <1>2, <1>6 DEF Carried, CallsGood, Free, PendingGood
  <2>. QED  BY <1>2, <1>3, <2>2, <2>3, Ahead
<1>. QED  BY <1>1, <1>2, <1>3, <1>4, <1>5, <1>6, PromptKeeps

LEMMA SubmitKeeps ==
    ASSUME Carried, NEW t \in Tabs, NEW a, NEW refill \in BOOLEAN, HandleFormSubmit(t, a, refill)
    PROVE  Carried'
<1> DEFINE login == [tab |-> t, host |-> page[t].host, step |-> page[t].step, acct |-> a,
                     secret |-> IF refill THEN ui[t].filled.secret ELSE events + 1, old |-> FALSE]
           r == [checks |-> 2]
<1>1. UNCHANGED <<sessionVars, page, staged, entries, call, inbox, fills, saves>>
  BY DEF HandleFormSubmit
<1>2. CASE UNCHANGED <<pending, ui>>
  <2>1. CallsGood'
    BY <1>1, <1>2 DEF Carried, CallsGood, Free
  <2>2. UNCHANGED <<sessionVars, page, ui, pending, staged, entries, inbox, fills, saves>>
    BY <1>1, <1>2
  <2>. QED  BY <2>1, <2>2, StillKept
<1>3. CASE /\ pending' = [u \in Tabs |-> IF u \in PendingSaveKeys(t) THEN login ELSE pending[u]]
           /\ SetUi(t, r)
  <2>1. /\ DOMAIN pending' = Tabs /\ pending'[t] = login
        /\ \A u \in Tabs : u # t => pending'[u] = pending[u]
    BY <1>3 DEF PendingSaveKeys
  <2>2. DOMAIN login = LoginFields /\ login.tab = t /\ login.host = page[t].host
    BY DEF LoginFields
  <2> HIDE DEF login
  <2>3. PendingGood'
    BY <2>1, <2>2 DEF Carried, PendingGood
  <2>4. Steady
    BY <1>1, <2>1, <2>2, EntriesCount DEF Steady, Here
  <2>5. UiOk(r, t)
    BY DEF UiOk, UiFields
  <2>6. PagesGood'
    BY <1>3, <2>4, <2>5, PagesWritten
  <2>7. CallsGood'
    BY <1>1, <2>4, CallsKept DEF Carried, CallsGood
  <2>8. inbox' \in SUBSET Message
    BY <1>1 DEF Carried, Types
  <2>. QED  BY <1>1, <2>3, <2>6, <2>7, <2>8, Ahead
<1>. QED  BY <1>2, <1>3 DEF HandleFormSubmit

LEMMA DismissKeeps ==
    ASSUME Carried, NEW t \in Tabs, DismissPendingSavePrompt(t)
    PROVE  Carried'
<1> DEFINE r == [banner |-> "none", shown |-> NoRec]
<1>1. UNCHANGED <<sessionVars, page, staged, entries, call, inbox, fills, saves>>
      /\ pending' = [pending EXCEPT ![t] = NoRec] /\ SetUi(t, r)
  BY DEF DismissPendingSavePrompt
<1>2. PendingGood'
  BY <1>1 DEF Carried, PendingGood
<1>3. Steady
  BY <1>1, EntriesCount DEF Steady, Here, Carried, PendingGood
<1>4. UiOk(r, t)
  BY DEF UiOk, UiFields, Banners
<1>5. PagesGood'
  BY <1>1, <1>3, <1>4, PagesWritten
<1>6. CallsGood'
  BY <1>1, <1>3, CallsKept DEF Carried, CallsGood
<1>7. inbox' \in SUBSET Message
  BY <1>1 DEF Carried, Types
<1>. QED  BY <1>1, <1>2, <1>5, <1>6, <1>7, Ahead

LEMMA ResolveKeeps ==
    ASSUME Carried, NEW t \in Tabs, NEW c \in Slots, MaybeCompleteStagedFill(t, c)
    PROVE  Carried'
<1> DEFINE f == staged[t]
           n == NewCall("staged", t)
           k == [n EXCEPT !.status = "none"]
           r == [stagedTimer |-> FALSE]
           drop == [k EXCEPT !.pc = "get"]
           go == [k EXCEPT !.entry = f.entry, !.from = f.host,
                           !.pc = IF token THEN "list" ELSE "reply",
                           !.status = IF token THEN "none" ELSE "disconnected"]
<1>1. UiOk(r, t)
  BY DEF UiOk, UiFields
<1>2. CASE PageOnly(t, r)
  BY <1>1, <1>2, PageOnlyKeeps
<1>3. CASE ~PageOnly(t, r)
  <2>1. /\ f # NoRec /\ SetUi(t, r)
        /\ call' = [call EXCEPT ![c] = IF f.old \/ f.host # page[t].host THEN drop ELSE go]
        /\ UNCHANGED <<sessionVars, page, pending, staged, entries, inbox, fills, saves>>
    BY <1>3 DEF MaybeCompleteStagedFill
  <2>2. Steady
    BY <2>1, SameSites
  <2>3. PageSending(t, r)
    BY <2>1 DEF PageSending
  <2>4. DOMAIN n = CallFields /\ CallGood(n, page, pending, Len(entries)) /\ n.op = "staged"
        /\ n.tab = t
    BY NewCallGood DEF NewCall
  <2> HIDE DEF n
  <2>5. /\ DOMAIN drop = CallFields /\ drop.pc = "get"
        /\ drop.op = n.op /\ drop.tab = n.tab /\ drop.live = n.live /\ drop.from = n.from
        /\ drop.pwd = n.pwd /\ drop.late = n.late /\ drop.rec = n.rec /\ drop.map = n.map
        /\ drop.entry = n.entry
    BY <2>4 DEF CallFields
  <2>6. /\ DOMAIN go = CallFields /\ go.pc \in {"list", "reply"}
        /\ go.op = n.op /\ go.tab = n.tab /\ go.live = n.live /\ go.from = f.host
        /\ go.pwd = n.pwd /\ go.late = n.late /\ go.rec = n.rec /\ go.map = n.map
        /\ go.entry = f.entry
    BY <2>4 DEF CallFields
  <2> HIDE DEF k, drop, go
  <2>7. CallGood(drop, page, pending, Len(entries))
    BY <2>4, <2>5 DEF CallGood, RightPlace
  <2>8. f.entry \in 0 .. Len(entries)
    BY <2>1 DEF Carried, Types, StagedGood
  <2>9. f.host = page[t].host => CallGood(go, page, pending, Len(entries))
    BY <2>4, <2>6, <2>8 DEF CallGood, RightPlace
  <2>10. \E j : /\ CallGood(j, page', pending', Len(entries'))
                /\ call' = [call EXCEPT ![c] = j]
    <3>1. CASE f.old \/ f.host # page[t].host
      BY <2>1, <2>7, <3>1
    <3>2. CASE ~(f.old \/ f.host # page[t].host)
      BY <2>1, <2>9, <3>2
    <3>. QED  BY <3>1, <3>2
  <2>11. CallsGood'
    BY <2>2, <2>10, OneCall DEF Carried, CallsGood
  <2>. QED  BY <1>1, <2>3, <2>11, PageKept
<1>. QED  BY <1>2, <1>3

\* What is saved is the pending login, under its own site.
LEMMA SaveCallGood ==
    ASSUME Carried, NEW t \in Tabs
    PROVE  CallGood(SaveCall(t), page, pending, Len(entries))
<1> DEFINE p == pending[t]
           prompt == IF ui[t].shown # NoRec THEN ui[t].shown
                     ELSE [id |-> 0, title |-> p.host, host |-> p.host, acct |-> p.acct]
           n == NewCall("save", t)
           refused == [n EXCEPT !.pc = "reply", !.status = "error"]
           begun == [n EXCEPT !.rec = prompt, !.map = p]
<1>1. SaveCall(t) = IF p = NoRec \/ (p # NoRec /\ p.old) THEN refused ELSE begun
  BY DEF SaveCall
<1>2. p # NoRec => prompt.host = p.host /\ p.tab = t
  BY DEF Carried, PagesGood, UiGood, Here, PendingGood
<1>3. /\ DOMAIN n = CallFields /\ n.op = "save" /\ n.tab = t /\ n.live = TRUE /\ n.pc = "list"
      /\ n.pwd = NoPass /\ n.entry = 0 /\ n.from = page[t].host /\ n.late = FALSE
  BY DEF NewCall, CallFields
<1> HIDE DEF p, prompt, n
<1>4. /\ DOMAIN refused = CallFields /\ refused.pc = "reply"
      /\ refused.op = n.op /\ refused.tab = n.tab /\ refused.live = n.live
      /\ refused.from = n.from /\ refused.pwd = n.pwd /\ refused.late = n.late
      /\ refused.entry = n.entry
  BY <1>3 DEF CallFields
<1>5. /\ DOMAIN begun = CallFields /\ begun.pc = "list" /\ begun.rec = prompt /\ begun.map = p
      /\ begun.op = n.op /\ begun.tab = n.tab /\ begun.live = n.live
      /\ begun.from = n.from /\ begun.pwd = n.pwd /\ begun.late = n.late
      /\ begun.entry = n.entry
  BY <1>3 DEF CallFields
<1> HIDE DEF refused, begun
<1>6. 0 \in 0 .. Len(entries)
  BY EntriesCount
<1>7. RightPlace(refused) /\ RightPlace(begun)
  BY <1>3, <1>4, <1>5 DEF RightPlace
<1>8. CallGood(refused, page, pending, Len(entries))
  <2>1. refused.op = "save" /\ refused.tab = t /\ refused.from = page[t].host
    BY <1>3, <1>4
  <2>2. refused.entry = 0 /\ refused.pwd = NoPass /\ refused.late = FALSE /\ refused.live = TRUE
    BY <1>3, <1>4
  <2>. QED  BY <1>4, <1>6, <1>7, <2>1, <2>2 DEF CallGood
<1>9. p # NoRec => CallGood(begun, page, pending, Len(entries))
  <2>1. begun.op = "save" /\ begun.tab = t /\ begun.from = page[t].host
    BY <1>3, <1>5
  <2>2. begun.entry = 0 /\ begun.pwd = NoPass /\ begun.late = FALSE /\ begun.live = TRUE
    BY <1>3, <1>5
  <2>. QED  BY <1>2, <1>5, <1>6, <1>7, <2>1, <2>2 DEF CallGood
<1>. QED  BY <1>1, <1>8, <1>9

LEMMA SaveActionKeeps ==
    ASSUME Carried, NEW t \in Tabs, NEW c \in Slots, HandleSavePendingAction(t, c)
    PROVE  Carried'
<1> DEFINE r == [banner |-> "prompt"]
           k == SaveCall(t)
<1>1. PageSending(t, r)
  BY DEF HandleSavePendingAction
<1>2. UiOk(r, t)
  BY DEF UiOk, UiFields, Banners
<1>3. UNCHANGED <<page, pending, entries>>
  BY <1>1 DEF PageSending
<1>4. Steady
  BY <1>3, SameSites
<1>5. call' = [call EXCEPT ![c] =
                   IF token THEN k ELSE [k EXCEPT !.pc = "reply", !.status = "disconnected"]]
  BY DEF HandleSavePendingAction, Enter
<1>6. CallGood(k, page', pending', Len(entries'))
  BY <1>3, SaveCallGood
<1> HIDE DEF k
<1>7. CallsGood'
  BY <1>4, <1>5, <1>6, EnterKeeps DEF Carried, CallsGood
<1>. QED  BY <1>1, <1>2, <1>7, PageKept

LEMMA UnlockActionKeeps ==
    ASSUME Carried, NEW t \in Tabs, NEW c \in Slots, NEW p \in Passwords,
           HandleUnlockPendingAction(t, c, p)
    PROVE  Carried'
<1> DEFINE r == [banner |-> "unlock"]
           n == NewCall("unlock", t)
           asked == [n EXCEPT !.pc = "ulist", !.pwd = p]
           refused == [n EXCEPT !.pc = "reply", !.status = "error"]
<1>1. PageSending(t, r)
  BY DEF HandleUnlockPendingAction
<1>2. UiOk(r, t)
  BY DEF UiOk, UiFields, Banners
<1>3. UNCHANGED <<page, pending, entries>>
  BY <1>1 DEF PageSending
<1>4. Steady
  BY <1>3, SameSites
<1>5. call' = [call EXCEPT ![c] = IF token THEN asked ELSE refused]
  BY DEF HandleUnlockPendingAction
<1>6. DOMAIN n = CallFields /\ CallGood(n, page, pending, Len(entries)) /\ n.op = "unlock"
  BY NewCallGood
<1> HIDE DEF n
<1>7. /\ DOMAIN refused = CallFields /\ refused.pc = "reply"
      /\ refused.op = n.op /\ refused.tab = n.tab /\ refused.live = n.live
      /\ refused.from = n.from /\ refused.pwd = n.pwd /\ refused.late = n.late
      /\ refused.entry = n.entry
  BY <1>6 DEF CallFields
<1>8. /\ DOMAIN asked = CallFields /\ asked.pc = "ulist" /\ asked.pwd = p
      /\ asked.op = n.op /\ asked.tab = n.tab /\ asked.live = n.live
      /\ asked.from = n.from /\ asked.late = n.late /\ asked.entry = n.entry
  BY <1>6 DEF CallFields
<1> HIDE DEF refused, asked
<1>9. CallGood(refused, page, pending, Len(entries))
  BY <1>6, <1>7 DEF CallGood, RightPlace
<1>10. CallGood(asked, page, pending, Len(entries))
  BY <1>6, <1>8 DEF CallGood, RightPlace
<1>11. \E j : /\ CallGood(j, page', pending', Len(entries'))
              /\ call' = [call EXCEPT ![c] = j]
  BY <1>3, <1>5, <1>9, <1>10
<1>12. CallsGood'
  BY <1>4, <1>11, OneCall DEF Carried, CallsGood
<1>. QED  BY <1>1, <1>2, <1>12, PageKept

LEMMA DirectFillKeeps ==
    ASSUME Carried, NEW t \in Tabs, NEW c \in Slots, NEW e \in DOMAIN entries, DirectFill(t, c, e)
    PROVE  Carried'
<1> DEFINE n == NewCall("direct", t)
           k == [n EXCEPT !.entry = e, !.rec = entries[e], !.pc = "get",
                          !.op = IF page[t].pw THEN "unstageDirect" ELSE "stage"]
           j == [k EXCEPT !.status = "direct"]
<1>1. UNCHANGED <<sessionVars, page, ui, pending, staged, entries, inbox, saves>>
  BY DEF DirectFill
<1>2. Steady
  BY <1>1, SameSites
<1>3. /\ fills' = IF page[t].pw THEN fills \cup {Fill(t, "direct", k)} ELSE fills
      /\ call' = [call EXCEPT ![c] = j]
  BY DEF DirectFill
<1>4. DOMAIN n = CallFields /\ CallGood(n, page, pending, Len(entries))
  BY NewCallGood
<1> HIDE DEF n
<1>5. DOMAIN k = CallFields /\ k.late = n.late
  BY <1>4 DEF CallFields
<1>6. /\ DOMAIN j = CallFields /\ j.pc = "get" /\ j.op \in {"unstageDirect", "stage"}
      /\ j.tab = n.tab /\ j.live = n.live /\ j.from = n.from /\ j.pwd = n.pwd
      /\ j.late = n.late /\ j.entry = e
  BY <1>4 DEF CallFields
<1> HIDE DEF j
<1>7. e \in 0 .. Len(entries)
  BY EntriesCount
<1>8. CallGood(j, page', pending', Len(entries'))
  BY <1>1, <1>4, <1>6, <1>7 DEF CallGood, RightPlace
<1>9. CallsGood'
  BY <1>2, <1>3, <1>8, OneCall DEF Carried, CallsGood
<1>10. k.late = FALSE
  BY <1>4, <1>5 DEF CallGood
<1> HIDE DEF k
<1>11. FillsWhereChosen' /\ NoFillFromExpiredSession'
  BY <1>3, <1>10 DEF Fill, Carried, FillsWhereChosen, NoFillFromExpiredSession
<1>. QED  BY <1>1, <1>9, <1>11 DEF Carried, Types, SessionTypeOK, sessionVars, PagesGood,
            PendingGood, SaveKeepsSite

-----------------------------------------------------------------------------
(* Answers to a page *)

LEMMA DoneKeeps ==
    ASSUME Carried, Steady, NEW c \in Slots, call' = Done(c)
    PROVE  CallsGood'
BY OneCall DEF Done, Carried, CallsGood

LEMMA AckedDoneKeeps ==
    ASSUME Carried, Steady, NEW c \in Slots, NEW acks, NEW t,
           call' = Acknowledge(Done(c), acks, t)
    PROVE  CallsGood'
<1>1. /\ DOMAIN call' = Slots
      /\ \A d \in Slots : \/ call'[d] = Done(c)[d]
                          \/ call'[d] = [Done(c)[d] EXCEPT !.ack = call'[d].ack]
  BY AckedCalls
<1>2. Done(c)[c] = NoCall /\ \A d \in Slots : d # c => Done(c)[d] = call[d]
  BY DEF Done, Carried, CallsGood
<1>3. \A a : [NoCall EXCEPT !.ack = a] = NoCall
  BY DEF NoCall
<1>4. call'[c] = NoCall
  BY <1>1, <1>2, <1>3
<1>. QED  BY <1>1, <1>2, <1>4, CallsKept DEF Carried

LEMMA DroppedKeeps ==
    ASSUME Carried, NEW c \in Slots, AnswerDropped(c)
    PROVE  Carried'
<1>1. UNCHANGED <<sessionVars, page, ui, pending, staged, entries, inbox, fills, saves>>
  BY DEF AnswerDropped
<1>2. Steady
  BY <1>1, SameSites
<1>. QED  BY <1>1, <1>2, DoneKeeps, StillKept DEF AnswerDropped

\* A call whose answer a page handles is one of its own.
LEMMA AnsweredCall ==
    ASSUME Carried, NEW c \in Slots, ~Free(c), NEW op, Replying(c, op)
    PROVE  /\ CallGood(call[c], page, pending, Len(entries))
           /\ call[c].tab \in Tabs /\ call[c].op = op /\ call[c].pc = "reply" /\ call[c].live
           /\ call[c].from = page[call[c].tab].host
BY DEF Carried, CallsGood, CallGood, Replying

LEMMA SuggestionsKeep ==
    ASSUME Carried, NEW c \in Slots, ~Free(c), SuggestionsAnswered(c)
    PROVE  Carried'
<1> DEFINE k == call[c]
           content == CASE k.status \in {"closed", "error"} -> "error"
                        [] k.status = "ready" -> "list"
                        [] OTHER -> k.status
           r == [pop |-> InPopover(k.tab, content)]
<1>1. CallGood(k, page, pending, Len(entries)) /\ k.tab \in Tabs /\ k.op = "suggest"
      /\ k.pc = "reply"
  BY AnsweredCall DEF SuggestionsAnswered
<1>2. k.status \in Popovers \cup {"closed", "ready"}
  BY <1>1 DEF CallGood, RightPlace
<1>3. content \in Popovers
  BY <1>2 DEF Popovers
<1>4. call' = Acknowledge(Done(c), k.ack, k.tab) /\ PageSending(k.tab, r)
  BY DEF SuggestionsAnswered
<1> HIDE DEF content
<1>5. UiOk(r, k.tab)
  BY <1>3 DEF UiOk, UiFields, InPopover, Popovers
<1>6. Steady
  BY <1>4, SameSites DEF PageSending
<1> HIDE DEF r
<1>7. CallsGood'
  BY <1>4, <1>6, AckedDoneKeeps
<1>. QED  BY <1>1, <1>4, <1>5, <1>7, PageKept

LEMMA FillAnswerKeeps ==
    ASSUME Carried, NEW c \in Slots, ~Free(c), FillAnswered(c)
    PROVE  Carried'
<1> DEFINE k == call[c]
           t == k.tab
           shouldStage == ui[t].ctx /\ ~page[t].pw /\ page[t].step = "login"
           s == [op |-> IF shouldStage THEN "stage" ELSE "unstage", pc |-> "get", page |-> page[t]]
           stay == [pop |-> ui[t].pop]
           failed == [pop |-> InPopover(t, "error")]
<1>1. CallGood(k, page, pending, Len(entries)) /\ t \in Tabs /\ k.op = "fill"
  BY AnsweredCall DEF FillAnswered
<1>2. UiOk(stay, t) /\ UiOk(failed, t)
  BY <1>1 DEF UiOk, UiFields, InPopover, Popovers, Carried, PagesGood, UiGood
<1>3. \/ SetCall(c, s) /\ PageSending(t, stay)
      \/ call' = Done(c) /\ PageSending(t, failed)
  BY DEF FillAnswered
<1>4. Steady
  BY <1>3, SameSites DEF PageSending
<1>5. CASE SetCall(c, s) /\ PageSending(t, stay)
  <2> DEFINE j == call'[c]
  <2>1. DOMAIN s = {"op", "pc", "page"} /\ s.op \in {"stage", "unstage"} /\ s.pc = "get"
    OBVIOUS
  <2> HIDE DEF s
  <2>2. /\ DOMAIN call' = Slots /\ \A d \in Slots : d # c => call'[d] = call[d]
        /\ DOMAIN j = CallFields
        /\ \A x \in CallFields : j[x] = IF x \in DOMAIN s THEN s[x] ELSE k[x]
    BY <1>5, <2>1, CallChanged DEF CallFields
  <2>3. /\ j.op \in {"stage", "unstage"} /\ j.pc = "get" /\ j.tab = k.tab /\ j.live = k.live
        /\ j.entry = k.entry /\ j.from = k.from /\ j.pwd = k.pwd /\ j.late = k.late
    BY <2>1, <2>2 DEF CallFields
  <2> HIDE DEF j
  <2>4. CallGood(j, page, pending, Len(entries))
    BY <1>1, <2>2, <2>3 DEF CallGood, RightPlace
  <2>5. CallGood(call'[c], page', pending', Len(entries'))
    BY <1>5, <2>4 DEF PageSending, j
  <2>6. CallsGood'
    BY <1>4, <2>2, <2>5, OneCall
  <2>. QED  BY <1>1, <1>2, <1>5, <2>6, PageKept
<1>6. CASE call' = Done(c) /\ PageSending(t, failed)
  <2>1. CallsGood'
    BY <1>4, <1>6, DoneKeeps
  <2>. QED  BY <1>1, <1>2, <1>6, <2>1, PageKept
<1>. QED  BY <1>3, <1>5, <1>6

\* A fill from a call whose page is still there goes into the site it began on.
LEMMA CredentialsKeep ==
    ASSUME Carried, NEW c \in Slots, NEW via, FillCredentials(call[c].tab, via, call[c]),
           call[c].tab \in Tabs, call[c].late = FALSE,
           call[c].from = page[call[c].tab].host,
           UNCHANGED <<page, pending, entries>>
    PROVE  PagesGood' /\ FillsWhereChosen' /\ NoFillFromExpiredSession'
<1> DEFINE k == call[c]
           t == k.tab
           u == ui'[t]
<1>1. fills' = IF page[t].pw THEN fills \cup {Fill(t, via, k)} ELSE fills
  BY DEF FillCredentials
<1>2. Fill(t, via, k).host = Fill(t, via, k).from /\ ~Fill(t, via, k).late
  BY DEF Fill
<1>3. FillsWhereChosen' /\ NoFillFromExpiredSession'
  BY <1>1, <1>2 DEF Carried, FillsWhereChosen, NoFillFromExpiredSession
<1>4. DOMAIN ui = Tabs /\ UiGood(ui[t], t, page, pending)
  BY DEF Carried, PagesGood
<1>5. DOMAIN ui[t] = UiFields
  BY <1>4 DEF UiGood
<1>6. DOMAIN ui' = Tabs /\ \A v \in Tabs : v # t => ui'[v] = ui[v]
  BY <1>4 DEF FillCredentials
<1>7. \E f, p, b :
         /\ ui' = [ui EXCEPT ![t].filled = f, ![t].pop = p, ![t].banner = b]
         /\ p \in {ui[t].pop, "hidden", "error"} /\ b \in {ui[t].banner, "status"}
  BY <1>4, <1>5 DEF FillCredentials, InPopover, UiFields
<1>8. /\ DOMAIN u = UiFields /\ u.shown = ui[t].shown
      /\ u.pop \in {ui[t].pop, "hidden", "error"} /\ u.banner \in {ui[t].banner, "status"}
  BY <1>4, <1>5, <1>7 DEF UiFields
<1> HIDE DEF u
<1>9. UiGood(u, t, page, pending)
  BY <1>4, <1>8 DEF UiGood, Popovers, Banners
<1>10. Steady
  BY SameSites
<1>11. PagesGood'
  BY <1>6, <1>9, <1>10, PagesKept DEF Carried, u
<1>. QED  BY <1>3, <1>11

\* A step that fills nothing.
LEMMA FillsSame ==
    ASSUME Carried, fills' = fills
    PROVE  FillsWhereChosen' /\ NoFillFromExpiredSession'
BY DEF Carried, FillsWhereChosen, NoFillFromExpiredSession

LEMMA FillAnswersKeep ==
    ASSUME Carried, NEW c \in Slots, ~Free(c), StageAnswered(c) \/ StagedAnswered(c)
    PROVE  Carried'
<1> DEFINE k == call[c]
           t == k.tab
           failed == [pop |-> InPopover(t, "error")]
           told == [banner |-> "status"]
<1>1. CallGood(k, page, pending, Len(entries)) /\ t \in Tabs /\ k.from = page[t].host
  BY AnsweredCall DEF StageAnswered, StagedAnswered
<1>2. k.late = FALSE
  BY <1>1 DEF CallGood
<1>3. /\ call' = Done(c)
      /\ UNCHANGED <<sessionVars, page, pending, staged, entries, inbox, saves>>
  BY DEF StageAnswered, StagedAnswered
<1>4. Steady
  BY <1>3, SameSites
<1>5. UiOk(failed, t) /\ UiOk(told, t)
  BY <1>1 DEF UiOk, UiFields, InPopover, Popovers, Banners
<1>6. \/ SetUi(t, failed) /\ UNCHANGED fills
      \/ SetUi(t, told) /\ UNCHANGED fills
      \/ UNCHANGED <<ui, fills>>
      \/ \E via \in {"inline", "staged"} : FillCredentials(t, via, k)
  BY DEF StageAnswered, StagedAnswered
<1>7. PagesGood' /\ FillsWhereChosen' /\ NoFillFromExpiredSession'
  <2>1. CASE SetUi(t, failed) /\ UNCHANGED fills
    <3>1. PagesGood'
      BY <1>1, <1>4, <1>5, <2>1, PagesWritten
    <3>. QED  BY <2>1, <3>1, FillsSame
  <2>2. CASE SetUi(t, told) /\ UNCHANGED fills
    <3>1. PagesGood'
      BY <1>1, <1>4, <1>5, <2>2, PagesWritten
    <3>. QED  BY <2>2, <3>1, FillsSame
  <2>3. CASE UNCHANGED <<ui, fills>>
    <3>1. PagesGood'
      BY <1>3, <2>3 DEF Carried, PagesGood
    <3>. QED  BY <2>3, <3>1, FillsSame
  <2>4. CASE \E via \in {"inline", "staged"} : FillCredentials(t, via, k)
    BY <1>1, <1>2, <1>3, <2>4, CredentialsKeep
  <2>. QED  BY <1>6, <2>1, <2>2, <2>3, <2>4
<1>8. CallsGood'
  BY <1>3, <1>4, DoneKeeps
<1>. QED  BY <1>3, <1>7, <1>8 DEF Carried, Types, SessionTypeOK, sessionVars, PendingGood,
            SaveKeepsSite

LEMMA SmallAnswersKeep ==
    ASSUME Carried, NEW c \in Slots, ~Free(c), DirectFillAnswered(c) \/ SaveAnswered(c)
    PROVE  Carried'
<1> DEFINE k == call[c]
           t == k.tab
<1>1. t \in Tabs
  BY AnsweredCall DEF DirectFillAnswered, SaveAnswered
<1>2. ui[t].banner \in Banners
  BY <1>1 DEF Carried, PagesGood, UiGood
<1>3. PICK r : UiOk(r, t) /\ PageSending(t, r)
  <2>1. UiOk([banner |-> ui[t].banner], t)
    BY <1>2 DEF UiOk, UiFields
  <2>2. UiOk([filled |-> [acct |-> k.rec.acct, secret |-> k.rec.secret, old |-> FALSE]], t)
    BY DEF UiOk, UiFields
  <2>3. UiOk([banner |-> "status", hideTimer |-> TRUE], t) /\ UiOk([banner |-> "status"], t)
    BY DEF UiOk, UiFields, Banners
  <2>4. CASE DirectFillAnswered(c)
    BY <2>1, <2>2, <2>4 DEF DirectFillAnswered
  <2>5. CASE SaveAnswered(c)
    BY <2>1, <2>3, <2>5 DEF SaveAnswered
  <2>. QED  BY <2>4, <2>5
<1>4. call' = Done(c)
  BY DEF DirectFillAnswered, SaveAnswered
<1>5. Steady
  BY <1>3, SameSites DEF PageSending
<1>6. CallsGood'
  BY <1>4, <1>5, DoneKeeps
<1>. QED  BY <1>1, <1>3, <1>6, PageKept

\* Once unlocked, the save begins with the login that is pending now.
LEMMA UnlockAnswerKeeps ==
    ASSUME Carried, NEW c \in Slots, ~Free(c), UnlockAnswered(c)
    PROVE  Carried'
<1> DEFINE k == call[c]
           t == k.tab
           s == SaveCall(t)
<1>1. t \in Tabs
  BY AnsweredCall DEF UnlockAnswered
<1>2. ui[t].banner \in Banners
  BY <1>1 DEF Carried, PagesGood, UiGood
<1>3. PICK b \in Banners :
         /\ PageSending(t, [banner |-> b])
         /\ Enter(c, s) \/ call' = Done(c)
  <2>1. CASE k.status = "ready"
    BY <1>2, <2>1 DEF UnlockAnswered
  <2>2. CASE k.status # "ready"
    BY <1>2, <2>2 DEF UnlockAnswered, Banners
  <2>. QED  BY <2>1, <2>2
<1>4. UiOk([banner |-> b], t)
  BY DEF UiOk, UiFields
<1>5. UNCHANGED <<page, pending, entries>>
  BY <1>3 DEF PageSending
<1>6. Steady
  BY <1>5, SameSites
<1>7. CallGood(s, page', pending', Len(entries'))
  BY <1>1, <1>5, SaveCallGood
<1> HIDE DEF s
<1>8. CASE Enter(c, s)
  <2>1. CallsGood'
    BY <1>6, <1>7, <1>8, EnterKeeps DEF Enter, Carried, CallsGood
  <2>. QED  BY <1>1, <1>3, <1>4, <2>1, PageKept
<1>9. CASE call' = Done(c)
  <2>1. CallsGood'
    BY <1>6, <1>9, DoneKeeps
  <2>. QED  BY <1>1, <1>3, <1>4, <2>1, PageKept
<1>. QED  BY <1>3, <1>8, <1>9

\* A prompt shows a login of the site of its page.
LEMMA PromptAnswerKeeps ==
    ASSUME Carried, NEW c \in Slots, ~Free(c), PromptAnswered(c)
    PROVE  Carried'
<1> DEFINE k == call[c]
           t == k.tab
           id == FindExistingEntry(k.hydrated, k.rec)
           shown == [id |-> id, title |-> IF id # 0 THEN entries[id].title ELSE k.rec.host,
                     host |-> k.rec.host, acct |-> k.rec.acct]
           banner == CASE k.status = "ready" -> "prompt"
                       [] k.status = "locked" -> "unlock"
                       [] k.status = "disconnected" -> "settings"
                       [] OTHER -> "setup"
           r == CASE k.status = "closed" -> [banner |-> ui[t].banner]
                  [] k.status \in {"none", "error"} -> [banner |-> "none", shown |-> NoRec]
                  [] OTHER -> [banner |-> banner, shown |-> shown]
           n == NewCall("suggest", t)
           again == [n EXCEPT !.ack = k.ack]
<1>1. /\ CallGood(k, page, pending, Len(entries)) /\ t \in Tabs /\ k.op = "prompt"
      /\ k.live /\ k.from = page[t].host
  BY AnsweredCall DEF PromptAnswered
<1>2. k.rec.host = page[t].host /\ Here(t, page, pending)
  BY <1>1 DEF CallGood
<1>3. \/ /\ Enter(c, again) /\ PageSending(t, Over([pop |-> "checking"], r))
      \/ /\ call' = Acknowledge(Done(c), k.ack, t) /\ PageSending(t, r)
  BY DEF PromptAnswered
<1>4. UiOk(r, t)
  <2>1. banner \in Banners /\ shown.host = k.rec.host
    BY DEF Banners
  <2> HIDE DEF banner, shown
  <2>2. UiOk([banner |-> ui[t].banner], t)
    BY <1>1 DEF UiOk, UiFields, Carried, PagesGood, UiGood
  <2>3. UiOk([banner |-> "none", shown |-> NoRec], t)
    BY DEF UiOk, UiFields, Banners
  <2>4. UiOk([banner |-> banner, shown |-> shown], t)
    BY <1>2, <2>1 DEF UiOk, UiFields
  <2>. QED  BY <2>2, <2>3, <2>4
<1> HIDE DEF r
<1>5. Steady
  BY <1>3, SameSites DEF PageSending
<1>6. CASE Enter(c, again) /\ PageSending(t, Over([pop |-> "checking"], r))
  <2> DEFINE q == Over([pop |-> "checking"], r)
  <2>1. /\ DOMAIN q = {"pop"} \cup DOMAIN r /\ q.pop = "checking"
        /\ "banner" \in DOMAIN r => q.banner = r.banner
        /\ "shown" \in DOMAIN r => q.shown = r.shown
    BY DEF Over
  <2> HIDE DEF q
  <2>2. UiOk(q, t)
    BY <1>4, <2>1 DEF UiOk, UiFields, Popovers
  <2>3. DOMAIN n = CallFields /\ CallGood(n, page, pending, Len(entries)) /\ n.live = TRUE
    BY <1>1, NewCallGood DEF NewCall
  <2> HIDE DEF n
  <2>4. /\ DOMAIN again = DOMAIN n /\ again.live = n.live
        /\ \A x \in CallFields \ {"live", "ack"} : again[x] = n[x]
    BY <2>3 DEF CallFields
  <2> HIDE DEF again
  <2>5. n.tab \in Tabs
    BY <2>3 DEF CallGood
  <2>6. CallGood(again, page', pending', Len(entries'))
    BY <1>5, <2>3, <2>4, <2>5, CallKept DEF Steady
  <2>7. CallsGood'
    BY <1>5, <1>6, <2>6, EnterKeeps DEF Enter, Carried, CallsGood
  <2>. QED  BY <1>1, <1>6, <2>2, <2>7, PageKept DEF q
<1>7. CASE call' = Acknowledge(Done(c), k.ack, t) /\ PageSending(t, r)
  <2>1. CallsGood'
    BY <1>5, <1>7, AckedDoneKeeps
  <2>. QED  BY <1>1, <1>4, <1>7, <2>1, PageKept
<1>. QED  BY <1>3, <1>6, <1>7

-----------------------------------------------------------------------------
(* Pages come and go *)

\* When the page of a tab goes, its calls are cut off.
LEMMA CutOff ==
    ASSUME Carried, NEW t \in Tabs, NEW c \in Slots, ~Free(c), NEW j,
           j = [call[c] EXCEPT !.live = @ /\ call[c].tab # t,
                               !.ack = IF call[c].op = "unlock" THEN @ \ {t} ELSE @],
           \A u \in Tabs : u # t => page'[u] = page[u] /\ pending'[u] = pending[u],
           Len(entries') = Len(entries)
    PROVE  CallGood(j, page', pending', Len(entries'))
<1> DEFINE k == call[c]
<1>1. CallGood(k, page, pending, Len(entries))
  BY DEF Carried, CallsGood
<1>2. DOMAIN k = CallFields /\ k.live \in BOOLEAN /\ k.tab \in Tabs
  BY <1>1 DEF CallGood
<1>3. DOMAIN j = DOMAIN k /\ \A x \in CallFields \ {"live", "ack"} : j[x] = k[x]
  BY <1>2
<1>4. j.live = (k.live /\ k.tab # t)
  BY <1>2 DEF CallFields
<1>5. j.live \in BOOLEAN
  BY <1>2, <1>4
<1>6. j.live => /\ k.live /\ page'[k.tab].host = page[k.tab].host
                /\ Here(k.tab, page, pending) => Here(k.tab, page', pending')
  BY <1>2, <1>4 DEF Here
<1> HIDE DEF k
<1>7. /\ j.op = k.op /\ j.tab = k.tab /\ j.pc = k.pc /\ j.status = k.status
      /\ j.pwd = k.pwd /\ j.entry = k.entry /\ j.from = k.from /\ j.rec = k.rec
      /\ j.map = k.map /\ j.late = k.late
  BY <1>3 DEF CallFields
<1>8. RightPlace(j)
  BY <1>1, <1>7 DEF CallGood, RightPlace
<1>. QED  BY <1>1, <1>3, <1>5, <1>6, <1>7, <1>8 DEF CallGood

LEMMA FreshUiGood ==
    ASSUME NEW t, NEW pg, NEW pn
    PROVE  /\ UiGood(FreshUi, t, pg, pn)
           /\ UiGood([FreshUi EXCEPT !.stagedTimer = FALSE, !.checks = 0], t, pg, pn)
           /\ UiGood([FreshUi EXCEPT !.stagedTimer = FALSE, !.checks = 1, !.ctx = TRUE, !.pop = "locked"], t, pg, pn)
BY DEF FreshUi, UiGood, UiFields, Popovers, Banners, Statuses

LEMMA NavigateKeeps ==
    ASSUME Carried, NEW t \in Tabs, NEW p \in Pages, Navigate(t, p)
    PROVE  Carried'
<1>1. /\ UNCHANGED <<sessionVars, pending, staged, entries, fills, saves>>
      /\ page' = [page EXCEPT ![t] = p] /\ ui' = [ui EXCEPT ![t] = FreshUi]
      /\ inbox' = {m \in inbox : m.tab # t}
      /\ DOMAIN call' = Slots
      /\ \A c \in Slots : call'[c] =
            IF Free(c) THEN NoCall
            ELSE [call[c] EXCEPT !.live = @ /\ call[c].tab # t,
                                 !.ack = IF call[c].op = "unlock" THEN @ \ {t} ELSE @]
  BY DEF Navigate, Leave
<1>2. /\ page \in [Tabs -> [host : Hosts, step : {"login", "home", "closed"}, pw : BOOLEAN]]
      /\ DOMAIN ui = Tabs
  BY DEF Carried, Types, PagesGood
<1>3. /\ page' \in [Tabs -> [host : Hosts, step : {"login", "home", "closed"}, pw : BOOLEAN]]
      /\ \A u \in Tabs : u # t => page'[u] = page[u] /\ pending'[u] = pending[u]
  BY <1>1, <1>2 DEF Pages
<1>4. CallsGood'
  <2> SUFFICES ASSUME NEW c \in Slots, call'[c] # NoCall
               PROVE  CallGood(call'[c], page', pending', Len(entries'))
    BY <1>1 DEF CallsGood, Free
  <2>1. ~Free(c)
    BY <1>1
  <2>. QED  BY <1>1, <1>3, <2>1, CutOff
<1>5. PagesGood'
  <2> SUFFICES ASSUME NEW u \in Tabs PROVE UiGood(ui'[u], u, page', pending')
    BY <1>1, <1>2 DEF PagesGood
  <2>1. CASE u = t
    BY <1>1, <1>2, <2>1, FreshUiGood
  <2>2. CASE u # t
    BY <1>1, <1>2, <1>3, <2>2 DEF Carried, PagesGood, UiGood, Here
  <2>. QED  BY <2>1, <2>2
<1>6. Types'
  BY <1>1, <1>3 DEF Carried, Types, SessionTypeOK, sessionVars
<1>. QED  BY <1>1, <1>4, <1>5, <1>6 DEF Carried, PendingGood, FillsWhereChosen,
            NoFillFromExpiredSession, SaveKeepsSite

LEMMA LocationKeeps ==
    ASSUME Carried, NEW t \in Tabs, NEW p \in Pages, LocationChange(t, p)
    PROVE  Carried'
<1> DEFINE r == [stagedTimer |-> TRUE, checks |-> 2, pop |-> "hidden"]
<1>1. /\ UNCHANGED <<sessionVars, pending, staged, entries, call, inbox, fills, saves>>
      /\ page' = [page EXCEPT ![t] = p] /\ p.host = page[t].host /\ SetUi(t, r)
  BY DEF LocationChange
<1>2. page \in [Tabs -> [host : Hosts, step : {"login", "home", "closed"}, pw : BOOLEAN]]
  BY DEF Carried, Types
<1>3. /\ page' \in [Tabs -> [host : Hosts, step : {"login", "home", "closed"}, pw : BOOLEAN]]
      /\ \A u \in Tabs : page'[u].host = page[u].host
  BY <1>1, <1>2 DEF Pages
<1>4. Steady
  BY <1>1, <1>3, EntriesCount DEF Steady, Here
<1>5. UiOk(r, t)
  BY DEF UiOk, UiFields, Popovers
<1>6. PagesGood'
  BY <1>1, <1>4, <1>5, PagesWritten
<1>7. CallsGood'
  BY <1>1, <1>4, CallsKept DEF Carried, CallsGood
<1>8. Types'
  BY <1>1, <1>3 DEF Carried, Types, SessionTypeOK, sessionVars
<1>. QED  BY <1>1, <1>6, <1>7, <1>8 DEF Carried, PendingGood, FillsWhereChosen,
            NoFillFromExpiredSession, SaveKeepsSite

LEMMA RemovedKeeps ==
    ASSUME Carried, NEW t \in Tabs, NEW c \in Slots, TabRemoved(t, c)
    PROVE  Carried'
<1> DEFINE n == NewCall("unstage", t)
           k == [n EXCEPT !.pc = "get", !.live = FALSE]
<1>1. /\ UNCHANGED <<sessionVars, staged, entries, fills, saves>>
      /\ page' = [page EXCEPT ![t].step = "closed", ![t].pw = FALSE]
      /\ ui' = [ui EXCEPT ![t] = [FreshUi EXCEPT !.stagedTimer = FALSE, !.checks = 0]]
      /\ pending' = [pending EXCEPT ![t] = NoRec]
      /\ inbox' = {m \in inbox : m.tab # t}
      /\ DOMAIN call' = Slots
      /\ \A d \in Slots : call'[d] =
            IF d = c THEN k
            ELSE IF Free(d) THEN NoCall
            ELSE [call[d] EXCEPT !.live = @ /\ call[d].tab # t,
                                 !.ack = IF call[d].op = "unlock" THEN @ \ {t} ELSE @]
  BY DEF TabRemoved
<1>2. /\ page \in [Tabs -> [host : Hosts, step : {"login", "home", "closed"}, pw : BOOLEAN]]
      /\ DOMAIN ui = Tabs /\ DOMAIN pending = Tabs
  BY DEF Carried, Types, PagesGood, PendingGood
<1>3. /\ page' \in [Tabs -> [host : Hosts, step : {"login", "home", "closed"}, pw : BOOLEAN]]
      /\ \A u \in Tabs : u # t => page'[u] = page[u] /\ pending'[u] = pending[u]
  <2>1. \E p : /\ page' = [page EXCEPT ![t] = p]
               /\ p \in [host : Hosts, step : {"login", "home", "closed"}, pw : BOOLEAN]
    <3> DEFINE P == [host : Hosts, step : {"login", "home", "closed"}, pw : BOOLEAN]
               p == [page[t] EXCEPT !.step = "closed", !.pw = FALSE]
    <3>1. page' = [page EXCEPT ![t] = p]
      BY <1>1, <1>2
    <3>2. page[t] \in P
      BY <1>2
    <3>3. p \in P
      BY <3>2
    <3>. QED  BY <3>1, <3>3
  <2>2. \A u \in Tabs : u # t => pending'[u] = pending[u]
    BY <1>1, <1>2
  <2>. QED  BY <1>2, <2>1, <2>2
<1>4. CallGood(k, page', pending', Len(entries'))
  <2>1. DOMAIN n = CallFields /\ CallGood(n, page, pending, Len(entries)) /\ n.op = "unstage"
    BY NewCallGood
  <2> HIDE DEF n
  <2>2. /\ DOMAIN k = CallFields /\ k.pc = "get" /\ k.op = n.op /\ k.tab = n.tab
        /\ k.live = FALSE /\ k.entry = n.entry /\ k.pwd = n.pwd /\ k.late = n.late
    BY <2>1 DEF CallFields
  <2> HIDE DEF k
  <2>. QED  BY <1>1, <2>1, <2>2 DEF CallGood, RightPlace
<1> HIDE DEF k
<1>5. CallsGood'
  <2> SUFFICES ASSUME NEW d \in Slots, call'[d] # NoCall
               PROVE  CallGood(call'[d], page', pending', Len(entries'))
    BY <1>1 DEF CallsGood, Free
  <2>1. CASE d = c
    BY <1>1, <1>4, <2>1
  <2>2. CASE d # c
    <3>1. ~Free(d)
      BY <1>1, <2>2
    <3>2. call'[d] = [call[d] EXCEPT !.live = @ /\ call[d].tab # t,
                          !.ack = IF call[d].op = "unlock" THEN @ \ {t} ELSE @]
      BY <1>1, <2>2, <3>1
    <3>3. /\ \A u \in Tabs : u # t => page'[u] = page[u] /\ pending'[u] = pending[u]
          /\ Len(entries') = Len(entries)
      BY <1>1, <1>3
    <3>. QED  BY <3>1, <3>2, <3>3, CutOff
  <2>. QED  BY <2>1, <2>2
<1>6. PagesGood'
  <2> SUFFICES ASSUME NEW u \in Tabs PROVE UiGood(ui'[u], u, page', pending')
    BY <1>1, <1>2 DEF PagesGood
  <2>1. CASE u = t
    BY <1>1, <1>2, <2>1, FreshUiGood
  <2>2. CASE u # t
    BY <1>1, <1>2, <1>3, <2>2 DEF Carried, PagesGood, UiGood, Here
  <2>. QED  BY <2>1, <2>2
<1>7. PendingGood'
  BY <1>1 DEF Carried, PendingGood
<1>8. Types'
  BY <1>1, <1>3 DEF Carried, Types, SessionTypeOK, sessionVars
<1>. QED  BY <1>1, <1>5, <1>6, <1>7, <1>8 DEF Carried, FillsWhereChosen,
            NoFillFromExpiredSession, SaveKeepsSite

LEMMA TimeKeeps ==
    ASSUME Carried, NEW t \in Tabs, TimePasses(t)
    PROVE  Carried'
<1>1. UNCHANGED <<sessionVars, page, entries, call, inbox, fills, saves>>
  BY DEF TimePasses
<1>2. CASE /\ pending[t] # NoRec /\ pending' = [pending EXCEPT ![t].old = TRUE]
           /\ UNCHANGED <<staged, ui>>
  <2>1. /\ DOMAIN pending' = Tabs /\ \A u \in Tabs : u # t => pending'[u] = pending[u]
        /\ pending'[t] = [pending[t] EXCEPT !.old = TRUE] /\ DOMAIN pending[t] = LoginFields
        /\ pending[t].tab = t
    BY <1>2 DEF Carried, PendingGood
  <2>2. /\ DOMAIN pending'[t] = LoginFields /\ pending'[t].tab = t
        /\ pending'[t].host = pending[t].host
    BY <2>1 DEF LoginFields
  <2>3. PendingGood'
    BY <2>1, <2>2 DEF Carried, PendingGood
  <2>4. Steady
    BY <1>1, <1>2, <2>1, <2>2, EntriesCount DEF Steady, Here
  <2>5. CallsGood'
    BY <1>1, <2>4, CallsKept DEF Carried, CallsGood
  <2>6. PagesGood'
    BY <1>2, <2>4, PagesKept DEF Carried, PagesGood
  <2>7. Types'
    BY <1>1, <1>2 DEF Carried, Types, SessionTypeOK, sessionVars
  <2>. QED  BY <1>1, <2>3, <2>5, <2>6, <2>7 DEF Carried, FillsWhereChosen,
              NoFillFromExpiredSession, SaveKeepsSite
<1>3. CASE /\ staged[t] # NoRec /\ staged' = [staged EXCEPT ![t].old = TRUE]
           /\ UNCHANGED <<pending, ui>>
  <2>1. /\ DOMAIN staged' = Tabs /\ \A u \in Tabs : u # t => staged'[u] = staged[u]
        /\ staged'[t] = [staged[t] EXCEPT !.old = TRUE]
        /\ DOMAIN staged[t] = {"entry", "host", "old"} /\ staged[t].entry \in 0 .. Len(entries)
    BY <1>3 DEF Carried, Types, StagedGood
  <2>2. DOMAIN staged'[t] = {"entry", "host", "old"} /\ staged'[t].entry = staged[t].entry
    BY <2>1
  <2>3. StagedGood(staged', Len(entries))
    BY <2>1, <2>2 DEF Carried, Types, StagedGood
  <2>4. CallsGood'
    BY <1>1, <1>3 DEF Carried, CallsGood, Free
  <2>. QED  BY <1>1, <1>3, <2>3, <2>4, Behind DEF sessionVars, SessionTypeOK, Carried, Types
<1>4. CASE ui' = [ui EXCEPT ![t].filled.old = TRUE] /\ UNCHANGED <<pending, staged>>
  <2>1. DOMAIN ui = Tabs /\ DOMAIN ui[t] = UiFields /\ UiGood(ui[t], t, page, pending)
    BY DEF Carried, PagesGood, UiGood
  <2>2. /\ DOMAIN ui' = Tabs /\ \A u \in Tabs : u # t => ui'[u] = ui[u]
        /\ DOMAIN ui'[t] = UiFields /\ ui'[t].pop = ui[t].pop /\ ui'[t].banner = ui[t].banner
        /\ ui'[t].shown = ui[t].shown
    BY <1>4, <2>1 DEF UiFields
  <2>3. UiGood(ui'[t], t, page, pending)
    BY <2>1, <2>2 DEF UiGood
  <2>4. PagesGood'
    BY <1>1, <1>4, <2>2, <2>3 DEF Carried, PagesGood
  <2>5. CallsGood'
    BY <1>1, <1>4 DEF Carried, CallsGood, Free
  <2>6. Types'
    BY <1>1, <1>4 DEF Carried, Types, SessionTypeOK, sessionVars
  <2>. QED  BY <1>1, <1>4, <2>4, <2>5, <2>6 DEF Carried, PendingGood, FillsWhereChosen,
              NoFillFromExpiredSession, SaveKeepsSite
<1>. QED  BY <1>2, <1>3, <1>4 DEF TimePasses, Grows

-----------------------------------------------------------------------------
(* The theorems *)

LEMMA InitCarried == Init => IInv
<1> SUFFICES ASSUME Init PROVE IInv
  OBVIOUS
<1>1. PICK h \in Hosts, a \in Accounts :
         entries = <<[title |-> h, host |-> h, acct |-> a, secret |-> 0]>>
  BY DEF Init
<1>2. entries \in Seq(Range(entries)) /\ Len(entries) = 1
  <2> DEFINE e == [title |-> h, host |-> h, acct |-> a, secret |-> 0]
  <2>1. entries = <<e>>
    BY <1>1
  <2> HIDE DEF e
  <2>2. entries \in [1 .. 1 -> {e}]
    BY <2>1
  <2>. QED  BY <2>2, OwnRange
<1>3. SessionTypeOK /\ token \in BOOLEAN
  <2>1. account \in {1, 0} /\ pass \in {1, 0}
    BY DEF Init, Unset, NoPass
  <2>2. 1 \in Passwords
    BY NerveSessionAssumption DEF Passwords
  <2>3. token \in BOOLEAN
    BY DEF Init
  <2>4. timer \in {"off", "armed", "due"}
    BY DEF Init
  <2>. QED  BY <2>1, <2>2, <2>3, <2>4 DEF SessionTypeOK, Unset, NoPass
<1>4. NothingSubmitted \/ JustSubmitted
  BY DEF Init
<1>5. /\ page \in [Tabs -> [host : Hosts, step : {"login", "home", "closed"}, pw : BOOLEAN]]
      /\ events \in 0 .. MaxEvents /\ PagesGood /\ PendingGood
  <2>1. CASE NothingSubmitted
    <3>1. PagesGood
      BY <2>1, FreshUiGood DEF NothingSubmitted, Idle, PagesGood
    <3>. QED  BY <2>1, <3>1, NerveContentAssumption DEF NothingSubmitted, PendingGood
  <2>2. CASE JustSubmitted
    <3>1. PICK g \in Hosts, b \in Accounts, u \in Tabs :
        /\ page = [t \in Tabs |-> [host |-> g, step |-> "home", pw |-> TRUE]]
        /\ ui = [t \in Tabs |-> IF t # u THEN Idle
                        ELSE [Idle EXCEPT !.checks = 1, !.ctx = TRUE, !.pop = "locked"]]
        /\ events = 1
        /\ pending = [t \in Tabs |-> IF t # u THEN NoRec
                        ELSE [tab |-> t, host |-> g, step |-> "login", acct |-> b,
                              secret |-> 0, old |-> FALSE]]
      BY <2>2 DEF JustSubmitted
    <3>2. [Idle EXCEPT !.checks = 1, !.ctx = TRUE, !.pop = "locked"]
          = [FreshUi EXCEPT !.stagedTimer = FALSE, !.checks = 1, !.ctx = TRUE, !.pop = "locked"]
      BY DEF Idle, FreshUi
    <3>3. PagesGood
      BY <3>1, <3>2, FreshUiGood DEF Idle, PagesGood
    <3>4. PendingGood
      BY <3>1 DEF PendingGood, LoginFields
    <3>. QED  BY <3>1, <3>3, <3>4, NerveContentAssumption
  <2>. QED  BY <1>4, <2>1, <2>2
<1>6. CallsGood
  BY DEF Init, CallsGood, Free
<1>7. StagedGood(staged, Len(entries))
  BY DEF Init, StagedGood
<1>. QED  BY <1>2, <1>3, <1>5, <1>6, <1>7 DEF Init, IInv, Carried, Types, FillsWhereChosen,
            NoFillFromExpiredSession, SaveKeepsSite

LEMMA BackgroundKeeps ==
    ASSUME Carried, NEW c \in Slots, Background(c)
    PROVE  Carried'
BY ListKeeps, UnwrapKeeps, EntryKeeps, StoreKeeps, MapReadKeeps, MapWriteKeeps, UnlockKeeps
   DEF Background

LEMMA AnsweredKeeps ==
    ASSUME Carried, NEW c \in Slots, Answered(c)
    PROVE  Carried'
BY DroppedKeeps, SuggestionsKeep, FillAnswerKeeps, FillAnswersKeep, SmallAnswersKeep,
   PromptAnswerKeeps, UnlockAnswerKeeps DEF Answered

LEMMA TimersKeep ==
    ASSUME Carried, Timers
    PROVE  Carried'
<1>1. OpenTabs \subseteq Tabs
  BY DEF OpenTabs
<1>. QED  BY <1>1, DeadlineKeeps, TimerKeeps, FocusKeeps, CheckKeeps, ResolveKeeps,
            SessionChangeKeeps DEF Timers

LEMMA UserKeeps ==
    ASSUME Carried, NEW t \in Tabs, UserAction(t)
    PROVE  Carried'
BY FocusKeeps, DismissKeeps, SubmitKeeps, NavigateKeeps, LocationKeeps, ButtonKeeps,
   SaveActionKeeps, UnlockActionKeeps, FillActionKeeps, DirectFillKeeps, RemovedKeeps
   DEF UserAction

LEMMA InputKeeps ==
    ASSUME Carried, Input
    PROVE  Carried'
<1>1. OpenTabs \subseteq Tabs
  BY DEF OpenTabs
<1>. QED  BY <1>1, PasswordKeeps, StopKeeps, FailureKeeps, TimeKeeps, UserKeeps DEF Input

LEMMA NextCarried == IInv /\ [Next]_vars => IInv'
<1> SUFFICES ASSUME IInv, [Next]_vars PROVE IInv'
  OBVIOUS
<1>1. Carried /\ events \in 0 .. MaxEvents
  BY DEF IInv
<1>2. CASE Timers
  BY <1>1, <1>2, TimersKeep DEF IInv, Timers
<1>3. CASE Input
  BY <1>1, <1>3, InputKeeps, NerveContentAssumption DEF IInv, Input
<1>4. ASSUME NEW c \in Slots, Background(c) \/ Answered(c) PROVE IInv'
  BY <1>1, <1>4, BackgroundKeeps, AnsweredKeeps DEF IInv, Background, Answered
<1>5. CASE UNCHANGED vars
  <2>1. UNCHANGED <<sessionVars, page, ui, pending, staged, entries, inbox, fills, saves>>
        /\ UNCHANGED <<call, events>>
    BY <1>5 DEF vars, contentVars
  <2>2. CallsGood'
    BY <1>1, <2>1 DEF Carried, CallsGood, Free
  <2>. QED  BY <1>1, <2>1, <2>2, StillKept DEF IInv
<1>. QED  BY <1>2, <1>3, <1>4, <1>5 DEF Next

\* Whatever is loaded, staged, locked, stopped or answered late in between, a call
\* of the extension belongs to the site its tab shows, or its answer is dropped.
THEOREM ContentInvariance == Spec => []IInv
<1>. QED  BY InitCarried, NextCarried, PTL DEF Spec

\* A password is filled into a page of the site where the user chose it (fillEntry,
\* resolveStagedFill), and every record of a call is well formed.
THEOREM FillsStayOnSite == Spec => []FillsHold
<1>1. IInv => FillsHold
  <2> SUFFICES ASSUME IInv PROVE FillsHold
    OBVIOUS
  <2>1. \A t \in Tabs : page[t].host \in Hosts /\ ui[t].pop \in Popovers /\ ui[t].banner \in Banners
    BY DEF IInv, Carried, Types, PagesGood, UiGood
  <2>2. \A m \in inbox : m.tab \in Tabs /\ m.status \in {"locked", "unlocked"}
    BY DEF IInv, Carried, Types, Message
  <2>3. \A c \in Slots : ~Free(c) => call[c].tab \in Tabs /\ call[c].entry \in 0 .. Len(entries)
    BY DEF IInv, Carried, CallsGood, CallGood
  <2>. QED  BY <2>1, <2>2, <2>3 DEF IInv, Carried, Types, FillsHold, TypeOK
<1>. QED  BY <1>1, ContentInvariance, PTL

\* Nothing is filled from a session whose deadline had passed when its passphrase
\* was read (expireSessionPassphraseIfNeeded).
THEOREM ExpiredFillsNothing == Spec => []NoFillFromExpiredSession
<1>1. IInv => NoFillFromExpiredSession
  BY DEF IInv, Carried
<1>. QED  BY <1>1, ContentInvariance, PTL

\* A login is stored under the site it was submitted on, from the tab it was
\* submitted in (savePendingEntry).
THEOREM SavesStayOnSite == Spec => []SaveKeepsSite
<1>1. IInv => SaveKeepsSite
  BY DEF IInv, Carried
<1>. QED  BY <1>1, ContentInvariance, PTL
=============================================================================
