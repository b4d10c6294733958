---------------------------- MODULE NerveContent ----------------------------
(***************************************************************************)
(* Inline fill, staged fill and save-login prompt of the Nerve extension:  *)
(* the content script of every tab (content.js) talking to the background  *)
(* worker (background.js, lib/storage.js).                                 *)
(*                                                                         *)
(* A message from a page is a call, held in a slot until its answer is     *)
(* delivered.  The background runs a call up to its next await and then    *)
(* lets others run, so each call is a small program whose counter pc names *)
(* the await it is suspended at:                                           *)
(*   "list"    listEntries of getNerveSession                              *)
(*   "unwrap"  unwrapWithSecret with the passphrase read before            *)
(*   "entry"   getEntry of loadEntryCredentials                            *)
(*   "write"   createEntry or updateEntry                                  *)
(*   "get","set"  the read and the write of the map of staged fills        *)
(*   "bcast"   unlockSession waiting for the tabs it told                  *)
(*   "arm"     between sessionPassphrase = ... and the new deadline        *)
(*   "reply"   the answer is on its way to the page                        *)
(* A message that the background answers without such an await is one step *)
(* with its answer.                                                        *)
(***************************************************************************)
EXTENDS NerveSession, SequencesExt, FiniteSetsExt

CONSTANTS
    Tabs, Hosts, Accounts,  \* browser tabs, web sites, user names on them
    Slots,                  \* calls in flight at the same time
    NoRec,                  \* null
    MaxEvents               \* what the user does, what fails and how often
                            \* minutes pass, together

(* A behaviour may begin with a login just submitted, which is an event.   *)
ASSUME NerveContentAssumption == MaxEvents \in Nat \ {0}

VARIABLES
    page,       \* tab -> the document: host, step ("login" or "home"), and
                \* whether a password field is visible
    ui,         \* tab -> the content script's state and what it shows
    pending,    \* tab -> pendingLoginSaves, in the worker's memory
    staged,     \* tab -> stagedEntryFills, in chrome.storage.session
    entries,    \* server: the sequence of saved logins; the index is the id
    call,       \* slot -> call in flight
    inbox,      \* SESSION_CHANGED messages not yet handled by their tab
    events,     \* the inputs so far, bounded by MaxEvents
    fills,      \* history: every password put into a page
    saves       \* history: every login stored from a prompt

contentVars == <<page, ui, pending, staged, entries, call, inbox, fills, saves>>
vars == <<sessionVars, contentVars, events>>

NoCall == [op |-> "none", pc |-> "none"]
Free(c) == call[c] = NoCall
(* A new call takes the first free slot.                                   *)
Takes(c) == Free(c) /\ \A d \in Slots : d < c => ~Free(d)
Statuses == {"disconnected", "unconfigured", "locked", "ready"}

NewCall(op, t) ==
    [op |-> op, tab |-> t, live |-> TRUE, pc |-> "list", status |-> "none",
     pwd |-> NoPass, wrapped |-> Unset, hydrated |-> FALSE, entry |-> 0,
     page |-> page[t], from |-> page[t].host, rec |-> NoRec, map |-> NoRec,
     ack |-> {}, late |-> FALSE]

(* The script of a page that has just loaded.                              *)
FreshUi == [ctx |-> FALSE, pop |-> "hidden", banner |-> "none",
            shown |-> NoRec, filled |-> NoRec, stagedTimer |-> TRUE,
            checks |-> 1, hideTimer |-> FALSE]

(* The fields of r, and those of k that r lacks (@@ of TLC, by a definition*)
(* that the provers can expand).                                           *)
Over(r, k) ==
    [x \in DOMAIN r \cup DOMAIN k |-> IF x \in DOMAIN r THEN r[x] ELSE k[x]]

SetUi(t, r) == ui' = [ui EXCEPT ![t] = Over(r, @)]
SetCall(c, r) == call' = [call EXCEPT ![c] = Over(r, @)]

(* renderInlineState, and the two other contents of the popover.           *)
Popovers == {"hidden", "checking", "list", "error"} \cup (Statuses \ {"ready"})
(* renderPendingBanner and showBannerStatus.                               *)
Banners == {"none", "prompt", "unlock", "settings", "setup", "status"}

(* Ranking ---------------------------------------------------------------*)

(* findExistingEntry.  Without the key the list is not hydrated: titles,   *)
(* user names and sites of the entries are encrypted and match nothing.    *)
ExistingScore(e, login) ==
    (IF e.host = login.host THEN 50 ELSE 0) +
    (IF e.acct = login.acct THEN 40 ELSE 0) +
    (IF e.title = login.host THEN 10 ELSE 0)

FindExistingEntry(hydrated, login) ==
    LET score(i) == IF hydrated THEN ExistingScore(entries[i], login) ELSE 0
        best == {i \in DOMAIN entries :
                    /\ score(i) > 0
                    /\ \A j \in DOMAIN entries : score(j) <= score(i)}
    IN  IF best = {} THEN 0 ELSE Min(best)

EntryAllowedForPage(e, p) == e.host = p.host

(* shouldPromptForPendingSave.                                             *)
ShouldPromptForPendingSave(login, p) ==
    /\ p.host = login.host
    /\ ~p.pw \/ (p.step # login.step /\ p.step # "login")

OpenTabs == {t \in Tabs : page[t].step # "closed"}

(* Session changes --------------------------------------------------------*)

Broadcast(status, ack) ==
    inbox' = inbox \cup {[tab |-> t, status |-> status, ack |-> ack] : t \in OpenTabs}

LockAndBroadcast == ClearRuntimeSession /\ Broadcast("locked", {})

TimerFires ==
    /\ timer = "due"
    /\ LockAndBroadcast
    /\ UNCHANGED <<token, account, page, ui, pending, staged, entries, call,
                   fills, saves>>

(* The browser stops the worker: its variables, and with them the pending  *)
(* logins, are gone; the callers see a closed port.  chrome.storage.session*)
(* survives.                                                               *)
WorkerStops ==
    /\ \E c \in Slots : ~Free(c)
    /\ ClearRuntimeSession
    /\ pending' = [t \in Tabs |-> NoRec]
    /\ call' = [c \in Slots |-> IF Free(c) \/ ~call[c].live THEN NoCall
                ELSE [call[c] EXCEPT !.pc = "reply", !.status = "closed", !.ack = {}]]
    /\ inbox' = {[m EXCEPT !.ack = {}] : m \in inbox}
    /\ UNCHANGED <<token, account, page, ui, staged, entries,
                   fills, saves>>

(* Calls: the background's part ------------------------------------------*)

(* An answer, with what getNerveSession reported.                          *)
Answer(c, status) == SetCall(c, [pc |-> "reply", status |-> status])

(* getNerveSession up to its first await.                                  *)
Enter(c, k) ==
    call' = [call EXCEPT ![c] =
                IF token THEN k ELSE [k EXCEPT !.pc = "reply", !.status = "disconnected"]]

(* listEntries has answered: getNerveSession reads the passphrase now, and *)
(* drops it when its deadline has passed.                                  *)
ListAnswers(c) ==
    LET k == call[c] IN
    /\ k.pc = "list"
    /\ CASE account = Unset ->
              Answer(c, "unconfigured") /\ UNCHANGED <<pass, timer, inbox>>
         [] account # Unset /\ pass = NoPass ->
              Answer(c, "locked") /\ UNCHANGED <<pass, timer, inbox>>
         [] account # Unset /\ DeadlinePassed ->
              Answer(c, "locked") /\ LockAndBroadcast
         [] OTHER ->
              /\ SetCall(c, [pc |-> "unwrap", pwd |-> pass, wrapped |-> account,
                             late |-> timer = "due"])
              /\ UNCHANGED <<pass, timer, inbox>>
    /\ UNCHANGED <<token, account, page, ui, pending, staged, entries,
                   fills, saves>>

(* unwrapWithSecret has answered.  On failure the session is cleared, even *)
(* when the passphrase that failed is no longer the one in force.          *)
UnwrapAnswers(c) ==
    LET k == call[c]
        allowed == k.entry # 0 /\ EntryAllowedForPage(entries[k.entry], k.page)
    IN
    /\ k.pc = "unwrap"
    /\ IF Unwraps(k.wrapped, k.pwd)
       THEN /\ ScheduleExpiry
            /\ UNCHANGED inbox
            /\ CASE k.op = "fill" /\ ~allowed -> Answer(c, "error")
                 [] (k.op = "fill" /\ allowed) \/ k.op = "staged" ->
                        SetCall(c, [pc |-> "entry"])
                 [] k.op = "save" -> SetCall(c, [pc |-> "write"])
                 [] OTHER -> SetCall(c, [pc |-> "reply", status |-> "ready",
                                         hydrated |-> TRUE])
       ELSE LockAndBroadcast /\ Answer(c, "locked")
    /\ UNCHANGED <<token, account, page, ui, pending, staged, entries,
                   fills, saves>>

(* The network fails under a call: it throws.  resolveStagedFill forgets   *)
(* the staged fill first.                                                  *)
RequestFails(c) ==
    LET k == call[c] IN
    /\ k.pc \in {"list", "entry", "write"}
    /\ IF k.op = "staged" /\ k.pc = "entry"
       THEN SetCall(c, [pc |-> "get", status |-> "error"])
       ELSE Answer(c, "error")
    /\ UNCHANGED <<sessionVars, page, ui, pending, staged, entries, inbox,
                   fills, saves>>

(* loadEntryCredentials.                                                   *)
EntryAnswers(c) ==
    LET k == call[c] IN
    /\ k.pc = "entry"
    /\ SetCall(c, [pc |-> IF k.op = "staged" THEN "get" ELSE "reply",
                   status |-> "ready", rec |-> entries[k.entry]])
    /\ UNCHANGED <<sessionVars, page, ui, pending, staged, entries, inbox,
                   fills, saves>>

(* The two halves of clearSessionMapEntry and setSessionMapEntry: the      *)
(* whole map is read, and later written back with one tab's entry changed. *)
StagedMapRead(c) ==
    /\ call[c].pc = "get"
    /\ SetCall(c, [pc |-> "set", map |-> staged])
    /\ UNCHANGED <<sessionVars, page, ui, pending, staged, entries, inbox,
                   fills, saves>>

StagedMapWrite(c) ==
    LET k == call[c]
        value == IF k.op = "stage" THEN [entry |-> k.entry, host |-> k.page.host, old |-> FALSE]
                 ELSE NoRec
    IN
    /\ k.pc = "set"
    /\ staged' = [k.map EXCEPT ![k.tab] = value]
    /\ SetCall(c, [pc |-> "reply"])
    /\ UNCHANGED <<sessionVars, page, ui, pending, entries, inbox,
                   fills, saves>>

(* savePendingEntry after its session: the login is encrypted and stored   *)
(* under the title, user name and site of the prompt (k.rec), with the     *)
(* password of the login that was pending when the call began (k.map).     *)
(* clearPendingSave then drops whatever is pending in the tab.             *)
EntryStored(c) ==
    LET k == call[c]
        e == [title |-> k.rec.title, host |-> k.rec.host, acct |-> k.rec.acct,
              secret |-> k.map.secret]
    IN
    /\ k.pc = "write"
    /\ entries' = IF k.rec.id # 0 THEN [entries EXCEPT ![k.rec.id] = e]
                  ELSE Append(entries, e)
    /\ pending' = [pending EXCEPT ![k.tab] = NoRec]
    /\ saves' = saves \cup {[tab |-> k.tab, prompt |-> k.rec, login |-> k.map]}
    /\ Answer(c, "ready")
    /\ UNCHANGED <<sessionVars, page, ui, staged, inbox, fills>>

(* unlockSession.  The passphrase is assigned before the deadline is set:  *)
(* clearStoredSessionPassphrase is awaited in between.                     *)
UnlockListed(c) ==
    LET k == call[c] IN
    /\ k.op = "unlock" /\ k.pc = "ulist"
    /\ IF account = Unset THEN Answer(c, "error")
       ELSE SetCall(c, [pc |-> "uwrap", wrapped |-> account])
    /\ UNCHANGED <<sessionVars, page, ui, pending, staged, entries, inbox,
                   fills, saves>>

UnlockUnwrapped(c) ==
    LET k == call[c] IN
    /\ k.op = "unlock" /\ k.pc = "uwrap"
    /\ IF Unwraps(k.wrapped, k.pwd)
       THEN pass' = k.pwd /\ SetCall(c, [pc |-> "arm"])
       ELSE UNCHANGED pass /\ Answer(c, "error")
    /\ UNCHANGED <<timer, token, account, page, ui, pending, staged, entries,
                   inbox, fills, saves>>

UnlockArmed(c) ==
    /\ call[c].pc = "arm"
    /\ ScheduleExpiry
    /\ SetCall(c, [pc |-> "bcast", ack |-> OpenTabs])
    /\ Broadcast("unlocked", {c})
    /\ UNCHANGED <<token, account, page, ui, pending, staged, entries,
                   fills, saves>>

(* Every tab has answered broadcastNerveSessionChanged.                    *)
UnlockBroadcastDone(c) ==
    /\ call[c].pc = "bcast" /\ call[c].ack = {}
    /\ Answer(c, "ready")
    /\ UNCHANGED <<sessionVars, page, ui, pending, staged, entries, inbox,
                   fills, saves>>

(* Calls: the page's part -------------------------------------------------*)

(* One event on a page: its handler sets the page's own state and may send *)
(* one message.                                                            *)
PageOnly(t, r) ==
    /\ SetUi(t, r)
    /\ UNCHANGED <<sessionVars, page, pending, staged, entries, call, inbox,
                   fills, saves>>

PageSending(t, r) ==
    /\ SetUi(t, r)
    /\ UNCHANGED <<sessionVars, page, pending, staged, entries, inbox,
                   fills, saves>>

(* A password put into the page of tab t by call k.                        *)
Fill(t, via, k) == [via |-> via, host |-> page[t].host, from |-> k.from, late |-> k.late]

(* handleFocusIn: a login field exists on the login step and where a       *)
(* password field is visible.                                              *)
HandleFocusIn(t) ==
    /\ page[t].step = "login" \/ page[t].pw
    /\ ~ui[t].ctx
    /\ SetUi(t, [ctx |-> TRUE, stagedTimer |-> ui[t].stagedTimer \/ page[t].pw])
    /\ UNCHANGED <<sessionVars, page, pending, staged, entries, call, inbox,
                   fills, saves>>

HandleFocusOut(t) ==
    /\ ui[t].ctx
    /\ PageOnly(t, [ctx |-> FALSE, pop |-> "hidden"])

(* handleInlineButtonClick on an open popover, and handleDocumentClick.    *)
HidePopover(t) ==
    /\ ui[t].pop # "hidden"
    /\ PageOnly(t, [pop |-> "hidden"])

(* handleInlineButtonClick and the first half of renderSuggestions.        *)
HandleInlineButtonClick(t, c) ==
    /\ ui[t].ctx /\ ui[t].pop = "hidden" /\ Takes(c)
    /\ SetUi(t, [pop |-> "checking"])
    /\ Enter(c, NewCall("suggest", t))
    /\ UNCHANGED <<sessionVars, page, pending, staged, entries, inbox,
                   fills, saves>>

(* handleFillEntryAction up to FILL_ENTRY.  The list holds entries of      *)
(* other sites too; fillEntry refuses those.                               *)
HandleFillEntryAction(t, c, e) ==
    /\ ui[t].pop = "list" /\ Takes(c)
    /\ Enter(c, [NewCall("fill", t) EXCEPT !.entry = e])
    /\ UNCHANGED <<sessionVars, page, ui, pending, staged, entries, inbox,
                   fills, saves>>

\* Mutant: one pending login for the whole browser.
PendingSaveKeys_Shared(t) == Tabs

(* pendingSaveKey: the tabs under whose key a login submitted in t is kept.*)
PendingSaveKeys(t) == {t}

(* handleFormSubmit, captureSubmission and recordSubmission: the user      *)
(* submits new credentials, or the ones that were filled, for which        *)
(* shouldSuppressSavePrompt may set skipSave.                              *)
HandleFormSubmit(t, acct, refill) ==
    LET f == ui[t].filled
        login == [tab |-> t, host |-> page[t].host, step |-> page[t].step, acct |-> acct,
                  secret |-> IF refill THEN f.secret ELSE events + 1, old |-> FALSE]
        skip == refill /\ ~f.old /\ f.acct = acct
    IN
    /\ page[t].pw
    /\ refill => f # NoRec
    /\ IF skip THEN UNCHANGED <<pending, ui>>
       ELSE /\ pending' = [u \in Tabs |-> IF u \in PendingSaveKeys(t) THEN login ELSE pending[u]]
            /\ SetUi(t, [checks |-> 2])
    /\ UNCHANGED <<sessionVars, page, staged, entries, call, inbox, fills, saves>>

(* The handler that the unlocking call waits for has finished in tab t.    *)
Acknowledge(f, acks, t) ==
    [d \in Slots |-> IF d \in acks /\ f[d].op = "unlock"
                     THEN [f[d] EXCEPT !.ack = @ \ {t}] ELSE f[d]]

(* maybeShowPendingSavePrompt and resolvePendingSave up to its session; it *)
(* also runs for the session handler, which acknowledges the calls in ack. *)
(* With nothing to prompt for the banner is hidden (hideBanner).           *)
StartPrompt(t, c, r, ack) ==
    LET p == pending[t]
        k == [NewCall("prompt", t) EXCEPT !.rec = p, !.ack = ack]
        quiet == p = NoRec \/ (p # NoRec /\ (p.old \/ ~ShouldPromptForPendingSave(p, page[t])))
    IN
    /\ Takes(c)
    /\ IF quiet
       THEN /\ SetUi(t, Over([banner |-> "none", shown |-> NoRec], r))
            /\ call' = Acknowledge(call, ack, t)
       ELSE /\ SetUi(t, r)
            /\ Enter(c, k)
    /\ pending' = IF p # NoRec /\ p.old THEN [pending EXCEPT ![t] = NoRec]
                  ELSE pending

MaybeShowPendingSavePrompt(t, c) ==
    /\ ui[t].checks > 0
    /\ StartPrompt(t, c, [checks |-> ui[t].checks - 1], {})
    /\ UNCHANGED <<sessionVars, page, staged, entries, inbox,
                   fills, saves>>

\* Mutant: a staged fill is used on any site.
MaybeCompleteStagedFill_AnySite(t, c) ==
    LET f == staged[t]
        k == [NewCall("staged", t) EXCEPT !.status = "none"]
    IN
    /\ ui[t].stagedTimer
    /\ IF ~page[t].pw \/ f = NoRec THEN PageOnly(t, [stagedTimer |-> FALSE])
       ELSE /\ Takes(c)
            /\ SetUi(t, [stagedTimer |-> FALSE])
            /\ call' = [call EXCEPT ![c] =
                    CASE f.old -> [k EXCEPT !.pc = "get"]
                      [] OTHER -> [k EXCEPT !.entry = f.entry, !.from = f.host,
                            !.pc = IF token THEN "list" ELSE "reply",
                            !.status = IF token THEN "none" ELSE "disconnected"]]
            /\ UNCHANGED <<sessionVars, page, pending, staged, entries, inbox,
                           fills, saves>>

(* The scheduled maybeCompleteStagedFill, and resolveStagedFill up to its  *)
(* session: a staged fill that is too old or of another site is dropped.   *)
MaybeCompleteStagedFill(t, c) ==
    LET f == staged[t]
        k == [NewCall("staged", t) EXCEPT !.status = "none"]
    IN
    /\ ui[t].stagedTimer
    /\ IF ~page[t].pw \/ f = NoRec THEN PageOnly(t, [stagedTimer |-> FALSE])
       ELSE /\ Takes(c)
            /\ SetUi(t, [stagedTimer |-> FALSE])
            /\ call' = [call EXCEPT ![c] =
                    CASE f.old \/ f.host # page[t].host -> [k EXCEPT !.pc = "get"]
                      [] OTHER -> [k EXCEPT !.entry = f.entry, !.from = f.host,
                            !.pc = IF token THEN "list" ELSE "reply",
                            !.status = IF token THEN "none" ELSE "disconnected"]]
            /\ UNCHANGED <<sessionVars, page, pending, staged, entries, inbox,
                           fills, saves>>

(* handleSavePendingAction and savePendingEntry up to its session.  What   *)
(* the payload lacks (no prompt is remembered) is taken from the pending   *)
(* login.                                                                  *)
SaveCall(t) ==
    LET p == pending[t]
        prompt == IF ui[t].shown # NoRec THEN ui[t].shown
                  ELSE [id |-> 0, title |-> p.host, host |-> p.host, acct |-> p.acct]
        k == NewCall("save", t)
    IN  IF p = NoRec \/ (p # NoRec /\ p.old)
        THEN [k EXCEPT !.pc = "reply", !.status = "error"]
        ELSE [k EXCEPT !.rec = prompt, !.map = p]

HandleSavePendingAction(t, c) ==
    /\ ui[t].banner = "prompt" /\ Takes(c)
    /\ Enter(c, SaveCall(t))
    /\ PageSending(t, [banner |-> "prompt"])

(* handleUnlockPendingAction up to UNLOCK_SESSION; a second unlock while   *)
(* one is in flight is left out (the button is disabled).                  *)
HandleUnlockPendingAction(t, c, p) ==
    /\ ui[t].banner = "unlock" /\ Takes(c)
    /\ \A d \in Slots : call[d].op # "unlock"
    /\ call' = [call EXCEPT ![c] =
            IF token THEN [NewCall("unlock", t) EXCEPT !.pc = "ulist", !.pwd = p]
            ELSE [NewCall("unlock", t) EXCEPT !.pc = "reply", !.status = "error"]]
    /\ PageSending(t, [banner |-> "unlock"])

(* dismissPendingSavePrompt: the pending login is forgotten, then the      *)
(* banner is hidden.                                                       *)
DismissPendingSavePrompt(t) ==
    /\ ui[t].banner \in Banners \ {"none", "status"}
    /\ pending' = [pending EXCEPT ![t] = NoRec]
    /\ SetUi(t, [banner |-> "none", shown |-> NoRec])
    /\ UNCHANGED <<sessionVars, page, staged, entries, call, inbox, fills, saves>>

(* The 1.2 s timer of handleSavePendingAction: it hides whatever banner is *)
(* up by then.                                                             *)
HideBannerTimer(t) ==
    /\ ui[t].hideTimer
    /\ PageOnly(t, [hideTimer |-> FALSE, banner |-> "none", shown |-> NoRec])

(* handleSessionChanged.                                                   *)
HandleSessionChanged(m, c) ==
    LET t == m.tab
        open == ui[t].pop # "hidden"
    IN
    /\ m \in inbox
    /\ inbox' = inbox \ {m}
    /\ IF m.status = "locked"
       THEN LET r == [pop |-> IF open THEN "locked" ELSE "hidden"] IN
            IF ui[t].shown # NoRec THEN StartPrompt(t, c, r, {})
            ELSE SetUi(t, r) /\ UNCHANGED <<call, pending>>
       ELSE StartPrompt(t, c, [stagedTimer |-> TRUE], m.ack)
    /\ UNCHANGED <<sessionVars, page, staged, entries,
                   fills, saves>>

(* The popup's fill_credentials: the page is filled at once, then the fill *)
(* is staged for the password step, or a staged one is cleared.            *)
DirectFill(t, c, e) ==
    LET k == [NewCall("direct", t) EXCEPT !.entry = e, !.rec = entries[e], !.pc = "get",
              !.op = IF page[t].pw THEN "unstageDirect" ELSE "stage"]
    IN
    /\ page[t].pw \/ page[t].step = "login"
    /\ Takes(c)
    /\ fills' = IF page[t].pw THEN fills \cup {Fill(t, "direct", k)} ELSE fills
    /\ call' = [call EXCEPT ![c] = [k EXCEPT !.status = "direct"]]
    /\ UNCHANGED <<sessionVars, page, ui, pending, staged, entries, inbox,
                   saves>>

(* Answers ---------------------------------------------------------------*)

(* runtimeMessage's callback runs in the page that sent the message; an    *)
(* answer to a page that is gone is dropped.                               *)
Done(c) == [call EXCEPT ![c] = NoCall]

Replying(c, op) == call[c].op = op /\ call[c].pc = "reply" /\ call[c].live

AnswerDropped(c) ==
    /\ call[c].op # "none"
    /\ call[c].pc = "reply" /\ ~call[c].live
    /\ call' = Done(c)
    /\ UNCHANGED <<sessionVars, page, ui, pending, staged, entries, inbox,
                   fills, saves>>

(* renderInlineState and the list, on a popover that is still open.        *)
InPopover(t, what) == IF ui[t].pop = "hidden" THEN "hidden" ELSE what

(* Second half of renderSuggestions.                                       *)
SuggestionsAnswered(c) ==
    LET k == call[c]
        content == CASE k.status \in {"closed", "error"} -> "error"
                     [] k.status = "ready" -> "list"
                     [] OTHER -> k.status
    IN
    /\ Replying(c, "suggest")
    /\ call' = Acknowledge(Done(c), k.ack, k.tab)
    /\ PageSending(k.tab, [pop |-> InPopover(k.tab, content)])

(* handleFillEntryAction after FILL_ENTRY: with the credentials in hand it *)
(* stages the entry for the password step, or clears a staged one.         *)
FillAnswered(c) ==
    LET k == call[c]
        t == k.tab
        shouldStage == ui[t].ctx /\ ~page[t].pw /\ page[t].step = "login"
    IN
    /\ Replying(c, "fill")
    /\ IF k.status = "ready"
       THEN /\ SetCall(c, [op |-> IF shouldStage THEN "stage" ELSE "unstage",
                           pc |-> "get", page |-> page[t]])
            /\ PageSending(t, [pop |-> ui[t].pop])
       ELSE /\ call' = Done(c)
            /\ PageSending(t, [pop |-> InPopover(t, "error")])

(* fillCredentials into a page that shows a password field.                *)
FillCredentials(t, via, k) ==
    /\ fills' = IF page[t].pw THEN fills \cup {Fill(t, via, k)} ELSE fills
    /\ ui' = [ui EXCEPT ![t].filled =
                IF page[t].pw THEN [acct |-> k.rec.acct, secret |-> k.rec.secret, old |-> FALSE]
                ELSE @,
              ![t].pop = IF via = "staged" THEN @ ELSE IF page[t].pw \/ page[t].step = "login"
                         THEN "hidden" ELSE InPopover(t, "error"),
              ![t].banner = IF page[t].pw \/ (via = "inline" /\ page[t].step = "login")
                            THEN "status" ELSE @]

(* The end of handleFillEntryAction.                                       *)
StageAnswered(c) ==
    LET k == call[c] IN
    /\ Replying(c, "stage") \/ Replying(c, "unstage")
    /\ CASE k.status = "closed" ->
              SetUi(k.tab, [pop |-> InPopover(k.tab, "error")]) /\ UNCHANGED fills
         [] k.status = "direct" -> UNCHANGED <<ui, fills>>
         [] OTHER -> FillCredentials(k.tab, "inline", k)
    /\ call' = Done(c)
    /\ UNCHANGED <<sessionVars, page, pending, staged, entries, inbox,
                   saves>>

(* The end of the fill_credentials listener.                               *)
DirectFillAnswered(c) ==
    LET k == call[c] IN
    /\ Replying(c, "unstageDirect")
    /\ call' = Done(c)
    /\ PageSending(k.tab, IF k.status = "closed" THEN [banner |-> ui[k.tab].banner]
           ELSE [filled |-> [acct |-> k.rec.acct, secret |-> k.rec.secret, old |-> FALSE]])

(* Second half of maybeCompleteStagedFill.                                 *)
StagedAnswered(c) ==
    LET k == call[c] IN
    /\ Replying(c, "staged")
    /\ CASE k.status \in {"none", "closed", "error"} -> UNCHANGED <<ui, fills>>
         [] k.status = "ready" -> FillCredentials(k.tab, "staged", k)
         [] OTHER -> SetUi(k.tab, [banner |-> "status"]) /\ UNCHANGED fills
    /\ call' = Done(c)
    /\ UNCHANGED <<sessionVars, page, pending, staged, entries, inbox,
                   saves>>

(* Second half of maybeShowPendingSavePrompt; renderPendingBanner.  A call *)
(* of handleSessionChanged goes on to refresh an open popover.             *)
PromptAnswered(c) ==
    LET k == call[c]
        t == k.tab
        id == FindExistingEntry(k.hydrated, k.rec)
        shown == [id |-> id, title |-> IF id # 0 THEN entries[id].title ELSE k.rec.host,
                  host |-> k.rec.host, acct |-> k.rec.acct]
        banner == CASE k.status = "ready" -> "prompt"
                    [] k.status = "locked" -> "unlock"
                    [] k.status = "disconnected" -> "settings"
                    [] OTHER -> "setup"
        r == CASE k.status = "closed" -> [banner |-> ui[t].banner]
               [] k.status \in {"none", "error"} -> [banner |-> "none", shown |-> NoRec]
               [] OTHER -> [banner |-> banner, shown |-> shown]
    IN
    /\ Replying(c, "prompt")
    /\ IF k.ack # {} /\ k.status # "closed" /\ ui[t].ctx /\ ui[t].pop # "hidden"
       THEN /\ Enter(c, [NewCall("suggest", t) EXCEPT !.ack = k.ack])
            /\ PageSending(t, Over([pop |-> "checking"], r))
       ELSE /\ call' = Acknowledge(Done(c), k.ack, t)
            /\ PageSending(t, r)

(* Second half of handleSavePendingAction.                                 *)
SaveAnswered(c) ==
    LET k == call[c] IN
    /\ Replying(c, "save")
    /\ call' = Done(c)
    /\ PageSending(k.tab,
          CASE k.status = "closed" -> [banner |-> ui[k.tab].banner]
            [] k.status = "ready" -> [banner |-> "status", hideTimer |-> TRUE]
            [] OTHER -> [banner |-> "status"])

(* Second half of handleUnlockPendingAction: once unlocked it saves.       *)
UnlockAnswered(c) ==
    LET k == call[c] IN
    /\ Replying(c, "unlock")
    /\ IF k.status = "ready"
       THEN Enter(c, SaveCall(k.tab)) /\ PageSending(k.tab, [banner |-> ui[k.tab].banner])
       ELSE /\ call' = Done(c)
            /\ PageSending(k.tab, [banner |-> IF k.status = "closed" THEN ui[k.tab].banner
                                             ELSE "unlock"])

(* Pages -----------------------------------------------------------------*)

(* The page of tab t goes: answers to it are dropped, and the messages it  *)
(* has not handled count as answered.                                      *)
Leave(t) ==
    /\ call' = [c \in Slots |->
            IF Free(c) THEN NoCall
            ELSE [call[c] EXCEPT !.live = @ /\ call[c].tab # t,
                                 !.ack = IF call[c].op = "unlock" THEN @ \ {t} ELSE @]]
    /\ inbox' = {m \in inbox : m.tab # t}

(* Another document loads; the script starts afresh (initialize).          *)
Navigate(t, p) ==
    /\ page' = [page EXCEPT ![t] = p]
    /\ ui' = [ui EXCEPT ![t] = FreshUi]
    /\ Leave(t)
    /\ UNCHANGED <<sessionVars, pending, staged, entries, fills, saves>>

(* A step of a single-page application: installHistoryListeners.  The      *)
(* field that had the focus may be gone (updateInlineUiPosition).          *)
LocationChange(t, p) ==
    /\ p.host = page[t].host /\ p # page[t]
    /\ page' = [page EXCEPT ![t] = p]
    /\ SetUi(t, [stagedTimer |-> TRUE, checks |-> 2, pop |-> "hidden"])
    /\ UNCHANGED <<sessionVars, pending, staged, entries, call, inbox,
                   fills, saves>>

(* The tab is closed: cleanupTabState.                                     *)
TabRemoved(t, c) ==
    /\ Takes(c)
    /\ page' = [page EXCEPT ![t].step = "closed", ![t].pw = FALSE]
    /\ ui' = [ui EXCEPT ![t] = [FreshUi EXCEPT !.stagedTimer = FALSE, !.checks = 0]]
    /\ pending' = [pending EXCEPT ![t] = NoRec]
    /\ inbox' = {m \in inbox : m.tab # t}
    /\ call' = [d \in Slots |->
            IF d = c THEN [NewCall("unstage", t) EXCEPT !.pc = "get", !.live = FALSE]
            ELSE IF Free(d) THEN NoCall
            ELSE [call[d] EXCEPT !.live = @ /\ call[d].tab # t,
                                 !.ack = IF call[d].op = "unlock" THEN @ \ {t} ELSE @]]
    /\ UNCHANGED <<sessionVars, staged, entries, fills, saves>>

(* Minutes pass over what is kept for tab t.                               *)
Grows(f, t) == f[t] # NoRec /\ ~f[t].old
TimePasses(t) ==
    /\ \/ Grows(pending, t) /\ pending' = [pending EXCEPT ![t].old = TRUE]
          /\ UNCHANGED <<staged, ui>>
       \/ Grows(staged, t) /\ staged' = [staged EXCEPT ![t].old = TRUE]
          /\ UNCHANGED <<pending, ui>>
       \/ ui[t].filled # NoRec /\ ~ui[t].filled.old
          /\ ui' = [ui EXCEPT ![t].filled.old = TRUE]
          /\ UNCHANGED <<pending, staged>>
    /\ UNCHANGED <<sessionVars, page, entries, call, inbox, fills, saves>>
-----------------------------------------------------------------------------
Pages == [host : Hosts, step : {"login", "home"}, pw : BOOLEAN]

(* Pages that were loaded before, on one site; in a tab a login may just   *)
(* have been submitted, and led to a page with another password field,     *)
(* where the user has asked for suggestions.                               *)
Idle == [FreshUi EXCEPT !.stagedTimer = FALSE, !.checks = 0]

NothingSubmitted ==
    /\ \E h \in Hosts, b \in BOOLEAN :
            page = [t \in Tabs |-> [host |-> h, step |-> "login", pw |-> b]]
    /\ ui = [t \in Tabs |-> Idle]
    /\ pending = [t \in Tabs |-> NoRec]
    /\ events = 0

JustSubmitted ==
    \E h \in Hosts, a \in Accounts, u \in Tabs :
        /\ page = [t \in Tabs |-> [host |-> h, step |-> "home", pw |-> TRUE]]
        /\ ui = [t \in Tabs |-> IF t # u THEN Idle
                        ELSE [Idle EXCEPT !.checks = 1, !.ctx = TRUE, !.pop = "locked"]]
        /\ events = 1
        /\ pending = [t \in Tabs |-> IF t # u THEN NoRec
                        ELSE [tab |-> t, host |-> h, step |-> "login", acct |-> a,
                              secret |-> 0, old |-> FALSE]]

Init ==
    /\ \/ token = FALSE /\ account = 1 /\ pass = NoPass /\ NothingSubmitted
       \/ token = TRUE /\ account = Unset /\ pass = NoPass /\ NothingSubmitted
       \/ token = TRUE /\ account = 1 /\ pass \in {NoPass, 1} /\ NothingSubmitted
       \/ token = TRUE /\ account = 1 /\ pass = NoPass /\ JustSubmitted
    /\ timer = IF pass = NoPass THEN "off" ELSE "armed"
    /\ staged = [t \in Tabs |-> NoRec]
    /\ \E h \in Hosts, a \in Accounts :
            entries = <<[title |-> h, host |-> h, acct |-> a, secret |-> 0]>>
    /\ call = [c \in Slots |-> NoCall]
    /\ inbox = {}
    /\ fills = {} /\ saves = {}

(* What the background does with the call in slot c.                       *)
Background(c) ==
    /\ ~Free(c)
    /\ \/ ListAnswers(c) \/ UnwrapAnswers(c) \/ EntryAnswers(c) \/ EntryStored(c)
       \/ StagedMapRead(c) \/ StagedMapWrite(c)
       \/ UnlockListed(c) \/ UnlockUnwrapped(c) \/ UnlockArmed(c)
       \/ UnlockBroadcastDone(c)
    /\ UNCHANGED events

Answered(c) ==
    /\ ~Free(c)
    /\ \/ AnswerDropped(c)
       \/ SuggestionsAnswered(c) \/ FillAnswered(c) \/ StageAnswered(c)
       \/ DirectFillAnswered(c) \/ StagedAnswered(c) \/ PromptAnswered(c)
       \/ SaveAnswered(c) \/ UnlockAnswered(c)
    /\ UNCHANGED events

(* Timers of the background and of the pages, and messages to the pages.   *)
Timers ==
    /\ \/ DeadlinePasses /\ UNCHANGED contentVars
       \/ TimerFires
       \/ \E t \in OpenTabs : HideBannerTimer(t)
       \/ \E t \in OpenTabs, c \in Slots :
              MaybeShowPendingSavePrompt(t, c) \/ MaybeCompleteStagedFill(t, c)
       \/ \E m \in inbox, c \in Slots : HandleSessionChanged(m, c)
    /\ UNCHANGED events

(* What the user does in the page of tab t.                                *)
UserAction(t) ==
    \/ HandleFocusIn(t) \/ HandleFocusOut(t) \/ HidePopover(t)
    \/ DismissPendingSavePrompt(t)
    \/ \E a \in Accounts, refill \in BOOLEAN : HandleFormSubmit(t, a, refill)
    \/ \E p \in Pages : Navigate(t, p) \/ LocationChange(t, p)
    \/ \E c \in Slots :
          \/ HandleInlineButtonClick(t, c)
          \/ HandleSavePendingAction(t, c)
          \/ \E p \in Passwords : HandleUnlockPendingAction(t, c, p)
          \/ \E e \in DOMAIN entries : HandleFillEntryAction(t, c, e) \/ DirectFill(t, c, e)
          \/ TabRemoved(t, c)

Input ==
    /\ events < MaxEvents
    /\ events' = events + 1
    /\ \/ AccountPasswordChanges /\ UNCHANGED contentVars
       \/ WorkerStops
       \/ \E c \in Slots : RequestFails(c)
       \/ \E t \in OpenTabs : TimePasses(t) \/ UserAction(t)

Next == Timers \/ Input \/ \E c \in Slots : Background(c) \/ Answered(c)

Spec == Init /\ [][Next]_vars

-----------------------------------------------------------------------------
TypeOK ==
    /\ SessionTypeOK /\ token \in BOOLEAN
    /\ \A t \in Tabs : page[t].host \in Hosts /\ ui[t].pop \in Popovers /\ ui[t].banner \in Banners
    /\ events \in 0 .. MaxEvents
    /\ \A m \in inbox : m.tab \in Tabs /\ m.status \in {"locked", "unlocked"}
    /\ \A c \in Slots : ~Free(c) => call[c].tab \in Tabs /\ call[c].entry \in 0 .. Len(entries)

(* A password that the page's own flows fill goes into a page of the site  *)
(* where the user chose the entry, whatever was loaded, staged, resolved   *)
(* or answered late in between (fillEntry, resolveStagedFill).             *)
FillsWhereChosen == \A f \in fills : f.via # "direct" => f.host = f.from

(* The records of a fill are well formed and each is where it belongs.     *)
FillsHold == TypeOK /\ FillsWhereChosen

(* Nothing is filled from a session whose deadline had passed when its     *)
(* passphrase was read, though the timer had not run                       *)
(* (expireSessionPassphraseIfNeeded).                                      *)
NoFillFromExpiredSession == \A f \in fills : ~f.late

(* A login is stored under the site it was submitted on, from the tab it   *)
(* was submitted in: prompts, unlocks, new pages and restarts between      *)
(* submission and save never move it (savePendingEntry).                   *)
SaveKeepsSite ==
    \A s \in saves : s.prompt.host = s.login.host /\ s.login.tab = s.tab
=============================================================================
