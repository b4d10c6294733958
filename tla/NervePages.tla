----------------------------- MODULE NervePages -----------------------------
(***************************************************************************)
(* The extension's own pages: settings (options.js), the manager           *)
(* (popup.js, also opened as a tab), and the launcher (launcher.js), with  *)
(* the captures of the context menu (background.js).                       *)
(*                                                                         *)
(* Every page reads the settings once, when it opens, into its own state,  *)
(* and several of its handlers write that copy back after a request        *)
(* (saveSettings).  The manager also keeps its own copy of the account     *)
(* password.  The pages run concurrently; pc is the await a page is        *)
(* suspended at.                                                           *)
(***************************************************************************)
EXTENDS NerveSession, Integers

CONSTANTS
    MaxGrants,      \* access tokens issued in the course of a behaviour
    MaxEvents,      \* what the user does and what fails, together
    MaxFile         \* KAIRO_CAPTURE_MAX_FILE_BYTES

ASSUME NervePagesAssumption == MaxGrants \in Nat \ {0} /\ MaxFile \in Nat

NoToken == 0

VARIABLES
    granted,    \* server: access tokens issued so far
    options, popup, launcher,
    capture,    \* the file capture of the context menu
    badge,      \* text on the extension's icon
    uploads,    \* history: sizes of the files sent to Kairo
    events

pageVars == <<granted, options, popup, launcher>>
kairoVars == <<capture, badge, uploads>>
vars == <<sessionVars, pageVars, kairoVars, events>>

Closed == [pc |-> "closed", tok |-> NoToken]
ClosedPopup == [pc |-> "closed", tok |-> NoToken, pwd |-> NoPass,
                wrapped |-> Unset, typed |-> NoPass]

(* request of lib/api.js requires a token; any request may also fail on    *)
(* the way or be refused.                                                  *)
Served(tok) == tok # NoToken

(* saveSettings writes a page's copy of the token.                         *)
SaveSettings(tok) == token' = tok

(* Settings page ---------------------------------------------------------*)

(* init of options.js.                                                     *)
OptionsOpens ==
    /\ options.pc = "closed"
    /\ options' = [pc |-> "idle", tok |-> token]
    /\ UNCHANGED <<sessionVars, granted, popup, launcher, kairoVars>>

(* handleConnect up to the web site: the old token is forgotten first.     *)
HandleConnect ==
    /\ options.pc = "idle"
    /\ SaveSettings(NoToken)
    /\ options' = [pc |-> "connect", tok |-> NoToken]
    /\ UNCHANGED <<pass, timer, account, granted, popup, launcher, kairoVars>>

(* connectViaWebsite: launchConnectFlow and parseConnectCallback, or the   *)
(* pairing flow when the authorisation page cannot be loaded or the server *)
(* is local.                                                               *)
PairingFallback ==
    /\ options.pc = "connect"
    /\ options' = [options EXCEPT !.pc = "pairing"]
    /\ UNCHANGED <<sessionVars, granted, popup, launcher, kairoVars>>

(* The web site issues a token; handleConnect stores it.                   *)
ConnectApproved ==
    /\ options.pc \in {"connect", "pairing"}
    /\ granted < MaxGrants
    /\ granted' = granted + 1
    /\ options' = [pc |-> "idle", tok |-> granted + 1]
    /\ SaveSettings(granted + 1)
    /\ UNCHANGED <<pass, timer, account, popup, launcher, kairoVars>>

(* The user cancels, the state does not match, the poll is refused, or the *)
(* five minutes of pollPairingStatus are over.                             *)
ConnectEnds ==
    /\ options.pc \in {"connect", "pairing"}
    /\ options' = [options EXCEPT !.pc = "idle"]
    /\ UNCHANGED <<sessionVars, granted, popup, launcher, kairoVars>>

(* handleTest: the token of the page's copy is tried, then written back.   *)
HandleTest ==
    /\ options.pc = "idle" /\ options.tok # NoToken
    /\ options' = [options EXCEPT !.pc = "test"]
    /\ UNCHANGED <<sessionVars, granted, popup, launcher, kairoVars>>

TestAnswered ==
    /\ options.pc = "test"
    /\ options' = [options EXCEPT !.pc = "idle"]
    /\ \/ Served(options.tok) /\ SaveSettings(options.tok)
       \/ UNCHANGED token
    /\ UNCHANGED <<pass, timer, account, granted, popup, launcher, kairoVars>>

(* handleSignOut up to logoutWithAccount.  The tokens of the connect flow  *)
(* are personal access tokens, for which no request is made.               *)
HandleSignOut ==
    /\ options.pc = "idle" /\ options.tok # NoToken
    /\ options' = [options EXCEPT !.pc = "clear"]
    /\ UNCHANGED <<sessionVars, granted, popup, launcher, kairoVars>>

(* CLEAR_SESSION_PASSPHRASE, then saveSettings with no token.              *)
SignOutClears ==
    /\ options.pc = "clear"
    /\ ClearRuntimeSession
    /\ options' = [options EXCEPT !.pc = "forget"]
    /\ UNCHANGED <<token, account, granted, popup, launcher, kairoVars>>

SignOutForgets ==
    /\ options.pc = "forget"
    /\ SaveSettings(NoToken)
    /\ options' = [pc |-> "idle", tok |-> NoToken]
    /\ UNCHANGED <<pass, timer, account, granted, popup, launcher, kairoVars>>

HandleClearPassphrase ==
    /\ options.pc = "idle" /\ pass # NoPass
    /\ ClearRuntimeSession
    /\ UNCHANGED <<token, account, pageVars, kairoVars>>

(* Manager ---------------------------------------------------------------*)

(* init of popup.js, with GET_SESSION_PASSPHRASE (currentSessionPassphrase *)
(* drops an expired session first).                                        *)
PopupOpens ==
    /\ popup.pc = "closed"
    /\ IF DeadlinePassed THEN ClearRuntimeSession ELSE UNCHANGED <<pass, timer>>
    /\ popup' = [ClosedPopup EXCEPT !.pc = IF token # NoToken THEN "list" ELSE "idle",
                    !.tok = token, !.pwd = IF DeadlinePassed THEN NoPass ELSE pass]
    /\ UNCHANGED <<token, account, granted, options, launcher, kairoVars>>

(* refreshNerveIndex after listEntries: the settings are written back, and *)
(* a passphrase in hand is checked against the data key just received.     *)
IndexAnswered ==
    /\ popup.pc = "list"
    /\ \/ /\ Served(popup.tok)
          /\ SaveSettings(popup.tok)
          /\ popup' = [popup EXCEPT !.wrapped = account,
                        !.pc = IF account # Unset /\ popup.pwd # NoPass THEN "validate" ELSE "idle"]
       \/ popup' = [popup EXCEPT !.pc = "idle"] /\ UNCHANGED token
    /\ UNCHANGED <<pass, timer, account, granted, options, launcher, kairoVars>>

\* Mutant: a passphrase in hand is taken to be good.
ValidateSavedPassphrase_Trusting ==
    /\ popup.pc = "validate"
    /\ popup' = [popup EXCEPT !.pc = "idle"]
    /\ UNCHANGED <<sessionVars, granted, options, launcher, kairoVars>>

(* validateSavedPassphrase: a passphrase that no longer opens the key is   *)
(* cleared in the worker too.                                              *)
ValidateSavedPassphrase ==
    /\ popup.pc = "validate"
    /\ IF Unwraps(popup.wrapped, popup.pwd)
       THEN popup' = [popup EXCEPT !.pc = "idle"] /\ UNCHANGED <<pass, timer>>
       ELSE popup' = [popup EXCEPT !.pc = "idle", !.pwd = NoPass] /\ ClearRuntimeSession
    /\ UNCHANGED <<token, account, granted, options, launcher, kairoVars>>

(* handleUnlockSubmit: what was typed must open the key the page holds.    *)
HandleUnlockSubmit(p) ==
    /\ popup.pc = "idle" /\ popup.pwd = NoPass /\ popup.wrapped # Unset
    /\ popup' = IF Unwraps(popup.wrapped, p)
                THEN [popup EXCEPT !.pc = "set", !.typed = p] ELSE popup
    /\ UNCHANGED <<sessionVars, granted, options, launcher, kairoVars>>

(* SET_SESSION_PASSPHRASE of handleMessage: the deadline is set after an   *)
(* await.                                                                  *)
UnlockStored ==
    /\ popup.pc = "set"
    /\ pass' = popup.typed
    /\ popup' = [popup EXCEPT !.pc = "arm"]
    /\ UNCHANGED <<timer, token, account, granted, options, launcher, kairoVars>>

\* Mutant: the session set by the manager gets no deadline.
UnlockArmed_NoDeadline ==
    /\ popup.pc = "arm"
    /\ popup' = [popup EXCEPT !.pc = "list", !.pwd = popup.typed, !.typed = NoPass]
    /\ UNCHANGED <<sessionVars, granted, options, launcher, kairoVars>>

UnlockArmed ==
    /\ popup.pc = "arm"
    /\ ScheduleExpiry
    /\ popup' = [popup EXCEPT !.pc = "list", !.pwd = popup.typed, !.typed = NoPass]
    /\ UNCHANGED <<token, account, granted, options, launcher, kairoVars>>

HandleLock ==
    /\ popup.pc = "idle" /\ popup.pwd # NoPass
    /\ ClearRuntimeSession
    /\ popup' = [popup EXCEPT !.pwd = NoPass]
    /\ UNCHANGED <<token, account, granted, options, launcher, kairoVars>>

(* handleCreateEntrySubmit and handleEntryAction: one authenticated        *)
(* request with the page's copy of the token, then, after creating an      *)
(* entry, a new index.                                                     *)
EntryRequest(op) ==
    /\ popup.pc = "idle" /\ popup.pwd # NoPass /\ popup.wrapped # Unset
    /\ popup' = [popup EXCEPT !.pc = op]
    /\ UNCHANGED <<sessionVars, granted, options, launcher, kairoVars>>

EntryRequestAnswered ==
    /\ popup.pc \in {"create", "load"}
    /\ \/ /\ Served(popup.tok)
          /\ popup' = [popup EXCEPT !.pc = IF popup.pc = "create" THEN "list" ELSE "idle"]
       \/ popup' = [popup EXCEPT !.pc = "idle"]
    /\ UNCHANGED <<sessionVars, granted, options, launcher, kairoVars>>

(* Launcher --------------------------------------------------------------*)

(* init and refreshStatus of launcher.js.                                  *)
LauncherOpens ==
    /\ launcher.pc = "closed"
    /\ launcher' = [pc |-> IF token # NoToken THEN "status" ELSE "idle", tok |-> token]
    /\ UNCHANGED <<sessionVars, granted, options, popup, kairoVars>>

LauncherAnswered ==
    /\ launcher.pc = "status"
    /\ launcher' = [launcher EXCEPT !.pc = "idle"]
    /\ \/ Served(launcher.tok) /\ SaveSettings(launcher.tok)
       \/ UNCHANGED token
    /\ UNCHANGED <<pass, timer, account, granted, options, popup, kairoVars>>

(* handleCapture: the page or the selection goes to Kairo.                 *)
HandleCapture ==
    /\ launcher.pc = "idle" /\ launcher.tok # NoToken
    /\ launcher' = [launcher EXCEPT !.pc = "capture"]
    /\ UNCHANGED <<sessionVars, granted, options, popup, kairoVars>>

CaptureAnswered ==
    /\ launcher.pc = "capture"
    /\ launcher' = [launcher EXCEPT !.pc = "idle"]
    /\ UNCHANGED <<sessionVars, granted, options, popup, kairoVars>>

(* A page may be closed at any time; a message already sent to the worker  *)
(* is still handled.                                                       *)
PageCloses ==
    /\ \/ options.pc # "closed" /\ options' = Closed /\ UNCHANGED <<popup, launcher>>
       \/ popup.pc \notin {"closed", "arm"} /\ popup' = ClosedPopup /\ UNCHANGED <<options, launcher>>
       \/ launcher.pc # "closed" /\ launcher' = Closed /\ UNCHANGED <<options, popup>>
    /\ UNCHANGED <<sessionVars, granted, kairoVars>>

(* Context menu ----------------------------------------------------------*)

NoFile == [pc |-> "idle", size |-> 0]
(* What a Content-Length header may say: nothing, or any size.             *)
Claims == {-1} \cup 0 .. MaxFile + 1
(* assertContentLengthWithinLimit: an absent header passes.                *)
WithinLimit(claim) == claim <= MaxFile

(* setActionBadge: every badge starts a timer, and every timer clears      *)
(* whatever badge is up.                                                   *)
SetBadge(text) == badge' = [text |-> text, timers |-> badge.timers + 1]

BadgeTimer ==
    /\ badge.timers > 0
    /\ badge' = [text |-> "none", timers |-> badge.timers - 1]
    /\ UNCHANGED <<sessionVars, pageVars, capture, uploads>>

(* captureFileToKairo up to its first request.                             *)
CaptureFile(size) ==
    /\ capture.pc = "idle"
    /\ IF token = NoToken
       THEN SetBadge("fail") /\ UNCHANGED capture
       ELSE capture' = [pc |-> "head", size |-> size] /\ UNCHANGED badge
    /\ UNCHANGED <<sessionVars, pageVars, uploads>>

CaptureFails ==
    /\ capture.pc # "idle"
    /\ capture' = NoFile
    /\ SetBadge("fail")
    /\ UNCHANGED <<sessionVars, pageVars, uploads>>

(* verifyRemoteFileSize: its own try/catch swallows every error, the one   *)
(* that says the file is too large included.                               *)
HeadAnswered ==
    /\ capture.pc = "head"
    /\ capture' = [capture EXCEPT !.pc = "get"]
    /\ UNCHANGED <<sessionVars, pageVars, badge, uploads>>

GetAnswered(claim) ==
    /\ capture.pc = "get"
    /\ WithinLimit(claim)
    /\ capture' = [capture EXCEPT !.pc = "blob"]
    /\ UNCHANGED <<sessionVars, pageVars, badge, uploads>>

(* The body is read; its real size is checked whatever the header said.    *)
BlobRead ==
    /\ capture.pc = "blob"
    /\ IF capture.size > MaxFile
       THEN capture' = NoFile /\ SetBadge("fail")
       ELSE capture' = [capture EXCEPT !.pc = "send"] /\ UNCHANGED badge
    /\ UNCHANGED <<sessionVars, pageVars, uploads>>

UploadAnswered ==
    /\ capture.pc = "send"
    /\ uploads' = uploads \cup {capture.size}
    /\ capture' = NoFile
    /\ SetBadge("ok")
    /\ UNCHANGED <<sessionVars, pageVars>>
-----------------------------------------------------------------------------
Init ==
    /\ token \in {NoToken, 1} /\ granted = 1
    /\ account \in {Unset, 1}
    /\ pass \in {NoPass, account} /\ timer = IF pass = NoPass THEN "off" ELSE "armed"
    /\ options = Closed /\ popup = ClosedPopup /\ launcher = Closed
    /\ capture = NoFile /\ badge = [text |-> "none", timers |-> 0] /\ uploads = {}
    /\ events = 0

TimerFires ==
    /\ timer = "due"
    /\ ClearRuntimeSession
    /\ UNCHANGED <<token, account, pageVars, kairoVars>>

(* The worker is stopped: the session and a capture in progress are lost;  *)
(* the pages live on.                                                      *)
WorkerStops ==
    /\ ClearRuntimeSession
    /\ popup' = IF popup.pc = "arm" THEN [popup EXCEPT !.pc = "idle"] ELSE popup
    /\ capture' = NoFile
    /\ badge' = [badge EXCEPT !.timers = 0]
    /\ UNCHANGED <<token, account, granted, options, launcher, uploads>>

OptionsStep == ConnectApproved \/ ConnectEnds \/ TestAnswered \/ SignOutClears \/ SignOutForgets
PopupStep == IndexAnswered \/ ValidateSavedPassphrase \/ UnlockStored \/ UnlockArmed
                \/ EntryRequestAnswered
LauncherStep == LauncherAnswered \/ CaptureAnswered
CaptureStep == HeadAnswered \/ (\E claim \in Claims : GetAnswered(claim)) \/ BlobRead \/ UploadAnswered
SessionStep == TimerFires \/ (DeadlinePasses /\ UNCHANGED <<pageVars, kairoVars>>)

Input ==
    /\ events < MaxEvents
    /\ events' = events + 1
    /\ \/ OptionsOpens \/ HandleConnect \/ PairingFallback \/ HandleTest \/ HandleSignOut
       \/ HandleClearPassphrase
       \/ PopupOpens \/ HandleLock \/ (\E p \in Passwords : HandleUnlockSubmit(p))
       \/ (\E op \in {"create", "load"} : EntryRequest(op))
       \/ LauncherOpens \/ HandleCapture \/ PageCloses
       \/ (\E n \in 0 .. MaxFile + 1 : CaptureFile(n)) \/ CaptureFails
       \/ WorkerStops
       \/ (AccountPasswordChanges /\ UNCHANGED <<pageVars, kairoVars>>)

Unasked(A) == A /\ UNCHANGED events

Next ==
    \/ Input
    \/ Unasked(OptionsStep) \/ Unasked(PopupStep) \/ Unasked(LauncherStep)
    \/ Unasked(CaptureStep) \/ Unasked(SessionStep) \/ Unasked(BadgeTimer)

Spec ==
    /\ Init /\ [][Next]_vars
    /\ WF_vars(Unasked(OptionsStep)) /\ WF_vars(Unasked(PopupStep)) /\ WF_vars(Unasked(LauncherStep))
    /\ WF_vars(Unasked(CaptureStep)) /\ WF_vars(Unasked(SessionStep)) /\ WF_vars(Unasked(BadgeTimer))
-----------------------------------------------------------------------------
TypeOK ==
    /\ SessionTypeOK
    /\ token \in 0 .. MaxGrants /\ granted \in 0 .. MaxGrants
    /\ popup.pwd \in Passwords \cup {NoPass} /\ badge.timers \in Nat

(* An unlocked manager that has its key data at hand opens the key with    *)
(* its copy of the password: a password changed on the web site, a failed  *)
(* reload or a lock in another page never leaves it showing entries it     *)
(* cannot decrypt (refreshNerveIndex, validateSavedPassphrase).            *)
ManagerKeyOpens ==
    popup.pc = "idle" /\ popup.pwd # NoPass /\ popup.wrapped # Unset
        => Unwraps(popup.wrapped, popup.pwd)

(* The session's passphrase is one that opened the account's data key, now *)
(* or before: what the user mistyped is never kept (handleUnlockSubmit).   *)
SessionWasVerified == pass # NoPass => pass <= account

(* No file above the limit is uploaded, whatever the headers of the remote *)
(* server claim (captureFileToKairo).                                      *)
NoOversizeUpload == \A n \in uploads : n <= MaxFile

(* Once the user is idle the session locks, whichever page unlocked it and *)
(* whatever happened to that page since (scheduleSessionPassphraseExpiry). *)
IdleVaultLocks == pass # NoPass ~> pass = NoPass

(* Every busy page comes to rest: connecting ends with a token, a refusal  *)
(* or the deadline of pollPairingStatus, and no request hangs a button.    *)
PagesSettle ==
    []<>(options.pc \in {"idle", "closed"} /\ popup.pc \in {"idle", "closed"}
            /\ launcher.pc \in {"idle", "closed"})
(* What the pages leave behind: keys that open, passphrases that were      *)
(* verified, files within the limit.                                       *)
PagesHold == TypeOK /\ ManagerKeyOpens /\ SessionWasVerified /\ NoOversizeUpload
=============================================================================
