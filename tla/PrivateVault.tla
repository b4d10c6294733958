---------------------------- MODULE PrivateVault ----------------------------
(***************************************************************************)
(* The encrypted-data vault of an account and its private mailbox, as the  *)
(* tabs of one browser use them: vault_session.js, vault_hooks.js,         *)
(* vault_crypto.js, nerve_hooks.js, the mailbox_private_* hooks, and the   *)
(* server that stores what they wrapped.                                   *)
(*                                                                         *)
(* The account has one Master Data Key (MDK), wrapped once with the        *)
(* account password and once with a recovery code; the mailbox has a       *)
(* private key, wrapped with a secret or with a key derived from the MDK.  *)
(* A page carries the wrapped keys that were stored when it was rendered.  *)
(* MDKs, recovery codes and mailbox keys are numbers, each used once.      *)
(* Key derivation, wrapping and decryption are awaits: an asynchronous     *)
(* call is a record in a slot of its tab, and everything may happen        *)
(* between two of its steps.  AES-GCM authenticates, so that unwrapping    *)
(* succeeds with the right secret only.                                    *)
(***************************************************************************)
EXTENDS Naturals, FiniteSets

CONSTANTS
    Tabs,
    Slots,      \* asynchronous calls a tab runs at once
    Views,      \* hooks that show decrypted mail: messages, attachments, drafts
    Passwords,  \* account passwords and mailbox passphrases
    MaxMade,    \* bound: keys and codes made
    MaxEvents   \* bound: what the user does

ASSUME PrivateVaultAssumption == MaxMade \in Nat /\ MaxEvents \in Nat

VARIABLES
    password,   \* server: the account's password
    vault,      \* server: account_master_keys
    box,        \* server: private storage of the mailbox
    entries,    \* server: MDKs that saved entries are encrypted under
    made,       \* keys and codes made
    tab,        \* tab -> its page and its session
    task,       \* tab -> slot -> asynchronous call
    reset,      \* history: the vault was reset
    events

serverVars == <<password, vault, box, entries>>
vars == <<serverVars, made, tab, task, reset, events>>

None == 0
NoVault == [mdk |-> None]
NoBox == [mode |-> "none", key |-> None, under |-> None, verifier |-> None]
NoForm == [kind |-> "none"]
Idle == [kind |-> "idle"]
Modes == {"master", "account_password", "separate_passphrase"}
Page == [vault |-> vault, box |-> box]

\* calm is history: the mailbox was locked with nothing of it in flight, and
\* no one has asked for it since.
NewTab(mdk, page) ==
    [mdk |-> mdk, feature |-> None, page |-> page, form |-> NoForm, key |-> None,
     suppressed |-> FALSE, failed |-> FALSE, due |-> FALSE, shown |-> {},
     rendering |-> {}, calm |-> FALSE]

\* Mutant: a mailbox the user locked opens by itself again.
AutoUnlockAllowed_Always(r) == r.page.box.mode = "master" /\ r.key = None /\ r.mdk # None

(* The early returns of maybeAutoUnlock (getCachedLoginPassword has no     *)
(* password: only a mailbox that hangs on the vault opens by itself).      *)
AutoUnlockAllowed(r) ==
    /\ ~r.suppressed
    /\ r.page.box.mode = "master" /\ r.key = None
    /\ r.mdk # None

(* What a mount, a patch and a change of the vault do: maybeAutoUnlock     *)
(* passes its early returns, or not, at once.                              *)
Asked(r) == IF AutoUnlockAllowed(r) THEN [r EXCEPT !.due = TRUE] ELSE r

(* What an account may have when its pages are first loaded: nothing, or a *)
(* vault, with a mailbox in any of its modes or without one.               *)
StoredBox(mode, p) ==
    [mode |-> mode, key |-> 3, under |-> IF mode = "master" THEN 1 ELSE p,
     verifier |-> IF mode = "master" THEN 1 ELSE p]
Accounts(p) ==
    LET v == [mdk |-> 1, secret |-> p, rmdk |-> 1, code |-> 2]
    IN  {[vault |-> NoVault, box |-> NoBox], [vault |-> v, box |-> NoBox]}
          \cup {[vault |-> v, box |-> StoredBox(mode, p)] : mode \in Modes}

Init ==
    /\ password \in Passwords
    /\ \E page \in Accounts(password) :
          /\ vault = page.vault /\ box = page.box
          /\ tab = [t \in Tabs |-> NewTab(None, page)]
    /\ entries = {}
    /\ made = 3
    /\ task = [t \in Tabs |-> [s \in Slots |-> Idle]]
    /\ reset = FALSE /\ events = 0

Begin(t, call) ==
    \E s \in Slots :
        /\ task[t][s] = Idle
        /\ \A r \in Slots : r < s => task[t][r] # Idle
        /\ task' = [task EXCEPT ![t][s] = call]

End(t, s) == task' = [task EXCEPT ![t][s] = Idle]
Fresh(n) == made + n <= MaxMade /\ made' = made + n

-----------------------------------------------------------------------------
(* vault_session *)

(* unlock, and onVaultChange of the mailbox: it will try to open again.    *)
Unlocked(r, mdk) ==
    Asked([r EXCEPT !.mdk = mdk, !.feature = None, !.failed = FALSE])

(* lock, and onVaultChange: a mailbox that hangs on the vault loses its    *)
(* key.  What it shows stays.                                              *)
Locked(r) ==
    [r EXCEPT !.mdk = None, !.feature = None,
              !.key = IF r.page.box.mode = "master" THEN None ELSE @]

(* featureKey, as the step of a call that asks for it: refused, answered   *)
(* from the cache, or derived from the MDK of this moment.                 *)
FeatureKey(t, s) ==
    LET c == task[t][s]
        r == tab[t]
    IN  /\ c.kind \in {"mail", "entry", "boxsetup"} /\ c.pc = "key"
        /\ task' = [task EXCEPT ![t][s] =
             CASE r.mdk = None -> [c EXCEPT !.pc = "failed"]
               [] r.mdk # None /\ r.feature # None -> [c EXCEPT !.pc = "use", !.fk = r.feature]
               [] OTHER -> [c EXCEPT !.pc = "derive", !.fk = r.mdk]]
        /\ UNCHANGED <<serverVars, made, tab, reset>>

(* deriveFeatureKey ends: the key is cached, whatever happened meanwhile.  *)
DeriveFeatureKey(t, s) ==
    /\ task[t][s].kind \in {"mail", "entry", "boxsetup"} /\ task[t][s].pc = "derive"
    /\ tab' = [tab EXCEPT ![t].feature = task[t][s].fk]
    /\ task' = [task EXCEPT ![t][s].pc = "use"]
    /\ UNCHANGED <<serverVars, made, reset>>

-----------------------------------------------------------------------------
(* VaultManager, and the unlock forms of Nerve and of the mailbox *)

Secret(mdk, secret) == [mdk |-> mdk, secret |-> secret]

Setup(t, p) ==
    /\ tab[t].page.vault = NoVault
    /\ Fresh(2)
    /\ Begin(t, [kind |-> "setup", pc |-> "dek", secret |-> p, mdk |-> made + 1, code |-> made + 2])
    /\ UNCHANGED <<serverVars, tab, reset>>

(* recover, with the code of the page's vault.                             *)
Recover(t, p) ==
    LET v == tab[t].page.vault
    IN  /\ v # NoVault
        /\ Fresh(1)
        /\ Begin(t, [kind |-> "recover", pc |-> "dek", secret |-> p, mdk |-> v.rmdk, code |-> made + 1])
        /\ UNCHANGED <<serverVars, tab, reset>>

(* The MDK is wrapped with the password; wrapping it with the code is next.*)
WrapMdk(t, s) ==
    LET c == task[t][s]
    IN  /\ c.kind \in {"setup", "recover"} /\ c.pc = "dek"
        /\ task' = [task EXCEPT ![t][s].pc = "recovery"]
        /\ UNCHANGED <<serverVars, made, tab, reset>>

(* The end of setup and of recover: fields, session and the code on        *)
(* display change together.                                                *)
FormReady(t, s) ==
    LET c == task[t][s]
        form == [kind |-> c.kind, dek |-> Secret(c.mdk, c.secret),
                 rec |-> Secret(c.mdk, c.code), out |-> c.code]
    IN  /\ c.kind \in {"setup", "recover"} /\ c.pc = "recovery"
        /\ tab' = [tab EXCEPT ![t] = Unlocked([@ EXCEPT !.form = form], c.mdk)]
        /\ End(t, s)
        /\ UNCHANGED <<serverVars, made, reset>>

Stored(form) ==
    [mdk |-> form.dek.mdk, secret |-> form.dek.secret, rmdk |-> form.rec.mdk, code |-> form.rec.secret]

\* Mutant: a vault that is there is set up again.
SetupAllowed_Always == TRUE

(* Vault.setup: replacing the key would orphan what is encrypted.          *)
SetupAllowed == vault = NoVault

(* verify_current_password.                                                *)
Verified(secret) == secret = password

(* finishSetup and finishRecovery; "setup_master" and "rotate_master".     *)
FinishForm(t) ==
    LET f == tab[t].form
    IN  /\ f # NoForm
        /\ IF Verified(f.dek.secret) /\ (IF f.kind = "setup" THEN SetupAllowed ELSE vault # NoVault)
           THEN /\ vault' = Stored(f)
                /\ tab' = [tab EXCEPT ![t].form = NoForm, ![t].page.vault = vault']
           ELSE UNCHANGED <<vault, tab>>
        /\ UNCHANGED <<password, box, entries, made, task, reset>>

(* VaultManager.unlock, Nerve.unlock, handleMasterVaultUnlock; with then,  *)
(* handleUnlock of a mailbox that hangs on the vault.                      *)
Unlock(t, p, then) ==
    LET v == tab[t].page.vault
    IN  /\ v # NoVault
        /\ then => tab[t].page.box.mode = "master" /\ tab[t].mdk = None
        /\ Begin(t, [kind |-> "unlock", secret |-> p, wrapped |-> v, then |-> then])
        /\ tab' = IF then THEN [tab EXCEPT ![t].calm = FALSE] ELSE tab
        /\ UNCHANGED <<serverVars, made, reset>>

MailCall(b, auto) == [kind |-> "mail", pc |-> "key", fk |-> None, stage |-> 1, box |-> b, auto |-> auto]

UnwrapMdk(t, s) ==
    LET c == task[t][s]
        opens == c.secret = c.wrapped.secret
    IN  /\ c.kind = "unlock"
        /\ tab' = IF opens THEN [tab EXCEPT ![t] = Unlocked(@, c.wrapped.mdk)] ELSE tab
        /\ task' = [task EXCEPT ![t][s] =
                      IF opens /\ c.then THEN MailCall(tab[t].page.box, FALSE) ELSE Idle]
        /\ UNCHANGED <<serverVars, made, reset>>

LockVault(t) ==
    /\ tab[t].mdk # None
    /\ tab' = [tab EXCEPT ![t] = Locked(@)]
    /\ UNCHANGED <<serverVars, made, task, reset>>

(* The reset button: the tab locks, "reset_master" deletes the vault and   *)
(* the mailbox's private storage.                                          *)
ResetVault(t) ==
    /\ tab[t].page.vault # NoVault /\ ~reset
    /\ vault' = NoVault /\ box' = NoBox /\ reset' = TRUE
    /\ tab' = [tab EXCEPT ![t] = [Locked(@) EXCEPT !.page = [vault |-> NoVault, box |-> NoBox]]]
    /\ UNCHANGED <<password, entries, made, task>>

(* saveEntry of Nerve; the server refuses entries without a vault.         *)
SaveEntry(t) ==
    /\ tab[t].mdk # None
    /\ Begin(t, [kind |-> "entry", pc |-> "key", fk |-> None])
    /\ UNCHANGED <<serverVars, made, tab, reset>>

EntryEncrypted(t, s) ==
    LET c == task[t][s]
    IN  /\ c.kind = "entry" /\ c.pc \in {"use", "failed"}
        /\ entries' = IF c.pc = "use" /\ vault # NoVault THEN entries \cup {c.fk} ELSE entries
        /\ End(t, s)
        /\ UNCHANGED <<password, vault, box, made, tab, reset>>

-----------------------------------------------------------------------------
(* The private mailbox *)

MailInFlight(t) ==
    \/ \E s \in Slots : task[t][s].kind \in {"mail", "phrase"}
    \/ \E s \in Slots : task[t][s].kind = "unlock" /\ task[t][s].then
    \/ tab[t].due \/ tab[t].rendering # {}

(* renderPrivateContent and applyPrefill on an event or a patch: with the  *)
(* key they start to decrypt, without it they put the placeholders back.   *)
Rendered(r) ==
    IF r.key # None THEN [r EXCEPT !.rendering = Views]
    ELSE [r EXCEPT !.shown = {}]

RenderEnds(t, v) ==
    /\ v \in tab[t].rendering
    /\ tab' = [tab EXCEPT ![t].rendering = @ \ {v}, ![t].shown = @ \cup {v}]
    /\ UNCHANGED <<serverVars, made, task, reset>>

(* maybeAutoUnlock past its early returns.                                 *)
MaybeAutoUnlock(t) ==
    /\ tab[t].due
    /\ tab' = [tab EXCEPT ![t].due = FALSE]
    /\ Begin(t, MailCall(tab[t].page.box, TRUE))
    /\ UNCHANGED <<serverVars, made, reset>>

(* handleUnlock with the vault open, or with the mailbox's own secret.     *)
HandleUnlock(t, p) ==
    LET b == tab[t].page.box
    IN  /\ b # NoBox
        /\ b.mode = "master" => tab[t].mdk # None
        /\ Begin(t, IF b.mode = "master" THEN MailCall(b, FALSE)
                    ELSE [kind |-> "phrase", pc |-> "unwrap", secret |-> p, box |-> b])
        /\ tab' = [tab EXCEPT ![t].calm = FALSE]
        /\ UNCHANGED <<serverVars, made, reset>>

(* unlockMailboxWithMaster: the verifier, then the private key, each with  *)
(* the feature key of its moment; unlockMailbox with a secret.             *)
UnwrapMailboxKey(t, s) ==
    LET c == task[t][s]
        opens == CASE c.kind = "phrase" -> c.secret = c.box.under
                   [] c.kind = "mail" /\ c.stage = 1 -> c.fk = c.box.verifier
                   [] OTHER -> c.fk = c.box.under
    IN  /\ \/ c.kind = "mail" /\ c.pc = "use"
           \/ c.kind = "phrase" /\ c.pc = "unwrap"
        /\ task' = [task EXCEPT ![t][s] =
             CASE ~opens -> [c EXCEPT !.pc = "failed"]
               [] opens /\ c.kind = "mail" /\ c.stage = 1 -> [c EXCEPT !.pc = "key", !.stage = 2]
               [] OTHER -> [c EXCEPT !.pc = "import"]]
        /\ UNCHANGED <<serverVars, made, tab, reset>>

(* importAndStorePrivateKey, the unlocked event, and what follows.         *)
StorePrivateKey(t, s) ==
    LET c == task[t][s]
        auto == c.kind = "mail" /\ c.auto
    IN  /\ c.kind \in {"mail", "phrase"} /\ c.pc = "import"
        /\ tab' = [tab EXCEPT ![t] =
             Rendered([@ EXCEPT !.key = c.box.key,
                                !.failed = ~auto /\ tab[t].failed,
                                !.suppressed = auto /\ tab[t].suppressed])]
        /\ End(t, s)
        /\ UNCHANGED <<serverVars, made, reset>>

UnlockFailed(t, s) ==
    LET c == task[t][s]
    IN  /\ c.kind \in {"mail", "phrase"} /\ c.pc = "failed"
        /\ tab' = IF c.kind = "mail" /\ c.auto THEN [tab EXCEPT ![t].failed = TRUE] ELSE tab
        /\ End(t, s)
        /\ UNCHANGED <<serverVars, made, reset>>

HandleLock(t) ==
    /\ tab[t].page.box # NoBox
    /\ tab' = [tab EXCEPT ![t] = Rendered([@ EXCEPT !.key = None, !.suppressed = TRUE,
                                                    !.calm = ~MailInFlight(t)])]
    /\ UNCHANGED <<serverVars, made, task, reset>>

(* handleSetup of the mailbox.                                             *)
HandleSetup(t, mode, p) ==
    /\ tab[t].page.box = NoBox
    /\ mode = "master" => tab[t].mdk # None
    /\ Fresh(1)
    /\ Begin(t, [kind |-> "boxsetup", pc |-> IF mode = "master" THEN "key" ELSE "submit",
                 fk |-> None, stage |-> 1, mode |-> mode, secret |-> p,
                 key |-> made + 1, under |-> p])
    /\ UNCHANGED <<serverVars, tab, reset>>

(* wrapBytesWithMasterKey, of the private key and then of the verifier.    *)
WrapWithMasterKey(t, s) ==
    LET c == task[t][s]
    IN  /\ c.kind = "boxsetup" /\ c.pc = "use"
        /\ task' = [task EXCEPT ![t][s] =
             IF c.stage = 1 THEN [c EXCEPT !.pc = "key", !.stage = 2, !.under = c.fk]
             ELSE [c EXCEPT !.pc = "submit"]]
        /\ UNCHANGED <<serverVars, made, tab, reset>>

(* "private_mailbox_setup": the server checks the password of a mailbox    *)
(* that opens with it, and the page shows the new mailbox.                 *)
MailboxSubmitted(t, s) ==
    LET c == task[t][s]
        new == [mode |-> c.mode, key |-> c.key, under |-> c.under,
                verifier |-> IF c.mode = "master" THEN c.fk ELSE c.secret]
    IN  /\ c.kind = "boxsetup" /\ c.pc \in {"submit", "failed"}
        /\ IF c.pc = "submit" /\ (c.mode = "account_password" => Verified(c.secret))
           THEN /\ box' = new
                /\ tab' = [tab EXCEPT ![t] = Asked(Rendered([@ EXCEPT !.page.box = new]))]
           ELSE UNCHANGED <<box, tab>>
        /\ End(t, s)
        /\ UNCHANGED <<password, vault, entries, made, reset>>

-----------------------------------------------------------------------------
(* Changing the account password *)

RewrapsVault(c) == c.page.vault # NoVault
RewrapsBox(c) == c.page.box.mode = "account_password"

(* bindPrivateMailboxPasswordForm: a submit is held until what the         *)
(* password opens has been wrapped with the new one.                       *)
ChangePassword(t, cur, new) ==
    /\ cur # new
    /\ Begin(t, [kind |-> "password", cur |-> cur, new |-> new, page |-> tab[t].page])
    /\ UNCHANGED <<serverVars, made, tab, reset>>

\* Mutant: a change without the vault's part is accepted.
RewrapComplete_NoVault(c) == box.mode = "account_password" => RewrapsBox(c)

(* maybe_rewrap_encrypted_data and maybe_rewrap_private_mailbox: what is   *)
(* stored now must have been wrapped anew.                                 *)
RewrapComplete(c) ==
    /\ vault # NoVault => RewrapsVault(c)
    /\ box.mode = "account_password" => RewrapsBox(c)

(* The keys are wrapped anew, if the current password opens them, and the  *)
(* form goes out: update_user_password, one transaction.  The answer is a  *)
(* new page.                                                               *)
PasswordSubmitted(t, s) ==
    LET c == task[t][s]
        opens == /\ RewrapsVault(c) => c.page.vault.secret = c.cur
                 /\ RewrapsBox(c) => c.page.box.under = c.cur
    IN  /\ c.kind = "password"
        /\ IF opens /\ Verified(c.cur) /\ RewrapComplete(c)
           THEN /\ password' = c.new
                /\ vault' = IF vault = NoVault \/ ~RewrapsVault(c) THEN vault
                            ELSE [c.page.vault EXCEPT !.secret = c.new]
                /\ box' = IF box.mode # "account_password" \/ ~RewrapsBox(c) THEN box
                          ELSE [c.page.box EXCEPT !.under = c.new, !.verifier = c.new]
           ELSE UNCHANGED <<password, vault, box>>
        /\ IF opens THEN /\ tab' = [tab EXCEPT ![t] = Asked(NewTab(@.mdk, [vault |-> vault', box |-> box']))]
                         /\ task' = [task EXCEPT ![t] = [r \in Slots |-> Idle]]
           ELSE UNCHANGED tab /\ End(t, s)
        /\ UNCHANGED <<entries, made, reset>>

(* A page is loaded: the MDK is read back from sessionStorage.  Following  *)
(* a link within the application keeps what the modules have in memory.    *)
LoadPage(t, full) ==
    /\ tab' = [tab EXCEPT ![t] =
         Asked(IF full THEN NewTab(@.mdk, Page)
               ELSE Rendered([NewTab(@.mdk, Page) EXCEPT !.feature = tab[t].feature, !.key = tab[t].key]))]
    /\ task' = IF full THEN [task EXCEPT ![t] = [s \in Slots |-> Idle]] ELSE task
    /\ UNCHANGED <<serverVars, made, reset>>

-----------------------------------------------------------------------------

UserActs(t) ==
    \/ \E p \in Passwords :
          \/ Setup(t, p) \/ Recover(t, p) \/ HandleUnlock(t, p)
          \/ \E then \in BOOLEAN : Unlock(t, p, then)
          \/ \E mode \in Modes : HandleSetup(t, mode, p)
          \/ \E q \in Passwords : ChangePassword(t, p, q)
    \/ LockVault(t) \/ ResetVault(t) \/ SaveEntry(t) \/ HandleLock(t)
    \/ \E full \in BOOLEAN : LoadPage(t, full)

CallSteps(t, s) ==
    \/ FeatureKey(t, s) \/ DeriveFeatureKey(t, s)
    \/ WrapMdk(t, s) \/ FormReady(t, s) \/ UnwrapMdk(t, s) \/ EntryEncrypted(t, s)
    \/ UnwrapMailboxKey(t, s) \/ StorePrivateKey(t, s) \/ UnlockFailed(t, s)
    \/ WrapWithMasterKey(t, s) \/ MailboxSubmitted(t, s) \/ PasswordSubmitted(t, s)

Next ==
    \/ events < MaxEvents /\ events' = events + 1 /\ \E t \in Tabs : UserActs(t)
    \/ events' = events /\ \E t \in Tabs : FinishForm(t) \* once for each form
    \/ events' = events /\ \E t \in Tabs : MaybeAutoUnlock(t)
    \/ events' = events /\ \E t \in Tabs, v \in Views : RenderEnds(t, v)
    \/ events' = events /\ \E t \in Tabs, s \in Slots : CallSteps(t, s)

Spec == Init /\ [][Next]_vars

-----------------------------------------------------------------------------
(* The password and the recovery code open the same MDK, whichever pages   *)
(* and forms wrote them: FormReady, FinishForm, PasswordSubmitted.         *)
OneKeyTwoLocks == vault # NoVault => vault.mdk = vault.rmdk

(* The account password opens what it should, the vault and a mailbox in   *)
(* account_password mode, however setups, recoveries and changes of the    *)
(* password from several tabs with old pages interleave.                   *)
PasswordOpens ==
    /\ vault # NoVault => vault.secret = password
    /\ box.mode = "account_password" => box.under = password

(* "Replacing it would orphan everything encrypted under the old MDK":     *)
(* until the user resets the vault, its MDK stays the one first stored.    *)
MdkKept == [][vault # NoVault /\ ~reset' => vault'.mdk = vault.mdk]_vars

(* A mailbox locked with nothing in flight stays locked and shows nothing, *)
(* whatever the vault does, until someone asks for it.                     *)
LockSticks == \A t \in Tabs : tab[t].calm => tab[t].key = None /\ tab[t].shown = {}

(* While the panel says that the mailbox is being unlocked and hides its   *)
(* form (autoUnlockPending), a call that will end this is on its way: the  *)
(* user is never left in front of a panel that waits for nothing.          *)
UnlockPending(t) == AutoUnlockAllowed(tab[t]) /\ ~tab[t].failed

PendingIsUnderway ==
    \A t \in Tabs : UnlockPending(t) =>
        tab[t].due \/ \E s \in Slots : task[t][s].kind = "mail"
(* What was set up can be opened: one data key behind both locks, and the  *)
(* password of the account on the vault and the mailbox.                   *)
VaultOpens == OneKeyTwoLocks /\ PasswordOpens

(* A mailbox stays locked until asked for, and a panel that waits for an   *)
(* unlock waits for one that comes.                                        *)
MailboxLocks == LockSticks /\ PendingIsUnderway
=============================================================================
