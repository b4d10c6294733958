---------------------------- MODULE NerveSession ----------------------------
(***************************************************************************)
(* The unlocked session of the Nerve browser extension, kept by its        *)
(* background worker (clients/nerve-extension/background.js) in three      *)
(* module variables: sessionPassphrase, sessionPassphraseExpiresAt and     *)
(* sessionPassphraseTimer.  The last two are always set and reset together *)
(* and are one variable here.                                              *)
(*                                                                         *)
(* This module holds the state every context of the extension shares and   *)
(* the operations on it; NerveContent and NervePages add the contexts that *)
(* use it.                                                                 *)
(***************************************************************************)
EXTENDS Naturals, FiniteSets, Sequences

CONSTANT MaxPasswords   \* account passwords in the course of a behaviour

ASSUME NerveSessionAssumption == MaxPasswords \in Nat \ {0}

Passwords == 1 .. MaxPasswords  \* the n-th password the account has had
NoPass == 0                     \* the empty passphrase
Unset == 0                      \* the account has no encrypted data key yet

VARIABLES
    pass,           \* sessionPassphrase
    timer,          \* expiresAt and the timer: "off", "armed", or "due" once
                    \* the deadline has passed and nothing has run yet
    token,          \* the access token stored in chrome.storage.session
    account         \* server: the password that wraps the data key, or Unset

sessionVars == <<pass, timer, token, account>>

SessionTypeOK ==
    /\ pass \in Passwords \cup {NoPass}
    /\ timer \in {"off", "armed", "due"}
    /\ account \in Passwords \cup {Unset}

(* The assignments of clearRuntimeSessionPassphrase; the broadcast is the  *)
(* caller's.                                                               *)
ClearRuntimeSession == pass' = NoPass /\ timer' = "off"

(* scheduleSessionPassphraseExpiry: an empty passphrase is cleared again,  *)
(* any other one gets a fresh deadline.                                    *)
ScheduleExpiry ==
    IF pass = NoPass THEN ClearRuntimeSession
    ELSE timer' = "armed" /\ UNCHANGED pass

\* Mutant: only the timer ends a session.
DeadlinePassed_TimerOnly == FALSE

(* expireSessionPassphraseIfNeeded's condition: the deadline has passed    *)
(* though the timer's callback has not run (a suspended machine).          *)
DeadlinePassed == pass # NoPass /\ timer = "due"

(* unwrapWithSecret: authenticated decryption of the wrapped data key.     *)
Unwraps(wrapped, passphrase) == wrapped \in Passwords /\ wrapped = passphrase

(* The user sets up account-password encryption, or changes the password,  *)
(* on the web site.                                                        *)
AccountPasswordChanges ==
    /\ account < MaxPasswords
    /\ account' = account + 1
    /\ UNCHANGED <<pass, timer, token>>

(* Fifteen idle minutes go by.                                             *)
DeadlinePasses ==
    /\ timer = "armed"
    /\ timer' = "due"
    /\ UNCHANGED <<pass, token, account>>
=============================================================================
