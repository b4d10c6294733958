---------------------------- MODULE AtomineForm -----------------------------
(***************************************************************************)
(* A form behind the Atomine check: the hooks AtominePow and FormSubmit of *)
(* form_hooks.js on the registration form, and AtominePow alone on a form  *)
(* of a LiveView.  The first captures the submit event, works for a token  *)
(* and submits the form again; the second shows a spinner on the button.   *)
(*                                                                         *)
(* A token is the number of the work that earned it; 0 is the empty field. *)
(***************************************************************************)
EXTENDS Integers, Sequences, FiniteSets

CONSTANTS
    MaxTokens,  \* bound: tokens issued
    MaxTurns    \* bound: submits, edits and patches

VARIABLES
    live,       \* the form belongs to a LiveView
    stage,      \* solveAndIssueToken: "idle", "challenge", "proof", "work", "token"
    waiting,    \* calls of onSubmit that await the shared promise
    settled,    \* that promise: "pending", "token", "failed"
    skip,       \* dataset.atominePowSkip
    submitting, \* submittingWithToken
    field,      \* atomine_pow_token
    issued,     \* tokens the server gave out
    valid,      \* the browser would let the form go
    button,     \* its content ("own" or "spinner") and whether it is enabled
    resets,     \* the content each reset timer of FormSubmit puts back
    submits,    \* history: the tokens submitted
    hasty,      \* history: a submit came while a work was under way
    turns

formVars == <<live, stage, waiting, settled, skip, submitting, field, issued, valid, button,
              resets, submits, hasty, turns>>

Own == [text |-> "own", enabled |-> TRUE]

(* mounted, resetSubmissionState.                                          *)
FormInit ==
    /\ live \in BOOLEAN
    /\ stage = "idle" /\ waiting = 0 /\ settled = "pending"
    /\ skip = FALSE /\ submitting = FALSE /\ field = 0
    /\ issued = 0 /\ valid = TRUE /\ button = Own /\ resets = <<>>
    /\ submits = <<>> /\ hasty = FALSE /\ turns = 0

Turn == turns < MaxTurns /\ turns' = turns + 1

(* The submit event that goes through: FormSubmit swaps the button's       *)
(* content, and the browser, or the LiveView, sends the fields.            *)
GoesOut ==
    /\ submits' = Append(submits, field)
    /\ IF live THEN UNCHANGED <<button, resets>>
       ELSE /\ button' = [text |-> "spinner", enabled |-> FALSE]
            /\ resets' = Append(resets, button.text)

\* Mutant: a submit that went through leaves the mark that let it.
SkipTaken_Kept == skip' = TRUE

(* delete this.form.dataset.atominePowSkip                                 *)
SkipTaken == skip' = FALSE

(* onSubmit of a submit that the user, or the hook, caused.                *)
Passes ==
    /\ skip
    /\ SkipTaken /\ submitting' = FALSE
    /\ GoesOut
    /\ UNCHANGED <<stage, waiting, settled>>

(* ensureToken: the work that is under way is shared.  A submit while       *)
(* submittingWithToken is swallowed; as it is set and reset together with  *)
(* the mark, none is.                                                      *)
EnsureToken ==
    /\ ~skip
    /\ IF submitting THEN UNCHANGED <<stage, waiting, settled>>
       ELSE /\ waiting' = waiting + 1
            /\ IF stage = "idle"
               THEN issued < MaxTokens /\ stage' = "challenge" /\ settled' = "pending"
               ELSE UNCHANGED <<stage, settled>>
    /\ UNCHANGED <<skip, submitting, submits, button, resets>>

UserSubmits ==
    /\ valid /\ button.enabled /\ waiting < 2 /\ Turn
    /\ Passes \/ EnsureToken
    /\ hasty' = (hasty \/ stage # "idle" \/ waiting > 0)
    /\ UNCHANGED <<live, field, issued, valid>>

(* A step of solveAndIssueToken succeeds: the challenge comes, the checks  *)
(* of the browser hold, a solution has enough leading zero bits.           *)
Advances(from, to) ==
    /\ stage = from /\ stage' = to
    /\ UNCHANGED <<live, waiting, settled, skip, submitting, field, issued, valid, button,
                   resets, submits, hasty, turns>>
ChallengeComes == Advances("challenge", "proof")
ProofHolds == Advances("proof", "work")
WorkIsDone == Advances("work", "token")

(* The token comes; the promise settles, and inFlight is null.             *)
TokenComes ==
    /\ stage = "token" /\ stage' = "idle"
    /\ issued' = issued + 1 /\ field' = issued'
    /\ settled' = "token"
    /\ UNCHANGED <<live, waiting, skip, submitting, valid, button, resets, submits, hasty, turns>>

StepFails ==
    /\ stage \in {"challenge", "proof", "token"} /\ stage' = "idle"
    /\ settled' = "failed"
    /\ UNCHANGED <<live, waiting, skip, submitting, field, issued, valid, button, resets,
                   submits, hasty, turns>>

(* onSubmit after its await; the calls that share the promise go on one    *)
(* after the other before anything else runs.  requestSubmit does nothing  *)
(* on a form that became invalid during the work, and the mark stays.      *)
RequestSubmit ==
    /\ stage = "idle" /\ waiting > 0 /\ settled = "token"
    /\ waiting' = waiting - 1
    /\ IF valid
       THEN SkipTaken /\ submitting' = FALSE /\ GoesOut
       ELSE skip' = TRUE /\ submitting' = TRUE /\ UNCHANGED <<submits, button, resets>>
    /\ UNCHANGED <<live, stage, settled, field, issued, valid, hasty, turns>>

SecurityCheckFailed ==
    /\ stage = "idle" /\ waiting > 0 /\ settled = "failed"
    /\ waiting' = waiting - 1 /\ field' = 0
    /\ UNCHANGED <<live, stage, settled, skip, submitting, issued, valid, button, resets,
                   submits, hasty, turns>>

Quiet == waiting = 0 \/ stage # "idle"     \* no such continuation is due

EditsField ==
    /\ Quiet /\ Turn
    /\ valid' = ~valid
    /\ UNCHANGED <<live, stage, waiting, settled, skip, submitting, field, issued, button,
                   resets, submits, hasty>>

(* updated: a patch of the LiveView.                                       *)
Updated ==
    /\ Quiet /\ Turn
    /\ IF stage = "idle" THEN submitting' = FALSE /\ skip' = FALSE /\ field' = 0
       ELSE UNCHANGED <<submitting, skip, field>>
    /\ UNCHANGED <<live, stage, waiting, settled, issued, valid, button, resets, submits, hasty>>

(* The 30 s of a FormSubmit timer are over.                                *)
SubmitResets ==
    /\ Quiet /\ resets # <<>>
    /\ button' = [text |-> Head(resets), enabled |-> TRUE]
    /\ resets' = Tail(resets)
    /\ UNCHANGED <<live, stage, waiting, settled, skip, submitting, field, issued, valid, submits,
                   hasty, turns>>

FormNext ==
    \/ (Quiet /\ UserSubmits) \/ ChallengeComes \/ ProofHolds \/ WorkIsDone \/ TokenComes
    \/ StepFails \/ RequestSubmit \/ SecurityCheckFailed \/ EditsField \/ Updated
    \/ SubmitResets

FormSpec == FormInit /\ [][FormNext]_formVars

(* Properties ------------------------------------------------------------*)

(* Every submission that goes out carries a token, and none carries one    *)
(* that was submitted before, whatever fails, is edited or is patched      *)
(* while the work runs: for someone who submits once and waits             *)
(* (onSubmit, resetSubmissionState; the server takes a token once).        *)
TokenSpentOnce ==
    ~hasty => /\ \A i \in DOMAIN submits : submits[i] # 0
              /\ \A i, j \in DOMAIN submits : submits[i] = submits[j] => i = j
=============================================================================
