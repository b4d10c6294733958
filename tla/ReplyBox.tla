------------------------------ MODULE ReplyBox ------------------------------
(***************************************************************************)
(* The box of a reply: the hook AutoExpandTextarea of chat_hooks.js, in a  *)
(* form that a LiveView handles.  The height of the box is left out.       *)
(*                                                                         *)
(* Time is counted in tenths of a second.  A draft is what is in the box   *)
(* between two edits: its number, and what it says.                        *)
(***************************************************************************)
EXTENDS Integers, Sequences, FiniteSets

CONSTANTS
    Texts,      \* what one may type
    MaxTime,    \* bound: tenths of a second
    MaxDrafts   \* bound: drafts typed

Clearing == 1       \* queueTimeout(..., 100)
SameText == 5       \* (now - this.lastSentTime) < 500

Empty == [draft |-> 0, text |-> "empty"]

VARIABLES
    now,
    box,
    typed,      \* drafts typed so far
    sending,    \* sendingMessage
    last,       \* lastSentContent and lastSentTime
    timers,     \* clearing timers: when they are due, and which were set by the key
    disabled,   \* the button of the form
    locked,     \* the LiveView has not answered the form: the box takes no text
    sent,       \* history: the drafts that the form was submitted with
    clicked     \* history: the button was used

boxVars == <<now, box, typed, sending, last, timers, disabled, locked, sent, clicked>>

BoxInit ==
    /\ now = SameText /\ box = Empty /\ typed = 0 /\ sending = FALSE
    /\ last = [text |-> "empty", time |-> 0]
    /\ timers = {} /\ disabled = FALSE /\ locked = FALSE /\ sent = <<>> /\ clicked = FALSE

Types(text) ==
    /\ ~locked /\ typed < MaxDrafts
    /\ typed' = typed + 1
    /\ box' = [draft |-> typed', text |-> text]
    /\ UNCHANGED <<now, sending, last, timers, disabled, locked, sent, clicked>>

(* submitFormPreservingEvents, or the browser: onFormSubmit, and the       *)
(* LiveView takes the fields and locks the form.                           *)
Submitted(byKey) ==
    /\ timers' = timers \cup {[due |-> now + Clearing, key |-> k] : k \in {FALSE, byKey}}
    /\ sent' = Append(sent, box.draft)
    /\ locked' = TRUE

\* Mutant: what was just sent is sent again.
JustSent_Never(text) == FALSE

(* content === this.lastSentContent && (now - this.lastSentTime) < 500     *)
JustSent(text) == text = last.text /\ now - last.time < SameText

(* onKeyDown: Enter without Shift.                                         *)
PressEnter ==
    /\ ~sending /\ box # Empty /\ ~JustSent(box.text) /\ Len(sent) < MaxDrafts + 1
    /\ sending' = TRUE
    /\ last' = [text |-> box.text, time |-> now]
    /\ Submitted(TRUE)
    /\ disabled' = TRUE
    /\ UNCHANGED <<now, box, typed, clicked>>

ClickSubmit ==
    /\ ~disabled /\ ~locked /\ box # Empty /\ Len(sent) < MaxDrafts + 1
    /\ Submitted(FALSE)
    /\ clicked' = TRUE
    /\ UNCHANGED <<now, box, typed, sending, last, disabled>>

(* A timer that is due empties the box, whatever is in it by then; the one *)
(* of the key ends the sending too.                                        *)
Clears(t) ==
    /\ t \in timers /\ t.due <= now
    /\ timers' = timers \ {t}
    /\ box' = Empty
    /\ sending' = (sending /\ ~t.key)
    /\ disabled' = (disabled /\ ~t.key)
    /\ UNCHANGED <<now, typed, last, locked, sent, clicked>>

(* The LiveView answers: the form is unlocked, and its button is enabled   *)
(* as it was before; the patch may reach the box (updated).                *)
Answered ==
    /\ locked /\ locked' = FALSE
    /\ disabled' = FALSE
    /\ sending' \in {sending, FALSE}
    /\ UNCHANGED <<now, box, typed, last, timers, sent, clicked>>

(* updated, after a patch for another reason.                              *)
Patched ==
    /\ sending /\ sending' = FALSE
    /\ UNCHANGED <<now, box, typed, last, timers, disabled, locked, sent, clicked>>

(* clear_message_input, reset_textarea.                                    *)
Reset ==
    /\ sent # <<>> /\ box # Empty
    /\ sending' = FALSE /\ disabled' = FALSE /\ box' = Empty
    /\ UNCHANGED <<now, typed, last, timers, locked, sent, clicked>>

(* Timers fire on time while the page is in front.                         *)
Tick ==
    /\ now < MaxTime /\ now' = now + 1
    /\ \A t \in timers : t.due > now
    /\ UNCHANGED <<box, typed, sending, last, timers, disabled, locked, sent, clicked>>

BoxNext ==
    \/ PressEnter \/ ClickSubmit \/ Answered \/ Patched \/ Reset \/ Tick
    \/ \E text \in Texts : Types(text)
    \/ \E t \in timers : Clears(t)

BoxSpec == BoxInit /\ [][BoxNext]_boxVars

(* Properties ------------------------------------------------------------*)

(* What was typed once is sent once, however often Enter is pressed,       *)
(* patches come and the answer takes: for someone who sends with Enter     *)
(* ("Enhanced duplicate prevention", onKeyDown).                           *)
EnterSendsOnce == ~clicked => \A i, j \in DOMAIN sent : sent[i] = sent[j] => i = j
=============================================================================
