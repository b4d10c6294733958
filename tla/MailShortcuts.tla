--------------------------- MODULE MailShortcuts ----------------------------
(***************************************************************************)
(* The keyboard of the mail pages: the hooks KeyboardShortcuts (lists),    *)
(* EmailShowKeyboardShortcuts (a message) and EmailComposeKeyboardShortcuts*)
(* of email_hooks.js and email_compose_shortcuts_hook.js, with the help    *)
(* dialogue of notification_system.js.                                     *)
(*                                                                         *)
(* A goto menu is a number; it stays until its cleanup runs.               *)
(***************************************************************************)
EXTENDS Integers, SequencesExt

CONSTANTS
    Mails,      \* mails of the mailbox
    MaxKeys     \* bound: keys, clicks, arrivals and changes of page

NoMenu == 0

VARIABLES
    kind,       \* the page: "inbox", "search", "show" or "compose"
    mails,      \* the mails listed, newest first
    node,       \* which #message-list is in the page, or 0
    watched,    \* what the observer was attached to: a node, or 0 for the body
    mailMessages, \* this.messages
    index,      \* selectedMessageIndex
    gotos,      \* goto menus on the screen, each with its handler and its timer
    cleanup,    \* gotoMenuCleanup
    help,       \* the dialogues with the keys: "global" (of the lists), "own"
    keys

mailVars == <<kind, mails, node, watched, mailMessages, index, gotos, cleanup, help, keys>>

(* What document.querySelectorAll('[id^="message-"]') finds: in the inbox  *)
(* the container and the check boxes too.                                  *)
Found(k, rs) ==
    LET Row(m) == [what |-> "row", mail |-> m]
    IN  CASE k = "search" -> [i \in DOMAIN rs |-> Row(rs[i])]
          [] k = "inbox" /\ rs # <<>> ->
                <<[what |-> "list", mail |-> rs[1]]>>
                    \o FlattenSeq([i \in DOMAIN rs |->
                           <<Row(rs[i]), [what |-> "box", mail |-> rs[i]]>>])
          [] OTHER -> <<>>


MailInit ==
    /\ kind \in {"inbox", "search"}
    /\ mails \in {<<m>> : m \in Mails}
    /\ node = IF kind = "inbox" THEN 1 ELSE 0
    /\ watched = node
    /\ mailMessages = Found(kind, mails) /\ index = -1
    /\ gotos = {} /\ cleanup = NoMenu /\ help = {} /\ keys = 0

Keys == keys < MaxKeys /\ keys' = keys + 1

(* destroyed of each of the hooks.                                         *)
HooksGo == gotos' = gotos \ {cleanup}

(* setupKeyboardShortcuts on page k.                                       *)
HooksCome(k) ==
    /\ kind' = k /\ UNCHANGED mails
    /\ node' = IF k = "inbox" /\ mails # <<>> THEN 1 ELSE 0
    /\ watched' = node'
    /\ mailMessages' = Found(k, mails) /\ index' = -1
    /\ cleanup' = NoMenu

(* A navigation inside the application: the hooks go, those of the next    *)
(* page come.  The help of the lists is no part of a hook.                 *)
Navigates(k) ==
    /\ HooksGo
    /\ HooksCome(k)
    /\ help' = help \ {"own"}

(* window.location.href = ...                                              *)
Loads(k) == HooksCome(k) /\ gotos' = {} /\ help' = {}

(* What the observer does when the children it watches change: nothing, if *)
(* it was attached to a list that was replaced.                            *)
UpdateMessageList(rs, n) ==
    IF watched = 0 \/ watched = n
    THEN /\ mailMessages' = Found(kind, rs)
         /\ index' = IF index >= Len(mailMessages') THEN Len(mailMessages') - 1 ELSE index
    ELSE UNCHANGED <<mailMessages, index>>

(* The server patches the list.                                            *)
ListPatched(rs) ==
    LET n == CASE kind # "inbox" \/ rs = <<>> -> 0
               [] node = 0 -> watched + 1
               [] OTHER -> node
    IN  /\ mails' = rs /\ node' = n
        /\ UpdateMessageList(rs, n)
        /\ UNCHANGED <<kind, watched>>

MailArrives(m) ==
    /\ kind = "inbox" /\ m \notin ToSet(mails) /\ Keys
    /\ ListPatched(<<m>> \o mails)
    /\ UNCHANGED <<gotos, cleanup, help>>

MailGoes(m) ==
    /\ kind = "inbox" /\ m \in ToSet(mails) /\ Keys
    /\ ListPatched(Remove(mails, m))
    /\ UNCHANGED <<gotos, cleanup, help>>

(* keyHandler runs outside fields and dropdowns, and after the handlers of *)
(* the menu that capture.                                                  *)
OnList == kind \in {"inbox", "search"}
MenuTakes == gotos # {}     \* Escape, i, s, t, a and p are the menu's

PressNext ==
    /\ OnList /\ mailMessages # <<>> /\ Keys
    /\ index' = IF index + 1 < Len(mailMessages) THEN index + 1 ELSE Len(mailMessages) - 1
    /\ UNCHANGED <<kind, mails, node, watched, mailMessages, gotos, cleanup, help>>

PressPrevious ==
    /\ OnList /\ mailMessages # <<>> /\ Keys
    /\ index' = IF index > 0 THEN index - 1 ELSE 0
    /\ UNCHANGED <<kind, mails, node, watched, mailMessages, gotos, cleanup, help>>

Selected == mailMessages[index + 1]
HasSelected == OnList /\ index >= 0 /\ index < Len(mailMessages)

(* openSelectedMessage: the list answers with the link of its first row, a *)
(* check box is ticked.                                                    *)
PressOpen ==
    /\ HasSelected /\ Keys
    /\ IF Selected.what = "box" THEN UNCHANGED <<kind, mails, node, watched, mailMessages, index,
                                                 gotos, cleanup, help>>
       ELSE Navigates("show")

(* archiveSelectedMessage, deleteSelectedMessage, markSpamSelectedMessage. *)
PressArchive ==
    /\ HasSelected /\ Keys
    /\ IF Selected.what = "row" /\ Selected.mail \in ToSet(mails)
       THEN ListPatched(Remove(mails, Selected.mail))
       ELSE UNCHANGED <<kind, mails, node, watched, mailMessages, index>>
    /\ UNCHANGED <<gotos, cleanup, help>>

(* replyToSelectedMessage, forwardSelectedMessage.                         *)
PressReply ==
    /\ HasSelected /\ Keys
    /\ Navigates("compose")

(* c: through the LiveView on a list, by a load from a message.            *)
PressCompose ==
    /\ kind # "compose" /\ Keys
    /\ IF OnList THEN Navigates("compose") ELSE Loads("compose")

(* The cleanup of menu n.                                                  *)
Closes(n) ==
    /\ gotos' = gotos \ {n}
    /\ cleanup' = IF cleanup = n THEN NoMenu ELSE cleanup

(* The keys and buttons of a message that lead to compose, and its return. *)
LeavesMessage ==
    /\ kind = "show" /\ Keys
    /\ \E k \in {"inbox", "search", "compose"} : Navigates(k)

(* Ctrl-Enter sends the mail and the server goes back to the inbox.        *)
PressSend ==
    /\ kind = "compose" /\ Keys
    /\ Navigates("inbox")

(* Escape, for the menu, for the dialogues, and then for the page too.     *)
PressEscape ==
    /\ Keys
    /\ IF MenuTakes
       THEN /\ \E n \in gotos : Closes(n)
            /\ UNCHANGED <<kind, mails, node, watched, mailMessages, index, help>>
       ELSE IF kind \in {"show", "compose"} THEN Loads("inbox")
       ELSE /\ help' = {}
            /\ UNCHANGED <<kind, mails, node, watched, mailMessages, index, gotos, cleanup>>

(* if (this.gotoMenuCleanup) this.gotoMenuCleanup()                        *)
Before(ms) == ms \ {cleanup}

ShowGotoMenu ==
    /\ Keys
    /\ LET n == IF cleanup = 1 THEN 2 ELSE 1
       IN  gotos' = Before(gotos) \cup {n} /\ cleanup' = n
    /\ UNCHANGED <<kind, mails, node, watched, mailMessages, index, help>>

(* A key or a button of the menu; a button of the lists' menu asks the     *)
(* LiveView for the tab.                                                   *)
MenuChooses ==
    /\ MenuTakes /\ Keys
    /\ Loads("inbox")

MenuClicked(n) ==
    /\ n \in gotos /\ OnList /\ Keys
    /\ Closes(n)
    /\ \E rs \in {mails, <<>>} : IF kind = "inbox" THEN ListPatched(rs) ELSE ListPatched(mails)
    /\ UNCHANGED help

MenuTimesOut(n) ==
    /\ n \in gotos /\ Closes(n)
    /\ UNCHANGED <<kind, mails, node, watched, mailMessages, index, help, keys>>

(* showShortcutsHelp after closeExistingShortcutModals.                    *)
ShowShortcutsHelp ==
    /\ Keys
    /\ help' = {IF OnList THEN "global" ELSE "own"}
    /\ UNCHANGED <<kind, mails, node, watched, mailMessages, index, gotos, cleanup>>

CloseHelp ==
    /\ help # {} /\ help' = {} /\ Keys
    /\ UNCHANGED <<kind, mails, node, watched, mailMessages, index, gotos, cleanup>>

MailNext ==
    \/ PressNext \/ PressPrevious \/ PressOpen \/ PressArchive \/ PressReply
    \/ PressCompose \/ PressSend \/ PressEscape \/ LeavesMessage
    \/ ShowGotoMenu \/ MenuChooses \/ ShowShortcutsHelp \/ CloseHelp
    \/ \E m \in Mails : MailArrives(m) \/ MailGoes(m)
    \/ \E n \in {1, 2} : MenuClicked(n) \/ MenuTimesOut(n)

MailSpec == MailInit /\ [][MailNext]_mailVars

(* Properties ------------------------------------------------------------*)

(* One goto menu, with its capturing key handler, is on the screen at most,*)
(* and it is the one of the page shown, however menus are opened over each *)
(* other, time out and see their page replaced (showGotoMenu, destroyed).  *)
OneGotoMenu == gotos \subseteq {cleanup}
=============================================================================
