---------------------------- MODULE MessageList -----------------------------
(***************************************************************************)
(* The messages of the open conversation: the MessageList hook             *)
(* (chat_hooks.js) with the events its LiveView pushes                     *)
(* (arblarg chat_live/index.ex, message_operations.ex).                    *)
(*                                                                         *)
(* Heights are counted in messages; one is less than the 150 pixels that   *)
(* still are "near the bottom".  The page empties when a conversation is   *)
(* opened and fills when its messages are loaded.  The timers of one       *)
(* restore run in their order, and each after the same one of any earlier  *)
(* restore, and there is a frame between two of them, which also draws     *)
(* what was asked for before.  A smooth scroll arrives in its first frame. *)
(***************************************************************************)
EXTENDS Integers, SequencesExt

CONSTANTS
    Conversations,
    Base,       \* messages of a page as it is loaded
    Timers,     \* bound: the timers of one restore, five in the hook
    MaxMoves    \* bound: what the reader and the members do

ASSUME ListAssumption ==
    Conversations # {} /\ Base \in Nat /\ Timers \in Nat \ {0, 1}

VARIABLES
    opened,     \* currentConversationId
    ready,      \* its messages are on the page
    above,      \* older messages loaded
    arrived,    \* conversation -> messages that came since
    top,        \* scrollTop
    places,     \* scrollPositions
    restores,   \* the restores whose timers run, oldest first
    restoring,  \* isRestoringScroll
    done,       \* initialScrollDone
    older,      \* [asked: isLoadingOlder, sent: the server has not answered]
    echo,       \* a scroll event is due
    check,      \* the debounced checkScrollPosition is due
    tries,      \* timers of scroll_to_bottom left
    frames,     \* why the next frame scrolls to the bottom
    wanted,     \* history: conversation -> the place its reader left
    stirred,    \* history: the reader, a message or a retry intervened in this visit
    moves

listVars == <<opened, ready, above, arrived, top, places, restores, restoring, done,
              older, echo, check, tries, frames, wanted, stirred, moves>>

Nowhere == [top |-> -1, end |-> TRUE]
NoOlder == [asked |-> FALSE, sent |-> FALSE]

Bottom == IF ready THEN above + Base + arrived[opened] ELSE 0
NearBottom == Bottom - top <= 1
Least(m, n) == IF m < n THEN m ELSE n

Move == moves < MaxMoves /\ moves' = moves + 1

\* Mutant: what a restore shows on the way is saved as the reader's place.
SaveCurrentScrollPosition_Always(n) ==
    places' = [places EXCEPT ![opened] = [top |-> n, end |-> Bottom - n <= 1]]

(* saveCurrentScrollPosition, the page being at n.                         *)
SaveCurrentScrollPosition(n) ==
    places' = IF restoring THEN places
              ELSE [places EXCEPT ![opened] = [top |-> n, end |-> Bottom - n <= 1]]

MoveTo(n) == top' = n /\ echo' = (echo \/ n # top)

ListInit ==
    /\ opened = (CHOOSE c \in Conversations : TRUE) /\ ready = TRUE /\ above = 0
    /\ arrived = [c \in Conversations |-> 0] /\ top = Base
    /\ places = [c \in Conversations |-> Nowhere]
    /\ restores = <<>> /\ restoring = FALSE /\ done = TRUE /\ older = NoOlder
    /\ echo = FALSE /\ check = FALSE /\ tries = 0 /\ frames = {}
    /\ wanted = [c \in Conversations |-> Nowhere] /\ stirred = FALSE /\ moves = 0

(* Restoring -------------------------------------------------------------*)

(* restore, for the place s, on a page that is high messages long.         *)
Restore(s, n, high) ==
    /\ MoveTo(IF s.end THEN n ELSE Least(s.top, high))
    /\ frames' = IF s.end \/ frames # {} THEN {"restore"} ELSE {}

(* restoreConversationScroll of conversation c.                            *)
RestoreConversationScroll(c, n, high) ==
    /\ restores' = Append(restores, [place |-> places[c], left |-> Timers])
    /\ restoring' = TRUE
    /\ done' = FALSE
    /\ Restore(places[c], n, high)

(* A conversation is opened: its empty page takes the place of the other,  *)
(* and updated() restores.                                                 *)
Opens(c) ==
    /\ Move /\ c # opened
    /\ opened' = c /\ ready' = FALSE /\ above' = 0
    /\ RestoreConversationScroll(c, 0, 0)
    /\ older' = [older EXCEPT !.asked = FALSE]
    /\ wanted' = IF restoring THEN wanted
                 ELSE [wanted EXCEPT ![opened] =
                         IF ready /\ ~echo /\ frames = {} /\ above = 0
                         THEN [top |-> top, end |-> NearBottom] ELSE Nowhere]
    /\ stirred' = FALSE
    /\ UNCHANGED <<arrived, places, check, tries>>

(* load_conversation_messages and restore_conversation_scroll.             *)
Loads ==
    /\ ~ready /\ ready' = TRUE
    /\ RestoreConversationScroll(opened, top, Base + arrived[opened])
    /\ UNCHANGED <<opened, above, arrived, places, older, check, tries, wanted, stirred,
                   moves>>

(* restoreToken is the one of this restore.                                *)
IsNewest(i) == i = Len(restores)

(* A timer of restoreConversationScroll.                                   *)
RestoreFires(i) ==
    LET r == restores[i]
    IN  /\ \A j \in 1 .. i - 1 : restores[j].left < r.left
        /\ "restore" \notin frames
        /\ IF r.left > 1
           THEN /\ restores' = [restores EXCEPT ![i].left = @ - 1]
                /\ Restore(r.place, top, Bottom)
                /\ IF r.place.end THEN UNCHANGED places
                   ELSE SaveCurrentScrollPosition(Least(r.place.top, Bottom))
                /\ UNCHANGED <<restoring, done>>
           ELSE /\ restores' = RemoveAt(restores, i)
                /\ IF IsNewest(i)
                   THEN /\ restoring' = FALSE /\ done' = TRUE
                        /\ places' = [places EXCEPT ![opened] =
                                        [top |-> top, end |-> NearBottom]]
                   ELSE UNCHANGED <<restoring, done, places>>
                /\ UNCHANGED <<top, echo, frames>>
        /\ UNCHANGED <<opened, ready, above, arrived, older, check, tries, stirred, moves>>
        /\ wanted' = IF r.left = 1 /\ IsNewest(i) /\ ~ready
                     THEN [wanted EXCEPT ![opened] = Nowhere] ELSE wanted

(* The frame of scrollToBottom.                                            *)
ScrollsToBottom ==
    /\ frames # {} /\ frames' = {}
    /\ MoveTo(Bottom)
    /\ SaveCurrentScrollPosition(Bottom)
    /\ UNCHANGED <<opened, ready, above, arrived, restores, restoring, done, older,
                   check, tries, wanted, stirred, moves>>

(* The reader ------------------------------------------------------------*)

Scrolls(n) ==
    /\ Move /\ n # top /\ MoveTo(n)
    /\ stirred' = TRUE
    /\ UNCHANGED <<opened, ready, above, arrived, places, restores, restoring, done,
                   older, check, tries, frames, wanted>>

ScrollEvent ==
    /\ echo /\ echo' = FALSE
    /\ SaveCurrentScrollPosition(top)
    /\ check' = TRUE
    /\ UNCHANGED <<opened, ready, above, arrived, top, restores, restoring, done, older,
                   tries, frames, wanted, stirred, moves>>

(* checkScrollPosition.                                                    *)
CheckScrollPosition ==
    /\ check /\ check' = FALSE
    /\ older' = IF top = 0 /\ ~older.asked THEN [asked |-> TRUE, sent |-> TRUE]
                ELSE [older EXCEPT !.asked = @ /\ top <= 1]
    /\ UNCHANGED <<opened, ready, above, arrived, top, places, restores, restoring,
                   done, echo, tries, frames, wanted, stirred, moves>>

(* load_older_messages.  The event maintain_scroll_position comes after    *)
(* its patch, so the page stays where the browser left it.                 *)
OlderComes ==
    /\ older.sent
    /\ IF ready /\ above = 0
       THEN /\ above' = 2
            /\ older' = NoOlder
            /\ \E n \in {top, top + 2} : MoveTo(n)
       ELSE /\ older' = [older EXCEPT !.sent = FALSE]
            /\ UNCHANGED <<above, top, echo>>
    /\ stirred' = TRUE
    /\ UNCHANGED <<opened, ready, arrived, places, restores, restoring, done, check,
                   tries, frames, wanted, moves>>

(* The handler of scroll_to_bottom.                                        *)
ScrollToBottom(why) ==
    /\ tries' = 2
    /\ frames' = frames \cup why

(* The reader sends a message, or presses the button that jumps down; a    *)
(* member's message comes, and the LiveView pushes the same event.         *)
SendsMessage ==
    /\ Move /\ ready /\ arrived[opened] < 1
    /\ arrived' = [arrived EXCEPT ![opened] = @ + 1]
    /\ ScrollToBottom({"asked"})
    /\ stirred' = TRUE
    /\ UNCHANGED <<opened, ready, above, top, places, restores, restoring, done, older,
                   echo, check, wanted>>

Jumps ==
    /\ Move /\ ready /\ ~NearBottom /\ done
    /\ ScrollToBottom({"asked"})
    /\ stirred' = TRUE
    /\ UNCHANGED <<opened, ready, above, arrived, top, places, restores, restoring,
                   done, older, echo, check, wanted>>

(* The observer scrolls when the reader is near the bottom; the event      *)
(* scrolls in any case.                                                    *)
MessageComes(c) ==
    /\ Move /\ arrived[c] < 1
    /\ arrived' = [arrived EXCEPT ![c] = @ + 1]
    /\ IF c = opened /\ ready
       THEN /\ ScrollToBottom({"news"} \cup
                              IF done /\ Bottom + 1 - top <= 1 THEN {"near"} ELSE {})
            /\ stirred' = TRUE
       ELSE UNCHANGED <<tries, frames, stirred>>
    /\ UNCHANGED <<opened, ready, above, top, places, restores, restoring, done, older,
                   echo, check, wanted>>

(* A timer of scroll_to_bottom; the last one only ends the opening.        *)
TryFires ==
    /\ tries > 0 /\ tries' = tries - 1
    /\ done' = (done \/ tries = 1)
    /\ frames' = IF tries > 1 /\ NearBottom THEN frames \cup {"near"} ELSE frames
    /\ stirred' = (stirred \/ (restoring /\ frames' # frames))
    /\ UNCHANGED <<opened, ready, above, arrived, top, places, restores, restoring,
                   older, echo, check, wanted, moves>>

ListNext ==
    \/ \E c \in Conversations : Opens(c) \/ MessageComes(c)
    \/ Loads \/ ScrollsToBottom \/ ScrollEvent \/ CheckScrollPosition \/ OlderComes
    \/ SendsMessage \/ Jumps \/ TryFires
    \/ \E i \in DOMAIN restores : RestoreFires(i)
    \/ \E n \in 0 .. Bottom : Scrolls(n)

ListSpec == ListInit /\ [][ListNext]_listVars

(* Properties ------------------------------------------------------------*)

(* Who comes back to a conversation finds the place left there: however    *)
(* many conversations were opened in between, and with the timers of all   *)
(* their restores still running.  Not when the messages take longer than   *)
(* the restore, or older ones had been loaded, or something intervenes: a  *)
(* message, the reader, or a retry of scroll_to_bottom that was asked for  *)
(* before and finds the page near its bottom during the restore            *)
(* (restoreConversationScroll, saveCurrentScrollPosition, updated).        *)
PlaceRestored ==
    [][restoring /\ ~restoring' /\ ~stirred /\ wanted'[opened] # Nowhere =>
          IF wanted[opened].end THEN NearBottom \/ frames # {}
          ELSE top = Least(wanted[opened].top, Bottom)]_listVars
=============================================================================
