------------------------- MODULE NotificationMarks --------------------------
(***************************************************************************)
(* Notifications that count as read once they were on the screen: the hook *)
(* NotificationVisibility (notification_visibility.js), and its LiveView.  *)
(* A card shows a group; it names the notifications of it that are unread. *)
(***************************************************************************)
EXTENDS Integers, SequencesExt

CONSTANTS
    Cards,
    Ids,        \* notifications
    MaxVisits   \* bound: arrivals, scrolls, settings and lost connections

ASSUME IdsAssumption == IsFiniteSet(Ids)

VARIABLES
    unread,     \* the server: card -> notifications not read
    pushes,     \* mark_visible_as_read on its way
    auto,       \* data-auto-mark-read
    shownIds,   \* the page: card -> data-notification-ids
    asUnread,   \* the page: the cards with data-unread "true"
    inView,
    observer,   \* the cards observed
    due,        \* cards the observer will report
    marked,     \* markedAsRead
    pending,    \* pendingMarkAsRead
    marking,    \* markTimeout runs
    online,
    reported,   \* history: what was pushed
    lost,       \* history: something was pushed without a connection
    visits

markVars == <<unread, pushes, auto, shownIds, asUnread, inView, observer, due, marked,
              pending, marking, online, reported, lost, visits>>

MarkInit ==
    /\ unread = [c \in Cards |-> {}] /\ pushes = <<>> /\ auto = TRUE
    /\ shownIds = unread /\ asUnread = {} /\ inView \in SUBSET Cards
    /\ observer = {} /\ due = {}
    /\ marked = {} /\ pending = <<>> /\ marking = FALSE /\ online = TRUE
    /\ reported = <<>> /\ lost = FALSE /\ visits = 0

Visits == visits < MaxVisits /\ visits' = visits + 1

(* updated leaves the timer alone.                                         *)
TimerKept(on) == UNCHANGED marking

(* The LiveView renders what it has, and updated runs: cards that are      *)
(* unread are observed; one that is observed already is not reported again.*)
CardsPatched(us, on) ==
    /\ shownIds' = us /\ auto' = on
    /\ asUnread' = {c \in Cards : us[c] # {}}
    /\ observer' = IF on THEN observer \cup asUnread' ELSE {}
    /\ due' = IF on THEN due \cup (asUnread' \ observer) ELSE {}
    /\ TimerKept(on)

(* reload_notification_data after :new_notification.                       *)
Arrives(c, id) ==
    /\ online /\ Visits
    /\ \A d \in Cards : id \notin unread[d] /\ id \notin ToSet(reported)
    /\ unread' = [unread EXCEPT ![c] = @ \cup {id}]
    /\ CardsPatched(unread', auto)
    /\ UNCHANGED <<pushes, inView, marked, pending, online, reported, lost>>

(* Anything else that makes the LiveView render; the setting may change.   *)
Rerenders ==
    /\ online /\ Visits
    /\ \E on \in BOOLEAN : CardsPatched(unread, on)
    /\ UNCHANGED <<unread, pushes, inView, marked, pending, online, reported, lost>>

Scrolls(c) ==
    /\ Visits
    /\ inView' = (inView \ {c}) \cup ({c} \ inView)
    /\ due' = due \cup ({c} \cap observer)
    /\ UNCHANGED <<unread, pushes, auto, shownIds, asUnread, observer, marked, pending, marking,
                   online, reported, lost>>

\* Mutant: what was queued before is queued again.
Fresh_All(ids) == ids

(* notificationIds.filter(id => !this.markedAsRead.has(id))                *)
Fresh(ids) == ids \ marked

(* The callback of the observer.                                           *)
Seen ==
    /\ due # {}
    /\ LET cards == due \cap inView \cap asUnread
           ids == Fresh(UNION {shownIds[c] : c \in cards})
       IN  /\ marked' = marked \cup ids
           /\ pending' = pending \o SetToSeq(ids)
           /\ asUnread' = asUnread \ {c \in cards : Fresh(shownIds[c]) # {}}
           /\ marking' = (marking \/ pending' # <<>>)
    /\ due' = {}
    /\ UNCHANGED <<unread, pushes, auto, shownIds, inView, observer, online, reported, lost,
                   visits>>

(* 100 ms after the last callback.  Without a connection the push fails,   *)
(* and nothing is kept.                                                    *)
MarkTimeout ==
    /\ marking /\ marking' = FALSE
    /\ pending' = <<>>
    /\ reported' = reported \o pending
    /\ pushes' = IF online THEN Append(pushes, ToSet(pending)) ELSE pushes
    /\ lost' = (lost \/ ~online)
    /\ UNCHANGED <<unread, auto, shownIds, asUnread, inView, observer, due, marked, online, visits>>

(* handle_event("mark_visible_as_read")                                    *)
MarkVisibleAsRead ==
    /\ online /\ pushes # <<>> /\ pushes' = Tail(pushes)
    /\ unread' = [c \in Cards |-> unread[c] \ Head(pushes)]
    /\ CardsPatched(unread', auto)
    /\ UNCHANGED <<inView, marked, pending, online, reported, lost, visits>>

(* The socket is lost with what is on its way, and joined again: the hook  *)
(* stays as it is.                                                         *)
Disconnects ==
    /\ online /\ Visits
    /\ online' = FALSE /\ pushes' = <<>>
    /\ lost' = (lost \/ pushes # <<>>)
    /\ UNCHANGED <<unread, auto, shownIds, asUnread, inView, observer, due, marked, pending,
                   marking, reported>>

Rejoins ==
    /\ ~online /\ online' = TRUE
    /\ CardsPatched(unread, auto)
    /\ UNCHANGED <<unread, pushes, inView, marked, pending, reported, lost, visits>>

(* destroyed, and mounted on the next visit: what was not pushed yet is    *)
(* unread still, and is seen again.                                        *)
Revisits ==
    /\ online /\ Visits
    /\ marking' = FALSE
    /\ marked' = {} /\ pending' = <<>> /\ reported' = <<>> /\ lost' = FALSE
    /\ shownIds' = unread /\ asUnread' = {c \in Cards : unread[c] # {}}
    /\ observer' = IF auto THEN asUnread' ELSE {}
    /\ due' = observer'
    /\ UNCHANGED <<unread, pushes, auto, inView, online>>

MarkNext ==
    \/ Rerenders \/ Seen \/ MarkTimeout \/ MarkVisibleAsRead \/ Disconnects \/ Rejoins \/ Revisits
    \/ \E c \in Cards : Scrolls(c) \/ \E id \in Ids : Arrives(c, id)

MarkSpec == MarkInit /\ [][MarkNext]_markVars

(* Properties ------------------------------------------------------------*)

(* What the hook remembers as marked was pushed, or will be when the timer *)
(* fires, however cards are regrouped, scrolled and re-rendered meanwhile  *)
(* (setupIntersectionObserver, updated).                                   *)
SeenIsReported ==
    /\ marked = ToSet(reported) \cup ToSet(pending)
    /\ pending # <<>> => marking

(* What was pushed and reached the server is not unread there for good: it *)
(* is read, or the call that says so is on its way; and it is pushed once  *)
(* (markedAsRead, mark_visible_as_read).                                   *)
ReportedOnce ==
    /\ IsInjective(reported \o pending)
    /\ ~lost => \A c \in Cards :
          unread[c] \cap ToSet(reported) \subseteq UNION ToSet(pushes)
(* A card that was seen is reported, and once.                             *)
MarksReported == SeenIsReported /\ ReportedOnce
=============================================================================
