----------------------------- MODULE PostDwell ------------------------------
(***************************************************************************)
(* How long the reader looks at each post of a feed: the PostClick hooks   *)
(* of the page and the batch they share (timeline_hooks.js).               *)
(*                                                                         *)
(* The buffer, the handle of the batch timer and the flag of the           *)
(* navigation flush belong to the script: they outlive the hooks.  Time is *)
(* counted in units; `since` is the age of startTime.                      *)
(***************************************************************************)
EXTENDS Integers, FiniteSets

CONSTANTS
    Posts,
    MinDwell,       \* MIN_DWELL_TIME_MS
    ScrollPast,     \* SCROLL_PAST_THRESHOLD_MS
    MaxSeen,        \* bound: time any one post is looked at
    MaxReads        \* bound: what the reader, the network and the server do

VARIABLES
    tracker,    \* post -> its hook, or Gone
    buffer,     \* dwellTimeBuffer: post -> time queued
    handle,     \* batchTimeout is set
    batchTimer, \* the hook whose batch timer runs, or NoTimer
    flushing,   \* navigationFlushInProgress
    leaving,    \* the post whose click waits for the flush, or NoPost
    page,       \* [hidden, online, loading] of the browser
    told,       \* post -> time reported to the server
    seen,       \* post -> time it really was on a visible screen
    reads

dwellVars == <<tracker, buffer, handle, batchTimer, flushing, leaving, page, told, seen, reads>>

Gone == [mounted |-> FALSE]
Off == -1
NoPost == "none"

ASSUME PostsAssumption == NoPost \notin Posts

(* mounted.                                                                *)
NewHook == [mounted |-> TRUE, visible |-> FALSE, since |-> Off, total |-> 0,
          reported |-> 0, suppress |-> FALSE, dismissed |-> FALSE]

NoTimer == [post |-> NoPost, live |-> FALSE]
Mounted == {p \in Posts : tracker[p].mounted}
Reads == reads < MaxReads /\ reads' = reads + 1

DwellInit ==
    /\ tracker = [p \in Posts |-> Gone]
    /\ buffer = [p \in Posts |-> 0]
    /\ handle = FALSE /\ batchTimer = NoTimer
    /\ flushing = FALSE /\ leaving = NoPost
    /\ page = [hidden |-> FALSE, online |-> TRUE, loading |-> FALSE]
    /\ told = [p \in Posts |-> 0] /\ seen = [p \in Posts |-> 0]
    /\ reads = 0

(* The arithmetic of a hook ----------------------------------------------*)

(* buildDwellPayload: what has not been reported, when it is long enough.  *)
Payload(t) == IF t.total - t.reported >= MinDwell THEN t.total - t.reported ELSE 0

(* pauseTracking with bufferDwellData.                                     *)
Paused(t) ==
    IF t.since = Off THEN t
    ELSE LET s == [t EXCEPT !.total = @ + t.since, !.since = Off]
         IN  [s EXCEPT !.reported = @ + Payload(s)]

Queued(t) == Paused(t).reported - t.reported

(* resumeTracking.                                                         *)
Resumed(t) == IF t.since = Off THEN [t EXCEPT !.since = 0] ELSE t

(* The batch -------------------------------------------------------------*)

(* isHookConnected: an element that LiveView has removed is not connected. *)
Connected(attached) == page.online /\ attached

Told(data, ok) == IF ok THEN [p \in Posts |-> told[p] + data[p]] ELSE told

(* scheduleBatchSend of the hooks in T that queue something.  Which of     *)
(* them comes first, and so owns the timer, is their order on the page.    *)
ScheduleBatchSend(T) ==
    LET Q == {p \in T : Queued(tracker[p]) > 0}
    IN  IF handle \/ Q = {} THEN UNCHANGED <<handle, batchTimer>>
        ELSE /\ handle' = TRUE
             /\ \E p \in Q : batchTimer' = [post |-> p, live |-> TRUE]

BufferWith(T) == [p \in Posts |-> buffer[p] + IF p \in T THEN Queued(tracker[p]) ELSE 0]
TrackersWith(T, new) == [p \in Posts |-> IF p \in T THEN new[p] ELSE tracker[p]]

(* The callback of the batch timer: sendBatch through the hook that armed  *)
(* it, and what a removed hook cannot send is dropped.                     *)
BatchFires ==
    /\ batchTimer # NoTimer
    /\ told' = Told(buffer, Connected(batchTimer.live))
    /\ buffer' = [p \in Posts |-> 0]
    /\ batchTimer' = NoTimer
    /\ handle' = FALSE
    /\ UNCHANGED <<tracker, flushing, leaving, page, seen, reads>>

(* clearTimeout(batchTimeout); batchTimeout = null.                        *)
TimerCleared == /\ batchTimer' = NoTimer
                /\ handle' = FALSE

(* flushDwellBatchBeforeNavigation.                                        *)
Flush ==
    /\ flushing' = TRUE
    /\ tracker' = TrackersWith(Mounted, [p \in Mounted |-> Paused(tracker[p])])
    /\ TimerCleared
    /\ told' = Told(BufferWith(Mounted), Connected(TRUE))
    /\ buffer' = [p \in Posts |-> 0]

(* What the reader does --------------------------------------------------*)

(* The entry of the IntersectionObserver; it is not called while the page  *)
(* is hidden.                                                              *)
ComesIntoView(p) ==
    /\ Reads /\ ~page.hidden
    /\ p \in Mounted /\ ~tracker[p].visible
    /\ tracker' = [tracker EXCEPT ![p] = Resumed([@ EXCEPT !.visible = TRUE])]
    /\ UNCHANGED <<buffer, handle, batchTimer, flushing, leaving, page, told, seen>>

(* recordScrollPast is called for a post that was hardly looked at.        *)
ScrolledPast(t) == t.total \in 1 .. ScrollPast - 1

GoesOutOfView(p) ==
    LET t == [Paused(tracker[p]) EXCEPT !.visible = FALSE]
    IN  /\ Reads /\ ~page.hidden
        /\ p \in Mounted /\ tracker[p].visible
        /\ tracker' = [tracker EXCEPT ![p] = [t EXCEPT !.dismissed =
                           @ \/ (ScrolledPast(t) /\ Connected(TRUE))]]
        /\ buffer' = BufferWith({p})
        /\ ScheduleBatchSend({p})
        /\ UNCHANGED <<flushing, leaving, page, told, seen>>

(* visibilitychange.                                                       *)
HidesPage ==
    LET V == {p \in Mounted : tracker[p].visible}
    IN  /\ Reads /\ ~page.hidden
        /\ page' = [page EXCEPT !.hidden = TRUE]
        /\ tracker' = TrackersWith(V, [p \in V |-> Paused(tracker[p])])
        /\ buffer' = BufferWith(V)
        /\ ScheduleBatchSend(V)
        /\ UNCHANGED <<flushing, leaving, told, seen>>

ShowsPage ==
    /\ Reads /\ page.hidden
    /\ page' = [page EXCEPT !.hidden = FALSE]
    /\ LET V == {p \in Mounted : tracker[p].visible}
       IN  tracker' = TrackersWith(V, [p \in V |-> Resumed(tracker[p])])
    /\ UNCHANGED <<buffer, handle, batchTimer, flushing, leaving, told, seen>>

(* handlePointerDown outside an open reaction picker.                      *)
DismissesPicker(p) ==
    /\ Reads /\ p \in Mounted
    /\ tracker' = [tracker EXCEPT ![p].suppress = TRUE]
    /\ UNCHANGED <<buffer, handle, batchTimer, flushing, leaving, page, told, seen>>

(* handleClick on the body of the post: a click on a control, a menu, a    *)
(* nested post or a selection is left to the browser.                      *)
ClicksPost(p) ==
    /\ Reads /\ p \in Mounted /\ leaving = NoPost /\ ~page.hidden
    /\ IF tracker[p].suppress
       THEN /\ tracker' = [tracker EXCEPT ![p].suppress = FALSE]
            /\ UNCHANGED <<buffer, handle, batchTimer, flushing, leaving, told>>
       ELSE /\ Flush
            /\ leaving' = p
    /\ UNCHANGED <<page, seen>>

(* The push was answered or 150 ms have passed.  A click with a modifier   *)
(* opens the post elsewhere and this page stays.                           *)
OpensElsewhere ==
    /\ leaving # NoPost
    /\ leaving' = NoPost
    /\ UNCHANGED <<tracker, buffer, handle, batchTimer, flushing, page, told, seen, reads>>

(* phx:page-loading-start, after that click or for any other link.         *)
NavigationStarts ==
    /\ ~page.loading
    /\ (leaving # NoPost /\ UNCHANGED reads) \/ Reads
    /\ page' = [page EXCEPT !.loading = TRUE]
    /\ leaving' = NoPost
    /\ IF flushing \/ Mounted = {}
       THEN UNCHANGED <<tracker, buffer, handle, batchTimer, flushing, told>>
       ELSE Flush
    /\ UNCHANGED seen

(* destroyed: pauseTracking and sendDwellData, except during the flush of  *)
(* a navigation.  LiveView may have removed the element already.           *)
\* Mutant: the queued payload is sent and stays queued.
Taken_Kept(D) == buffer

(* takeQueuedDwellPayload.                                                 *)
Taken(D) == [p \in Posts |-> IF p \in D THEN 0 ELSE buffer[p]]

Destroyed(D, attached) ==
    LET queued == BufferWith(D)
        rest(p) == Payload(Paused(tracker[p]))
        data == [p \in Posts |-> IF p \in D THEN queued[p] + rest(p) ELSE 0]
        dead(t) == IF t.post \in D THEN [t EXCEPT !.live = FALSE] ELSE t
        Q == {p \in D : Queued(tracker[p]) > 0}
    IN  /\ tracker' = TrackersWith(D, [p \in D |-> Gone])
        /\ IF flushing
           THEN /\ batchTimer' = dead(batchTimer)
                /\ UNCHANGED <<buffer, handle, told>>
           ELSE /\ buffer' = Taken(D)
                /\ told' = Told(data, Connected(attached))
                /\ handle' = (handle \/ Q # {})
                /\ IF handle \/ Q = {} THEN batchTimer' = dead(batchTimer)
                   ELSE \E p \in Q : batchTimer' = [post |-> p, live |-> FALSE]

(* phx:page-loading-stop: a patch keeps hooks, a navigation drops them.    *)
NavigationEnds ==
    /\ page.loading
    /\ page' = [page EXCEPT !.loading = FALSE]
    /\ flushing' = FALSE
    /\ \E D \in {{}, Mounted}, attached \in BOOLEAN : Destroyed(D, attached)
    /\ UNCHANGED <<leaving, seen, reads>>

(* What the server and the network do ------------------------------------*)

Mount(p) ==
    /\ Reads /\ p \notin Mounted
    /\ tracker' = [tracker EXCEPT ![p] = NewHook]
    /\ UNCHANGED <<buffer, handle, batchTimer, flushing, leaving, page, told, seen>>

(* A stream patch removes the post.                                        *)
Removed(p) ==
    /\ Reads /\ p \in Mounted
    /\ \E attached \in BOOLEAN : Destroyed({p}, attached)
    /\ UNCHANGED <<flushing, leaving, page, seen>>

SocketTurns ==
    /\ Reads
    /\ page' = [page EXCEPT !.online = ~@]
    /\ UNCHANGED <<tracker, buffer, handle, batchTimer, flushing, leaving, told, seen>>

Watched(p) == p \in Mounted /\ tracker[p].visible /\ ~page.hidden

TimePasses ==
    /\ \E p \in Posts : Watched(p)
    /\ \A p \in Posts : Watched(p) => seen[p] < MaxSeen
    /\ seen' = [p \in Posts |-> seen[p] + IF Watched(p) THEN 1 ELSE 0]
    /\ LET R == {p \in Mounted : tracker[p].since # Off}
       IN  tracker' = TrackersWith(R, [p \in R |-> [tracker[p] EXCEPT !.since = @ + 1]])
    /\ UNCHANGED <<buffer, handle, batchTimer, flushing, leaving, page, told, reads>>

DwellNext ==
    \/ \E p \in Posts :
          \/ Mount(p) \/ Removed(p) \/ ComesIntoView(p) \/ GoesOutOfView(p)
          \/ DismissesPicker(p) \/ ClicksPost(p)
    \/ HidesPage \/ ShowsPage \/ TimePasses \/ SocketTurns
    \/ BatchFires \/ OpensElsewhere \/ NavigationStarts \/ NavigationEnds

DwellSpec == DwellInit /\ [][DwellNext]_dwellVars

(* Properties ------------------------------------------------------------*)

(* No moment of reading is reported twice: what was sent, waits in the     *)
(* batch or is still with the hook is never more than the time the post    *)
(* really was on screen (pauseTracking, bufferDwellData, sendDwellData).   *)
DwellCountedOnce ==
    \A p \in Posts :
        LET t == tracker[p]
            held == IF ~t.mounted THEN 0
                    ELSE t.total - t.reported + IF t.since = Off THEN 0 ELSE t.since
        IN  told[p] + buffer[p] + held <= seen[p]

(* What is queued will be sent: a batch that is not empty has its timer    *)
(* running, through every flush and removal (scheduleBatchSend).           *)
BatchIsTimed == (\E p \in Posts : buffer[p] > 0) => batchTimer # NoTimer

(* Time on a post is reported, and once.                                   *)
DwellReported == DwellCountedOnce /\ BatchIsTimed
=============================================================================
