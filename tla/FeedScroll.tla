----------------------------- MODULE FeedScroll -----------------------------
(***************************************************************************)
(* Where the feed is scrolled to, and the four hooks that move it:         *)
(* TimelineReply (ui_hooks.js) on the page, ManualPagination               *)
(* (timeline_hooks.js) on the feed, PreserveStreamAnchor and               *)
(* PreserveQueuedPostsButtonScroll (timeline_preservation_hooks.js) on the *)
(* stream and on "Show N new posts".  The portal has the pagination and    *)
(* the button only.                                                        *)
(*                                                                         *)
(* A post is one unit high, or two once its image is there; the viewport   *)
(* is one unit, and the post on its upper edge is the one                  *)
(* findVisiblePostAnchor finds.  Auto-loading is on in no template and is  *)
(* left out.  A patch finds the global snapshot its own beforeUpdate       *)
(* stored, never an older one: every other one has been cleared.           *)
(***************************************************************************)
EXTENDS Integers, SequencesExt

CONSTANT MaxFeedTurns   \* bound: what the reader and the server do

VARIABLES
    hooks,      \* the hooks of this page
    posts,      \* the feed, newest first
    tall,       \* the posts two units high
    y,          \* scrollY
    echo,       \* a scroll event is due
    reply,      \* TimelineReply: the interaction its next patch preserves
    pg,         \* ManualPagination
    st,         \* PreserveStreamAnchor
    queue,      \* PreserveQueuedPostsButtonScroll, and the posts it announces
    server,     \* "idle", "asked" for more or "loading"
    feedTurns

feedVars == <<hooks, posts, tall, y, echo, reply, pg, st, queue, server, feedTurns>>

Timeline == {"reply", "pagination", "stream", "button"}
Portal == {"pagination", "button"}

Height(p) == IF p \in tall THEN 2 ELSE 1
Index(ps, p) == CHOOSE i \in 1 .. Len(ps) : ps[i] = p
Extent(ps, k) == k + Cardinality({i \in 1 .. k : ps[i] \in tall})
Max2(m, n) == IF m > n THEN m ELSE n
MaxY(ps) == Max2(0, Extent(ps, Len(ps)) - 1)
Clamp(ps, n) == Max2(0, IF n > MaxY(ps) THEN MaxY(ps) ELSE n)

(* getBoundingClientRect().top of a post, the page being at n.             *)
Top(ps, n, p) == Extent(ps, Index(ps, p) - 1) - n

NoAnchor == [post |-> -1, top |-> 0]

(* findVisiblePostAnchor.                                                  *)
Anchor ==
    IF posts = <<>> THEN NoAnchor
    ELSE LET i == CHOOSE i \in 1 .. Len(posts) :
                     Top(posts, y, posts[i]) \in {0, 1 - Height(posts[i])}
         IN  [post |-> posts[i], top |-> Top(posts, y, posts[i])]

Snap(a, n) == [anchor |-> a, y |-> n]
NoSnap == Snap(NoAnchor, -1)
NoTimers == [left |-> 0, snap |-> NoSnap]
Timers(s) == [left |-> 4, snap |-> s]

FeedInit ==
    /\ hooks \in {Timeline, Portal}
    /\ posts = <<1, 2, 3>> /\ tall = {} /\ y = 0 /\ echo = FALSE
    /\ reply = NoSnap
    /\ pg = [pending |-> FALSE, loadingMore |-> FALSE, startY |-> 0, lastY |-> 0,
             timers |-> NoTimers]
    /\ st = [lastY |-> 0, timers |-> NoTimers]
    /\ queue = [queued |-> 0, up |-> FALSE, left |-> 0, smooth |-> FALSE]
    /\ server = "idle" /\ feedTurns = 0

FeedTurn == feedTurns < MaxFeedTurns /\ feedTurns' = feedTurns + 1

(* Restoring -------------------------------------------------------------*)

PostFound(ps, s) == \E i \in 1 .. Len(ps) : ps[i] = s.anchor.post
ToAnchor(ps, n, s) == Clamp(ps, n + Top(ps, n, s.anchor.post) - s.anchor.top)

(* restoreAnchorPosition of TimelineReply.                                 *)
ReplyRestored(ps, n, s) ==
    IF PostFound(ps, s) THEN ToAnchor(ps, n, s) ELSE Clamp(ps, s.y)

(* restoreAnchorPosition of ManualPagination, with its two fallbacks.      *)
PageRestored(ps, n, s) ==
    CASE PostFound(ps, s) -> ToAnchor(ps, n, s)
      [] ~PostFound(ps, s) /\ n < s.y -> Clamp(ps, s.y)
      [] ~PostFound(ps, s) /\ n >= s.y /\ n < pg.startY -> Clamp(ps, pg.startY)
      [] OTHER -> n

(* restoreAnchorPosition of PreserveStreamAnchor.                          *)
StreamRestored(ps, n, s) ==
    CASE PostFound(ps, s) -> ToAnchor(ps, n, s)
      [] ~PostFound(ps, s) /\ n = 0 /\ s.y > 0 -> Clamp(ps, s.y)
      [] OTHER -> n

(* getStableScrollY: a page that has jumped to its top is where it last    *)
(* was seen.                                                               *)
Stable(k) == IF y = 0 /\ k.lastY > 0 THEN k.lastY ELSE y

(* beforeUpdate of the three hooks: what each wants kept.                  *)
ReplyPre ==
    IF "reply" \in hooks /\ ~pg.loadingMore /\ reply.y > 0 THEN reply ELSE NoSnap

\* Mutant: the place where the button was clicked is kept, not the present one.
PagePre_OfTheClick ==
    IF pg.pending \/ pg.loadingMore
    THEN Snap([Anchor EXCEPT !.top = @ + y - pg.startY], pg.startY) ELSE NoSnap

PagePre == IF pg.pending \/ pg.loadingMore THEN Snap(Anchor, Stable(pg)) ELSE NoSnap

StreamPre == IF "stream" \in hooks /\ Stable(st) > 0 THEN Snap(Anchor, Stable(st)) ELSE NoSnap

(* updated: restoreFromGlobalSnapshotIfNeeded when the patch took the page *)
(* to its top, then restoreAnchorPosition.                                 *)
FromTop(n, s) == n = 0 /\ s.y > 0

PageUpdated(ps, n, s) ==
    IF s = NoSnap THEN n
    ELSE PageRestored(ps, IF FromTop(n, s) THEN PageRestored(ps, n, s) ELSE n, s)

StreamUpdated(ps, n, s) ==
    IF s = NoSnap THEN n
    ELSE StreamRestored(ps, IF FromTop(n, s) THEN StreamRestored(ps, n, s) ELSE n, s)

(* One patch of the server: the feed becomes ps, and the browser leaves    *)
(* the page at n.  A patch of the attributes alone does not touch the      *)
(* stream.                                                                 *)
FeedPatched(ps, n, loading, stream) ==
    LET sp == IF stream THEN StreamPre ELSE NoSnap
        y0 == IF ReplyPre = NoSnap THEN n ELSE ReplyRestored(ps, n, ReplyPre)
        y1 == PageUpdated(ps, y0, PagePre)
        y2 == StreamUpdated(ps, y1, sp)
    IN  /\ posts' = ps
        /\ y' = y2
        /\ echo' = (echo \/ y2 # y)
        /\ reply' = NoSnap
        /\ pg' = [pending |-> pg.pending /\ loading, loadingMore |-> loading,
                  startY |-> IF loading THEN pg.startY ELSE 0, lastY |-> y1,
                  timers |-> IF PagePre = NoSnap THEN pg.timers ELSE Timers(PagePre)]
        /\ st' = [st EXCEPT !.lastY = IF stream /\ "stream" \in hooks THEN Stable(st) ELSE @,
                            !.timers = IF sp = NoSnap THEN @ ELSE Timers(sp)]

(* Where the browser leaves the page: at the same offset, with the same    *)
(* post at the edge (scroll anchoring), or at its top.                     *)
Left(ps) ==
    {Clamp(ps, y), 0} \cup
    (IF posts # <<>> /\ PostFound(ps, Snap(Anchor, y))
     THEN {ToAnchor(ps, y, Snap(Anchor, y))} ELSE {})

(* The server ------------------------------------------------------------*)

(* The button is updated while posts are queued and removed with the last  *)
(* of them.  updated() schedules the scroll to the top, and destroyed()    *)
(* schedules it and cancels what it has just scheduled.                    *)
ButtonAfter(q) ==
    [queued |-> q, up |-> FALSE, smooth |-> FALSE,
     left |-> IF q = 0 THEN 0 ELSE IF queue.up THEN 3 ELSE queue.left]

Loading ==
    /\ server = "asked" /\ server' = "loading"
    /\ FeedPatched(posts, y, TRUE, FALSE)
    /\ UNCHANGED <<hooks, tall, queue, feedTurns>>

OlderPosts ==
    /\ server = "loading" /\ server' = "idle"
    /\ LET ps == IF posts = <<>> THEN <<9>> ELSE Append(posts, posts[Len(posts)] + 1)
       IN  \E n \in Left(ps) : FeedPatched(ps, n, FALSE, TRUE)
    /\ queue' = [queue EXCEPT !.smooth = @ /\ y' = y]
    /\ UNCHANGED <<hooks, tall, feedTurns>>

(* No more posts: nothing changes on the page, and nothing is patched.     *)
NoMore ==
    /\ server = "asked" /\ server' = "idle"
    /\ UNCHANGED <<hooks, posts, tall, y, echo, reply, pg, st, queue, feedTurns>>

(* A post arrives: the button announces it.  On the timeline the button is *)
(* inside the feed, on the portal above it.                                *)
PostQueued ==
    /\ FeedTurn /\ queue.queued < 2
    /\ queue' = [ButtonAfter(queue.queued + 1) EXCEPT !.smooth = queue.smooth /\ y' = y]
    /\ IF hooks = Timeline THEN FeedPatched(posts, y, server = "loading", FALSE)
       ELSE UNCHANGED <<posts, y, echo, reply, pg, st>>
    /\ UNCHANGED <<hooks, tall, server>>

(* load_queued_posts: the posts are put on top, unless a filter hides them.*)
ShowQueued ==
    /\ queue.up
    /\ \E k \in {0, queue.queued} :
          LET ps == [i \in 1 .. k |-> posts[1] - 1 - k + i] \o posts
          IN  \E n \in Left(ps) : FeedPatched(ps, n, server = "loading", TRUE)
    /\ queue' = ButtonAfter(0)
    /\ UNCHANGED <<hooks, tall, server, feedTurns>>

RemovesPost(p) ==
    /\ FeedTurn /\ Len(posts) > 1
    /\ LET ps == RemoveAt(posts, Index(posts, p))
       IN  \E n \in Left(ps) : FeedPatched(ps, n, server = "loading", TRUE)
    /\ queue' = [queue EXCEPT !.smooth = @ /\ y' = y]
    /\ UNCHANGED <<hooks, tall, server>>

(* The reader and the browser --------------------------------------------*)

ReaderScrolls(n) ==
    /\ FeedTurn /\ n # y /\ y' = n
    /\ echo' = TRUE
    /\ queue' = [queue EXCEPT !.smooth = FALSE]
    /\ UNCHANGED <<hooks, posts, tall, reply, pg, st, server>>

(* handleScroll of both hooks, which cancels the restores that wait.       *)
ScrollEvent ==
    /\ echo /\ echo' = FALSE
    /\ pg' = [pg EXCEPT !.lastY = y, !.timers = NoTimers]
    /\ st' = [st EXCEPT !.lastY = y, !.timers = NoTimers]
    /\ UNCHANGED <<hooks, posts, tall, y, reply, queue, server, feedTurns>>

(* beginLoadCycle and the click that goes to the server.                   *)
ClicksLoadMore ==
    /\ FeedTurn
    /\ pg' = IF pg.pending THEN pg
             ELSE [pg EXCEPT !.pending = TRUE, !.lastY = y, !.startY = y]
    /\ server' = IF server = "idle" THEN "asked" ELSE server
    /\ UNCHANGED <<hooks, posts, tall, y, echo, reply, st, queue>>

(* handleFeedClick on a control of a post that the list tracks.            *)
ClicksLike ==
    /\ FeedTurn /\ "reply" \in hooks /\ posts # <<>>
    /\ reply' = Snap(Anchor, y)
    /\ UNCHANGED <<hooks, posts, tall, y, echo, pg, st, queue, server>>

(* handleClick of the button, and handleFeedClick for it.                  *)
ClicksQueued ==
    /\ FeedTurn /\ queue.queued > 0
    /\ queue' = [queue EXCEPT !.up = TRUE]
    /\ reply' = NoSnap
    /\ UNCHANGED <<hooks, posts, tall, y, echo, pg, st, server>>

(* An image above or at the edge grows its post, with or without scroll    *)
(* anchoring.                                                              *)
ImageLoads(p) ==
    /\ FeedTurn /\ p \notin tall
    /\ tall' = tall \cup {p}
    /\ \E d \in {0, 1} :
          /\ d = 1 => Top(posts, y, p) < 0
          /\ y' = y + d /\ echo' = (echo \/ d = 1)
    /\ UNCHANGED <<hooks, posts, reply, pg, st, queue, server>>

(* A frame or a timeout of scheduleSettledRestore; scroll events come      *)
(* before the callbacks of a frame.                                        *)
PageRestores ==
    LET n == PageRestored(posts, y, pg.timers.snap)
    IN  /\ pg.timers.left > 0 /\ (pg.timers.left = 4 => ~echo)
        /\ y' = n /\ echo' = (echo \/ n # y)
        /\ pg' = [pg EXCEPT !.timers.left = @ - 1]
        /\ queue' = [queue EXCEPT !.smooth = @ /\ n = y]
        /\ UNCHANGED <<hooks, posts, tall, reply, st, server, feedTurns>>

(* The same of schedulePendingRestore.                                     *)
StreamRestores ==
    LET n == StreamRestored(posts, y, st.timers.snap)
    IN  /\ st.timers.left > 0 /\ (st.timers.left = 4 => ~echo)
        /\ y' = n /\ echo' = (echo \/ n # y)
        /\ st' = [st EXCEPT !.timers.left = @ - 1]
        /\ queue' = [queue EXCEPT !.smooth = @ /\ n = y]
        /\ UNCHANGED <<hooks, posts, tall, reply, pg, server, feedTurns>>

(* scrollTop of scrollFeedToTop starts or restarts a smooth scroll.        *)
ButtonScrolls ==
    /\ queue.left > 0 /\ (queue.left = 3 => ~echo)
    /\ queue' = [queue EXCEPT !.left = @ - 1, !.smooth = y > 0]
    /\ UNCHANGED <<hooks, posts, tall, y, echo, reply, pg, st, server, feedTurns>>

SmoothStep ==
    /\ queue.smooth /\ y > 0
    /\ y' = y - 1 /\ echo' = TRUE
    /\ queue' = [queue EXCEPT !.smooth = y > 1]
    /\ UNCHANGED <<hooks, posts, tall, reply, pg, st, server, feedTurns>>

Patches ==
    \/ Loading \/ PostQueued \/ OlderPosts \/ ShowQueued
    \/ \E p \in ToSet(posts) : RemovesPost(p)

FeedNext ==
    \/ Patches
    \/ NoMore \/ ClicksLoadMore \/ ClicksLike \/ ClicksQueued
    \/ \E n \in 0 .. MaxY(posts) : ReaderScrolls(n)
    \/ \E p \in ToSet(posts) : ImageLoads(p)
    \/ ScrollEvent \/ PageRestores \/ StreamRestores \/ ButtonScrolls \/ SmoothStep

FeedSpec == FeedInit /\ [][FeedNext]_feedVars

(* Properties ------------------------------------------------------------*)

(* The post at the edge of the screen does not move under the reader when  *)
(* a patch arrives in a load cycle, or on the timeline when its stream     *)
(* changes below its top: whatever the browser and the other hooks do, and *)
(* unless that post goes or the page ends there (beforeUpdate, updated).   *)
ReaderKeepsPlace ==
    [][/\ Patches
       /\ PagePre # NoSnap \/ (posts' # posts /\ StreamPre # NoSnap)
       => \/ ~PostFound(posts', Snap(Anchor, y))
          \/ y' = MaxY(posts')
          \/ Top(posts', y', Anchor.post) = Anchor.top]_feedVars
=============================================================================
