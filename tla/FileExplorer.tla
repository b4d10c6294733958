---------------------------- MODULE FileExplorer ----------------------------
(***************************************************************************)
(* The file list of the drive: the hook FileExplorer                       *)
(* (file_explorer_hook.js) and what DriveLive keeps of a selection.        *)
(*                                                                         *)
(* Rows are counted from 0, as in the hook.  Calls reach the LiveView in   *)
(* order, and so do its patches, but the user goes on in between.          *)
(***************************************************************************)
EXTENDS Integers, SequencesExt

CONSTANTS
    Tokens,     \* files and folders
    MaxGestures \* bound: gestures, and lists that come from elsewhere

ASSUME TokensAssumption == IsFiniteSet(Tokens)

NoRow == -1     \* no active row, and no anchor (null in the hook)

VARIABLES
    files,      \* folders and files of the LiveView
    chosen,     \* selected_items
    calls,      \* pushes on their way
    patches,    \* patches on their way: the rows of each
    rows,       \* this.rows
    active,     \* activeRowIndex
    anchor,     \* anchorRowIndex
    dragging,   \* draggingTokens; <<>> is null
    range,      \* history: the last range pushed and the row it was to reach
    early,      \* history: a gesture came before the answer to the last one
    gestures

fileVars ==
    <<files, chosen, calls, patches, rows, active, anchor, dragging, range, early, gestures>>

FileInit ==
    /\ files = SetToSeq(Tokens)
    /\ chosen = {} /\ calls = <<>> /\ patches = <<>>
    /\ rows = files /\ active = 0 /\ anchor = NoRow
    /\ dragging = <<>> /\ range = [tokens |-> <<>>, reach |-> "none"] /\ early = FALSE
    /\ gestures = 0

Gesture ==
    /\ gestures < MaxGestures /\ gestures' = gestures + 1
    /\ early' = (early \/ calls # <<>> \/ patches # <<>>)

Push(event, tokens) == calls' = Append(calls, [event |-> event, tokens |-> tokens])

(* rows.slice(a, b)                                                        *)
Slice(a, b) ==
    LET from == IF a < 0 THEN Max({Len(rows) + a, 0}) ELSE a
        to == Min({b, Len(rows)})
    IN  SubSeq(rows, from + 1, to)

(* setActiveRow                                                            *)
Bounded(i) == Max({0, Min({i, Len(rows) - 1})})

(* selectRangeTo                                                           *)
SelectRangeTo(target) ==
    LET a == IF anchor = NoRow THEN target ELSE anchor
        tokens == Slice(Min({a, target}), Max({a, target}) + 1)
    IN  /\ range' = [tokens |-> tokens,
                     reach |-> IF target + 1 \in DOMAIN rows THEN rows[target + 1] ELSE "nothing"]
        /\ Push("set_selection", tokens)

Row(i) == rows[i + 1]
Indices == 0 .. Len(rows) - 1

(* onClick, plain.                                                         *)
ClickRow(i) ==
    /\ i \in Indices /\ Gesture
    /\ active' = Bounded(i) /\ anchor' = i
    /\ Push("set_selection", <<Row(i)>>)
    /\ UNCHANGED <<files, chosen, patches, rows, dragging, range>>

(* onClick with Ctrl, and Space on the active row.                         *)
ToggleRow(i) ==
    /\ i \in Indices /\ Gesture
    /\ active' = Bounded(i) /\ anchor' = i
    /\ Push("toggle_select", <<Row(i)>>)
    /\ UNCHANGED <<files, chosen, patches, rows, dragging, range>>

(* onClick with Shift, and the arrows with Shift.                          *)
ShiftTo(i) ==
    /\ rows # <<>> /\ Gesture
    /\ active' = Bounded(i)
    /\ SelectRangeTo(active')
    /\ UNCHANGED <<files, chosen, patches, rows, anchor, dragging>>

(* ArrowUp, ArrowDown, Home and End.                                       *)
MoveTo(i) ==
    /\ rows # <<>> /\ Gesture
    /\ active' = Bounded(i) /\ anchor' = Bounded(i)
    /\ UNCHANGED <<files, chosen, calls, patches, rows, dragging, range>>

(* Enter and F2 on the active row, or a double click.                      *)
OpenRow ==
    /\ rows # <<>> /\ active + 1 \in DOMAIN rows /\ Gesture
    /\ Push("open", <<Row(active)>>)
    /\ UNCHANGED <<files, chosen, patches, rows, active, anchor, dragging, range>>

(* onDragStart.  The template gives data-row-selected a boolean, which is  *)
(* written as an attribute without a value: it is never equal to 'true',   *)
(* and a row is dragged alone.                                             *)
DragStart(i) ==
    /\ i \in Indices /\ dragging = <<>> /\ Gesture
    /\ dragging' = <<Row(i)>>
    /\ UNCHANGED <<files, chosen, calls, patches, rows, active, anchor, range>>

(* onDrop on a folder of the tree, onDragEnd.                              *)
Drop ==
    /\ dragging # <<>> /\ Gesture
    /\ Push("drag_move_items", dragging) /\ dragging' = <<>>
    /\ UNCHANGED <<files, chosen, patches, rows, active, anchor, range>>

DragEnd ==
    /\ dragging # <<>> /\ Gesture
    /\ dragging' = <<>>
    /\ UNCHANGED <<files, chosen, calls, patches, rows, active, anchor, range>>

(* The buttons of the page: select_visible, bulk_delete and bulk_move, and *)
(* whatever lists the folder again: another order, filter or search.       *)
Button(event) ==
    /\ Gesture /\ Push(event, <<>>)
    /\ UNCHANGED <<files, chosen, patches, rows, active, anchor, dragging, range>>

\* Mutant: the folder is listed again and the selection stays.
Listed_KeepsSelection(fs) == files' = fs /\ UNCHANGED chosen

(* refresh_files, apply_folder_view.                                       *)
Listed(fs) == files' = fs /\ chosen' = {}

(* The folder as it is without the tokens of s, in the same order.         *)
Place(t) == CHOOSE i \in DOMAIN files : files[i] = t

Without(s) ==
    LET left == ToSet(files) \ s
    IN  {fs \in [1 .. Cardinality(left) -> left] :
            \A i, j \in DOMAIN fs : i < j => Place(fs[i]) < Place(fs[j])}

(* The LiveView handles a call.  A move or removal of what is gone fails.  *)
Handle ==
    /\ calls # <<>> /\ calls' = Tail(calls)
    /\ LET c == Head(calls)
           named == ToSet(c.tokens)
       IN  \/ c.event = "set_selection" /\ chosen' = named /\ UNCHANGED files
           \/ /\ c.event = "toggle_select" /\ UNCHANGED files
              /\ chosen' = (chosen \ named) \cup (named \ chosen)
           \/ c.event = "select_visible" /\ chosen' = ToSet(files) /\ UNCHANGED files
           \/ c.event = "open" /\ UNCHANGED <<files, chosen>>
           \/ /\ c.event = "drag_move_items"
              /\ IF named \subseteq ToSet(files) THEN \E fs \in Without(named) : Listed(fs)
                 ELSE UNCHANGED <<files, chosen>>
           \/ /\ c.event = "bulk"
              /\ IF chosen \subseteq ToSet(files) THEN \E fs \in Without(chosen) : Listed(fs)
                 ELSE UNCHANGED <<files, chosen>>
           \/ c.event = "list" /\ (Listed(Reverse(files)) \/ \E t \in Tokens : Listed(<<t>>))
    /\ patches' = Append(patches, files')
    /\ UNCHANGED <<rows, active, anchor, dragging, range, early, gestures>>

(* updated, refreshRows: the anchor stays where it was.                    *)
RefreshRows ==
    /\ patches # <<>> /\ patches' = Tail(patches)
    /\ rows' = Head(patches)
    /\ active' = IF rows' = <<>> THEN -1
                 ELSE IF active < 0 \/ active >= Len(rows') THEN 0 ELSE active
    /\ anchor' = IF rows' = <<>> THEN NoRow ELSE anchor
    /\ UNCHANGED <<files, chosen, calls, dragging, range, early, gestures>>

FileNext ==
    \/ Handle \/ RefreshRows \/ OpenRow \/ Drop \/ DragEnd
    \/ \E i \in Indices : ClickRow(i) \/ ToggleRow(i) \/ DragStart(i) \/ ShiftTo(i)
    \/ \E i \in {active - 1, active + 1} : ShiftTo(i) \/ MoveTo(i)
    \/ \E i \in {0, Len(rows) - 1} : MoveTo(i)
    \/ \E e \in {"select_visible", "bulk", "list"} : Button(e)

FileSpec == FileInit /\ [][FileNext]_fileVars

(* Properties ------------------------------------------------------------*)

(* A range that is pushed holds the row it was extended to, at the ends of *)
(* the list and also when the list got shorter than the anchor             *)
(* (selectRangeTo, setActiveRow, refreshRows).                             *)
RangeReaches == range.reach # "none" => range.reach \in ToSet(range.tokens)

(* What is selected is in the list, so that what is moved or deleted next  *)
(* is what the page shows selected: for a user who waits for the answer to *)
(* a gesture before the next (apply_folder_view, set_selection).           *)
SelectionIsListed == ~early => chosen \subseteq ToSet(files)
(* The selection is what the page shows of it.                             *)
SelectionIsTrue == RangeReaches /\ SelectionIsListed
=============================================================================
