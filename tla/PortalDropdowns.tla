-------------------------- MODULE PortalDropdowns ---------------------------
(***************************************************************************)
(* The dropdown menus and tooltips of the feed: portal_dropdowns.js and    *)
(* the OverlayPortal that moves an element to the end of the page.         *)
(*                                                                         *)
(* A menu is numbered in the order the page got it; a state belongs to the *)
(* menu it was made for.  No template asks for the mode "anchored".        *)
(***************************************************************************)
EXTENDS Integers, SequencesExt

CONSTANTS
    Roots,      \* elements data-portal-dropdown-root
    Triggers,   \* elements data-portal-tooltip
    MaxClicks   \* bound: gestures and patches

NoState == 0

VARIABLES
    present,    \* the roots and the tooltip triggers in the page
    menus,      \* root -> the menus in it, in the order of the document
    state,      \* root -> the menu of its state in portalDropdownStates
    open,       \* activePortalDropdowns: <<root, menu>>
    portal,     \* the menus at the end of the page
    closing,    \* states that a zero timeout will close
    lastMenu,
    tip,        \* activePortalTooltip: its trigger, or "none"
    tips,       \* the triggers whose tooltip is in the page
    clicks

dropVars == <<present, menus, state, open, portal, closing, lastMenu, tip, tips, clicks>>

DropInit ==
    /\ present = Roots \cup Triggers
    /\ LET order == SetToSeq(Roots)
       IN  menus = [r \in Roots |-> <<CHOOSE i \in DOMAIN order : order[i] = r>>]
    /\ state = [r \in Roots |-> NoState]
    /\ open = {} /\ portal = {} /\ closing = {} /\ lastMenu = Cardinality(Roots)
    /\ tip = "none" /\ tips = {} /\ clicks = 0

Clicks == clicks < MaxClicks /\ clicks' = clicks + 1

(* restore: before the sibling it once had, which comes after whatever     *)
(* menu a patch has put there since.                                       *)
Home(ms, states) ==
    [r \in Roots |->
        ms[r] \o SetToSeq({s[2] : s \in {s \in states : s[1] = r}} \ ToSet(ms[r]))]

(* closePortalDropdown of these states.                                    *)
LeavesPortal(states) == portal \ {s[2] : s \in states}

Close(states) ==
    /\ menus' = Home(menus, states)
    /\ portal' = LeavesPortal(states)
    /\ open' = open \ states

\* Mutant: the dropdowns that are open stay so.
Others_Stay(r) == {}

(* closeAllPortalDropdowns(state), the state being that of root r.         *)
Others(r) == open

(* getPortalDropdownState: the first menu inside the root; none is inside  *)
(* while the menu is open, so that a second click does nothing.  A state   *)
(* whose menu was replaced is closed, and a new one made; then             *)
(* togglePortalDropdown opens it.                                          *)
ClickTrigger(r) ==
    /\ r \in present /\ Clicks
    /\ IF menus[r] = <<>>
       THEN UNCHANGED <<menus, state, open, portal>>
       ELSE LET m == Head(menus[r])
                closed == Others(r)
                home == Home(menus, closed)
            IN  /\ state' = [state EXCEPT ![r] = m]
                /\ menus' = [home EXCEPT ![r] = SelectSeq(@, LAMBDA n : n # m)]
                /\ portal' = LeavesPortal(closed) \cup {m}
                /\ open' = (open \ closed) \cup {<<r, m>>}
    /\ UNCHANGED <<present, closing, lastMenu, tip, tips>>

(* A click on a button of an open menu: its state is closed a tick later.  *)
ClickItem(s) ==
    /\ s \in open /\ s[2] \in portal /\ Clicks
    /\ closing' = closing \cup {s}
    /\ UNCHANGED <<present, menus, state, open, portal, lastMenu, tip, tips>>

ClosesItem(s) ==
    /\ s \in closing /\ closing' = closing \ {s}
    /\ Close({s})
    /\ UNCHANGED <<present, state, lastMenu, tip, tips, clicks>>

(* A pointerdown outside of every open root and menu; Escape.              *)
CloseAll ==
    /\ open # {} /\ Clicks
    /\ Close(open)
    /\ UNCHANGED <<present, state, closing, lastMenu, tip, tips>>

(* A patch of the page: what it finds at the end of it goes, and a root    *)
(* whose menu was there gets a new one; roots and triggers may go.         *)
Patch ==
    /\ Clicks
    /\ \E gone \in {{}} \cup {{x} : x \in present} :
          /\ present' = present \ gone
          /\ LET bare == {r \in Roots \ gone : menus[r] = <<>> /\ r \in present}
                 order == SetToSeq(bare)
             IN  /\ menus' = [r \in Roots |->
                        CASE r \in bare -> <<lastMenu + (CHOOSE i \in DOMAIN order : order[i] = r)>>
                          [] r \notin bare /\ menus[r] # <<>> -> <<Head(menus[r])>>
                          [] OTHER -> <<>>]
                 /\ lastMenu' = lastMenu + Cardinality(bare)
    /\ portal' = {} /\ tips' = {}
    /\ UNCHANGED <<state, open, closing, tip>>

(* showPortalTooltip, on mouseover and focusin.                            *)
ShowTooltip(t) ==
    /\ t \in present /\ Clicks
    /\ IF tip = t THEN UNCHANGED <<tip, tips>>
       ELSE tip' = t /\ tips' = (tips \ {tip}) \cup {t}
    /\ UNCHANGED <<present, menus, state, open, portal, closing, lastMenu>>

(* hidePortalTooltip, on mouseout and focusout of a trigger in the page.   *)
HideTooltip(t) ==
    /\ t \in present /\ tip = t /\ Clicks
    /\ tip' = "none" /\ tips' = tips \ {t}
    /\ UNCHANGED <<present, menus, state, open, portal, closing, lastMenu>>

DropNext ==
    \/ CloseAll \/ Patch
    \/ \E r \in Roots : ClickTrigger(r)
    \/ \E s \in open : ClickItem(s)
    \/ \E s \in closing : ClosesItem(s)
    \/ \E t \in Triggers : ShowTooltip(t) \/ HideTooltip(t)

DropSpec == DropInit /\ [][DropNext]_dropVars

(* Properties ------------------------------------------------------------*)

(* One dropdown is open at most, and the menus that lie over the page are  *)
(* those of the dropdowns that are open, whatever a patch replaces or      *)
(* removes while one is (openPortalDropdown, closePortalDropdown).         *)
OneMenuOverPage ==
    /\ \A s, t \in open : s = t
    /\ portal \subseteq {s[2] : s \in open}
=============================================================================
