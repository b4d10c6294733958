----------------------------- MODULE PageMenus ------------------------------
(***************************************************************************)
(* The menus that lie over a page, in the two places that open any: the    *)
(* dropdowns of the feed, and the goto menu of the mail pages.             *)
(***************************************************************************)
EXTENDS PortalDropdowns, MailShortcuts

MenusSpec == DropSpec /\ MailSpec

(* No menu lies over a page that did not open it, and none over another    *)
(* (openPortalDropdown, showGotoMenu).                                     *)
MenusAlone == OneMenuOverPage /\ OneGotoMenu
=============================================================================
