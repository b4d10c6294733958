------------------------------ MODULE MCPages -------------------------------
(***************************************************************************)
(* The scripts of the web pages, each on a page of its own: a behaviour    *)
(* shows one page, whose hooks act while the others are not loaded.        *)
(***************************************************************************)
EXTENDS AtomineForm, PostDwell, NotificationMarks, FileExplorer, PageMenus,
        FeedScroll

VARIABLE shown      \* the page the tab shows

allVars == <<shown, dwellVars, feedVars, dropVars, mailVars, formVars,
             fileVars, markVars>>

Init == /\ shown \in {"dwell", "feed", "drop", "mail", "form", "file", "mark"}
        /\ DwellInit
        /\ FeedInit /\ (shown # "feed" => hooks = Portal)
        /\ DropInit
        /\ MailInit /\ (shown # "mail" => kind = "inbox" /\ mails = <<"m1">>)
        /\ FormInit /\ (shown # "form" => live)
        /\ FileInit
        /\ MarkInit /\ (shown # "mark" => inView = {})

Next ==
    /\ UNCHANGED shown
    /\ \/ /\ shown = "dwell" /\ DwellNext
          /\ UNCHANGED <<feedVars, dropVars, mailVars, formVars, fileVars,
                         markVars>>
       \/ /\ shown = "feed" /\ FeedNext
          /\ UNCHANGED <<dwellVars, dropVars, mailVars, formVars, fileVars,
                         markVars>>
       \/ /\ shown = "drop" /\ DropNext
          /\ UNCHANGED <<dwellVars, feedVars, mailVars, formVars, fileVars,
                         markVars>>
       \/ /\ shown = "mail" /\ MailNext
          /\ UNCHANGED <<dwellVars, feedVars, dropVars, formVars, fileVars,
                         markVars>>
       \/ /\ shown = "form" /\ FormNext
          /\ UNCHANGED <<dwellVars, feedVars, dropVars, mailVars, fileVars,
                         markVars>>
       \/ /\ shown = "file" /\ FileNext
          /\ UNCHANGED <<dwellVars, feedVars, dropVars, mailVars, formVars,
                         markVars>>
       \/ /\ shown = "mark" /\ MarkNext
          /\ UNCHANGED <<dwellVars, feedVars, dropVars, mailVars, formVars,
                         fileVars>>

Spec == Init /\ [][Next]_allVars
=============================================================================
