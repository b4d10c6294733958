---------------------------- MODULE CallReports ----------------------------
(***************************************************************************)
(* What a LiveView may rely on in the events it gets from the calling      *)
(* hooks, for each call client of a page: "call_connected" at most once,   *)
(* "call_ended" at most once, and never a connection after the end.        *)
(***************************************************************************)
EXTENDS Sequences

CONSTANT Ids        \* call clients

VARIABLE log        \* client -> what was reported of it

Init == log = [c \in Ids |-> <<>>]

Connected(c) ==
    /\ log[c] = <<>>
    /\ log' = [log EXCEPT ![c] = <<"connected">>]

Ended(c) ==
    /\ log[c] \in {<<>>, <<"connected">>}
    /\ log' = [log EXCEPT ![c] = Append(@, "ended")]

Next == \E c \in Ids : Connected(c) \/ Ended(c)

Spec == Init /\ [][Next]_log
=============================================================================
