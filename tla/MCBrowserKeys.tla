--------------------------- MODULE MCBrowserKeys ----------------------------
(***************************************************************************)
(* Two clients that keep keys in the browser, each on its own: the pages   *)
(* of the password manager's extension, and the chat hook that encrypts    *)
(* for the devices of a conversation: this browser and those of two other  *)
(* users, a direct conversation with one of them and a group of all three. *)
(***************************************************************************)
EXTENDS NervePages, ChatE2EE, TLC

CONSTANTS me, p, q, dm, group

MCDevices == {me, p, q}
MCConvs == {dm, group}
MCRegistered == (dm :> {me, p}) @@ (group :> {me, p, q})

VARIABLE shown      \* the client that acts

MCInit == /\ shown \in {"extension", "chat"}
          /\ Init /\ (shown # "extension" => token = NoToken /\ account = Unset)
          /\ ChatInit /\ (shown # "chat" => selected = dm)

MCNext == /\ UNCHANGED shown
          /\ \/ shown = "extension" /\ Next /\ UNCHANGED chatVars
             \/ shown = "chat" /\ ChatNext /\ UNCHANGED vars

\* The fairness of each specification, while its client is the one that acts.
Extension(A) == shown = "extension" /\ Unasked(A) /\ UNCHANGED <<shown, chatVars>>
InChat(A) == shown = "chat" /\ A /\ acts' = acts /\ UNCHANGED <<shown, vars>>

MCSpec ==
    /\ MCInit /\ [][MCNext]_<<shown, vars, chatVars>>
    /\ WF_vars(Extension(OptionsStep)) /\ WF_vars(Extension(PopupStep))
    /\ WF_vars(Extension(LauncherStep)) /\ WF_vars(Extension(CaptureStep))
    /\ WF_vars(Extension(SessionStep)) /\ WF_vars(Extension(BadgeTimer))
    /\ \A s \in Slots : WF_chatVars(InChat(TaskStep(s)))
    /\ WF_chatVars(InChat(SendStep))

\* What a client began ends: sessions lock, pages come to rest, and a message
\* taken from the user is sent, refused or given up (scheduleSessionPassphraseExpiry,
\* pollPairingStatus, handleSubmit).
ClientsSettle == IdleVaultLocks /\ PagesSettle /\ SendSettles
=============================================================================
