---------------------------- MODULE MCChatPages -----------------------------
(***************************************************************************)
(* The scripts of the chat: the open conversation, the reply box, a voice  *)
(* channel and voice messages.  A behaviour shows one of them.             *)
(***************************************************************************)
EXTENDS MessageList, ReplyBox, VoiceMesh, VoiceRecorder

VARIABLE shown      \* the page the tab shows

allVars == <<shown, listVars, boxVars, voiceVars, recorderVars>>

Init == /\ shown \in {"list", "box", "voice", "recorder"}
        /\ ListInit
        /\ BoxInit
        /\ VoiceInit /\ (shown # "voice" => crowd = {1})
        /\ RecorderInit

Next ==
    /\ UNCHANGED shown
    /\ \/ /\ shown = "list" /\ ListNext
          /\ UNCHANGED <<boxVars, voiceVars, recorderVars>>
       \/ /\ shown = "box" /\ BoxNext
          /\ UNCHANGED <<listVars, voiceVars, recorderVars>>
       \/ /\ shown = "voice" /\ VoiceNext
          /\ UNCHANGED <<listVars, boxVars, recorderVars>>
       \/ /\ shown = "recorder" /\ RecorderNext
          /\ UNCHANGED <<listVars, boxVars, voiceVars>>

Spec == Init /\ [][Next]_allVars
=============================================================================
