--------------------------- MODULE VoiceRecorder ----------------------------
(***************************************************************************)
(* Voice messages: the VoiceRecorder hook of the chat                      *)
(* (chat_voice_recorder_hook.js).  The page has no element voice-send: the *)
(* record button sends, and so does the clock at maxDuration.              *)
(*                                                                         *)
(* A recording is a number.  Every recorder pushes to the same             *)
(* audioChunks, and hands over its last chunk after it has been stopped.   *)
(***************************************************************************)
EXTENDS Integers, SequencesExt

CONSTANTS
    MaxRecordings,  \* bound: microphones granted
    MaxDuration     \* seconds, and a bound for the clock that stops nothing

ASSUME RecorderAssumption == MaxRecordings \in Nat /\ MaxDuration \in Nat

Recordings == 1 .. MaxRecordings

VARIABLES
    mounted,
    asking,     \* calls of getUserMedia not settled
    current,    \* mediaRecorder, or 0
    stream,     \* recording -> its microphone: "none", "live", "stopping", "off"
    isRecording,
    audio,      \* audioChunks: the recording of each chunk
    seconds,    \* recordingSeconds
    clocks,     \* intervals that run; recordingTimer is the last one set
    recClock,   \* recordingTimer
    toSend,     \* calls of sendRecording that wait 100 ms
    messages,   \* what was handed to the reader and will be pushed
    made,       \* history: recording -> chunks it handed over while it ran
    cancelled,  \* history: the recordings cancelled
    rushed      \* history: a click, or the end of the page, came before the
                \* last click was done

recorderVars == <<mounted, asking, current, stream, isRecording, audio, seconds, clocks,
                  recClock, toSend, messages, made, cancelled, rushed>>

RecorderInit ==
    /\ mounted = TRUE /\ asking = 0 /\ current = 0
    /\ stream = [r \in Recordings |-> "none"] /\ isRecording = FALSE /\ audio = <<>>
    /\ seconds = 0 /\ clocks = {} /\ recClock = 0 /\ toSend = 0 /\ messages = <<>>
    /\ made = [r \in Recordings |-> 0] /\ cancelled = {} /\ rushed = FALSE

Stopping == stream' = [stream EXCEPT ![current] = IF @ = "live" THEN "stopping" ELSE @]
Rush == rushed' = (rushed \/ asking > 0 \/ toSend > 0)

(* The click that starts: recordClickHandler, startRecording.              *)
StartRecording ==
    /\ mounted /\ ~isRecording /\ asking < 2
    /\ \E r \in Recordings : stream[r] = "none"
    /\ \A r \in Recordings : stream[r] # "stopping"
    /\ asking' = asking + 1
    /\ Rush
    /\ UNCHANGED <<mounted, current, stream, isRecording, audio, seconds, clocks, recClock,
                   toSend, messages, made, cancelled>>

(* this.audioChunks = [].                                                  *)
Cleared(chunks) == <<>>

(* startRecording after its await.                                         *)
MicrophoneGranted ==
    /\ asking > 0 /\ asking' = asking - 1
    /\ \E r \in Recordings :
          /\ stream[r] = "none" /\ \A q \in 1 .. r - 1 : stream[q] # "none"
          /\ current' = r
          /\ stream' = [stream EXCEPT ![r] = "live"]
          /\ clocks' = clocks \cup {r} /\ recClock' = r
    /\ audio' = Cleared(audio)
    /\ isRecording' = TRUE /\ seconds' = 0
    /\ UNCHANGED <<mounted, toSend, messages, made, cancelled, rushed>>

MicrophoneDenied ==
    /\ asking > 0 /\ asking' = asking - 1
    /\ UNCHANGED <<mounted, current, stream, isRecording, audio, seconds, clocks, recClock,
                   toSend, messages, made, cancelled, rushed>>

(* ondataavailable.                                                        *)
ChunkComes(r) ==
    /\ stream[r] = "live" /\ made[r] < 1
    /\ audio' = Append(audio, r)
    /\ made' = [made EXCEPT ![r] = @ + 1]
    /\ UNCHANGED <<mounted, asking, current, stream, isRecording, seconds, clocks, recClock,
                   toSend, messages, cancelled, rushed>>

(* The last chunk of a stopped recorder, and its onstop.                   *)
RecorderStops(r) ==
    /\ stream[r] = "stopping"
    /\ stream' = [stream EXCEPT ![r] = "off"]
    /\ audio' = Append(audio, r)
    /\ made' = [made EXCEPT ![r] = @ + 1]
    /\ UNCHANGED <<mounted, asking, current, isRecording, seconds, clocks, recClock,
                   toSend, messages, cancelled, rushed>>

(* cancelRecording, by its button or by Escape, with stopRecording.        *)
CancelRecording ==
    /\ mounted /\ isRecording
    /\ Stopping
    /\ isRecording' = FALSE
    /\ clocks' = clocks \ {recClock}
    /\ audio' = <<>> /\ seconds' = 0
    /\ cancelled' = cancelled \cup {current}
    /\ Rush
    /\ UNCHANGED <<mounted, asking, current, recClock, toSend, messages, made>>

(* sendRecording up to its await.                                          *)
StopsToSend ==
    /\ isRecording' = FALSE
    /\ Stopping
    /\ clocks' = clocks \ {recClock}
    /\ toSend' = toSend + 1

ClicksSend ==
    /\ mounted /\ isRecording
    /\ StopsToSend
    /\ Rush
    /\ UNCHANGED <<mounted, asking, current, audio, seconds, recClock, messages, made, cancelled>>

(* What sendRecording sends, when there is anything.                       *)
Sent == [audio |-> audio, duration |-> seconds]
Sends ==
    IF audio = <<>> THEN UNCHANGED <<messages, audio, seconds>>
    ELSE /\ messages' = Append(messages, Sent)
         /\ audio' = <<>> /\ seconds' = 0

(* The interval of recording r; the one of a recorder that was replaced    *)
(* goes on and counts the seconds of the present one.                      *)
SecondPasses(r) ==
    /\ r \in clocks /\ seconds < MaxDuration
    /\ \/ /\ seconds + 1 < MaxDuration
          /\ seconds' = seconds + 1
          /\ UNCHANGED <<stream, isRecording, audio, clocks, toSend, messages>>
       \/ /\ seconds + 1 = MaxDuration /\ isRecording
          /\ seconds' = MaxDuration
          /\ StopsToSend
          /\ UNCHANGED <<audio, messages>>
       \/ /\ seconds + 1 = MaxDuration /\ ~isRecording
          /\ messages' = IF audio = <<>> THEN messages
                         ELSE Append(messages, [audio |-> audio, duration |-> MaxDuration])
          /\ seconds' = IF audio = <<>> THEN MaxDuration ELSE 0
          /\ audio' = <<>>
          /\ UNCHANGED <<stream, isRecording, clocks, toSend>>
    /\ UNCHANGED <<mounted, asking, current, recClock, made, cancelled, rushed>>

(* sendRecording after its await.                                          *)
SendRecording ==
    /\ toSend > 0 /\ toSend' = toSend - 1
    /\ Sends
    /\ UNCHANGED <<mounted, asking, current, stream, isRecording, clocks, recClock, made,
                   cancelled, rushed>>

\* Mutant: the page stops the clock and leaves the recorder alone.
Released_ClockOnly == UNCHANGED <<stream, isRecording>>

(* destroyed stops the recorder.                                           *)
Released ==
    /\ IF isRecording THEN Stopping ELSE UNCHANGED stream
    /\ UNCHANGED isRecording

LeavesPage ==
    /\ mounted /\ mounted' = FALSE
    /\ Released
    /\ clocks' = clocks \ {recClock}
    /\ rushed' = (rushed \/ asking > 0)
    /\ UNCHANGED <<asking, current, audio, seconds, recClock, toSend, messages, made, cancelled>>

RecorderNext ==
    \/ StartRecording \/ MicrophoneGranted \/ MicrophoneDenied \/ CancelRecording
    \/ ClicksSend \/ SendRecording \/ LeavesPage
    \/ \E r \in Recordings : ChunkComes(r) \/ RecorderStops(r) \/ SecondPasses(r)

RecorderSpec == RecorderInit /\ [][RecorderNext]_recorderVars

(* Properties ------------------------------------------------------------*)

(* A voice message holds the chunks of one recording, in full but for the  *)
(* last one when it comes late, and of none that was cancelled, for        *)
(* someone who waits for a click to be done before the next                *)
(* (startRecording, cancelRecording, sendRecording).                       *)
AudioIsOneRecording ==
    ~rushed => \A i \in DOMAIN messages :
        LET m == messages[i].audio
        IN  /\ Cardinality(ToSet(m)) = 1 /\ m[1] \notin cancelled
            /\ Len(m) >= made[m[1]] - 1

(* The microphone is off whenever nothing is recorded, also when the page  *)
(* was left in the middle of a recording (stopRecording, destroyed).       *)
MicrophoneOff ==
    ~rushed /\ (~isRecording \/ ~mounted) => \A r \in Recordings : stream[r] # "live"
(* Nothing is recorded but what is sent as one voice message, or thrown    *)
(* away, and nothing after that.                                           *)
RecordingHolds == AudioIsOneRecording /\ MicrophoneOff
=============================================================================
