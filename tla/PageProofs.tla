----------------------------- MODULE PageProofs -----------------------------
(***************************************************************************)
(* What the pages' scripts keep, for any of their bounds: the Atomine      *)
(* check hands a token out once, Enter sends a draft once, a voice message *)
(* is one recording, outside of which the microphone is off, the pages of  *)
(* the extension leave keys that open and verified passphrases behind, the *)
(* time a post is seen and the notifications seen are reported once, what  *)
(* is selected in the drive is in its list, no menu lies over another, and *)
(* a patch of the feed leaves the reader at his post.                      *)
(* The modules share no variable, and each has its own invariant.          *)
(***************************************************************************)
EXTENDS AtomineForm, ReplyBox, VoiceRecorder, NervePages, PostDwell, NotificationMarks,
        FileExplorer, PageMenus, FeedScroll, FiniteSetTheorems, TLAPS

-----------------------------------------------------------------------------
(* AtomineForm: The Atomine check *)

\* The fields that carry the argument keep their types.
FormTypes ==
    /\ stage \in {"idle", "challenge", "proof", "work", "token"}
    /\ settled \in {"pending", "token", "failed"}
    /\ waiting \in Nat /\ issued \in Nat /\ field \in Nat /\ field <= issued
    /\ submits \in Seq(Nat)

\* The token in the field was issued and has not gone out.
Unspent == field # 0 /\ \A i \in DOMAIN submits : submits[i] # field

\* What was submitted was issued, and each of it once.
Spent ==
    /\ \A i \in DOMAIN submits : submits[i] # 0 /\ submits[i] <= issued
    /\ \A i, j \in DOMAIN submits : submits[i] = submits[j] => i = j

\* For someone who waits there is one continuation at most, and the mark that
\* lets a submit through stands for a token that has not been used.
FormIInv ==
    /\ FormTypes
    /\ ~hasty =>
          /\ Spent
          /\ waiting <= 1
          /\ stage # "idle" => waiting = 1 /\ ~skip
          /\ waiting > 0 => ~skip
          /\ skip => Unspent
          /\ stage = "idle" /\ waiting > 0 /\ settled = "token" => Unspent

-----------------------------------------------------------------------------
\* Submitting a token that was not used keeps what was submitted in order.
LEMMA GoesOutOnce ==
  ASSUME FormTypes, Spent, Unspent, submits' = Append(submits, field), issued' = issued
  PROVE  Spent' /\ submits' \in Seq(Nat)
<1>1. /\ submits' \in Seq(Nat) /\ Len(submits') = Len(submits) + 1
      /\ DOMAIN submits = 1 .. Len(submits) /\ DOMAIN submits' = 1 .. Len(submits) + 1
      /\ Len(submits) \in Nat
  BY DEF FormTypes
<1>2. submits'[Len(submits) + 1] = field /\ \A i \in DOMAIN submits : submits'[i] = submits[i]
  BY <1>1 DEF FormTypes
<1>3. \A i \in DOMAIN submits' : i = Len(submits) + 1 \/ i \in DOMAIN submits
  BY <1>1
<1>4. \A i \in DOMAIN submits' : submits'[i] # 0 /\ submits'[i] <= issued'
  BY <1>2, <1>3 DEF Spent, Unspent, FormTypes
<1>5. \A i, j \in DOMAIN submits' : submits'[i] = submits'[j] => i = j
  BY <1>2, <1>3 DEF Spent, Unspent
<1> QED
  BY <1>1, <1>4, <1>5 DEF Spent

\* A submit by the user: it passes with the token that the mark stands for, or
\* it starts a work, or joins one and was hasty.
LEMMA UserSubmitsIInv ==
  ASSUME FormIInv, UserSubmits
  PROVE  FormIInv'
<1>1. /\ ~hasty' => ~hasty /\ stage = "idle" /\ ~(waiting > 0)
      /\ issued' = issued /\ field' = field
  BY Zenon DEF UserSubmits
<1>2. CASE Passes
  <2>1. /\ skip /\ ~skip'
        /\ submits' = Append(submits, field)
        /\ stage' = stage /\ waiting' = waiting /\ settled' = settled
    BY <1>2 DEF Passes, SkipTaken, GoesOut
  <2>2. FormTypes'
    BY <1>1, <2>1 DEF FormIInv, FormTypes
  <2>3. ASSUME ~hasty' PROVE Spent' /\ waiting' = 0 /\ stage' = "idle"
    <3>1. ~hasty /\ stage = "idle" /\ waiting = 0
      BY <1>1, <2>3 DEF FormIInv, FormTypes
    <3> QED
      BY <3>1, <2>1, <1>1, GoesOutOnce DEF FormIInv
  <2> QED
    BY <2>1, <2>2, <2>3 DEF FormIInv
<1>3. CASE EnsureToken
  <2>1. /\ ~skip /\ ~skip' /\ submits' = submits
        /\ \/ waiting' = waiting /\ stage' = stage /\ settled' = settled
           \/ /\ waiting' = waiting + 1 /\ stage # "idle"
              /\ stage' = stage /\ settled' = settled
           \/ /\ waiting' = waiting + 1 /\ stage = "idle"
              /\ stage' = "challenge" /\ settled' = "pending"
    BY <1>3, Zenon DEF EnsureToken
  <2>2. FormTypes'
    BY <1>1, <2>1 DEF FormIInv, FormTypes
  <2>3. ASSUME ~hasty'
        PROVE  /\ Spent' /\ waiting' <= 1
               /\ stage' # "idle" => waiting' = 1
               /\ waiting' > 0 => stage' # "idle"
    <3>1. ~hasty /\ stage = "idle" /\ waiting = 0
      BY <1>1, <2>3 DEF FormIInv, FormTypes
    <3> QED
      BY <3>1, <2>1, <1>1 DEF FormIInv, Spent
  <2> QED
    BY <2>1, <2>2, <2>3 DEF FormIInv
<1> QED
  BY <1>2, <1>3 DEF UserSubmits

\* The continuation of onSubmit sends the token of its own work, or leaves the
\* mark for it on a form that has become invalid.
LEMMA RequestSubmitIInv ==
  ASSUME FormIInv, RequestSubmit
  PROVE  FormIInv'
<1>1. /\ stage = "idle" /\ waiting > 0 /\ settled = "token" /\ waiting' = waiting - 1
      /\ stage' = stage /\ settled' = settled /\ field' = field /\ issued' = issued
      /\ hasty' = hasty
  BY DEF RequestSubmit
<1>2. ~hasty => Spent /\ Unspent /\ waiting = 1
  BY <1>1 DEF FormIInv, FormTypes
<1>3. CASE valid
  <2>1. ~skip' /\ submits' = Append(submits, field)
    BY <1>3 DEF RequestSubmit, SkipTaken, GoesOut
  <2>2. FormTypes'
    BY <1>1, <2>1 DEF FormIInv, FormTypes
  <2>3. ~hasty' => Spent' /\ waiting' = 0
    BY <1>1, <1>2, <2>1, GoesOutOnce DEF FormIInv
  <2> QED
    BY <1>1, <2>1, <2>2, <2>3 DEF FormIInv
<1>4. CASE ~valid
  <2>1. submits' = submits
    BY <1>4 DEF RequestSubmit
  <2>2. FormTypes'
    BY <1>1, <2>1 DEF FormIInv, FormTypes
  <2>3. ~hasty' => Spent' /\ Unspent' /\ waiting' = 0
    BY <1>1, <1>2, <2>1 DEF Spent, Unspent
  <2> QED
    BY <1>1, <2>2, <2>3 DEF FormIInv
<1> QED
  BY <1>3, <1>4

\* Every step keeps the invariant.
LEMMA FormStep ==
  ASSUME FormIInv, [FormNext]_formVars
  PROVE  FormIInv'
<1>1. CASE Quiet /\ UserSubmits
  BY <1>1, UserSubmitsIInv
<1>2. CASE RequestSubmit
  BY <1>2, RequestSubmitIInv
<1>3. CASE ChallengeComes \/ ProofHolds \/ WorkIsDone
  BY <1>3 DEF ChallengeComes, ProofHolds, WorkIsDone, Advances, FormIInv, FormTypes, Spent, Unspent
<1>4. CASE TokenComes
  \* The new token is above all that were submits.
  <2>1. /\ stage = "token" /\ stage' = "idle" /\ issued' = issued + 1 /\ field' = issued + 1
        /\ settled' = "token" /\ submits' = submits /\ waiting' = waiting /\ skip' = skip
        /\ hasty' = hasty
    BY <1>4 DEF TokenComes
  <2>2. FormTypes'
    BY <2>1 DEF FormIInv, FormTypes
  <2>3. ASSUME ~hasty PROVE Spent' /\ Unspent' /\ ~skip /\ waiting = 1
    BY <2>1, <2>3 DEF FormIInv, FormTypes, Spent, Unspent
  <2> QED
    BY <2>1, <2>2, <2>3 DEF FormIInv
<1>5. CASE StepFails
  BY <1>5 DEF StepFails, FormIInv, FormTypes, Spent, Unspent
<1>6. CASE SecurityCheckFailed
  BY <1>6 DEF SecurityCheckFailed, FormIInv, FormTypes, Spent, Unspent
<1>7. CASE EditsField \/ SubmitResets
  BY <1>7 DEF EditsField, SubmitResets, FormIInv, FormTypes, Spent, Unspent
<1>8. CASE Updated
  <2>1. /\ waiting = 0 \/ stage # "idle"
        /\ stage' = stage /\ waiting' = waiting /\ settled' = settled
        /\ issued' = issued /\ submits' = submits /\ hasty' = hasty
        /\ stage = "idle" => ~skip' /\ field' = 0
        /\ stage # "idle" => skip' = skip /\ field' = field
    BY <1>8 DEF Updated, Quiet
  <2>2. FormTypes'
    BY <2>1 DEF FormIInv, FormTypes
  <2> QED
    BY <2>1, <2>2 DEF FormIInv, FormTypes, Spent, Unspent
<1>9. CASE UNCHANGED formVars
  BY <1>9 DEF formVars, FormIInv, FormTypes, Spent, Unspent
<1> QED
  BY <1>1, <1>2, <1>3, <1>4, <1>5, <1>6, <1>7, <1>8, <1>9 DEF FormNext

\* The inductive invariant holds throughout.
THEOREM FormInvariance == FormSpec => []FormIInv
<1>1. FormInit => FormIInv
  BY DEF FormInit, FormIInv, FormTypes, Spent
<1> QED
  BY <1>1, FormStep, PTL DEF FormSpec

\* Someone who submits and waits never has a submission go out without a token,
\* nor two with the same one (onSubmit, resetSubmissionState).
THEOREM SpentOnce == FormSpec => []TokenSpentOnce
<1>1. FormIInv => TokenSpentOnce
  BY DEF FormIInv, Spent, TokenSpentOnce
<1> QED
  BY <1>1, FormInvariance, PTL

-----------------------------------------------------------------------------
(* ReplyBox: The reply box *)

\* The fields the argument reads.
BoxTypes ==
    /\ now \in Nat /\ typed \in Nat
    /\ last.time \in Nat
    /\ sent \in Seq(Nat)
    /\ \A t \in timers : t.due \in Nat

\* A draft is numbered when it is typed, and only what was typed is sent.
Numbered ==
    /\ box # Empty => box.draft \in 1 .. typed
    /\ \A i \in DOMAIN sent : sent[i] <= typed

\* Timers fire on time.
OnTime == \A t \in timers : t.due >= now

SentOnce == \A i, j \in DOMAIN sent : sent[i] = sent[j] => i = j

\* A draft that is in the box although it was sent is the last one sent, and
\* the timer that empties the box after 100 ms has not fired: sendingMessage
\* may be over by then (a patch resets it), the 500 ms of lastSentTime are not.
StillThere ==
    box # Empty /\ (\E i \in DOMAIN sent : sent[i] = box.draft) =>
        /\ box.text = last.text
        /\ \E t \in timers : t.due = last.time + Clearing

BoxIInv ==
    /\ BoxTypes
    /\ Numbered
    /\ OnTime
    /\ ~clicked => SentOnce /\ StillThere

-----------------------------------------------------------------------------
\* What submitting appends, and the timers it sets.
LEMMA SubmittedFacts ==
  ASSUME BoxTypes, Numbered, OnTime, NEW k, Submitted(k), now' = now, typed' = typed,
         last'.time \in Nat, box' = box, box # Empty
  PROVE  /\ BoxTypes' /\ Numbered' /\ OnTime'
         /\ sent' = Append(sent, box.draft)
         /\ DOMAIN sent' = DOMAIN sent \cup {Len(sent) + 1} /\ Len(sent) + 1 \notin DOMAIN sent
         /\ sent'[Len(sent) + 1] = box.draft
         /\ \A i \in DOMAIN sent : sent'[i] = sent[i]
         /\ \E t \in timers' : t.due = now + Clearing
<1>1. /\ sent' = Append(sent, box.draft)
      /\ timers' = timers \cup {[due |-> now + Clearing, key |-> b] : b \in {FALSE, k}}
  BY Zenon DEF Submitted
<1>2. box.draft \in 1 .. typed
  BY DEF Numbered
<1>3. /\ sent' \in Seq(Nat)
      /\ DOMAIN sent' = DOMAIN sent \cup {Len(sent) + 1} /\ Len(sent) + 1 \notin DOMAIN sent
      /\ sent'[Len(sent) + 1] = box.draft
      /\ \A i \in DOMAIN sent : sent'[i] = sent[i]
  BY <1>1, <1>2 DEF BoxTypes
<1>4. \A t \in timers' : t \in timers \/ t.due = now + Clearing
  BY <1>1
<1>5. [due |-> now + Clearing, key |-> FALSE] \in timers'
  BY <1>1, Zenon
<1>6. \E t \in timers' : t.due = now + Clearing
  BY <1>5
<1>7. BoxTypes'
  BY <1>3, <1>4 DEF BoxTypes, Clearing
<1>8. Numbered'
  BY <1>2, <1>3 DEF Numbered, BoxTypes
<1>9. OnTime'
  BY <1>4 DEF OnTime, BoxTypes, Clearing
<1> QED
  BY <1>1, <1>3, <1>6, <1>7, <1>8, <1>9

\* Enter: a draft that was sent would still be within the 500 ms.
LEMMA PressEnterIInv ==
  ASSUME BoxIInv, PressEnter
  PROVE  BoxIInv'
<1>1. /\ box # Empty /\ ~JustSent(box.text)
      /\ last' = [text |-> box.text, time |-> now]
      /\ Submitted(TRUE)
      /\ now' = now /\ box' = box /\ typed' = typed
      /\ clicked' = clicked
  BY DEF PressEnter
<1>2. last'.time = now /\ last'.text = box.text
  BY <1>1
<1>3. /\ BoxTypes' /\ Numbered' /\ OnTime'
      /\ DOMAIN sent' = DOMAIN sent \cup {Len(sent) + 1} /\ Len(sent) + 1 \notin DOMAIN sent
      /\ sent'[Len(sent) + 1] = box.draft
      /\ \A i \in DOMAIN sent : sent'[i] = sent[i]
      /\ \E t \in timers' : t.due = now + Clearing
  BY <1>1, <1>2, SubmittedFacts DEF BoxIInv, BoxTypes
<1>4. ASSUME ~clicked PROVE \A i \in DOMAIN sent : sent[i] # box.draft
  <2> SUFFICES ASSUME NEW i \in DOMAIN sent, sent[i] = box.draft PROVE FALSE
    OBVIOUS
  <2>1. box.text = last.text /\ \E t \in timers : t.due = last.time + Clearing
    BY <1>1, <1>4 DEF BoxIInv, StillThere
  <2>2. now <= last.time + 1
    BY <2>1 DEF BoxIInv, OnTime, BoxTypes, Clearing
  <2>3. now - last.time < SameText
    BY <2>2 DEF BoxIInv, BoxTypes, SameText
  <2> QED
    BY <1>1, <2>1, <2>3 DEF JustSent
<1>5. ASSUME ~clicked PROVE SentOnce' /\ StillThere'
  <2>1. SentOnce'
    BY <1>3, <1>4, <1>5 DEF SentOnce, BoxIInv
  <2>2. StillThere'
    BY <1>1, <1>2, <1>3 DEF StillThere
  <2> QED
    BY <2>1, <2>2
<1> QED
  BY <1>1, <1>3, <1>5 DEF BoxIInv

\* Steps after which the box is empty, and that send nothing.
LEMMA EmptiedIInv ==
  ASSUME BoxIInv, box' = Empty, timers' \subseteq timers,
         now' = now, typed' = typed, last' = last, sent' = sent, clicked' = clicked
  PROVE  BoxIInv'
BY DEF BoxIInv, BoxTypes, Numbered, OnTime, SentOnce, StillThere

\* Every step keeps the invariant.
LEMMA BoxStep ==
  ASSUME BoxIInv, [BoxNext]_boxVars
  PROVE  BoxIInv'
<1>1. CASE PressEnter
  BY <1>1, PressEnterIInv
<1>2. CASE ClickSubmit
  <2>1. /\ box # Empty /\ Submitted(FALSE) /\ clicked'
        /\ now' = now /\ box' = box /\ typed' = typed /\ last' = last
    BY <1>2, Zenon DEF ClickSubmit
  <2>2. BoxTypes' /\ Numbered' /\ OnTime'
    BY <2>1, SubmittedFacts DEF BoxIInv, BoxTypes
  <2> QED
    BY <2>1, <2>2 DEF BoxIInv
<1>3. CASE Answered \/ Patched
  BY <1>3 DEF Answered, Patched, BoxIInv, BoxTypes, Numbered, OnTime, SentOnce, StillThere
<1>4. CASE Reset
  <2>1. /\ box' = Empty /\ timers' = timers
        /\ now' = now /\ typed' = typed /\ last' = last /\ sent' = sent /\ clicked' = clicked
    BY <1>4 DEF Reset
  <2> QED
    BY <2>1, EmptiedIInv
<1>5. CASE Tick
  <2>1. /\ now' = now + 1 /\ \A t \in timers : t.due > now
        /\ box' = box /\ typed' = typed /\ last' = last /\ timers' = timers
        /\ sent' = sent /\ clicked' = clicked
    BY <1>5 DEF Tick
  <2> QED
    BY <2>1 DEF BoxIInv, BoxTypes, Numbered, OnTime, SentOnce, StillThere
<1>6. ASSUME NEW text \in Texts, Types(text) PROVE BoxIInv'
  <2>1. /\ typed' = typed + 1 /\ box' = [draft |-> typed + 1, text |-> text]
        /\ now' = now /\ last' = last /\ timers' = timers /\ sent' = sent /\ clicked' = clicked
    BY <1>6 DEF Types
  <2>2. box'.draft = typed + 1
    BY <2>1
  <2>3. \A i \in DOMAIN sent : sent'[i] # box'.draft
    BY <2>1, <2>2 DEF BoxIInv, BoxTypes, Numbered
  <2>4. BoxTypes' /\ OnTime'
    BY <2>1 DEF BoxIInv, BoxTypes, OnTime
  <2>5. Numbered'
    BY <2>1, <2>2 DEF BoxIInv, BoxTypes, Numbered
  <2> QED
    BY <2>1, <2>3, <2>4, <2>5 DEF BoxIInv, SentOnce, StillThere
<1>7. ASSUME NEW t \in timers, Clears(t) PROVE BoxIInv'
  <2>1. /\ box' = Empty /\ timers' = timers \ {t}
        /\ now' = now /\ typed' = typed /\ last' = last /\ sent' = sent /\ clicked' = clicked
    BY <1>7 DEF Clears
  <2> QED
    BY <2>1, EmptiedIInv
<1>8. CASE UNCHANGED boxVars
  BY <1>8 DEF boxVars, BoxIInv, BoxTypes, Numbered, OnTime, SentOnce, StillThere
<1> QED
  BY <1>1, <1>2, <1>3, <1>4, <1>5, <1>6, <1>7, <1>8 DEF BoxNext

\* The inductive invariant holds throughout.
THEOREM BoxInvariance == BoxSpec => []BoxIInv
<1>1. BoxInit => BoxIInv
  BY DEF BoxInit, BoxIInv, BoxTypes, Numbered, OnTime, SentOnce, StillThere, Empty, SameText
<1> QED
  BY <1>1, BoxStep, PTL DEF BoxSpec

\* For someone who sends with Enter, what was typed once is submitted once
\* (onKeyDown: sendingMessage, and the text and time of the last one sent).
THEOREM EnterOnce == BoxSpec => []EnterSendsOnce
<1>1. BoxIInv => EnterSendsOnce
  BY DEF BoxIInv, SentOnce, EnterSendsOnce
<1> QED
  BY <1>1, BoxInvariance, PTL

-----------------------------------------------------------------------------
(* VoiceRecorder: Voice messages *)

Silent == \A r \in Recordings : stream[r] # "live"

\* For someone who waits for a click to be done: one microphone is asked for
\* at a time, with all others off, and while a recording runs on the page only
\* its own is live.
RecorderIInv ==
    /\ stream \in [Recordings -> {"none", "live", "stopping", "off"}]
    /\ asking \in Nat
    /\ ~rushed =>
          /\ asking <= 1
          /\ asking > 0 => mounted /\ ~isRecording
          /\ ~isRecording \/ ~mounted => Silent
          /\ \A r \in Recordings : stream[r] = "live" => r = current

-----------------------------------------------------------------------------
\* stopRecording leaves no other microphone live than one it does not know.
LEMMA StoppingSilences ==
  ASSUME stream \in [Recordings -> {"none", "live", "stopping", "off"}], Stopping
  PROVE  /\ stream' \in [Recordings -> {"none", "live", "stopping", "off"}]
         /\ \A r \in Recordings : stream'[r] = "live" => r # current /\ stream[r] = "live"
BY DEF Stopping

\* The steps that stop the present recording.
LEMMA StopIInv ==
  ASSUME RecorderIInv, Stopping, asking' = asking,
         mounted' \in BOOLEAN, asking > 0 /\ ~rushed' => mounted' /\ ~isRecording',
         current' = current, ~rushed' => ~rushed
  PROVE  RecorderIInv'
<1>1. /\ stream' \in [Recordings -> {"none", "live", "stopping", "off"}]
      /\ \A r \in Recordings : stream'[r] = "live" => r # current /\ stream[r] = "live"
  BY StoppingSilences DEF RecorderIInv
<1>2. ~rushed' => Silent'
  BY <1>1 DEF RecorderIInv, Silent
<1> QED
  BY <1>1, <1>2 DEF RecorderIInv, Silent

\* Steps that concern chunks, clocks and messages only.
LEMMA AsideIInv ==
  ASSUME RecorderIInv, stream' = stream, asking' = asking, current' = current,
         mounted' = mounted, isRecording' = isRecording, rushed' = rushed
  PROVE  RecorderIInv'
BY DEF RecorderIInv, Silent

\* Every step keeps the invariant.
LEMMA RecorderStep ==
  ASSUME RecorderIInv, [RecorderNext]_recorderVars
  PROVE  RecorderIInv'
<1>1. CASE StartRecording
  <2>1. /\ mounted /\ ~isRecording /\ mounted' = mounted /\ isRecording' = isRecording
        /\ asking' = asking + 1 /\ stream' = stream /\ current' = current
    BY <1>1 DEF StartRecording
  <2>2. ~rushed' => ~rushed /\ ~(asking > 0)
    BY <1>1, Zenon DEF StartRecording, Rush
  <2> QED
    BY <2>1, <2>2 DEF RecorderIInv, Silent
<1>2. CASE MicrophoneGranted
  <2>1. PICK r \in Recordings :
          current' = r /\ stream' = [stream EXCEPT ![r] = "live"]
    BY <1>2 DEF MicrophoneGranted
  <2>2. /\ asking > 0 /\ asking' = asking - 1 /\ mounted' = mounted /\ rushed' = rushed
    BY <1>2 DEF MicrophoneGranted
  <2>3. isRecording'
    BY <1>2, Zenon DEF MicrophoneGranted
  <2>4. /\ stream' \in [Recordings -> {"none", "live", "stopping", "off"}]
        /\ \A q \in Recordings : stream'[q] = "live" => q = r \/ stream[q] = "live"
    BY <2>1 DEF RecorderIInv
  <2>5. ~rushed => Silent /\ mounted /\ asking = 1
    BY <2>2 DEF RecorderIInv
  <2> QED
    BY <2>1, <2>2, <2>3, <2>4, <2>5 DEF RecorderIInv, Silent
<1>3. CASE MicrophoneDenied
  BY <1>3 DEF MicrophoneDenied, RecorderIInv, Silent
<1>4. CASE CancelRecording
  <2>1. /\ Stopping /\ asking' = asking /\ mounted' = mounted /\ current' = current
    BY <1>4 DEF CancelRecording
  <2>2. mounted /\ mounted' /\ mounted' \in BOOLEAN /\ ~isRecording'
    BY <1>4, Zenon DEF CancelRecording
  <2>3. ~rushed' => ~rushed
    BY <1>4, Zenon DEF CancelRecording, Rush
  <2> QED
    BY <2>1, <2>2, <2>3, StopIInv
<1>5. CASE ClicksSend
  <2>1. /\ Stopping /\ asking' = asking /\ mounted' = mounted /\ current' = current
    BY <1>5 DEF ClicksSend, StopsToSend
  <2>2. mounted /\ mounted' /\ mounted' \in BOOLEAN /\ ~isRecording'
    BY <1>5, Zenon DEF ClicksSend, StopsToSend
  <2>3. ~rushed' => ~rushed
    BY <1>5, Zenon DEF ClicksSend, Rush
  <2> QED
    BY <2>1, <2>2, <2>3, StopIInv
<1>6. CASE SendRecording
  BY <1>6, AsideIInv DEF SendRecording
<1>7. CASE LeavesPage
  \* Who leaves in the middle of a recording stops it; who leaves at another
  \* time finds everything off.
  <2>1. /\ asking' = asking /\ current' = current /\ Released
    BY <1>7 DEF LeavesPage
  <2>2. ~mounted' /\ mounted' \in BOOLEAN
    BY <1>7, Zenon DEF LeavesPage
  <2>3. ~rushed' => ~rushed /\ ~(asking > 0)
    BY <1>7, Zenon DEF LeavesPage
  <2>4. CASE isRecording
    <3>1. Stopping
      BY <2>1, <2>4 DEF Released
    <3> QED
      BY <2>1, <2>2, <2>3, <3>1, StopIInv
  <2>5. CASE ~isRecording
    <3>1. stream' = stream
      BY <2>1, <2>5 DEF Released
    <3> QED
      BY <2>1, <2>2, <2>3, <2>5, <3>1 DEF RecorderIInv, Silent
  <2> QED
    BY <2>4, <2>5
<1>8. ASSUME NEW r \in Recordings, ChunkComes(r) PROVE RecorderIInv'
  BY <1>8, AsideIInv DEF ChunkComes
<1>9. ASSUME NEW r \in Recordings, RecorderStops(r) PROVE RecorderIInv'
  <2>1. /\ stream' = [stream EXCEPT ![r] = "off"]
        /\ asking' = asking /\ current' = current /\ mounted' = mounted
        /\ isRecording' = isRecording /\ rushed' = rushed
    BY <1>9 DEF RecorderStops
  <2>2. /\ stream' \in [Recordings -> {"none", "live", "stopping", "off"}]
        /\ \A q \in Recordings : stream'[q] = "live" => stream[q] = "live"
    BY <2>1 DEF RecorderIInv
  <2> QED
    BY <2>1, <2>2 DEF RecorderIInv, Silent
<1>10. ASSUME NEW r \in Recordings, SecondPasses(r) PROVE RecorderIInv'
  <2>1. asking' = asking /\ current' = current /\ mounted' = mounted /\ rushed' = rushed
    BY <1>10 DEF SecondPasses
  <2>2. \/ stream' = stream /\ isRecording' = isRecording
        \/ StopsToSend /\ isRecording
    BY <1>10, Zenon DEF SecondPasses
  <2>3. CASE stream' = stream /\ isRecording' = isRecording
    BY <2>1, <2>3, AsideIInv
  <2>4. CASE StopsToSend /\ isRecording
    <3>1. Stopping
      BY <2>4 DEF StopsToSend
    <3>2. ~isRecording'
      BY <2>4, Zenon DEF StopsToSend
    <3>3. /\ stream' \in [Recordings -> {"none", "live", "stopping", "off"}]
          /\ \A q \in Recordings : stream'[q] = "live" => q # current /\ stream[q] = "live"
      BY <3>1, StoppingSilences DEF RecorderIInv
    <3> QED
      BY <2>1, <2>4, <3>2, <3>3 DEF RecorderIInv, Silent
  <2> QED
    BY <2>2, <2>3, <2>4
<1>11. CASE UNCHANGED recorderVars
  BY <1>11, AsideIInv DEF recorderVars
<1> QED
  BY <1>1, <1>2, <1>3, <1>4, <1>5, <1>6, <1>7, <1>8, <1>9, <1>10, <1>11 DEF RecorderNext

\* The inductive invariant holds throughout.
THEOREM RecorderInvariance == RecorderSpec => []RecorderIInv
<1>1. RecorderInit => RecorderIInv
  BY DEF RecorderInit, RecorderIInv, Silent
<1> QED
  BY <1>1, RecorderStep, PTL DEF RecorderSpec

-----------------------------------------------------------------------------
\* A recording that was stopped, and may owe its last chunk.
Ended(r) == stream[r] \in {"stopping", "off"}

Messages == [audio : Seq(Recordings), duration : Nat]

ChunkTypes ==
    /\ audio \in Seq(Recordings) /\ made \in [Recordings -> Nat]
    /\ toSend \in Nat /\ seconds \in Nat
    /\ messages \in Seq(Messages)

\* Whoever waits has one thing under way: a recording that is to be sent, or
\* the next one, has no older one running, and only the clock of the present
\* one counts.
OneAtATime ==
    /\ toSend <= 1
    /\ isRecording \/ asking > 0 => toSend = 0
    /\ clocks \subseteq {recClock}
    /\ ~isRecording \/ ~mounted => clocks = {}
    /\ \A r \in Recordings : stream[r] = "stopping" => r = current /\ asking = 0
    /\ \A r \in Recordings : stream[r] = "none" => made[r] = 0
    /\ cancelled \subseteq Recordings /\ \A r \in cancelled : Ended(r)

\* What is being recorded or about to be sent are the chunks of the present
\* recording, all of them.
Collects ==
    isRecording \/ toSend > 0 =>
        /\ current \in Recordings /\ current \notin cancelled
        /\ \A i \in DOMAIN audio : audio[i] = current
        /\ Len(audio) = made[current]
        /\ IF isRecording /\ mounted THEN stream[current] = "live" ELSE Ended(current)

\* A message has the chunks of one recording, but for one that comes late.
Whole(m) ==
    /\ m # <<>> /\ \A j \in DOMAIN m : m[j] = m[1]
    /\ m[1] \notin cancelled /\ Ended(m[1])
    /\ Len(m) >= made[m[1]] - (IF stream[m[1]] = "off" THEN 1 ELSE 0)

AllWhole == \A i \in DOMAIN messages : Whole(messages[i].audio)

ChunkIInv ==
    /\ ChunkTypes
    /\ ~rushed => /\ OneAtATime /\ Collects
                  /\ AllWhole

\* Every variable that holds chunks keeps its type.
LEMMA ChunkTypesStep ==
  ASSUME ChunkTypes, [RecorderNext]_recorderVars
  PROVE  ChunkTypes'
<1> USE RecorderAssumption
<1>1. ASSUME made' = made, seconds' \in Nat, toSend' \in Nat,
             audio' = <<>> \/ audio' = audio,
             \/ messages' = messages
             \/ \E d \in Nat : messages' = Append(messages, [audio |-> audio, duration |-> d])
      PROVE  ChunkTypes'
  <2>1. audio' \in Seq(Recordings) /\ made' \in [Recordings -> Nat]
    <3>1. <<>> \in Seq(Recordings) /\ audio \in Seq(Recordings) /\ made \in [Recordings -> Nat]
      BY DEF ChunkTypes
    <3>2. audio' = <<>> \/ audio' = audio
      BY <1>1
    <3> QED
      BY <1>1, <3>1, <3>2
  <2>2. \A d \in Nat : [audio |-> audio, duration |-> d] \in Messages
    BY DEF ChunkTypes, Messages
  <2>3. messages' \in Seq(Messages)
    <3>1. messages \in Seq(Messages)
      BY DEF ChunkTypes
    <3>2. CASE messages' = messages
      BY <3>1, <3>2
    <3>3. ASSUME NEW d \in Nat, messages' = Append(messages, [audio |-> audio, duration |-> d])
          PROVE  messages' \in Seq(Messages)
      <4>1. PICK x \in Messages : x = [audio |-> audio, duration |-> d]
        BY <2>2
      <4> QED
        BY <3>1, <3>3, <4>1
    <3> QED
      BY <1>1, <3>2, <3>3
  <2> QED
    BY <1>1, <2>1, <2>3 DEF ChunkTypes
<1>2. CASE StartRecording \/ MicrophoneDenied
  <2>1. UNCHANGED <<made, seconds, toSend, audio, messages>>
    BY <1>2 DEF StartRecording, MicrophoneDenied
  <2> QED
    BY <1>1, <2>1 DEF ChunkTypes
<1>3. CASE MicrophoneGranted
  <2>1. seconds' = 0 /\ audio' = <<>> /\ UNCHANGED <<made, toSend, messages>>
    BY <1>3 DEF MicrophoneGranted, Cleared
  <2> QED
    BY <1>1, <2>1 DEF ChunkTypes
<1>4. CASE CancelRecording
  <2>1. seconds' = 0 /\ audio' = <<>> /\ UNCHANGED <<made, toSend, messages>>
    BY <1>4 DEF CancelRecording
  <2> QED
    BY <1>1, <2>1 DEF ChunkTypes
<1>5. CASE ClicksSend
  <2>1. toSend' = toSend + 1 /\ UNCHANGED <<made, seconds, audio, messages>>
    BY <1>5 DEF ClicksSend, StopsToSend
  <2> QED
    BY <1>1, <2>1 DEF ChunkTypes
<1>6. CASE LeavesPage
  <2>1. UNCHANGED <<made, toSend, seconds, audio, messages>>
    BY <1>6 DEF LeavesPage
  <2> QED
    BY <1>1, <2>1 DEF ChunkTypes
<1>7. CASE SendRecording
  <2>1. made' = made /\ toSend > 0 /\ toSend' = toSend - 1 /\ Sends
    BY <1>7 DEF SendRecording
  <2> QED
    BY <1>1, <2>1 DEF ChunkTypes, Sends, Sent
<1>8. ASSUME NEW r \in Recordings, ChunkComes(r) \/ RecorderStops(r) PROVE ChunkTypes'
  <2>1. /\ audio' = Append(audio, r) /\ made' = [made EXCEPT ![r] = @ + 1]
        /\ UNCHANGED <<toSend, seconds, messages>>
    BY <1>8 DEF ChunkComes, RecorderStops
  <2> QED
    BY <2>1 DEF ChunkTypes
<1>9. ASSUME NEW r \in Recordings, SecondPasses(r) PROVE ChunkTypes'
  <2>1. /\ made' = made /\ (toSend' = toSend \/ toSend' = toSend + 1)
        /\ seconds' \in {seconds + 1, MaxDuration, 0}
        /\ audio' = <<>> \/ audio' = audio
        /\ \/ messages' = messages
           \/ messages' = Append(messages, [audio |-> audio, duration |-> MaxDuration])
    BY <1>9 DEF SecondPasses, StopsToSend
  <2> QED
    BY <1>1, <2>1 DEF ChunkTypes
<1>10. CASE UNCHANGED recorderVars
  <2>1. UNCHANGED <<made, toSend, seconds, audio, messages>>
    BY <1>10 DEF recorderVars
  <2> QED
    BY <1>1, <2>1 DEF ChunkTypes
<1> QED
  BY <1>2, <1>3, <1>4, <1>5, <1>6, <1>7, <1>8, <1>9, <1>10 DEF RecorderNext

\* The audio of a message.
LEMMA MessageAudio ==
  ASSUME ChunkTypes, NEW i \in DOMAIN messages
  PROVE  messages[i].audio \in Seq(Recordings)
<1>1. messages \in Seq(Messages)
  BY DEF ChunkTypes
<1>2. messages[i] \in Messages
  BY <1>1
<1> QED
  BY <1>2 DEF Messages

\* A message stays whole while its recording ends and others come and go.
LEMMA WholeKept ==
  ASSUME NEW m \in Seq(Recordings), Whole(m), made \in [Recordings -> Nat],
         m[1] \notin cancelled',
         \/ made'[m[1]] = made[m[1]] /\ stream'[m[1]] = stream[m[1]]
         \/ /\ stream[m[1]] = "stopping" /\ stream'[m[1]] = "off"
            /\ made'[m[1]] = made[m[1]] + 1
  PROVE  Whole(m)'
<1>1. m[1] \in Recordings /\ Len(m) \in Nat
  BY DEF Whole
<1>2. made[m[1]] \in Nat
  BY <1>1
<1> QED
  BY <1>1, <1>2 DEF Whole, Ended

\* Whoever waits has waited before.
LEMMA WaitedBefore ==
  ASSUME [RecorderNext]_recorderVars, ~rushed'
  PROVE  ~rushed
<1>1. rushed' = rushed \/ Rush \/ (LeavesPage /\ rushed' = (rushed \/ asking > 0))
  BY DEF RecorderNext, StartRecording, MicrophoneGranted, MicrophoneDenied, CancelRecording,
     ClicksSend, SendRecording, LeavesPage, ChunkComes, RecorderStops, SecondPasses, recorderVars
<1> QED
  BY <1>1, Zenon DEF Rush

\* For someone who waits, stopping the present recording leaves one that will
\* be sent, or was cancelled.
LEMMA StopsInOrder ==
  ASSUME RecorderIInv, ChunkIInv, ~rushed, isRecording, mounted, Stopping,
         clocks' = clocks \ {recClock}, UNCHANGED <<asking, current, made, messages, recClock>>,
         asking = 0,
         toSend' \in {0, 1},
         isRecording' => toSend' = 0,
         \/ ~isRecording' /\ cancelled' = cancelled /\ audio' = audio
         \/ ~isRecording' /\ toSend' = 0 /\ cancelled' = cancelled \cup {current}
         \/ ~mounted' /\ cancelled' = cancelled /\ audio' = audio
  PROVE  OneAtATime' /\ Collects' /\ AllWhole'
<1>1. /\ current \in Recordings /\ current \notin cancelled
      /\ \A i \in DOMAIN audio : audio[i] = current
      /\ Len(audio) = made[current] /\ stream[current] = "live"
  BY DEF ChunkIInv, Collects
<1>2. stream' = [stream EXCEPT ![current] = "stopping"] /\ stream \in [Recordings -> {"none", "live", "stopping", "off"}]
  BY <1>1 DEF Stopping, RecorderIInv
<1>3. Ended(current)' /\ \A r \in Recordings : Ended(r) => Ended(r)' /\ stream'[r] = stream[r]
  BY <1>1, <1>2 DEF Ended
<1>4. OneAtATime'
  <2>1. OneAtATime
    BY DEF ChunkIInv
  <2>2. clocks' = {}
    BY <2>1 DEF OneAtATime
  <2>3. \A r \in Recordings : /\ stream'[r] = "stopping" => r = current
                              /\ stream'[r] = "none" => made[r] = 0
    BY <1>2, <2>1 DEF OneAtATime
  <2>4. cancelled' \subseteq Recordings /\ \A r \in cancelled' : Ended(r)'
    BY <1>1, <1>3, <2>1 DEF OneAtATime
  <2> QED
    BY <2>2, <2>3, <2>4 DEF OneAtATime
<1>5. Collects'
  BY <1>1, <1>3 DEF Collects
<1>6. ASSUME NEW i \in DOMAIN messages, NEW m \in Seq(Recordings), m = messages[i].audio
      PROVE  Whole(m)'
  <2>1. Whole(m)
    BY <1>6 DEF ChunkIInv, AllWhole
  <2>2. m[1] \in Recordings /\ Ended(m[1]) /\ m[1] \notin cancelled
    BY <2>1 DEF Whole
  <2>3. m[1] # current
    BY <1>1, <2>2 DEF Ended
  <2>4. m[1] \notin cancelled' /\ made'[m[1]] = made[m[1]] /\ stream'[m[1]] = stream[m[1]]
    BY <1>3, <2>2, <2>3
  <2> QED
    BY <2>1, <2>4, WholeKept DEF ChunkIInv, ChunkTypes
<1>7. AllWhole'
  BY <1>6, MessageAudio DEF AllWhole, ChunkIInv
<1> QED
  BY <1>4, <1>5, <1>7

\* Steps that send no message leave those that were sent whole.
LEMMA MessagesKept ==
  ASSUME ChunkIInv, ~rushed, messages' = messages, cancelled' = cancelled,
         \A r \in Recordings : Ended(r) =>
            \/ made'[r] = made[r] /\ stream'[r] = stream[r]
            \/ stream[r] = "stopping" /\ stream'[r] = "off" /\ made'[r] = made[r] + 1
  PROVE  AllWhole'
<1>1. ASSUME NEW i \in DOMAIN messages, NEW m \in Seq(Recordings), m = messages[i].audio
      PROVE  Whole(m)'
  <2>1. Whole(m)
    BY <1>1 DEF ChunkIInv, AllWhole
  <2>2. m[1] \in Recordings /\ Ended(m[1]) /\ m[1] \notin cancelled'
    BY <2>1 DEF Whole
  <2> QED
    BY <2>1, <2>2, WholeKept DEF ChunkIInv, ChunkTypes
<1> QED
  BY <1>1, MessageAudio DEF AllWhole, ChunkIInv

\* Every step keeps the chunks together.
LEMMA ChunkStep ==
  ASSUME RecorderIInv, ChunkIInv, [RecorderNext]_recorderVars, ~rushed'
  PROVE  OneAtATime' /\ Collects' /\ AllWhole'
<1>1. ~rushed /\ ChunkTypes /\ OneAtATime /\ Collects /\ AllWhole
  BY WaitedBefore DEF ChunkIInv
<1>2. CASE StartRecording
  <2>1. /\ asking' = asking + 1 /\ ~isRecording
        /\ \A r \in Recordings : stream[r] # "stopping"
        /\ UNCHANGED <<mounted, current, stream, isRecording, audio, clocks, recClock,
                       toSend, messages, made, cancelled>>
    BY <1>2 DEF StartRecording
  <2>2. ~(toSend > 0)
    BY <1>2, Zenon DEF StartRecording, Rush
  <2>3. AllWhole'
    BY <1>1, <2>1, MessagesKept
  <2>4. OneAtATime'
    BY <1>1, <2>1, <2>2 DEF OneAtATime, Ended, ChunkTypes
  <2>5. Collects'
    BY <1>1, <2>1, <2>2 DEF Collects
  <2> QED
    BY <2>3, <2>4, <2>5
<1>3. CASE MicrophoneGranted
  <2>1. PICK r \in Recordings :
          /\ stream[r] = "none" /\ current' = r /\ stream' = [stream EXCEPT ![r] = "live"]
          /\ clocks' = clocks \cup {r} /\ recClock' = r
    BY <1>3 DEF MicrophoneGranted
  <2>2. /\ asking > 0 /\ audio' = <<>>
        /\ UNCHANGED <<mounted, toSend, messages, made, cancelled>>
    BY <1>3 DEF MicrophoneGranted, Cleared
  <2>3. isRecording'
    BY <1>3, Zenon DEF MicrophoneGranted
  <2>4. /\ mounted /\ ~isRecording /\ asking' = 0 /\ asking = 1
        /\ stream \in [Recordings -> {"none", "live", "stopping", "off"}]
    BY <1>1, <1>3, <2>2 DEF RecorderIInv, MicrophoneGranted
  <2>5. toSend = 0 /\ clocks = {} /\ \A q \in Recordings : stream[q] # "stopping"
    BY <1>1, <2>2, <2>4 DEF OneAtATime
  <2>6. made[r] = 0 /\ r \notin cancelled
    BY <1>1, <2>1 DEF OneAtATime, Ended
  <2>7. \A q \in Recordings : Ended(q) => stream'[q] = stream[q]
    BY <2>1, <2>4 DEF Ended
  <2>8. AllWhole'
    BY <1>1, <2>2, <2>7, MessagesKept
  <2>9. OneAtATime'
    BY <1>1, <2>1, <2>2, <2>3, <2>4, <2>5, <2>7 DEF OneAtATime, Ended
  <2>10. Collects'
    BY <2>1, <2>2, <2>3, <2>4, <2>6 DEF Collects
  <2> QED
    BY <2>8, <2>9, <2>10
<1>4. CASE MicrophoneDenied
  <2>1. /\ asking' = asking - 1 /\ asking > 0
        /\ UNCHANGED <<mounted, current, stream, isRecording, audio, clocks, recClock,
                       toSend, messages, made, cancelled>>
    BY <1>4 DEF MicrophoneDenied
  <2>2. asking' = 0 /\ asking = 1
    BY <1>1, <2>1 DEF RecorderIInv
  <2> QED
    BY <1>1, <2>1, <2>2, MessagesKept DEF OneAtATime, Collects, Ended
<1>5. CASE CancelRecording
  <2>1. /\ mounted /\ isRecording /\ Stopping /\ clocks' = clocks \ {recClock}
        /\ UNCHANGED <<asking, current, made, messages, recClock, toSend>>
        /\ cancelled' = cancelled \cup {current}
    BY <1>5 DEF CancelRecording
  <2>2. ~isRecording'
    BY <1>5, Zenon DEF CancelRecording
  <2>3. asking = 0 /\ toSend = 0
    BY <1>1, <2>1 DEF RecorderIInv, OneAtATime
  <2> QED
    BY <1>1, <2>1, <2>2, <2>3, StopsInOrder
<1>6. CASE ClicksSend
  <2>1. /\ mounted /\ isRecording /\ Stopping /\ clocks' = clocks \ {recClock}
        /\ UNCHANGED <<asking, current, made, messages, recClock, cancelled, audio>>
        /\ toSend' = toSend + 1
    BY <1>6 DEF ClicksSend, StopsToSend
  <2>2. ~isRecording'
    BY <1>6, Zenon DEF ClicksSend, StopsToSend
  <2>3. asking = 0 /\ toSend = 0
    BY <1>1, <2>1 DEF RecorderIInv, OneAtATime
  <2> QED
    BY <1>1, <2>1, <2>2, <2>3, StopsInOrder
<1>7. CASE LeavesPage
  <2>1. /\ mounted /\ Released /\ clocks' = clocks \ {recClock}
        /\ UNCHANGED <<asking, current, made, messages, recClock, cancelled, audio, toSend, isRecording>>
    BY <1>7 DEF LeavesPage, Released
  <2>2. ~mounted' /\ ~(asking > 0)
    BY <1>7, Zenon DEF LeavesPage
  <2>3. asking = 0
    BY <2>2 DEF RecorderIInv
  <2>4. CASE isRecording
    <3>1. Stopping /\ toSend = 0
      BY <1>1, <2>1, <2>4 DEF Released, OneAtATime
    <3> QED
      BY <1>1, <2>1, <2>2, <2>3, <2>4, <3>1, StopsInOrder
  <2>5. CASE ~isRecording
    <3>1. stream' = stream
      BY <2>1, <2>5 DEF Released
    <3>2. clocks' = {}
      BY <1>1, <2>1, <2>5 DEF OneAtATime
    <3> QED
      BY <1>1, <2>1, <2>2, <2>3, <2>5, <3>1, <3>2, MessagesKept DEF OneAtATime, Collects, Ended
  <2> QED
    BY <2>4, <2>5
<1>8. CASE UNCHANGED recorderVars
  <2>1. UNCHANGED <<mounted, asking, current, stream, isRecording, audio, clocks, recClock,
                    toSend, messages, made, cancelled>>
    BY <1>8 DEF recorderVars
  <2> QED
    BY <1>1, <2>1, MessagesKept DEF OneAtATime, Collects, Ended
<1>9. CASE SendRecording
  <2>1. /\ toSend > 0 /\ toSend' = toSend - 1 /\ Sends
        /\ UNCHANGED <<mounted, asking, current, stream, isRecording, clocks, recClock, made, cancelled>>
    BY <1>9 DEF SendRecording
  <2>2. toSend = 1 /\ toSend' = 0 /\ ~isRecording
    BY <1>1, <2>1 DEF OneAtATime, ChunkTypes
  <2>3. OneAtATime' /\ Collects'
    BY <1>1, <2>1, <2>2 DEF OneAtATime, Collects, Ended
  <2>4. AllWhole'
    <3>1. CASE messages' = messages
      BY <1>1, <2>1, <3>1, MessagesKept
    <3>2. CASE audio # <<>> /\ messages' = Append(messages, Sent)
      <4>1. PICK m \in Seq(Recordings) : m = audio
        BY <1>1 DEF ChunkTypes
      <4>2. /\ current \in Recordings /\ current \notin cancelled /\ Ended(current)
            /\ \A j \in DOMAIN m : m[j] = current
            /\ Len(m) = made[current] /\ m # <<>>
        BY <1>1, <2>1, <2>2, <3>2, <4>1 DEF Collects
      <4>3. m[1] = current
        BY <4>1, <4>2
      <4>4. made[current] \in Nat
        BY <1>1, <4>2 DEF ChunkTypes
      <4>5. Whole(m)
        BY <4>2, <4>3, <4>4 DEF Whole
      <4>6. Whole(m)'
        BY <1>1, <2>1, <4>2, <4>3, <4>5, WholeKept DEF ChunkTypes
      <4>7. ASSUME NEW i \in DOMAIN messages, NEW n \in Seq(Recordings), n = messages[i].audio
            PROVE  Whole(n)'
        <5>1. Whole(n)
          BY <1>1, <4>7 DEF AllWhole
        <5>2. n[1] \in Recordings /\ n[1] \notin cancelled
          BY <4>7, <5>1 DEF Whole
        <5> QED
          BY <1>1, <2>1, <5>1, <5>2, WholeKept DEF ChunkTypes
      <4>8. /\ DOMAIN messages' = DOMAIN messages \cup {Len(messages) + 1}
            /\ \A i \in DOMAIN messages : messages'[i] = messages[i]
            /\ messages'[Len(messages) + 1] = Sent
        BY <1>1, <3>2 DEF ChunkTypes
      <4>9. Sent.audio = m
        BY <4>1 DEF Sent
      <4>10. ASSUME NEW i \in DOMAIN messages' PROVE Whole(messages[i].audio)'
        <5>1. CASE i \in DOMAIN messages
          <6>1. PICK n \in Seq(Recordings) : n = messages[i].audio
            BY <1>1, <5>1, MessageAudio
          <6> QED
            BY <4>7, <4>8, <5>1, <6>1
        <5>2. CASE i = Len(messages) + 1
          BY <4>6, <4>8, <4>9, <5>2
        <5> QED
          BY <4>8, <4>10, <5>1, <5>2
      <4> QED
        BY <4>10 DEF AllWhole
    <3> QED
      BY <2>1, <3>1, <3>2 DEF Sends
  <2> QED
    BY <2>3, <2>4
<1>10. ASSUME NEW r \in Recordings, ChunkComes(r) PROVE OneAtATime' /\ Collects' /\ AllWhole'
  <2>1. /\ stream[r] = "live" /\ audio' = Append(audio, r) /\ made' = [made EXCEPT ![r] = @ + 1]
        /\ UNCHANGED <<mounted, asking, current, stream, isRecording, clocks, recClock,
                       toSend, messages, cancelled>>
    BY <1>10 DEF ChunkComes
  <2>2. isRecording /\ mounted /\ r = current
    BY <1>1, <2>1 DEF RecorderIInv, Silent
  <2>3. /\ \A i \in DOMAIN audio : audio[i] = current
        /\ Len(audio) = made[current] /\ current \notin cancelled
    BY <1>1, <2>2 DEF Collects
  <2>4. made'[r] = made[r] + 1 /\ \A q \in Recordings : q # r => made'[q] = made[q]
    BY <1>1, <2>1 DEF ChunkTypes
  <2>5. Len(audio') = Len(audio) + 1 /\ \A i \in DOMAIN audio' : audio'[i] = current
    BY <1>1, <2>1, <2>2, <2>3 DEF ChunkTypes
  <2>6. Collects'
    BY <2>1, <2>2, <2>3, <2>4, <2>5 DEF Collects
  <2>7. OneAtATime'
    BY <1>1, <2>1, <2>4 DEF OneAtATime, Ended
  <2>8. AllWhole'
    BY <1>1, <2>1, <2>4, MessagesKept DEF Ended
  <2> QED
    BY <2>6, <2>7, <2>8
<1>11. ASSUME NEW r \in Recordings, RecorderStops(r) PROVE OneAtATime' /\ Collects' /\ AllWhole'
  <2>1. /\ stream[r] = "stopping" /\ stream' = [stream EXCEPT ![r] = "off"]
        /\ audio' = Append(audio, r) /\ made' = [made EXCEPT ![r] = @ + 1]
        /\ UNCHANGED <<mounted, asking, current, isRecording, clocks, recClock,
                       toSend, messages, cancelled>>
    BY <1>11 DEF RecorderStops
  <2>2. r = current
    BY <1>1, <2>1 DEF OneAtATime
  <2>3. /\ made'[r] = made[r] + 1 /\ stream'[r] = "off"
        /\ \A q \in Recordings : q # r => made'[q] = made[q] /\ stream'[q] = stream[q]
    BY <1>1, <2>1 DEF ChunkTypes, RecorderIInv
  <2>4. /\ Len(audio') = Len(audio) + 1
        /\ (\A i \in DOMAIN audio : audio[i] = current) => \A i \in DOMAIN audio' : audio'[i] = current
    BY <1>1, <2>1, <2>2 DEF ChunkTypes
  <2>5. Collects'
    BY <1>1, <2>1, <2>2, <2>3, <2>4 DEF Collects, Ended
  <2>6. OneAtATime'
    BY <1>1, <2>1, <2>3 DEF OneAtATime, Ended
  <2>7. AllWhole'
    BY <1>1, <2>1, <2>3, MessagesKept DEF Ended
  <2> QED
    BY <2>5, <2>6, <2>7
<1>12. ASSUME NEW r \in Recordings, SecondPasses(r) PROVE OneAtATime' /\ Collects' /\ AllWhole'
  <2>1. /\ r \in clocks
        /\ UNCHANGED <<mounted, asking, current, recClock, made, cancelled>>
    BY <1>12 DEF SecondPasses
  <2>2. isRecording /\ mounted
    BY <1>1, <2>1 DEF OneAtATime
  <2>3. \/ UNCHANGED <<stream, isRecording, audio, clocks, toSend, messages>>
        \/ StopsToSend /\ UNCHANGED <<audio, messages>>
    BY <1>12, <2>2, Zenon DEF SecondPasses
  <2>4. CASE UNCHANGED <<stream, isRecording, audio, clocks, toSend, messages>>
    BY <1>1, <2>1, <2>4, MessagesKept DEF OneAtATime, Collects, Ended
  <2>5. CASE StopsToSend /\ UNCHANGED <<audio, messages>>
    <3>1. ~isRecording'
      BY <2>5, Zenon DEF StopsToSend
    <3>2. Stopping /\ clocks' = clocks \ {recClock} /\ toSend' = toSend + 1
      BY <2>5 DEF StopsToSend
    <3>3. asking = 0 /\ toSend = 0
      BY <1>1, <2>2 DEF RecorderIInv, OneAtATime
    <3> QED
      BY <1>1, <2>1, <2>2, <2>5, <3>1, <3>2, <3>3, StopsInOrder
  <2> QED
    BY <2>3, <2>4, <2>5
<1> QED
  BY <1>2, <1>3, <1>4, <1>5, <1>6, <1>7, <1>8, <1>9, <1>10, <1>11, <1>12 DEF RecorderNext

\* For any number of recordings: what a recorder collects is all of one
\* recording, and so is what is sent, for a user who waits for the upload
\* (startRecording, stopRecording, ondataavailable).
THEOREM ChunkInvariance == RecorderSpec => [](RecorderIInv /\ ChunkIInv)
<1>1. RecorderInit => RecorderIInv /\ ChunkIInv
  <2>1. ASSUME RecorderInit PROVE RecorderIInv
    BY <2>1 DEF RecorderInit, RecorderIInv, Silent
  <2>2. ASSUME RecorderInit PROVE ChunkIInv
    BY <2>2 DEF RecorderInit, ChunkIInv, ChunkTypes, OneAtATime, Collects, AllWhole, Ended
  <2> QED
    BY <2>1, <2>2
<1>2. RecorderIInv /\ ChunkIInv /\ [RecorderNext]_recorderVars => RecorderIInv' /\ ChunkIInv'
  BY RecorderStep, ChunkTypesStep, ChunkStep DEF ChunkIInv
<1> QED
  BY <1>1, <1>2, PTL DEF RecorderSpec

\* For someone who waits for a click to be done, a voice message is the chunks
\* of one recording that was not cancelled, but for its last one when that is
\* late, and no microphone is live outside of a recording (sendRecording,
\* cancelRecording, stopRecording, destroyed).
THEOREM RecordingIsKept == RecorderSpec => []RecordingHolds
<1>1. ASSUME RecorderIInv, ChunkIInv PROVE RecordingHolds
  <2>1. MicrophoneOff
    BY <1>1 DEF RecorderIInv, Silent, MicrophoneOff
  <2>2. ASSUME ~rushed, NEW i \in DOMAIN messages, NEW m \in Seq(Recordings), m = messages[i].audio
        PROVE  /\ Cardinality(ToSet(m)) = 1 /\ m[1] \notin cancelled
               /\ Len(m) >= made[m[1]] - 1
    <3>1. Whole(m)
      BY <1>1, <2>2 DEF ChunkIInv, AllWhole
    <3>2. m # <<>> /\ m[1] \in Recordings /\ Len(m) \in Nat /\ made[m[1]] \in Nat
      BY <1>1, <3>1 DEF Whole, ChunkIInv, ChunkTypes
    <3>3. ToSet(m) = {m[1]}
      BY <3>1, <3>2 DEF Whole, ToSet
    <3>4. Cardinality(ToSet(m)) = 1
      BY <3>3, FS_Singleton
    <3> QED
      BY <3>1, <3>2, <3>4 DEF Whole
  <2>3. AudioIsOneRecording
    BY <1>1, <2>2, MessageAudio DEF AudioIsOneRecording, ChunkIInv
  <2> QED
    BY <2>1, <2>3 DEF RecordingHolds
<1> QED
  BY <1>1, ChunkInvariance, PTL

-----------------------------------------------------------------------------
(* NervePages: the extension's own pages *)

Grants == 0 .. MaxGrants
OptionsState == [pc : {"closed", "idle", "connect", "pairing", "test", "clear", "forget"},
                 tok : Grants]
PopupState == [pc : {"closed", "idle", "list", "validate", "set", "arm", "create", "load"},
               tok : Grants, pwd : Passwords \cup {NoPass}, wrapped : Passwords \cup {Unset},
               typed : Passwords \cup {NoPass}]
LauncherState == [pc : {"closed", "idle", "status", "capture"}, tok : Grants]

PageTypes ==
    /\ SessionTypeOK
    /\ token \in Grants /\ granted \in Grants
    /\ options \in OptionsState /\ popup \in PopupState /\ launcher \in LauncherState
    /\ capture \in [pc : {"idle", "head", "get", "blob", "send"}, size : Nat]
    /\ badge \in [text : {"none", "ok", "fail"}, timers : Nat]

\* The manager's password opens the key it holds, except while it is being checked.
CopyOpens ==
    popup.pc # "validate" /\ popup.pwd # NoPass /\ popup.wrapped # Unset =>
        popup.wrapped = popup.pwd

\* What was typed has opened the key the manager holds, which the account had.
TypedOpens ==
    /\ popup.pc \in {"set", "arm"} => popup.typed = popup.wrapped /\ popup.pwd = NoPass
                                      /\ popup.typed # NoPass
    /\ popup.wrapped <= account

FileFits == capture.pc = "send" => capture.size <= MaxFile

PagesIInv ==
    /\ PageTypes /\ CopyOpens /\ TypedOpens /\ SessionWasVerified
    /\ FileFits /\ NoOversizeUpload

LEMMA PagesInit == Init => PagesIInv
<1> SUFFICES ASSUME Init PROVE PagesIInv
  OBVIOUS
<1>1. 1 \in Passwords /\ 1 \in Grants /\ 0 \in Grants /\ Passwords \subseteq Nat
  BY NerveSessionAssumption, NervePagesAssumption DEF Passwords, Grants
<1>2. PageTypes
  <2>1. SessionTypeOK /\ token \in Grants /\ granted \in Grants
    BY <1>1 DEF Init, SessionTypeOK, NoToken, NoPass, Unset
  <2>2. options \in OptionsState /\ popup \in PopupState /\ launcher \in LauncherState
    BY <1>1 DEF Init, Closed, ClosedPopup, OptionsState, PopupState, LauncherState, NoToken
  <2>. QED  BY <2>1, <2>2 DEF Init, PageTypes, NoFile
<1>3. CopyOpens /\ TypedOpens
  <2>1. popup.pc = "closed" /\ popup.pwd = NoPass /\ popup.wrapped = 0
    BY DEF Init, ClosedPopup, Unset
  <2>2. account \in {0, 1}
    BY DEF Init, Unset
  <2>3. popup.wrapped <= account
    BY <2>1, <2>2
  <2>4. TypedOpens
    BY <2>1, <2>3 DEF TypedOpens
  <2>5. CopyOpens
    BY <2>1 DEF CopyOpens
  <2>. QED  BY <2>4, <2>5
<1>4. SessionWasVerified
  <2>1. account \in {0, 1} /\ pass \in {0, account}
    BY DEF Init, Unset, NoPass
  <2>. QED  BY <2>1 DEF SessionWasVerified, NoPass
<1>. QED  BY <1>2, <1>3, <1>4 DEF Init, PagesIInv, FileFits, NoFile, NoOversizeUpload

\* Steps of the other pages leave the manager, the session and the file alone.
LEMMA OtherPages ==
    ASSUME PagesIInv, UNCHANGED <<pass, timer, account, popup, capture, badge, uploads>>,
           token' \in Grants, granted' \in Grants, options' \in OptionsState,
           launcher' \in LauncherState
    PROVE  PagesIInv'
BY DEF PagesIInv, PageTypes, SessionTypeOK, CopyOpens, TypedOpens, SessionWasVerified, FileFits,
   NoOversizeUpload

LEMMA OptionsKeep ==
    ASSUME PagesIInv,
           \/ OptionsOpens \/ HandleConnect \/ PairingFallback \/ ConnectApproved \/ ConnectEnds
           \/ HandleTest \/ TestAnswered \/ HandleSignOut \/ SignOutForgets
    PROVE  PagesIInv'
<1>1. UNCHANGED <<pass, timer, account, popup, capture, badge, uploads>>
  BY DEF OptionsOpens, HandleConnect, PairingFallback, ConnectApproved, ConnectEnds, HandleTest,
     TestAnswered, HandleSignOut, SignOutForgets, sessionVars, kairoVars
<1>2. NoToken \in Grants /\ token \in Grants /\ granted \in Grants /\ options \in OptionsState
      /\ launcher \in LauncherState
  BY NervePagesAssumption DEF PagesIInv, PageTypes, Grants, NoToken
<1>3. options.tok \in Grants
  BY <1>2 DEF OptionsState
<1>4. token' \in Grants /\ granted' \in Grants
  BY <1>2, <1>3, NervePagesAssumption DEF OptionsOpens, HandleConnect, PairingFallback,
     ConnectApproved, ConnectEnds, HandleTest, TestAnswered, HandleSignOut, SignOutForgets,
     sessionVars, SaveSettings, Grants
<1>5. launcher' \in LauncherState
  BY <1>2 DEF OptionsOpens, HandleConnect, PairingFallback, ConnectApproved, ConnectEnds,
     HandleTest, TestAnswered, HandleSignOut, SignOutForgets
<1>6. options' \in OptionsState
  <2>1. CASE OptionsOpens \/ HandleConnect \/ SignOutForgets
    BY <1>2, <2>1 DEF OptionsOpens, HandleConnect, SignOutForgets, OptionsState
  <2>2. CASE ConnectApproved
    BY <1>2, <1>4, <2>2 DEF ConnectApproved, OptionsState
  <2>3. CASE PairingFallback \/ ConnectEnds \/ HandleTest \/ TestAnswered \/ HandleSignOut
    BY <1>2, <2>3 DEF PairingFallback, ConnectEnds, HandleTest, TestAnswered, HandleSignOut,
       OptionsState
  <2>. QED  BY <2>1, <2>2, <2>3
<1>. QED  BY <1>1, <1>4, <1>5, <1>6, OtherPages

LEMMA LauncherKeeps ==
    ASSUME PagesIInv, LauncherOpens \/ LauncherAnswered \/ HandleCapture \/ CaptureAnswered
    PROVE  PagesIInv'
<1>1. UNCHANGED <<pass, timer, account, granted, options, popup, capture, badge, uploads>>
  BY DEF LauncherOpens, LauncherAnswered, HandleCapture, CaptureAnswered, sessionVars, kairoVars
<1>2. token \in Grants /\ granted \in Grants /\ options \in OptionsState
      /\ launcher \in LauncherState
  BY DEF PagesIInv, PageTypes
<1>3. launcher.tok \in Grants
  BY <1>2 DEF LauncherState
<1>4. token' \in Grants
  BY <1>2, <1>3 DEF LauncherOpens, LauncherAnswered, HandleCapture, CaptureAnswered, sessionVars,
     SaveSettings
<1>5. launcher' \in LauncherState
  BY <1>2 DEF LauncherOpens, LauncherAnswered, HandleCapture, CaptureAnswered, LauncherState
<1>. QED  BY <1>1, <1>2, <1>4, <1>5, OtherPages

\* The session is cleared.
LEMMA ClearKeeps ==
    ASSUME PagesIInv, ClearRuntimeSession, UNCHANGED <<token, account, granted, launcher, uploads>>,
           popup' = popup \/ (popup.pc \in {"arm", "validate", "idle"} /\
                              popup' \in {[popup EXCEPT !.pc = "idle", !.pwd = NoPass],
                                          [popup EXCEPT !.pwd = NoPass],
                                          [popup EXCEPT !.pc = "idle"]} /\ popup'.pwd = NoPass),
           options' = options \/ options' = [options EXCEPT !.pc = "forget"],
           capture' \in {capture, NoFile},
           badge' \in {badge, [badge EXCEPT !.timers = 0]}
    PROVE  PagesIInv'
<1>1. PageTypes'
  <2>1. options' \in OptionsState
    BY DEF PagesIInv, PageTypes, OptionsState
  <2>2. popup' \in PopupState
    BY DEF PagesIInv, PageTypes, PopupState
  <2>3. capture' \in [pc : {"idle", "head", "get", "blob", "send"}, size : Nat]
    BY DEF PagesIInv, PageTypes, NoFile
  <2>4. badge' \in [text : {"none", "ok", "fail"}, timers : Nat]
    BY DEF PagesIInv, PageTypes
  <2>. QED  BY <2>1, <2>2, <2>3, <2>4 DEF PagesIInv, PageTypes, SessionTypeOK, ClearRuntimeSession
<1>2. CopyOpens' /\ TypedOpens'
  <2>1. CASE popup' = popup
    BY <2>1 DEF PagesIInv, CopyOpens, TypedOpens
  <2>2. CASE popup' # popup
    <3>1. popup \in PopupState
      BY DEF PagesIInv, PageTypes
    <3>2. popup'.pwd = NoPass /\ popup'.wrapped = popup.wrapped /\ popup'.typed = popup.typed
          /\ popup'.pc \in {popup.pc, "idle"}
      BY <2>2, <3>1 DEF PopupState
    <3>. QED  BY <3>2 DEF PagesIInv, CopyOpens, TypedOpens
  <2>. QED  BY <2>1, <2>2
<1>3. SessionWasVerified'
  BY DEF ClearRuntimeSession, SessionWasVerified
<1>4. FileFits'
  BY DEF PagesIInv, FileFits, NoFile
<1>. QED  BY <1>1, <1>2, <1>3, <1>4 DEF PagesIInv, NoOversizeUpload

\* Steps that clear the session: signing out, locking, a passphrase that no
\* longer opens the key, the deadline, the worker's end.
LEMMA ClearingKeeps ==
    ASSUME PagesIInv,
           \/ SignOutClears \/ HandleClearPassphrase \/ HandleLock \/ TimerFires \/ WorkerStops
    PROVE  PagesIInv'
<1>1. popup \in PopupState
  BY DEF PagesIInv, PageTypes
<1>2. CASE SignOutClears
  BY <1>2, ClearKeeps DEF SignOutClears, kairoVars
<1>3. CASE HandleClearPassphrase
  BY <1>3, ClearKeeps DEF HandleClearPassphrase, pageVars, kairoVars
<1>4. CASE HandleLock
  <2>1. popup'.pwd = NoPass /\ popup.pc = "idle"
    BY <1>1, <1>4 DEF HandleLock, PopupState
  <2>. QED  BY <1>4, <2>1, ClearKeeps DEF HandleLock, kairoVars
<1>5. CASE TimerFires
  BY <1>5, ClearKeeps DEF TimerFires, pageVars, kairoVars
<1>6. CASE WorkerStops
  <2>1. popup' = popup \/ (popup.pc = "arm" /\ popup' = [popup EXCEPT !.pc = "idle"])
    BY <1>6 DEF WorkerStops
  <2>2. popup.pc = "arm" => popup.pwd = NoPass
    BY DEF PagesIInv, TypedOpens
  <2>3. popup' = popup \/ (popup.pc = "arm" /\ popup' = [popup EXCEPT !.pc = "idle"]
                           /\ popup'.pwd = NoPass)
    BY <1>1, <2>1, <2>2 DEF PopupState
  <2>. QED  BY <1>6, <2>3, ClearKeeps DEF WorkerStops
<1>. QED  BY <1>2, <1>3, <1>4, <1>5, <1>6

\* The manager's own steps, once what they leave in it is known.
LEMMA PopupKeeps ==
    ASSUME PagesIInv, UNCHANGED <<account, granted, options, launcher, capture, badge, uploads>>,
           pass' \in Passwords \cup {NoPass}, timer' \in {"off", "armed", "due"},
           token' \in Grants, popup' \in PopupState,
           CopyOpens', TypedOpens', pass' # NoPass => pass' <= account
    PROVE  PagesIInv'
BY DEF PagesIInv, PageTypes, SessionTypeOK, SessionWasVerified, FileFits, NoOversizeUpload

\* Steps of the manager that leave the session alone.
LEMMA PopupStays ==
    ASSUME PagesIInv, UNCHANGED <<pass, timer, account, granted, options, launcher, capture,
                                  badge, uploads>>,
           token' \in Grants, popup' \in PopupState, CopyOpens', TypedOpens'
    PROVE  PagesIInv'
BY PopupKeeps DEF PagesIInv, PageTypes, SessionTypeOK, SessionWasVerified

LEMMA PopupOpensKeeps == ASSUME PagesIInv, PopupOpens PROVE PagesIInv'
<1>1. NoPass \in Passwords \cup {NoPass} /\ Unset \in Passwords \cup {Unset} /\ token \in Grants
      /\ pass \in Passwords \cup {NoPass} /\ timer \in {"off", "armed", "due"}
      /\ account \in Passwords \cup {Unset}
  BY DEF PagesIInv, PageTypes, SessionTypeOK
<1>2. popup' = [pc |-> IF token # NoToken THEN "list" ELSE "idle", tok |-> token,
                pwd |-> IF DeadlinePassed THEN NoPass ELSE pass, wrapped |-> Unset,
                typed |-> NoPass]
  BY DEF PopupOpens, ClosedPopup
<1>3. popup' \in PopupState
  BY <1>1, <1>2 DEF PopupState
<1>4. account \in Nat
  BY <1>1, NerveSessionAssumption DEF Passwords, Unset
<1>5. CopyOpens' /\ TypedOpens'
  <2>1. popup'.wrapped = 0 /\ popup'.pc \notin {"set", "arm"}
    BY <1>2 DEF Unset
  <2>2. account' = account
    BY DEF PopupOpens
  <2>. QED  BY <1>4, <2>1, <2>2 DEF CopyOpens, TypedOpens, Unset
<1>6. (pass' = NoPass /\ timer' = "off") \/ UNCHANGED <<pass, timer>>
  BY DEF PopupOpens, ClearRuntimeSession
<1>7. pass' \in Passwords \cup {NoPass} /\ timer' \in {"off", "armed", "due"}
      /\ (pass' # NoPass => pass' <= account)
  BY <1>1, <1>6 DEF PagesIInv, SessionWasVerified
<1>. QED  BY <1>1, <1>3, <1>5, <1>7, PopupKeeps DEF PopupOpens, kairoVars

LEMMA IndexKeeps == ASSUME PagesIInv, IndexAnswered PROVE PagesIInv'
<1>1. popup \in PopupState /\ account \in Passwords \cup {Unset} /\ token \in Grants
  BY DEF PagesIInv, PageTypes, SessionTypeOK
<1>2. account \in Nat
  BY <1>1, NerveSessionAssumption DEF Passwords, Unset
<1>3. popup.tok \in Grants
  BY <1>1 DEF PopupState
<1>4. token' \in Grants /\ account' = account
  BY <1>1, <1>3 DEF IndexAnswered, SaveSettings
<1>5. CASE popup' = [popup EXCEPT !.pc = "idle"]
  <2>1. popup' \in PopupState /\ popup'.pc = "idle" /\ popup'.pwd = popup.pwd
        /\ popup'.wrapped = popup.wrapped
    BY <1>1, <1>5 DEF PopupState
  <2>2. CopyOpens' /\ TypedOpens'
    BY <1>4, <2>1 DEF IndexAnswered, PagesIInv, CopyOpens, TypedOpens
  <2>. QED  BY <1>4, <2>1, <2>2, PopupStays DEF IndexAnswered, kairoVars
<1>6. CASE popup' = [popup EXCEPT !.wrapped = account,
                        !.pc = IF account # Unset /\ popup.pwd # NoPass
                               THEN "validate" ELSE "idle"]
  <2>1. popup' \in PopupState /\ popup'.pwd = popup.pwd /\ popup'.wrapped = account
        /\ popup'.pc = IF account # Unset /\ popup.pwd # NoPass THEN "validate" ELSE "idle"
    BY <1>1, <1>6 DEF PopupState
  <2>2. CopyOpens' /\ TypedOpens'
    BY <1>2, <1>4, <2>1 DEF CopyOpens, TypedOpens
  <2>. QED  BY <1>4, <2>1, <2>2, PopupStays DEF IndexAnswered, kairoVars
<1>. QED  BY <1>5, <1>6 DEF IndexAnswered

LEMMA ValidateKeeps == ASSUME PagesIInv, ValidateSavedPassphrase PROVE PagesIInv'
<1>1. popup \in PopupState /\ token \in Grants
  BY DEF PagesIInv, PageTypes
<1>2. popup.pc = "validate"
  BY DEF ValidateSavedPassphrase
<1>3. CASE Unwraps(popup.wrapped, popup.pwd)
  <2>1. popup' = [popup EXCEPT !.pc = "idle"] /\ UNCHANGED <<pass, timer, account, token>>
    BY <1>3 DEF ValidateSavedPassphrase
  <2>2. popup' \in PopupState /\ popup'.pc = "idle" /\ popup'.pwd = popup.pwd
        /\ popup'.wrapped = popup.wrapped
    BY <1>1, <2>1 DEF PopupState
  <2>3. CopyOpens' /\ TypedOpens'
    BY <1>3, <2>1, <2>2 DEF PagesIInv, CopyOpens, TypedOpens, Unwraps
  <2>. QED
    BY <1>1, <2>1, <2>2, <2>3, PopupStays DEF ValidateSavedPassphrase, kairoVars
<1>4. CASE ~Unwraps(popup.wrapped, popup.pwd)
  <2>1. popup' = [popup EXCEPT !.pc = "idle", !.pwd = NoPass] /\ ClearRuntimeSession
    BY <1>4 DEF ValidateSavedPassphrase
  <2>2. popup'.pwd = NoPass
    BY <1>1, <2>1 DEF PopupState
  <2>. QED  BY <1>2, <2>1, <2>2, ClearKeeps DEF ValidateSavedPassphrase, kairoVars
<1>. QED  BY <1>3, <1>4

\* Unlocking: what was typed opened the key, then becomes the session, then the copy.
LEMMA UnlockKeeps ==
    ASSUME PagesIInv,
           (\E p \in Passwords : HandleUnlockSubmit(p)) \/ UnlockStored \/ UnlockArmed
    PROVE  PagesIInv'
<1>1. popup \in PopupState /\ token \in Grants /\ pass \in Passwords \cup {NoPass}
      /\ timer \in {"off", "armed", "due"} /\ (pass # NoPass => pass <= account)
  BY DEF PagesIInv, PageTypes, SessionTypeOK, SessionWasVerified
<1>2. CASE \E p \in Passwords : HandleUnlockSubmit(p)
  <2>1. PICK p \in Passwords : HandleUnlockSubmit(p)
    BY <1>2
  <2>2. CASE popup' = popup
    BY <1>1, <2>1, <2>2, PopupStays DEF HandleUnlockSubmit, sessionVars, kairoVars, PagesIInv,
       CopyOpens, TypedOpens
  <2>3. CASE Unwraps(popup.wrapped, p) /\ popup' = [popup EXCEPT !.pc = "set", !.typed = p]
    <3>1. popup.pwd = NoPass /\ popup.wrapped = p
      BY <2>1, <2>3 DEF HandleUnlockSubmit, Unwraps
    <3>2. p # NoPass
      BY NerveSessionAssumption DEF Passwords, NoPass
    <3>3. popup' \in PopupState /\ popup'.pwd = NoPass /\ popup'.wrapped = popup.wrapped
          /\ popup'.typed = popup'.wrapped /\ popup'.typed # NoPass
      BY <1>1, <2>3, <3>1, <3>2 DEF PopupState
    <3>4. account' = account /\ token' = token
      BY <2>1 DEF HandleUnlockSubmit, sessionVars
    <3>5. CopyOpens' /\ TypedOpens'
      BY <3>3, <3>4 DEF PagesIInv, CopyOpens, TypedOpens
    <3>. QED
      BY <1>1, <2>1, <3>3, <3>4, <3>5, PopupStays DEF HandleUnlockSubmit, sessionVars, kairoVars
  <2>. QED  BY <2>1, <2>2, <2>3 DEF HandleUnlockSubmit
<1>3. CASE UnlockStored
  <2>1. popup.typed = popup.wrapped /\ popup.pwd = NoPass /\ popup.typed # NoPass
        /\ popup.wrapped <= account
    BY <1>3 DEF UnlockStored, PagesIInv, TypedOpens
  <2>2. popup' \in PopupState /\ popup'.pc = "arm" /\ popup'.pwd = popup.pwd
        /\ popup'.wrapped = popup.wrapped /\ popup'.typed = popup.typed
    BY <1>1, <1>3 DEF UnlockStored, PopupState
  <2>3. UNCHANGED <<account, token, timer>> /\ pass' = popup.typed
    BY <1>3 DEF UnlockStored
  <2>4. CopyOpens' /\ TypedOpens'
    BY <2>1, <2>2, <2>3 DEF CopyOpens, TypedOpens
  <2>5. pass' \in Passwords \cup {NoPass} /\ pass' <= account
    BY <1>1, <2>1, <2>3 DEF PopupState
  <2>. QED
    BY <1>1, <1>3, <2>2, <2>3, <2>4, <2>5, PopupKeeps DEF UnlockStored, kairoVars
<1>4. CASE UnlockArmed
  <2>1. popup.typed = popup.wrapped /\ popup.wrapped <= account
    BY <1>4 DEF UnlockArmed, PagesIInv, TypedOpens
  <2>2. popup' \in PopupState /\ popup'.pc = "list" /\ popup'.pwd = popup.typed
        /\ popup'.wrapped = popup.wrapped
    BY <1>1, <1>4 DEF UnlockArmed, PopupState, NoPass
  <2>3. UNCHANGED <<account, token>>
    BY <1>4 DEF UnlockArmed
  <2>4. CopyOpens' /\ TypedOpens'
    BY <2>1, <2>2, <2>3 DEF CopyOpens, TypedOpens
  <2>5. pass' \in {pass, NoPass} /\ timer' \in {"off", "armed"}
    BY <1>4 DEF UnlockArmed, ScheduleExpiry, ClearRuntimeSession
  <2>. QED
    BY <1>1, <1>4, <2>2, <2>3, <2>4, <2>5, PopupKeeps DEF UnlockArmed, kairoVars
<1>. QED  BY <1>2, <1>3, <1>4

LEMMA EntriesKeep ==
    ASSUME PagesIInv, (\E op \in {"create", "load"} : EntryRequest(op)) \/ EntryRequestAnswered
    PROVE  PagesIInv'
<1>1. popup \in PopupState /\ token \in Grants
  BY DEF PagesIInv, PageTypes
<1>2. PICK c \in {"create", "load", "list", "idle"} : popup' = [popup EXCEPT !.pc = c]
  BY DEF EntryRequest, EntryRequestAnswered
<1>3. popup' \in PopupState /\ popup'.pc = c /\ popup'.pwd = popup.pwd
      /\ popup'.wrapped = popup.wrapped
  BY <1>1, <1>2 DEF PopupState
<1>4. UNCHANGED <<pass, timer, token, account, granted, options, launcher, capture, badge, uploads>>
      /\ popup.pc \in {"idle", "create", "load"}
  BY DEF EntryRequest, EntryRequestAnswered, sessionVars, kairoVars
<1>5. CopyOpens' /\ TypedOpens'
  BY <1>3, <1>4 DEF PagesIInv, CopyOpens, TypedOpens
<1>. QED  BY <1>1, <1>3, <1>4, <1>5, PopupStays

LEMMA ClosingKeeps == ASSUME PagesIInv, PageCloses PROVE PagesIInv'
<1>1. UNCHANGED <<pass, timer, token, account, granted, capture, badge, uploads>>
  BY DEF PageCloses, sessionVars, kairoVars
<1>2. options \in OptionsState /\ popup \in PopupState /\ launcher \in LauncherState
      /\ token \in Grants /\ granted \in Grants /\ account \in Passwords \cup {Unset}
  BY DEF PagesIInv, PageTypes, SessionTypeOK
<1>3. Closed \in OptionsState /\ Closed \in LauncherState
  BY NervePagesAssumption DEF Closed, OptionsState, LauncherState, Grants, NoToken
<1>4. CASE options' \in {options, Closed} /\ launcher' \in {launcher, Closed} /\ popup' = popup
  BY <1>1, <1>2, <1>3, <1>4, OtherPages
<1>5. CASE popup' = ClosedPopup /\ UNCHANGED <<options, launcher>>
  <2>1. popup' \in PopupState
    BY <1>5, NervePagesAssumption DEF ClosedPopup, PopupState, Grants, NoToken
  <2>2. popup'.pc = "closed" /\ popup'.pwd = NoPass /\ popup'.wrapped = 0
    BY <1>5 DEF ClosedPopup, Unset
  <2>3. account' \in Nat
    BY <1>1, <1>2, NerveSessionAssumption DEF Passwords, Unset
  <2>4. CopyOpens' /\ TypedOpens'
    BY <2>2, <2>3 DEF CopyOpens, TypedOpens
  <2>. QED  BY <1>1, <1>2, <1>5, <2>1, <2>4, PopupStays
<1>. QED  BY <1>4, <1>5 DEF PageCloses

\* Captures, their badge, and the deadline leave the pages alone.
LEMMA CapturesKeep ==
    ASSUME PagesIInv,
           \/ (\E n \in 0 .. MaxFile + 1 : CaptureFile(n)) \/ CaptureFails \/ HeadAnswered
           \/ (\E claim \in Claims : GetAnswered(claim)) \/ BlobRead \/ UploadAnswered
           \/ BadgeTimer
    PROVE  PagesIInv'
<1> DEFINE Captures == [pc : {"idle", "head", "get", "blob", "send"}, size : Nat]
           Badges == [text : {"none", "ok", "fail"}, timers : Nat]
<1>1. capture \in Captures /\ badge \in Badges /\ FileFits /\ NoOversizeUpload
  BY DEF PagesIInv, PageTypes
<1>2. UNCHANGED <<sessionVars, pageVars>>
  BY DEF CaptureFile, CaptureFails, HeadAnswered, GetAnswered, BlobRead, UploadAnswered, BadgeTimer
<1>3. badge' \in Badges
  BY <1>1 DEF CaptureFile, CaptureFails, HeadAnswered, GetAnswered, BlobRead, UploadAnswered,
     BadgeTimer, SetBadge
<1>4. capture' \in Captures /\ (capture'.pc = "send" => capture'.size <= MaxFile)
  <2>1. CASE \E n \in 0 .. MaxFile + 1 : CaptureFile(n)
    BY <1>1, <2>1, NervePagesAssumption DEF CaptureFile, FileFits
  <2>2. CASE CaptureFails \/ UploadAnswered
    BY <2>2 DEF CaptureFails, UploadAnswered, NoFile
  <2>3. CASE HeadAnswered \/ \E claim \in Claims : GetAnswered(claim)
    BY <1>1, <2>3 DEF HeadAnswered, GetAnswered
  <2>4. CASE BlobRead
    BY <1>1, <2>4, NervePagesAssumption DEF BlobRead, NoFile
  <2>5. CASE BadgeTimer
    BY <1>1, <2>5 DEF BadgeTimer, FileFits
  <2>. QED  BY <2>1, <2>2, <2>3, <2>4, <2>5
<1>5. \A n \in uploads' : n <= MaxFile
  BY <1>1 DEF CaptureFile, CaptureFails, HeadAnswered, GetAnswered, BlobRead, UploadAnswered,
     BadgeTimer, FileFits, NoOversizeUpload
<1>. QED
  BY <1>2, <1>3, <1>4, <1>5 DEF PagesIInv, PageTypes, SessionTypeOK, CopyOpens, TypedOpens,
     SessionWasVerified, FileFits, NoOversizeUpload, sessionVars, pageVars

\* The deadline passes, or the account's password becomes a later one.
LEMMA SurroundingsKeep ==
    ASSUME PagesIInv, DeadlinePasses \/ AccountPasswordChanges, UNCHANGED <<pageVars, kairoVars>>
    PROVE  PagesIInv'
<1>1. popup \in PopupState /\ account \in Passwords \cup {Unset}
      /\ pass \in Passwords \cup {NoPass} /\ timer \in {"off", "armed", "due"}
  BY DEF PagesIInv, PageTypes, SessionTypeOK
<1>2. account \in Nat /\ pass \in Nat /\ popup.wrapped \in Nat
  BY <1>1, NerveSessionAssumption DEF Passwords, Unset, NoPass, PopupState
<1>3. UNCHANGED <<pass, token>> /\ timer' \in {"off", "armed", "due"}
      /\ account' \in Passwords \cup {Unset} /\ account <= account'
  BY <1>1, <1>2, NerveSessionAssumption DEF DeadlinePasses, AccountPasswordChanges, Passwords,
     Unset
<1>4. UNCHANGED <<granted, options, popup, launcher, capture, badge, uploads>>
  BY DEF pageVars, kairoVars
<1>5. popup.wrapped <= account' /\ (pass # NoPass => pass <= account')
  <2>1. popup.wrapped <= account /\ (pass # NoPass => pass <= account)
    BY DEF PagesIInv, TypedOpens, SessionWasVerified
  <2>2. account' \in Nat
    BY <1>3, NerveSessionAssumption DEF Passwords, Unset
  <2>. QED  BY <1>2, <1>3, <2>1, <2>2
<1>. QED
  BY <1>3, <1>4, <1>5 DEF PagesIInv, PageTypes, SessionTypeOK, CopyOpens, TypedOpens,
     SessionWasVerified, FileFits, NoOversizeUpload

LEMMA PagesNext == ASSUME PagesIInv, [Next]_vars PROVE PagesIInv'
<1>1. CASE Input
  BY <1>1, OptionsKeep, LauncherKeeps, ClearingKeeps, PopupOpensKeeps, UnlockKeeps, EntriesKeep,
     ClosingKeeps, CapturesKeep, SurroundingsKeep DEF Input
<1>2. CASE OptionsStep \/ LauncherStep
  BY <1>2, OptionsKeep, LauncherKeeps, ClearingKeeps DEF OptionsStep, LauncherStep
<1>3. CASE PopupStep
  BY <1>3, IndexKeeps, ValidateKeeps, UnlockKeeps, EntriesKeep DEF PopupStep
<1>4. CASE CaptureStep \/ BadgeTimer
  BY <1>4, CapturesKeep DEF CaptureStep
<1>5. CASE SessionStep
  BY <1>5, ClearingKeeps, SurroundingsKeep DEF SessionStep
<1>6. CASE UNCHANGED vars
  BY <1>6 DEF vars, sessionVars, pageVars, kairoVars, PagesIInv, PageTypes, SessionTypeOK,
     CopyOpens, TypedOpens, SessionWasVerified, FileFits, NoOversizeUpload
<1>. QED  BY <1>1, <1>2, <1>3, <1>4, <1>5, <1>6 DEF Next, Unasked

\* The manager's copies of password and key agree, or are being compared;
\* what opened a key once is all that becomes a session; a file waits for its
\* upload only when it fits: in every state of the pages
\* (refreshNerveIndex, handleUnlockSubmit, captureFileToKairo).
THEOREM PagesInvariance == Spec => []PagesIInv
BY PagesInit, PagesNext, PTL DEF Spec

\* An unlocked manager opens the key it shows, a mistyped passphrase never
\* becomes the session, and no file above the limit is uploaded
\* (validateSavedPassphrase, handleUnlockSubmit, captureFileToKairo).
THEOREM PagesKeepKeys == Spec => []PagesHold
<1>1. PagesIInv => PagesHold
  <2>. SUFFICES ASSUME PagesIInv PROVE PagesHold
    OBVIOUS
  <2>1. popup \in PopupState /\ badge \in [text : {"none", "ok", "fail"}, timers : Nat]
    BY DEF PagesIInv, PageTypes
  <2>2. TypeOK
    BY <2>1 DEF PagesIInv, PageTypes, TypeOK, PopupState, Grants
  <2>3. ManagerKeyOpens
    BY <2>1 DEF PagesIInv, CopyOpens, ManagerKeyOpens, PopupState, Unwraps
  <2>. QED  BY <2>2, <2>3 DEF PagesIInv, PagesHold
<1>. QED  BY <1>1, PagesInvariance, PTL

-----------------------------------------------------------------------------
(* Sequences and the sets they hold *)

\* A finite set as a sequence: every element once.
LEMMA SetAsSequence ==
  ASSUME NEW S, IsFiniteSet(S)
  PROVE  SetToSeq(S) \in Seq(S) /\ IsInjective(SetToSeq(S)) /\ ToSet(SetToSeq(S)) = S
<1> DEFINE n == Cardinality(S)
           f == SetToSeq(S)
<1>1. n \in Nat
  BY FS_CardinalityType
<1>2. \E g \in [1 .. n -> S] : IsInjective(g)
  <2>1. PICK m \in Nat : ExistsBijection(1 .. m, S)
    BY FS_NatBijection
  <2>2. m = n
    BY <2>1, FS_CountingElements
  <2>. QED  BY <2>1, <2>2 DEF ExistsBijection, Bijection, Injection
<1>3. f \in [1 .. n -> S] /\ IsInjective(f)
  BY <1>2 DEF SetToSeq
<1> HIDE DEF f
<1> DEFINE R == {f[i] : i \in 1 .. n}
<1>4. R \subseteq S
  BY <1>3
<1>5. f \in Bijection(1 .. n, R)
  BY <1>3 DEF Bijection, Injection, Surjection
<1>6. ExistsBijection(1 .. n, R)
  BY <1>5 DEF ExistsBijection
<1> HIDE DEF R
<1>7. Cardinality(R) = n
  BY <1>1, <1>6, FS_CountingElements
<1>8. R = S
  BY <1>4, <1>7, FS_Subset
<1>9. f \in Seq(S)
  BY <1>1, <1>3
<1>10. ToSet(f) = S
  BY <1>3, <1>8 DEF ToSet, R
<1>. QED  BY <1>3, <1>9, <1>10 DEF f

\* What a concatenation, a longer and a shorter sequence hold.
LEMMA SetOfConcat ==
  ASSUME NEW S, NEW s \in Seq(S), NEW t \in Seq(S)
  PROVE  ToSet(s \o t) = ToSet(s) \cup ToSet(t)
<1>1. DOMAIN (s \o t) = 1 .. Len(s) + Len(t)
      /\ \A i \in 1 .. Len(s) + Len(t) : (s \o t)[i] = IF i <= Len(s) THEN s[i] ELSE t[i - Len(s)]
  OBVIOUS
<1>2. Len(s) \in Nat /\ Len(t) \in Nat /\ DOMAIN s = 1 .. Len(s) /\ DOMAIN t = 1 .. Len(t)
  OBVIOUS
<1>3. ASSUME NEW x \in ToSet(s \o t) PROVE x \in ToSet(s) \cup ToSet(t)
  <2>1. PICK i \in DOMAIN (s \o t) : x = (s \o t)[i]
    BY DEF ToSet
  <2>2. CASE i <= Len(s)
    <3>1. i \in DOMAIN s /\ x = s[i]
      BY <1>1, <1>2, <2>1, <2>2
    <3>. QED  BY <3>1 DEF ToSet
  <2>3. CASE ~(i <= Len(s))
    <3>1. i - Len(s) \in DOMAIN t /\ x = t[i - Len(s)]
      BY <1>1, <1>2, <2>1, <2>3
    <3>. QED  BY <3>1 DEF ToSet
  <2>. QED  BY <2>2, <2>3
<1>4. ASSUME NEW x \in ToSet(s) PROVE x \in ToSet(s \o t)
  <2>1. PICK i \in DOMAIN s : x = s[i]
    BY DEF ToSet
  <2>2. i \in DOMAIN (s \o t) /\ x = (s \o t)[i]
    BY <1>1, <1>2, <2>1
  <2>. QED  BY <2>2 DEF ToSet
<1>5. ASSUME NEW x \in ToSet(t) PROVE x \in ToSet(s \o t)
  <2>1. PICK i \in DOMAIN t : x = t[i]
    BY DEF ToSet
  <2>2. Len(s) + i \in DOMAIN (s \o t) /\ x = (s \o t)[Len(s) + i]
    BY <1>1, <1>2, <2>1
  <2>. QED  BY <2>2 DEF ToSet
<1>. QED  BY <1>3, <1>4, <1>5

LEMMA SetOfAppend ==
  ASSUME NEW S, NEW s \in Seq(S), NEW x \in S
  PROVE  ToSet(Append(s, x)) = ToSet(s) \cup {x}
<1>1. DOMAIN s = 1 .. Len(s) /\ Len(s) \in Nat /\ DOMAIN Append(s, x) = 1 .. Len(s) + 1
  OBVIOUS
<1>2. \A i \in 1 .. Len(s) : Append(s, x)[i] = s[i]
  OBVIOUS
<1>3. Append(s, x)[Len(s) + 1] = x
  OBVIOUS
<1>4. 1 .. Len(s) + 1 = (1 .. Len(s)) \cup {Len(s) + 1}
  BY <1>1
<1> DEFINE a == Append(s, x)
<1> HIDE DEF a
<1>5. ToSet(a) = {a[i] : i \in 1 .. Len(s)} \cup {a[Len(s) + 1]}
  BY <1>1, <1>4 DEF ToSet, a
<1>6. {a[i] : i \in 1 .. Len(s)} = ToSet(s)
  BY <1>1, <1>2 DEF ToSet, a
<1>. QED  BY <1>3, <1>5, <1>6 DEF a

LEMMA SetOfTail ==
  ASSUME NEW S, NEW s \in Seq(S), s # <<>>
  PROVE  /\ Head(s) \in S /\ Tail(s) \in Seq(S)
         /\ ToSet(s) = {Head(s)} \cup ToSet(Tail(s))
<1>1. /\ DOMAIN s = 1 .. Len(s) /\ Len(s) \in Nat \ {0} /\ Tail(s) \in Seq(S) /\ Head(s) \in S
      /\ DOMAIN Tail(s) = 1 .. Len(s) - 1 /\ Head(s) = s[1]
  OBVIOUS
<1>2. \A i \in 1 .. Len(s) - 1 : Tail(s)[i] = s[i + 1]
  OBVIOUS
<1> DEFINE t == Tail(s)
<1> HIDE DEF t
<1>3. ASSUME NEW x \in ToSet(s) PROVE x \in {s[1]} \cup ToSet(t)
  <2>1. PICK i \in 1 .. Len(s) : x = s[i]
    BY <1>1 DEF ToSet
  <2>2. CASE i # 1
    <3>1. i - 1 \in DOMAIN t /\ t[i - 1] = x
      BY <1>1, <1>2, <2>1, <2>2 DEF t
    <3>. QED  BY <3>1 DEF ToSet
  <2>. QED  BY <2>1, <2>2
<1>4. ASSUME NEW x \in ToSet(t) PROVE x \in ToSet(s)
  <2>1. PICK i \in DOMAIN t : x = t[i]
    BY DEF ToSet
  <2>2. i + 1 \in DOMAIN s /\ x = s[i + 1]
    BY <1>1, <1>2, <2>1 DEF t
  <2>. QED  BY <2>2 DEF ToSet
<1>5. s[1] \in ToSet(s)
  BY <1>1 DEF ToSet
<1>. QED  BY <1>1, <1>3, <1>4, <1>5 DEF t

\* Two sequences of different things, one after the other.
LEMMA InjectiveConcat ==
  ASSUME NEW S, NEW s \in Seq(S), NEW t \in Seq(S), IsInjective(s), IsInjective(t),
         ToSet(s) \cap ToSet(t) = {}
  PROVE  IsInjective(s \o t)
<1>1. DOMAIN (s \o t) = 1 .. Len(s) + Len(t)
      /\ \A i \in 1 .. Len(s) + Len(t) : (s \o t)[i] = IF i <= Len(s) THEN s[i] ELSE t[i - Len(s)]
  OBVIOUS
<1>2. Len(s) \in Nat /\ Len(t) \in Nat /\ DOMAIN s = 1 .. Len(s) /\ DOMAIN t = 1 .. Len(t)
  OBVIOUS
<1>3. \A i \in DOMAIN s : s[i] \in ToSet(s)
  BY DEF ToSet
<1>4. \A i \in DOMAIN t : t[i] \in ToSet(t)
  BY DEF ToSet
<1>5. ASSUME NEW i \in DOMAIN (s \o t), NEW j \in DOMAIN (s \o t), (s \o t)[i] = (s \o t)[j]
      PROVE  i = j
  <2>1. CASE i <= Len(s) /\ j <= Len(s)
    <3>1. i \in DOMAIN s /\ j \in DOMAIN s /\ s[i] = s[j]
      BY <1>1, <1>2, <1>5, <2>1
    <3>. QED  BY <3>1 DEF IsInjective
  <2>2. CASE ~(i <= Len(s)) /\ ~(j <= Len(s))
    <3>1. i - Len(s) \in DOMAIN t /\ j - Len(s) \in DOMAIN t /\ t[i - Len(s)] = t[j - Len(s)]
      BY <1>1, <1>2, <1>5, <2>2
    <3>2. i - Len(s) = j - Len(s)
      BY <3>1 DEF IsInjective
    <3>. QED  BY <3>2, <1>1, <1>2
  <2>3. CASE i <= Len(s) /\ ~(j <= Len(s))
    <3>1. i \in DOMAIN s /\ j - Len(s) \in DOMAIN t /\ s[i] = t[j - Len(s)]
      BY <1>1, <1>2, <1>5, <2>3
    <3>. QED  BY <3>1, <1>3, <1>4
  <2>4. CASE ~(i <= Len(s)) /\ j <= Len(s)
    <3>1. j \in DOMAIN s /\ i - Len(s) \in DOMAIN t /\ s[j] = t[i - Len(s)]
      BY <1>1, <1>2, <1>5, <2>4
    <3>. QED  BY <3>1, <1>3, <1>4
  <2>. QED  BY <2>1, <2>2, <2>3, <2>4
<1>. QED  BY <1>5 DEF IsInjective

LEMMA ConcatAgain ==
  ASSUME NEW S, NEW r \in Seq(S), NEW s \in Seq(S), NEW t \in Seq(S)
  PROVE  r \o (s \o t) = (r \o s) \o t
  OBVIOUS

-----------------------------------------------------------------------------
(* PostDwell: The time a post is seen *)

\* What a hook keeps of its post; a tracker has not reported more than it measured.
Fields ==
    [mounted : {TRUE}, visible : BOOLEAN, since : Nat \cup {Off}, total : Nat,
     reported : Nat, suppress : BOOLEAN, dismissed : BOOLEAN]
Trackers == {t \in Fields : t.reported <= t.total}

\* What a hook has measured and not handed on.
Held(t) ==
    IF ~t.mounted THEN 0
    ELSE t.total - t.reported + IF t.since = Off THEN 0 ELSE t.since

\* A hook measures only while its post can be seen.
Counts(t, b, s, n, hidden) ==
    /\ t \in Trackers \cup {Gone}
    /\ t # Gone /\ t.since # Off => t.visible /\ ~hidden
    /\ b \in Nat /\ s \in Nat /\ n \in Nat
    /\ s + b + Held(t) <= n

\* The hooks, the queue and the timer of the page keep their types.
DwellTypes ==
    /\ tracker = [p \in Posts |-> tracker[p]]
    /\ buffer = [p \in Posts |-> buffer[p]]
    /\ told = [p \in Posts |-> told[p]]
    /\ seen = [p \in Posts |-> seen[p]]
    /\ page \in [hidden : BOOLEAN, online : BOOLEAN, loading : BOOLEAN]
    /\ handle \in BOOLEAN
    /\ batchTimer \in [post : Posts, live : BOOLEAN] \cup {NoTimer}

\* What was told, is queued and is held adds up to no more than was seen.
AllCount == \A p \in Posts : Counts(tracker[p], buffer[p], told[p], seen[p], page.hidden)

\* The handle of the batch is set while its timer runs, and while something is queued.
HandleIsTimer ==
    /\ handle <=> batchTimer # NoTimer
    /\ \A p \in Posts : buffer[p] > 0 => handle

DwellIInv == DwellTypes /\ AllCount /\ HandleIsTimer

LEMMA GoneFacts == Gone \notin Trackers /\ ~Gone.mounted /\ Held(Gone) = 0
<1>1. \A t \in Trackers : t.mounted = TRUE
  BY DEF Trackers, Fields
<1>. QED  BY <1>1 DEF Gone, Held

LEMMA TrackerFacts ==
  ASSUME NEW t \in Trackers
  PROVE  /\ t.mounted = TRUE /\ t # Gone /\ t.visible \in BOOLEAN
         /\ t.since \in Nat \cup {Off}
         /\ t.total \in Nat /\ t.reported \in Nat /\ t.reported <= t.total
         /\ Held(t) = t.total - t.reported + IF t.since = Off THEN 0 ELSE t.since
         /\ Held(t) \in Nat
<1>1. t \in Fields /\ t.reported <= t.total /\ t # Gone
  BY GoneFacts DEF Trackers
<1>2. /\ t.mounted = TRUE /\ t.visible \in BOOLEAN /\ t.since \in Nat \cup {Off}
      /\ t.total \in Nat /\ t.reported \in Nat
  BY <1>1 DEF Fields
<1>3. Held(t) = t.total - t.reported + IF t.since = Off THEN 0 ELSE t.since
  BY <1>2 DEF Held
<1>. QED  BY <1>1, <1>2, <1>3

LEMMA HeldType == ASSUME NEW t \in Trackers \cup {Gone} PROVE Held(t) \in Nat
<1>1. CASE t \in Trackers
  BY <1>1, TrackerFacts
<1>2. CASE t = Gone
  BY <1>2, GoneFacts
<1>. QED  BY <1>1, <1>2

LEMMA StoppedFields ==
  ASSUME NEW t \in Fields, NEW a \in Nat
  PROVE  LET s == [t EXCEPT !.total = @ + a, !.since = Off]
         IN  /\ s \in Fields /\ s.total = t.total + a /\ s.reported = t.reported
             /\ s.since = Off /\ s.visible = t.visible
<1> DEFINE s == [t EXCEPT !.total = @ + a, !.since = Off]
<1>1. t.total \in Nat
  BY DEF Fields
<1>2. s.total = t.total + a /\ s.since = Off
  BY DEF Fields
<1>3. s.reported = t.reported /\ s.visible = t.visible
  BY DEF Fields
<1>4. t.total + a \in Nat
  BY <1>1
<1>5. s \in Fields
  BY <1>4 DEF Fields
<1>. QED  BY <1>2, <1>3, <1>5

LEMMA ReportedFields ==
  ASSUME NEW s \in Fields, NEW a \in Nat
  PROVE  LET r == [s EXCEPT !.reported = @ + a]
         IN  /\ r \in Fields /\ r.total = s.total /\ r.reported = s.reported + a
             /\ r.since = s.since /\ r.visible = s.visible
<1> DEFINE r == [s EXCEPT !.reported = @ + a]
<1>1. s.reported + a \in Nat
  BY DEF Fields
<1>2. r.reported = s.reported + a /\ r.total = s.total
  BY DEF Fields
<1>3. r.since = s.since /\ r.visible = s.visible
  BY DEF Fields
<1>4. r \in Fields
  BY <1>1 DEF Fields
<1>. QED  BY <1>2, <1>3, <1>4

\* Pausing moves what the hook held to the batch, or leaves it with the hook.
LEMMA PausedFacts ==
  ASSUME NEW t \in Trackers
  PROVE  /\ Paused(t) \in Trackers
         /\ Paused(t).since = Off /\ Paused(t).visible = t.visible
         /\ Queued(t) \in Nat
         /\ Held(Paused(t)) + Queued(t) = Held(t)
         /\ Payload(Paused(t)) \in Nat /\ Payload(Paused(t)) <= Held(Paused(t))
<1>1. /\ t.mounted = TRUE /\ t.since \in Nat \cup {Off} /\ t.total \in Nat /\ t.reported \in Nat
      /\ t.reported <= t.total
      /\ Held(t) = t.total - t.reported + IF t.since = Off THEN 0 ELSE t.since
  BY TrackerFacts
<1>2. CASE t.since = Off
  <2>1. Paused(t) = t /\ Queued(t) = 0
    BY <1>1, <1>2 DEF Paused, Queued
  <2>2. Payload(t) \in Nat /\ Payload(t) <= t.total - t.reported
    BY <1>1 DEF Payload
  <2>. QED  BY <1>1, <1>2, <2>1, <2>2
<1>3. CASE t.since # Off
  <2> DEFINE s == [t EXCEPT !.total = @ + t.since, !.since = Off]
             r == [s EXCEPT !.reported = @ + Payload(s)]
  <2>1. t.since \in Nat
    BY <1>1, <1>3
  <2>2. /\ s \in Trackers /\ s.total = t.total + t.since /\ s.reported = t.reported
        /\ s.since = Off /\ s.visible = t.visible
    <3>1. t \in Fields
      BY DEF Trackers
    <3>2. /\ s \in Fields /\ s.total = t.total + t.since /\ s.reported = t.reported
          /\ s.since = Off /\ s.visible = t.visible
      BY <3>1, <2>1, StoppedFields
    <3> HIDE DEF s
    <3>. QED  BY <3>2, <1>1, <2>1 DEF Trackers
  <2>3. Payload(s) \in Nat /\ Payload(s) <= s.total - s.reported
    BY <2>2, <1>1, <2>1 DEF Payload
  <2> HIDE DEF s
  <2>4. /\ r \in Trackers /\ r.total = s.total /\ r.reported = s.reported + Payload(s)
        /\ r.since = Off /\ r.visible = s.visible
    <3>1. s \in Fields /\ s.total \in Nat /\ s.reported \in Nat
      BY <2>2, TrackerFacts DEF Trackers
    <3>2. /\ r \in Fields /\ r.total = s.total /\ r.reported = s.reported + Payload(s)
          /\ r.since = Off /\ r.visible = s.visible
      BY <3>1, <2>2, <2>3, ReportedFields
    <3> HIDE DEF r
    <3>. QED  BY <3>1, <3>2, <2>3 DEF Trackers
  <2>5. Paused(t) = r
    BY <1>3 DEF Paused, s
  <2> HIDE DEF r
  <2>6. Queued(t) = Payload(s)
    <3>1. Paused(t).reported = t.reported + Payload(s)
      BY <2>5, <2>4, <2>2
    <3>. QED  BY <3>1, <2>3, <1>1 DEF Queued
  <2>7. Held(r) = r.total - r.reported
    <3>1. r \in Trackers /\ r.since = Off
      BY <2>4
    <3>2. r.total \in Nat /\ r.reported \in Nat
      BY <3>1, TrackerFacts
    <3>3. Held(r) = r.total - r.reported + IF r.since = Off THEN 0 ELSE r.since
      BY <3>1, TrackerFacts
    <3>. QED  BY <3>1, <3>2, <3>3
  <2>8. Payload(r) \in Nat /\ Payload(r) <= r.total - r.reported
    <3>1. r.total \in Nat /\ r.reported \in Nat /\ r.reported <= r.total
      BY <2>4, TrackerFacts
    <3>. QED  BY <3>1 DEF Payload
  <2>. QED  BY <1>1, <1>3, <2>1, <2>2, <2>3, <2>4, <2>5, <2>6, <2>7, <2>8
<1>. QED  BY <1>2, <1>3

LEMMA ResumedFacts ==
  ASSUME NEW t \in Trackers, t.since = Off \/ t.visible
  PROVE  /\ Resumed(t) \in Trackers /\ Resumed(t).visible = t.visible
         /\ Held(Resumed(t)) = Held(t)
<1>1. CASE t.since = Off
  <2>1. Resumed(t) = [t EXCEPT !.since = 0]
    BY <1>1 DEF Resumed
  <2>2. [t EXCEPT !.since = 0] \in Trackers
    BY DEF Trackers, Fields
  <2>. QED  BY <2>1, <2>2, <1>1, TrackerFacts DEF Trackers, Fields, Off
<1>2. CASE t.since # Off
  BY <1>2 DEF Resumed
<1>. QED  BY <1>1, <1>2

LEMMA DwellBegins == DwellInit => DwellIInv
<1> SUFFICES ASSUME DwellInit PROVE DwellIInv
  OBVIOUS
<1>1. DwellTypes
  BY DEF DwellInit, DwellTypes
<1>2. AllCount
  BY GoneFacts DEF DwellInit, AllCount, Counts
<1>3. HandleIsTimer
  BY DEF DwellInit, HandleIsTimer
<1>. QED  BY <1>1, <1>2, <1>3 DEF DwellIInv

\* Where the inductive invariant leaves a post that a step does not touch.
LEMMA CountsKept ==
  ASSUME DwellIInv, NEW p \in Posts
  PROVE  /\ Counts(tracker[p], buffer[p], told[p], seen[p], page.hidden)
         /\ buffer[p] \in Nat /\ told[p] \in Nat /\ seen[p] \in Nat
         /\ p \in Mounted => tracker[p] \in Trackers
         /\ p \notin Mounted => tracker[p] = Gone
  BY GoneFacts, TrackerFacts DEF DwellIInv, AllCount, Counts, Mounted

\* A hook that has been paused, and perhaps changed otherwise.
AsPaused(n, t) == n \in Trackers /\ n.since = Off /\ Held(n) = Held(Paused(t))

\* A post whose hook is paused: what it queues goes to the batch.
LEMMA PausedCounts ==
  ASSUME DwellIInv, NEW p \in Mounted, NEW h \in BOOLEAN, NEW n, AsPaused(n, tracker[p])
  PROVE  /\ Counts(n, buffer[p] + Queued(tracker[p]), told[p], seen[p], h)
         /\ Counts(n, 0, told[p] + (buffer[p] + Queued(tracker[p])), seen[p], h)
         /\ Counts(n, 0, told[p], seen[p], h)
         /\ Queued(tracker[p]) \in Nat
<1>1. p \in Posts
  BY DEF Mounted
<1>2. tracker[p] \in Trackers /\ Counts(tracker[p], buffer[p], told[p], seen[p], page.hidden)
  BY <1>1, CountsKept
<1> DEFINE t == tracker[p]
<1>3. /\ Paused(t) \in Trackers
      /\ Queued(t) \in Nat /\ Held(Paused(t)) + Queued(t) = Held(t)
  BY <1>2, PausedFacts
<1>4. Held(Paused(t)) \in Nat
  BY <1>3, TrackerFacts
<1>5. n \in Trackers /\ n.since = Off /\ Held(n) = Held(Paused(t))
  BY DEF AsPaused
<1>. QED  BY <1>2, <1>3, <1>4, <1>5 DEF Counts

LEMMA PausedIsPaused == ASSUME NEW t \in Trackers PROVE AsPaused(Paused(t), t)
  BY PausedFacts DEF AsPaused

\* The posts in T are paused and their time is queued.
LEMMA PausesToBatch ==
  ASSUME DwellIInv, NEW T \in SUBSET Mounted,
         page' \in [hidden : BOOLEAN, online : BOOLEAN, loading : BOOLEAN],
         tracker' = [p \in Posts |-> tracker'[p]],
         \A p \in T : AsPaused(tracker'[p], tracker[p]),
         \A p \in Posts \ T : /\ tracker'[p] = tracker[p]
                              /\ tracker[p] # Gone /\ tracker[p].since # Off => ~page'.hidden,
         buffer' = BufferWith(T), told' = told, seen' = seen, ScheduleBatchSend(T)
  PROVE  DwellIInv'
<1>1. T \subseteq Posts
  BY DEF Mounted
<1> DEFINE h == page'.hidden
<1>0. h \in BOOLEAN
  OBVIOUS
<1>2. ASSUME NEW p \in T
      PROVE  /\ buffer'[p] = buffer[p] + Queued(tracker[p])
             /\ Counts(tracker'[p], buffer'[p], told'[p], seen'[p], h)
  <2>1. buffer'[p] = buffer[p] + Queued(tracker[p])
    BY <1>1, <1>2 DEF BufferWith
  <2>. QED  BY <1>0, <2>1, PausedCounts
<1>3. ASSUME NEW p \in Posts \ T
      PROVE  buffer'[p] = buffer[p] /\ Counts(tracker'[p], buffer'[p], told'[p], seen'[p], h)
  <2>1. buffer[p] \in Nat /\ Counts(tracker[p], buffer[p], told[p], seen[p], page.hidden)
    BY CountsKept
  <2>2. tracker'[p] = tracker[p] /\ buffer'[p] = buffer[p]
    BY <2>1, <1>3 DEF BufferWith
  <2>. QED  BY <2>1, <2>2 DEF Counts
<1>4. AllCount'
  BY <1>2, <1>3 DEF AllCount
<1>5. DwellTypes /\ HandleIsTimer
  BY DEF DwellIInv
<1>6. HandleIsTimer' /\ handle' \in BOOLEAN
      /\ batchTimer' \in [post : Posts, live : BOOLEAN] \cup {NoTimer}
  <2> DEFINE Q == {p \in T : Queued(tracker[p]) > 0}
  <2>1. CASE handle
    BY <2>1, <1>5 DEF ScheduleBatchSend, HandleIsTimer, DwellTypes
  <2>2. CASE ~handle /\ Q = {}
    <3>1. handle' = handle /\ batchTimer' = batchTimer
      BY <2>2 DEF ScheduleBatchSend
    <3>2. ASSUME NEW p \in Posts PROVE buffer'[p] = buffer[p]
      <4>1. CASE p \in T
        <5>1. Queued(tracker[p]) \in Nat
          BY <4>1, <1>0, PausedCounts
        <5>2. Queued(tracker[p]) = 0
          BY <4>1, <2>2, <5>1
        <5>. QED  BY <5>2, <4>1, <1>2, CountsKept
      <4>. QED  BY <4>1, <1>3
    <3>. QED  BY <3>1, <3>2, <1>5 DEF HandleIsTimer, DwellTypes
  <2>3. CASE ~handle /\ Q # {}
    <3>1. handle' = TRUE /\ \E p \in Q : batchTimer' = [post |-> p, live |-> TRUE]
      BY <2>3 DEF ScheduleBatchSend
    <3>2. PICK p \in Q : batchTimer' = [post |-> p, live |-> TRUE]
      BY <3>1
    <3>3. p \in Posts
      BY <1>1
    <3>4. batchTimer' # NoTimer /\ batchTimer' \in [post : Posts, live : BOOLEAN]
      BY <3>2, <3>3 DEF NoTimer
    <3>. QED  BY <3>1, <3>4 DEF HandleIsTimer
  <2>. QED  BY <2>1, <2>2, <2>3, <1>5 DEF DwellTypes
<1>7. DwellTypes'
  BY <1>5, <1>6 DEF BufferWith, DwellTypes
<1>. QED  BY <1>4, <1>6, <1>7 DEF DwellIInv

\* All hooks are paused, and the batch is sent or lost.
LEMMA Flushes ==
  ASSUME DwellIInv, Flush, seen' = seen,
         page' \in [hidden : BOOLEAN, online : BOOLEAN, loading : BOOLEAN]
  PROVE  DwellIInv'
<1> DEFINE h == page'.hidden
<1>0. h \in BOOLEAN
  OBVIOUS
<1>1. /\ tracker' = TrackersWith(Mounted, [p \in Mounted |-> Paused(tracker[p])])
      /\ told' = Told(BufferWith(Mounted), Connected(TRUE))
      /\ buffer' = [p \in Posts |-> 0] /\ batchTimer' = NoTimer /\ handle' = FALSE
  BY DEF Flush, TimerCleared
<1>2. ASSUME NEW p \in Posts PROVE Counts(tracker'[p], 0, told'[p], seen'[p], h)
  <2>1. CASE p \in Mounted
    <3>1. tracker'[p] = Paused(tracker[p])
      BY <1>1, <2>1 DEF TrackersWith
    <3>2. told'[p] \in {told[p], told[p] + (buffer[p] + Queued(tracker[p]))}
      BY <1>1, <2>1 DEF Told, BufferWith
    <3>. QED  BY <1>0, <2>1, <3>1, <3>2, PausedCounts, PausedIsPaused, CountsKept
  <2>2. CASE p \notin Mounted
    <3>1. tracker'[p] = tracker[p]
      BY <1>1, <2>2 DEF TrackersWith
    <3>2. buffer[p] \in Nat /\ told[p] \in Nat /\ tracker[p] = Gone
          /\ Counts(tracker[p], buffer[p], told[p], seen[p], page.hidden)
      BY <2>2, CountsKept
    <3>3. told'[p] \in {told[p], told[p] + buffer[p]}
      <4>1. BufferWith(Mounted)[p] = buffer[p]
        BY <2>2, <3>2 DEF BufferWith
      <4>. QED  BY <1>1, <4>1 DEF Told
    <3>. QED  BY <3>1, <3>2, <3>3, GoneFacts DEF Counts
  <2>. QED  BY <2>1, <2>2
<1>3. DwellTypes
  BY DEF DwellIInv
<1>4. told' = [p \in Posts |-> told'[p]]
  BY <1>1, <1>3 DEF Told, DwellTypes
<1>5. DwellTypes'
  BY <1>1, <1>3, <1>4 DEF DwellTypes, TrackersWith
<1>6. \A p \in Posts : buffer'[p] = 0
  BY <1>1
<1>7. AllCount'
  BY <1>2, <1>6 DEF AllCount
<1>8. HandleIsTimer'
  BY <1>1, <1>6 DEF HandleIsTimer
<1>. QED  BY <1>5, <1>7, <1>8 DEF DwellIInv

\* Hooks go: what they hold is sent, or lost with them.
LEMMA Removes ==
  ASSUME DwellIInv, NEW D \in SUBSET Mounted, NEW attached \in BOOLEAN, Destroyed(D, attached),
         seen' = seen, page' \in [hidden : BOOLEAN, online : BOOLEAN, loading : BOOLEAN],
         page'.hidden = page.hidden
  PROVE  DwellIInv'
<1> DEFINE h == page.hidden
           Q == {p \in D : Queued(tracker[p]) > 0}
           rest(p) == Payload(Paused(tracker[p]))
           data == [p \in Posts |-> IF p \in D THEN BufferWith(D)[p] + rest(p) ELSE 0]
           dead(t) == IF t.post \in D THEN [t EXCEPT !.live = FALSE] ELSE t
<1>1. D \subseteq Posts /\ DwellTypes /\ HandleIsTimer
  BY DEF Mounted, DwellIInv
<1>2. /\ tracker' = TrackersWith(D, [p \in D |-> Gone])
      /\ IF flushing
         THEN batchTimer' = dead(batchTimer) /\ buffer' = buffer /\ handle' = handle /\ told' = told
         ELSE /\ buffer' = Taken(D) /\ told' = Told(data, Connected(attached))
              /\ handle' = (handle \/ Q # {})
              /\ IF handle \/ Q = {} THEN batchTimer' = dead(batchTimer)
                 ELSE \E p \in Q : batchTimer' = [post |-> p, live |-> FALSE]
  BY DEF Destroyed
<1>3. ASSUME NEW p \in D PROVE Counts(tracker'[p], buffer'[p], told'[p], seen'[p], h)
  <2> DEFINE t == tracker[p]
  <2>1. tracker'[p] = Gone
    BY <1>1, <1>2 DEF TrackersWith
  <2>2. Counts(t, buffer[p], told[p], seen[p], page.hidden) /\ t \in Trackers
        /\ buffer[p] \in Nat /\ told[p] \in Nat /\ seen[p] \in Nat
    BY <1>1, CountsKept
  <2>3. /\ Queued(t) \in Nat /\ Held(Paused(t)) + Queued(t) = Held(t)
        /\ Payload(Paused(t)) \in Nat /\ Payload(Paused(t)) <= Held(Paused(t))
        /\ Paused(t) \in Trackers
    BY <2>2, PausedFacts
  <2>4. Held(Paused(t)) \in Nat
    BY <2>3, TrackerFacts
  <2>5. told[p] + buffer[p] + Held(t) <= seen[p]
    BY <2>2 DEF Counts
  <2>6. CASE flushing
    <3>1. buffer'[p] = buffer[p] /\ told'[p] = told[p]
      BY <1>2, <2>6
    <3>. QED  BY <3>1, <2>1, <2>2, <2>3, <2>4, <2>5, GoneFacts DEF Counts
  <2>7. CASE ~flushing
    <3>1. buffer'[p] = 0
      BY <1>1, <1>2, <2>7 DEF Taken
    <3>2. data[p] = buffer[p] + Queued(t) + rest(p)
      BY <1>1 DEF BufferWith
    <3>3. told'[p] \in {told[p], told[p] + (buffer[p] + Queued(t) + rest(p))}
      BY <1>1, <1>2, <2>7, <3>2 DEF Told
    <3>. QED  BY <3>1, <3>3, <2>1, <2>2, <2>3, <2>4, <2>5, GoneFacts DEF Counts
  <2>. QED  BY <2>6, <2>7
<1>4. ASSUME NEW p \in Posts \ D
      PROVE  buffer'[p] = buffer[p] /\ Counts(tracker'[p], buffer'[p], told'[p], seen'[p], h)
  <2>1. tracker'[p] = tracker[p]
    BY <1>2 DEF TrackersWith
  <2>2. Counts(tracker[p], buffer[p], told[p], seen[p], page.hidden) /\ told[p] \in Nat
    BY CountsKept
  <2>3. buffer'[p] = buffer[p]
    BY <1>2 DEF Taken
  <2>4. told'[p] = told[p]
    BY <1>2, <2>2 DEF Told
  <2>. QED  BY <2>1, <2>2, <2>3, <2>4
<1>5. AllCount'
  BY <1>3, <1>4 DEF AllCount
<1>6. batchTimer \in [post : Posts, live : BOOLEAN] =>
          /\ dead(batchTimer) \in [post : Posts, live : BOOLEAN]
          /\ dead(batchTimer) # NoTimer
  <2> SUFFICES ASSUME batchTimer \in [post : Posts, live : BOOLEAN]
               PROVE  dead(batchTimer) \in [post : Posts, live : BOOLEAN]
                      /\ dead(batchTimer) # NoTimer
    OBVIOUS
  <2>1. dead(batchTimer) \in [post : Posts, live : BOOLEAN]
    OBVIOUS
  <2>2. dead(batchTimer).post = batchTimer.post
    OBVIOUS
  <2>. QED  BY <2>1, <2>2, PostsAssumption DEF NoTimer
<1>7. dead(NoTimer) = NoTimer
  BY <1>1, PostsAssumption DEF NoTimer
<1>8. batchTimer' \in [post : Posts, live : BOOLEAN] \cup {NoTimer}
      /\ (handle' <=> batchTimer' # NoTimer) /\ handle' \in BOOLEAN
  <2>1. /\ dead(batchTimer) \in [post : Posts, live : BOOLEAN] \cup {NoTimer}
        /\ handle <=> dead(batchTimer) # NoTimer
        /\ handle \in BOOLEAN
    <3>1. batchTimer \in [post : Posts, live : BOOLEAN] \cup {NoTimer}
          /\ (handle <=> batchTimer # NoTimer) /\ handle \in BOOLEAN
      BY <1>1 DEF DwellTypes, HandleIsTimer
    <3>2. CASE batchTimer = NoTimer
      BY <3>1, <3>2, <1>7
    <3>3. CASE batchTimer # NoTimer
      <4>1. batchTimer \in [post : Posts, live : BOOLEAN]
        BY <3>1, <3>3
      <4>. QED  BY <4>1, <3>1, <3>3, <1>6
    <3>. QED  BY <3>2, <3>3
  <2> HIDE DEF dead
  <2>2. CASE flushing
    BY <2>1, <2>2, <1>2
  <2>3. CASE ~flushing /\ (handle \/ Q = {})
    BY <2>1, <2>3, <1>2
  <2>4. CASE ~flushing /\ ~(handle \/ Q = {})
    <3>1. handle' = TRUE /\ \E p \in Q : batchTimer' = [post |-> p, live |-> FALSE]
      BY <1>2, <2>4
    <3>2. PICK p \in Q : batchTimer' = [post |-> p, live |-> FALSE]
      BY <3>1
    <3>3. p \in Posts
      BY <1>1
    <3>4. batchTimer'.post = p /\ batchTimer' \in [post : Posts, live : BOOLEAN]
      BY <3>2, <3>3
    <3>5. batchTimer' # NoTimer
      BY <3>3, <3>4, PostsAssumption DEF NoTimer
    <3>. QED  BY <3>1, <3>4, <3>5
  <2>. QED  BY <2>2, <2>3, <2>4
<1>9. ASSUME NEW p \in Posts, buffer'[p] > 0 PROVE handle'
  <2>1. handle => handle'
    BY <1>2
  <2>2. CASE p \in D
    <3>1. CASE flushing
      BY <3>1, <1>1, <1>2, <1>9 DEF HandleIsTimer
    <3>2. CASE ~flushing
      BY <3>2, <2>2, <1>2, <1>9 DEF Taken
    <3>. QED  BY <3>1, <3>2
  <2>3. CASE p \notin D
    BY <2>1, <2>3, <1>1, <1>4, <1>9 DEF HandleIsTimer
  <2>. QED  BY <2>2, <2>3
<1>10. tracker' = [p \in Posts |-> tracker'[p]] /\ buffer' = [p \in Posts |-> buffer'[p]]
       /\ told' = [p \in Posts |-> told'[p]]
  BY <1>1, <1>2 DEF TrackersWith, Taken, Told, DwellTypes
<1>11. DwellTypes'
  BY <1>1, <1>8, <1>10 DEF DwellTypes
<1>12. HandleIsTimer'
  BY <1>8, <1>9 DEF HandleIsTimer
<1>. QED  BY <1>5, <1>11, <1>12 DEF DwellIInv

\* A step that leaves the batch alone and no post with more than it was seen.
LEMMA Undisturbed ==
  ASSUME DwellIInv, UNCHANGED <<buffer, told, handle, batchTimer>>,
         page' \in [hidden : BOOLEAN, online : BOOLEAN, loading : BOOLEAN],
         tracker' = [p \in Posts |-> tracker'[p]], seen' = [p \in Posts |-> seen'[p]],
         \A p \in Posts : Counts(tracker'[p], buffer[p], told[p], seen'[p], page'.hidden)
  PROVE  DwellIInv'
  BY DEF DwellIInv, DwellTypes, AllCount, HandleIsTimer

LEMMA AgedFields ==
  ASSUME NEW t \in Fields, t.since \in Nat
  PROVE  LET n == [t EXCEPT !.since = @ + 1]
         IN  /\ n \in Fields /\ n.since = t.since + 1 /\ n.total = t.total
             /\ n.reported = t.reported /\ n.visible = t.visible
<1> DEFINE n == [t EXCEPT !.since = @ + 1]
<1>1. t.since + 1 \in Nat
  OBVIOUS
<1>2. n.since = t.since + 1
  BY DEF Fields
<1>3. n.total = t.total /\ n.reported = t.reported /\ n.visible = t.visible
  BY DEF Fields
<1>4. n \in Fields
  BY <1>1 DEF Fields
<1>. QED  BY <1>2, <1>3, <1>4

LEMMA Suppressed ==
  ASSUME DwellIInv, NEW p \in Mounted, NEW b \in BOOLEAN,
         tracker' = [tracker EXCEPT ![p].suppress = b],
         UNCHANGED <<buffer, told, handle, batchTimer, page, seen>>
  PROVE  DwellIInv'
<1>1. /\ page \in [hidden : BOOLEAN, online : BOOLEAN, loading : BOOLEAN]
      /\ tracker = [q \in Posts |-> tracker[q]] /\ seen = [q \in Posts |-> seen[q]]
      /\ p \in Posts
  BY DEF DwellIInv, DwellTypes, Mounted
<1>2. tracker[p] \in Trackers /\ Counts(tracker[p], buffer[p], told[p], seen[p], page.hidden)
  BY <1>1, CountsKept
<1> DEFINE n == [tracker[p] EXCEPT !.suppress = b]
<1>3. /\ n \in Fields /\ n.total = tracker[p].total /\ n.reported = tracker[p].reported
      /\ n.since = tracker[p].since /\ n.visible = tracker[p].visible
  BY <1>2 DEF Trackers, Fields
<1>4. tracker' = [q \in Posts |-> IF q = p THEN n ELSE tracker[q]]
  BY <1>1
<1> HIDE DEF n
<1>5. n \in Trackers
  BY <1>2, <1>3 DEF Trackers
<1>6. Held(n) = Held(tracker[p])
  <2>1. Held(n) = n.total - n.reported + IF n.since = Off THEN 0 ELSE n.since
    BY <1>5, TrackerFacts
  <2>2. Held(tracker[p]) = tracker[p].total - tracker[p].reported
                           + IF tracker[p].since = Off THEN 0 ELSE tracker[p].since
    BY <1>2, TrackerFacts
  <2>. QED  BY <1>3, <2>1, <2>2
<1>7. ASSUME NEW q \in Posts
      PROVE  Counts(tracker'[q], buffer[q], told[q], seen'[q], page'.hidden)
  <2>1. CASE q = p
    <3>1. tracker'[q] = n
      BY <2>1, <1>4
    <3>. QED  BY <3>1, <2>1, <1>2, <1>3, <1>5, <1>6, GoneFacts DEF Counts
  <2>2. CASE q # p
    <3>1. tracker'[q] = tracker[q]
      BY <2>2, <1>4
    <3>. QED  BY <3>1, CountsKept
  <2>. QED  BY <2>1, <2>2
<1>. QED  BY <1>1, <1>4, <1>7, Undisturbed

LEMMA DwellGoesOn == DwellIInv /\ [DwellNext]_dwellVars => DwellIInv'
<1> SUFFICES ASSUME DwellIInv, [DwellNext]_dwellVars PROVE DwellIInv'
  OBVIOUS
<1>0. DwellTypes /\ AllCount /\ HandleIsTimer
  BY DEF DwellIInv
<1>a. page \in [hidden : BOOLEAN, online : BOOLEAN, loading : BOOLEAN]
      /\ tracker = [p \in Posts |-> tracker[p]] /\ seen = [p \in Posts |-> seen[p]]
  BY <1>0 DEF DwellTypes
<1>b. \A p \in Posts : Counts(tracker[p], buffer[p], told[p], seen[p], page.hidden)
  BY CountsKept
<1>1. ASSUME NEW p \in Posts, Mount(p) PROVE DwellIInv'
  <2>1. tracker' = [tracker EXCEPT ![p] = NewHook] /\ p \notin Mounted
        /\ UNCHANGED <<buffer, told, handle, batchTimer, page, seen>>
    BY <1>1 DEF Mount
  <2>2. NewHook \in Fields /\ NewHook.reported = 0 /\ NewHook.total = 0 /\ NewHook.since = Off
    BY DEF NewHook, Fields
  <2>3. NewHook \in Trackers /\ Held(NewHook) = 0
    <3>1. NewHook \in Trackers
      BY <2>2 DEF Trackers
    <3>2. Held(NewHook) = NewHook.total - NewHook.reported
                          + IF NewHook.since = Off THEN 0 ELSE NewHook.since
      BY <3>1, TrackerFacts
    <3>. QED  BY <3>1, <3>2, <2>2
  <2>4. ASSUME NEW q \in Posts
        PROVE  Counts(tracker'[q], buffer[q], told[q], seen'[q], page'.hidden)
    <3>1. CASE q = p
      <4>1. tracker'[q] = NewHook /\ tracker[p] = Gone
        BY <3>1, <2>1, <1>a, CountsKept
      <4>. QED  BY <4>1, <3>1, <2>1, <2>2, <2>3, <1>b, GoneFacts DEF Counts
    <3>2. CASE q # p
      <4>1. tracker'[q] = tracker[q]
        BY <3>2, <2>1, <1>a
      <4>. QED  BY <4>1, <2>1, <1>b
    <3>. QED  BY <3>1, <3>2
  <2>. QED  BY <2>1, <2>4, <1>a, Undisturbed
<1>2. ASSUME NEW p \in Posts, Removed(p) PROVE DwellIInv'
  <2>1. p \in Mounted /\ seen' = seen /\ page' = page
        /\ \E attached \in BOOLEAN : Destroyed({p}, attached)
    BY <1>2 DEF Removed
  <2>. QED  BY <2>1, <1>a, Removes
<1>3. ASSUME NEW p \in Posts, ComesIntoView(p) PROVE DwellIInv'
  <2> DEFINE t == [tracker[p] EXCEPT !.visible = TRUE]
  <2>1. /\ tracker' = [tracker EXCEPT ![p] = Resumed(t)] /\ p \in Mounted /\ ~page.hidden
        /\ UNCHANGED <<buffer, told, handle, batchTimer, page, seen>>
    BY <1>3 DEF ComesIntoView
  <2>2. tracker[p] \in Trackers
    BY <2>1, CountsKept
  <2>3. t \in Trackers /\ t.visible /\ Held(t) = Held(tracker[p])
    <3>1. tracker[p] \in Fields
      BY <2>2 DEF Trackers
    <3>2. /\ t \in Fields /\ t.visible = TRUE /\ t.total = tracker[p].total
          /\ t.reported = tracker[p].reported /\ t.since = tracker[p].since
      BY <3>1 DEF Fields
    <3> HIDE DEF t
    <3>3. t \in Trackers
      BY <3>2, <2>2 DEF Trackers
    <3>. QED  BY <3>2, <3>3, <2>2, TrackerFacts
  <2> HIDE DEF t
  <2>4. Resumed(t) \in Trackers /\ Resumed(t).visible /\ Held(Resumed(t)) = Held(tracker[p])
    BY <2>3, ResumedFacts
  <2>5. ASSUME NEW q \in Posts
        PROVE  Counts(tracker'[q], buffer[q], told[q], seen'[q], page'.hidden)
    <3>1. CASE q = p
      <4>1. tracker'[q] = Resumed(t)
        BY <3>1, <2>1, <1>a
      <4>. QED  BY <4>1, <3>1, <2>1, <2>4, <1>b DEF Counts
    <3>2. CASE q # p
      <4>1. tracker'[q] = tracker[q]
        BY <3>2, <2>1, <1>a
      <4>. QED  BY <4>1, <2>1, <1>b
    <3>. QED  BY <3>1, <3>2
  <2>. QED  BY <2>1, <2>5, <1>a, Undisturbed
<1>4. ASSUME NEW p \in Posts, GoesOutOfView(p) PROVE DwellIInv'
  <2> DEFINE t == [Paused(tracker[p]) EXCEPT !.visible = FALSE]
             d == t.dismissed \/ (ScrolledPast(t) /\ Connected(TRUE))
             n == [t EXCEPT !.dismissed = @ \/ (ScrolledPast(t) /\ Connected(TRUE))]
  <2>1. /\ tracker' = [tracker EXCEPT ![p] = n] /\ p \in Mounted
        /\ UNCHANGED <<told, page, seen>>
        /\ buffer' = BufferWith({p}) /\ ScheduleBatchSend({p})
    BY <1>4 DEF GoesOutOfView
  <2>2. tracker[p] \in Trackers
    BY <2>1, CountsKept
  <2>3. Paused(tracker[p]) \in Trackers /\ Paused(tracker[p]).since = Off
    BY <2>2, PausedFacts
  <2>4. AsPaused(n, tracker[p])
    <3> DEFINE r == Paused(tracker[p])
    <3> HIDE DEF r
    <3>1. r \in Fields /\ r.reported <= r.total /\ r.since = Off
      BY <2>3 DEF Trackers, r
    <3>2. /\ [r EXCEPT !.visible = FALSE] \in Fields
          /\ [r EXCEPT !.visible = FALSE].total = r.total
          /\ [r EXCEPT !.visible = FALSE].reported = r.reported
          /\ [r EXCEPT !.visible = FALSE].since = Off
      BY <3>1 DEF Fields
    <3>3. t = [r EXCEPT !.visible = FALSE]
      BY DEF r
    <3>4. t \in Fields /\ t.total = r.total /\ t.reported = r.reported /\ t.since = Off
      BY <3>2, <3>3
    <3> HIDE DEF t
    <3>5. /\ n \in Fields /\ n.total = t.total /\ n.reported = t.reported /\ n.since = t.since
      BY <3>4 DEF Fields
    <3> HIDE DEF n
    <3>6. n \in Trackers /\ n.since = Off
      BY <3>1, <3>4, <3>5 DEF Trackers
    <3>7. Held(n) = n.total - n.reported + 0 /\ Held(r) = r.total - r.reported + 0
      BY <3>6, <3>1, <2>3, TrackerFacts DEF r
    <3>. QED  BY <3>4, <3>5, <3>6, <3>7 DEF AsPaused, r
  <2> HIDE DEF n
  <2>5. /\ tracker' = [q \in Posts |-> tracker'[q]] /\ tracker'[p] = n
        /\ \A q \in Posts \ {p} : tracker'[q] = tracker[q]
    BY <2>1, <1>a
  <2>6. \A q \in Posts \ {p} : tracker[q] # Gone /\ tracker[q].since # Off => ~page'.hidden
    BY <2>1, <1>b DEF Counts
  <2>7. {p} \in SUBSET Mounted
    BY <2>1
  <2>8. \A q \in {p} : AsPaused(tracker'[q], tracker[q])
    BY <2>4, <2>5
  <2>. QED  BY <2>1, <2>5, <2>6, <2>7, <2>8, <1>a, PausesToBatch
<1>5. ASSUME NEW p \in Posts, DismissesPicker(p) PROVE DwellIInv'
  <2>1. /\ tracker' = [tracker EXCEPT ![p].suppress = TRUE] /\ p \in Mounted
        /\ UNCHANGED <<buffer, told, handle, batchTimer, page, seen>>
    BY <1>5 DEF DismissesPicker
  <2>. QED  BY <2>1, <1>a, Suppressed
<1>6. ASSUME NEW p \in Posts, ClicksPost(p) PROVE DwellIInv'
  <2>1. CASE tracker[p].suppress
    <3>1. /\ tracker' = [tracker EXCEPT ![p].suppress = FALSE] /\ p \in Mounted
          /\ UNCHANGED <<buffer, told, handle, batchTimer, page, seen>>
      BY <1>6, <2>1 DEF ClicksPost
    <3>. QED  BY <3>1, <1>a, Suppressed
  <2>2. CASE ~tracker[p].suppress
    <3>1. Flush /\ UNCHANGED <<page, seen>>
      BY <1>6, <2>2 DEF ClicksPost
    <3>. QED  BY <3>1, <1>a, Flushes
  <2>. QED  BY <2>1, <2>2
<1>7. CASE HidesPage
  <2> DEFINE V == {p \in Mounted : tracker[p].visible}
  <2>1. /\ page' = [page EXCEPT !.hidden = TRUE] /\ UNCHANGED <<told, seen>>
        /\ tracker' = TrackersWith(V, [p \in V |-> Paused(tracker[p])])
        /\ buffer' = BufferWith(V) /\ ScheduleBatchSend(V)
    BY <1>7 DEF HidesPage
  <2>2. V \in SUBSET Mounted /\ V \subseteq Posts
    BY DEF Mounted
  <2>3. \A p \in V : tracker'[p] = Paused(tracker[p]) /\ tracker[p] \in Trackers
    BY <2>1, <2>2, CountsKept DEF TrackersWith
  <2>4. \A p \in V : AsPaused(tracker'[p], tracker[p])
    BY <2>3, PausedIsPaused
  <2>5. ASSUME NEW p \in Posts \ V
        PROVE  /\ tracker'[p] = tracker[p]
               /\ tracker[p] # Gone /\ tracker[p].since # Off => ~page'.hidden
    <3>1. tracker'[p] = tracker[p]
      BY <2>1 DEF TrackersWith
    <3>2. tracker[p] # Gone => p \in Mounted
      BY CountsKept
    <3>3. tracker[p] # Gone => ~tracker[p].visible
      BY <3>2
    <3>4. tracker[p] # Gone /\ tracker[p].since # Off => tracker[p].visible
      BY <1>b DEF Counts
    <3>. QED  BY <3>1, <3>3, <3>4
  <2>6. page' \in [hidden : BOOLEAN, online : BOOLEAN, loading : BOOLEAN]
    BY <2>1, <1>a
  <2>7. tracker' = [p \in Posts |-> tracker'[p]]
    BY <2>1 DEF TrackersWith
  <2> HIDE DEF V
  <2>. QED  BY <2>1, <2>2, <2>4, <2>5, <2>6, <2>7, PausesToBatch
<1>8. CASE ShowsPage
  <2> DEFINE V == {p \in Mounted : tracker[p].visible}
  <2>1. /\ page' = [page EXCEPT !.hidden = FALSE]
        /\ UNCHANGED <<buffer, told, handle, batchTimer, seen>>
        /\ tracker' = TrackersWith(V, [p \in V |-> Resumed(tracker[p])])
    BY <1>8 DEF ShowsPage
  <2>2. page' \in [hidden : BOOLEAN, online : BOOLEAN, loading : BOOLEAN] /\ ~page'.hidden
    BY <2>1, <1>a
  <2>3. ASSUME NEW p \in Posts
        PROVE  Counts(tracker'[p], buffer[p], told[p], seen'[p], page'.hidden)
    <3>1. CASE p \in V
      <4>1. tracker'[p] = Resumed(tracker[p])
        BY <3>1, <2>1 DEF TrackersWith
      <4>2. tracker[p] \in Trackers /\ tracker[p].visible
        BY <3>1, CountsKept
      <4>3. Resumed(tracker[p]) \in Trackers /\ Resumed(tracker[p]).visible
            /\ Held(Resumed(tracker[p])) = Held(tracker[p])
        BY <4>2, ResumedFacts
      <4>. QED  BY <4>1, <4>3, <2>1, <2>2, <1>b DEF Counts
    <3>2. CASE p \notin V
      <4>1. tracker'[p] = tracker[p]
        BY <3>2, <2>1 DEF TrackersWith
      <4>. QED  BY <4>1, <2>1, <2>2, <1>b DEF Counts
    <3>. QED  BY <3>1, <3>2
  <2>4. tracker' = [p \in Posts |-> tracker'[p]]
    BY <2>1 DEF TrackersWith
  <2>. QED  BY <2>1, <2>2, <2>3, <2>4, <1>a, Undisturbed
<1>9. CASE TimePasses
  <2> DEFINE R == {p \in Mounted : tracker[p].since # Off}
  <2>1. /\ seen' = [p \in Posts |-> seen[p] + IF Watched(p) THEN 1 ELSE 0]
        /\ tracker' = TrackersWith(R, [p \in R |-> [tracker[p] EXCEPT !.since = @ + 1]])
        /\ UNCHANGED <<buffer, told, handle, batchTimer, page>>
    BY <1>9 DEF TimePasses
  <2>2. ASSUME NEW p \in Posts
        PROVE  Counts(tracker'[p], buffer[p], told[p], seen'[p], page'.hidden)
    <3>0. Counts(tracker[p], buffer[p], told[p], seen[p], page.hidden) /\ seen[p] \in Nat
      BY CountsKept
    <3>1. CASE p \in R
      <4>1. tracker[p] \in Trackers /\ tracker[p].since \in Nat
        BY <3>1, CountsKept, TrackerFacts
      <4>2. tracker[p].visible /\ ~page.hidden
        BY <3>0, <3>1, <4>1, TrackerFacts DEF Counts
      <4>3. seen'[p] = seen[p] + 1
        BY <2>1, <3>1, <4>2 DEF Watched
      <4> DEFINE n == [tracker[p] EXCEPT !.since = @ + 1]
      <4>4. tracker'[p] = n
        BY <2>1, <3>1 DEF TrackersWith
      <4>5. tracker[p] \in Fields
        BY <4>1 DEF Trackers
      <4>6. /\ n \in Fields /\ n.since = tracker[p].since + 1 /\ n.total = tracker[p].total
            /\ n.reported = tracker[p].reported /\ n.visible = tracker[p].visible
        BY <4>5, <4>1, AgedFields
      <4> HIDE DEF n
      <4>7. n \in Trackers
        BY <4>6, <4>1 DEF Trackers
      <4>8. n.since # Off /\ n.since = tracker[p].since + 1
        BY <4>6, <4>1 DEF Off
      <4>9. Held(n) = n.total - n.reported + n.since
            /\ Held(tracker[p]) = tracker[p].total - tracker[p].reported + tracker[p].since
        BY <4>1, <4>7, <4>8, <3>1, TrackerFacts
      <4>10. Held(n) = Held(tracker[p]) + 1 /\ Held(tracker[p]) \in Nat
        <5>1. tracker[p].total \in Nat /\ tracker[p].reported \in Nat
              /\ Held(tracker[p]) \in Nat
          BY <4>1, TrackerFacts
        <5>. QED  BY <5>1, <4>1, <4>6, <4>9
      <4>. QED  BY <3>0, <4>2, <4>3, <4>4, <4>6, <4>7, <4>10, <2>1 DEF Counts
    <3>2. CASE p \notin R
      <4>1. tracker'[p] = tracker[p]
        BY <3>2, <2>1 DEF TrackersWith
      <4>2. seen'[p] \in Nat /\ seen[p] <= seen'[p]
        BY <2>1, <3>0
      <4>3. Held(tracker[p]) \in Nat
        BY <3>0, HeldType DEF Counts
      <4>. QED  BY <3>0, <4>1, <4>2, <4>3, <2>1 DEF Counts
    <3>. QED  BY <3>1, <3>2
  <2>3. tracker' = [p \in Posts |-> tracker'[p]] /\ seen' = [p \in Posts |-> seen'[p]]
    BY <2>1 DEF TrackersWith
  <2>. QED  BY <2>1, <2>2, <2>3, <1>a, Undisturbed
<1>10. CASE SocketTurns
  <2>1. /\ page' = [page EXCEPT !.online = ~@]
        /\ UNCHANGED <<tracker, buffer, told, handle, batchTimer, seen>>
    BY <1>10 DEF SocketTurns
  <2>2. page' \in [hidden : BOOLEAN, online : BOOLEAN, loading : BOOLEAN]
        /\ page'.hidden = page.hidden
    BY <2>1, <1>a
  <2>. QED  BY <2>1, <2>2, <1>a, <1>b, Undisturbed
<1>11. CASE BatchFires
  <2>1. /\ told' = Told(buffer, Connected(batchTimer.live)) /\ buffer' = [p \in Posts |-> 0]
        /\ batchTimer' = NoTimer /\ handle' = FALSE /\ UNCHANGED <<tracker, page, seen>>
    BY <1>11 DEF BatchFires
  <2>2. ASSUME NEW p \in Posts
        PROVE  Counts(tracker'[p], buffer'[p], told'[p], seen'[p], page'.hidden) /\ buffer'[p] = 0
    <3>1. told'[p] \in {told[p], told[p] + buffer[p]} /\ buffer'[p] = 0
      BY <2>1 DEF Told
    <3>2. Held(tracker[p]) \in Nat /\ buffer[p] \in Nat /\ told[p] \in Nat
      BY <1>b, HeldType DEF Counts
    <3>. QED  BY <2>1, <3>1, <3>2, <1>b DEF Counts
  <2>3. AllCount' /\ HandleIsTimer'
    BY <2>1, <2>2 DEF AllCount, HandleIsTimer
  <2>4. DwellTypes'
    <3>1. told' = [p \in Posts |-> told'[p]] /\ buffer' = [p \in Posts |-> buffer'[p]]
      BY <2>1, <1>0 DEF Told, DwellTypes
    <3>. QED  BY <2>1, <3>1, <1>0 DEF DwellTypes
  <2>. QED  BY <2>3, <2>4 DEF DwellIInv
<1>12. CASE OpensElsewhere
  <2>1. UNCHANGED <<tracker, buffer, told, handle, batchTimer, seen, page>>
    BY <1>12 DEF OpensElsewhere
  <2>. QED  BY <2>1, <1>a, <1>b, Undisturbed
<1>13. CASE NavigationStarts
  <2>1. page' = [page EXCEPT !.loading = TRUE] /\ seen' = seen
    BY <1>13 DEF NavigationStarts
  <2>2. page' \in [hidden : BOOLEAN, online : BOOLEAN, loading : BOOLEAN]
        /\ page'.hidden = page.hidden
    BY <2>1, <1>a
  <2>3. CASE Flush
    BY <2>1, <2>2, <2>3, Flushes
  <2>4. CASE UNCHANGED <<tracker, buffer, handle, batchTimer, told>>
    BY <2>1, <2>2, <2>4, <1>a, <1>b, Undisturbed
  <2>. QED  BY <2>3, <2>4, <1>13 DEF NavigationStarts
<1>14. CASE NavigationEnds
  <2>1. page' = [page EXCEPT !.loading = FALSE] /\ seen' = seen
    BY <1>14 DEF NavigationEnds
  <2>2. page' \in [hidden : BOOLEAN, online : BOOLEAN, loading : BOOLEAN]
        /\ page'.hidden = page.hidden
    BY <2>1, <1>a
  <2>3. PICK D \in {{}, Mounted}, attached \in BOOLEAN : Destroyed(D, attached)
    BY <1>14 DEF NavigationEnds
  <2>. QED  BY <2>1, <2>2, <2>3, Removes
<1>15. CASE UNCHANGED dwellVars
  <2>1. UNCHANGED <<tracker, buffer, told, handle, batchTimer, seen, page>>
    BY <1>15 DEF dwellVars
  <2>. QED  BY <2>1, <1>a, <1>b, Undisturbed
<1>. QED  BY <1>1, <1>2, <1>3, <1>4, <1>5, <1>6, <1>7, <1>8, <1>9, <1>10, <1>11, <1>12, <1>13,
             <1>14, <1>15 DEF DwellNext

\* For any posts and any times: a hook measures only what can be seen, and what
\* is queued has a timer to send it (resumeTracking, queueDwellPayload,
\* scheduleBatchSend).
THEOREM DwellInvariance == DwellSpec => []DwellIInv
  BY DwellBegins, DwellGoesOn, PTL DEF DwellSpec

\* The time told to the server is no longer than the post was seen, nothing is
\* reported twice, and a queue that is not empty is sent: over hidden pages,
\* hooks that come and go, and navigations (pauseTracking, bufferDwellData,
\* flushDwellBatchBeforeNavigation, destroyed).
THEOREM TimeIsReported == DwellSpec => []DwellReported
<1>1. DwellIInv => DwellReported
  <2> SUFFICES ASSUME DwellIInv PROVE DwellReported
    OBVIOUS
  <2>1. ASSUME NEW p \in Posts PROVE told[p] + buffer[p] + Held(tracker[p]) <= seen[p]
    BY <2>1, CountsKept DEF Counts
  <2>2. DwellCountedOnce
    BY <2>1 DEF DwellCountedOnce, Held
  <2>3. BatchIsTimed
    BY DEF DwellIInv, HandleIsTimer, BatchIsTimed
  <2>. QED  BY <2>2, <2>3 DEF DwellReported
<1>. QED  BY <1>1, DwellInvariance, PTL

-----------------------------------------------------------------------------
(* NotificationMarks: What was seen is marked read *)

\* The cards, what is queued, on its way and reported keep their types.
MarkTypes ==
    /\ unread \in [Cards -> SUBSET Ids] /\ shownIds \in [Cards -> SUBSET Ids]
    /\ asUnread \subseteq Cards
    /\ pushes \in Seq(SUBSET Ids)
    /\ reported \in Seq(Ids) /\ pending \in Seq(Ids)
    /\ marking \in BOOLEAN /\ lost \in BOOLEAN

\* It is its own strengthening: what was queued is marked, once, and what the
\* server still holds as unread was reported and is on its way.
MarkIInv == MarkTypes /\ SeenIsReported /\ ReportedOnce

LEMMA MarkBegins == MarkInit => MarkIInv
<1> SUFFICES ASSUME MarkInit PROVE MarkIInv
  OBVIOUS
<1>1. MarkTypes
  <2>1. unread \in [Cards -> SUBSET Ids] /\ shownIds \in [Cards -> SUBSET Ids] /\ asUnread \subseteq Cards
    BY DEF MarkInit
  <2>2. pushes \in Seq(SUBSET Ids) /\ reported \in Seq(Ids) /\ pending \in Seq(Ids)
    BY DEF MarkInit
  <2>3. marking \in BOOLEAN /\ lost \in BOOLEAN
    BY DEF MarkInit
  <2>. QED  BY <2>1, <2>2, <2>3 DEF MarkTypes
<1>2. reported = <<>> /\ pending = <<>> /\ reported \o pending = <<>> /\ ToSet(<<>>) = {}
  BY DEF MarkInit, ToSet
<1>3. SeenIsReported
  BY <1>2 DEF MarkInit, SeenIsReported
<1>4. ReportedOnce
  BY <1>2 DEF MarkInit, ReportedOnce, IsInjective
<1>. QED  BY <1>1, <1>3, <1>4 DEF MarkIInv

\* A patch shows the page what is unread and leaves the timer alone.
LEMMA PatchedTypes ==
  ASSUME MarkTypes, NEW us \in [Cards -> SUBSET Ids], NEW on, CardsPatched(us, on)
  PROVE  /\ shownIds' \in [Cards -> SUBSET Ids] /\ asUnread' \subseteq Cards
         /\ marking' = marking
  BY DEF MarkTypes, CardsPatched, TimerKept

LEMMA MarkGoesOn == MarkIInv /\ [MarkNext]_markVars => MarkIInv'
<1> SUFFICES ASSUME MarkIInv, [MarkNext]_markVars PROVE MarkIInv'
  OBVIOUS
<1>0. MarkTypes /\ SeenIsReported /\ ReportedOnce
  BY DEF MarkIInv
<1>t. /\ unread \in [Cards -> SUBSET Ids] /\ shownIds \in [Cards -> SUBSET Ids]
      /\ asUnread \subseteq Cards /\ pushes \in Seq(SUBSET Ids)
      /\ reported \in Seq(Ids) /\ pending \in Seq(Ids)
      /\ marking \in BOOLEAN /\ lost \in BOOLEAN
  BY <1>0 DEF MarkTypes
<1>e. ToSet(<<>>) = {}
  BY DEF ToSet
\* A step that neither queues nor reports.
<1>r. ASSUME UNCHANGED <<reported, pending, marked, marking>>, MarkTypes', ReportedOnce'
      PROVE  MarkIInv'
  BY <1>0, <1>r DEF MarkIInv, SeenIsReported
<1>1. ASSUME NEW c \in Cards, NEW id \in Ids, Arrives(c, id) PROVE MarkIInv'
  <2>1. /\ unread' = [unread EXCEPT ![c] = @ \cup {id}] /\ id \notin ToSet(reported)
        /\ CardsPatched(unread', auto) /\ UNCHANGED <<pushes, marked, pending, reported, lost>>
    BY <1>1 DEF Arrives
  <2>2. unread' \in [Cards -> SUBSET Ids]
    BY <2>1, <1>t
  <2>3. marking' = marking /\ MarkTypes'
    BY <2>1, <2>2, <1>0, <1>t, PatchedTypes DEF MarkTypes
  <2>4. \A d \in Cards : unread'[d] \cap ToSet(reported) = unread[d] \cap ToSet(reported)
    BY <2>1, <1>t
  <2>5. ReportedOnce'
    BY <2>1, <2>4, <1>0 DEF ReportedOnce
  <2>. QED  BY <2>1, <2>3, <2>5, <1>r
<1>2. CASE Rerenders
  <2>1. (\E on \in BOOLEAN : CardsPatched(unread, on))
        /\ UNCHANGED <<unread, pushes, marked, pending, reported, lost>>
    BY <1>2 DEF Rerenders
  <2>2. marking' = marking /\ MarkTypes'
    BY <2>1, <1>0, <1>t, PatchedTypes DEF MarkTypes
  <2>3. ReportedOnce'
    BY <2>1, <1>0 DEF ReportedOnce
  <2>. QED  BY <2>1, <2>2, <2>3, <1>r
<1>3. ASSUME NEW c \in Cards, Scrolls(c) PROVE MarkIInv'
  <2>1. UNCHANGED <<unread, pushes, shownIds, asUnread, marked, pending, marking, reported, lost>>
    BY <1>3 DEF Scrolls
  <2>. QED  BY <2>1, <1>0 DEF MarkIInv, MarkTypes, SeenIsReported, ReportedOnce
<1>4. CASE Seen
  <2> DEFINE cards == due \cap inView \cap asUnread
             ids == Fresh(UNION {shownIds[c] : c \in cards})
             more == SetToSeq(ids)
  <2>1. /\ marked' = marked \cup ids /\ pending' = pending \o more
        /\ asUnread' \subseteq asUnread /\ marking' = (marking \/ pending' # <<>>)
        /\ UNCHANGED <<unread, pushes, shownIds, reported, lost>>
    BY <1>4 DEF Seen
  <2>2. ids \subseteq Ids /\ ids \cap marked = {}
    <3>1. \A c \in cards : shownIds[c] \subseteq Ids
      BY <1>t
    <3>. QED  BY <3>1 DEF Fresh
  <2> HIDE DEF ids
  <2>3. IsFiniteSet(ids)
    BY <2>2, IdsAssumption, FS_Subset
  <2>4. more \in Seq(ids) /\ IsInjective(more) /\ ToSet(more) = ids
    BY <2>3, SetAsSequence
  <2> HIDE DEF more
  <2>5. more \in Seq(Ids)
    BY <2>2, <2>4
  <2>6. pending' \in Seq(Ids) /\ ToSet(pending') = ToSet(pending) \cup ids
    BY <2>1, <2>4, <2>5, <1>t, SetOfConcat
  <2>7. reported \o pending' = (reported \o pending) \o more
    BY <2>1, <2>5, <1>t, ConcatAgain
  <2>8. /\ reported \o pending \in Seq(Ids) /\ IsInjective(reported \o pending)
        /\ ToSet(reported \o pending) = marked
    BY <1>0, <1>t, SetOfConcat DEF SeenIsReported, ReportedOnce
  <2>9. IsInjective(reported \o pending')
    BY <2>2, <2>4, <2>5, <2>7, <2>8, InjectiveConcat
  <2>10. SeenIsReported'
    BY <2>1, <2>6, <1>0 DEF SeenIsReported
  <2>11. ReportedOnce'
    BY <2>1, <2>9, <1>0 DEF ReportedOnce
  <2>12. MarkTypes'
    BY <2>1, <2>6, <1>t DEF MarkTypes
  <2>. QED  BY <2>10, <2>11, <2>12 DEF MarkIInv
<1>5. CASE MarkTimeout
  <2>1. /\ pending' = <<>> /\ reported' = reported \o pending /\ marking' = FALSE
        /\ pushes' = IF online THEN Append(pushes, ToSet(pending)) ELSE pushes
        /\ lost' = (lost \/ ~online)
        /\ UNCHANGED <<unread, shownIds, asUnread, marked>>
    BY <1>5 DEF MarkTimeout
  <2>2. ToSet(pending) \in SUBSET Ids
    BY <1>t DEF ToSet
  <2>3. reported' \in Seq(Ids) /\ pending' \in Seq(Ids) /\ reported' \o pending' = reported \o pending
    BY <2>1, <1>t
  <2>4. ToSet(reported') = ToSet(reported) \cup ToSet(pending) /\ ToSet(pending') = {}
    BY <2>1, <1>t, <1>e, SetOfConcat
  <2>5. SeenIsReported'
    BY <2>1, <2>4, <1>0 DEF SeenIsReported
  <2>6. ASSUME ~lost', NEW c \in Cards
        PROVE  unread'[c] \cap ToSet(reported') \subseteq UNION ToSet(pushes')
    <3>1. pushes' = Append(pushes, ToSet(pending)) /\ ~lost
      BY <2>1, <2>6
    <3>2. ToSet(pushes') = ToSet(pushes) \cup {ToSet(pending)}
      BY <3>1, <2>2, <1>t, SetOfAppend
    <3>. QED  BY <2>1, <2>4, <3>1, <3>2, <1>0 DEF ReportedOnce
  <2>7. ReportedOnce'
    BY <2>3, <2>6, <1>0 DEF ReportedOnce
  <2>8. pushes' \in Seq(SUBSET Ids) /\ lost' \in BOOLEAN
    BY <2>1, <2>2, <1>t
  <2>9. MarkTypes'
    BY <2>1, <2>3, <2>8, <1>t DEF MarkTypes
  <2>. QED  BY <2>5, <2>7, <2>9 DEF MarkIInv
<1>6. CASE MarkVisibleAsRead
  <2>1. /\ pushes # <<>> /\ pushes' = Tail(pushes)
        /\ unread' = [c \in Cards |-> unread[c] \ Head(pushes)]
        /\ CardsPatched(unread', auto) /\ UNCHANGED <<marked, pending, reported, lost>>
    BY <1>6 DEF MarkVisibleAsRead
  <2>2. unread' \in [Cards -> SUBSET Ids] /\ pushes' \in Seq(SUBSET Ids)
    BY <2>1, <1>t
  <2>3. marking' = marking /\ MarkTypes'
    BY <2>1, <2>2, <1>0, <1>t, PatchedTypes DEF MarkTypes
  <2>4. ToSet(pushes) = {Head(pushes)} \cup ToSet(pushes')
    BY <2>1, <1>t, SetOfTail
  <2>5. ReportedOnce'
    <3>1. ASSUME ~lost, NEW c \in Cards
          PROVE  unread'[c] \cap ToSet(reported) \subseteq UNION ToSet(pushes')
      <4>1. unread[c] \cap ToSet(reported) \subseteq UNION ToSet(pushes)
        BY <3>1, <1>0 DEF ReportedOnce
      <4>2. unread'[c] = unread[c] \ Head(pushes)
        BY <2>1
      <4>. QED  BY <4>1, <4>2, <2>4
    <3>. QED  BY <3>1, <2>1, <1>0 DEF ReportedOnce
  <2>. QED  BY <2>1, <2>3, <2>5, <1>r
<1>7. CASE Disconnects
  <2>1. /\ pushes' = <<>> /\ lost' = (lost \/ pushes # <<>>)
        /\ UNCHANGED <<unread, shownIds, asUnread, marked, pending, marking, reported>>
    BY <1>7 DEF Disconnects
  <2>2. MarkTypes'
    BY <2>1, <1>t DEF MarkTypes
  <2>3. ReportedOnce'
    BY <2>1, <1>0 DEF ReportedOnce
  <2>. QED  BY <2>1, <2>2, <2>3, <1>r
<1>8. CASE Rejoins
  <2>1. CardsPatched(unread, auto) /\ UNCHANGED <<unread, pushes, marked, pending, reported, lost>>
    BY <1>8 DEF Rejoins
  <2>2. marking' = marking /\ MarkTypes'
    BY <2>1, <1>0, <1>t, PatchedTypes DEF MarkTypes
  <2>3. ReportedOnce'
    BY <2>1, <1>0 DEF ReportedOnce
  <2>. QED  BY <2>1, <2>2, <2>3, <1>r
<1>9. CASE Revisits
  <2>1. /\ marking' = FALSE /\ marked' = {} /\ pending' = <<>> /\ reported' = <<>> /\ lost' = FALSE
        /\ shownIds' = unread /\ asUnread' \subseteq Cards /\ UNCHANGED <<unread, pushes>>
    BY <1>9 DEF Revisits
  <2>2. MarkTypes'
    <3>1. reported' \in Seq(Ids) /\ pending' \in Seq(Ids)
      BY <2>1
    <3>2. /\ unread' \in [Cards -> SUBSET Ids] /\ shownIds' \in [Cards -> SUBSET Ids]
          /\ pushes' \in Seq(SUBSET Ids)
      BY <2>1, <1>t
    <3>. QED  BY <2>1, <3>1, <3>2 DEF MarkTypes
  <2>3. SeenIsReported'
    BY <2>1, <1>e DEF SeenIsReported
  <2>4. ReportedOnce'
    <3>1. reported' \o pending' = <<>> /\ ToSet(reported') = {}
      BY <2>1, <1>e
    <3>. QED  BY <3>1 DEF ReportedOnce, IsInjective
  <2>. QED  BY <2>2, <2>3, <2>4 DEF MarkIInv
<1>10. CASE UNCHANGED markVars
  BY <1>10, <1>0 DEF markVars, MarkIInv, MarkTypes, SeenIsReported, ReportedOnce
<1>. QED  BY <1>1, <1>2, <1>3, <1>4, <1>5, <1>6, <1>7, <1>8, <1>9, <1>10 DEF MarkNext

\* For any cards and notifications: what the page marks is what it queued and
\* reported, and its timer runs while anything is queued (setupIntersectionObserver).
THEOREM MarkInvariance == MarkSpec => []MarkIInv
  BY MarkBegins, MarkGoesOn, PTL DEF MarkSpec

\* A notification that was seen is reported to the server, and reported once,
\* over patches, timers and lost connections (markTimeout, mark_visible_as_read).
THEOREM SeenOnce == MarkSpec => []MarksReported
<1>1. MarkIInv => MarksReported
  BY DEF MarkIInv, MarksReported
<1>. QED  BY <1>1, MarkInvariance, PTL

-----------------------------------------------------------------------------
(* FileExplorer: The selection of the drive *)

\* What the page asks of the server.
Events == {"set_selection", "toggle_select", "open", "drag_move_items", "select_visible",
           "bulk", "list"}

\* The list, the selection, and what is on its way between page and server.
FileTypes ==
    /\ files \in Seq(Tokens) /\ rows \in Seq(Tokens)
    /\ chosen \subseteq Tokens
    /\ calls \in Seq([event : Events, tokens : Seq(Tokens)])
    /\ patches \in Seq(Seq(Tokens))
    /\ active \in Int /\ anchor \in Int /\ anchor >= NoRow
    /\ dragging \in Seq(Tokens)
    /\ early \in BOOLEAN

\* What the selection of a call is made of.
Selects(c) == c.event \in {"set_selection", "toggle_select"}

\* For a user who waits there is one call or one patch on its way, the page
\* shows the list of the server unless a patch is, and a selection that is on
\* its way is of rows of that list.
Waited ==
    /\ calls # <<>> => calls = <<Head(calls)>> /\ patches = <<>>
    /\ calls # <<>> /\ Selects(Head(calls)) => ToSet(Head(calls).tokens) \subseteq ToSet(files)
    /\ IF patches = <<>> THEN rows = files ELSE patches = <<files>>

FileIInv == FileTypes /\ RangeReaches /\ (~early => Waited /\ chosen \subseteq ToSet(files))

-----------------------------------------------------------------------------
\* The larger and the smaller of two numbers (Math.max, Math.min).
LEMMA TwoBounds ==
  ASSUME NEW a \in Int, NEW b \in Int
  PROVE  /\ Max({a, b}) = IF a >= b THEN a ELSE b
         /\ Min({a, b}) = IF a <= b THEN a ELSE b
BY DEF Max, Min

\* A slice of a list is made of its elements, and holds those it is cut from.
LEMMA SliceFacts ==
  ASSUME NEW S, NEW s \in Seq(S), NEW m \in Int, NEW n \in Int, 1 <= m, n <= Len(s)
  PROVE  /\ SubSeq(s, m, n) \in Seq(S)
         /\ ToSet(SubSeq(s, m, n)) \subseteq ToSet(s)
         /\ \A i \in m .. n : s[i] \in ToSet(SubSeq(s, m, n))
<1> DEFINE t == SubSeq(s, m, n)
<1>1. CASE m <= n
  <2>1. /\ t \in Seq(S) /\ Len(t) = n - m + 1 /\ DOMAIN t = 1 .. n - m + 1
        /\ \A i \in 1 .. n - m + 1 : t[i] = s[m + i - 1]
    BY <1>1
  <2>2. DOMAIN s = 1 .. Len(s) /\ Len(s) \in Nat
    OBVIOUS
  <2> HIDE DEF t
  <2>3. \A i \in m .. n : i - m + 1 \in DOMAIN t /\ t[i - m + 1] = s[i]
    BY <2>1
  <2>4. \A i \in DOMAIN t : m + i - 1 \in DOMAIN s /\ t[i] = s[m + i - 1]
    BY <2>1, <2>2
  <2>5. \A i \in m .. n : s[i] \in ToSet(t)
    BY <2>3 DEF ToSet
  <2>6. ToSet(t) \subseteq ToSet(s)
    BY <2>4 DEF ToSet
  <2>. QED  BY <2>1, <2>5, <2>6 DEF t
<1>2. CASE ~(m <= n)
  <2>1. t = <<>>
    BY <1>2
  <2>2. ToSet(<<>>) = {} /\ <<>> \in Seq(S)
    BY DEF ToSet
  <2>3. m .. n = {}
    BY <1>2
  <2>. QED  BY <2>1, <2>2, <2>3
<1>. QED  BY <1>1, <1>2

\* One element as a list.
LEMMA OneRow ==
  ASSUME NEW S, NEW x \in S
  PROVE  <<x>> \in Seq(S) /\ ToSet(<<x>>) = {x}
BY DEF ToSet

LEMMA FileBegins == FileInit => FileIInv
<1> SUFFICES ASSUME FileInit PROVE FileIInv
  OBVIOUS
<1>1. files \in Seq(Tokens)
  BY SetAsSequence, TokensAssumption DEF FileInit
<1>2. <<>> \in Seq([event : Events, tokens : Seq(Tokens)])
      /\ <<>> \in Seq(Seq(Tokens)) /\ <<>> \in Seq(Tokens)
  OBVIOUS
<1>3. FileTypes
  <2>1. files \in Seq(Tokens) /\ rows \in Seq(Tokens) /\ chosen \subseteq Tokens
    BY <1>1 DEF FileInit
  <2>2. calls \in Seq([event : Events, tokens : Seq(Tokens)]) /\ patches \in Seq(Seq(Tokens))
        /\ dragging \in Seq(Tokens)
    BY <1>2 DEF FileInit
  <2>3. active \in Int /\ anchor \in Int /\ anchor >= NoRow
    BY DEF FileInit, NoRow
  <2>4. early \in BOOLEAN
    BY DEF FileInit
  <2>. QED  BY <2>1, <2>2, <2>3, <2>4 DEF FileTypes
<1>. QED  BY <1>3 DEF FileInit, FileIInv, RangeReaches, Waited

\* The active row is a row of the list (setActiveRow).
LEMMA BoundedFacts ==
  ASSUME FileTypes, NEW i \in Int, rows # <<>>
  PROVE  Bounded(i) \in 0 .. Len(rows) - 1
<1>1. Len(rows) \in Nat \ {0}
  BY DEF FileTypes
<1>2. Min({i, Len(rows) - 1}) = IF i <= Len(rows) - 1 THEN i ELSE Len(rows) - 1
  <2>1. Len(rows) - 1 \in Int
    BY <1>1
  <2>. QED  BY <2>1, TwoBounds, Zenon
<1> DEFINE m == Min({i, Len(rows) - 1})
<1>3. m \in Int /\ m <= Len(rows) - 1
  BY <1>1, <1>2
<1> HIDE DEF m
<1>4. Max({0, m}) = IF 0 >= m THEN 0 ELSE m
  BY <1>3, TwoBounds
<1>. QED  BY <1>1, <1>3, <1>4 DEF Bounded, m

\* The range from the anchor to a row is of rows of the list, that row among
\* them, though the list may end before the anchor (selectRangeTo).
LEMMA RangeFacts ==
  ASSUME FileTypes, NEW target \in 0 .. Len(rows) - 1
  PROVE  LET a == IF anchor = NoRow THEN target ELSE anchor
             tokens == Slice(Min({a, target}), Max({a, target}) + 1)
         IN  /\ tokens \in Seq(Tokens) /\ ToSet(tokens) \subseteq ToSet(rows)
             /\ target + 1 \in DOMAIN rows /\ rows[target + 1] \in ToSet(tokens)
<1> DEFINE a == IF anchor = NoRow THEN target ELSE anchor
           low == Min({a, target})
           high == Max({a, target}) + 1
           end == Min({high, Len(rows)})
<1>1. /\ rows \in Seq(Tokens) /\ Len(rows) \in Nat /\ target \in Nat /\ target < Len(rows)
      /\ DOMAIN rows = 1 .. Len(rows)
  BY DEF FileTypes
<1>2. a \in Nat
  BY <1>1 DEF FileTypes, NoRow
<1>3. low = (IF a <= target THEN a ELSE target) /\ high = (IF a >= target THEN a ELSE target) + 1
  BY <1>1, <1>2, TwoBounds
<1>4. low \in Nat /\ low <= target /\ high \in Nat /\ high >= target + 1
  BY <1>1, <1>2, <1>3
<1> HIDE DEF a, low, high
<1>5. end = IF high <= Len(rows) THEN high ELSE Len(rows)
  <2>1. high \in Int /\ Len(rows) \in Int
    BY <1>1, <1>4
  <2>. QED  BY <2>1, TwoBounds, Zenon
<1>6. end \in Nat /\ target + 1 <= end /\ end <= Len(rows)
  BY <1>1, <1>4, <1>5
<1> HIDE DEF end
<1>7. Slice(low, high) = SubSeq(rows, low + 1, end)
  <2>1. ~(low < 0)
    BY <1>4
  <2>. QED  BY <2>1, Zenon DEF Slice, end
<1>8. low + 1 \in Int /\ 1 <= low + 1 /\ end \in Int /\ target + 1 \in low + 1 .. end
  BY <1>1, <1>4, <1>6
<1>9. /\ SubSeq(rows, low + 1, end) \in Seq(Tokens)
      /\ ToSet(SubSeq(rows, low + 1, end)) \subseteq ToSet(rows)
      /\ \A i \in low + 1 .. end : rows[i] \in ToSet(SubSeq(rows, low + 1, end))
  BY <1>1, <1>6, <1>8, SliceFacts
<1>10. rows[target + 1] \in ToSet(Slice(low, high))
  BY <1>7, <1>8, <1>9
<1>11. target + 1 \in DOMAIN rows
  BY <1>1
<1>12. Slice(low, high) \in Seq(Tokens) /\ ToSet(Slice(low, high)) \subseteq ToSet(rows)
  BY <1>7, <1>9
<1>. QED  BY <1>10, <1>11, <1>12, Zenon DEF a, low, high

\* A call on its way: its fields, and a lone one after a user who waited.
LEMMA PushFacts ==
  ASSUME FileTypes, NEW event \in Events, NEW tokens \in Seq(Tokens), Push(event, tokens)
  PROVE  /\ calls' \in Seq([event : Events, tokens : Seq(Tokens)])
         /\ calls = <<>> => /\ calls' # <<>> /\ calls' = <<Head(calls')>>
                            /\ Head(calls').event = event /\ Head(calls').tokens = tokens
<1> DEFINE c == [event |-> event, tokens |-> tokens]
<1>1. c \in [event : Events, tokens : Seq(Tokens)] /\ c.event = event /\ c.tokens = tokens
  OBVIOUS
<1>2. calls' = Append(calls, c)
  BY DEF Push
<1> HIDE DEF c
<1>3. calls' \in Seq([event : Events, tokens : Seq(Tokens)])
  BY <1>1, <1>2 DEF FileTypes
<1>4. calls = <<>> => calls' = <<c>> /\ Head(calls') = c
  BY <1>2
<1>. QED  BY <1>1, <1>3, <1>4

\* What a gesture may do: it leaves the list alone, and the selection it sends
\* is of rows of the page.
Gestured ==
    /\ early' = (early \/ calls # <<>> \/ patches # <<>>)
    /\ UNCHANGED <<files, chosen, patches, rows>>
    /\ \/ UNCHANGED calls
       \/ \E event \in Events, tokens \in Seq(Tokens) :
             /\ Push(event, tokens)
             /\ event \in {"set_selection", "toggle_select"} => ToSet(tokens) \subseteq ToSet(rows)
    /\ active' \in Int /\ anchor' \in Int /\ anchor' >= NoRow /\ dragging' \in Seq(Tokens)
    /\ RangeReaches'

\* A user who waits has the list of the server on the page.
LEMMA GestureKeeps ==
  ASSUME FileIInv, Gestured
  PROVE  FileIInv'
<1>1. calls' \in Seq([event : Events, tokens : Seq(Tokens)])
  <2>1. CASE UNCHANGED calls
    BY <2>1 DEF FileIInv, FileTypes
  <2>2. CASE \E event \in Events, tokens \in Seq(Tokens) : Push(event, tokens)
    BY <2>2, PushFacts DEF FileIInv
  <2>. QED  BY <2>1, <2>2 DEF Gestured
<1>2. FileTypes'
  BY <1>1 DEF Gestured, FileIInv, FileTypes
<1>3. ASSUME ~early'
      PROVE  Waited' /\ chosen' \subseteq ToSet(files')
  <2>1. ~early /\ calls = <<>> /\ patches = <<>>
    BY <1>3 DEF Gestured
  <2>2. rows = files /\ chosen \subseteq ToSet(files)
    BY <2>1 DEF FileIInv, Waited
  <2>3. UNCHANGED <<files, chosen, patches, rows>>
    BY DEF Gestured
  <2>4. chosen' \subseteq ToSet(files') /\ patches' = <<>> /\ rows' = files' /\ files' = files
    BY <2>1, <2>2, <2>3
  <2>5. CASE UNCHANGED calls
    BY <2>1, <2>4, <2>5 DEF Waited
  <2>6. CASE \E event \in Events, tokens \in Seq(Tokens) :
                /\ Push(event, tokens)
                /\ event \in {"set_selection", "toggle_select"} => ToSet(tokens) \subseteq ToSet(rows)
    <3>1. PICK event \in Events, tokens \in Seq(Tokens) :
                /\ Push(event, tokens)
                /\ event \in {"set_selection", "toggle_select"} => ToSet(tokens) \subseteq ToSet(rows)
      BY <2>6
    <3>2. /\ calls' # <<>> /\ calls' = <<Head(calls')>>
          /\ Head(calls').event = event /\ Head(calls').tokens = tokens
      BY <2>1, <3>1, PushFacts DEF FileIInv
    <3>3. Selects(Head(calls'))  => ToSet(Head(calls').tokens) \subseteq ToSet(files')
      BY <2>2, <2>4, <3>1, <3>2 DEF Selects
    <3>. QED  BY <2>4, <3>2, <3>3 DEF Waited, Selects
  <2>. QED  BY <2>4, <2>5, <2>6 DEF Gestured
<1>. QED  BY <1>2, <1>3 DEF FileIInv, Gestured

\* A row that is touched.
LEMMA RowFacts ==
  ASSUME FileTypes, NEW i \in Indices
  PROVE  /\ i \in Nat /\ rows # <<>> /\ Row(i) \in Tokens /\ Row(i) \in ToSet(rows)
         /\ <<Row(i)>> \in Seq(Tokens) /\ ToSet(<<Row(i)>>) \subseteq ToSet(rows)
<1>1. rows \in Seq(Tokens) /\ Len(rows) \in Nat /\ DOMAIN rows = 1 .. Len(rows)
  BY DEF FileTypes
<1>2. i \in Nat /\ i + 1 \in DOMAIN rows
  BY <1>1 DEF Indices
<1>3. Row(i) \in Tokens /\ Row(i) \in ToSet(rows) /\ rows # <<>>
  BY <1>1, <1>2 DEF Row, ToSet
<1>. QED  BY <1>2, <1>3, OneRow

\* A click, Ctrl with a click, and a drag.
LEMMA ClicksAreGestures ==
  ASSUME FileIInv, NEW i \in Indices, ClickRow(i) \/ ToggleRow(i) \/ DragStart(i)
  PROVE  Gestured
<1>1. FileTypes /\ RangeReaches
  BY DEF FileIInv
<1>2. /\ i \in Nat /\ rows # <<>> /\ Row(i) \in Tokens /\ Row(i) \in ToSet(rows)
      /\ <<Row(i)>> \in Seq(Tokens) /\ ToSet(<<Row(i)>>) \subseteq ToSet(rows)
  BY <1>1, RowFacts
<1>3. Bounded(i) \in Int
  BY <1>1, <1>2, BoundedFacts
<1> DEFINE row == <<Row(i)>>
<1>4. row \in Seq(Tokens) /\ ToSet(row) \subseteq ToSet(rows)
  BY <1>2
<1>5. CASE ClickRow(i) \/ ToggleRow(i)
  <2>1. Push("set_selection", row) \/ Push("toggle_select", row)
    BY <1>5 DEF ClickRow, ToggleRow
  <2>2. /\ UNCHANGED <<files, chosen, patches, rows, dragging, range>>
        /\ active' = Bounded(i) /\ anchor' = i /\ Gesture
    BY <1>5 DEF ClickRow, ToggleRow
  <2> HIDE DEF row
  <2>3. \E event \in Events, tokens \in Seq(Tokens) :
             /\ Push(event, tokens)
             /\ event \in {"set_selection", "toggle_select"} => ToSet(tokens) \subseteq ToSet(rows)
    <3>1. "set_selection" \in Events /\ "toggle_select" \in Events
      BY DEF Events
    <3>. QED  BY <1>4, <2>1, <3>1, Zenon
  <2>4. RangeReaches'
    BY <1>1, <2>2 DEF RangeReaches
  <2>5. anchor' \in Int /\ anchor' >= NoRow /\ active' \in Int
    BY <1>2, <1>3, <2>2 DEF NoRow
  <2>6. dragging' \in Seq(Tokens)
    BY <1>1, <2>2 DEF FileTypes
  <2>. QED  BY <2>2, <2>3, <2>4, <2>5, <2>6 DEF Gestured, Gesture
<1>6. CASE DragStart(i)
  <2>1. UNCHANGED <<files, chosen, calls, patches, rows, active, anchor, range>> /\ Gesture
    BY <1>6 DEF DragStart
  <2>2. dragging' \in Seq(Tokens)
    BY <1>4, <1>6 DEF DragStart
  <2>3. RangeReaches'
    BY <1>1, <2>1 DEF RangeReaches
  <2>4. active' \in Int /\ anchor' \in Int /\ anchor' >= NoRow
    BY <1>1, <2>1 DEF FileTypes
  <2>. QED  BY <2>1, <2>2, <2>3, <2>4 DEF Gestured, Gesture
<1>. QED  BY <1>5, <1>6

\* The arrows, Home and End, and what extends a range.
LEMMA MovesAreGestures ==
  ASSUME FileIInv, NEW i \in Int, ShiftTo(i) \/ MoveTo(i)
  PROVE  Gestured
<1>1. FileTypes /\ RangeReaches
  BY DEF FileIInv
<1>2. rows # <<>> /\ active' = Bounded(i)
  BY DEF ShiftTo, MoveTo
<1>3. Bounded(i) \in 0 .. Len(rows) - 1 /\ Bounded(i) \in Int
  BY <1>1, <1>2, BoundedFacts DEF FileTypes
<1>4. CASE ShiftTo(i)
  <2> DEFINE target == Bounded(i)
             a == IF anchor = NoRow THEN target ELSE anchor
             cut == Slice(Min({a, target}), Max({a, target}) + 1)
  <2>1. /\ cut \in Seq(Tokens) /\ ToSet(cut) \subseteq ToSet(rows)
        /\ target + 1 \in DOMAIN rows /\ rows[target + 1] \in ToSet(cut)
    BY <1>1, <1>3, RangeFacts
  <2>2. /\ range' = [tokens |-> cut, reach |-> rows[target + 1]]
        /\ Push("set_selection", cut)
    BY <1>2, <1>4, <2>1 DEF ShiftTo, SelectRangeTo
  <2>3. UNCHANGED <<files, chosen, patches, rows, anchor, dragging>> /\ Gesture
    BY <1>4 DEF ShiftTo
  <2> HIDE DEF target, a, cut
  <2>4. range'.tokens = cut /\ range'.reach = rows[target + 1]
    BY <2>2
  <2>5. RangeReaches'
    BY <2>1, <2>4 DEF RangeReaches
  <2>6. \E event \in Events, tokens \in Seq(Tokens) :
             /\ Push(event, tokens)
             /\ event \in {"set_selection", "toggle_select"} => ToSet(tokens) \subseteq ToSet(rows)
    <3>1. "set_selection" \in Events
      BY DEF Events
    <3>. QED  BY <2>1, <2>2, <3>1, Zenon
  <2>7. active' \in Int /\ anchor' \in Int /\ anchor' >= NoRow /\ dragging' \in Seq(Tokens)
    BY <1>1, <1>2, <1>3, <2>3 DEF FileTypes
  <2>. QED  BY <2>3, <2>5, <2>6, <2>7 DEF Gestured, Gesture
<1>5. CASE MoveTo(i)
  <2>1. UNCHANGED <<files, chosen, calls, patches, rows, dragging, range>> /\ Gesture
        /\ anchor' = Bounded(i)
    BY <1>5 DEF MoveTo
  <2>2. anchor' >= NoRow
    BY <1>3, <2>1 DEF NoRow
  <2>3. RangeReaches'
    BY <1>1, <2>1 DEF RangeReaches
  <2>4. dragging' \in Seq(Tokens)
    BY <1>1, <2>1 DEF FileTypes
  <2>. QED  BY <1>2, <1>3, <2>1, <2>2, <2>3, <2>4 DEF Gestured, Gesture
<1>. QED  BY <1>4, <1>5

\* Enter, a drop, the end of a drag, and the buttons.
LEMMA OthersAreGestures ==
  ASSUME FileIInv, OpenRow \/ Drop \/ DragEnd \/ \E e \in {"select_visible", "bulk", "list"} : Button(e)
  PROVE  Gestured
<1>1. FileTypes /\ RangeReaches
  BY DEF FileIInv
<1>2. UNCHANGED <<files, chosen, patches, rows, active, anchor, range>> /\ Gesture
  BY DEF OpenRow, Drop, DragEnd, Button
<1>3. RangeReaches' /\ active' \in Int /\ anchor' \in Int /\ anchor' >= NoRow
  BY <1>1, <1>2 DEF RangeReaches, FileTypes
<1>4. dragging' \in Seq(Tokens)
  <2>1. <<>> \in Seq(Tokens) /\ dragging \in Seq(Tokens)
    BY <1>1 DEF FileTypes
  <2>. QED  BY <2>1 DEF OpenRow, Drop, DragEnd, Button
<1>5. \/ UNCHANGED calls
      \/ \E event \in Events \ {"set_selection", "toggle_select"}, tokens \in Seq(Tokens) : Push(event, tokens)
  <2>1. CASE OpenRow
    <3>1. Row(active) \in Tokens
      BY <1>1, <2>1 DEF OpenRow, Row, FileTypes
    <3>2. <<Row(active)>> \in Seq(Tokens)
      BY <3>1, OneRow
    <3>3. "open" \in Events \ {"set_selection", "toggle_select"}
      BY DEF Events
    <3>4. Push("open", <<Row(active)>>)
      BY <2>1 DEF OpenRow
    <3>. QED  BY <3>2, <3>3, <3>4, Zenon
  <2>2. CASE Drop
    <3>1. "drag_move_items" \in Events \ {"set_selection", "toggle_select"}
      BY DEF Events
    <3>2. dragging \in Seq(Tokens) /\ Push("drag_move_items", dragging)
      BY <1>1, <2>2 DEF Drop, FileTypes
    <3>. QED  BY <3>1, <3>2, Zenon
  <2>3. CASE DragEnd
    BY <2>3 DEF DragEnd
  <2>4. CASE \E e \in {"select_visible", "bulk", "list"} : Button(e)
    <3>1. PICK e \in {"select_visible", "bulk", "list"} : Push(e, <<>>)
      BY <2>4 DEF Button
    <3>2. <<>> \in Seq(Tokens)
      OBVIOUS
    <3>3. e \in Events \ {"set_selection", "toggle_select"}
      BY DEF Events
    <3>. QED  BY <3>1, <3>2, <3>3, Zenon
  <2>. QED  BY <2>1, <2>2, <2>3, <2>4
<1>6. \/ UNCHANGED calls
      \/ \E event \in Events, tokens \in Seq(Tokens) :
             /\ Push(event, tokens)
             /\ event \in {"set_selection", "toggle_select"} => ToSet(tokens) \subseteq ToSet(rows)
  BY <1>5
<1>. QED  BY <1>2, <1>3, <1>4, <1>6 DEF Gestured, Gesture

\* The LiveView answers a call with the list as it is after it, and what it
\* keeps selected is of that list.
LEMMA HandleKeeps ==
  ASSUME FileIInv, Handle
  PROVE  FileIInv'
<1> DEFINE c == Head(calls)
           named == ToSet(c.tokens)
<1>1. FileTypes /\ RangeReaches
  BY DEF FileIInv
<1>2. /\ calls # <<>> /\ calls' = Tail(calls) /\ patches' = Append(patches, files')
      /\ UNCHANGED <<rows, active, anchor, dragging, range, early, gestures>>
  BY DEF Handle
<1>3. c.tokens \in Seq(Tokens) /\ calls' \in Seq([event : Events, tokens : Seq(Tokens)])
  <2>1. calls \in Seq([event : Events, tokens : Seq(Tokens)])
    BY <1>1 DEF FileTypes
  <2>2. Head(calls) \in [event : Events, tokens : Seq(Tokens)]
        /\ Tail(calls) \in Seq([event : Events, tokens : Seq(Tokens)])
    <3> DEFINE Call == [event : Events, tokens : Seq(Tokens)]
    <3>1. calls \in Seq(Call) /\ calls # <<>>
      BY <1>2, <2>1
    <3> HIDE DEF Call
    <3>2. Head(calls) \in Call /\ Tail(calls) \in Seq(Call)
      BY <3>1
    <3>. QED  BY <3>2 DEF Call
  <2>3. c \in [event : Events, tokens : Seq(Tokens)]
    BY <2>2
  <2> HIDE DEF c
  <2>. QED  BY <1>2, <2>2, <2>3
<1>4. ToSet(files) \subseteq Tokens /\ IsFiniteSet(ToSet(files))
  <2>1. ToSet(files) \subseteq Tokens
    BY <1>1 DEF FileTypes, ToSet
  <2>. QED  BY <2>1, TokensAssumption, FS_Subset
<1>5. named \subseteq Tokens
  <2> DEFINE ts == c.tokens
  <2>1. ts \in Seq(Tokens)
    BY <1>3
  <2> HIDE DEF ts
  <2>2. ToSet(ts) \subseteq Tokens
    BY <2>1 DEF ToSet
  <2>. QED  BY <2>2 DEF ts
<1>6. ASSUME NEW s, NEW fs \in Without(s)
      PROVE  fs \in Seq(Tokens)
  <2> DEFINE left == ToSet(files) \ s
  <2>1. IsFiniteSet(left)
    BY <1>4, FS_Subset
  <2>2. Cardinality(left) \in Nat
    BY <2>1, FS_CardinalityType
  <2>3. fs \in [1 .. Cardinality(left) -> left]
    BY DEF Without
  <2>4. left \subseteq Tokens
    BY <1>4
  <2> HIDE DEF left
  <2>. QED  BY <2>2, <2>3, <2>4
<1>7. Reverse(files) \in Seq(Tokens)
  <2>1. files \in Seq(Tokens) /\ Len(files) \in Nat
    BY <1>1 DEF FileTypes
  <2>2. \A i \in 1 .. Len(files) : files[(Len(files) - i) + 1] \in Tokens
    BY <2>1
  <2>. QED  BY <2>1, <2>2 DEF Reverse
<1>8. \/ /\ UNCHANGED files
         /\ \/ chosen' = named /\ c.event = "set_selection"
            \/ chosen' = (chosen \ named) \cup (named \ chosen) /\ c.event = "toggle_select"
            \/ chosen' = ToSet(files)
            \/ UNCHANGED chosen
      \/ files' \in Seq(Tokens) /\ chosen' = {}
  <2>1. ASSUME NEW s, \E fs \in Without(s) : Listed(fs)
        PROVE  files' \in Seq(Tokens) /\ chosen' = {}
    BY <1>6, <2>1 DEF Listed
  <2>2. ASSUME Listed(Reverse(files)) \/ \E t \in Tokens : Listed(<<t>>)
        PROVE  files' \in Seq(Tokens) /\ chosen' = {}
    BY <1>7, <2>2, OneRow DEF Listed
  <2> HIDE DEF c
  <2>3. \/ c.event = "set_selection" /\ chosen' = named /\ UNCHANGED files
        \/ /\ c.event = "toggle_select" /\ UNCHANGED files
           /\ chosen' = (chosen \ named) \cup (named \ chosen)
        \/ chosen' = ToSet(files) /\ UNCHANGED files
        \/ UNCHANGED <<files, chosen>>
        \/ \E fs \in Without(named) : Listed(fs)
        \/ \E fs \in Without(chosen) : Listed(fs)
        \/ Listed(Reverse(files)) \/ \E t \in Tokens : Listed(<<t>>)
    BY DEF Handle, c
  <2>. QED  BY <2>1, <2>2, <2>3
<1> HIDE DEF c, named
<1>9. files' \in Seq(Tokens) /\ chosen' \subseteq Tokens
  BY <1>1, <1>4, <1>5, <1>8 DEF FileTypes
<1>10. patches' \in Seq(Seq(Tokens))
  BY <1>1, <1>2, <1>9 DEF FileTypes
<1>11. FileTypes' /\ RangeReaches'
  BY <1>1, <1>2, <1>3, <1>9, <1>10 DEF FileTypes, RangeReaches
<1>12. ASSUME ~early'
       PROVE  Waited' /\ chosen' \subseteq ToSet(files')
  <2>1. ~early
    BY <1>2, <1>12
  <2>2. Waited /\ chosen \subseteq ToSet(files)
    BY <2>1 DEF FileIInv
  <2>3. calls = <<c>> /\ patches = <<>>
    BY <1>2, <2>2 DEF Waited, c
  <2>4. c.event \in {"set_selection", "toggle_select"} => named \subseteq ToSet(files)
    BY <1>2, <2>2 DEF Waited, Selects, c, named
  <2>5. calls' = <<>> /\ patches' = <<files'>>
    BY <1>2, <2>3
  <2>6. ToSet(files') = ToSet(files) \/ chosen' = {}
    BY <1>8
  <2>7. chosen' \subseteq ToSet(files')
    BY <1>8, <2>2, <2>4, <2>6
  <2>8. patches' # <<>>
    BY <2>5
  <2>. QED  BY <2>5, <2>7, <2>8 DEF Waited
<1>. QED  BY <1>11, <1>12 DEF FileIInv

\* The page takes the next list it was sent (refreshRows).
LEMMA RefreshKeeps ==
  ASSUME FileIInv, RefreshRows
  PROVE  FileIInv'
<1>1. FileTypes /\ RangeReaches
  BY DEF FileIInv
<1>2. /\ patches # <<>> /\ patches' = Tail(patches) /\ rows' = Head(patches)
      /\ UNCHANGED <<files, chosen, calls, dragging, range, early, gestures>>
  BY DEF RefreshRows
<1>3. Head(patches) \in Seq(Tokens) /\ Tail(patches) \in Seq(Seq(Tokens))
  BY <1>1, <1>2 DEF FileTypes
<1>4. active' \in Int /\ anchor' \in Int /\ anchor' >= NoRow
  BY <1>1 DEF RefreshRows, FileTypes, NoRow
<1>5. FileTypes' /\ RangeReaches'
  BY <1>1, <1>2, <1>3, <1>4 DEF FileTypes, RangeReaches
<1>6. ASSUME ~early'
      PROVE  Waited' /\ chosen' \subseteq ToSet(files')
  <2>1. Waited /\ chosen \subseteq ToSet(files)
    BY <1>2, <1>6 DEF FileIInv
  <2>2. patches = <<files>>
    BY <1>2, <2>1 DEF Waited
  <2>3. calls = <<>>
    BY <1>2, <2>1 DEF Waited
  <2>4. patches' = <<>> /\ rows' = files'
    BY <1>2, <2>2
  <2>. QED  BY <1>2, <2>1, <2>3, <2>4 DEF Waited
<1>. QED  BY <1>5, <1>6 DEF FileIInv

LEMMA FileGoesOn == FileIInv /\ [FileNext]_fileVars => FileIInv'
<1> SUFFICES ASSUME FileIInv, [FileNext]_fileVars PROVE FileIInv'
  OBVIOUS
<1>1. active \in Int /\ Len(rows) \in Nat
  BY DEF FileIInv, FileTypes
<1>2. \A i \in Indices : i \in Int
  BY <1>1 DEF Indices
<1>3. CASE Handle
  BY <1>3, HandleKeeps
<1>4. CASE RefreshRows
  BY <1>4, RefreshKeeps
<1>5. CASE OpenRow \/ Drop \/ DragEnd \/ \E e \in {"select_visible", "bulk", "list"} : Button(e)
  BY <1>5, OthersAreGestures, GestureKeeps
<1>6. CASE \E i \in Indices : ClickRow(i) \/ ToggleRow(i) \/ DragStart(i)
  BY <1>6, ClicksAreGestures, GestureKeeps
<1>7. ASSUME NEW i \in Int, ShiftTo(i) \/ MoveTo(i)
      PROVE  FileIInv'
  BY <1>7, MovesAreGestures, GestureKeeps
<1>8. CASE \E i \in Indices : ShiftTo(i)
  BY <1>2, <1>7, <1>8
<1>9. CASE \E i \in {active - 1, active + 1} : ShiftTo(i) \/ MoveTo(i)
  BY <1>1, <1>7, <1>9
<1>10. CASE \E i \in {0, Len(rows) - 1} : MoveTo(i)
  BY <1>1, <1>7, <1>10
<1>11. CASE UNCHANGED fileVars
  BY <1>11 DEF fileVars, FileIInv, FileTypes, RangeReaches, Waited, Selects
<1>. QED
  BY <1>3, <1>4, <1>5, <1>6, <1>8, <1>9, <1>10, <1>11 DEF FileNext

\* For any files and any number of gestures: while the user waits for each
\* answer, at most one call or patch is on its way, and the page shows the list
\* of the server or the patch that brings it (handle_event, updated).
THEOREM FileInvariance == FileSpec => []FileIInv
BY FileBegins, FileGoesOn, PTL DEF FileSpec

\* What is selected is what the page shows of it: a range holds the row it was
\* extended to, however the list changed under its anchor, and for a user who
\* waits, what is moved or deleted is in the list (selectRangeTo,
\* apply_folder_view).
THEOREM SelectionStaysTrue == FileSpec => []SelectionIsTrue
<1>1. FileIInv => SelectionIsTrue
  BY DEF FileIInv, SelectionIsTrue, SelectionIsListed
<1>. QED  BY <1>1, FileInvariance, PTL

-----------------------------------------------------------------------------
(* PageMenus: The menus over a page *)

\* Every gesture and patch of the feed leaves one dropdown at most: a trigger
\* closes what was open before it opens its own (openPortalDropdown), and
\* whatever closes a dropdown takes its menu off the page, or a patch has.
LEMMA DropdownsAlone ==
  ASSUME OneMenuOverPage, [DropNext]_dropVars
  PROVE  OneMenuOverPage'
<1>1. ASSUME NEW states, Close(states)
      PROVE  OneMenuOverPage'
  BY <1>1 DEF OneMenuOverPage, Close, LeavesPortal
<1>2. ASSUME NEW r \in Roots, ClickTrigger(r)
      PROVE  OneMenuOverPage'
  <2>1. CASE menus[r] = <<>>
    BY <1>2, <2>1 DEF ClickTrigger, OneMenuOverPage
  <2>2. CASE menus[r] # <<>>
    <3> DEFINE m == Head(menus[r])
    <3>1. open' = {<<r, m>>}
      BY <1>2, <2>2 DEF ClickTrigger, Others
    <3>2. portal' = LeavesPortal(open) \cup {m}
      BY <1>2, <2>2 DEF ClickTrigger, Others
    <3>3. LeavesPortal(open) = {}
      BY DEF LeavesPortal, OneMenuOverPage
    <3> HIDE DEF m
    <3>4. portal' = {m} /\ <<r, m>>[2] = m
      BY <3>2, <3>3
    <3>. QED  BY <3>1, <3>4 DEF OneMenuOverPage
  <2>. QED  BY <2>1, <2>2
<1>3. ASSUME Patch
      PROVE  OneMenuOverPage'
  <2>1. portal' = {} /\ open' = open
    BY <1>3 DEF Patch
  <2>. QED  BY <2>1 DEF OneMenuOverPage
<1>4. ASSUME UNCHANGED <<open, portal>>
      PROVE  OneMenuOverPage'
  BY <1>4 DEF OneMenuOverPage
<1>5. CASE CloseAll
  BY <1>1, <1>5 DEF CloseAll
<1>6. ASSUME NEW s \in open, ClickItem(s)
      PROVE  OneMenuOverPage'
  BY <1>4, <1>6 DEF ClickItem
<1>7. ASSUME NEW s \in closing, ClosesItem(s)
      PROVE  OneMenuOverPage'
  BY <1>1, <1>7 DEF ClosesItem
<1>8. ASSUME NEW t \in Triggers, ShowTooltip(t) \/ HideTooltip(t)
      PROVE  OneMenuOverPage'
  BY <1>4, <1>8 DEF ShowTooltip, HideTooltip
<1>9. CASE UNCHANGED dropVars
  BY <1>4, <1>9 DEF dropVars
<1>. QED
  BY <1>2, <1>3, <1>5, <1>6, <1>7, <1>8, <1>9 DEF DropNext

\* Every key, click, timeout and change of page leaves the goto menu of the
\* page shown or none: a hook that goes runs the cleanup it holds (destroyed),
\* and showGotoMenu runs the last one's before it opens its own.
LEMMA GotoAlone ==
  ASSUME OneGotoMenu, [MailNext]_mailVars
  PROVE  OneGotoMenu'
<1>1. ASSUME HooksGo \/ gotos' = {}
      PROVE  OneGotoMenu'
  BY <1>1 DEF HooksGo, OneGotoMenu
<1>2. ASSUME NEW n \in gotos, Closes(n)
      PROVE  OneGotoMenu'
  <2>1. cleanup = n
    BY DEF OneGotoMenu
  <2>. QED  BY <1>2, <2>1 DEF Closes, OneGotoMenu
<1>3. ASSUME UNCHANGED <<gotos, cleanup>>
      PROVE  OneGotoMenu'
  BY <1>3 DEF OneGotoMenu
<1>4. ASSUME NEW k, Navigates(k) \/ Loads(k)
      PROVE  OneGotoMenu'
  BY <1>1, <1>4 DEF Navigates, Loads
<1>5. CASE ShowGotoMenu
  <2>1. PICK n : gotos' = Before(gotos) \cup {n} /\ cleanup' = n
    BY <1>5 DEF ShowGotoMenu
  <2>2. Before(gotos) = {}
    BY DEF Before, OneGotoMenu
  <2>. QED  BY <2>1, <2>2 DEF OneGotoMenu
<1>6. CASE PressNext \/ PressPrevious \/ ShowShortcutsHelp \/ CloseHelp
  BY <1>3, <1>6 DEF PressNext, PressPrevious, ShowShortcutsHelp, CloseHelp
<1>7. CASE PressOpen
  BY <1>3, <1>4, <1>7 DEF PressOpen
<1>8. CASE PressArchive
  BY <1>3, <1>8 DEF PressArchive
<1>9. CASE PressReply
  BY <1>4, <1>9 DEF PressReply
<1>10. CASE PressCompose
  BY <1>4, <1>10 DEF PressCompose
<1>11. CASE PressSend
  BY <1>4, <1>11 DEF PressSend
<1>12. CASE PressEscape
  BY <1>2, <1>3, <1>4, <1>12 DEF PressEscape
<1>13. CASE LeavesMessage
  BY <1>4, <1>13 DEF LeavesMessage
<1>14. CASE MenuChooses
  BY <1>4, <1>14 DEF MenuChooses
<1>15. ASSUME NEW m \in Mails, MailArrives(m) \/ MailGoes(m)
       PROVE  OneGotoMenu'
  BY <1>3, <1>15 DEF MailArrives, MailGoes
<1>16. ASSUME NEW n \in {1, 2}, MenuClicked(n) \/ MenuTimesOut(n)
       PROVE  OneGotoMenu'
  BY <1>2, <1>16 DEF MenuClicked, MenuTimesOut
<1>17. CASE UNCHANGED mailVars
  BY <1>3, <1>17 DEF mailVars
<1>. QED
  BY <1>5, <1>6, <1>7, <1>8, <1>9, <1>10, <1>11, <1>12, <1>13, <1>14, <1>15, <1>16, <1>17 DEF MailNext

\* For any number of dropdowns, tooltips, mails and gestures: no menu lies over
\* a page that did not open it, and none over another (openPortalDropdown,
\* closePortalDropdown, showGotoMenu and the cleanup of a hook).
THEOREM MenusStayAlone == MenusSpec => []MenusAlone
<1>1. DropInit => OneMenuOverPage
  BY DEF DropInit, OneMenuOverPage
<1>2. MailInit => OneGotoMenu
  BY DEF MailInit, OneGotoMenu
<1>3. OneMenuOverPage /\ [DropNext]_dropVars => OneMenuOverPage'
  BY DropdownsAlone
<1>4. OneGotoMenu /\ [MailNext]_mailVars => OneGotoMenu'
  BY GotoAlone
<1>5. DropSpec => []OneMenuOverPage
  BY <1>1, <1>3, PTL DEF DropSpec
<1>6. MailSpec => []OneGotoMenu
  BY <1>2, <1>4, PTL DEF MailSpec
<1>7. OneMenuOverPage /\ OneGotoMenu => MenusAlone
  BY DEF MenusAlone
<1>. QED
  BY <1>5, <1>6, <1>7, PTL DEF MenusSpec

-----------------------------------------------------------------------------
(* FeedScroll: where the feed is scrolled to *)

\* A list of posts, newest first.
InOrder(ps) ==
    /\ ps \in Seq(Int) /\ ps # <<>>
    /\ \A i, j \in DOMAIN ps : i < j => ps[i] < ps[j]

\* How far down the first posts reach, and how one more adds to it.
LEMMA ExtentFacts ==
  ASSUME NEW ps, NEW k \in Nat
  PROVE  /\ Extent(ps, k) \in Nat /\ Extent(ps, 0) = 0
         /\ k > 0 => Extent(ps, k) = Extent(ps, k - 1) + Height(ps[k])
<1> DEFINE T(j) == {i \in 1 .. j : ps[i] \in tall}
<1>1. \A j \in Nat : IsFiniteSet(1 .. j)
  BY FS_Interval
<1>2. \A j \in Nat : IsFiniteSet(T(j)) /\ Cardinality(T(j)) \in Nat
  <2> TAKE j \in Nat
  <2>1. T(j) \in SUBSET (1 .. j)
    OBVIOUS
  <2>2. IsFiniteSet(T(j))
    BY <2>1, <1>1, FS_Subset
  <2>. QED  BY <2>2, FS_CardinalityType
<1>3. T(0) = {}
  OBVIOUS
<1>4. Cardinality(T(0)) = 0
  BY <1>3, FS_EmptySet
<1>5. ASSUME k > 0 PROVE Cardinality(T(k)) = Cardinality(T(k - 1)) + (IF ps[k] \in tall THEN 1 ELSE 0)
  <2>1. T(k) = IF ps[k] \in tall THEN T(k - 1) \cup {k} ELSE T(k - 1)
    BY <1>5
  <2>2. k - 1 \in Nat /\ k \notin T(k - 1)
    BY <1>5
  <2>3. IsFiniteSet(T(k - 1)) /\ Cardinality(T(k - 1)) \in Nat
    BY <2>2, <1>2
  <2>4. Cardinality(T(k - 1) \cup {k}) = Cardinality(T(k - 1)) + 1
    BY <2>2, <2>3, FS_AddElement
  <2> HIDE DEF T
  <2>. QED  BY <2>1, <2>3, <2>4
<1>6. \A j \in Nat : Extent(ps, j) = j + Cardinality(T(j))
  BY DEF Extent
<1> HIDE DEF T
<1>7. Extent(ps, k) \in Nat /\ Extent(ps, 0) = 0
  BY <1>2, <1>4, <1>6
<1>8. ASSUME k > 0 PROVE Extent(ps, k) = Extent(ps, k - 1) + Height(ps[k])
  <2>1. k - 1 \in Nat
    BY <1>8
  <2>2. Extent(ps, k) = k + Cardinality(T(k)) /\ Extent(ps, k - 1) = k - 1 + Cardinality(T(k - 1))
    BY <2>1, <1>6
  <2>3. Cardinality(T(k - 1)) \in Nat
    BY <2>1, <1>2
  <2>. QED  BY <1>5, <1>8, <2>2, <2>3 DEF Height
<1>. QED  BY <1>7, <1>8

\* A post is found at its own place.
LEMMA IndexFacts ==
  ASSUME NEW ps, InOrder(ps)
  PROVE  /\ \A i \in 1 .. Len(ps) : Index(ps, ps[i]) = i
         /\ \A p \in ToSet(ps) : Index(ps, p) \in 1 .. Len(ps) /\ ps[Index(ps, p)] = p
<1>1. DOMAIN ps = 1 .. Len(ps) /\ Len(ps) \in Nat /\ \A i \in 1 .. Len(ps) : ps[i] \in Int
  BY DEF InOrder
<1>2. \A i, j \in 1 .. Len(ps) : i < j => ps[i] < ps[j]
  BY <1>1 DEF InOrder
<1>3. \A i, j \in 1 .. Len(ps) : ps[i] = ps[j] => i = j
  <2> TAKE i \in 1 .. Len(ps), j \in 1 .. Len(ps)
  <2>1. ps[i] \in Int /\ ps[j] \in Int
    BY <1>1
  <2>2. (i < j => ps[i] < ps[j]) /\ (j < i => ps[j] < ps[i])
    BY <1>2
  <2>. QED  BY <2>1, <2>2
<1>4. ASSUME NEW i \in 1 .. Len(ps) PROVE Index(ps, ps[i]) = i
  BY <1>3 DEF Index
<1>5. ASSUME NEW p \in ToSet(ps) PROVE Index(ps, p) \in 1 .. Len(ps) /\ ps[Index(ps, p)] = p
  <2>1. PICK i \in 1 .. Len(ps) : p = ps[i]
    BY <1>1 DEF ToSet
  <2>. QED  BY <2>1, <1>4
<1>. QED  BY <1>4, <1>5

LEMMA MaxYFacts ==
  ASSUME NEW ps, InOrder(ps)
  PROVE  MaxY(ps) = Extent(ps, Len(ps)) - 1 /\ MaxY(ps) \in Nat
<1>1. Len(ps) \in Nat /\ Len(ps) > 0
  BY DEF InOrder
<1>2. Extent(ps, Len(ps)) = Extent(ps, Len(ps) - 1) + Height(ps[Len(ps)])
  BY <1>1, ExtentFacts
<1>3. Len(ps) - 1 \in Nat
  BY <1>1
<1>4. Extent(ps, Len(ps) - 1) \in Nat
  BY <1>3, ExtentFacts
<1>5. Extent(ps, Len(ps)) \in Nat /\ Extent(ps, Len(ps)) >= 1
  BY <1>2, <1>4 DEF Height
<1>. QED  BY <1>5 DEF MaxY, Max2

LEMMA ClampFacts ==
  ASSUME NEW ps, InOrder(ps), NEW n \in Int
  PROVE  /\ Clamp(ps, n) \in 0 .. MaxY(ps)
         /\ n >= 0 => Clamp(ps, n) = n \/ Clamp(ps, n) = MaxY(ps)
<1>1. MaxY(ps) \in Nat
  BY MaxYFacts
<1>. QED  BY <1>1 DEF Clamp, Max2

\* A set of first numbers has a last one.
LEMMA LastOfSegment ==
  ASSUME NEW n \in Nat, NEW K \in SUBSET (0 .. n), 0 \in K,
         \A k \in K : \A j \in 0 .. k : j \in K
  PROVE  \E m \in K : \A k \in K : k <= m
<1> DEFINE c == Cardinality(K)
<1>1. IsFiniteSet(0 .. n) /\ \A m \in 0 .. n : IsFiniteSet(0 .. m) /\ Cardinality(0 .. m) = m + 1
  BY FS_Interval
<1>2. IsFiniteSet(K) /\ c \in Nat
  BY <1>1, FS_Subset, FS_CardinalityType
<1>3. ASSUME NEW k \in K PROVE k + 1 <= c
  <2>1. 0 .. k \subseteq K /\ k \in 0 .. n
    BY <1>3
  <2>2. Cardinality(0 .. k) <= c
    BY <2>1, <1>2, FS_Subset
  <2>. QED  BY <2>1, <2>2, <1>1
<1>4. c >= 1
  BY <1>3, <1>2
<1>5. c - 1 \in K
  <2> SUFFICES ASSUME c - 1 \notin K PROVE FALSE
    OBVIOUS
  <2>1. \A k \in K : k < c - 1
    <3> TAKE k \in K
    <3>1. k + 1 <= c /\ k \in Nat /\ k # c - 1
      BY <1>3
    <3>. QED  BY <3>1, <1>2
  <2>2. c >= 2
    BY <2>1, <1>2
  <2>3. K \subseteq 0 .. (c - 2) /\ IsFiniteSet(0 .. (c - 2)) /\ Cardinality(0 .. (c - 2)) = c - 1
    <3>1. IsFiniteSet(0 .. (c - 2)) /\ Cardinality(0 .. (c - 2)) = c - 1
      BY <1>2, <2>2, FS_Interval
    <3>2. \A k \in K : k \in Nat /\ k < c - 1
      BY <2>1
    <3> HIDE DEF c
    <3>. QED  BY <3>1, <3>2, <1>2, <2>2
  <2>4. Cardinality(K) <= Cardinality(0 .. (c - 2))
    <3>1. K \in SUBSET (0 .. (c - 2)) /\ IsFiniteSet(0 .. (c - 2))
      BY <2>3
    <3>. QED  BY <3>1, FS_Subset
  <2>. QED  BY <2>3, <2>4, <1>2
<1>6. \A k \in K : k <= c - 1
  <2> TAKE k \in K
  <2>1. k + 1 <= c /\ k \in Nat
    BY <1>3
  <2>. QED  BY <2>1, <1>2
<1>. QED  BY <1>5, <1>6

\* More posts reach further down.
LEMMA ExtentGrows ==
  ASSUME NEW ps, NEW k \in Nat, NEW j \in 0 .. k
  PROVE  Extent(ps, j) <= Extent(ps, k)
<1> DEFINE T(i) == {x \in 1 .. i : ps[x] \in tall}
<1>1. IsFiniteSet(1 .. k) /\ T(k) \in SUBSET (1 .. k)
  BY FS_Interval
<1>2. IsFiniteSet(T(k))
  BY <1>1, FS_Subset
<1>3. T(j) \in SUBSET T(k)
  OBVIOUS
<1>4. Cardinality(T(j)) <= Cardinality(T(k)) /\ IsFiniteSet(T(j))
  BY <1>2, <1>3, FS_Subset
<1>5. Cardinality(T(j)) \in Nat /\ Cardinality(T(k)) \in Nat
  BY <1>2, <1>4, FS_CardinalityType
<1>6. Extent(ps, j) = j + Cardinality(T(j)) /\ Extent(ps, k) = k + Cardinality(T(k))
  BY DEF Extent
<1> HIDE DEF T
<1>. QED  BY <1>4, <1>5, <1>6

\* There is a post at the edge of the screen.
LEMMA EdgePost ==
  ASSUME NEW ps, InOrder(ps), NEW n \in 0 .. MaxY(ps)
  PROVE  \E i \in 1 .. Len(ps) : Top(ps, n, ps[i]) \in {0, 1 - Height(ps[i])}
<1>1. Len(ps) \in Nat /\ Len(ps) > 0
  BY DEF InOrder
<1> DEFINE K == {k \in 0 .. Len(ps) : Extent(ps, k) <= n}
<1>2. n \in Nat /\ n <= Extent(ps, Len(ps)) - 1 /\ Extent(ps, Len(ps)) \in Nat
  BY <1>1, MaxYFacts, ExtentFacts
<1>3. 0 \in K
  BY <1>1, <1>2, ExtentFacts
<1>4. ASSUME NEW k \in K, NEW j \in 0 .. k PROVE j \in K
  <2>1. k \in Nat /\ k <= Len(ps) /\ Extent(ps, k) <= n /\ Extent(ps, k) \in Nat
    BY <1>1, ExtentFacts
  <2>2. Extent(ps, j) <= Extent(ps, k) /\ Extent(ps, j) \in Nat
    BY <2>1, ExtentFacts, ExtentGrows
  <2>. QED  BY <1>1, <1>2, <2>1, <2>2
<1>5. PICK m \in K : \A k \in K : k <= m
  <2>1. K \in SUBSET (0 .. Len(ps))
    OBVIOUS
  <2> HIDE DEF K
  <2>. QED  BY <1>1, <1>3, <1>4, <2>1, LastOfSegment
<1>6. m \in Nat /\ Extent(ps, m) <= n /\ m <= Len(ps) /\ Extent(ps, m) \in Nat
  BY <1>1, ExtentFacts
<1>7. m + 1 \in 1 .. Len(ps)
  <2>1. m # Len(ps)
    BY <1>2, <1>6
  <2>. QED  BY <2>1, <1>1, <1>6
<1>8. m + 1 \notin K
  BY <1>5, <1>6
<1>9. Extent(ps, m + 1) = Extent(ps, m) + Height(ps[m + 1])
  <2>1. m + 1 \in Nat /\ m + 1 > 0 /\ m + 1 - 1 = m
    BY <1>6
  <2>. QED  BY <2>1, ExtentFacts
<1>10. Height(ps[m + 1]) \in {1, 2}
  BY DEF Height
<1>11. Extent(ps, m + 1) > n
  <2>1. ~(Extent(ps, m + 1) <= n)
    BY <1>1, <1>7, <1>8
  <2>. QED  BY <2>1, <1>2, <1>6, <1>9, <1>10
<1>12. Top(ps, n, ps[m + 1]) = Extent(ps, m) - n
  <2>1. Index(ps, ps[m + 1]) = m + 1
    BY <1>7, IndexFacts
  <2>2. m + 1 - 1 = m
    BY <1>6
  <2>. QED  BY <2>1, <2>2 DEF Top
<1>13. Top(ps, n, ps[m + 1]) \in {0, 1 - Height(ps[m + 1])}
  BY <1>2, <1>6, <1>9, <1>10, <1>11, <1>12
<1>. QED  BY <1>7, <1>13

Snaps == [anchor : [post : Int, top : Int], y : Int]
Waits == [left : Nat, snap : Snaps]

\* The feed is a list of posts, the page is scrolled within it, and what the
\* hooks remember are places.
FeedIInv ==
    /\ InOrder(posts)
    /\ y \in 0 .. MaxY(posts)
    /\ reply \in Snaps
    /\ pg \in [pending : BOOLEAN, loadingMore : BOOLEAN, startY : Nat, lastY : Nat,
               timers : Waits]
    /\ st \in [lastY : Nat, timers : Waits]
    /\ queue \in [queued : Nat, up : BOOLEAN, left : Nat, smooth : BOOLEAN]

\* The post that findVisiblePostAnchor finds is in the feed, and begins at the
\* edge of the screen or above it.
LEMMA AnchorFacts ==
  ASSUME InOrder(posts), y \in 0 .. MaxY(posts)
  PROVE  /\ Anchor \in [post : Int, top : Int] /\ Anchor.top <= 0
         /\ Anchor.post \in ToSet(posts) /\ Anchor.top = Top(posts, y, Anchor.post)
<1>1. posts # <<>> /\ DOMAIN posts = 1 .. Len(posts) /\ \A j \in 1 .. Len(posts) : posts[j] \in Int
  BY DEF InOrder
<1> DEFINE i == CHOOSE i \in 1 .. Len(posts) : Top(posts, y, posts[i]) \in {0, 1 - Height(posts[i])}
<1>2. i \in 1 .. Len(posts) /\ Top(posts, y, posts[i]) \in {0, 1 - Height(posts[i])}
  BY EdgePost
<1>3. Anchor = [post |-> posts[i], top |-> Top(posts, y, posts[i])]
  BY <1>1 DEF Anchor
<1> HIDE DEF i
<1>4. Top(posts, y, posts[i]) \in Int /\ Top(posts, y, posts[i]) <= 0
  <2>1. Height(posts[i]) \in {1, 2}
    BY DEF Height
  <2>. QED  BY <2>1, <1>2
<1>5. posts[i] \in ToSet(posts)
  BY <1>1, <1>2 DEF ToSet
<1>. QED  BY <1>1, <1>2, <1>3, <1>4, <1>5

\* Where a post is restored to does not depend on where the page is.
LEMMA ToAnchorFacts ==
  ASSUME NEW ps, InOrder(ps), NEW n \in Int, NEW s \in Snaps, PostFound(ps, s)
  PROVE  /\ ToAnchor(ps, n, s) = ToAnchor(ps, 0, s)
         /\ ToAnchor(ps, n, s) \in 0 .. MaxY(ps)
         /\ s.anchor.top <= 0 =>
               \/ ToAnchor(ps, n, s) = MaxY(ps)
               \/ Top(ps, ToAnchor(ps, n, s), s.anchor.post) = s.anchor.top
<1> DEFINE e == Extent(ps, Index(ps, s.anchor.post) - 1)
           t == s.anchor.top
<1>1. t \in Int
  BY DEF Snaps
<1>2. e \in Nat
  <2>1. PICK i \in 1 .. Len(ps) : ps[i] = s.anchor.post
    BY DEF PostFound
  <2>2. Index(ps, s.anchor.post) = i
    BY <2>1, IndexFacts
  <2>3. Len(ps) \in Nat
    BY DEF InOrder
  <2>4. i - 1 \in Nat
    BY <2>3
  <2>. QED  BY <2>2, <2>4, ExtentFacts
<1>3. \A m \in Int : ToAnchor(ps, m, s) = Clamp(ps, m + (e - m) - t) /\ Top(ps, m, s.anchor.post) = e - m
  BY DEF ToAnchor, Top
<1> HIDE DEF e, t
<1>4. \A m \in Int : m + (e - m) - t = e - t
  BY <1>1, <1>2
<1>5. ToAnchor(ps, n, s) = Clamp(ps, e - t) /\ ToAnchor(ps, 0, s) = Clamp(ps, e - t)
  <2>1. ToAnchor(ps, n, s) = Clamp(ps, n + (e - n) - t) /\ n + (e - n) - t = e - t
    BY <1>3, <1>4
  <2>2. ToAnchor(ps, 0, s) = Clamp(ps, 0 + (e - 0) - t) /\ 0 + (e - 0) - t = e - t
    BY <1>3, <1>4
  <2>. QED  BY <2>1, <2>2
<1>6. e - t \in Int /\ (t <= 0 => e - t >= 0)
  BY <1>1, <1>2
<1>7. Clamp(ps, e - t) \in 0 .. MaxY(ps) /\ (t <= 0 => Clamp(ps, e - t) \in {e - t, MaxY(ps)})
  BY <1>6, ClampFacts
<1>8. ASSUME t <= 0, ToAnchor(ps, n, s) # MaxY(ps)
      PROVE  Top(ps, ToAnchor(ps, n, s), s.anchor.post) = t
  <2>1. ToAnchor(ps, n, s) = e - t
    BY <1>5, <1>7, <1>8
  <2>2. Top(ps, e - t, s.anchor.post) = e - (e - t)
    BY <1>3, <1>6
  <2>. QED  BY <1>1, <1>2, <2>1, <2>2
<1>. QED  BY <1>5, <1>7, <1>8 DEF t

\* The restores leave the page within the feed, and at the post when it is there.
LEMMA RestoredFacts ==
  ASSUME FeedIInv, NEW ps, InOrder(ps), NEW n \in 0 .. MaxY(ps), NEW s \in Snaps
  PROVE  /\ ReplyRestored(ps, n, s) \in 0 .. MaxY(ps)
         /\ PageRestored(ps, n, s) \in 0 .. MaxY(ps)
         /\ StreamRestored(ps, n, s) \in 0 .. MaxY(ps)
         /\ PostFound(ps, s) => /\ PageRestored(ps, n, s) = ToAnchor(ps, 0, s)
                                /\ StreamRestored(ps, n, s) = ToAnchor(ps, 0, s)
<1>1. n \in Int /\ s.y \in Int /\ pg.startY \in Int
  BY MaxYFacts DEF Snaps, FeedIInv
<1>2. Clamp(ps, s.y) \in 0 .. MaxY(ps) /\ Clamp(ps, pg.startY) \in 0 .. MaxY(ps)
  BY <1>1, ClampFacts
<1>3. PostFound(ps, s) => ToAnchor(ps, n, s) = ToAnchor(ps, 0, s) /\ ToAnchor(ps, n, s) \in 0 .. MaxY(ps)
  BY <1>1, ToAnchorFacts
<1>4. ReplyRestored(ps, n, s) \in 0 .. MaxY(ps)
  BY <1>2, <1>3 DEF ReplyRestored
<1>5. PageRestored(ps, n, s) \in 0 .. MaxY(ps)
      /\ (PostFound(ps, s) => PageRestored(ps, n, s) = ToAnchor(ps, 0, s))
  <2>1. CASE PostFound(ps, s)
    BY <2>1, <1>3 DEF PageRestored
  <2>2. CASE ~PostFound(ps, s)
    BY <2>2, <1>1, <1>2 DEF PageRestored
  <2>. QED  BY <2>1, <2>2
<1>6. StreamRestored(ps, n, s) \in 0 .. MaxY(ps)
      /\ (PostFound(ps, s) => StreamRestored(ps, n, s) = ToAnchor(ps, 0, s))
  BY <1>1, <1>2, <1>3 DEF StreamRestored
<1>. QED  BY <1>4, <1>5, <1>6

LEMMA UpdatedFacts ==
  ASSUME FeedIInv, NEW ps, InOrder(ps), NEW n \in 0 .. MaxY(ps), NEW s \in Snaps
  PROVE  /\ PageUpdated(ps, n, s) \in 0 .. MaxY(ps)
         /\ StreamUpdated(ps, n, s) \in 0 .. MaxY(ps)
         /\ s = NoSnap => PageUpdated(ps, n, s) = n /\ StreamUpdated(ps, n, s) = n
         /\ PostFound(ps, s) /\ s # NoSnap =>
               /\ PageUpdated(ps, n, s) = ToAnchor(ps, 0, s)
               /\ StreamUpdated(ps, n, s) = ToAnchor(ps, 0, s)
<1>1. \A m \in 0 .. MaxY(ps) :
         /\ PageRestored(ps, m, s) \in 0 .. MaxY(ps)
         /\ StreamRestored(ps, m, s) \in 0 .. MaxY(ps)
         /\ PostFound(ps, s) => /\ PageRestored(ps, m, s) = ToAnchor(ps, 0, s)
                                /\ StreamRestored(ps, m, s) = ToAnchor(ps, 0, s)
  BY RestoredFacts
<1> DEFINE a == IF FromTop(n, s) THEN PageRestored(ps, n, s) ELSE n
           b == IF FromTop(n, s) THEN StreamRestored(ps, n, s) ELSE n
<1>2. a \in 0 .. MaxY(ps) /\ b \in 0 .. MaxY(ps)
  BY <1>1, Zenon
<1>3. /\ PageUpdated(ps, n, s) = IF s = NoSnap THEN n ELSE PageRestored(ps, a, s)
      /\ StreamUpdated(ps, n, s) = IF s = NoSnap THEN n ELSE StreamRestored(ps, b, s)
  BY Zenon DEF PageUpdated, StreamUpdated
<1> HIDE DEF a, b
<1>. QED  BY <1>1, <1>2, <1>3, Zenon

\* What the hooks want kept is where the reader is.
LEMMA PreFacts ==
  ASSUME FeedIInv
  PROVE  /\ ReplyPre \in Snaps /\ PagePre \in Snaps /\ StreamPre \in Snaps /\ NoSnap \in Snaps
         /\ PagePre # NoSnap => PagePre.anchor = Anchor
         /\ StreamPre # NoSnap => StreamPre.anchor = Anchor
<1>1. y \in Nat /\ Stable(pg) \in Nat /\ Stable(st) \in Nat
  <2>1. y \in Nat /\ pg.lastY \in Nat /\ st.lastY \in Nat
    BY MaxYFacts DEF FeedIInv
  <2>. QED  BY <2>1 DEF Stable
<1>2. Anchor \in [post : Int, top : Int]
  BY AnchorFacts DEF FeedIInv
<1>3. \A n \in Nat : Snap(Anchor, n) \in Snaps /\ Snap(Anchor, n).anchor = Anchor
  BY <1>2 DEF Snap, Snaps
<1>4. NoSnap \in Snaps /\ reply \in Snaps
  BY DEF NoSnap, Snap, Snaps, NoAnchor, FeedIInv
<1>. QED  BY <1>1, <1>3, <1>4, Zenon DEF ReplyPre, PagePre, StreamPre

\* A patch keeps the place: of all that the browser and the hooks do to it,
\* the last that has a place to keep decides, and it is the same place.
LEMMA PatchFacts ==
  ASSUME FeedIInv, NEW ps, InOrder(ps), NEW n \in 0 .. MaxY(ps),
         NEW loading \in BOOLEAN, NEW streamed \in BOOLEAN,
         FeedPatched(ps, n, loading, streamed)
  PROVE  /\ posts' = ps /\ y' \in 0 .. MaxY(ps)
         /\ reply' \in Snaps
         /\ pg' \in [pending : BOOLEAN, loadingMore : BOOLEAN, startY : Nat, lastY : Nat,
                     timers : Waits]
         /\ st' \in [lastY : Nat, timers : Waits]
         /\ /\ PostFound(ps, Snap(Anchor, y))
            /\ PagePre # NoSnap \/ (streamed /\ StreamPre # NoSnap)
            => y' = MaxY(ps) \/ Top(ps, y', Anchor.post) = Anchor.top
<1> DEFINE sp == IF streamed THEN StreamPre ELSE NoSnap
           y0 == IF ReplyPre = NoSnap THEN n ELSE ReplyRestored(ps, n, ReplyPre)
           y1 == PageUpdated(ps, y0, PagePre)
           y2 == StreamUpdated(ps, y1, sp)
<1>1. /\ posts' = ps /\ y' = y2 /\ reply' = NoSnap
      /\ pg' = [pending |-> pg.pending /\ loading, loadingMore |-> loading,
                startY |-> IF loading THEN pg.startY ELSE 0, lastY |-> y1,
                timers |-> IF PagePre = NoSnap THEN pg.timers ELSE Timers(PagePre)]
      /\ st' = [st EXCEPT !.lastY = IF streamed /\ "stream" \in hooks THEN Stable(st) ELSE @,
                          !.timers = IF sp = NoSnap THEN @ ELSE Timers(sp)]
  BY Zenon DEF FeedPatched
<1>2. sp \in Snaps /\ PagePre \in Snaps /\ ReplyPre \in Snaps /\ NoSnap \in Snaps
  BY PreFacts, Zenon
<1>3. y0 \in 0 .. MaxY(ps)
  <2>1. ReplyRestored(ps, n, ReplyPre) \in 0 .. MaxY(ps)
    BY <1>2, RestoredFacts
  <2>. QED  BY <2>1, Zenon
<1> HIDE DEF y0
<1>4. y1 \in 0 .. MaxY(ps)
  BY <1>2, <1>3, UpdatedFacts
<1> HIDE DEF y1
<1>5. y2 \in 0 .. MaxY(ps)
  BY <1>2, <1>4, UpdatedFacts
<1>6. y1 \in Nat
  BY <1>4, MaxYFacts
<1>7. \A s \in Snaps : Timers(s) \in Waits
  BY DEF Timers, Waits
<1>8. pg' \in [pending : BOOLEAN, loadingMore : BOOLEAN, startY : Nat, lastY : Nat,
               timers : Waits]
  <2>1. pg.startY \in Nat /\ pg.timers \in Waits
    BY DEF FeedIInv
  <2>2. (IF loading THEN pg.startY ELSE 0) \in Nat
    BY <2>1
  <2>3. (IF PagePre = NoSnap THEN pg.timers ELSE Timers(PagePre)) \in Waits
    BY <2>1, <1>2, <1>7
  <2>4. (pg.pending /\ loading) \in BOOLEAN
    OBVIOUS
  <2>. QED  BY <1>1, <1>6, <2>2, <2>3, <2>4
<1> HIDE DEF sp, y2
<1>9. st' \in [lastY : Nat, timers : Waits]
  <2>1. st \in [lastY : Nat, timers : Waits] /\ Stable(st) \in Nat
    <3>1. y \in Nat
      BY MaxYFacts DEF FeedIInv
    <3>. QED  BY <3>1 DEF FeedIInv, Stable
  <2>2. (IF sp = NoSnap THEN st.timers ELSE Timers(sp)) \in Waits
    BY <2>1, <1>2, <1>7
  <2>3. (IF streamed /\ "stream" \in hooks THEN Stable(st) ELSE st.lastY) \in Nat
    BY <2>1
  <2>. QED  BY <1>1, <2>1, <2>2, <2>3
<1>10. ASSUME PostFound(ps, Snap(Anchor, y)), PagePre # NoSnap \/ (streamed /\ StreamPre # NoSnap)
       PROVE  y' = MaxY(ps) \/ Top(ps, y', Anchor.post) = Anchor.top
  <2> DEFINE z == Snap(Anchor, y)
  <2>1. z \in Snaps /\ z.anchor = Anchor /\ Anchor.top <= 0
    <3>1. Anchor \in [post : Int, top : Int] /\ Anchor.top <= 0 /\ y \in Int
      BY AnchorFacts, MaxYFacts DEF FeedIInv
    <3>. QED  BY <3>1 DEF Snap, Snaps
  <2>2. PostFound(ps, z)
    BY <1>10
  <2> HIDE DEF z
  <2>3. \A s \in Snaps : s.anchor = Anchor => PostFound(ps, s) /\ ToAnchor(ps, 0, s) = ToAnchor(ps, 0, z)
    BY <2>1, <2>2 DEF PostFound, ToAnchor
  <2>4. PagePre # NoSnap => y1 = ToAnchor(ps, 0, z)
    BY <2>3, <1>2, <1>3, PreFacts, UpdatedFacts DEF y1
  <2>5. sp # NoSnap => y2 = ToAnchor(ps, 0, z)
    <3>1. sp # NoSnap => sp.anchor = Anchor
      BY PreFacts DEF sp
    <3>. QED  BY <2>3, <3>1, <1>2, <1>4, UpdatedFacts DEF y2
  <2>6. sp = NoSnap => y2 = y1
    BY <1>2, <1>4, UpdatedFacts DEF y2
  <2>7. sp = NoSnap => PagePre # NoSnap
    BY <1>10 DEF sp
  <2>8. y' = ToAnchor(ps, 0, z)
    BY <1>1, <2>4, <2>5, <2>6, <2>7
  <2>9. \/ ToAnchor(ps, 0, z) = MaxY(ps)
        \/ Top(ps, ToAnchor(ps, 0, z), z.anchor.post) = z.anchor.top
    BY <2>1, <2>2, ToAnchorFacts
  <2>. QED  BY <2>1, <2>8, <2>9
<1>11. y' \in 0 .. MaxY(ps) /\ reply' \in Snaps /\ posts' = ps
  BY <1>1, <1>2, <1>5
<1>. QED  BY <1>8, <1>9, <1>10, <1>11

\* Where the browser leaves the page is in the feed.
LEMMA LeftFacts ==
  ASSUME FeedIInv, NEW ps, InOrder(ps)
  PROVE  Left(ps) \subseteq 0 .. MaxY(ps)
<1>1. y \in Int /\ MaxY(ps) \in Nat
  BY MaxYFacts DEF FeedIInv
<1>2. Clamp(ps, y) \in 0 .. MaxY(ps) /\ 0 \in 0 .. MaxY(ps)
  BY <1>1, ClampFacts
<1>3. Snap(Anchor, y) \in Snaps
  BY <1>1, AnchorFacts DEF Snap, Snaps, FeedIInv
<1>4. PostFound(ps, Snap(Anchor, y)) => ToAnchor(ps, y, Snap(Anchor, y)) \in 0 .. MaxY(ps)
  BY <1>1, <1>3, ToAnchorFacts
<1>. QED  BY <1>2, <1>4, Zenon DEF Left


LEMMA OrderFacts ==
  ASSUME NEW ps, InOrder(ps)
  PROVE  /\ ps \in Seq(Int) /\ Len(ps) \in Nat /\ Len(ps) >= 1 /\ DOMAIN ps = 1 .. Len(ps)
         /\ \A i \in 1 .. Len(ps) : ps[i] \in Int /\ ps[1] <= ps[i] /\ ps[i] <= ps[Len(ps)]
         /\ \A i, j \in 1 .. Len(ps) : i < j => ps[i] < ps[j]
<1>1. /\ ps \in Seq(Int) /\ Len(ps) \in Nat /\ Len(ps) >= 1 /\ DOMAIN ps = 1 .. Len(ps)
      /\ \A i, j \in 1 .. Len(ps) : i < j => ps[i] < ps[j]
      /\ \A i \in 1 .. Len(ps) : ps[i] \in Int
  BY DEF InOrder
<1>2. ASSUME NEW i \in 1 .. Len(ps) PROVE ps[1] <= ps[i] /\ ps[i] <= ps[Len(ps)]
  <2>1. 1 \in 1 .. Len(ps) /\ Len(ps) \in 1 .. Len(ps)
    BY <1>1
  <2>2. ps[1] \in Int /\ ps[i] \in Int /\ ps[Len(ps)] \in Int
    BY <1>1, <2>1
  <2>3. (1 < i => ps[1] < ps[i]) /\ (i < Len(ps) => ps[i] < ps[Len(ps)])
    BY <1>1, <2>1
  <2>4. (1 < i \/ i = 1) /\ (i < Len(ps) \/ i = Len(ps))
    <3>1. Len(ps) \in Nat
      OBVIOUS
    <3>. QED  BY <3>1
  <2>. QED  BY <2>2, <2>3, <2>4
<1>. QED  BY <1>1, <1>2

\* Posts are added below and above, and one of several is removed.
LEMMA OlderInOrder ==
  ASSUME NEW ps, InOrder(ps)
  PROVE  InOrder(Append(ps, ps[Len(ps)] + 1))
<1> DEFINE m == Len(ps)
           x == ps[m] + 1
           t == Append(ps, x)
<1>1. m \in Nat /\ m >= 1 /\ ps \in Seq(Int) /\ \A i, j \in 1 .. m : i < j => ps[i] < ps[j]
  BY OrderFacts
<1>2. x \in Int /\ \A i \in 1 .. m : ps[i] < x
  <2>1. m \in 1 .. m
    BY <1>1
  <2>2. ps[m] \in Int /\ \A i \in 1 .. m : ps[i] \in Int /\ ps[i] <= ps[m]
    BY <2>1, OrderFacts
  <2>. QED  BY <2>2
<1>3. t \in Seq(Int) /\ Len(t) = m + 1 /\ t[m + 1] = x /\ \A i \in 1 .. m : t[i] = ps[i]
  BY <1>1, <1>2
<1> HIDE DEF x, t, m
<1>4. DOMAIN t = 1 .. m + 1 /\ t # <<>>
  BY <1>1, <1>3
<1>5. ASSUME NEW i \in 1 .. m + 1, NEW j \in 1 .. m + 1, i < j PROVE t[i] < t[j]
  <2>1. i \in 1 .. m
    BY <1>1, <1>5
  <2>2. CASE j \in 1 .. m
    BY <1>1, <1>3, <1>5, <2>1, <2>2
  <2>3. CASE j = m + 1
    BY <1>2, <1>3, <2>1, <2>3
  <2>. QED  BY <1>1, <2>2, <2>3
<1>6. InOrder(t)
  BY <1>3, <1>4, <1>5 DEF InOrder
<1>. QED  BY <1>6 DEF t, x, m

LEMMA NewerInOrder ==
  ASSUME NEW ps, InOrder(ps), NEW k \in Nat
  PROVE  InOrder([i \in 1 .. k |-> ps[1] - 1 - k + i] \o ps)
<1> DEFINE m == Len(ps)
           f == ps[1]
           h == [i \in 1 .. k |-> f - 1 - k + i]
           t == h \o ps
<1>1. m \in Nat /\ m >= 1 /\ ps \in Seq(Int) /\ \A i, j \in 1 .. m : i < j => ps[i] < ps[j]
  BY OrderFacts
<1>2. f \in Int /\ \A i \in 1 .. m : ps[i] \in Int /\ f <= ps[i]
  <2>1. 1 \in 1 .. m
    BY <1>1
  <2>. QED  BY <2>1, OrderFacts
<1> HIDE DEF f
<1>3. h \in Seq(Int) /\ Len(h) = k /\ \A i \in 1 .. k : h[i] = f - 1 - k + i
  BY <1>2
<1> HIDE DEF h
<1>4. /\ t \in Seq(Int) /\ Len(t) = k + m
      /\ \A i \in 1 .. k + m : t[i] = IF i <= k THEN h[i] ELSE ps[i - k]
  <2>1. t \in Seq(Int) /\ Len(t) = k + m
    BY <1>1, <1>3
  <2>2. \A i \in 1 .. k + m : i <= k => t[i] = h[i]
    BY <1>1, <1>3
  <2>3. \A i \in 1 .. k + m : ~(i <= k) => t[i] = ps[i - k]
    BY <1>1, <1>3
  <2>. QED  BY <2>1, <2>2, <2>3
<1> HIDE DEF t, m
<1>5. DOMAIN t = 1 .. k + m /\ t # <<>>
  BY <1>1, <1>4
<1>6. ASSUME NEW i \in 1 .. k + m, NEW j \in 1 .. k + m, i < j PROVE t[i] < t[j]
  <2>1. i \in Nat /\ j \in Nat /\ i >= 1 /\ j >= 1 /\ i <= k + m /\ j <= k + m
    BY <1>1
  <2>2. ASSUME j <= k PROVE t[i] < t[j]
    <3>1. t[i] = f - 1 - k + i /\ t[j] = f - 1 - k + j
      BY <1>3, <1>4, <1>6, <2>1, <2>2
    <3>. QED  BY <3>1, <1>2, <1>6, <2>1
  <2>3. ASSUME i <= k, ~(j <= k) PROVE t[i] < t[j]
    <3>1. t[i] = f - 1 - k + i /\ t[j] = ps[j - k]
      BY <1>3, <1>4, <2>1, <2>3
    <3>2. j - k \in 1 .. m
      BY <1>1, <2>1, <2>3
    <3>3. ps[j - k] \in Int /\ f <= ps[j - k]
      BY <3>2, <1>2
    <3>. QED  BY <3>1, <3>3, <1>2, <2>1, <2>3
  <2>4. ASSUME ~(i <= k) PROVE t[i] < t[j]
    <3>1. ~(j <= k)
      BY <1>6, <2>1, <2>4
    <3>2. t[i] = ps[i - k] /\ t[j] = ps[j - k]
      BY <1>4, <3>1, <2>4
    <3>3. i - k \in 1 .. m /\ j - k \in 1 .. m /\ i - k < j - k
      BY <1>1, <1>6, <2>1, <2>4, <3>1
    <3>. QED  BY <3>2, <3>3, <1>1
  <2>. QED  BY <2>2, <2>3, <2>4
<1>7. InOrder(t)
  BY <1>4, <1>5, <1>6 DEF InOrder
<1>. QED  BY <1>7 DEF t, h, f

LEMMA RemovedInOrder ==
  ASSUME NEW ps, InOrder(ps), NEW k \in 1 .. Len(ps), Len(ps) > 1
  PROVE  InOrder(RemoveAt(ps, k))
<1> DEFINE m == Len(ps)
           a == SubSeq(ps, 1, k - 1)
           b == SubSeq(ps, k + 1, m)
           t == a \o b
<1>1. m \in Nat /\ m > 1 /\ ps \in Seq(Int) /\ \A i, j \in 1 .. m : i < j => ps[i] < ps[j]
  BY OrderFacts
<1>1a. k \in Nat /\ k >= 1 /\ k <= m
  BY <1>1
<1>2. a \in Seq(Int) /\ Len(a) = k - 1 /\ \A i \in 1 .. k - 1 : a[i] = ps[i]
  <2>1. \A i \in 1 .. k - 1 : ps[i] \in Int
    BY <1>1, <1>1a, OrderFacts
  <2>2. a \in Seq(Int)
    BY <2>1, <1>1, <1>1a
  <2>. QED  BY <2>2, <1>1, <1>1a
<1>3. b \in Seq(Int) /\ Len(b) = m - k /\ \A i \in 1 .. m - k : b[i] = ps[k + i]
  <2>1. \A i \in k + 1 .. m : ps[i] \in Int
    BY <1>1, <1>1a, OrderFacts
  <2>2. b \in Seq(Int)
    BY <2>1, <1>1, <1>1a
  <2>3. Len(b) = m - k
    BY <1>1, <1>1a
  <2>4. \A i \in 1 .. m - k : b[i] = ps[k + i]
    BY <1>1, <1>1a
  <2>. QED  BY <2>2, <2>3, <2>4
<1> HIDE DEF a, b
<1>4. t \in Seq(Int) /\ Len(t) = m - 1
  BY <1>1, <1>1a, <1>2, <1>3
<1>4a. \A i \in 1 .. m - 1 : t[i] = IF i < k THEN ps[i] ELSE ps[i + 1]
  <2> TAKE i \in 1 .. m - 1
  <2>1. CASE i < k
    BY <2>1, <1>1, <1>1a, <1>2, <1>3
  <2>2. CASE ~(i < k)
    <3>1. i - (k - 1) \in 1 .. m - k /\ k + (i - (k - 1)) = i + 1
      BY <2>2, <1>1, <1>1a
    <3>2. t[i] = b[i - (k - 1)]
      <4>1. i \in 1 .. Len(a) + Len(b) /\ ~(i <= Len(a))
        BY <2>2, <1>1, <1>1a, <1>2, <1>3
      <4>2. t[i] = b[i - Len(a)]
        BY <4>1, <1>2, <1>3
      <4>. QED  BY <4>2, <1>2
    <3>3. b[i - (k - 1)] = ps[k + (i - (k - 1))]
      BY <3>1, <1>3
    <3>. QED  BY <3>1, <3>2, <3>3, <2>2
  <2>. QED  BY <2>1, <2>2
<1> HIDE DEF t, m
<1>5. DOMAIN t = 1 .. m - 1 /\ t # <<>>
  BY <1>1, <1>4
<1>6. ASSUME NEW i \in 1 .. m - 1, NEW j \in 1 .. m - 1, i < j PROVE t[i] < t[j]
  <2>1. i \in 1 .. m /\ i + 1 \in 1 .. m /\ j \in 1 .. m /\ j + 1 \in 1 .. m
    BY <1>1
  <2>2. ps[i] < ps[j]
    BY <1>1, <1>6, <2>1
  <2>3. ps[i + 1] < ps[j + 1]
    BY <1>1, <1>6, <2>1
  <2>4. ps[i] < ps[j + 1]
    BY <1>1, <1>6, <2>1
  <2>5. j < k => i < k
    BY <1>1a, <1>6, <2>1
  <2>. QED  BY <1>4a, <2>2, <2>3, <2>4, <2>5
<1>7. InOrder(t)
  BY <1>4, <1>5, <1>6 DEF InOrder
<1>. QED  BY <1>7 DEF t, a, b, m, RemoveAt

\* Only an image that loads changes how far the posts reach.
LEMMA SameReach ==
  ASSUME UNCHANGED tall, NEW ps, posts' = ps
  PROVE  MaxY(posts)' = MaxY(ps)
  BY DEF MaxY, Extent, Max2

LEMMA ImageReach ==
  ASSUME InOrder(posts), UNCHANGED posts, NEW p \in ToSet(posts), p \notin tall, tall' = tall \cup {p}
  PROVE  MaxY(posts)' \in Nat /\ MaxY(posts) + 1 <= MaxY(posts)'
<1> DEFINE m == Len(posts)
           T == {i \in 1 .. m : posts[i] \in tall}
           U == {i \in 1 .. m : posts[i] \in tall \cup {p}}
<1>1. m \in Nat /\ m >= 1 /\ IsFiniteSet(1 .. m) /\ DOMAIN posts = 1 .. m
  BY OrderFacts, FS_Interval
<1>2. T \in SUBSET U /\ U \in SUBSET (1 .. m)
  OBVIOUS
<1>3. IsFiniteSet(U) /\ IsFiniteSet(T)
  BY <1>1, <1>2, FS_Subset
<1>4. T # U
  <2>1. PICK i \in 1 .. m : p = posts[i]
    BY <1>1 DEF ToSet
  <2>2. i \in U /\ i \notin T
    BY <2>1
  <2>. QED  BY <2>2
<1>5. Cardinality(T) <= Cardinality(U) /\ Cardinality(T) # Cardinality(U)
  BY <1>2, <1>3, <1>4, FS_Subset
<1>6. Cardinality(T) \in Nat /\ Cardinality(U) \in Nat
  BY <1>3, FS_CardinalityType
<1>7. MaxY(posts) = Max2(0, (m + Cardinality(T)) - 1)
  BY DEF MaxY, Extent
<1>8. MaxY(posts)' = Max2(0, (m + Cardinality(U)) - 1)
  BY DEF MaxY, Extent, Max2
<1> HIDE DEF T, U, m
<1>. QED  BY <1>1, <1>5, <1>6, <1>7, <1>8 DEF Max2

LEMMA FeedBegins == FeedInit => FeedIInv
<1> SUFFICES ASSUME FeedInit PROVE FeedIInv
  OBVIOUS
<1>1. posts = <<1, 2, 3>> /\ y = 0
  BY DEF FeedInit
<1>2. InOrder(posts)
  <2>1. posts \in Seq(Int) /\ DOMAIN posts = {1, 2, 3} /\ posts # <<>>
        /\ posts[1] = 1 /\ posts[2] = 2 /\ posts[3] = 3
    BY <1>1
  <2>. QED  BY <2>1 DEF InOrder
<1>3. NoSnap \in Snaps /\ NoTimers \in Waits
  BY DEF NoSnap, Snap, Snaps, NoAnchor, NoTimers, Waits
<1>4. y \in 0 .. MaxY(posts)
  BY <1>1, <1>2, MaxYFacts
<1>. QED  BY <1>2, <1>3, <1>4 DEF FeedInit, FeedIInv

\* Each patch of the server in turn: the feed it leaves is a list of posts.
LEMMA PatchesFacts ==
  ASSUME FeedIInv, Patches
  PROVE  /\ UNCHANGED tall
         /\ queue' \in [queued : Nat, up : BOOLEAN, left : Nat, smooth : BOOLEAN]
         /\ \/ UNCHANGED <<posts, y, echo, reply, pg, st>>
            \/ \E ps, n, loading, streamed :
                  /\ InOrder(ps) /\ n \in 0 .. MaxY(ps)
                  /\ loading \in BOOLEAN /\ streamed \in BOOLEAN
                  /\ ~streamed => ps = posts
                  /\ FeedPatched(ps, n, loading, streamed)
<1> DEFINE Q == [queued : Nat, up : BOOLEAN, left : Nat, smooth : BOOLEAN]
<1>1. InOrder(posts) /\ posts # <<>> /\ y \in 0 .. MaxY(posts) /\ queue \in Q
  BY DEF FeedIInv, InOrder
<1>2. \A v : [queue EXCEPT !.smooth = @ /\ v] \in Q
  <2> TAKE v
  <2>1. (queue.smooth /\ v) \in BOOLEAN
    BY <1>1
  <2>. QED  BY <1>1, <2>1
<1>3. \A q \in Nat : ButtonAfter(q) \in Q
  BY <1>1 DEF ButtonAfter
<1>4. CASE Loading
  <2>1. FeedPatched(posts, y, TRUE, FALSE) /\ UNCHANGED <<tall, queue>>
    BY <1>4 DEF Loading
  <2>. QED  BY <1>1, <2>1
<1>5. CASE PostQueued
  <2>1. queue' = [ButtonAfter(queue.queued + 1) EXCEPT !.smooth = queue.smooth /\ y' = y]
        /\ UNCHANGED tall
    BY <1>5 DEF PostQueued
  <2>2. queue' \in Q
    <3> DEFINE b == ButtonAfter(queue.queued + 1)
    <3>1. queue.queued + 1 \in Nat
      BY <1>1
    <3>2. b \in Q
      BY <3>1, <1>3
    <3>3. (queue.smooth /\ y' = y) \in BOOLEAN
      BY <1>1
    <3> HIDE DEF b
    <3>. QED  BY <2>1, <3>2, <3>3 DEF b
  <2>3. CASE hooks = Timeline
    <3>1. FeedPatched(posts, y, server = "loading", FALSE)
      BY <1>5, <2>3 DEF PostQueued
    <3>2. (server = "loading") \in BOOLEAN
      OBVIOUS
    <3>. QED  BY <1>1, <2>1, <2>2, <3>1, <3>2
  <2>4. CASE hooks # Timeline
    BY <1>5, <2>1, <2>2, <2>4 DEF PostQueued
  <2>. QED  BY <2>3, <2>4
<1>6. CASE OlderPosts
  <2> DEFINE ps == Append(posts, posts[Len(posts)] + 1)
  <2>1. PICK n \in Left(ps) : FeedPatched(ps, n, FALSE, TRUE)
    BY <1>1, <1>6, Zenon DEF OlderPosts
  <2>2. InOrder(ps)
    BY <1>1, OlderInOrder
  <2>3. n \in 0 .. MaxY(ps)
    BY <2>1, <2>2, LeftFacts
  <2>4. UNCHANGED tall /\ queue' \in Q
    BY <1>2, <1>6 DEF OlderPosts
  <2> HIDE DEF ps
  <2>. QED  BY <2>1, <2>2, <2>3, <2>4
<1>7. CASE ShowQueued
  <2>1. PICK k \in {0, queue.queued} :
           \E n \in Left([i \in 1 .. k |-> posts[1] - 1 - k + i] \o posts) :
              FeedPatched([i \in 1 .. k |-> posts[1] - 1 - k + i] \o posts, n, server = "loading", TRUE)
    BY <1>7, Zenon DEF ShowQueued
  <2> DEFINE ps == [i \in 1 .. k |-> posts[1] - 1 - k + i] \o posts
  <2>2. PICK n \in Left(ps) : FeedPatched(ps, n, server = "loading", TRUE)
    BY <2>1, Zenon
  <2>3. k \in Nat
    BY <1>1
  <2>4. InOrder(ps)
    BY <1>1, <2>3, NewerInOrder
  <2>5. n \in 0 .. MaxY(ps)
    BY <2>2, <2>4, LeftFacts
  <2>6. UNCHANGED tall /\ queue' \in Q
    BY <1>3, <1>7 DEF ShowQueued
  <2>7. (server = "loading") \in BOOLEAN
    OBVIOUS
  <2> HIDE DEF ps
  <2>. QED  BY <2>2, <2>4, <2>5, <2>6, <2>7
<1>8. CASE \E p \in ToSet(posts) : RemovesPost(p)
  <2>1. PICK p \in ToSet(posts) : RemovesPost(p)
    BY <1>8
  <2> DEFINE ps == RemoveAt(posts, Index(posts, p))
  <2>2. PICK n \in Left(ps) : FeedPatched(ps, n, server = "loading", TRUE)
    BY <2>1, Zenon DEF RemovesPost
  <2>3. Index(posts, p) \in 1 .. Len(posts) /\ Len(posts) > 1
    BY <1>1, <2>1, IndexFacts DEF RemovesPost
  <2>4. InOrder(ps)
    BY <1>1, <2>3, RemovedInOrder
  <2>5. n \in 0 .. MaxY(ps)
    BY <2>2, <2>4, LeftFacts
  <2>6. UNCHANGED tall /\ queue' \in Q
    BY <1>2, <2>1 DEF RemovesPost
  <2>7. (server = "loading") \in BOOLEAN
    OBVIOUS
  <2> HIDE DEF ps
  <2>. QED  BY <2>2, <2>4, <2>5, <2>6, <2>7
<1>. QED  BY <1>4, <1>5, <1>6, <1>7, <1>8 DEF Patches

LEMMA FeedGoesOn == FeedIInv /\ [FeedNext]_feedVars => FeedIInv'
<1> SUFFICES ASSUME FeedIInv, [FeedNext]_feedVars PROVE FeedIInv'
  OBVIOUS
<1> DEFINE P == [pending : BOOLEAN, loadingMore : BOOLEAN, startY : Nat, lastY : Nat, timers : Waits]
           Q == [queued : Nat, up : BOOLEAN, left : Nat, smooth : BOOLEAN]
           S == [lastY : Nat, timers : Waits]
<1>1. /\ InOrder(posts) /\ y \in 0 .. MaxY(posts) /\ reply \in Snaps
      /\ pg \in P /\ st \in S /\ queue \in Q
  BY DEF FeedIInv
<1>2. y \in Nat /\ MaxY(posts) \in Nat
  BY <1>1, MaxYFacts
<1>3. /\ NoTimers \in Waits
      /\ \A w \in Waits : w.left > 0 => [w EXCEPT !.left = @ - 1] \in Waits
  BY DEF NoSnap, Snap, Snaps, NoAnchor, NoTimers, Waits
<1>4. \A v : [queue EXCEPT !.smooth = @ /\ v] \in Q
  <2> TAKE v
  <2>1. (queue.smooth /\ v) \in BOOLEAN
    BY <1>1
  <2>. QED  BY <1>1, <2>1
<1>5. \A v \in BOOLEAN : [queue EXCEPT !.smooth = v] \in Q
  BY <1>1
<1>6. ASSUME UNCHANGED <<posts, tall>>, y' \in 0 .. MaxY(posts),
             reply' \in Snaps, pg' \in P, st' \in S, queue' \in Q
      PROVE  FeedIInv'
  <2>1. MaxY(posts)' = MaxY(posts) /\ InOrder(posts)'
    BY <1>1, <1>6, SameReach
  <2>. QED  BY <1>6, <2>1 DEF FeedIInv
<1>7. CASE Patches
  <2>1. UNCHANGED tall /\ queue' \in Q
    BY <1>7, PatchesFacts
  <2>2. CASE UNCHANGED <<posts, y, echo, reply, pg, st>>
    BY <1>1, <1>6, <2>1, <2>2
  <2>3. CASE ~(UNCHANGED <<posts, y, echo, reply, pg, st>>)
    <3>1. PICK ps, n, loading, streamed :
             /\ InOrder(ps) /\ n \in 0 .. MaxY(ps)
             /\ loading \in BOOLEAN /\ streamed \in BOOLEAN
             /\ FeedPatched(ps, n, loading, streamed)
      BY <1>7, <2>3, PatchesFacts
    <3>2. /\ posts' = ps /\ y' \in 0 .. MaxY(ps) /\ reply' \in Snaps /\ pg' \in P /\ st' \in S
      BY <3>1, PatchFacts
    <3>3. MaxY(posts)' = MaxY(ps) /\ InOrder(posts)'
      BY <2>1, <3>1, <3>2, SameReach
    <3>. QED  BY <2>1, <3>2, <3>3 DEF FeedIInv
  <2>. QED  BY <2>2, <2>3
<1>8. CASE NoMore
  BY <1>1, <1>6, <1>8 DEF NoMore
<1>9. CASE ClicksLoadMore
  <2>1. pg' \in P
    BY <1>1, <1>2, <1>9 DEF ClicksLoadMore
  <2>. QED  BY <1>1, <1>6, <1>9, <2>1 DEF ClicksLoadMore
<1>10. CASE ClicksLike
  <2>1. Snap(Anchor, y) \in Snaps
    BY <1>1, <1>2, AnchorFacts DEF Snap, Snaps
  <2>. QED  BY <1>1, <1>6, <1>10, <2>1 DEF ClicksLike
<1>11. CASE ClicksQueued
  <2>1. NoSnap \in Snaps
    BY DEF NoSnap, Snap, Snaps, NoAnchor
  <2>2. queue' \in Q
    BY <1>1, <1>11 DEF ClicksQueued
  <2>. QED  BY <1>1, <1>6, <1>11, <2>1, <2>2 DEF ClicksQueued
<1>12. CASE \E n \in 0 .. MaxY(posts) : ReaderScrolls(n)
  BY <1>1, <1>5, <1>6, <1>12 DEF ReaderScrolls
<1>13. CASE \E p \in ToSet(posts) : ImageLoads(p)
  <2>1. PICK p \in ToSet(posts) : ImageLoads(p)
    BY <1>13
  <2>2. PICK d \in {0, 1} : y' = y + d
    BY <2>1 DEF ImageLoads
  <2>3. /\ p \notin tall /\ tall' = tall \cup {p}
        /\ UNCHANGED <<hooks, posts, reply, pg, st, queue, server>>
    BY <2>1 DEF ImageLoads
  <2>4. MaxY(posts)' \in Nat /\ MaxY(posts) + 1 <= MaxY(posts)'
    BY <1>1, <2>3, ImageReach
  <2>6. y' \in 0 .. MaxY(posts)'
    BY <1>1, <1>2, <2>2, <2>4
  <2>7. InOrder(posts)'
    BY <1>1, <2>3 DEF InOrder
  <2>. QED  BY <1>1, <2>3, <2>6, <2>7 DEF FeedIInv
<1>14. CASE ScrollEvent
  <2>1. pg' \in P /\ st' \in S
    BY <1>1, <1>2, <1>3, <1>14 DEF ScrollEvent
  <2>. QED  BY <1>1, <1>6, <1>14, <2>1 DEF ScrollEvent
<1>15. CASE PageRestores
  <2>1. pg.timers \in Waits /\ pg.timers.snap \in Snaps
    BY <1>1 DEF Waits
  <2>2. PageRestored(posts, y, pg.timers.snap) \in 0 .. MaxY(posts)
    BY <1>1, <2>1, RestoredFacts
  <2>3. pg' \in P
    BY <1>1, <1>3, <1>15, <2>1 DEF PageRestores
  <2>4. y' \in 0 .. MaxY(posts) /\ queue' \in Q /\ UNCHANGED <<posts, tall, reply, st>>
    BY <1>4, <1>15, <2>2, Zenon DEF PageRestores
  <2>. QED  BY <1>1, <1>6, <2>3, <2>4
<1>16. CASE StreamRestores
  <2>1. st.timers \in Waits /\ st.timers.snap \in Snaps
    BY <1>1 DEF Waits
  <2>2. StreamRestored(posts, y, st.timers.snap) \in 0 .. MaxY(posts)
    BY <1>1, <2>1, RestoredFacts
  <2>3. st' \in S
    BY <1>1, <1>3, <1>16, <2>1 DEF StreamRestores
  <2>4. y' \in 0 .. MaxY(posts) /\ queue' \in Q /\ UNCHANGED <<posts, tall, reply, pg>>
    BY <1>4, <1>16, <2>2, Zenon DEF StreamRestores
  <2>. QED  BY <1>1, <1>6, <2>3, <2>4
<1>17. CASE ButtonScrolls
  <2>1. \A l \in Nat, v \in BOOLEAN : [queue EXCEPT !.left = l, !.smooth = v] \in Q
    BY <1>1
  <2>2. queue.left - 1 \in Nat /\ (y > 0) \in BOOLEAN
    BY <1>1, <1>17 DEF ButtonScrolls
  <2>3. queue' = [queue EXCEPT !.left = queue.left - 1, !.smooth = y > 0]
    BY <1>17 DEF ButtonScrolls
  <2>4. queue' \in Q
    BY <2>1, <2>2, <2>3, Zenon
  <2>. QED  BY <1>1, <1>6, <1>17, <2>4 DEF ButtonScrolls
<1>18. CASE SmoothStep
  <2>1. y' \in 0 .. MaxY(posts)
    BY <1>1, <1>2, <1>18 DEF SmoothStep
  <2>2. queue' \in Q
    <3>1. queue' = [queue EXCEPT !.smooth = y > 1] /\ (y > 1) \in BOOLEAN
      BY <1>18 DEF SmoothStep
    <3>. QED  BY <1>5, <3>1, Zenon
  <2>. QED  BY <1>1, <1>6, <1>18, <2>1, <2>2 DEF SmoothStep
<1>19. CASE UNCHANGED feedVars
  BY <1>1, <1>6, <1>19 DEF feedVars
<1>. QED
  BY <1>7, <1>8, <1>9, <1>10, <1>11, <1>12, <1>13, <1>14, <1>15, <1>16, <1>17, <1>18, <1>19
  DEF FeedNext

\* For any number of gestures and patches: the feed stays in its order, the page
\* is scrolled within it, and what the hooks remember are places in a feed
\* (beforeUpdate, scheduleSettledRestore, schedulePendingRestore).
THEOREM FeedInvariance == FeedSpec => []FeedIInv
<1>. QED  BY FeedBegins, FeedGoesOn, PTL DEF FeedSpec

\* A patch that comes in a load cycle, or below the top of the timeline, leaves
\* the post at the edge of the screen where it was, unless it goes or the page
\* ends there: whichever hooks restore, one after the other, and wherever the
\* browser left the page (restoreAnchorPosition, updated).
THEOREM PlaceIsKept == FeedSpec => ReaderKeepsPlace
<1> DEFINE A == /\ Patches
                /\ PagePre # NoSnap \/ (posts' # posts /\ StreamPre # NoSnap)
                => \/ ~PostFound(posts', Snap(Anchor, y))
                   \/ y' = MaxY(posts')
                   \/ Top(posts', y', Anchor.post) = Anchor.top
<1>1. ASSUME FeedIInv, [FeedNext]_feedVars PROVE [A]_feedVars
  <2> SUFFICES ASSUME Patches, ~UNCHANGED feedVars,
                      PagePre # NoSnap \/ (posts' # posts /\ StreamPre # NoSnap),
                      PostFound(posts', Snap(Anchor, y))
               PROVE  y' = MaxY(posts') \/ Top(posts', y', Anchor.post) = Anchor.top
    OBVIOUS
  <2>1. CASE UNCHANGED <<posts, y, echo, reply, pg, st>>
    <3>1. InOrder(posts) /\ y \in 0 .. MaxY(posts)
      BY <1>1 DEF FeedIInv
    <3>. QED  BY <2>1, <3>1, AnchorFacts
  <2>2. CASE ~(UNCHANGED <<posts, y, echo, reply, pg, st>>)
    <3>1. PICK ps, n, loading, streamed :
             /\ InOrder(ps) /\ n \in 0 .. MaxY(ps)
             /\ loading \in BOOLEAN /\ streamed \in BOOLEAN
             /\ ~streamed => ps = posts
             /\ FeedPatched(ps, n, loading, streamed)
      BY <1>1, <2>2, PatchesFacts
    <3>2. posts' = ps
      BY <1>1, <3>1, PatchFacts
    <3>3. PagePre # NoSnap \/ (streamed /\ StreamPre # NoSnap)
      BY <3>1, <3>2
    <3>4. y' = MaxY(ps) \/ Top(ps, y', Anchor.post) = Anchor.top
      BY <1>1, <3>1, <3>2, <3>3, PatchFacts
    <3>. QED  BY <3>2, <3>4
  <2>. QED  BY <2>1, <2>2
<1>. QED  BY <1>1, FeedInvariance, PTL DEF FeedSpec, ReaderKeepsPlace
=============================================================================
