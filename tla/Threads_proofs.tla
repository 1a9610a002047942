---------------------------- MODULE Threads_proofs ---------------------------
(***************************************************************************)
(* Proofs about the threads of pins and what they are told, for every      *)
(* value of the constants.                                                 *)
(*                                                                         *)
(* A pin that is blocked, PinInv: who uses it, who blocks it, and which    *)
(* events are set.  A worker and its caller, AnswerInv: a call is under    *)
(* way exactly from the request to the answer, which is to that request;   *)
(* it is the same for the source and for the pull pin.  What the caller    *)
(* may then rely on is where the worker is: PlaceInv and CommandInv of the *)
(* source, TodoInv and SentInv of the pull pin, whose calls are sequences  *)
(* of steps of which only so many are left.  RequestsInv and ProcessInv    *)
(* relate what the reader has been asked for, what the filter has received *)
(* and the position between them.  Scheduled and HeldInv are about the     *)
(* requests of CBaseStreamControl and the sample it holds, DecodableInv    *)
(* about the frames skipped by CVideoTransformFilter.                      *)
(***************************************************************************)
EXTENDS MCThreads, SequenceTheorems, TLAPS

-----------------------------------------------------------------------------
(* A pin that may be blocked: CDynamicOutputPin.                           *)

\* The pin has users while the streaming thread is downstream.
UsersInv ==
  /\ stream \in {"out", "starting", "waiting"} <=> users = 0
  /\ m_BlockState = "BLOCKED" => users = 0

\* The thread that has blocked the pin is the one to be told, and until it is told
\* the block is pending.
CallerInv ==
  /\ notify # NoThread => notify = m_dwBlockCallerThreadID
  /\ (notify # NoThread) <=> m_BlockState = "PENDING"
  /\ (m_dwBlockCallerThreadID # NoThread) <=> m_BlockState # "NOT_BLOCKED"
  /\ unblockEvent <=> m_BlockState # "BLOCKED"
  /\ \A t \in Apps : m_dwBlockCallerThreadID = t =>
       /\ at[t] # "idle"
       /\ at[t] \in {"blocked", "reconnecting"} \/ t \in event => m_BlockState = "BLOCKED"

\* A change of format finds an active filter and a committed allocator.
FormatInv ==
  ~torn =>
    /\ stream \in {"changing", "deciding"} => active
    /\ connected /\ stream # "deciding" => (committed <=> active)

PinInv == TypeOK /\ UsersInv /\ CallerInv /\ FormatInv

\* TypeOK, by kinds of values.
Flags ==
  /\ unblockEvent \in BOOLEAN /\ stopEvent \in BOOLEAN /\ nested \in BOOLEAN
  /\ active \in BOOLEAN /\ committed \in BOOLEAN /\ connected \in BOOLEAN
  /\ missed \in BOOLEAN /\ torn \in BOOLEAN
Counted ==
  users \in 0..MaxUsers /\ at \in [Apps -> {"idle", "waiting", "blocked", "reconnecting"}]
Placed ==
  /\ m_BlockState \in {"NOT_BLOCKED", "PENDING", "BLOCKED"}
  /\ m_dwBlockCallerThreadID \in Apps \cup {NoThread}
  /\ notify \in Apps \cup {NoThread}
  /\ event \subseteq Apps
  /\ stream \in {"out", "starting", "waiting", "using", "changing", "deciding"}

LEMMA PinTypes == TypeOK <=> Flags /\ Counted /\ Placed
BY Zenon DEF TypeOK, Flags, Counted, Placed

LEMMA PinStart == ASSUME DynamicPinAssumption, Init PROVE PinInv
<1> USE NoThreadAssumption DEF DynamicPinAssumption, Init, users
<1>1. TypeOK
  <2>1. Flags
    BY Zenon DEF Flags
  <2>2. Counted /\ Placed
    BY DEF Counted, Placed
  <2> QED BY <2>1, <2>2, PinTypes
<1>2. UsersInv /\ CallerInv
  BY DEF UsersInv, CallerInv
<1>3. FormatInv
  BY DEF FormatInv
<1> QED BY <1>1, <1>2, <1>3 DEF PinInv

LEMMA PinStep == ASSUME DynamicPinAssumption, PinInv, [Next]_vars PROVE PinInv'
<1>a. TypeOK /\ UsersInv /\ CallerInv /\ FormatInv
  BY DEF PinInv
<1> USE NoThreadAssumption
        DEF DynamicPinAssumption, users, blockVars, appVars, streamVars, filterVars, BlockOutputPin
<1>1. ASSUME NEW t \in Apps, AsynchronousBlockOutputPin(t) PROVE PinInv'
  <2>1. TypeOK'
    <3>1. Flags'
      BY <1>a, <1>1 DEF TypeOK, UsersInv, Flags, AsynchronousBlockOutputPin
    <3>2. Counted'
      BY <1>a, <1>1 DEF TypeOK, UsersInv, Counted, AsynchronousBlockOutputPin
    <3>3. Placed'
      BY <1>a, <1>1 DEF TypeOK, UsersInv, CallerInv, Placed, AsynchronousBlockOutputPin
    <3> QED BY <3>1, <3>2, <3>3, Zenon DEF TypeOK, Flags, Counted, Placed
  <2>2. UsersInv'
    <3>1. users' = users /\ stream' = stream
      BY <1>1 DEF AsynchronousBlockOutputPin
    <3>2. m_BlockState' = "BLOCKED" => ~(users > 0)
      BY <1>1 DEF AsynchronousBlockOutputPin
    <3> QED BY <1>a, <3>1, <3>2 DEF TypeOK, UsersInv
  <2>3. CallerInv'
    BY <1>a, <1>1 DEF TypeOK, UsersInv, CallerInv, AsynchronousBlockOutputPin
  <2>4. FormatInv'
    BY <1>a, <1>1 DEF TypeOK, UsersInv, CallerInv, FormatInv, AsynchronousBlockOutputPin
  <2> QED BY <2>1, <2>2, <2>3, <2>4 DEF PinInv
<1>2. ASSUME NEW t \in Apps, BlockReturns(t) PROVE PinInv'
  <2>1. TypeOK'
    BY <1>a, <1>2 DEF TypeOK, UsersInv, BlockReturns
  <2>2. UsersInv'
    BY <1>a, <1>2 DEF TypeOK, UsersInv, CallerInv, BlockReturns
  <2>3. CallerInv'
    BY <1>a, <1>2 DEF TypeOK, UsersInv, CallerInv, BlockReturns
  <2>4. FormatInv'
    BY <1>a, <1>2 DEF TypeOK, UsersInv, CallerInv, FormatInv, BlockReturns
  <2> QED BY <2>1, <2>2, <2>3, <2>4 DEF PinInv
<1>3. ASSUME NEW t \in Apps, UnblockOutputPin(t) PROVE PinInv'
  <2>1. TypeOK'
    <3>1. Flags'
      BY <1>a, <1>3 DEF TypeOK, UsersInv, Flags, UnblockOutputPin
    <3>2. Counted'
      BY <1>a, <1>3 DEF TypeOK, UsersInv, Counted, UnblockOutputPin
    <3>3. Placed'
      BY <1>a, <1>3 DEF TypeOK, UsersInv, CallerInv, Placed, UnblockOutputPin
    <3> QED BY <3>1, <3>2, <3>3, Zenon DEF TypeOK, Flags, Counted, Placed
  <2>2. UsersInv'
    BY <1>a, <1>3 DEF TypeOK, UsersInv, CallerInv, UnblockOutputPin
  <2>3. CallerInv'
    BY <1>a, <1>3 DEF TypeOK, UsersInv, CallerInv, UnblockOutputPin
  <2>4. FormatInv'
    BY <1>a, <1>3 DEF TypeOK, UsersInv, CallerInv, FormatInv, UnblockOutputPin
  <2> QED BY <2>1, <2>2, <2>3, <2>4 DEF PinInv
<1>4. ASSUME NEW t \in Apps, Disconnect(t) PROVE PinInv'
  <2>1. TypeOK'
    <3>1. Flags'
      BY <1>a, <1>4 DEF TypeOK, UsersInv, Flags, Disconnect
    <3>2. Counted'
      BY <1>a, <1>4 DEF TypeOK, UsersInv, Counted, Disconnect
    <3>3. Placed'
      BY <1>a, <1>4 DEF TypeOK, UsersInv, CallerInv, Placed, Disconnect
    <3> QED BY <3>1, <3>2, <3>3, Zenon DEF TypeOK, Flags, Counted, Placed
  <2>2. UsersInv'
    BY <1>a, <1>4 DEF TypeOK, UsersInv, CallerInv, Disconnect
  <2>3. CallerInv'
    BY <1>a, <1>4 DEF TypeOK, UsersInv, CallerInv, Disconnect
  <2>4. FormatInv'
    BY <1>a, <1>4 DEF TypeOK, UsersInv, CallerInv, FormatInv, Disconnect
  <2> QED BY <2>1, <2>2, <2>3, <2>4 DEF PinInv
<1>5. ASSUME NEW t \in Apps, CompleteConnect(t) PROVE PinInv'
  <2>1. TypeOK'
    <3>1. Flags'
      BY <1>a, <1>5 DEF TypeOK, UsersInv, Flags, CompleteConnect
    <3>2. Counted'
      BY <1>a, <1>5 DEF TypeOK, UsersInv, Counted, CompleteConnect
    <3>3. Placed'
      BY <1>a, <1>5 DEF TypeOK, UsersInv, CallerInv, Placed, CompleteConnect
    <3> QED BY <3>1, <3>2, <3>3, Zenon DEF TypeOK, Flags, Counted, Placed
  <2>2. UsersInv'
    BY <1>a, <1>5 DEF TypeOK, UsersInv, CallerInv, CompleteConnect
  <2>3. CallerInv'
    BY <1>a, <1>5 DEF TypeOK, UsersInv, CallerInv, CompleteConnect
  <2>4. FormatInv'
    BY <1>a, <1>5 DEF TypeOK, UsersInv, CallerInv, FormatInv, CompleteConnect
  <2> QED BY <2>1, <2>2, <2>3, <2>4 DEF PinInv
<1>6. CASE StartUsingOutputPin
  <2>1. TypeOK'
    BY <1>a, <1>6 DEF TypeOK, UsersInv, StartUsingOutputPin
  <2>2. UsersInv'
    BY <1>a, <1>6 DEF TypeOK, UsersInv, CallerInv, StartUsingOutputPin
  <2>3. CallerInv'
    BY <1>a, <1>6 DEF TypeOK, UsersInv, CallerInv, StartUsingOutputPin
  <2>4. FormatInv'
    BY <1>a, <1>6 DEF TypeOK, UsersInv, CallerInv, FormatInv, StartUsingOutputPin
  <2> QED BY <2>1, <2>2, <2>3, <2>4 DEF PinInv
<1>7. CASE ChangeMediaType
  <2>1. TypeOK'
    BY <1>a, <1>7 DEF TypeOK, UsersInv, ChangeMediaType
  <2>2. UsersInv'
    BY <1>a, <1>7 DEF TypeOK, UsersInv, CallerInv, ChangeMediaType
  <2>3. CallerInv'
    BY <1>a, <1>7 DEF TypeOK, UsersInv, CallerInv, ChangeMediaType
  <2>4. FormatInv'
    BY <1>a, <1>7 DEF TypeOK, UsersInv, CallerInv, FormatInv, ChangeMediaType
  <2> QED BY <2>1, <2>2, <2>3, <2>4 DEF PinInv
<1>8. CASE WaitForEvents
  <2>1. TypeOK'
    BY <1>a, <1>8 DEF TypeOK, UsersInv, WaitForEvents
  <2>2. UsersInv'
    BY <1>a, <1>8 DEF TypeOK, UsersInv, CallerInv, WaitForEvents
  <2>3. CallerInv'
    BY <1>a, <1>8 DEF TypeOK, UsersInv, CallerInv, WaitForEvents
  <2>4. FormatInv'
    BY <1>a, <1>8 DEF TypeOK, UsersInv, CallerInv, FormatInv, WaitForEvents
  <2> QED BY <2>1, <2>2, <2>3, <2>4 DEF PinInv
<1>9. CASE StopUsingOutputPin
  <2>1. TypeOK'
    <3>1. Flags'
      BY <1>a, <1>9 DEF TypeOK, UsersInv, Flags, StopUsingOutputPin
    <3>2. Counted'
      BY <1>a, <1>9 DEF TypeOK, UsersInv, Counted, StopUsingOutputPin
    <3>3. Placed'
      BY <1>a, <1>9 DEF TypeOK, UsersInv, CallerInv, Placed, StopUsingOutputPin
    <3> QED BY <3>1, <3>2, <3>3, Zenon DEF TypeOK, Flags, Counted, Placed
  <2>2. UsersInv'
    BY <1>a, <1>9 DEF TypeOK, UsersInv, CallerInv, StopUsingOutputPin
  <2>3. CallerInv'
    BY <1>a, <1>9 DEF TypeOK, UsersInv, CallerInv, StopUsingOutputPin
  <2>4. FormatInv'
    BY <1>a, <1>9 DEF TypeOK, UsersInv, CallerInv, FormatInv, StopUsingOutputPin
  <2> QED BY <2>1, <2>2, <2>3, <2>4 DEF PinInv
<1>10. CASE ChangeMediaTypeHelper
  <2>1. TypeOK'
    <3>1. Flags'
      BY <1>a, <1>10 DEF TypeOK, UsersInv, Flags, ChangeMediaTypeHelper
    <3>2. Counted'
      BY <1>a, <1>10 DEF TypeOK, UsersInv, Counted, ChangeMediaTypeHelper
    <3>3. Placed'
      BY <1>a, <1>10 DEF TypeOK, UsersInv, CallerInv, Placed, ChangeMediaTypeHelper
    <3> QED BY <3>1, <3>2, <3>3, Zenon DEF TypeOK, Flags, Counted, Placed
  <2>2. UsersInv'
    BY <1>a, <1>10 DEF TypeOK, UsersInv, CallerInv, ChangeMediaTypeHelper
  <2>3. CallerInv'
    BY <1>a, <1>10 DEF TypeOK, UsersInv, CallerInv, ChangeMediaTypeHelper
  <2>4. FormatInv'
    BY <1>a, <1>10 DEF TypeOK, UsersInv, CallerInv, FormatInv, ChangeMediaTypeHelper
  <2> QED BY <2>1, <2>2, <2>3, <2>4 DEF PinInv
<1>11. CASE Active
  <2>1. TypeOK'
    BY <1>a, <1>11 DEF TypeOK, UsersInv, Active
  <2>2. UsersInv'
    BY <1>a, <1>11 DEF TypeOK, UsersInv, CallerInv, Active
  <2>3. CallerInv'
    BY <1>a, <1>11 DEF TypeOK, UsersInv, CallerInv, Active
  <2>4. FormatInv'
    BY <1>a, <1>11 DEF TypeOK, UsersInv, CallerInv, FormatInv, Active
  <2> QED BY <2>1, <2>2, <2>3, <2>4 DEF PinInv
<1>12. CASE Inactive
  <2>1. TypeOK'
    BY <1>a, <1>12 DEF TypeOK, UsersInv, Inactive
  <2>2. UsersInv'
    BY <1>a, <1>12 DEF TypeOK, UsersInv, CallerInv, Inactive
  <2>3. CallerInv'
    BY <1>a, <1>12 DEF TypeOK, UsersInv, CallerInv, Inactive
  <2>4. FormatInv'
    BY <1>a, <1>12 DEF TypeOK, UsersInv, CallerInv, FormatInv, Inactive
  <2> QED BY <2>1, <2>2, <2>3, <2>4 DEF PinInv
<1>13. CASE DeliverBeginFlush \/ DeliverEndFlush \/ UNCHANGED vars
  <2>1. TypeOK'
    <3>1. Flags'
      BY <1>a, <1>13, Zenon DEF TypeOK, UsersInv, Flags, DeliverBeginFlush, DeliverEndFlush, vars
    <3>2. Counted'
      BY <1>a, <1>13 DEF TypeOK, UsersInv, Counted, DeliverBeginFlush, DeliverEndFlush, vars
    <3>3. Placed'
      BY <1>a, <1>13 DEF TypeOK, UsersInv, CallerInv, Placed, DeliverBeginFlush, DeliverEndFlush, vars
    <3> QED BY <3>1, <3>2, <3>3, Zenon DEF TypeOK, Flags, Counted, Placed
  <2>2. UsersInv'
    BY <1>a, <1>13 DEF TypeOK, UsersInv, CallerInv, DeliverBeginFlush, DeliverEndFlush, vars
  <2>3. CallerInv'
    BY <1>a, <1>13 DEF TypeOK, UsersInv, CallerInv, DeliverBeginFlush, DeliverEndFlush, vars
  <2>4. FormatInv'
    BY <1>a, <1>13 DEF TypeOK, UsersInv, CallerInv, FormatInv, DeliverBeginFlush, DeliverEndFlush, vars
  <2> QED BY <2>1, <2>2, <2>3, <2>4 DEF PinInv
<1> QED BY <1>1, <1>2, <1>3, <1>4, <1>5, <1>6, <1>7, <1>8, <1>9, <1>10, <1>11, <1>12, <1>13
        DEF Next, Streaming

LEMMA PinWhole ==
  ASSUME PinInv
  PROVE  TypeOK /\ AssertValid /\ ReconnectAlone /\ CommittedWhileActive
BY DEF PinInv, UsersInv, CallerInv, FormatInv, AssertValid, ReconnectAlone,
       CommittedWhileActive, TypeOK

-----------------------------------------------------------------------------
(* A source of samples and its thread: CSourceStream.                      *)

Answering == {"reset", "signal"}

\* A caller waits exactly from its request to the answer, and the answer is to its own
\* request.
AnswerInv(calling) ==
  /\ m_hThread <=> worker # "none"
  /\ calling => m_hThread
  /\ calling <=> m_EventSend \/ m_EventComplete \/ worker \in Answering
  /\ m_EventComplete => ~m_EventSend /\ worker \notin Answering
  /\ worker = "reset" => m_EventSend
  /\ worker = "signal" => ~m_EventSend /\ m_dwReturnVal = reply.value
  /\ m_EventComplete \/ worker \in Answering => reply.to = m_dwParam
  /\ m_EventComplete => m_dwReturnVal = reply.value

Looping == {"loop", "buffer", "fill", "deliver"}

\* What the worker says to a command and where it goes then.
SaysTo(command, value, next) ==
  \/ command = "CMD_INIT" /\ value = "NOERROR" /\ next = "ready"
  \/ command = "CMD_INIT" /\ value = "E_FAIL" /\ next = "ended"
  \/ command \in {"CMD_PAUSE", "CMD_RUN"} /\ value = "NOERROR" /\ next = "loop"
  \/ command = "CMD_STOP" /\ value = "NOERROR" /\ next = "ready"
  \/ command = "CMD_EXIT" /\ value = "NOERROR" /\ next = "ended"

\* Between its commands the control thread knows where the worker is.
PlaceInv ==
  /\ control = "created" => worker = "wait"
  /\ control \in {"initialized", "stopped"} => worker = "ready"
  /\ control = "active" => worker \in Looping \cup {"ready"}
  /\ control = "close" => worker = "ended"
  /\ control \in {"failed", "delete"} =>
       worker = "ended" \/ ("CMD_PAUSE" \in sourceTold /\ worker \in Looping \cup {"ready"})
  /\ control \in {"inactive", "deleted"} => worker = "none"

\* Before, while and after the worker answers.
CommandInv ==
  control \in S!Commands =>
    /\ m_dwParam = control
    /\ m_EventSend /\ worker # "reset" =>
         /\ control = "CMD_INIT" => worker = "wait"
         /\ control \in {"CMD_PAUSE", "CMD_EXIT"} => worker = "ready"
         /\ control \in {"CMD_RUN", "CMD_STOP"} => worker \in Looping \cup {"ready"}
    /\ worker \in Answering => SaysTo(control, reply.value, reply.next)
    /\ m_EventComplete =>
         /\ control = "CMD_INIT" => SaysTo(control, m_dwReturnVal, worker)
         /\ control \in {"CMD_PAUSE", "CMD_RUN"} => worker \in Looping \cup {"ready"}
         /\ control = "CMD_STOP" => worker = "ready"
         /\ control = "CMD_EXIT" => worker = "ended"

\* The worker has a sample between getting and delivering it, and goes on after the end
\* of the stream only when it is told to.
SampleInv ==
  /\ sample <=> worker \in {"fill", "deliver"}
  /\ worker \in Looping \/ (worker \in Answering /\ reply.next = "loop") => ~ended
  /\ control \in S!Commands => control \in sourceTold
  /\ control = "close" => "CMD_EXIT" \in sourceTold
  /\ m_dwReturnVal \in {"none", "NOERROR", "E_FAIL"}

SourceInv ==
  /\ S!TypeOK /\ AnswerInv(control \in S!Commands)
  /\ PlaceInv /\ CommandInv /\ SampleInv

LEMMA SourceStart == ASSUME S!SourceAssumption, S!Init PROVE SourceInv
<1> USE DEF S!SourceAssumption, S!Init, S!ThreadInit, S!Nobody, S!Commands, Answering, Looping
<1>1. S!TypeOK
  <2>1. filled \in 0 .. MaxSamples
    OBVIOUS
  <2> QED BY <2>1, Zenon DEF S!TypeOK
<1>2. AnswerInv(control \in S!Commands)
  BY DEF AnswerInv
<1>3. PlaceInv /\ CommandInv /\ SampleInv
  BY DEF PlaceInv, CommandInv, SampleInv
<1> QED BY <1>1, <1>2, <1>3 DEF SourceInv

\* The worker answers the command that the caller waits for.
LEMMA SourceReply ==
  ASSUME S!SourceAssumption, SourceInv,
         m_EventSend, worker \in {"wait", "ready", "loop"},
         NEW value, NEW next, SaysTo(m_dwParam, value, next), S!Reply(value, next),
         UNCHANGED <<control, filterActive, committed, sourceTold, sample, filled>>,
         ended' \in BOOLEAN, ended' => ended /\ next # "loop"
  PROVE  SourceInv'
<1>a. /\ S!TypeOK /\ AnswerInv(control \in S!Commands)
      /\ PlaceInv /\ CommandInv /\ SampleInv
  BY DEF SourceInv
<1>b. /\ worker' = "reset" /\ reply'.to = m_dwParam /\ reply'.value = value /\ reply'.next = next
      /\ UNCHANGED <<m_hThread, m_EventSend, m_EventComplete, m_dwParam, m_dwReturnVal>>
  BY DEF S!Reply
<1>c. control \in S!Commands /\ control = m_dwParam /\ ~m_EventComplete /\ m_hThread
  BY <1>a DEF AnswerInv, CommandInv
<1>1. S!TypeOK'
  BY <1>a, <1>b DEF S!TypeOK
<1>2. AnswerInv(control \in S!Commands)'
  BY <1>a, <1>b, <1>c DEF AnswerInv, Answering
<1>3. PlaceInv'
  BY <1>b, <1>c DEF PlaceInv, S!Commands
<1>4. CommandInv'
  BY <1>a, <1>b, <1>c DEF CommandInv
<1>5. SampleInv'
  BY <1>a, <1>b, <1>c DEF SampleInv, Looping
<1> QED BY <1>1, <1>2, <1>3, <1>4, <1>5 DEF SourceInv

\* The worker goes on within its loop or leaves it.
LEMMA SourceGo ==
  ASSUME S!SourceAssumption, SourceInv,
         worker \in Looping, NEW place \in Looping \cup {"ready"}, S!Go(place),
         UNCHANGED <<control, filterActive, committed, sourceTold>>,
         filled' \in 0 .. MaxSamples, ended' \in BOOLEAN, sample' \in BOOLEAN,
         sample' <=> place \in {"fill", "deliver"},
         ended' => place = "ready"
  PROVE  SourceInv'
<1>a. /\ S!TypeOK /\ AnswerInv(control \in S!Commands)
      /\ PlaceInv /\ CommandInv /\ SampleInv
  BY DEF SourceInv
<1>b. /\ worker' = place
      /\ UNCHANGED <<m_hThread, m_EventSend, m_EventComplete, m_dwParam, m_dwReturnVal, reply>>
  BY DEF S!Go
<1> USE DEF Looping, Answering
<1>1. S!TypeOK'
  BY <1>a, <1>b DEF S!TypeOK
<1>2. AnswerInv(control \in S!Commands)'
  BY <1>a, <1>b DEF AnswerInv
<1>3. PlaceInv'
  BY <1>a, <1>b DEF PlaceInv
<1>4. CommandInv'
  BY <1>a, <1>b DEF CommandInv, SaysTo
<1>5. SampleInv'
  BY <1>a, <1>b DEF SampleInv
<1> QED BY <1>1, <1>2, <1>3, <1>4, <1>5 DEF SourceInv

LEMMA SourceStep == ASSUME S!SourceAssumption, SourceInv, [S!Next]_<<amThread, source, committed>> PROVE SourceInv'
<1>a. /\ S!TypeOK /\ AnswerInv(control \in S!Commands)
      /\ PlaceInv /\ CommandInv /\ SampleInv
  BY DEF SourceInv
<1> USE DEF S!SourceAssumption, S!Nobody, S!Commands, Answering, Looping, S!threadVars
<1>1. CASE S!Active
  <2>1. S!TypeOK'
    <3>1. filled' \in 0 .. MaxSamples
      BY <1>1 DEF S!Active
    <3>2. UNCHANGED <<m_EventSend, m_EventComplete, m_dwParam, m_dwReturnVal, filterActive, sample>>
      BY <1>1 DEF S!Active, S!Create
    <3> QED BY <1>a, <1>1, <3>1, <3>2, Zenon DEF S!TypeOK, S!Active, S!Create
  <2>2. AnswerInv(control \in S!Commands)'
    BY <1>a, <1>1 DEF S!TypeOK, AnswerInv, PlaceInv, CommandInv, S!Active, S!Create
  <2>3. PlaceInv'
    BY <1>a, <1>1 DEF S!TypeOK, AnswerInv, PlaceInv, CommandInv, SaysTo, S!Active, S!Create
  <2>4. CommandInv'
    BY <1>a, <1>1 DEF S!TypeOK, AnswerInv, PlaceInv, CommandInv, SaysTo, S!Active, S!Create
  <2>5. SampleInv'
    BY <1>a, <1>1 DEF S!TypeOK, AnswerInv, PlaceInv, CommandInv, SaysTo, SampleInv, S!Active, S!Create
  <2> QED BY <2>1, <2>2, <2>3, <2>4, <2>5 DEF SourceInv
<1>2. CASE S!ThreadInitialize
  <2>1. S!TypeOK'
    BY <1>a, <1>2 DEF S!TypeOK, S!ThreadInitialize, S!Call, S!CallWorker
  <2>2. AnswerInv(control \in S!Commands)'
    BY <1>a, <1>2 DEF S!TypeOK, AnswerInv, PlaceInv, CommandInv, S!ThreadInitialize, S!Call, S!CallWorker
  <2>3. PlaceInv'
    BY <1>a, <1>2 DEF S!TypeOK, AnswerInv, PlaceInv, CommandInv, SaysTo, S!ThreadInitialize, S!Call, S!CallWorker
  <2>4. CommandInv'
    BY <1>a, <1>2 DEF S!TypeOK, AnswerInv, PlaceInv, CommandInv, SaysTo, S!ThreadInitialize, S!Call, S!CallWorker
  <2>5. SampleInv'
    BY <1>a, <1>2 DEF S!TypeOK, AnswerInv, PlaceInv, CommandInv, SaysTo, SampleInv, S!ThreadInitialize, S!Call, S!CallWorker
  <2> QED BY <2>1, <2>2, <2>3, <2>4, <2>5 DEF SourceInv
<1>3. CASE S!Initialized
  <2>1. S!TypeOK'
    <3>1. /\ m_EventComplete' = FALSE
          /\ UNCHANGED <<m_hThread, m_EventSend, m_dwParam, m_dwReturnVal, worker, reply,
                         committed, sample, filled, ended, sourceTold>>
      BY <1>3 DEF S!Initialized, S!WorkerReturns
    <3>2. control' \in {"initialized", "failed", "active", "stopped", "close"}
      BY <1>3 DEF S!Initialized
    <3>3. filterActive' \in BOOLEAN
      BY <1>a, <1>3 DEF S!TypeOK, S!Initialized
    <3>4. m_EventComplete' \in BOOLEAN
      BY <3>1, Zenon
    <3> QED BY <1>a, <3>1, <3>2, <3>3, <3>4 DEF S!TypeOK
  <2>2. AnswerInv(control \in S!Commands)'
    BY <1>a, <1>3 DEF S!TypeOK, AnswerInv, PlaceInv, CommandInv, S!Initialized, S!WorkerReturns
  <2>3. PlaceInv'
    BY <1>a, <1>3 DEF S!TypeOK, AnswerInv, PlaceInv, CommandInv, SaysTo, S!Initialized, S!WorkerReturns
  <2>4. CommandInv'
    BY <1>a, <1>3 DEF S!TypeOK, AnswerInv, PlaceInv, CommandInv, SaysTo, S!Initialized, S!WorkerReturns
  <2>5. SampleInv'
    BY <1>a, <1>3 DEF S!TypeOK, AnswerInv, PlaceInv, CommandInv, SaysTo, SampleInv, S!Initialized, S!WorkerReturns
  <2> QED BY <2>1, <2>2, <2>3, <2>4, <2>5 DEF SourceInv
<1>4. CASE S!Pause
  <2>1. S!TypeOK'
    BY <1>a, <1>4 DEF S!TypeOK, S!Pause, S!Call, S!CallWorker
  <2>2. AnswerInv(control \in S!Commands)'
    BY <1>a, <1>4 DEF S!TypeOK, AnswerInv, PlaceInv, CommandInv, S!Pause, S!Call, S!CallWorker
  <2>3. PlaceInv'
    BY <1>a, <1>4 DEF S!TypeOK, AnswerInv, PlaceInv, CommandInv, SaysTo, S!Pause, S!Call, S!CallWorker
  <2>4. CommandInv'
    BY <1>a, <1>4 DEF S!TypeOK, AnswerInv, PlaceInv, CommandInv, SaysTo, S!Pause, S!Call, S!CallWorker
  <2>5. SampleInv'
    BY <1>a, <1>4 DEF S!TypeOK, AnswerInv, PlaceInv, CommandInv, SaysTo, SampleInv, S!Pause, S!Call, S!CallWorker
  <2> QED BY <2>1, <2>2, <2>3, <2>4, <2>5 DEF SourceInv
<1>5. CASE S!Paused
  <2>1. S!TypeOK'
    <3>1. /\ m_EventComplete' = FALSE
          /\ UNCHANGED <<m_hThread, m_EventSend, m_dwParam, m_dwReturnVal, worker, reply,
                         committed, sample, filled, ended, sourceTold>>
      BY <1>5 DEF S!Paused, S!WorkerReturns
    <3>2. control' \in {"initialized", "failed", "active", "stopped", "close"}
      BY <1>5 DEF S!Paused
    <3>3. filterActive' \in BOOLEAN
      BY <1>a, <1>5 DEF S!TypeOK, S!Paused
    <3>4. m_EventComplete' \in BOOLEAN
      BY <3>1, Zenon
    <3> QED BY <1>a, <3>1, <3>2, <3>3, <3>4 DEF S!TypeOK
  <2>2. AnswerInv(control \in S!Commands)'
    BY <1>a, <1>5 DEF S!TypeOK, AnswerInv, PlaceInv, CommandInv, S!Paused, S!WorkerReturns
  <2>3. PlaceInv'
    BY <1>a, <1>5 DEF S!TypeOK, AnswerInv, PlaceInv, CommandInv, SampleInv, SaysTo, S!Paused, S!WorkerReturns, S!Commands
  <2>4. CommandInv'
    BY <1>a, <1>5 DEF S!TypeOK, AnswerInv, PlaceInv, CommandInv, SaysTo, S!Paused, S!WorkerReturns
  <2>5. SampleInv'
    BY <1>a, <1>5 DEF S!TypeOK, AnswerInv, PlaceInv, CommandInv, SaysTo, SampleInv, S!Paused, S!WorkerReturns
  <2> QED BY <2>1, <2>2, <2>3, <2>4, <2>5 DEF SourceInv
<1>6. CASE S!Run
  <2>1. S!TypeOK'
    BY <1>a, <1>6 DEF S!TypeOK, S!Run, S!Call, S!CallWorker
  <2>2. AnswerInv(control \in S!Commands)'
    BY <1>a, <1>6 DEF S!TypeOK, AnswerInv, PlaceInv, CommandInv, S!Run, S!Call, S!CallWorker
  <2>3. PlaceInv'
    BY <1>a, <1>6 DEF S!TypeOK, AnswerInv, PlaceInv, CommandInv, SaysTo, S!Run, S!Call, S!CallWorker
  <2>4. CommandInv'
    BY <1>a, <1>6 DEF S!TypeOK, AnswerInv, PlaceInv, CommandInv, SaysTo, S!Run, S!Call, S!CallWorker
  <2>5. SampleInv'
    BY <1>a, <1>6 DEF S!TypeOK, AnswerInv, PlaceInv, CommandInv, SaysTo, SampleInv, S!Run, S!Call, S!CallWorker
  <2> QED BY <2>1, <2>2, <2>3, <2>4, <2>5 DEF SourceInv
<1>7. CASE S!RunReturns
  <2>1. S!TypeOK'
    <3>1. /\ m_EventComplete' = FALSE
          /\ UNCHANGED <<m_hThread, m_EventSend, m_dwParam, m_dwReturnVal, worker, reply,
                         committed, sample, filled, ended, sourceTold>>
      BY <1>7 DEF S!RunReturns, S!WorkerReturns
    <3>2. control' \in {"initialized", "failed", "active", "stopped", "close"}
      BY <1>7 DEF S!RunReturns
    <3>3. filterActive' \in BOOLEAN
      BY <1>a, <1>7 DEF S!TypeOK, S!RunReturns
    <3>4. m_EventComplete' \in BOOLEAN
      BY <3>1, Zenon
    <3> QED BY <1>a, <3>1, <3>2, <3>3, <3>4 DEF S!TypeOK
  <2>2. AnswerInv(control \in S!Commands)'
    BY <1>a, <1>7 DEF S!TypeOK, AnswerInv, PlaceInv, CommandInv, S!RunReturns, S!WorkerReturns
  <2>3. PlaceInv'
    BY <1>a, <1>7 DEF S!TypeOK, AnswerInv, PlaceInv, CommandInv, SaysTo, S!RunReturns, S!WorkerReturns
  <2>4. CommandInv'
    BY <1>a, <1>7 DEF S!TypeOK, AnswerInv, PlaceInv, CommandInv, SaysTo, S!RunReturns, S!WorkerReturns
  <2>5. SampleInv'
    BY <1>a, <1>7 DEF S!TypeOK, AnswerInv, PlaceInv, CommandInv, SaysTo, SampleInv, S!RunReturns, S!WorkerReturns
  <2> QED BY <2>1, <2>2, <2>3, <2>4, <2>5 DEF SourceInv
<1>8. CASE S!Inactive
  <2>1. S!TypeOK'
    BY <1>a, <1>8 DEF S!TypeOK, S!Inactive, S!Call, S!CallWorker
  <2>2. AnswerInv(control \in S!Commands)'
    BY <1>a, <1>8 DEF S!TypeOK, AnswerInv, PlaceInv, CommandInv, S!Inactive, S!Call, S!CallWorker
  <2>3. PlaceInv'
    BY <1>a, <1>8 DEF S!TypeOK, AnswerInv, PlaceInv, CommandInv, SaysTo, S!Inactive, S!Call, S!CallWorker
  <2>4. CommandInv'
    BY <1>a, <1>8 DEF S!TypeOK, AnswerInv, PlaceInv, CommandInv, SaysTo, S!Inactive, S!Call, S!CallWorker
  <2>5. SampleInv'
    BY <1>a, <1>8 DEF S!TypeOK, AnswerInv, PlaceInv, CommandInv, SaysTo, SampleInv, S!Inactive, S!Call, S!CallWorker
  <2> QED BY <2>1, <2>2, <2>3, <2>4, <2>5 DEF SourceInv
<1>9. CASE S!Exit
  <2>1. S!TypeOK'
    <3>1. /\ m_EventComplete' = FALSE
          /\ UNCHANGED <<m_hThread, m_EventSend, m_dwParam, m_dwReturnVal, worker, reply,
                         committed, sample, filled, ended, sourceTold>>
      BY <1>9 DEF S!Exit, S!WorkerReturns
    <3>2. control' \in {"initialized", "failed", "active", "stopped", "close"}
      BY <1>9 DEF S!Exit
    <3>3. filterActive' \in BOOLEAN
      BY <1>a, <1>9 DEF S!TypeOK, S!Exit
    <3>4. m_EventComplete' \in BOOLEAN
      BY <3>1, Zenon
    <3> QED BY <1>a, <3>1, <3>2, <3>3, <3>4 DEF S!TypeOK
  <2>2. AnswerInv(control \in S!Commands)'
    BY <1>a, <1>9 DEF S!TypeOK, AnswerInv, PlaceInv, CommandInv, S!Exit, S!WorkerReturns
  <2>3. PlaceInv'
    BY <1>a, <1>9 DEF S!TypeOK, AnswerInv, PlaceInv, CommandInv, SaysTo, S!Exit, S!WorkerReturns
  <2>4. CommandInv'
    BY <1>a, <1>9 DEF S!TypeOK, AnswerInv, PlaceInv, CommandInv, SaysTo, S!Exit, S!WorkerReturns
  <2>5. SampleInv'
    BY <1>a, <1>9 DEF S!TypeOK, AnswerInv, PlaceInv, CommandInv, SaysTo, SampleInv, S!Exit, S!WorkerReturns
  <2> QED BY <2>1, <2>2, <2>3, <2>4, <2>5 DEF SourceInv
<1>10. CASE S!ThreadExit
  <2>1. S!TypeOK'
    BY <1>a, <1>10 DEF S!TypeOK, S!ThreadExit, S!Call, S!CallWorker
  <2>2. AnswerInv(control \in S!Commands)'
    BY <1>a, <1>10 DEF S!TypeOK, AnswerInv, PlaceInv, CommandInv, S!ThreadExit, S!Call, S!CallWorker
  <2>3. PlaceInv'
    BY <1>a, <1>10 DEF S!TypeOK, AnswerInv, PlaceInv, CommandInv, SaysTo, S!ThreadExit, S!Call, S!CallWorker
  <2>4. CommandInv'
    BY <1>a, <1>10 DEF S!TypeOK, AnswerInv, PlaceInv, CommandInv, SaysTo, S!ThreadExit, S!Call, S!CallWorker
  <2>5. SampleInv'
    BY <1>a, <1>10 DEF S!TypeOK, AnswerInv, PlaceInv, CommandInv, SaysTo, SampleInv, S!ThreadExit, S!Call, S!CallWorker
  <2> QED BY <2>1, <2>2, <2>3, <2>4, <2>5 DEF SourceInv
<1>11. CASE S!Exited
  <2>1. S!TypeOK'
    <3>1. /\ m_EventComplete' = FALSE
          /\ UNCHANGED <<m_hThread, m_EventSend, m_dwParam, m_dwReturnVal, worker, reply,
                         committed, sample, filled, ended, sourceTold>>
      BY <1>11 DEF S!Exited, S!WorkerReturns
    <3>2. control' \in {"initialized", "failed", "active", "stopped", "close"}
      BY <1>11 DEF S!Exited
    <3>3. filterActive' \in BOOLEAN
      BY <1>a, <1>11 DEF S!TypeOK, S!Exited
    <3>4. m_EventComplete' \in BOOLEAN
      BY <3>1, Zenon
    <3> QED BY <1>a, <3>1, <3>2, <3>3, <3>4 DEF S!TypeOK
  <2>2. AnswerInv(control \in S!Commands)'
    BY <1>a, <1>11 DEF S!TypeOK, AnswerInv, PlaceInv, CommandInv, S!Exited, S!WorkerReturns
  <2>3. PlaceInv'
    BY <1>a, <1>11 DEF S!TypeOK, AnswerInv, PlaceInv, CommandInv, SaysTo, S!Exited, S!WorkerReturns
  <2>4. CommandInv'
    BY <1>a, <1>11 DEF S!TypeOK, AnswerInv, PlaceInv, CommandInv, SaysTo, S!Exited, S!WorkerReturns
  <2>5. SampleInv'
    BY <1>a, <1>11 DEF S!TypeOK, AnswerInv, PlaceInv, CommandInv, SaysTo, SampleInv, S!Exited, S!WorkerReturns
  <2> QED BY <2>1, <2>2, <2>3, <2>4, <2>5 DEF SourceInv
<1>12. CASE S!Closed
  <2>1. S!TypeOK'
    BY <1>a, <1>12 DEF S!TypeOK, S!Closed, S!Close
  <2>2. AnswerInv(control \in S!Commands)'
    BY <1>a, <1>12 DEF S!TypeOK, AnswerInv, PlaceInv, CommandInv, S!Closed, S!Close
  <2>3. PlaceInv'
    BY <1>a, <1>12 DEF S!TypeOK, AnswerInv, PlaceInv, CommandInv, SaysTo, S!Closed, S!Close
  <2>4. CommandInv'
    BY <1>a, <1>12 DEF S!TypeOK, AnswerInv, PlaceInv, CommandInv, SaysTo, S!Closed, S!Close
  <2>5. SampleInv'
    BY <1>a, <1>12 DEF S!TypeOK, AnswerInv, PlaceInv, CommandInv, SaysTo, SampleInv, S!Closed, S!Close
  <2> QED BY <2>1, <2>2, <2>3, <2>4, <2>5 DEF SourceInv
<1>13. CASE S!Delete
  <2>1. S!TypeOK'
    BY <1>a, <1>13 DEF S!TypeOK, S!Delete
  <2>2. AnswerInv(control \in S!Commands)'
    BY <1>a, <1>13 DEF S!TypeOK, AnswerInv, PlaceInv, CommandInv, S!Delete
  <2>3. PlaceInv'
    BY <1>a, <1>13 DEF S!TypeOK, AnswerInv, PlaceInv, CommandInv, SaysTo, S!Delete
  <2>4. CommandInv'
    BY <1>a, <1>13 DEF S!TypeOK, AnswerInv, PlaceInv, CommandInv, SaysTo, S!Delete
  <2>5. SampleInv'
    BY <1>a, <1>13 DEF S!TypeOK, AnswerInv, PlaceInv, CommandInv, SaysTo, SampleInv, S!Delete
  <2> QED BY <2>1, <2>2, <2>3, <2>4, <2>5 DEF SourceInv
<1>14. CASE S!Deleted
  <2>1. S!TypeOK'
    BY <1>a, <1>14 DEF S!TypeOK, S!Deleted, S!Close
  <2>2. AnswerInv(control \in S!Commands)'
    BY <1>a, <1>14 DEF S!TypeOK, AnswerInv, PlaceInv, CommandInv, S!Deleted, S!Close
  <2>3. PlaceInv'
    BY <1>a, <1>14 DEF S!TypeOK, AnswerInv, PlaceInv, CommandInv, SaysTo, S!Deleted, S!Close
  <2>4. CommandInv'
    BY <1>a, <1>14 DEF S!TypeOK, AnswerInv, PlaceInv, CommandInv, SaysTo, S!Deleted, S!Close
  <2>5. SampleInv'
    BY <1>a, <1>14 DEF S!TypeOK, AnswerInv, PlaceInv, CommandInv, SaysTo, SampleInv, S!Deleted, S!Close
  <2> QED BY <2>1, <2>2, <2>3, <2>4, <2>5 DEF SourceInv
<1>15. CASE S!OnInit
  <2>1. m_EventSend /\ worker = "wait" /\ m_dwParam = "CMD_INIT"
    BY <1>15 DEF S!OnInit, S!GetRequest
  <2>2. UNCHANGED <<control, filterActive, committed, sourceTold, sample, filled, ended>>
    BY <1>15 DEF S!OnInit, S!sourceVars
  <2>3. ended' \in BOOLEAN
    BY <1>a, <2>2 DEF S!TypeOK
  <2>4. CASE S!Reply("NOERROR", "ready")
    BY <2>1, <2>2, <2>3, <2>4, SourceReply DEF SaysTo
  <2>5. CASE S!Reply("E_FAIL", "ended")
    BY <2>1, <2>2, <2>3, <2>5, SourceReply DEF SaysTo
  <2> QED BY <1>15, <2>4, <2>5 DEF S!OnInit
<1>16. CASE S!OnUnexpected
  <2>1. worker = "wait" /\ m_EventSend /\ m_dwParam # "CMD_INIT"
    BY <1>16 DEF S!OnUnexpected
  <2> QED BY <1>a, <2>1 DEF AnswerInv, CommandInv
<1>17. CASE S!OnRequest
  <2>1. worker = "ready" /\ m_EventSend
    BY <1>17 DEF S!OnRequest
  <2>2. UNCHANGED <<control, filterActive, committed, sourceTold, sample, filled>>
    BY <1>17 DEF S!OnRequest, S!unmoved
  <2>3. ended \in BOOLEAN /\ m_dwParam \in S!Commands \ {"CMD_INIT"}
    BY <1>a, <2>1 DEF S!TypeOK, AnswerInv, CommandInv
  <2>4. CASE m_dwParam = "CMD_EXIT"
    <3>1. S!Reply("NOERROR", "ended") /\ ended' = ended
      BY <1>17, <2>4 DEF S!OnRequest
    <3> QED BY <2>1, <2>2, <2>3, <2>4, <3>1, SourceReply DEF SaysTo
  <2>5. CASE m_dwParam \in {"CMD_RUN", "CMD_PAUSE"}
    <3>1. S!Reply("NOERROR", "loop") /\ ended' = FALSE
      BY <1>17, <2>5 DEF S!OnRequest
    <3> QED BY <2>1, <2>2, <2>3, <2>5, <3>1, SourceReply DEF SaysTo
  <2>6. CASE m_dwParam = "CMD_STOP"
    <3>1. S!Reply("NOERROR", "ready") /\ ended' = ended
      BY <1>17, <2>6 DEF S!OnRequest
    <3> QED BY <2>1, <2>2, <2>3, <2>6, <3>1, SourceReply DEF SaysTo
  <2> QED BY <2>3, <2>4, <2>5, <2>6
<1>18. CASE S!Loop
  <2>1. /\ worker = "loop"
        /\ UNCHANGED <<control, filterActive, committed, sourceTold, sample, filled, ended>>
    BY <1>18 DEF S!Loop, S!sourceVars
  <2>2. ended' = FALSE /\ sample' = FALSE /\ filled' \in 0 .. MaxSamples
    BY <1>a, <2>1 DEF S!TypeOK, SampleInv
  <2>3. CASE ~m_EventSend
    <3>1. S!Go("buffer")
      BY <1>18, <2>3 DEF S!Loop, S!CheckRequest
    <3> QED BY <2>1, <2>2, <3>1, SourceGo
  <2>4. CASE m_EventSend
    <3>1. m_dwParam \in {"CMD_RUN", "CMD_STOP"}
      BY <1>a, <2>1, <2>4 DEF AnswerInv, CommandInv
    <3>2. CASE m_dwParam = "CMD_RUN"
      <4>1. S!Reply("NOERROR", "loop")
        BY <1>18, <2>4, <3>2 DEF S!Loop, S!CheckRequest
      <4> QED BY <2>1, <2>2, <2>4, <3>2, <4>1, SourceReply DEF SaysTo
    <3>3. CASE m_dwParam = "CMD_STOP"
      <4>1. S!Go("ready")
        BY <1>18, <2>4, <3>3 DEF S!Loop, S!CheckRequest
      <4> QED BY <2>1, <2>2, <4>1, SourceGo
    <3> QED BY <3>1, <3>2, <3>3
  <2> QED BY <2>3, <2>4
<1>19. CASE S!Replying /\ UNCHANGED S!sourceVars
  <2>1. S!TypeOK'
    <3>1. worker \in Answering
      BY <1>19 DEF S!Replying, S!ReplyStep
    <3>2. SaysTo(control, reply.value, reply.next) /\ control \in S!Commands
      BY <1>a, <3>1 DEF AnswerInv, CommandInv
    <3>3. /\ m_dwReturnVal' \in S!Results
          /\ worker' \in {"signal", "ready", "loop", "ended"}
      BY <1>19, <3>2 DEF S!Replying, S!ReplyStep, SaysTo, S!Results
    <3>4. m_EventSend' \in BOOLEAN /\ m_EventComplete' \in BOOLEAN
      BY <1>a, <1>19 DEF S!TypeOK, S!Replying, S!ReplyStep
    <3> QED BY <1>a, <1>19, <3>3, <3>4 DEF S!TypeOK, S!Replying, S!ReplyStep, S!sourceVars
  <2>2. AnswerInv(control \in S!Commands)'
    <3>1. UNCHANGED <<m_hThread, m_dwParam, reply, control>> /\ m_dwReturnVal' = reply.value
      BY <1>19 DEF S!Replying, S!ReplyStep, S!sourceVars
    <3>2. CASE worker = "reset"
      <4>1. ~m_EventSend' /\ worker' = "signal" /\ UNCHANGED m_EventComplete
        BY <1>19, <3>2 DEF S!Replying, S!ReplyStep
      <4> QED BY <1>a, <3>1, <3>2, <4>1 DEF AnswerInv
    <3>3. CASE worker = "signal"
      <4>1. m_EventComplete' /\ worker' = reply.next /\ UNCHANGED m_EventSend
        BY <1>19, <3>3 DEF S!Replying, S!ReplyStep
      <4>2. reply.next \in {"ready", "loop", "ended"}
        BY <1>a, <3>3 DEF AnswerInv, CommandInv, SaysTo
      <4> QED BY <1>a, <3>1, <3>3, <4>1, <4>2 DEF AnswerInv
    <3> QED BY <1>19, <3>2, <3>3 DEF S!Replying, S!ReplyStep
  <2>3. PlaceInv'
    BY <1>a, <1>19 DEF S!TypeOK, AnswerInv, PlaceInv, CommandInv, SaysTo, S!Replying, S!ReplyStep, S!sourceVars
  <2>4. CommandInv'
    BY <1>a, <1>19 DEF S!TypeOK, AnswerInv, PlaceInv, CommandInv, SaysTo, S!Replying, S!ReplyStep, S!sourceVars
  <2>5. SampleInv'
    BY <1>a, <1>19 DEF S!TypeOK, AnswerInv, PlaceInv, CommandInv, SaysTo, SampleInv, S!Replying, S!ReplyStep, S!sourceVars
  <2> QED BY <2>1, <2>2, <2>3, <2>4, <2>5 DEF SourceInv
<1>20. CASE S!GetDeliveryBuffer
  <2>1. /\ worker = "buffer"
        /\ UNCHANGED <<control, filterActive, committed, sourceTold, filled, ended>>
    BY <1>20 DEF S!GetDeliveryBuffer, S!unmoved
  <2>2. ended' = FALSE /\ sample = FALSE /\ filled' \in 0 .. MaxSamples
    BY <1>a, <2>1 DEF S!TypeOK, SampleInv
  <2>3. CASE committed
    <3>1. S!Go("fill") /\ sample' = TRUE
      BY <1>20, <2>3 DEF S!GetDeliveryBuffer
    <3> QED BY <2>1, <2>2, <3>1, SourceGo
  <2>4. CASE ~committed
    <3>1. S!Go("loop") /\ sample' = sample
      BY <1>20, <2>4 DEF S!GetDeliveryBuffer
    <3> QED BY <2>1, <2>2, <3>1, SourceGo
  <2> QED BY <2>3, <2>4
<1>21. CASE S!FillBuffer
  <2>1. /\ worker = "fill"
        /\ UNCHANGED <<control, filterActive, committed, sourceTold>>
    BY <1>21 DEF S!FillBuffer, S!unmoved
  <2>2. ended = FALSE /\ sample = TRUE /\ filled \in 0 .. MaxSamples
    BY <1>a, <2>1 DEF S!TypeOK, SampleInv
  <2>3. CASE filled < MaxSamples /\ filled' = filled + 1 /\ S!Go("deliver") /\ UNCHANGED <<sample, ended>>
    <3>1. filled' \in 0 .. MaxSamples
      BY <2>2, <2>3
    <3> QED BY <2>1, <2>2, <2>3, <3>1, SourceGo
  <2>4. CASE S!Go("ready") /\ sample' = FALSE /\ ended' = TRUE /\ UNCHANGED filled
    BY <2>1, <2>2, <2>4, SourceGo
  <2> QED BY <1>21, <2>3, <2>4 DEF S!FillBuffer
<1>22. CASE S!Deliver
  <2>1. /\ worker = "deliver" /\ sample' = FALSE
        /\ UNCHANGED <<control, filterActive, committed, sourceTold, filled, ended>>
    BY <1>22 DEF S!Deliver, S!unmoved
  <2>2. ended' = FALSE /\ filled' \in 0 .. MaxSamples
    BY <1>a, <2>1 DEF S!TypeOK, SampleInv
  <2>3. S!Go("loop") \/ S!Go("ready")
    BY <1>22 DEF S!Deliver
  <2> QED BY <2>1, <2>2, <2>3, SourceGo
<1>23. CASE S!Gone \/ UNCHANGED <<amThread, source, committed>>
  <2>1. S!TypeOK'
    <3>1. UNCHANGED <<amThread, source, committed>>
      BY <1>23 DEF S!Gone, S!vars, S!sourceVars, amThread, source
    <3> QED BY <1>a, <3>1 DEF S!TypeOK, amThread, source
  <2>2. AnswerInv(control \in S!Commands)'
    BY <1>a, <1>23 DEF S!TypeOK, AnswerInv, PlaceInv, CommandInv, S!Gone, S!vars, S!sourceVars, amThread, source
  <2>3. PlaceInv'
    BY <1>a, <1>23 DEF S!TypeOK, AnswerInv, PlaceInv, CommandInv, SaysTo, S!Gone, S!vars, S!sourceVars, amThread, source
  <2>4. CommandInv'
    BY <1>a, <1>23 DEF S!TypeOK, AnswerInv, PlaceInv, CommandInv, SaysTo, S!Gone, S!vars, S!sourceVars, amThread, source
  <2>5. SampleInv'
    BY <1>a, <1>23 DEF S!TypeOK, AnswerInv, PlaceInv, CommandInv, SaysTo, SampleInv, S!Gone, S!vars, S!sourceVars, amThread, source
  <2> QED BY <2>1, <2>2, <2>3, <2>4, <2>5 DEF SourceInv
<1> QED BY <1>1, <1>2, <1>3, <1>4, <1>5, <1>6, <1>7, <1>8, <1>9, <1>10, <1>11, <1>12, <1>13, <1>14, <1>15, <1>16, <1>17, <1>18, <1>19, <1>20, <1>21, <1>22, <1>23
        DEF S!Next, S!Control, S!Worker

LEMMA SourceWhole ==
  ASSUME SourceInv
  PROVE  /\ S!TypeOK /\ S!InactiveHoldsNothing /\ S!NeverUnexpected
         /\ S!CloseAfterExit
BY DEF SourceInv, AnswerInv, PlaceInv, SampleInv, S!InactiveHoldsNothing, S!NeverUnexpected, S!CloseAfterExit, S!Abandoned, CommandInv, SaysTo, S!Commands, Looping, Answering

-----------------------------------------------------------------------------
(* A pin that pulls and its thread: CPullPin.                              *)

\* The calls of the control thread, and what is left of them.
Stop1 == <<"flush", "TM_Exit", "end", "close">>
Stop2 == <<"TM_Exit", "end", "close">>
Stop3 == <<"end", "close">>
Stop4 == <<"close">>
Seek1 == <<"downFlush", "flush", "TM_Pause", "end", "downEnd", "seek", "TM_Start">>
Seek2 == <<"flush", "TM_Pause", "end", "downEnd", "seek", "TM_Start">>
Seek3 == <<"TM_Pause", "end", "downEnd", "seek", "TM_Start">>
Seek4 == <<"end", "downEnd", "seek", "TM_Start">>
Seek5 == <<"downEnd", "seek", "TM_Start">>
Seek6 == <<"seek", "TM_Start">>
Seek7 == <<"TM_Start">>
Range1 == <<"seek">>
Todos == {"downFlush", "flush", "downEnd", "end", "seek", "close"} \cup P!Commands

LEMMA TailIs ==
  ASSUME NEW D, NEW s \in Seq(D), NEW t \in Seq(D), Len(s) = Len(t) + 1,
         \A i \in 1 .. Len(t) : t[i] = s[i + 1]
  PROVE  Tail(s) = t
<1>1. s # <<>> /\ Len(t) \in Nat
  BY EmptySeq, LenProperties
<1>2. /\ Tail(s) \in Seq(D) /\ Len(Tail(s)) = Len(s) - 1
      /\ \A i \in 1 .. Len(Tail(s)) : Tail(s)[i] = s[i + 1]
  BY <1>1, HeadTailProperties
<1>3. Len(s) \in Nat /\ Len(Tail(s)) = Len(t)
  BY <1>1, <1>2, LenProperties
<1> QED BY <1>2, <1>3, SeqEqual

LEMMA TodoSeqs ==
  /\ Stop1 \in Seq(Todos)
  /\ Stop2 \in Seq(Todos)
  /\ Stop3 \in Seq(Todos)
  /\ Stop4 \in Seq(Todos)
  /\ Seek1 \in Seq(Todos)
  /\ Seek2 \in Seq(Todos)
  /\ Seek3 \in Seq(Todos)
  /\ Seek4 \in Seq(Todos)
  /\ Seek5 \in Seq(Todos)
  /\ Seek6 \in Seq(Todos)
  /\ Seek7 \in Seq(Todos)
  /\ Range1 \in Seq(Todos)
BY DEF Todos, P!Commands, Stop1, Stop2, Stop3, Stop4, Seek1, Seek2, Seek3, Seek4, Seek5, Seek6, Seek7, Range1

LEMMA TodoHeads ==
  /\ Stop1 # <<>> /\ Head(Stop1) = "flush"
  /\ Stop2 # <<>> /\ Head(Stop2) = "TM_Exit"
  /\ Stop3 # <<>> /\ Head(Stop3) = "end"
  /\ Stop4 # <<>> /\ Head(Stop4) = "close"
  /\ Seek1 # <<>> /\ Head(Seek1) = "downFlush"
  /\ Seek2 # <<>> /\ Head(Seek2) = "flush"
  /\ Seek3 # <<>> /\ Head(Seek3) = "TM_Pause"
  /\ Seek4 # <<>> /\ Head(Seek4) = "end"
  /\ Seek5 # <<>> /\ Head(Seek5) = "downEnd"
  /\ Seek6 # <<>> /\ Head(Seek6) = "seek"
  /\ Seek7 # <<>> /\ Head(Seek7) = "TM_Start"
  /\ Range1 # <<>> /\ Head(Range1) = "seek"
BY DEF Stop1, Stop2, Stop3, Stop4, Seek1, Seek2, Seek3, Seek4, Seek5, Seek6, Seek7, Range1

LEMMA TodoTails ==
  /\ Tail(Stop1) = Stop2
  /\ Tail(Stop2) = Stop3
  /\ Tail(Stop3) = Stop4
  /\ Tail(Stop4) = <<>>
  /\ Tail(Seek1) = Seek2
  /\ Tail(Seek2) = Seek3
  /\ Tail(Seek3) = Seek4
  /\ Tail(Seek4) = Seek5
  /\ Tail(Seek5) = Seek6
  /\ Tail(Seek6) = Seek7
  /\ Tail(Seek7) = <<>>
  /\ Tail(Range1) = <<>>
<1>1. Tail(Stop1) = Stop2
  <2>1. Len(Stop1) = 4 /\ Len(Stop2) = 3
    BY DEF Stop1, Stop2
  <2>2. Stop2[1] = Stop1[2] /\ Stop2[2] = Stop1[3] /\ Stop2[3] = Stop1[4]
    BY DEF Stop1, Stop2
  <2>3. ASSUME NEW i \in 1 .. Len(Stop2) PROVE Stop2[i] = Stop1[i + 1]
    <3>1. i \in {1, 2, 3}
      BY <2>1
    <3> QED BY <2>2, <3>1
  <2>4. Len(Stop1) = Len(Stop2) + 1 /\ Stop1 \in Seq(Todos) /\ Stop2 \in Seq(Todos)
    BY <2>1, TodoSeqs
  <2>5. \A i \in 1 .. Len(Stop2) : Stop2[i] = Stop1[i + 1]
    BY <2>3
  <2> QED BY <2>4, <2>5, TailIs, Zenon
<1>2. Tail(Stop2) = Stop3
  BY DEF Stop2, Stop3
<1>3. Tail(Stop3) = Stop4
  BY DEF Stop3, Stop4
<1>4. Tail(Stop4) = <<>>
  BY DEF Stop4
<1>5. Tail(Seek1) = Seek2
  <2>1. Len(Seek1) = 7 /\ Len(Seek2) = 6
    BY DEF Seek1, Seek2
  <2>2. Seek2[1] = Seek1[2] /\ Seek2[2] = Seek1[3] /\ Seek2[3] = Seek1[4] /\ Seek2[4] = Seek1[5] /\ Seek2[5] = Seek1[6] /\ Seek2[6] = Seek1[7]
    BY DEF Seek1, Seek2
  <2>3. ASSUME NEW i \in 1 .. Len(Seek2) PROVE Seek2[i] = Seek1[i + 1]
    <3>1. i \in {1, 2, 3, 4, 5, 6}
      BY <2>1
    <3> QED BY <2>2, <3>1
  <2>4. Len(Seek1) = Len(Seek2) + 1 /\ Seek1 \in Seq(Todos) /\ Seek2 \in Seq(Todos)
    BY <2>1, TodoSeqs
  <2>5. \A i \in 1 .. Len(Seek2) : Seek2[i] = Seek1[i + 1]
    BY <2>3
  <2> QED BY <2>4, <2>5, TailIs, Zenon
<1>6. Tail(Seek2) = Seek3
  <2>1. Len(Seek2) = 6 /\ Len(Seek3) = 5
    BY DEF Seek2, Seek3
  <2>2. Seek3[1] = Seek2[2] /\ Seek3[2] = Seek2[3] /\ Seek3[3] = Seek2[4] /\ Seek3[4] = Seek2[5] /\ Seek3[5] = Seek2[6]
    BY DEF Seek2, Seek3
  <2>3. ASSUME NEW i \in 1 .. Len(Seek3) PROVE Seek3[i] = Seek2[i + 1]
    <3>1. i \in {1, 2, 3, 4, 5}
      BY <2>1
    <3> QED BY <2>2, <3>1
  <2>4. Len(Seek2) = Len(Seek3) + 1 /\ Seek2 \in Seq(Todos) /\ Seek3 \in Seq(Todos)
    BY <2>1, TodoSeqs
  <2>5. \A i \in 1 .. Len(Seek3) : Seek3[i] = Seek2[i + 1]
    BY <2>3
  <2> QED BY <2>4, <2>5, TailIs, Zenon
<1>7. Tail(Seek3) = Seek4
  <2>1. Len(Seek3) = 5 /\ Len(Seek4) = 4
    BY DEF Seek3, Seek4
  <2>2. Seek4[1] = Seek3[2] /\ Seek4[2] = Seek3[3] /\ Seek4[3] = Seek3[4] /\ Seek4[4] = Seek3[5]
    BY DEF Seek3, Seek4
  <2>3. ASSUME NEW i \in 1 .. Len(Seek4) PROVE Seek4[i] = Seek3[i + 1]
    <3>1. i \in {1, 2, 3, 4}
      BY <2>1
    <3> QED BY <2>2, <3>1
  <2>4. Len(Seek3) = Len(Seek4) + 1 /\ Seek3 \in Seq(Todos) /\ Seek4 \in Seq(Todos)
    BY <2>1, TodoSeqs
  <2>5. \A i \in 1 .. Len(Seek4) : Seek4[i] = Seek3[i + 1]
    BY <2>3
  <2> QED BY <2>4, <2>5, TailIs, Zenon
<1>8. Tail(Seek4) = Seek5
  <2>1. Len(Seek4) = 4 /\ Len(Seek5) = 3
    BY DEF Seek4, Seek5
  <2>2. Seek5[1] = Seek4[2] /\ Seek5[2] = Seek4[3] /\ Seek5[3] = Seek4[4]
    BY DEF Seek4, Seek5
  <2>3. ASSUME NEW i \in 1 .. Len(Seek5) PROVE Seek5[i] = Seek4[i + 1]
    <3>1. i \in {1, 2, 3}
      BY <2>1
    <3> QED BY <2>2, <3>1
  <2>4. Len(Seek4) = Len(Seek5) + 1 /\ Seek4 \in Seq(Todos) /\ Seek5 \in Seq(Todos)
    BY <2>1, TodoSeqs
  <2>5. \A i \in 1 .. Len(Seek5) : Seek5[i] = Seek4[i + 1]
    BY <2>3
  <2> QED BY <2>4, <2>5, TailIs, Zenon
<1>9. Tail(Seek5) = Seek6
  BY DEF Seek5, Seek6
<1>10. Tail(Seek6) = Seek7
  BY DEF Seek6, Seek7
<1>11. Tail(Seek7) = <<>>
  BY DEF Seek7
<1>12. Tail(Range1) = <<>>
  BY DEF Range1
<1> QED BY <1>1, <1>2, <1>3, <1>4, <1>5, <1>6, <1>7, <1>8, <1>9, <1>10, <1>11, <1>12

\* Before its command is answered the thread may be anywhere; once TM_Pause is answered it
\* waits, or is about to, and once TM_Exit is, it has ended.
Before == {Stop1, Stop2, Seek1, Seek2, Seek3}
Paused == {Seek4, Seek5, Seek6, Seek7}
Exited == {Stop3, Stop4}
Busy == {"start", "check", "ask", "again", "collect", "last", "read"}
Ending == {"wait", "flush", "clean", "unflush"}

LEMMA TodoApart ==
  /\ \A t \in Before : t # <<>> /\ t \notin Paused \cup Exited \cup {Range1}
  /\ \A t \in Paused : t # <<>> /\ t \notin Exited \cup {Range1}
  /\ \A t \in Exited : t # <<>> /\ t # Range1
  /\ Range1 # <<>>
<1>1. Stop3 # Seek4 /\ Range1 # Seek6
  <2>1. Tail(Stop3) # Tail(Seek4)
    BY TodoHeads, TodoTails
  <2>2. Tail(Range1) # Tail(Seek6)
    BY TodoHeads, TodoTails
  <2> QED BY <2>1, <2>2
<1>2. ASSUME NEW t \in Before PROVE t # <<>> /\ Head(t) \in {"flush", "TM_Exit", "TM_Pause", "downFlush"}
  BY TodoHeads DEF Before
<1>3. \A t \in Paused : t # <<>> /\ Head(t) \in {"end", "downEnd", "seek", "TM_Start"}
  BY TodoHeads DEF Paused
<1>4. \A t \in Exited : t # <<>> /\ Head(t) \in {"end", "close"}
  BY TodoHeads DEF Exited
<1>5. Head(Range1) = "seek" /\ Range1 # <<>>
  BY TodoHeads
<1>6. \A t \in Paused : t \notin Exited /\ t # Range1
  <2>1. Stop4 \notin Paused
    BY <1>3, TodoHeads
  <2>2. Stop3 \notin Paused
    <3>1. Head(Stop3) = "end" /\ Head(Seek5) # "end" /\ Head(Seek6) # "end" /\ Head(Seek7) # "end"
      BY TodoHeads
    <3> QED BY <1>1, <3>1 DEF Paused
  <2>3. Range1 \notin Paused
    <3>1. Head(Range1) = "seek" /\ Head(Seek4) # "seek" /\ Head(Seek5) # "seek" /\ Head(Seek7) # "seek"
      BY TodoHeads
    <3> QED BY <1>1, <3>1 DEF Paused
  <2> QED BY <2>1, <2>2, <2>3 DEF Exited
<1>7. \A t \in Before : t \notin Paused /\ t \notin Exited /\ t # Range1
  BY <1>2, <1>3, <1>4, <1>5
<1>8. \A t \in Exited : t # Range1
  BY <1>4, <1>5
<1> QED BY <1>2, <1>3, <1>4, <1>5, <1>6, <1>7, <1>8

TodoInv ==
  /\ todo \in Before \cup Paused \cup Exited \cup {Range1, <<>>}
  /\ pullControl = "idle" => todo = <<>>
  /\ pullControl \in {"idle", "call"} =>
       /\ todo \in Before => worker \in Busy \cup Ending /\ m_State = "TM_Start"
       /\ todo \in Paused => worker \in Ending /\ requests = <<>>
       /\ todo \in Exited => worker = "ended" /\ m_State = "TM_Exit"
       /\ todo = Range1 => worker = "none" /\ m_State = "TM_Exit"
       /\ todo = <<>> => \/ worker = "none" /\ m_State = "TM_Exit"
                         \/ worker \in Busy \cup Ending /\ m_State = "TM_Start"

\* While the command is with the thread.
SentInv ==
  pullControl = "sent" =>
    /\ todo \in {Stop2, Seek3, Seek7} /\ m_dwParam = Head(todo) /\ m_State = m_dwParam
    /\ m_EventSend /\ worker # "reset" =>
         /\ worker \in Busy \cup Ending
         /\ m_dwParam = "TM_Start" => worker \in Ending /\ requests = <<>>
    /\ worker \in Answering =>
         /\ m_dwParam = "TM_Start" => reply.next = "start"
         /\ m_dwParam = "TM_Pause" => reply.next = "flush"
         /\ m_dwParam = "TM_Exit" => reply.next = "ended"
    /\ m_EventComplete =>
         /\ m_dwParam = "TM_Start" => worker \in Busy \cup Ending
         /\ m_dwParam = "TM_Pause" => worker \in Ending /\ requests = <<>>
         /\ m_dwParam = "TM_Exit" => worker = "ended"

Ahead == IF setting.ahead THEN 1 ELSE 0

\* How many requests the reader has, by where the thread is.
RequestsInv ==
  /\ worker \in {"none", "wait", "reset", "signal", "start", "ended", "check", "read", "ask", "unflush"} =>
       requests = <<>>
  /\ worker = "again" => Len(requests) = Ahead
  /\ worker = "collect" => Len(requests) = Ahead + 1
  /\ worker = "last" => Len(requests) = 1
  /\ worker \in {"ask", "last"} => setting.ahead
  /\ worker \in {"ask", "again", "collect", "last"} => ~setting.sync
  /\ worker = "read" => setting.sync
  /\ worker = "clean" /\ requests # <<>> => flushing

\* What has been received and what is asked for are what lies before the position.
Position ==
  \/ tCurrent = range[1] + Len(received) + Len(requests)
  \/ /\ worker = "check" /\ setting.ahead /\ ~setting.sync
     /\ tCurrent = range[2] /\ Len(received) + 1 = range[2] - range[1]

ProcessInv ==
  worker \in Busy \ {"start"} =>
    /\ \A i \in 1 .. Len(received) : received[i] = range[1] + i - 1 /\ received[i] < range[2]
    /\ \A j \in 1 .. Len(requests) : requests[j] = range[1] + Len(received) + j - 1
    /\ tCurrent <= range[2]
    /\ worker \in {"ask", "read"} => tCurrent < range[2]
    /\ worker = "last" => tCurrent = range[2]
    /\ Position

PullInv ==
  /\ P!TypeOK /\ AnswerInv(pullControl = "sent")
  /\ TodoInv /\ SentInv /\ RequestsInv /\ ProcessInv /\ P!InOrder

LEMMA PullStart == ASSUME P!PullAssumption, P!Init PROVE PullInv
<1> USE DEF P!PullAssumption, P!Init, P!ThreadInit, P!Nobody
<1>1. P!TypeOK
  <2>1. 0 \in 0 .. Length /\ Length \in 0 .. Length /\ 0 \in 0 .. MaxSeeks
    OBVIOUS
  <2>2. /\ requests \in Seq(0 .. Length) /\ Len(requests) <= 2
        /\ received \in Seq(0 .. Length \cup {P!End})
        /\ todo \in Seq(Todos)
    BY EmptySeq
  <2>3. committed \in BOOLEAN /\ flushing \in BOOLEAN /\ downFlushing \in BOOLEAN
    BY Zenon
  <2>4. range \in (0 .. Length) \X (0 .. Length) /\ m_State \in P!Commands
    BY <2>1 DEF P!Commands
  <2> QED BY <2>1, <2>2, <2>3, <2>4 DEF P!TypeOK, Todos
<1>2. AnswerInv(pullControl = "sent")
  BY DEF AnswerInv, Answering
<1>3. TodoInv /\ SentInv
  BY TodoApart DEF TodoInv, SentInv, Answering
<1>4. RequestsInv /\ ProcessInv /\ P!InOrder
  BY EmptySeq DEF RequestsInv, ProcessInv, Busy, P!InOrder
<1> QED BY <1>1, <1>2, <1>3, <1>4 DEF PullInv

\* What is to be done next, and what is left then.
LEMMA TodoAt ==
  ASSUME TodoInv, todo # <<>>
  PROVE  /\ Head(todo) = "flush" => todo \in Before /\ Tail(todo) \in Before
         /\ Head(todo) = "downFlush" => todo \in Before /\ Tail(todo) \in Before
         /\ Head(todo) = "end" => \/ todo \in Paused /\ Tail(todo) \in Paused
                                  \/ todo \in Exited /\ Tail(todo) \in Exited
         /\ Head(todo) = "downEnd" => todo \in Paused /\ Tail(todo) \in Paused
         /\ Head(todo) = "seek" => \/ todo \in Paused /\ Tail(todo) \in Paused
                                   \/ todo = Range1 /\ Tail(todo) = <<>>
         /\ Head(todo) = "close" => todo \in Exited /\ Tail(todo) = <<>>
         /\ Head(todo) = "TM_Exit" => todo = Stop2 /\ todo \in Before /\ Tail(todo) \in Exited
         /\ Head(todo) = "TM_Pause" => todo = Seek3 /\ todo \in Before /\ Tail(todo) \in Paused
         /\ Head(todo) = "TM_Start" => todo = Seek7 /\ todo \in Paused /\ Tail(todo) = <<>>
         /\ Tail(todo) \in Seq(Todos)
<1>1. todo \in {Stop1, Stop2, Stop3, Stop4, Seek1, Seek2, Seek3, Seek4, Seek5, Seek6, Seek7, Range1}
  BY DEF TodoInv, Before, Paused, Exited
<1>2. Tail(todo) \in Seq(Todos)
  <2>1. Tail(todo) \in {Stop2, Stop3, Stop4, Seek2, Seek3, Seek4, Seek5, Seek6, Seek7, <<>>}
    BY <1>1, TodoTails
  <2>2. <<>> \in Seq(Todos)
    BY EmptySeq
  <2> HIDE <1>1
  <2> QED BY <2>1, <2>2, TodoSeqs
<1>3. CASE todo \in {Stop1, Stop2, Stop3, Stop4}
  BY <1>2, <1>3, TodoHeads, TodoTails DEF Before, Exited
<1>4. CASE todo \in {Seek1, Seek2, Seek3}
  BY <1>2, <1>4, TodoHeads, TodoTails DEF Before, Paused
<1>5. CASE todo \in {Seek4, Seek5, Seek6, Seek7, Range1}
  BY <1>2, <1>5, TodoHeads, TodoTails DEF Paused
<1> QED BY <1>1, <1>3, <1>4, <1>5

\* Steps that leave what is asked for and received alone.
LEMMA PullKeeps ==
  ASSUME PullInv, UNCHANGED <<setting, tCurrent, range, requests, received>>,
         worker' = worker \/ (requests = <<>> /\ worker' \in {"none", "wait", "reset", "signal", "ended"}),
         flushing' = flushing \/ flushing' = TRUE \/ requests = <<>>
  PROVE  RequestsInv' /\ ProcessInv' /\ P!InOrder'
<1>1. RequestsInv'
  BY DEF PullInv, RequestsInv, Ahead
<1>2. ProcessInv'
  BY DEF PullInv, ProcessInv, Position, Busy
<1>3. P!InOrder'
  BY DEF PullInv, P!InOrder
<1> QED BY <1>1, <1>2, <1>3

LEMMA PullControl ==
  ASSUME P!PullAssumption, PullInv, P!Active \/ P!StopThread \/ P!Seek \/ P!Control
  PROVE  PullInv'
<1>a. /\ P!TypeOK /\ AnswerInv(pullControl = "sent")
      /\ TodoInv /\ SentInv /\ RequestsInv /\ ProcessInv /\ P!InOrder
  BY DEF PullInv
<1>b. Busy \cap {"none", "ended", "reset", "signal"} = {}
      /\ Ending \cap {"none", "ended", "reset", "signal"} = {}
  BY DEF Busy, Ending
<1> USE DEF P!Nobody, P!threadVars, P!pullVars
<1>1. CASE P!Active
  <2>1. /\ pullControl = "idle" /\ pullControl' = "call" /\ todo' = Seek7 /\ committed' = TRUE
        /\ ~m_hThread /\ m_hThread' = TRUE /\ worker' = "wait"
        /\ UNCHANGED <<m_EventSend, m_EventComplete, m_dwParam, m_dwReturnVal, reply,
                       setting, m_State, seeks, m_tStart, m_tStop, tCurrent, range, requests,
                       flushing, downFlushing, received>>
    BY <1>1 DEF P!Active, P!Create, Seek7
  <2>2. worker = "none" /\ requests = <<>>
    BY <1>a, <2>1 DEF AnswerInv, RequestsInv
  <2>3. P!TypeOK'
    <3>1. todo' \in Seq(Todos) /\ committed' \in BOOLEAN
      BY <2>1, TodoSeqs, Zenon
    <3> QED BY <1>a, <2>1, <3>1 DEF P!TypeOK, Todos
  <2>4. AnswerInv(pullControl = "sent")'
    BY <1>a, <2>1, <2>2 DEF AnswerInv, Answering
  <2>5. TodoInv'
    BY <2>1, <2>2, TodoApart DEF TodoInv, Paused, Ending
  <2>6. SentInv'
    BY <2>1 DEF SentInv
  <2>7. RequestsInv' /\ ProcessInv' /\ P!InOrder'
    BY <2>1, <2>2, PullKeeps
  <2> QED BY <2>3, <2>4, <2>5, <2>6, <2>7 DEF PullInv
<1>2. CASE P!StopThread \/ P!Seek
  <2>1. /\ pullControl = "idle" /\ pullControl' = "call"
        /\ UNCHANGED <<m_hThread, m_EventSend, m_EventComplete, m_dwParam, m_dwReturnVal, worker, reply,
                       setting, m_State, committed, m_tStart, m_tStop, tCurrent, range, requests,
                       flushing, downFlushing, received>>
    BY <1>2 DEF P!StopThread, P!Seek
  <2>2. seeks' \in 0 .. MaxSeeks
    <3>1. seeks \in 0 .. MaxSeeks /\ MaxSeeks \in Nat
      BY <1>a DEF P!TypeOK, P!PullAssumption
    <3>2. seeks' = seeks \/ (seeks < MaxSeeks /\ seeks' = seeks + 1)
      BY <1>2 DEF P!StopThread, P!Seek
    <3> QED BY <3>1, <3>2
  <2>3. \/ m_hThread /\ todo' = Stop1
        \/ m_State = "TM_Start" /\ todo' = Seek1
        \/ m_State # "TM_Start" /\ todo' = Range1
    BY <1>2 DEF P!StopThread, P!Seek, Stop1, Seek1, Range1
  <2>4. P!TypeOK'
    <3>1. todo' \in Seq(Todos)
      BY <2>3, TodoSeqs
    <3> QED BY <1>a, <2>1, <2>2, <3>1 DEF P!TypeOK, Todos
  <2>5. AnswerInv(pullControl = "sent")'
    BY <1>a, <2>1 DEF AnswerInv
  <2>6. TodoInv'
    <3>1. todo = <<>> /\ (m_hThread <=> worker # "none")
      BY <1>a, <2>1 DEF TodoInv, AnswerInv
    <3>2. CASE todo' \in {Stop1, Seek1}
      <4>1. worker \in Busy \cup Ending /\ m_State = "TM_Start"
        BY <1>a, <2>1, <2>3, <3>1, <3>2, TodoHeads DEF TodoInv
      <4>2. todo' \in Before
        BY <3>2 DEF Before
      <4> QED BY <2>1, <4>1, <4>2, TodoApart DEF TodoInv
    <3>3. CASE todo' = Range1
      <4>1. worker = "none" /\ m_State = "TM_Exit"
        BY <1>a, <2>1, <2>3, <3>1, <3>3, TodoHeads DEF TodoInv
      <4> QED BY <2>1, <3>3, <4>1, TodoApart DEF TodoInv
    <3> QED BY <2>3, <3>2, <3>3
  <2>7. SentInv'
    BY <2>1 DEF SentInv
  <2>8. RequestsInv' /\ ProcessInv' /\ P!InOrder'
    BY <2>1, PullKeeps
  <2> QED BY <2>4, <2>5, <2>6, <2>7, <2>8 DEF PullInv
<1>3. CASE P!Flush
  <2>1. /\ pullControl = "call" /\ todo # <<>> /\ Head(todo) \in {"flush", "end", "downFlush", "downEnd"}
        /\ flushing' = flushing \/ flushing' = TRUE \/ (Head(todo) = "end" /\ flushing' = FALSE)
        /\ downFlushing' \in {downFlushing, TRUE, FALSE}
        /\ todo' = Tail(todo)
        /\ UNCHANGED <<m_hThread, m_EventSend, m_EventComplete, m_dwParam, m_dwReturnVal, worker, reply,
                       setting, pullControl, m_State, committed, seeks, m_tStart, m_tStop, tCurrent, range,
                       requests, received>>
    BY <1>3 DEF P!Flush, P!Now
  <2>2. \/ todo \in Before /\ todo' \in Before
        \/ todo \in Paused /\ todo' \in Paused
        \/ todo \in Exited /\ todo' \in Exited
    BY <1>a, <2>1, TodoAt
  <2>3. P!TypeOK'
    <3>1. todo' \in Seq(Todos)
      BY <1>a, <2>1, TodoAt
    <3>2. flushing' \in BOOLEAN /\ downFlushing' \in BOOLEAN
      BY <1>a, <2>1, Zenon DEF P!TypeOK
    <3> QED BY <1>a, <2>1, <3>1, <3>2 DEF P!TypeOK, Todos
  <2>4. AnswerInv(pullControl = "sent")'
    BY <1>a, <2>1 DEF AnswerInv
  <2>5. TodoInv'
    BY <1>a, <2>1, <2>2, TodoApart DEF TodoInv
  <2>6. SentInv'
    BY <2>1 DEF SentInv
  <2>7. RequestsInv' /\ ProcessInv' /\ P!InOrder'
    <3>1. Head(todo) = "end" => requests = <<>>
      <4>1. Head(todo) = "end" => todo \in Paused \/ todo \in Exited
        BY <1>a, <2>1, TodoAt
      <4> QED BY <1>a, <2>1, <4>1 DEF TodoInv, RequestsInv
    <3> QED BY <2>1, <3>1, PullKeeps
  <2> QED BY <2>3, <2>4, <2>5, <2>6, <2>7 DEF PullInv
<1>4. CASE P!SetRange
  <2>1. /\ pullControl = "call" /\ todo # <<>> /\ Head(todo) = "seek"
        /\ m_tStart' \in 0 .. Length /\ m_tStop' \in 0 .. Length
        /\ todo' = Tail(todo)
        /\ UNCHANGED <<m_hThread, m_EventSend, m_EventComplete, m_dwParam, m_dwReturnVal, worker, reply,
                       setting, pullControl, m_State, committed, seeks, tCurrent, range,
                       requests, flushing, downFlushing, received>>
    BY <1>4 DEF P!SetRange, P!Now
  <2>2. \/ todo \in Paused /\ todo' \in Paused
        \/ todo = Range1 /\ todo' = <<>>
    BY <1>a, <2>1, TodoAt
  <2>3. P!TypeOK'
    <3>1. todo' \in Seq(Todos)
      BY <1>a, <2>1, TodoAt
    <3> QED BY <1>a, <2>1, <3>1 DEF P!TypeOK, Todos
  <2>4. AnswerInv(pullControl = "sent")'
    BY <1>a, <2>1 DEF AnswerInv
  <2>5. TodoInv'
    BY <1>a, <2>1, <2>2, TodoApart DEF TodoInv
  <2>6. SentInv'
    BY <2>1 DEF SentInv
  <2>7. RequestsInv' /\ ProcessInv' /\ P!InOrder'
    BY <2>1, PullKeeps
  <2> QED BY <2>3, <2>4, <2>5, <2>6, <2>7 DEF PullInv
<1>5. CASE P!Send
  <2>1. PICK command \in P!Commands : P!Now(command) /\ P!CallWorker(command) /\ m_State' = command
    BY <1>5 DEF P!Send
  <2>2. /\ pullControl = "call" /\ todo # <<>> /\ Head(todo) = command /\ pullControl' = "sent"
        /\ m_hThread /\ m_dwParam' = command /\ m_EventSend' = TRUE /\ m_State' = command
        /\ UNCHANGED <<m_hThread, m_EventComplete, m_dwReturnVal, worker, reply,
                       setting, todo, committed, seeks, m_tStart, m_tStop, tCurrent, range,
                       requests, flushing, downFlushing, received>>
    BY <1>5, <2>1 DEF P!Send, P!Now, P!CallWorker
  <2>3. \/ command = "TM_Exit" /\ todo = Stop2 /\ todo \in Before
        \/ command = "TM_Pause" /\ todo = Seek3 /\ todo \in Before
        \/ command = "TM_Start" /\ todo = Seek7 /\ todo \in Paused
    BY <1>a, <2>2, TodoAt DEF P!Commands
  <2>4. /\ worker \in Busy \cup Ending /\ ~m_EventSend /\ ~m_EventComplete
        /\ command = "TM_Start" => worker \in Ending /\ requests = <<>>
    BY <1>a, <2>2, <2>3 DEF TodoInv, AnswerInv
  <2>5. P!TypeOK'
    <3>1. m_EventSend' \in BOOLEAN
      BY <2>2, Zenon
    <3> QED BY <1>a, <2>2, <3>1 DEF P!TypeOK
  <2>6. AnswerInv(pullControl = "sent")'
    BY <1>a, <1>b, <2>2, <2>4 DEF AnswerInv, Answering
  <2>7. TodoInv'
    BY <1>a, <2>2 DEF TodoInv
  <2>8. SentInv'
    BY <1>b, <2>2, <2>3, <2>4 DEF SentInv, Answering
  <2>9. RequestsInv' /\ ProcessInv' /\ P!InOrder'
    BY <2>2, PullKeeps
  <2> QED BY <2>5, <2>6, <2>7, <2>8, <2>9 DEF PullInv
<1>6. CASE P!Answered
  <2>1. /\ pullControl = "sent" /\ pullControl' = "call" /\ todo' = Tail(todo)
        /\ m_EventComplete /\ m_EventComplete' = FALSE
        /\ UNCHANGED <<m_hThread, m_EventSend, m_dwParam, m_dwReturnVal, worker, reply,
                       setting, m_State, committed, seeks, m_tStart, m_tStop, tCurrent, range,
                       requests, flushing, downFlushing, received>>
    BY <1>6 DEF P!Answered, P!WorkerReturns
  <2>2. todo \in {Stop2, Seek3, Seek7} /\ m_State = Head(todo) /\ todo # <<>> /\ m_dwParam = Head(todo)
    BY <1>a, <2>1, TodoHeads DEF SentInv
  <2>3. \/ m_State = "TM_Exit" /\ todo' \in Exited /\ worker = "ended"
        \/ m_State = "TM_Pause" /\ todo' \in Paused /\ worker \in Ending /\ requests = <<>>
        \/ m_State = "TM_Start" /\ todo' = <<>> /\ worker \in Busy \cup Ending
    BY <1>a, <2>1, <2>2, TodoAt, TodoHeads DEF SentInv
  <2>4. P!TypeOK'
    <3>1. todo' \in Seq(Todos)
      BY <1>a, <2>1, <2>2, TodoAt
    <3>2. m_EventComplete' \in BOOLEAN
      BY <2>1, Zenon
    <3> QED BY <1>a, <2>1, <3>1, <3>2 DEF P!TypeOK, Todos
  <2>5. AnswerInv(pullControl = "sent")'
    BY <1>a, <2>1 DEF AnswerInv
  <2>6. TodoInv'
    BY <2>1, <2>3, TodoApart DEF TodoInv
  <2>7. SentInv'
    BY <2>1 DEF SentInv
  <2>8. RequestsInv' /\ ProcessInv' /\ P!InOrder'
    BY <2>1, PullKeeps
  <2> QED BY <2>4, <2>5, <2>6, <2>7, <2>8 DEF PullInv
<1>7. CASE P!Decommit
  <2>1. /\ pullControl = "call" /\ todo # <<>> /\ Head(todo) = "close" /\ todo' = Tail(todo)
        /\ committed' = FALSE /\ m_hThread' = FALSE /\ worker' = "none" /\ worker = "ended"
        /\ UNCHANGED <<m_EventSend, m_EventComplete, m_dwParam, m_dwReturnVal, reply,
                       setting, pullControl, m_State, seeks, m_tStart, m_tStop, tCurrent, range,
                       requests, flushing, downFlushing, received>>
    BY <1>7 DEF P!Decommit, P!Now, P!Close
  <2>2. todo \in Exited /\ todo' = <<>> /\ m_State = "TM_Exit" /\ requests = <<>>
    BY <1>a, <2>1, TodoAt DEF TodoInv, RequestsInv
  <2>3. P!TypeOK'
    <3>1. todo' \in Seq(Todos)
      BY <1>a, <2>1, TodoAt
    <3>2. committed' \in BOOLEAN
      BY <2>1, Zenon
    <3> QED BY <1>a, <2>1, <3>1, <3>2 DEF P!TypeOK, Todos
  <2>4. AnswerInv(pullControl = "sent")'
    BY <1>a, <2>1 DEF AnswerInv, Answering
  <2>5. TodoInv'
    BY <2>1, <2>2, TodoApart DEF TodoInv
  <2>6. SentInv'
    BY <2>1 DEF SentInv
  <2>7. RequestsInv' /\ ProcessInv' /\ P!InOrder'
    BY <2>1, <2>2, PullKeeps
  <2> QED BY <2>3, <2>4, <2>5, <2>6, <2>7 DEF PullInv
<1>8. CASE P!Return
  <2>1. /\ pullControl = "call" /\ todo = <<>> /\ pullControl' = "idle"
        /\ UNCHANGED <<m_hThread, m_EventSend, m_EventComplete, m_dwParam, m_dwReturnVal, worker, reply,
                       setting, todo, m_State, committed, seeks, m_tStart, m_tStop, tCurrent, range,
                       requests, flushing, downFlushing, received>>
    BY <1>8 DEF P!Return
  <2>2. P!TypeOK'
    BY <1>a, <2>1 DEF P!TypeOK
  <2>3. AnswerInv(pullControl = "sent")'
    BY <1>a, <2>1 DEF AnswerInv
  <2>4. TodoInv' /\ SentInv'
    BY <1>a, <2>1 DEF TodoInv, SentInv
  <2>5. RequestsInv' /\ ProcessInv' /\ P!InOrder'
    BY <2>1, PullKeeps
  <2> QED BY <2>2, <2>3, <2>4, <2>5 DEF PullInv
<1> QED BY <1>1, <1>2, <1>3, <1>4, <1>5, <1>6, <1>7, <1>8 DEF P!Control

\* The thread goes on within Process or leaves it, or clears away what is left.
LEMMA PullMoves ==
  ASSUME PullInv, NEW place, P!Go(place), UNCHANGED P!calls,
         \/ worker \in Busy /\ place \in Busy \cup {"flush"}
         \/ worker \in Ending /\ place \in Ending /\ (requests = <<>> => requests' = <<>>)
  PROVE  AnswerInv(pullControl = "sent")' /\ TodoInv' /\ SentInv'
<1>a. AnswerInv(pullControl = "sent") /\ TodoInv /\ SentInv
  BY DEF PullInv
<1>b. /\ worker' = place
      /\ UNCHANGED <<m_hThread, m_EventSend, m_EventComplete, m_dwParam, m_dwReturnVal, reply,
                     pullControl, todo, m_State>>
  BY DEF P!Go, P!calls
<1>c. /\ worker \in Busy \cup Ending /\ place \in Busy \cup Ending
      /\ worker \in Ending => worker \notin Busy /\ place \in Ending /\ (requests = <<>> => requests' = <<>>)
      /\ \A p \in Busy \cup Ending : p \notin {"none", "ended", "reset", "signal"}
  BY DEF Busy, Ending
<1>1. AnswerInv(pullControl = "sent")'
  BY <1>a, <1>b, <1>c DEF AnswerInv, Answering
<1>2. TodoInv'
  BY <1>a, <1>b, <1>c DEF TodoInv
<1>3. SentInv'
  BY <1>a, <1>b, <1>c DEF SentInv, Answering
<1> QED BY <1>1, <1>2, <1>3

\* The thread takes a command and answers it.
LEMMA PullAnswers ==
  ASSUME P!PullAssumption, PullInv,
         P!OnRequest \/ (P!Replying /\ UNCHANGED <<P!calls, P!pullVars>>)
  PROVE  PullInv'
<1>a. /\ P!TypeOK /\ AnswerInv(pullControl = "sent")
      /\ TodoInv /\ SentInv /\ RequestsInv /\ ProcessInv /\ P!InOrder
  BY DEF PullInv
<1>b. UNCHANGED <<setting, pullControl, todo, m_State, committed, seeks, m_tStart, m_tStop,
                  tCurrent, range, requests, flushing, downFlushing, received>>
  BY DEF P!OnRequest, P!calls, P!pullVars
<1>1. CASE P!OnRequest
  <2>1. /\ worker = "wait" /\ m_EventSend /\ worker' = "reset"
        /\ UNCHANGED <<m_hThread, m_EventSend, m_EventComplete, m_dwParam, m_dwReturnVal>>
        /\ reply'.to = m_dwParam
        /\ \/ m_dwParam = "TM_Exit" /\ reply'.next = "ended"
           \/ m_dwParam = "TM_Pause" /\ reply'.next = "flush"
           \/ m_dwParam = "TM_Start" /\ reply'.next = "start"
    BY <1>1 DEF P!OnRequest, P!GetRequest, P!Reply
  <2>2. pullControl = "sent" /\ ~m_EventComplete /\ m_hThread /\ requests = <<>>
    BY <1>a, <2>1 DEF AnswerInv, RequestsInv
  <2>3. P!TypeOK'
    BY <1>a, <1>b, <2>1 DEF P!TypeOK
  <2>4. AnswerInv(pullControl = "sent")'
    BY <1>b, <2>1, <2>2 DEF AnswerInv, Answering
  <2>5. TodoInv'
    BY <1>a, <1>b, <2>2 DEF TodoInv
  <2>6. SentInv'
    BY <1>a, <1>b, <2>1, <2>2 DEF SentInv
  <2>7. RequestsInv' /\ ProcessInv' /\ P!InOrder'
    BY <1>b, <2>1, <2>2, PullKeeps
  <2> QED BY <2>3, <2>4, <2>5, <2>6, <2>7 DEF PullInv
<1>2. CASE P!Replying
  <2>1. /\ worker \in Answering /\ m_dwReturnVal' = reply.value
        /\ UNCHANGED <<m_hThread, m_dwParam, reply>>
    BY <1>2 DEF P!Replying, P!ReplyStep, Answering
  <2>2. /\ pullControl = "sent" /\ requests = <<>> /\ reply.to = m_dwParam /\ m_hThread
        /\ ~m_EventComplete /\ m_dwParam \in {"TM_Start", "TM_Pause", "TM_Exit"}
        /\ todo \in {Stop2, Seek3, Seek7} /\ m_dwParam = Head(todo) /\ m_State = m_dwParam
    BY <1>a, <2>1, TodoHeads DEF AnswerInv, RequestsInv, SentInv, Answering
  <2>3. \/ m_dwParam = "TM_Start" /\ reply.next = "start"
        \/ m_dwParam = "TM_Pause" /\ reply.next = "flush"
        \/ m_dwParam = "TM_Exit" /\ reply.next = "ended"
    BY <1>a, <2>1, <2>2 DEF SentInv
  <2>4. \/ worker = "reset" /\ m_EventSend' = FALSE /\ worker' = "signal" /\ UNCHANGED m_EventComplete
        \/ worker = "signal" /\ m_EventComplete' = TRUE /\ worker' = reply.next /\ UNCHANGED m_EventSend
    BY <1>2 DEF P!Replying, P!ReplyStep
  <2>5. P!TypeOK'
    <3>1. worker' \in {"signal", "start", "flush", "ended"}
      BY <2>3, <2>4
    <3> QED BY <1>a, <1>b, <3>1 DEF P!TypeOK
  <2>6. AnswerInv(pullControl = "sent")'
    <3>1. CASE worker = "reset"
      BY <1>a, <1>b, <2>1, <2>2, <2>4, <3>1 DEF AnswerInv, Answering
    <3>2. CASE worker = "signal"
      BY <1>a, <1>b, <2>1, <2>2, <2>3, <2>4, <3>2 DEF AnswerInv, Answering
    <3> QED BY <2>4, <3>1, <3>2
  <2>7. TodoInv'
    BY <1>a, <1>b, <2>2 DEF TodoInv
  <2>8. SentInv'
    <3>1. CASE worker = "reset"
      BY <1>a, <1>b, <2>1, <2>2, <2>3, <2>4, <3>1 DEF SentInv, AnswerInv, Answering
    <3>2. CASE worker = "signal"
      BY <1>a, <1>b, <2>1, <2>2, <2>3, <2>4, <3>2 DEF SentInv, AnswerInv, Answering, Busy, Ending
    <3> QED BY <2>4, <3>1, <3>2
  <2>9. RequestsInv' /\ ProcessInv' /\ P!InOrder'
    <3>1. RequestsInv'
      BY <1>b, <2>2, <2>3, <2>4 DEF RequestsInv
    <3>2. ProcessInv'
      BY <2>3, <2>4 DEF ProcessInv, Busy
    <3>3. P!InOrder'
      BY <1>a, <1>b DEF P!InOrder
    <3> QED BY <3>1, <3>2, <3>3
  <2> QED BY <2>5, <2>6, <2>7, <2>8, <2>9 DEF PullInv
<1> QED BY <1>1, <1>2

\* The data of the thread: positions and sequences of them.
Data ==
  /\ Length \in Nat /\ m_tStart \in 0 .. Length /\ m_tStop \in 0 .. Length /\ tCurrent \in 0 .. Length
  /\ range \in (0 .. Length) \X (0 .. Length)
  /\ requests \in Seq(0 .. Length) /\ Len(requests) <= 2
  /\ received \in Seq(0 .. Length \cup {P!End})

LEMMA PullData ==
  ASSUME P!PullAssumption, P!TypeOK
  PROVE  /\ Data /\ setting \in [sync : BOOLEAN, ahead : BOOLEAN] /\ Ahead \in {0, 1}
         /\ range[1] \in 0 .. Length /\ range[2] \in 0 .. Length
         /\ Len(requests) \in Nat /\ Len(received) \in Nat
         /\ DOMAIN received = 1 .. Len(received)
<1>1. Data /\ setting \in [sync : BOOLEAN, ahead : BOOLEAN]
  BY DEF Data, P!TypeOK, P!PullAssumption
<1>2. range[1] \in 0 .. Length /\ range[2] \in 0 .. Length
  BY <1>1 DEF Data
<1>3. Len(requests) \in Nat /\ Len(received) \in Nat /\ DOMAIN received = 1 .. Len(received)
  BY <1>1, LenProperties DEF Data
<1> QED BY <1>1, <1>2, <1>3 DEF Ahead

\* A sequence without its first elements.
LEMMA RestOf ==
  ASSUME NEW D, NEW s \in Seq(D), NEW n \in 0 .. Len(s)
  PROVE  /\ SubSeq(s, n + 1, Len(s)) \in Seq(D)
         /\ Len(SubSeq(s, n + 1, Len(s))) = Len(s) - n
         /\ n = Len(s) \/ s = <<>> => SubSeq(s, n + 1, Len(s)) = <<>>
<1>1. Len(s) \in Nat /\ s \in [1 .. Len(s) -> D]
  BY LenProperties
<1>2. \A i \in n + 1 .. Len(s) : s[i] \in D
  BY <1>1
<1>3. n + 1 \in Int /\ Len(s) \in Int /\ n \in Int
  BY <1>1
<1>4. /\ SubSeq(s, n + 1, Len(s)) \in Seq(D)
      /\ Len(SubSeq(s, n + 1, Len(s))) = IF n + 1 <= Len(s) THEN Len(s) - (n + 1) + 1 ELSE 0
  BY <1>2, <1>3, SubSeqProperties
<1>5. s = <<>> => n = Len(s)
  BY <1>1
<1>6. n = Len(s) => SubSeq(s, n + 1, Len(s)) = <<>>
  BY <1>3, SubSeqEmpty
<1>7. (IF n + 1 <= Len(s) THEN Len(s) - (n + 1) + 1 ELSE 0) = Len(s) - n
  BY <1>3
<1>8. Len(SubSeq(s, n + 1, Len(s))) = Len(s) - n
  BY <1>4, <1>7
<1> QED BY <1>4, <1>5, <1>6, <1>8

LEMMA Cleared ==
  ASSUME P!PullAssumption, P!TypeOK, P!CleanupCancelled
  PROVE  /\ requests' \in Seq(0 .. Length) /\ Len(requests') <= 2
         /\ flushing \/ requests = <<>> => requests' = <<>>
<1>1. PICK n \in 0 .. Len(requests) :
        (flushing => n = Len(requests)) /\ requests' = SubSeq(requests, n + 1, Len(requests))
  BY DEF P!CleanupCancelled
<1>2. Data /\ Len(requests) \in Nat
  BY PullData
<1>3. /\ SubSeq(requests, n + 1, Len(requests)) \in Seq(0 .. Length)
      /\ Len(SubSeq(requests, n + 1, Len(requests))) = Len(requests) - n
      /\ n = Len(requests) \/ requests = <<>> => SubSeq(requests, n + 1, Len(requests)) = <<>>
  BY <1>2, RestOf DEF Data
<1> QED BY <1>1, <1>2, <1>3 DEF Data

\* What is received so far is in order.
LEMMA InOrderSoFar ==
  ASSUME P!PullAssumption, received' \in Seq(0 .. Length \cup {P!End}), range' \in (0 .. Length) \X (0 .. Length),
         \A i \in 1 .. Len(received') : received'[i] = range'[1] + i - 1 /\ received'[i] < range'[2]
  PROVE  P!InOrder'
<1>1. Len(received') \in Nat /\ DOMAIN received' = 1 .. Len(received')
  BY LenProperties
<1>2. range'[1] \in Nat
  BY DEF P!PullAssumption
<1>3. received' # <<>> => Len(received') \in 1 .. Len(received')
  BY <1>1, EmptySeq
<1>4. received' # <<>> => received'[Len(received')] # P!End
  BY <1>1, <1>2, <1>3 DEF P!End
<1> QED BY <1>1, <1>4 DEF P!InOrder

LEMMA PullBegins == ASSUME P!PullAssumption, PullInv, P!ProcessStart PROVE PullInv'
<1>a. /\ P!TypeOK /\ RequestsInv
      /\ Data /\ Len(requests) \in Nat
  BY PullData DEF PullInv
<1>1. /\ worker = "start" /\ range' = <<m_tStart, m_tStop>> /\ tCurrent' = m_tStart
      /\ UNCHANGED <<setting, pullControl, todo, m_State, committed, seeks, m_tStart, m_tStop, requests,
                     flushing, downFlushing>>
  BY DEF P!ProcessStart, P!calls
<1>2. requests = <<>> /\ Len(requests) = 0
  BY <1>a, <1>1, EmptySeq DEF RequestsInv
<1>3. /\ range' \in (0 .. Length) \X (0 .. Length) /\ range'[1] = m_tStart /\ range'[2] = m_tStop
      /\ tCurrent' \in 0 .. Length
  BY <1>a, <1>1 DEF Data
<1>4. CASE m_tStop <= m_tStart
  <2>1. P!Go("flush") /\ received' \in {<<>>, <<P!End>>}
    BY <1>4 DEF P!ProcessStart
  <2>2. AnswerInv(pullControl = "sent")' /\ TodoInv' /\ SentInv'
    BY <1>1, <2>1, PullMoves DEF P!calls, Busy
  <2>3. received' \in Seq(0 .. Length \cup {P!End}) /\ worker' = "flush"
    <3>1. P!End \in 0 .. Length \cup {P!End}
      OBVIOUS
    <3>2. \A e \in 0 .. Length \cup {P!End} : <<e>> \in Seq(0 .. Length \cup {P!End})
      OBVIOUS
    <3> QED BY <2>1, <3>1, <3>2, EmptySeq DEF P!Go
  <2>4. P!TypeOK'
    BY <1>a, <1>1, <1>3, <2>3 DEF P!TypeOK
  <2>5. RequestsInv' /\ ProcessInv'
    BY <2>3 DEF RequestsInv, ProcessInv, Busy
  <2>6. P!InOrder'
    <3>1. CASE received' = <<>>
      BY <3>1 DEF P!InOrder
    <3>2. CASE received' = <<P!End>>
      <4>1. Len(received') = 1 /\ DOMAIN received' = {1} /\ received'[1] = P!End
        BY <3>2
      <4>2. range'[2] - range'[1] <= 0
        BY <1>a, <1>3, <1>4 DEF Data
      <4>3. 1 + (IF setting'.ahead /\ ~setting'.sync THEN 1 ELSE 0) > range'[2] - range'[1]
        BY <1>a, <1>3, <4>2 DEF Data
      <4> QED BY <4>1, <4>3 DEF P!InOrder
    <3> QED BY <2>1, <3>1, <3>2
  <2> QED BY <2>2, <2>4, <2>5, <2>6 DEF PullInv
<1>5. CASE ~(m_tStop <= m_tStart)
  <2>1. P!Go("check") /\ received' = <<>>
    BY <1>5 DEF P!ProcessStart
  <2>2. AnswerInv(pullControl = "sent")' /\ TodoInv' /\ SentInv'
    BY <1>1, <2>1, PullMoves DEF P!calls, Busy
  <2>3. received' \in Seq(0 .. Length \cup {P!End}) /\ Len(received') = 0 /\ worker' = "check"
    BY <2>1, EmptySeq DEF P!Go
  <2>4. P!TypeOK'
    BY <1>a, <1>1, <1>3, <2>3 DEF P!TypeOK
  <2>5. RequestsInv'
    BY <1>1, <1>2, <2>3 DEF RequestsInv
  <2>6. ProcessInv'
    <3>1. Len(requests') = 0 /\ tCurrent' = range'[1] /\ range'[1] \in Nat /\ tCurrent' <= range'[2]
      BY <1>a, <1>1, <1>2, <1>3, <1>5 DEF Data
    <3> QED BY <2>3, <3>1 DEF ProcessInv, Position
  <2>7. P!InOrder'
    BY <2>1 DEF P!InOrder
  <2> QED BY <2>2, <2>4, <2>5, <2>6, <2>7 DEF PullInv
<1> QED BY <1>4, <1>5

\* The end of the stream follows all that was to be received.
LEMMA PullEnds ==
  ASSUME P!PullAssumption, PullInv, worker = "check", tCurrent >= range[2],
         received' = Append(received, P!End), UNCHANGED <<range, setting>>
  PROVE  P!InOrder' /\ received' \in Seq(0 .. Length \cup {P!End})
<1>a. /\ P!TypeOK /\ RequestsInv /\ ProcessInv
      /\ Data /\ Ahead \in {0, 1} /\ range[1] \in 0 .. Length /\ range[2] \in 0 .. Length
      /\ Len(received) \in Nat /\ requests = <<>> /\ Len(requests) = 0
  BY PullData, EmptySeq DEF PullInv, RequestsInv
<1>1. /\ received' \in Seq(0 .. Length \cup {P!End})
      /\ Len(received') = Len(received) + 1
      /\ \A i \in 1 .. Len(received) : received'[i] = received[i]
      /\ received'[Len(received) + 1] = P!End
  BY <1>a, AppendProperties DEF Data
<1>2. DOMAIN received' = 1 .. Len(received) + 1
  BY <1>1, LenProperties
<1>3. \A i \in 1 .. Len(received) : received[i] = range[1] + i - 1 /\ received[i] < range[2]
  BY <1>a DEF ProcessInv, Busy
<1>4. Len(received) + 1 + (IF setting.ahead /\ ~setting.sync THEN 1 ELSE 0) > range[2] - range[1]
  <2>1. tCurrent = range[2]
    BY <1>a DEF ProcessInv, Busy, Data
  <2>2. CASE tCurrent = range[1] + Len(received) + Len(requests)
    BY <1>a, <2>1, <2>2
  <2>3. CASE setting.ahead /\ ~setting.sync /\ Len(received) + 1 = range[2] - range[1]
    BY <1>a, <2>3
  <2> QED BY <1>a, <2>2, <2>3 DEF ProcessInv, Position, Busy
<1>5. \A i \in DOMAIN received' :
        \/ received'[i] = range[1] + i - 1 /\ received'[i] < range[2]
        \/ received'[i] = P!End /\ i = Len(received')
  <2> SUFFICES ASSUME NEW i \in 1 .. Len(received) + 1
               PROVE  \/ received'[i] = range[1] + i - 1 /\ received'[i] < range[2]
                      \/ received'[i] = P!End /\ i = Len(received')
    BY <1>2
  <2>1. CASE i = Len(received) + 1
    BY <1>1, <2>1
  <2>2. CASE i # Len(received) + 1
    <3>1. i \in 1 .. Len(received)
      BY <1>a, <2>2
    <3> QED BY <1>1, <1>3, <3>1
  <2> QED BY <2>1, <2>2
<1>6. Len(received') + (IF setting'.ahead /\ ~setting'.sync THEN 1 ELSE 0) > range'[2] - range'[1]
  BY <1>1, <1>4
<1>7. \A i \in DOMAIN received' :
        \/ received'[i] = range'[1] + i - 1 /\ received'[i] < range'[2]
        \/ received'[i] = P!End /\ i = Len(received')
  BY <1>5
<1> QED BY <1>1, <1>6, <1>7 DEF P!InOrder

\* The same as numbers.
LEMMA PullNumbers ==
  ASSUME P!PullAssumption, P!TypeOK
  PROVE  /\ tCurrent \in Int /\ range[1] \in Int /\ range[2] \in Int /\ Length \in Int
         /\ 0 <= tCurrent /\ range[2] <= Length
         /\ Len(received) \in Nat /\ Len(requests) \in Nat /\ Len(requests) <= 2
         /\ requests \in Seq(0 .. Length) /\ received \in Seq(0 .. Length \cup {P!End})
         /\ requests = <<>> <=> Len(requests) = 0
<1>1. Data /\ range[1] \in 0 .. Length /\ range[2] \in 0 .. Length /\ Len(requests) \in Nat /\ Len(received) \in Nat
  BY PullData
<1>2. requests \in Seq(0 .. Length) /\ received \in Seq(0 .. Length \cup {P!End}) /\ Len(requests) <= 2
      /\ Length \in Nat /\ tCurrent \in 0 .. Length
  BY <1>1 DEF Data
<1>3. requests = <<>> <=> Len(requests) = 0
  BY <1>2, EmptySeq
<1> QED BY <1>1, <1>2, <1>3

\* A step of Process or of the end of the loop leaves every variable a value of its kind.
LEMMA PullTyped ==
  ASSUME P!TypeOK, UNCHANGED <<setting, pullControl, todo, m_State, committed, seeks, m_tStart, m_tStop>>,
         worker' \in Busy \cup Ending, tCurrent' \in 0 .. Length, UNCHANGED <<range, downFlushing>>,
         requests' \in Seq(0 .. Length), Len(requests') <= 2,
         received' \in Seq(0 .. Length \cup {P!End}), flushing' \in BOOLEAN
  PROVE  P!TypeOK'
<1>1. /\ worker' \in {P!Nobody, "wait", "start", "check", "ask", "again", "collect", "last",
                      "read", "flush", "clean", "unflush", "reset", "signal", "ended"}
  BY DEF Busy, Ending
<1> QED BY <1>1 DEF P!TypeOK

LEMMA PullChecks == ASSUME P!PullAssumption, PullInv, P!Check PROVE PullInv'
<1>n. /\ tCurrent \in Int /\ range[1] \in Int /\ range[2] \in Int /\ Length \in Int
      /\ 0 <= tCurrent /\ range[2] <= Length
      /\ Len(received) \in Nat /\ Len(requests) \in Nat /\ Len(requests) <= 2
  BY PullNumbers DEF PullInv
<1>s. /\ requests \in Seq(0 .. Length) /\ received \in Seq(0 .. Length \cup {P!End})
      /\ tCurrent \in 0 .. Length /\ flushing \in BOOLEAN /\ Len(requests) <= 2
      /\ (requests = <<>> <=> Len(requests) = 0)
  BY PullNumbers DEF PullInv, P!TypeOK
<1>a. /\ P!TypeOK /\ RequestsInv /\ ProcessInv /\ P!InOrder
      /\ Data /\ range[1] \in 0 .. Length /\ range[2] \in 0 .. Length /\ Len(received) \in Nat
      /\ setting \in [sync : BOOLEAN, ahead : BOOLEAN]
  BY PullData DEF PullInv
<1>1. /\ worker = "check"
      /\ UNCHANGED <<setting, pullControl, todo, m_State, committed, seeks, m_tStart, m_tStop, tCurrent,
                     range, requests, flushing, downFlushing>>
  BY DEF P!Check, P!calls
<1>2. requests = <<>> /\ Len(requests) = 0
  BY <1>a, <1>1, EmptySeq DEF RequestsInv
<1>3. CASE P!Go("flush") /\ P!InOrder' /\ received' \in Seq(0 .. Length \cup {P!End})
  <2>1. AnswerInv(pullControl = "sent")' /\ TodoInv' /\ SentInv'
    BY <1>1, <1>3, PullMoves DEF P!calls, Busy
  <2>2. worker' = "flush"
    BY <1>3 DEF P!Go
  <2>3. P!TypeOK'
    BY <1>a, <1>1, <1>3, <2>2 DEF P!TypeOK
  <2>4. RequestsInv' /\ ProcessInv'
    BY <2>2 DEF RequestsInv, ProcessInv, Busy
  <2> QED BY <1>3, <2>1, <2>3, <2>4 DEF PullInv
<1>4. CASE tCurrent >= range[2]
  <2>1. P!EndOfStream
    BY <1>4 DEF P!Check
  <2>2. CASE downFlushing
    <3>1. P!Go("flush") /\ received' = received
      BY <2>1, <2>2 DEF P!EndOfStream
    <3>2. P!InOrder' /\ received' \in Seq(0 .. Length \cup {P!End})
      BY <1>a, <1>1, <3>1 DEF P!InOrder, Data
    <3> QED BY <1>3, <3>1, <3>2
  <2>3. CASE ~downFlushing
    <3>1. P!Go("flush") /\ received' = Append(received, P!End)
      BY <2>1, <2>3 DEF P!EndOfStream
    <3>2. P!InOrder' /\ received' \in Seq(0 .. Length \cup {P!End})
      BY <1>1, <1>4, <3>1, PullEnds
    <3> QED BY <1>3, <3>1, <3>2
  <2> QED BY <2>2, <2>3
<1>5. CASE ~(tCurrent >= range[2])
  <2>1. received' = received /\ P!InOrder'
    BY <1>a, <1>1, <1>5 DEF P!Check, P!InOrder
  <2>2. CASE m_EventSend
    <3>1. P!Go("flush")
      BY <1>5, <2>2 DEF P!Check, P!CheckRequest
    <3> QED BY <1>a, <1>3, <2>1, <3>1 DEF Data
  <2>3. CASE ~m_EventSend
    <3>1. PICK place : place = IF setting.sync THEN "read" ELSE IF setting.ahead THEN "ask" ELSE "again"
      OBVIOUS
    <3>2. P!Go(place)
      BY <1>5, <2>3, <3>1 DEF P!Check, P!CheckRequest
    <3>3. AnswerInv(pullControl = "sent")' /\ TodoInv' /\ SentInv'
      BY <1>1, <3>1, <3>2, PullMoves DEF P!calls, Busy
    <3>4. worker' = place
      BY <3>2 DEF P!Go
    <3>5. P!TypeOK'
      <4>1. worker' \in Busy \cup Ending
        BY <3>1, <3>4 DEF Busy
      <4> QED BY <1>s, <1>a, <1>1, <2>1, <4>1, PullTyped
    <3>6. RequestsInv'
      BY <1>a, <1>1, <1>2, <3>1, <3>4 DEF RequestsInv, Ahead
    <3>7. ProcessInv'
      <4>1. tCurrent = range[1] + Len(received) + Len(requests)
        BY <1>a, <1>1, <1>5 DEF ProcessInv, Position, Busy, Data
      <4>2. tCurrent < range[2]
        BY <1>a, <1>5 DEF Data
      <4> QED BY <1>a, <1>1, <2>1, <3>1, <3>4, <4>1, <4>2 DEF ProcessInv, Position, Busy
    <3> QED BY <2>1, <3>3, <3>5, <3>6, <3>7 DEF PullInv
  <2> QED BY <2>2, <2>3
<1> QED BY <1>4, <1>5

LEMMA OneOn ==
  ASSUME tCurrent \in Int, range[1] \in Int, Len(received) \in Nat, Len(requests) \in Nat,
         tCurrent = range[1] + Len(received) + Len(requests)
  PROVE  tCurrent + 1 = range[1] + Len(received) + (Len(requests) + 1)
OBVIOUS

\* One more request.
LEMMA PullQueues ==
  ASSUME P!PullAssumption, PullInv, worker \in {"ask", "again"}, tCurrent < range[2],
         NEW next, next = (IF worker = "ask" THEN "again" ELSE "collect"),
         P!QueueSample(next), UNCHANGED <<P!calls, m_tStart, m_tStop, range, flushing, downFlushing, received>>
  PROVE  PullInv'
<1>n. /\ tCurrent \in Int /\ range[1] \in Int /\ range[2] \in Int /\ Length \in Int
      /\ 0 <= tCurrent /\ range[2] <= Length
      /\ Len(received) \in Nat /\ Len(requests) \in Nat /\ Len(requests) <= 2
  BY PullNumbers DEF PullInv
<1>s. /\ requests \in Seq(0 .. Length) /\ received \in Seq(0 .. Length \cup {P!End})
      /\ tCurrent \in 0 .. Length /\ flushing \in BOOLEAN /\ Len(requests) <= 2
      /\ (requests = <<>> <=> Len(requests) = 0)
  BY PullNumbers DEF PullInv, P!TypeOK
<1>a. /\ P!TypeOK /\ RequestsInv /\ ProcessInv /\ P!InOrder
      /\ Data /\ range[1] \in 0 .. Length /\ range[2] \in 0 .. Length
      /\ Len(received) \in Nat /\ Len(requests) \in Nat
      /\ setting \in [sync : BOOLEAN, ahead : BOOLEAN]
  BY PullData DEF PullInv
<1>b. UNCHANGED <<setting, pullControl, todo, m_State, committed, seeks>> /\ P!InOrder'
  BY <1>a DEF P!calls, P!InOrder
<1>1. CASE P!CleanupCancelled /\ P!Go("flush") /\ UNCHANGED tCurrent
  <2>1. AnswerInv(pullControl = "sent")' /\ TodoInv' /\ SentInv'
    BY <1>1, PullMoves DEF Busy
  <2>2. worker' = "flush"
    BY <1>1 DEF P!Go
  <2>3. requests' \in Seq(0 .. Length) /\ Len(requests') <= 2
    BY <1>a, <1>1, Cleared
  <2>4. P!TypeOK'
    BY <1>a, <1>b, <1>1, <2>2, <2>3 DEF P!TypeOK
  <2>5. RequestsInv' /\ ProcessInv'
    BY <2>2 DEF RequestsInv, ProcessInv, Busy
  <2> QED BY <1>b, <2>1, <2>4, <2>5 DEF PullInv
<1>2. CASE requests' = Append(requests, tCurrent) /\ tCurrent' = tCurrent + 1 /\ P!Go(next)
  <2>1. AnswerInv(pullControl = "sent")' /\ TodoInv' /\ SentInv'
    BY <1>2, PullMoves DEF Busy
  <2>2. worker' = next
    BY <1>2 DEF P!Go
  <2>3. /\ requests' \in Seq(0 .. Length) /\ Len(requests') = Len(requests) + 1
        /\ \A i \in 1 .. Len(requests) : requests'[i] = requests[i]
        /\ requests'[Len(requests) + 1] = tCurrent
    BY <1>s, <1>2, AppendProperties
  <2>4. /\ worker = "ask" => Len(requests) = 0 /\ setting.ahead
        /\ worker = "again" => Len(requests) = Ahead
        /\ ~setting.sync /\ Ahead \in {0, 1}
    BY <1>a, EmptySeq DEF RequestsInv, Ahead
  <2>5. tCurrent + 1 \in 0 .. Length /\ tCurrent + 1 <= range[2] /\ Len(requests') <= 2
    <3>1. tCurrent + 1 \in 0 .. Length /\ tCurrent + 1 <= range[2]
      BY <1>n
    <3>2. Len(requests) <= 1
      BY <2>4
    <3> QED BY <1>n, <2>3, <3>1, <3>2
  <2>6. P!TypeOK'
    <3>1. worker' \in Busy \cup Ending
      BY <2>2 DEF Busy
    <3> QED BY <1>s, <1>a, <1>b, <1>2, <2>3, <2>5, <3>1, PullTyped
  <2>7. RequestsInv'
    BY <1>b, <2>2, <2>3, <2>4 DEF RequestsInv, Ahead
  <2>8. ProcessInv'
    <3>1. /\ tCurrent = range[1] + Len(received) + Len(requests)
          /\ \A i \in 1 .. Len(received) : received[i] = range[1] + i - 1 /\ received[i] < range[2]
          /\ \A j \in 1 .. Len(requests) : requests[j] = range[1] + Len(received) + j - 1
      BY <1>a DEF ProcessInv, Position, Busy
    <3>2. tCurrent' = range[1] + Len(received) + Len(requests')
      <4>1. tCurrent' = tCurrent + 1 /\ Len(requests') = Len(requests) + 1
        BY <1>2, <2>3
      <4>2. tCurrent = range[1] + Len(received) + Len(requests)
        BY <3>1
      <4>3. tCurrent + 1 = range[1] + Len(received) + (Len(requests) + 1)
        BY <1>n, <4>2, OneOn, Zenon
      <4> QED BY <4>1, <4>3
    <3>3. ASSUME NEW j \in 1 .. Len(requests') PROVE requests'[j] = range[1] + Len(received) + j - 1
      <4>1. CASE j = Len(requests) + 1
        BY <1>n, <2>3, <3>1, <4>1
      <4>2. CASE j # Len(requests) + 1
        <5>1. j \in 1 .. Len(requests)
          BY <1>n, <2>3, <4>2
        <5> QED BY <2>3, <3>1, <5>1
      <4> QED BY <4>1, <4>2
    <3> QED BY <1>2, <2>2, <2>5, <3>1, <3>2, <3>3 DEF ProcessInv, Position
  <2> QED BY <1>b, <2>1, <2>6, <2>7, <2>8 DEF PullInv
<1> QED BY <1>1, <1>2 DEF P!QueueSample

LEMMA PullAsks == ASSUME P!PullAssumption, PullInv, P!Ask PROVE PullInv'
<1>n. /\ tCurrent \in Int /\ range[1] \in Int /\ range[2] \in Int /\ Length \in Int
      /\ 0 <= tCurrent /\ range[2] <= Length
      /\ Len(received) \in Nat /\ Len(requests) \in Nat /\ Len(requests) <= 2
  BY PullNumbers DEF PullInv
<1>s. /\ requests \in Seq(0 .. Length) /\ received \in Seq(0 .. Length \cup {P!End})
      /\ tCurrent \in 0 .. Length /\ flushing \in BOOLEAN /\ Len(requests) <= 2
      /\ (requests = <<>> <=> Len(requests) = 0)
  BY PullNumbers DEF PullInv, P!TypeOK
<1>a. /\ P!TypeOK /\ RequestsInv /\ ProcessInv /\ P!InOrder
      /\ Data /\ range[1] \in 0 .. Length /\ range[2] \in 0 .. Length
      /\ Len(received) \in Nat /\ Len(requests) \in Nat
      /\ setting \in [sync : BOOLEAN, ahead : BOOLEAN]
  BY PullData DEF PullInv
<1>b. UNCHANGED <<P!calls, m_tStart, m_tStop, range, flushing, downFlushing, received>>
  BY DEF P!Ask
<1>1. CASE worker = "ask" /\ P!QueueSample("again")
  <2>1. tCurrent < range[2]
    BY <1>a, <1>1 DEF ProcessInv, Busy
  <2> QED BY <1>b, <1>1, <2>1, PullQueues
<1>2. CASE worker = "again" /\ tCurrent < range[2] /\ P!QueueSample("collect")
  BY <1>b, <1>2, PullQueues
<1>3. CASE /\ worker = "again" /\ tCurrent >= range[2]
           /\ P!Go(IF setting.ahead THEN "last" ELSE "check")
           /\ UNCHANGED <<requests, tCurrent>>
  <2>0. UNCHANGED <<setting, pullControl, todo, m_State, committed, seeks>> /\ P!InOrder'
    BY <1>a, <1>b DEF P!calls, P!InOrder
  <2>1. PICK place : place = IF setting.ahead THEN "last" ELSE "check"
    OBVIOUS
  <2>2. AnswerInv(pullControl = "sent")' /\ TodoInv' /\ SentInv'
    BY <1>b, <1>3, <2>1, PullMoves DEF Busy
  <2>3. worker' = place
    BY <1>3, <2>1 DEF P!Go
  <2>4. P!TypeOK'
    <3>1. worker' \in Busy \cup Ending
      BY <2>1, <2>3 DEF Busy
    <3> QED BY <1>s, <1>a, <1>b, <1>3, <2>0, <3>1, PullTyped
  <2>5. RequestsInv'
    <3>1. Len(requests) = Ahead /\ ~setting.sync
      BY <1>a, <1>3 DEF RequestsInv
    <3>2. ~setting.ahead => requests = <<>>
      BY <1>a, <3>1, EmptySeq DEF Ahead, Data
    <3> QED BY <1>3, <2>0, <2>1, <2>3, <3>1, <3>2 DEF RequestsInv, Ahead
  <2>6. ProcessInv'
    <3>1. /\ tCurrent = range[1] + Len(received) + Len(requests)
          /\ tCurrent = range[2]
      <4>1. tCurrent <= range[2] /\ Position
        BY <1>a, <1>3 DEF ProcessInv, Busy
      <4>2. tCurrent = range[1] + Len(received) + Len(requests)
        BY <1>3, <4>1 DEF Position
      <4> QED BY <1>n, <1>3, <4>1, <4>2
    <3> QED BY <1>a, <1>b, <1>3, <2>1, <2>3, <3>1 DEF ProcessInv, Position, Busy
  <2> QED BY <2>0, <2>2, <2>4, <2>5, <2>6 DEF PullInv
<1> QED BY <1>1, <1>2, <1>3 DEF P!Ask

LEMMA PullCollects == ASSUME P!PullAssumption, PullInv, P!Collect PROVE PullInv'
<1>n. /\ tCurrent \in Int /\ range[1] \in Int /\ range[2] \in Int /\ Length \in Int
      /\ 0 <= tCurrent /\ range[2] <= Length
      /\ Len(received) \in Nat /\ Len(requests) \in Nat /\ Len(requests) <= 2
  BY PullNumbers DEF PullInv
<1>s. /\ requests \in Seq(0 .. Length) /\ received \in Seq(0 .. Length \cup {P!End})
      /\ tCurrent \in 0 .. Length /\ flushing \in BOOLEAN /\ Len(requests) <= 2
      /\ (requests = <<>> <=> Len(requests) = 0)
  BY PullNumbers DEF PullInv, P!TypeOK
<1>a. /\ P!TypeOK /\ RequestsInv /\ ProcessInv /\ P!InOrder
      /\ Data /\ range[1] \in 0 .. Length /\ range[2] \in 0 .. Length
      /\ Len(received) \in Nat /\ Len(requests) \in Nat
      /\ setting \in [sync : BOOLEAN, ahead : BOOLEAN]
  BY PullData DEF PullInv
<1>b. /\ worker \in {"collect", "last"} /\ requests # <<>>
      /\ UNCHANGED <<setting, pullControl, todo, m_State, committed, seeks, m_tStart, m_tStop, tCurrent, range,
                     flushing, downFlushing>>
      /\ UNCHANGED P!calls
  BY DEF P!Collect, P!calls
<1>c. Len(requests) \in Nat \ {0}
  BY <1>n, <1>s, <1>b
<1>1. CASE /\ \E n \in 1..Len(requests) : requests' = SubSeq(requests, n + 1, Len(requests))
           /\ P!Go("flush") /\ UNCHANGED received
  <2>1. AnswerInv(pullControl = "sent")' /\ TodoInv' /\ SentInv'
    BY <1>b, <1>1, PullMoves DEF Busy
  <2>2. worker' = "flush"
    BY <1>1 DEF P!Go
  <2>3. requests' \in Seq(0 .. Length) /\ Len(requests') <= 2
    <3>1. PICK n \in 0 .. Len(requests) : requests' = SubSeq(requests, n + 1, Len(requests))
      BY <1>a, <1>1
    <3>2. /\ SubSeq(requests, n + 1, Len(requests)) \in Seq(0 .. Length)
          /\ Len(SubSeq(requests, n + 1, Len(requests))) = Len(requests) - n
      <4>1. requests \in Seq(0 .. Length) /\ n \in 0 .. Len(requests)
        BY <1>s
      <4> QED BY <4>1, RestOf, Zenon
    <3> QED BY <1>n, <3>1, <3>2
  <2>4. P!TypeOK'
    <3>1. worker' \in Busy \cup Ending
      BY <2>2 DEF Ending
    <3> QED BY <1>s, <1>a, <1>b, <1>1, <2>3, <3>1, PullTyped
  <2>5. RequestsInv' /\ ProcessInv'
    BY <2>2 DEF RequestsInv, ProcessInv, Busy
  <2>6. P!InOrder'
    BY <1>a, <1>b, <1>1 DEF P!InOrder
  <2> QED BY <2>1, <2>4, <2>5, <2>6 DEF PullInv
<1>2. ASSUME NEW hr \in {"S_OK", "S_FALSE"}, P!DeliverSample(Head(requests), hr), requests' = Tail(requests),
             P!Go(IF worker = "last" THEN "check" ELSE IF hr = "S_OK" THEN "again" ELSE "flush")
      PROVE  PullInv'
  <2>1. PICK place : place = IF worker = "last" THEN "check" ELSE IF hr = "S_OK" THEN "again" ELSE "flush"
    OBVIOUS
  <2>2. AnswerInv(pullControl = "sent")' /\ TodoInv' /\ SentInv'
    BY <1>b, <1>2, <2>1, PullMoves DEF Busy
  <2>3. worker' = place
    BY <1>2, <2>1 DEF P!Go
  <2>4. /\ Head(requests) \in 0 .. Length /\ Head(requests) = requests[1]
        /\ requests' \in Seq(0 .. Length) /\ Len(requests') = Len(requests) - 1
        /\ \A i \in 1 .. Len(requests') : requests'[i] = requests[i + 1]
    <3>1. Len(requests) \in 1 .. Len(requests) /\ 1 \in 1 .. Len(requests)
      BY <1>c
    <3>2. /\ Tail(requests) \in Seq(0 .. Length) /\ Len(Tail(requests)) = Len(requests) - 1
          /\ \A i \in 1 .. Len(Tail(requests)) : Tail(requests)[i] = requests[i + 1]
          /\ Head(requests) \in 0 .. Length
      BY <1>s, <1>b, HeadTailProperties
    <3>3. Head(requests) = requests[1]
      OBVIOUS
    <3> QED BY <1>2, <3>2, <3>3
  <2>5. /\ tCurrent = range[1] + Len(received) + Len(requests)
        /\ tCurrent <= range[2] /\ (worker = "last" => tCurrent = range[2])
        /\ \A i \in 1 .. Len(received) : received[i] = range[1] + i - 1 /\ received[i] < range[2]
        /\ \A j \in 1 .. Len(requests) : requests[j] = range[1] + Len(received) + j - 1
    BY <1>a, <1>b DEF ProcessInv, Position, Busy
  <2>6. Head(requests) = range[1] + Len(received) /\ Head(requests) < range[2]
    <3>1. 1 \in 1 .. Len(requests) /\ Len(requests) >= 1
      BY <1>c
    <3>2. requests[1] = range[1] + Len(received) + 1 - 1
      BY <2>5, <3>1
    <3>3. Head(requests) = requests[1]
      BY <2>4
    <3>4. tCurrent = range[1] + Len(received) + Len(requests) /\ tCurrent <= range[2]
      BY <2>5
    <3>5. range[1] + Len(received) < range[2]
      BY <1>n, <3>1, <3>4
    <3>6. requests[1] = range[1] + Len(received)
      BY <1>n, <3>2
    <3> QED BY <3>3, <3>5, <3>6
  <2>7. /\ received' \in Seq(0 .. Length \cup {P!End})
        /\ Len(received') = IF hr = "S_OK" THEN Len(received) + 1 ELSE Len(received)
        /\ \A i \in 1 .. Len(received') : received'[i] = range[1] + i - 1 /\ received'[i] < range[2]
    <3>1. CASE hr = "S_OK"
      <4>1. received' = Append(received, Head(requests))
        BY <1>2, <3>1 DEF P!DeliverSample
      <4>2. Head(requests) \in 0 .. Length \cup {P!End}
        BY <2>4
      <4>3. /\ received' \in Seq(0 .. Length \cup {P!End})
            /\ Len(received') = Len(received) + 1
            /\ \A i \in 1 .. Len(received) : received'[i] = received[i]
            /\ received'[Len(received) + 1] = Head(requests)
        BY <1>a, <4>1, <4>2, AppendProperties DEF Data
      <4>4. ASSUME NEW i \in 1 .. Len(received') PROVE received'[i] = range[1] + i - 1 /\ received'[i] < range[2]
        <5>1. CASE i = Len(received) + 1
          BY <1>a, <2>6, <4>3, <5>1
        <5>2. CASE i # Len(received) + 1
          <6>1. i \in 1 .. Len(received)
            BY <1>a, <4>3, <5>2
          <6> QED BY <2>5, <4>3, <6>1
        <5> QED BY <5>1, <5>2
      <4> QED BY <3>1, <4>3, <4>4
    <3>2. CASE hr = "S_FALSE"
      <4>1. received' = received
        BY <1>2, <3>2 DEF P!DeliverSample
      <4> QED BY <1>a, <2>5, <3>2, <4>1 DEF Data
    <3> QED BY <3>1, <3>2
  <2>8. P!InOrder'
    <3>1. received' \in Seq(0 .. Length \cup {P!End}) /\ range' \in (0 .. Length) \X (0 .. Length)
      BY <1>a, <1>b, <2>7 DEF Data
    <3>2. \A i \in 1 .. Len(received') : received'[i] = range'[1] + i - 1 /\ received'[i] < range'[2]
      BY <1>b, <2>7
    <3> QED BY <3>1, <3>2, InOrderSoFar
  <2>9. P!TypeOK'
    <3>1. Len(requests') <= 2
      BY <1>n, <2>4
    <3>2. worker' \in Busy \cup Ending
      BY <2>1, <2>3 DEF Busy, Ending
    <3> QED BY <1>s, <1>a, <1>b, <2>4, <2>7, <3>1, <3>2, PullTyped
  <2>10. RequestsInv'
    <3>1. /\ worker = "last" => Len(requests) = 1 /\ setting.ahead /\ ~setting.sync
          /\ worker = "collect" => Len(requests) = Ahead + 1 /\ ~setting.sync
      BY <1>a DEF RequestsInv
    <3>2. worker = "last" => requests' = <<>>
      <4>1. worker = "last" => Len(requests') = 0
        <5>1. Len(requests') = Len(requests) - 1
          BY <2>4
        <5>2. worker = "last" => Len(requests) = 1
          BY <3>1
        <5>3. ASSUME worker = "last" PROVE Len(requests') = 0
          <6>1. Len(requests) = 1
            BY <5>2, <5>3
          <6>2. 1 - 1 = 0
            OBVIOUS
          <6> QED BY <5>1, <6>1, <6>2
        <5> QED BY <5>3
      <4> QED BY <2>4, <4>1, EmptySeq
    <3>3. worker = "collect" => Len(requests') = Ahead
      BY <2>4, <3>1 DEF Ahead
    <3> QED BY <1>b, <2>1, <2>3, <3>1, <3>2, <3>3 DEF RequestsInv, Ahead
  <2>11. ProcessInv'
    <3>1. ASSUME hr = "S_OK"
          PROVE  /\ tCurrent = range[1] + Len(received') + Len(requests')
                 /\ \A j \in 1 .. Len(requests') : requests'[j] = range[1] + Len(received') + j - 1
      <4>1. tCurrent = range[1] + Len(received') + Len(requests')
        BY <1>a, <2>4, <2>5, <2>7, <3>1 DEF Data
      <4>2. ASSUME NEW j \in 1 .. Len(requests') PROVE requests'[j] = range[1] + Len(received') + j - 1
        <5>1. j + 1 \in 1 .. Len(requests) /\ j \in Nat
          BY <1>a, <2>4
        <5>2. requests'[j] = requests[j + 1] /\ requests[j + 1] = range[1] + Len(received) + (j + 1) - 1
          BY <2>4, <2>5, <5>1
        <5> QED BY <1>a, <2>7, <3>1, <5>1, <5>2
      <4> QED BY <4>1, <4>2
    <3>2. ASSUME hr = "S_FALSE", worker = "last"
          PROVE  /\ setting.ahead /\ ~setting.sync /\ tCurrent = range[2]
                 /\ Len(received') + 1 = range[2] - range[1] /\ Len(requests') = 0
      <4>1. Len(requests) = 1 /\ setting.ahead /\ ~setting.sync
        BY <1>a, <3>2 DEF RequestsInv
      <4> QED BY <1>a, <2>4, <2>5, <2>7, <3>2, <4>1 DEF Data
    <3>3. CASE hr = "S_OK"
      BY <1>b, <2>1, <2>3, <2>5, <2>7, <3>1, <3>3 DEF ProcessInv, Position
    <3>4. CASE hr = "S_FALSE" /\ worker = "last"
      BY <1>b, <2>1, <2>3, <2>5, <2>7, <3>2, <3>4 DEF ProcessInv, Position
    <3>5. CASE hr = "S_FALSE" /\ worker # "last"
      BY <2>1, <2>3, <3>5 DEF ProcessInv, Busy
    <3> QED BY <3>3, <3>4, <3>5
  <2> QED BY <2>2, <2>8, <2>9, <2>10, <2>11 DEF PullInv
<1> QED BY <1>1, <1>2 DEF P!Collect

LEMMA PullReads == ASSUME P!PullAssumption, PullInv, P!Read PROVE PullInv'
<1>a. /\ P!TypeOK /\ RequestsInv /\ ProcessInv /\ P!InOrder
      /\ Data /\ range[1] \in 0 .. Length /\ range[2] \in 0 .. Length
      /\ Len(received) \in Nat /\ Len(requests) \in Nat
      /\ setting \in [sync : BOOLEAN, ahead : BOOLEAN]
  BY PullData DEF PullInv
<1>b. /\ worker = "read"
      /\ UNCHANGED <<setting, pullControl, todo, m_State, committed, seeks, m_tStart, m_tStop, range, requests,
                     flushing, downFlushing>>
      /\ UNCHANGED P!calls
  BY DEF P!Read, P!calls
<1>c. requests = <<>> /\ Len(requests) = 0 /\ setting.sync
  BY <1>a, <1>b, EmptySeq DEF RequestsInv
<1>1. /\ tCurrent = range[1] + Len(received) /\ tCurrent < range[2]
      /\ \A i \in 1 .. Len(received) : received[i] = range[1] + i - 1 /\ received[i] < range[2]
  BY <1>a, <1>b, <1>c DEF ProcessInv, Position, Busy, Data
<1>2. ASSUME P!Go("flush"), tCurrent' \in 0 .. Length, received' = received
      PROVE  PullInv'
  <2>1. AnswerInv(pullControl = "sent")' /\ TodoInv' /\ SentInv'
    BY <1>b, <1>2, PullMoves DEF Busy
  <2>2. worker' = "flush"
    BY <1>2 DEF P!Go
  <2>3. P!TypeOK'
    BY <1>a, <1>b, <1>2, <2>2 DEF P!TypeOK
  <2>4. RequestsInv' /\ ProcessInv'
    BY <2>2 DEF RequestsInv, ProcessInv, Busy
  <2>5. P!InOrder'
    BY <1>a, <1>b, <1>2 DEF P!InOrder
  <2> QED BY <2>1, <2>3, <2>4, <2>5 DEF PullInv
<1>3. tCurrent \in 0 .. Length /\ tCurrent + 1 \in 0 .. Length /\ tCurrent + 1 <= range[2]
  BY <1>a, <1>1 DEF Data
<1>4. CASE P!Go("flush") /\ UNCHANGED <<received, tCurrent>>
  BY <1>2, <1>3, <1>4
<1>5. CASE P!DeliverSample(tCurrent, "S_FALSE") /\ tCurrent' = tCurrent + 1 /\ P!Go("flush")
  BY <1>2, <1>3, <1>5 DEF P!DeliverSample
<1>6. CASE P!DeliverSample(tCurrent, "S_OK") /\ tCurrent' = tCurrent + 1 /\ P!Go("check")
  <2>1. AnswerInv(pullControl = "sent")' /\ TodoInv' /\ SentInv'
    BY <1>b, <1>6, PullMoves DEF Busy
  <2>2. worker' = "check" /\ received' = Append(received, tCurrent)
    BY <1>6 DEF P!Go, P!DeliverSample
  <2>3. tCurrent \in 0 .. Length \cup {P!End}
    BY <1>3
  <2>4. /\ received' \in Seq(0 .. Length \cup {P!End})
        /\ Len(received') = Len(received) + 1
        /\ \A i \in 1 .. Len(received) : received'[i] = received[i]
        /\ received'[Len(received) + 1] = tCurrent
    BY <1>a, <2>2, <2>3, AppendProperties DEF Data
  <2>5. ASSUME NEW i \in 1 .. Len(received') PROVE received'[i] = range[1] + i - 1 /\ received'[i] < range[2]
    <3>1. CASE i = Len(received) + 1
      BY <1>a, <1>1, <2>4, <3>1
    <3>2. CASE i # Len(received) + 1
      <4>1. i \in 1 .. Len(received)
        BY <1>a, <2>4, <3>2
      <4> QED BY <1>1, <2>4, <4>1
    <3> QED BY <3>1, <3>2
  <2>6. P!InOrder'
    <3>1. range' \in (0 .. Length) \X (0 .. Length)
      BY <1>a, <1>b DEF Data
    <3>2. \A i \in 1 .. Len(received') : received'[i] = range'[1] + i - 1 /\ received'[i] < range'[2]
      BY <1>b, <2>5
    <3> QED BY <2>4, <3>1, <3>2, InOrderSoFar
  <2>7. P!TypeOK'
    BY <1>a, <1>b, <1>3, <1>6, <2>2, <2>4 DEF P!TypeOK
  <2>8. RequestsInv'
    BY <1>b, <1>c, <2>2 DEF RequestsInv
  <2>9. ProcessInv'
    <3>1. tCurrent' = range[1] + Len(received') + Len(requests')
      BY <1>a, <1>b, <1>c, <1>1, <1>6, <2>4 DEF Data
    <3>2. Len(requests') = 0 /\ tCurrent' <= range'[2]
      BY <1>b, <1>c, <1>3, <1>6
    <3> QED BY <1>b, <2>2, <2>5, <3>1, <3>2 DEF ProcessInv, Position
  <2> QED BY <2>1, <2>6, <2>7, <2>8, <2>9 DEF PullInv
<1> QED BY <1>4, <1>5, <1>6 DEF P!Read

\* What is left of the requests is taken back while the reader flushes.
LEMMA PullCleans == ASSUME P!PullAssumption, PullInv, P!Clean PROVE PullInv'
<1>a. /\ P!TypeOK /\ RequestsInv /\ P!InOrder /\ Data
  BY PullData DEF PullInv
<1>b. /\ UNCHANGED <<setting, pullControl, todo, m_State, committed, seeks, m_tStart, m_tStop, tCurrent, range,
                     downFlushing, received>>
      /\ UNCHANGED P!calls
  BY DEF P!Clean, P!calls
<1>1. P!InOrder'
  BY <1>a, <1>b DEF P!InOrder
<1>2. ASSUME NEW place \in Ending, worker \in Ending, P!Go(place),
             flushing' \in BOOLEAN, requests' \in Seq(0 .. Length), Len(requests') <= 2,
             requests = <<>> => requests' = <<>>,
             place \in {"wait", "unflush"} => requests' = <<>>,
             place = "clean" => flushing'
      PROVE  PullInv'
  <2>1. AnswerInv(pullControl = "sent")' /\ TodoInv' /\ SentInv'
    BY <1>b, <1>2, PullMoves
  <2>2. worker' = place /\ place \in {"wait", "flush", "clean", "unflush"}
    BY <1>2 DEF P!Go, Ending
  <2>3. P!TypeOK'
    BY <1>a, <1>b, <1>2, <2>2 DEF P!TypeOK
  <2>4. RequestsInv' /\ ProcessInv'
    BY <1>2, <2>2 DEF RequestsInv, ProcessInv, Busy
  <2> QED BY <1>1, <2>1, <2>3, <2>4 DEF PullInv
<1>3. requests \in Seq(0 .. Length) /\ Len(requests) <= 2 /\ flushing \in BOOLEAN
  BY <1>a DEF P!TypeOK
<1>4. CASE worker = "flush" /\ P!Go("clean") /\ flushing' = TRUE /\ UNCHANGED requests
  <2>1. flushing' \in BOOLEAN /\ flushing'
    BY <1>4, Zenon
  <2> QED BY <1>2, <1>3, <1>4, <2>1 DEF Ending
<1>5. CASE worker = "clean" /\ P!Go("unflush") /\ P!CleanupCancelled /\ UNCHANGED flushing
  <2>1. /\ requests' \in Seq(0 .. Length) /\ Len(requests') <= 2
        /\ flushing \/ requests = <<>> => requests' = <<>>
    BY <1>a, <1>5, Cleared
  <2>2. flushing \/ requests = <<>>
    BY <1>a, <1>5 DEF RequestsInv
  <2> QED BY <1>2, <1>3, <1>5, <2>1, <2>2 DEF Ending
<1>6. CASE worker = "unflush" /\ P!Go("wait") /\ flushing' = FALSE /\ UNCHANGED requests
  <2>1. requests = <<>>
    BY <1>a, <1>6 DEF RequestsInv
  <2>2. flushing' \in BOOLEAN
    BY <1>6, Zenon
  <2> QED BY <1>2, <1>3, <1>6, <2>1, <2>2 DEF Ending
<1> QED BY <1>4, <1>5, <1>6 DEF P!Clean

LEMMA PullStep == ASSUME P!PullAssumption, PullInv, [P!Next]_pullVars PROVE PullInv'
<1>1. CASE UNCHANGED pullVars
  <2>1. UNCHANGED <<m_hThread, m_EventSend, m_EventComplete, m_dwParam, m_dwReturnVal, worker, reply,
                    setting, pullControl, todo, m_State, m_tStart, m_tStop, tCurrent, range, requests,
                    flushing, downFlushing, received, seeks, committed>>
    BY <1>1 DEF pullVars, amThread, pull
  <2>a. P!TypeOK /\ AnswerInv(pullControl = "sent") /\ TodoInv /\ SentInv
    BY DEF PullInv
  <2>2. P!TypeOK' /\ AnswerInv(pullControl = "sent")' /\ TodoInv' /\ SentInv'
    <3>1. P!TypeOK'
      BY <2>1, <2>a DEF P!TypeOK
    <3>2. AnswerInv(pullControl = "sent")'
      BY <2>1, <2>a DEF AnswerInv
    <3>3. TodoInv'
      BY <2>1, <2>a DEF TodoInv
    <3>4. SentInv'
      BY <2>1, <2>a DEF SentInv
    <3> QED BY <3>1, <3>2, <3>3, <3>4
  <2>3. RequestsInv' /\ ProcessInv' /\ P!InOrder'
    BY <2>1, PullKeeps
  <2> QED BY <2>2, <2>3 DEF PullInv
<1> QED BY <1>1, PullControl, PullAnswers, PullBegins, PullChecks, PullAsks, PullCollects, PullReads, PullCleans
        DEF P!Next, P!Worker, P!Control

LEMMA PullWhole ==
  ASSUME PullInv
  PROVE  P!TypeOK /\ P!Quiet /\ P!NoRequestLeft /\ P!InOrder
<1>1. P!NoRequestLeft
  BY DEF PullInv, RequestsInv, P!NoRequestLeft, P!Nobody
<1>2. P!Quiet
  <2> SUFFICES ASSUME pullControl = "call", todo # <<>>, Head(todo) \in {"end", "downEnd", "seek", "close"}
               PROVE  worker \in {"wait", "flush", "clean", "unflush", "ended"} \/ ~m_hThread
    BY DEF P!Quiet
  <2>1. TodoInv /\ AnswerInv(pullControl = "sent")
    BY DEF PullInv
  <2>2. todo \in Paused \/ todo \in Exited \/ todo = Range1
    BY <2>1, TodoAt
  <2> QED BY <2>1, <2>2 DEF TodoInv, AnswerInv, Ending
<1> QED BY <1>1, <1>2 DEF PullInv

-----------------------------------------------------------------------------
(* Requests to start and to stop a stream: CBaseStreamControl.             *)

States == {C!Flowing, C!Discarding}
RequestTimes == C!Times \cup {C!MAX_TIME}

RequestRecords ==
  [flow : States, onStop : States, start : RequestTimes, stop : RequestTimes,
   startCookie : 0 .. MaxCalls, stopCookie : 0 .. MaxCalls,
   told : [1 .. MaxCalls -> Nat]]

\* What the members are as a record: each request that is still to come has a cookie of
\* its own that was not told yet, and a stop to come is a stop indeed.
Scheduled(r, n) ==
  /\ r \in RequestRecords
  /\ r.startCookie <= n /\ r.stopCookie <= n
  /\ r.startCookie = r.stopCookie => r.startCookie = 0
  /\ \A i \in 1 .. MaxCalls :
       /\ r.told[i] <= 1
       /\ i > n \/ i = r.startCookie \/ i = r.stopCookie => r.told[i] = 0
  /\ r.onStop = C!Discarding <=> r.stop # C!MAX_TIME

\* One more sample after a stop, and not more.
ExtraInv ==
  /\ extras \in {0, 1}
  /\ extras = 1 => m_bStopExtraSent
  /\ thread.at = "extraSent" => extras = 0

\* A thread about to wait has been woken if there is a reason not to.
HeldInv ==
  /\ thread.at = "times" => (m_bIsFlushing \/ C!Stopped => m_StreamEvent)
  /\ thread.at \in {"extra", "decide", "wait"} =>
       (m_bIsFlushing \/ C!Stopped \/ m_StreamState = C!Flowing => m_StreamEvent)
  /\ thread.at = "wait" /\ thread.until = C!INFINITE /\ m_FilterState # "State_Paused" =>
       m_StreamEvent
  /\ thread.at # "out" => thread.start < thread.stop

HoldingInv ==
  /\ {m_bStopSendExtra, m_bStopExtraSent, m_bIsFlushing, m_StreamEvent, m_pRefClock} \subseteq BOOLEAN
  /\ m_FilterState \in {"State_Stopped", "State_Paused", "State_Running"}
  /\ now \in C!Times /\ calls \in 0..MaxCalls
  /\ thread \in [at : {"out", "check", "times", "extra", "extraSent", "decide", "wait"},
                 start : C!Times, stop : C!Times, until : C!Times \cup {C!INFINITE}]

ControlInv == Scheduled(C!Now, calls) /\ HoldingInv /\ ExtraInv /\ HeldInv

-----------------------------------------------------------------------------
LEMMA TimesFacts ==
  ASSUME C!StreamControlAssumption
  PROVE  /\ C!MAX_TIME \in Int /\ RequestTimes \subseteq Int
         /\ \A t \in C!Times : t \in RequestTimes /\ t # C!MAX_TIME /\ t < C!MAX_TIME
         /\ C!MAX_TIME \in RequestTimes /\ 0 \in C!Times
         /\ \A t \in RequestTimes : t <= C!MAX_TIME /\ (t < C!MAX_TIME => t \in C!Times)
BY DEF C!StreamControlAssumption, RequestTimes, C!Times, C!MAX_TIME

LEMMA StatesFacts == C!Flowing \in States /\ C!Discarding \in States /\ C!Flowing # C!Discarding
BY DEF States, C!Flowing, C!Discarding

LEMMA CancelStopKeeps ==
  ASSUME C!StreamControlAssumption, NEW r, NEW n \in Nat, Scheduled(r, n)
  PROVE  /\ Scheduled(C!CancelStop(r), n)
         /\ C!CancelStop(r).flow = r.flow /\ C!CancelStop(r).start = r.start
         /\ C!CancelStop(r).stop = C!MAX_TIME /\ C!CancelStop(r).startCookie = r.startCookie
<1> DEFINE s == C!CancelStop(r)
<1>1. /\ s \in RequestRecords /\ s.told = r.told /\ s.flow = r.flow
      /\ s.start = r.start /\ s.startCookie = r.startCookie
      /\ s.stop = C!MAX_TIME /\ s.stopCookie = 0 /\ s.onStop = C!Flowing
  <2>1. r \in RequestRecords
    BY DEF Scheduled
  <2>2. s = [r EXCEPT !.stop = C!MAX_TIME, !.stopCookie = 0, !.onStop = C!Flowing]
    BY DEF C!CancelStop
  <2>3. 0 \in 0 .. MaxCalls
    BY DEF C!StreamControlAssumption
  <2> HIDE DEF s
  <2> QED BY <2>1, <2>2, <2>3, TimesFacts, StatesFacts DEF RequestRecords
<1> HIDE DEF s
<1>2. Scheduled(s, n)
  <2>1. \A i \in 1 .. MaxCalls : i # 0
    BY DEF C!StreamControlAssumption
  <2>2. n >= 0
    OBVIOUS
  <2> QED BY <1>1, <2>1, <2>2, StatesFacts DEF Scheduled
<1> QED BY <1>1, <1>2 DEF s

LEMMA CancelStartKeeps ==
  ASSUME C!StreamControlAssumption, NEW r, NEW n \in Nat, Scheduled(r, n)
  PROVE  /\ Scheduled(C!CancelStart(r), n)
         /\ C!CancelStart(r).flow = r.flow /\ C!CancelStart(r).start = C!MAX_TIME
         /\ C!CancelStart(r).stop = r.stop /\ C!CancelStart(r).onStop = r.onStop
<1> DEFINE s == C!CancelStart(r)
<1>1. /\ s \in RequestRecords /\ s.told = r.told /\ s.flow = r.flow
      /\ s.start = C!MAX_TIME /\ s.startCookie = 0
      /\ s.stop = r.stop /\ s.stopCookie = r.stopCookie /\ s.onStop = r.onStop
  <2>1. r \in RequestRecords
    BY DEF Scheduled
  <2>2. s = [r EXCEPT !.start = C!MAX_TIME, !.startCookie = 0]
    BY DEF C!CancelStart
  <2>3. 0 \in 0 .. MaxCalls
    BY DEF C!StreamControlAssumption
  <2> HIDE DEF s
  <2> QED BY <2>1, <2>2, <2>3, TimesFacts, StatesFacts DEF RequestRecords
<1> HIDE DEF s
<1>2. Scheduled(s, n)
  <2>1. \A i \in 1 .. MaxCalls : i # 0
    BY DEF C!StreamControlAssumption
  <2>2. n >= 0
    OBVIOUS
  <2> QED BY <1>1, <2>1, <2>2, StatesFacts DEF Scheduled
<1> QED BY <1>1, <1>2 DEF s

LEMMA FlowKeeps ==
  ASSUME NEW r, NEW n \in Nat, Scheduled(r, n), NEW f \in States
  PROVE  /\ Scheduled([r EXCEPT !.flow = f], n)
         /\ [r EXCEPT !.flow = f].flow = f
         /\ [r EXCEPT !.flow = f].start = r.start /\ [r EXCEPT !.flow = f].stop = r.stop
BY DEF Scheduled, RequestRecords

\* The cookie that is told is that of a request that is cancelled then.
LEMMA StopKeeps ==
  ASSUME C!StreamControlAssumption, NEW r, NEW n \in Nat, Scheduled(r, n)
  PROVE  /\ Scheduled(C!ExecuteStop(r), n)
         /\ C!ExecuteStop(r).flow = r.onStop /\ C!ExecuteStop(r).start = r.start
         /\ C!ExecuteStop(r).stop = C!MAX_TIME
<1> DEFINE s == [r EXCEPT !.flow = r.onStop]
           t == C!Tell(s, r.stopCookie)
<1>0. r.onStop \in States
  BY DEF Scheduled, RequestRecords
<1>1. Scheduled(s, n) /\ s.flow = r.onStop /\ s.start = r.start /\ s.stop = r.stop /\ s.onStop = r.onStop
      /\ s.startCookie = r.startCookie /\ s.stopCookie = r.stopCookie /\ s.told = r.told
  BY <1>0 DEF Scheduled, RequestRecords
<1>2. /\ t \in RequestRecords
      /\ t.flow = s.flow /\ t.onStop = s.onStop /\ t.start = s.start /\ t.stop = s.stop
      /\ t.startCookie = s.startCookie /\ t.stopCookie = s.stopCookie
      /\ \A i \in 1 .. MaxCalls : t.told[i] = IF i = s.stopCookie THEN s.told[i] + 1 ELSE s.told[i]
  <2> HIDE DEF s
  <2>1. CASE r.stopCookie = 0
    BY <1>1, <2>1 DEF Scheduled, RequestRecords, C!Tell
  <2>2. CASE r.stopCookie # 0
    <3>1. t = [s EXCEPT !.told = [s.told EXCEPT ![r.stopCookie] = s.told[r.stopCookie] + 1]]
      BY <1>1, <2>2 DEF Scheduled, RequestRecords, C!Tell
    <3>2. r.stopCookie \in 1 .. MaxCalls
      BY <1>1, <2>2 DEF Scheduled, RequestRecords, C!StreamControlAssumption
    <3>3. [s.told EXCEPT ![r.stopCookie] = s.told[r.stopCookie] + 1] \in [1 .. MaxCalls -> Nat]
      BY <1>1, <3>2 DEF Scheduled, RequestRecords
    <3> HIDE DEF t
    <3> QED BY <1>1, <3>1, <3>2, <3>3 DEF Scheduled, RequestRecords
  <2> QED BY <2>1, <2>2
<1> HIDE DEF s, t
<1>3. C!ExecuteStop(r) = C!CancelStop(t)
  BY DEF C!ExecuteStop, s, t
<1>4. \A i \in 1 .. MaxCalls : t.told[i] <= 1 /\ (i > n \/ i = t.startCookie => t.told[i] = 0)
  <2> SUFFICES ASSUME NEW i \in 1 .. MaxCalls
               PROVE  t.told[i] <= 1 /\ (i > n \/ i = t.startCookie => t.told[i] = 0)
    OBVIOUS
  <2>1. s.told[i] <= 1 /\ (i > n \/ i = s.startCookie \/ i = s.stopCookie => s.told[i] = 0)
    BY <1>1 DEF Scheduled
  <2>2. i \in Int /\ i # 0
    BY DEF C!StreamControlAssumption
  <2>3. s.stopCookie <= n /\ s.stopCookie \in Int /\ (s.startCookie = s.stopCookie => s.stopCookie = 0)
    BY <1>1 DEF Scheduled, RequestRecords
  <2>4. t.told[i] = IF i = s.stopCookie THEN s.told[i] + 1 ELSE s.told[i]
    BY <1>2
  <2>5. t.startCookie = s.startCookie
    BY <1>2
  <2> QED BY <2>1, <2>2, <2>3, <2>4, <2>5
<1> DEFINE u == C!ExecuteStop(r)
<1>5. u \in RequestRecords /\ u.told = t.told /\ u.flow = t.flow
      /\ u.start = t.start /\ u.startCookie = t.startCookie
      /\ u.stop = C!MAX_TIME /\ u.stopCookie = 0 /\ u.onStop = C!Flowing
  <2>1. u = [t EXCEPT !.stop = C!MAX_TIME, !.stopCookie = 0, !.onStop = C!Flowing]
    BY <1>3 DEF C!CancelStop
  <2>2. 0 \in 0 .. MaxCalls
    BY DEF C!StreamControlAssumption
  <2> HIDE DEF u
  <2> QED BY <1>2, <2>1, <2>2, TimesFacts, StatesFacts DEF RequestRecords
<1> HIDE DEF u
<1>6. Scheduled(u, n)
  <2>1. \A i \in 1 .. MaxCalls : i # 0
    BY DEF C!StreamControlAssumption
  <2>2. n >= 0 /\ t.startCookie <= n /\ (t.onStop = C!Discarding <=> t.stop # C!MAX_TIME)
    BY <1>1, <1>2 DEF Scheduled
  <2> QED BY <1>4, <1>5, <2>1, <2>2, StatesFacts DEF Scheduled
<1> QED BY <1>1, <1>2, <1>5, <1>6 DEF u

LEMMA StartKeeps ==
  ASSUME C!StreamControlAssumption, NEW r, NEW n \in Nat, Scheduled(r, n)
  PROVE  /\ Scheduled(C!ExecuteStart(r), n)
         /\ C!ExecuteStart(r).flow = C!Flowing /\ C!ExecuteStart(r).start = C!MAX_TIME
         /\ C!ExecuteStart(r).stop = r.stop /\ C!ExecuteStart(r).onStop = r.onStop
<1> DEFINE s == [r EXCEPT !.flow = C!Flowing]
           t == C!Tell(s, r.startCookie)
<1>1. Scheduled(s, n) /\ s.flow = C!Flowing /\ s.start = r.start /\ s.stop = r.stop /\ s.onStop = r.onStop
      /\ s.startCookie = r.startCookie /\ s.stopCookie = r.stopCookie /\ s.told = r.told
  BY StatesFacts DEF Scheduled, RequestRecords
<1>2. /\ t \in RequestRecords
      /\ t.flow = s.flow /\ t.onStop = s.onStop /\ t.start = s.start /\ t.stop = s.stop
      /\ t.startCookie = s.startCookie /\ t.stopCookie = s.stopCookie
      /\ \A i \in 1 .. MaxCalls : t.told[i] = IF i = s.startCookie THEN s.told[i] + 1 ELSE s.told[i]
  <2> HIDE DEF s
  <2>1. CASE r.startCookie = 0
    BY <1>1, <2>1 DEF Scheduled, RequestRecords, C!Tell
  <2>2. CASE r.startCookie # 0
    <3>1. t = [s EXCEPT !.told = [s.told EXCEPT ![r.startCookie] = s.told[r.startCookie] + 1]]
      BY <1>1, <2>2 DEF Scheduled, RequestRecords, C!Tell
    <3>2. r.startCookie \in 1 .. MaxCalls
      BY <1>1, <2>2 DEF Scheduled, RequestRecords, C!StreamControlAssumption
    <3>3. [s.told EXCEPT ![r.startCookie] = s.told[r.startCookie] + 1] \in [1 .. MaxCalls -> Nat]
      BY <1>1, <3>2 DEF Scheduled, RequestRecords
    <3> HIDE DEF t
    <3> QED BY <1>1, <3>1, <3>2, <3>3 DEF Scheduled, RequestRecords
  <2> QED BY <2>1, <2>2
<1> HIDE DEF s, t
<1>3. C!ExecuteStart(r) = C!CancelStart(t)
  BY DEF C!ExecuteStart, s, t
<1>4. \A i \in 1 .. MaxCalls : t.told[i] <= 1 /\ (i > n \/ i = t.stopCookie => t.told[i] = 0)
  <2> SUFFICES ASSUME NEW i \in 1 .. MaxCalls
               PROVE  t.told[i] <= 1 /\ (i > n \/ i = t.stopCookie => t.told[i] = 0)
    OBVIOUS
  <2>1. s.told[i] <= 1 /\ (i > n \/ i = s.stopCookie \/ i = s.startCookie => s.told[i] = 0)
    BY <1>1 DEF Scheduled
  <2>2. i \in Int /\ i # 0
    BY DEF C!StreamControlAssumption
  <2>3. s.startCookie <= n /\ s.startCookie \in Int /\ (s.stopCookie = s.startCookie => s.startCookie = 0)
    BY <1>1 DEF Scheduled, RequestRecords
  <2>4. t.told[i] = IF i = s.startCookie THEN s.told[i] + 1 ELSE s.told[i]
    BY <1>2
  <2>5. t.stopCookie = s.stopCookie
    BY <1>2
  <2> QED BY <2>1, <2>2, <2>3, <2>4, <2>5
<1> DEFINE u == C!ExecuteStart(r)
<1>5. u \in RequestRecords /\ u.told = t.told /\ u.flow = t.flow
      /\ u.start = C!MAX_TIME /\ u.startCookie = 0
      /\ u.stop = t.stop /\ u.stopCookie = t.stopCookie /\ u.onStop = t.onStop
  <2>1. u = [t EXCEPT !.start = C!MAX_TIME, !.startCookie = 0]
    BY <1>3 DEF C!CancelStart
  <2>2. 0 \in 0 .. MaxCalls
    BY DEF C!StreamControlAssumption
  <2> HIDE DEF u
  <2> QED BY <1>2, <2>1, <2>2, TimesFacts, StatesFacts DEF RequestRecords
<1> HIDE DEF u
<1>6. Scheduled(u, n)
  <2>1. \A i \in 1 .. MaxCalls : i # 0
    BY DEF C!StreamControlAssumption
  <2>2. n >= 0 /\ t.stopCookie <= n /\ (t.onStop = C!Discarding <=> t.stop # C!MAX_TIME)
    BY <1>1, <1>2 DEF Scheduled
  <2> QED BY <1>4, <1>5, <2>1, <2>2, StatesFacts DEF Scheduled
<1> QED BY <1>1, <1>2, <1>5, <1>6 DEF u

\* A sample is looked at: the requests that it reaches are executed in their order.
LEMMA SampleKeeps ==
  ASSUME C!StreamControlAssumption, NEW r, NEW n \in Nat, Scheduled(r, n),
         NEW a \in C!Times, NEW b \in C!Times, a < b
  PROVE  /\ Scheduled(C!CheckSampleTimes(r, a, b), n)
         /\ C!CheckSampleTimes(r, a, b).flow = C!Flowing <=>
              \/ /\ ~ (r.stop < a /\ ~ (r.stop < r.start /\ r.start < a))
                 /\ \/ r.start < a /\ ~ (r.stop < a /\ r.start <= r.stop)
                    \/ r.flow = C!Flowing
              \/ a <= r.start /\ r.start < b
<1>0. r.start \in RequestTimes /\ r.stop \in RequestTimes /\ r.flow \in States
      /\ (r.onStop = C!Discarding <=> r.stop # C!MAX_TIME) /\ r.onStop \in States
      /\ r.start \in Int /\ r.stop \in Int /\ a \in Int /\ b \in Int
  BY TimesFacts DEF Scheduled, RequestRecords
<1>t. a < C!MAX_TIME /\ b < C!MAX_TIME /\ C!MAX_TIME \in Int
  BY TimesFacts
<1>1. CASE r.stop >= a /\ r.start >= b
  BY <1>0, <1>1 DEF C!CheckSampleTimes
<1>2. CASE r.stop >= a /\ ~(r.start >= b) /\ r.stop < r.start
  <2>1. C!CheckSampleTimes(r, a, b) = C!ExecuteStart(C!ExecuteStop(r))
    BY <1>2 DEF C!CheckSampleTimes
  <2>2. Scheduled(C!ExecuteStop(r), n)
    BY StopKeeps
  <2> QED BY <1>0, <1>2, <2>1, <2>2, StartKeeps
<1>3. CASE r.stop >= a /\ ~(r.start >= b) /\ ~(r.stop < r.start)
  <2>1. C!CheckSampleTimes(r, a, b) = C!ExecuteStart(r)
    BY <1>3 DEF C!CheckSampleTimes
  <2> QED BY <1>0, <1>3, <2>1, StartKeeps
<1>4. CASE ~(r.stop >= a) /\ r.start >= b
  <2>1. C!CheckSampleTimes(r, a, b) = C!ExecuteStop(r)
    BY <1>4 DEF C!CheckSampleTimes
  <2>2. r.onStop # C!Flowing
    BY <1>0, <1>t, <1>4, StatesFacts
  <2> QED BY <1>0, <1>4, <2>1, <2>2, StopKeeps
<1>5. CASE ~(r.stop >= a) /\ ~(r.start >= b) /\ r.start <= r.stop
  <2>1. C!CheckSampleTimes(r, a, b) = C!ExecuteStop(C!ExecuteStart(r))
    BY <1>5 DEF C!CheckSampleTimes
  <2>2. Scheduled(C!ExecuteStart(r), n) /\ C!ExecuteStart(r).onStop = r.onStop
    BY StartKeeps
  <2>3. r.onStop # C!Flowing
    BY <1>0, <1>t, <1>5, StatesFacts
  <2> QED BY <1>0, <1>5, <2>1, <2>2, <2>3, StopKeeps
<1>6. CASE ~(r.stop >= a) /\ ~(r.start >= b) /\ ~(r.start <= r.stop)
  <2>1. C!CheckSampleTimes(r, a, b) = C!ExecuteStart(C!ExecuteStop(r))
    BY <1>6 DEF C!CheckSampleTimes
  <2>2. Scheduled(C!ExecuteStop(r), n)
    BY StopKeeps
  <2> QED BY <1>0, <1>6, <2>1, <2>2, StartKeeps
<1> QED BY <1>1, <1>2, <1>3, <1>4, <1>5, <1>6






LEMMA NowBecomes ==
  ASSUME NEW r, NEW n, Scheduled(r, n), C!Becomes(r)
  PROVE  C!Now' = r
<1>1. r \in RequestRecords
  BY DEF Scheduled
<1> QED BY <1>1 DEF RequestRecords, C!Becomes, C!Now

LEMMA ControlStart == ASSUME C!StreamControlAssumption, C!Init PROVE ControlInv
<1> USE DEF C!Init
<1>1. Scheduled(C!Now, calls)
  <2>1. 0 \in 0 .. MaxCalls /\ [n \in 1 .. MaxCalls |-> 0] \in [1 .. MaxCalls -> Nat]
    BY DEF C!StreamControlAssumption
  <2>2. C!Now \in RequestRecords
    BY <2>1, TimesFacts, StatesFacts DEF C!Now, RequestRecords
  <2>3. \A i \in 1 .. MaxCalls : C!Now.told[i] = 0
    BY DEF C!Now
  <2> QED BY <2>2, <2>3, StatesFacts DEF Scheduled, C!Now
<1>2. HoldingInv
  <2>1. 0 \in 0 .. MaxCalls /\ 0 \in C!Times
    BY TimesFacts DEF C!StreamControlAssumption
  <2>2. thread \in [at : {"out", "check", "times", "extra", "extraSent", "decide", "wait"},
                 start : C!Times, stop : C!Times, until : C!Times \cup {C!INFINITE}]
    BY <2>1 DEF C!Out
  <2> QED BY <2>1, <2>2 DEF HoldingInv
<1>3. ExtraInv /\ HeldInv
  BY DEF ExtraInv, HeldInv, C!Out
<1> QED BY <1>1, <1>2, <1>3 DEF ControlInv

LEMMA ControlStep == ASSUME C!StreamControlAssumption, ControlInv, [C!Next]_stc PROVE ControlInv'
<1>a. Scheduled(C!Now, calls) /\ HoldingInv /\ ExtraInv /\ HeldInv
  BY DEF ControlInv
<1>b. calls \in Nat /\ calls <= MaxCalls /\ MaxCalls \in Nat
  BY <1>a DEF HoldingInv, C!StreamControlAssumption
<1>h. ASSUME calls < MaxCalls PROVE calls + 1 \in 0 .. MaxCalls /\ calls + 1 \in Nat /\ calls \in 0 .. MaxCalls
  BY <1>b, <1>h
<1>i. 0 \in 0 .. MaxCalls /\ \A i \in 1 .. MaxCalls : i \in Int /\ i # 0
  BY <1>b
<1>c. /\ C!Now.flow = m_StreamState /\ C!Now.onStop = m_StreamStateOnStop
      /\ C!Now.start = m_tStartTime /\ C!Now.stop = m_tStopTime
      /\ C!Now.startCookie = m_dwStartCookie /\ C!Now.stopCookie = m_dwStopCookie
      /\ C!Now.told = told
  BY DEF C!Now
<1>d. /\ m_StreamState \in States /\ m_StreamStateOnStop \in States
      /\ m_tStartTime \in RequestTimes /\ m_tStopTime \in RequestTimes
      /\ m_dwStartCookie \in 0 .. MaxCalls /\ m_dwStopCookie \in 0 .. MaxCalls
      /\ told \in [1 .. MaxCalls -> Nat]
  BY <1>a, <1>c DEF Scheduled, RequestRecords
<1>e. thread \in [at : {"out", "check", "times", "extra", "extraSent", "decide", "wait"},
                 start : C!Times, stop : C!Times, until : C!Times \cup {C!INFINITE}]
  BY <1>a DEF HoldingInv
\* What is still to come stays as it is, or is a record that is.
<1>f. ASSUME UNCHANGED <<C!state, C!request, told>>, calls' = calls
      PROVE  Scheduled(C!Now, calls)' /\ m_StreamState' = m_StreamState
  <2>1. C!Now' = C!Now
    BY <1>f DEF C!state, C!request, C!Now
  <2> QED BY <1>a, <1>f, <2>1 DEF C!state
<1>g. ASSUME NEW r, Scheduled(r, calls), C!Becomes(r), calls' \in {calls, calls + 1}
      PROVE  Scheduled(C!Now, calls)' /\ m_StreamState' = r.flow
  <2>1. C!Now' = r
    BY <1>g, NowBecomes
  <2>2. Scheduled(r, calls')
    BY <1>b, <1>g DEF Scheduled, RequestRecords
  <2> QED BY <1>g, <2>1, <2>2 DEF C!Becomes
<1> USE DEF C!extra
<1>1. ASSUME NEW time \in C!Times, NEW cookie \in {0, calls + 1}, C!StartAt(time, cookie) PROVE ControlInv'
  <2>0. calls < MaxCalls /\ calls' = calls + 1 /\ m_StreamState' \in States
    BY <1>d, <1>1, StatesFacts DEF C!StartAt
  <2>5. cookie \in 0 .. MaxCalls /\ cookie <= calls + 1 /\ (cookie # 0 => cookie > calls)
    BY <1>b, <1>h, <1>i, <2>0
  <2>1. Scheduled(C!Now, calls)'
    <3>1. /\ C!Now'.flow = m_StreamState' /\ C!Now'.onStop = m_StreamStateOnStop
          /\ C!Now'.start = time /\ C!Now'.stop = m_tStopTime
          /\ C!Now'.startCookie = cookie /\ C!Now'.stopCookie = m_dwStopCookie
          /\ C!Now'.told = told
      BY <1>1 DEF C!Now, C!StartAt
    <3>2. C!Now' \in RequestRecords
      <4>1. C!Now' = [flow |-> m_StreamState', onStop |-> m_StreamStateOnStop, start |-> time, stop |-> m_tStopTime,
                     startCookie |-> cookie, stopCookie |-> m_dwStopCookie, told |-> told]
        BY <1>1 DEF C!Now, C!StartAt
      <4>2. time \in RequestTimes
        BY TimesFacts
      <4> QED BY <1>d, <2>0, <2>5, <4>1, <4>2 DEF RequestRecords
    <3> QED BY <1>a, <1>b, <1>c, <1>d, <1>i, <2>0, <2>5, <3>1, <3>2 DEF Scheduled
  <2>2. HoldingInv'
    BY <1>a, <1>b, <1>h, <1>1, TimesFacts DEF HoldingInv, C!StartAt
  <2>3. ExtraInv'
    BY <1>a, <1>b, <1>1 DEF HoldingInv, ExtraInv, C!StartAt
  <2>4. HeldInv'
    BY <1>a, <1>b, <1>1 DEF HoldingInv, HeldInv, C!StartAt
  <2> QED BY <2>1, <2>2, <2>3, <2>4 DEF ControlInv
<1>2. ASSUME NEW time \in C!Times, NEW x \in BOOLEAN, NEW cookie \in {0, calls + 1}, C!StopAt(time, x, cookie) PROVE ControlInv'
  <2>0. calls < MaxCalls /\ calls' = calls + 1 /\ m_StreamState' \in States
    BY <1>d, <1>2, StatesFacts DEF C!StopAt
  <2>5. cookie \in 0 .. MaxCalls /\ cookie <= calls + 1 /\ (cookie # 0 => cookie > calls)
    BY <1>b, <1>h, <1>i, <2>0
  <2>1. Scheduled(C!Now, calls)'
    <3>1. /\ C!Now'.flow = m_StreamState' /\ C!Now'.onStop = C!Discarding
          /\ C!Now'.start = m_tStartTime /\ C!Now'.stop = time
          /\ C!Now'.startCookie = m_dwStartCookie /\ C!Now'.stopCookie = cookie
          /\ C!Now'.told = told
      BY <1>2 DEF C!Now, C!StopAt
    <3>2. C!Now' \in RequestRecords
      <4>1. C!Now' = [flow |-> m_StreamState', onStop |-> C!Discarding, start |-> m_tStartTime, stop |-> time,
                     startCookie |-> m_dwStartCookie, stopCookie |-> cookie, told |-> told]
        BY <1>2 DEF C!Now, C!StopAt
      <4>2. time \in RequestTimes
        BY TimesFacts
      <4> QED BY <1>d, <2>0, <2>5, <4>1, <4>2, StatesFacts DEF RequestRecords
    <3>3. time # C!MAX_TIME
      BY TimesFacts
    <3> QED BY <1>a, <1>b, <1>c, <1>d, <1>i, <2>0, <2>5, <3>1, <3>2, <3>3 DEF Scheduled
  <2>2. HoldingInv'
    BY <1>a, <1>b, <1>h, <1>2, TimesFacts DEF HoldingInv, C!StopAt
  <2>3. ExtraInv'
    BY <1>a, <1>b, <1>2 DEF HoldingInv, ExtraInv, C!StopAt
  <2>4. HeldInv'
    BY <1>a, <1>b, <1>2 DEF HoldingInv, HeldInv, C!StopAt
  <2> QED BY <2>1, <2>2, <2>3, <2>4 DEF ControlInv
<1>3. CASE C!StartNow
  <2>0. calls' = calls + 1 /\ calls < MaxCalls
    BY <1>3 DEF C!StartNow
  <2>1. Scheduled(C!Now, calls)'
    <3>1. /\ C!Now'.flow = C!Flowing /\ C!Now'.onStop = m_StreamStateOnStop
          /\ C!Now'.start = C!MAX_TIME /\ C!Now'.stop = m_tStopTime
          /\ C!Now'.startCookie = 0 /\ C!Now'.stopCookie = m_dwStopCookie
          /\ C!Now'.told = told
      BY <1>3 DEF C!Now, C!StartNow
    <3>2. C!Now' \in RequestRecords
      <4>1. C!Now' = [flow |-> C!Flowing, onStop |-> m_StreamStateOnStop, start |-> C!MAX_TIME, stop |-> m_tStopTime,
                     startCookie |-> 0, stopCookie |-> m_dwStopCookie, told |-> told]
        BY <1>3 DEF C!Now, C!StartNow
      <4>2. C!MAX_TIME \in RequestTimes
        BY TimesFacts
      <4>3. 0 \in 0 .. MaxCalls /\ C!Flowing \in States
        BY <1>i, StatesFacts
      <4> QED BY <1>d, <4>1, <4>2, <4>3 DEF RequestRecords
    <3>3. /\ calls' = calls + 1 /\ calls \in Nat /\ m_dwStopCookie \in Nat /\ m_dwStopCookie <= calls
          /\ \A i \in 1 .. MaxCalls : told[i] <= 1 /\ (i > calls \/ i = m_dwStopCookie => told[i] = 0)
          /\ m_StreamStateOnStop = C!Discarding <=> m_tStopTime # C!MAX_TIME
      <4>1. calls' = calls + 1 /\ calls \in Nat /\ m_dwStopCookie \in Nat
        BY <1>b, <1>d, <2>0
      <4>2. /\ C!Now.stopCookie <= calls
            /\ \A i \in 1 .. MaxCalls :
                 /\ C!Now.told[i] <= 1
                 /\ i > calls \/ i = C!Now.startCookie \/ i = C!Now.stopCookie => C!Now.told[i] = 0
            /\ C!Now.onStop = C!Discarding <=> C!Now.stop # C!MAX_TIME
        BY <1>a DEF Scheduled
      <4>3. \A i \in 1 .. MaxCalls : told[i] <= 1 /\ (i > calls \/ i = m_dwStopCookie => told[i] = 0)
        BY <1>c, <4>2
      <4> QED BY <1>c, <4>1, <4>2, <4>3
    <3>4. 0 <= calls' /\ m_dwStopCookie <= calls'
      BY <3>3
    <3>5. ASSUME NEW i \in 1 .. MaxCalls
          PROVE  told[i] <= 1 /\ (i > calls' \/ i = 0 \/ i = m_dwStopCookie => told[i] = 0)
      <4>1. i \in Int /\ i # 0 /\ (i > calls' => i > calls)
        BY <1>i, <3>3
      <4> QED BY <3>3, <4>1
    <3> QED BY <3>1, <3>2, <3>3, <3>4, <3>5 DEF Scheduled
  <2>2. HoldingInv'
    BY <1>a, <1>b, <1>h, <1>3, TimesFacts DEF HoldingInv, C!StartNow
  <2>3. ExtraInv'
    BY <1>a, <1>b, <1>3 DEF HoldingInv, ExtraInv, C!StartNow
  <2>4. HeldInv'
    BY <1>a, <1>b, <1>3 DEF HoldingInv, HeldInv, C!StartNow
  <2> QED BY <2>1, <2>2, <2>3, <2>4 DEF ControlInv
<1>4. CASE C!StartNever
  <2>0. PICK r : r = [C!CancelStart(C!Now) EXCEPT !.flow = (IF C!Stopped /\ m_tStopTime < C!MAX_TIME THEN C!Flowing ELSE m_StreamState)]
    OBVIOUS
  <2>5. Scheduled(r, calls) /\ r.flow = (IF C!Stopped /\ m_tStopTime < C!MAX_TIME THEN C!Flowing ELSE m_StreamState)
    <3>1. Scheduled(C!CancelStart(C!Now), calls) /\ C!CancelStart(C!Now).flow = m_StreamState
      BY <1>a, <1>b, <1>c, CancelStartKeeps
    <3>2. (IF C!Stopped /\ m_tStopTime < C!MAX_TIME THEN C!Flowing ELSE m_StreamState) \in States
      BY <1>d, <3>1, StatesFacts
    <3> QED BY <1>b, <2>0, <3>1, <3>2, FlowKeeps
  <2>6. C!Becomes(r) /\ calls' = calls
    <3>1. C!CancelStart(C!Now).flow = m_StreamState
      BY <1>a, <1>b, <1>c, CancelStartKeeps
    <3> QED BY <1>4, <2>0, <3>1 DEF C!StartNever
  <2>1. Scheduled(C!Now, calls)' /\ m_StreamState' = r.flow
    BY <1>g, <2>5, <2>6
  <2>7. m_StreamState' = (IF C!Stopped /\ m_tStopTime < C!MAX_TIME THEN C!Flowing ELSE m_StreamState)
    BY <2>1, <2>5
  <2>2. HoldingInv'
    BY <1>a, <1>b, <1>h, <1>4, <2>7, TimesFacts DEF HoldingInv, C!StartNever
  <2>3. ExtraInv'
    BY <1>a, <1>b, <1>4, <2>7 DEF HoldingInv, ExtraInv, C!StartNever
  <2>4. HeldInv'
    <3>1. UNCHANGED <<m_bIsFlushing, m_StreamEvent, m_FilterState, thread>>
      BY <1>4 DEF C!StartNever
    <3>2. m_StreamState' = m_StreamState \/ C!Stopped
      BY <2>7
    <3> QED BY <1>a, <3>1, <3>2 DEF HeldInv, C!Stopped
  <2> QED BY <2>1, <2>2, <2>3, <2>4 DEF ControlInv
<1>5. CASE C!StopNow
  <2>0. PICK r : r = [C!CancelStop(C!Now) EXCEPT !.flow = C!Discarding]
    OBVIOUS
  <2>5. Scheduled(r, calls) /\ r.flow = C!Discarding
    <3>1. Scheduled(C!CancelStop(C!Now), calls) /\ C!CancelStop(C!Now).flow = m_StreamState
      BY <1>a, <1>b, <1>c, CancelStopKeeps
    <3>2. C!Discarding \in States
      BY <1>d, <3>1, StatesFacts
    <3> QED BY <1>b, <2>0, <3>1, <3>2, FlowKeeps
  <2>6. C!Becomes(r) /\ calls' = calls + 1
    BY <1>5, <2>0 DEF C!StopNow
  <2>1. Scheduled(C!Now, calls)' /\ m_StreamState' = r.flow
    BY <1>g, <2>5, <2>6
  <2>7. m_StreamState' = C!Discarding
    BY <2>1, <2>5
  <2>2. HoldingInv'
    BY <1>a, <1>b, <1>h, <1>5, <2>7, StatesFacts, TimesFacts DEF HoldingInv, C!StopNow
  <2>3. ExtraInv'
    BY <1>a, <1>b, <1>5, <2>7, StatesFacts DEF HoldingInv, ExtraInv, C!StopNow
  <2>4. HeldInv'
    BY <1>a, <1>b, <1>5, <2>7, StatesFacts DEF HoldingInv, HeldInv, C!StopNow
  <2> QED BY <2>1, <2>2, <2>3, <2>4 DEF ControlInv
<1>6. CASE C!StopNever
  <2>0. PICK r : r = [C!CancelStop(C!Now) EXCEPT !.flow = (IF C!Stopped /\ m_tStartTime < C!MAX_TIME THEN C!Discarding ELSE m_StreamState)]
    OBVIOUS
  <2>5. Scheduled(r, calls) /\ r.flow = (IF C!Stopped /\ m_tStartTime < C!MAX_TIME THEN C!Discarding ELSE m_StreamState)
    <3>1. Scheduled(C!CancelStop(C!Now), calls) /\ C!CancelStop(C!Now).flow = m_StreamState
      BY <1>a, <1>b, <1>c, CancelStopKeeps
    <3>2. (IF C!Stopped /\ m_tStartTime < C!MAX_TIME THEN C!Discarding ELSE m_StreamState) \in States
      BY <1>d, <3>1, StatesFacts
    <3> QED BY <1>b, <2>0, <3>1, <3>2, FlowKeeps
  <2>6. C!Becomes(r) /\ calls' = calls
    <3>1. C!CancelStop(C!Now).flow = m_StreamState
      BY <1>a, <1>b, <1>c, CancelStopKeeps
    <3> QED BY <1>6, <2>0, <3>1 DEF C!StopNever
  <2>1. Scheduled(C!Now, calls)' /\ m_StreamState' = r.flow
    BY <1>g, <2>5, <2>6
  <2>7. m_StreamState' = (IF C!Stopped /\ m_tStartTime < C!MAX_TIME THEN C!Discarding ELSE m_StreamState)
    BY <2>1, <2>5
  <2>2. HoldingInv'
    BY <1>a, <1>b, <1>h, <1>6, <2>7, StatesFacts, TimesFacts DEF HoldingInv, C!StopNever
  <2>3. ExtraInv'
    BY <1>a, <1>b, <1>6, <2>7, StatesFacts DEF HoldingInv, ExtraInv, C!StopNever
  <2>4. HeldInv'
    <3>1. UNCHANGED <<m_bIsFlushing, m_StreamEvent, m_FilterState, thread>>
      BY <1>6 DEF C!StopNever
    <3>2. m_StreamState' = m_StreamState \/ C!Stopped
      BY <2>7
    <3> QED BY <1>a, <3>1, <3>2 DEF HeldInv, C!Stopped
  <2> QED BY <2>1, <2>2, <2>3, <2>4 DEF ControlInv
<1>7. CASE C!StopFilter
  <2>0. PICK due : due = (CASE m_tStartTime # C!MAX_TIME /\ m_tStopTime = C!MAX_TIME -> C!ExecuteStart(C!Now)
                  [] m_tStopTime # C!MAX_TIME /\ m_tStartTime = C!MAX_TIME -> C!ExecuteStop(C!Now)
                  [] m_tStopTime # C!MAX_TIME /\ m_tStartTime # C!MAX_TIME ->
                       IF m_tStartTime <= m_tStopTime THEN C!ExecuteStop(C!ExecuteStart(C!Now))
                                                      ELSE C!ExecuteStart(C!ExecuteStop(C!Now))
                  [] OTHER -> C!Now)
    OBVIOUS
  <2>5. Scheduled(due, calls)
    <3>1. Scheduled(C!ExecuteStart(C!Now), calls) /\ Scheduled(C!ExecuteStop(C!Now), calls)
      BY <1>a, <1>b, StartKeeps, StopKeeps
    <3>2. /\ Scheduled(C!ExecuteStop(C!ExecuteStart(C!Now)), calls)
          /\ Scheduled(C!ExecuteStart(C!ExecuteStop(C!Now)), calls)
      BY <1>b, <3>1, StartKeeps, StopKeeps
    <3> QED BY <1>a, <2>0, <3>1, <3>2
  <2>6. Scheduled([due EXCEPT !.flow = C!Flowing], calls) /\ [due EXCEPT !.flow = C!Flowing].flow = C!Flowing
    BY <1>b, <2>5, FlowKeeps, StatesFacts
  <2>7. C!Becomes([due EXCEPT !.flow = C!Flowing]) /\ calls' = calls
    BY <1>7, <2>0 DEF C!StopFilter
  <2>1. Scheduled(C!Now, calls)'
    BY <1>g, <2>6, <2>7
  <2>2. HoldingInv'
    BY <1>a, <1>b, <1>h, <1>7, TimesFacts DEF HoldingInv, C!StopFilter
  <2>3. ExtraInv'
    BY <1>a, <1>b, <1>7 DEF HoldingInv, ExtraInv, C!StopFilter
  <2>4. HeldInv'
    BY <1>a, <1>b, <1>7 DEF HoldingInv, HeldInv, C!StopFilter
  <2> QED BY <2>1, <2>2, <2>3, <2>4 DEF ControlInv
<1>8. CASE C!PauseFilter
  <2>1. Scheduled(C!Now, calls)' /\ m_StreamState' = m_StreamState
    BY <1>f, <1>8 DEF C!PauseFilter
  <2>2. HoldingInv'
    BY <1>a, <1>b, <1>h, <1>8, <2>1, TimesFacts DEF HoldingInv, C!PauseFilter, C!Stopped
  <2>3. ExtraInv'
    BY <1>a, <1>b, <1>8, <2>1 DEF HoldingInv, ExtraInv, C!PauseFilter, C!Stopped
  <2>4. HeldInv'
    BY <1>a, <1>b, <1>8, <2>1 DEF HoldingInv, HeldInv, C!PauseFilter, C!Stopped
  <2> QED BY <2>1, <2>2, <2>3, <2>4 DEF ControlInv
<1>9. CASE C!RunFilter
  <2>1. Scheduled(C!Now, calls)' /\ m_StreamState' = m_StreamState
    BY <1>f, <1>9 DEF C!RunFilter
  <2>2. HoldingInv'
    BY <1>a, <1>b, <1>h, <1>9, <2>1, TimesFacts DEF HoldingInv, C!RunFilter, C!Stopped
  <2>3. ExtraInv'
    BY <1>a, <1>b, <1>9, <2>1 DEF HoldingInv, ExtraInv, C!RunFilter, C!Stopped
  <2>4. HeldInv'
    BY <1>a, <1>b, <1>9, <2>1 DEF HoldingInv, HeldInv, C!RunFilter, C!Stopped
  <2> QED BY <2>1, <2>2, <2>3, <2>4 DEF ControlInv
<1>10. CASE C!Flushing
  <2>1. Scheduled(C!Now, calls)' /\ m_StreamState' = m_StreamState
    BY <1>f, <1>10 DEF C!Flushing
  <2>2. HoldingInv'
    BY <1>a, <1>b, <1>h, <1>10, <2>1, TimesFacts DEF HoldingInv, C!Flushing, C!Stopped
  <2>3. ExtraInv'
    BY <1>a, <1>b, <1>10, <2>1 DEF HoldingInv, ExtraInv, C!Flushing, C!Stopped
  <2>4. HeldInv'
    BY <1>a, <1>b, <1>10, <2>1 DEF HoldingInv, HeldInv, C!Flushing, C!Stopped
  <2> QED BY <2>1, <2>2, <2>3, <2>4 DEF ControlInv
<1>11. CASE C!SetSyncSource
  <2>1. Scheduled(C!Now, calls)' /\ m_StreamState' = m_StreamState
    BY <1>f, <1>11 DEF C!SetSyncSource
  <2>2. HoldingInv'
    BY <1>a, <1>b, <1>h, <1>11, <2>1, TimesFacts DEF HoldingInv, C!SetSyncSource, C!Stopped
  <2>3. ExtraInv'
    BY <1>a, <1>b, <1>11, <2>1 DEF HoldingInv, ExtraInv, C!SetSyncSource, C!Stopped
  <2>4. HeldInv'
    BY <1>a, <1>b, <1>11, <2>1 DEF HoldingInv, HeldInv, C!SetSyncSource, C!Stopped
  <2> QED BY <2>1, <2>2, <2>3, <2>4 DEF ControlInv
<1>12. CASE C!Tick
  <2>1. Scheduled(C!Now, calls)' /\ m_StreamState' = m_StreamState
    BY <1>f, <1>12 DEF C!Tick
  <2>5. now' \in C!Times
    BY <1>a, <1>12 DEF C!Tick, HoldingInv, C!Times, C!StreamControlAssumption
  <2>6. UNCHANGED <<m_bStopSendExtra, m_bStopExtraSent, m_FilterState, m_bIsFlushing, m_StreamEvent, m_pRefClock, thread, calls>>
    BY <1>12 DEF C!Tick
  <2>2. HoldingInv'
    BY <1>a, <2>5, <2>6 DEF HoldingInv
  <2>3. ExtraInv'
    BY <1>a, <1>b, <1>12, <2>1, <2>5, <2>6 DEF HoldingInv, ExtraInv, C!Tick, C!Stopped
  <2>4. HeldInv'
    BY <1>a, <1>b, <1>12, <2>1, <2>5, <2>6 DEF HoldingInv, HeldInv, C!Tick, C!Stopped
  <2> QED BY <2>1, <2>2, <2>3, <2>4 DEF ControlInv
<1>13. ASSUME NEW a \in C!Times, NEW b \in C!Times, a < b, C!Receive(a, b) PROVE ControlInv'
  <2>1. Scheduled(C!Now, calls)' /\ m_StreamState' = m_StreamState
    BY <1>f, <1>13 DEF C!Receive
  <2>2. HoldingInv'
    BY <1>a, <1>b, <1>h, <1>13, <2>1, TimesFacts DEF HoldingInv, C!Receive
  <2>3. ExtraInv'
    BY <1>a, <1>b, <1>13, <2>1 DEF HoldingInv, ExtraInv, C!Receive
  <2>4. HeldInv'
    BY <1>a, <1>b, <1>13, <2>1 DEF HoldingInv, HeldInv, C!Receive
  <2> QED BY <2>1, <2>2, <2>3, <2>4 DEF ControlInv
<1>14. CASE C!Check
  <2>1. Scheduled(C!Now, calls)' /\ m_StreamState' = m_StreamState
    BY <1>f, <1>14 DEF C!Check
  <2>5. \/ thread' = C!Out
        \/ thread' = [thread EXCEPT !.at = "times"] /\ ~(m_bIsFlushing \/ C!Stopped)
    BY <1>14 DEF C!Check, C!Go
  <2>2. HoldingInv'
    BY <1>a, <1>e, <1>14, <2>5, TimesFacts DEF HoldingInv, C!Check, C!Out
  <2>3. ExtraInv'
    BY <1>a, <1>e, <1>14, <2>5 DEF HoldingInv, ExtraInv, C!Check, C!Out
  <2>4. HeldInv'
    BY <1>a, <1>e, <1>14, <2>1, <2>5 DEF HoldingInv, HeldInv, C!Check, C!Out, C!Stopped
  <2> QED BY <2>1, <2>2, <2>3, <2>4 DEF ControlInv
<1>21. CASE C!CheckTimes
  <2>1. thread.at = "times" /\ thread.start \in C!Times /\ thread.stop \in C!Times /\ thread.start < thread.stop
    BY <1>a, <1>e, <1>21 DEF C!CheckTimes, HeldInv
  <2>2. /\ UNCHANGED <<m_bStopSendExtra, m_bStopExtraSent, extras, m_FilterState, m_bIsFlushing,
                      m_StreamEvent, m_pRefClock, now, calls>>
    BY <1>21 DEF C!CheckTimes
  <2>3. PICK r : r = C!CheckSampleTimes(C!Now, thread.start, thread.stop)
    OBVIOUS
  <2>4. C!Becomes(r) /\ IF r.flow = C!Flowing THEN thread' = C!Out ELSE C!Go("extra")
    BY <1>21, <2>3 DEF C!CheckTimes
  <2>5. Scheduled(r, calls)
    BY <1>a, <1>b, <2>1, <2>3, SampleKeeps
  <2>6. Scheduled(C!Now, calls)' /\ m_StreamState' = r.flow
    BY <1>g, <2>2, <2>4, <2>5
  <2>7. thread' = C!Out \/ (thread' = [thread EXCEPT !.at = "extra"] /\ m_StreamState' # C!Flowing)
    BY <2>4, <2>6 DEF C!Go
  <2>8. HoldingInv'
    BY <1>a, <1>e, <2>2, <2>7, TimesFacts DEF HoldingInv, C!Out
  <2>9. ExtraInv'
    BY <1>a, <1>e, <2>2, <2>7 DEF ExtraInv, C!Out
  <2>10. HeldInv'
    BY <1>a, <1>e, <2>1, <2>2, <2>7 DEF HeldInv, C!Out, C!Stopped
  <2> QED BY <2>6, <2>8, <2>9, <2>10 DEF ControlInv
<1>15. CASE C!CheckExtra
  <2>1. Scheduled(C!Now, calls)' /\ m_StreamState' = m_StreamState
    BY <1>f, <1>15 DEF C!CheckExtra
  <2>5. thread.at = "extra" /\ (\/ thread' = [thread EXCEPT !.at = "extraSent"] /\ ~m_bStopExtraSent
                               \/ thread' = [thread EXCEPT !.at = "decide"])
    BY <1>15 DEF C!CheckExtra, C!Go
  <2>2. HoldingInv'
    BY <1>a, <1>e, <1>15, <2>5, TimesFacts DEF HoldingInv, C!CheckExtra, C!Out
  <2>3. ExtraInv'
    BY <1>a, <1>e, <1>15, <2>5 DEF HoldingInv, ExtraInv, C!CheckExtra, C!Out
  <2>4. HeldInv'
    BY <1>a, <1>e, <1>15, <2>1, <2>5 DEF HoldingInv, HeldInv, C!CheckExtra, C!Out, C!Stopped
  <2> QED BY <2>1, <2>2, <2>3, <2>4 DEF ControlInv
<1>16. CASE C!SendExtra
  <2>1. Scheduled(C!Now, calls)' /\ m_StreamState' = m_StreamState
    BY <1>f, <1>16 DEF C!SendExtra
  <2>5. thread' = C!Out
    BY <1>16 DEF C!SendExtra, C!Go
  <2>2. HoldingInv'
    BY <1>a, <1>e, <1>16, <2>5, TimesFacts DEF HoldingInv, C!SendExtra, C!Out
  <2>3. ExtraInv'
    BY <1>a, <1>e, <1>16, <2>5 DEF HoldingInv, ExtraInv, C!SendExtra, C!Out
  <2>4. HeldInv'
    BY <1>a, <1>e, <1>16, <2>1, <2>5 DEF HoldingInv, HeldInv, C!SendExtra, C!Out, C!Stopped
  <2> QED BY <2>1, <2>2, <2>3, <2>4 DEF ControlInv
<1>17. CASE C!Decide
  <2>1. Scheduled(C!Now, calls)' /\ m_StreamState' = m_StreamState
    BY <1>f, <1>17 DEF C!Decide
  <2>5. \/ thread' = C!Out
        \/ m_FilterState = "State_Paused" /\ thread' = [thread EXCEPT !.at = "wait", !.until = C!INFINITE]
        \/ thread' = [thread EXCEPT !.at = "wait", !.until = thread.start]
    BY <1>17 DEF C!Decide, C!Go
  <2>2. HoldingInv'
    BY <1>a, <1>e, <1>17, <2>5, TimesFacts DEF HoldingInv, C!Decide, C!Out
  <2>3. ExtraInv'
    BY <1>a, <1>e, <1>17, <2>5 DEF HoldingInv, ExtraInv, C!Decide, C!Out
  <2>4. HeldInv'
    <3>0. thread.at = "decide" /\ UNCHANGED <<m_bIsFlushing, m_StreamEvent, m_FilterState>>
      BY <1>17 DEF C!Decide
    <3>1. CASE thread' = C!Out
      BY <3>1 DEF HeldInv, C!Out
    <3>2. CASE m_FilterState = "State_Paused" /\ thread' = [thread EXCEPT !.at = "wait", !.until = C!INFINITE]
      BY <1>a, <1>e, <2>1, <3>0, <3>2 DEF HeldInv, C!Stopped
    <3>3. CASE thread' = [thread EXCEPT !.at = "wait", !.until = thread.start]
      <4>1. thread.start # C!INFINITE
        BY <1>e DEF C!Times, C!INFINITE, C!StreamControlAssumption
      <4> QED BY <1>a, <1>e, <2>1, <3>0, <3>3, <4>1 DEF HeldInv, C!Stopped
    <3> QED BY <2>5, <3>1, <3>2, <3>3
  <2> QED BY <2>1, <2>2, <2>3, <2>4 DEF ControlInv
<1>18. CASE C!Wake
  <2>1. Scheduled(C!Now, calls)' /\ m_StreamState' = m_StreamState
    BY <1>f, <1>18 DEF C!Wake
  <2>5. thread' = [thread EXCEPT !.at = "check", !.until = 0]
    BY <1>18 DEF C!Wake, C!Go
  <2>2. HoldingInv'
    BY <1>a, <1>e, <1>18, <2>5, TimesFacts DEF HoldingInv, C!Wake, C!Out
  <2>3. ExtraInv'
    BY <1>a, <1>e, <1>18, <2>5 DEF HoldingInv, ExtraInv, C!Wake, C!Out
  <2>4. HeldInv'
    BY <1>a, <1>e, <1>18, <2>1, <2>5 DEF HoldingInv, HeldInv, C!Wake, C!Out, C!Stopped
  <2> QED BY <2>1, <2>2, <2>3, <2>4 DEF ControlInv
<1>19. CASE C!TimeOut
  <2>1. Scheduled(C!Now, calls)' /\ m_StreamState' = m_StreamState
    BY <1>f, <1>19 DEF C!TimeOut
  <2>5. thread' = C!Out
    BY <1>19 DEF C!TimeOut, C!Go
  <2>2. HoldingInv'
    BY <1>a, <1>e, <1>19, <2>5, TimesFacts DEF HoldingInv, C!TimeOut, C!Out
  <2>3. ExtraInv'
    BY <1>a, <1>e, <1>19, <2>5 DEF HoldingInv, ExtraInv, C!TimeOut, C!Out
  <2>4. HeldInv'
    BY <1>a, <1>e, <1>19, <2>1, <2>5 DEF HoldingInv, HeldInv, C!TimeOut, C!Out, C!Stopped
  <2> QED BY <2>1, <2>2, <2>3, <2>4 DEF ControlInv
<1>20. CASE UNCHANGED stc
  <2>1. Scheduled(C!Now, calls)'
    BY <1>f, <1>20 DEF stc, C!state, C!request
  <2>2. HoldingInv' /\ ExtraInv' /\ HeldInv'
    BY <1>a, <1>20 DEF HoldingInv, ExtraInv, HeldInv, stc, C!Stopped
  <2> QED BY <2>1, <2>2 DEF ControlInv
<1> QED BY <1>1, <1>2, <1>3, <1>4, <1>5, <1>6, <1>7, <1>8, <1>9, <1>10, <1>11, <1>12, <1>13, <1>14, <1>15, <1>16, <1>17, <1>18, <1>19, <1>20, <1>21
        DEF C!Next, C!CheckStreamState

LEMMA ControlWhole ==
  ASSUME C!StreamControlAssumption, ControlInv
  PROVE  C!TypeOK /\ C!HeldIsWoken /\ C!OnceEach
<1>a. Scheduled(C!Now, calls) /\ HoldingInv /\ ExtraInv /\ HeldInv
  BY DEF ControlInv
<1>1. /\ m_StreamState \in States /\ m_StreamStateOnStop \in States
      /\ m_tStartTime \in RequestTimes /\ m_tStopTime \in RequestTimes
      /\ m_dwStartCookie \in 0 .. MaxCalls /\ m_dwStopCookie \in 0 .. MaxCalls
      /\ told \in [1 .. MaxCalls -> Nat]
  BY <1>a DEF Scheduled, RequestRecords, C!Now
<1>2. C!TypeOK
  BY <1>a, <1>1 DEF C!TypeOK, HoldingInv, ExtraInv, States, RequestTimes
<1>3. C!HeldIsWoken
  BY <1>a DEF C!HeldIsWoken, HeldInv
<1>4. C!OnceEach
  BY <1>a DEF C!OnceEach, Scheduled, ExtraInv, C!Now
<1> QED BY <1>2, <1>3, <1>4

\* A sample that is looked at is passed on exactly if a part of it is to be.
LEMMA ControlDecides ==
  ASSUME C!StreamControlAssumption, ControlInv, [C!Next]_stc,
         thread.at = "times", thread' # thread
  PROVE  thread'.at = "out" <=>
           \/ C!FlowsBefore(thread.start)
           \/ thread.start <= m_tStartTime /\ m_tStartTime < thread.stop
<1>a. Scheduled(C!Now, calls) /\ HoldingInv /\ HeldInv
  BY DEF ControlInv
<1>1. C!CheckTimes
  BY DEF C!Next, C!CheckStreamState, stc, C!StartAt, C!StopAt, C!StartNow, C!StartNever, C!StopNow,
         C!StopNever, C!StopFilter, C!PauseFilter, C!RunFilter, C!Flushing, C!SetSyncSource, C!Tick,
         C!Receive, C!Check, C!CheckExtra, C!SendExtra, C!Decide, C!Wake, C!TimeOut
<1>2. thread.start \in C!Times /\ thread.stop \in C!Times /\ thread.start < thread.stop /\ calls \in Nat
      /\ thread \in [at : {"out", "check", "times", "extra", "extraSent", "decide", "wait"},
                 start : C!Times, stop : C!Times, until : C!Times \cup {C!INFINITE}]
  BY <1>a DEF HoldingInv, HeldInv, C!StreamControlAssumption
<1>3. PICK r : r = C!CheckSampleTimes(C!Now, thread.start, thread.stop)
  OBVIOUS
<1>4. IF r.flow = C!Flowing THEN thread' = C!Out ELSE C!Go("extra")
  BY <1>1, <1>3 DEF C!CheckTimes
<1>5. thread'.at = "out" <=> r.flow = C!Flowing
  BY <1>2, <1>4 DEF C!Go, C!Out
<1>6. C!Now.flow = m_StreamState /\ C!Now.start = m_tStartTime /\ C!Now.stop = m_tStopTime
  BY DEF C!Now
<1>7. r.flow = C!Flowing <=>
              \/ /\ ~ (m_tStopTime < thread.start /\ ~ (m_tStopTime < m_tStartTime /\ m_tStartTime < thread.start))
                 /\ \/ m_tStartTime < thread.start /\ ~ (m_tStopTime < thread.start /\ m_tStartTime <= m_tStopTime)
                    \/ m_StreamState = C!Flowing
              \/ thread.start <= m_tStartTime /\ m_tStartTime < thread.stop
  <2>1. Scheduled(C!Now, calls) /\ calls \in Nat /\ C!StreamControlAssumption
        /\ thread.start \in C!Times /\ thread.stop \in C!Times /\ thread.start < thread.stop
    BY <1>a, <1>2
  <2> QED BY <1>3, <1>6, <2>1, SampleKeeps
<1>8. C!FlowsBefore(thread.start) <=>
                 /\ ~ (m_tStopTime < thread.start /\ ~ (m_tStopTime < m_tStartTime /\ m_tStartTime < thread.start))
                 /\ \/ m_tStartTime < thread.start /\ ~ (m_tStopTime < thread.start /\ m_tStartTime <= m_tStopTime)
                    \/ m_StreamState = C!Flowing
  <2>1. m_tStopTime \in Int /\ m_tStartTime \in Int /\ thread.start \in Int
    BY <1>a, <1>2, <1>6, TimesFacts DEF Scheduled, RequestRecords
  <2>2. CASE m_tStopTime < thread.start /\ ~ (m_tStopTime < m_tStartTime /\ m_tStartTime < thread.start)
    <3>1. ~ (m_tStartTime < thread.start /\ ~ (m_tStopTime < thread.start /\ m_tStartTime <= m_tStopTime))
      BY <2>1, <2>2
    <3>2. C!FlowsBefore(thread.start) = FALSE
      BY <2>2, <3>1 DEF C!FlowsBefore
    <3> QED BY <2>2, <3>2
  <2>3. CASE m_tStartTime < thread.start /\ ~ (m_tStopTime < thread.start /\ m_tStartTime <= m_tStopTime)
    <3>1. ~ (m_tStopTime < thread.start /\ ~ (m_tStopTime < m_tStartTime /\ m_tStartTime < thread.start))
      BY <2>1, <2>3
    <3>2. C!FlowsBefore(thread.start) = TRUE
      BY <2>3, <3>1 DEF C!FlowsBefore
    <3> QED BY <2>3, <3>1, <3>2
  <2>4. CASE /\ ~ (m_tStopTime < thread.start /\ ~ (m_tStopTime < m_tStartTime /\ m_tStartTime < thread.start))
             /\ ~ (m_tStartTime < thread.start /\ ~ (m_tStopTime < thread.start /\ m_tStartTime <= m_tStopTime))
    <3>1. C!FlowsBefore(thread.start) = (m_StreamState = C!Flowing)
      BY <2>4 DEF C!FlowsBefore
    <3> QED BY <2>4, <3>1
  <2> QED BY <2>2, <2>3, <2>4
<1>9. r.flow = C!Flowing <=>
        \/ C!FlowsBefore(thread.start)
        \/ thread.start <= m_tStartTime /\ m_tStartTime < thread.stop
  BY <1>7, <1>8, Zenon
<1> QED BY <1>5, <1>9, Zenon

-----------------------------------------------------------------------------
(* Frames that may be skipped: CVideoTransformFilter.                      *)

\* What the members are before they are counted.
Members == [late : Int, period : Nat, since : Nat, skipping : BOOLEAN]

\* A decoder that waits for no key frame has decoded all that the next frame needs, or
\* skips to the next key frame.
DecodableInv ==
  /\ q.since <= position /\ q.period <= MaxGroup
  /\ m_nWaitForKey = 0 /\ position > 0 /\ last # "failed" => clean \/ q.skipping
  /\ last = "shown" => clean

FramesInv ==
  /\ q \in Members
  /\ m_nWaitForKey \in 0 .. Wait /\ position \in 0 .. MaxGroup
  /\ last \in V!Outcomes /\ clean \in BOOLEAN
  /\ ~Untimed => DecodableInv

LEMMA FramesStart == ASSUME V!VideoAssumption, V!Init PROVE FramesInv
<1> USE DEF V!VideoAssumption, V!Init
<1>1. V!Started \in Members
  BY DEF V!Started, Members
<1>2. q.since = 0 /\ q.period = 0
  BY DEF V!Started
<1>3. m_nWaitForKey \in 0 .. Wait /\ 0 \in 0 .. MaxGroup
  OBVIOUS
<1>4. clean \in BOOLEAN
  BY Zenon
<1>5. ~Untimed => DecodableInv
  BY <1>2 DEF DecodableInv
<1> QED BY <1>1, <1>3, <1>4, <1>5 DEF FramesInv, V!Outcomes

\* What judging a frame makes of the members.
LEMMA JudgedMembers ==
  ASSUME NEW s \in Members, NEW key \in BOOLEAN, NEW slow \in BOOLEAN
  PROVE  /\ V!Judged(s, key, slow) \in Members
         /\ V!Judged(s, key, slow).since = (IF key THEN 0 ELSE s.since) + 1
         /\ V!Judged(s, key, slow).period \in {s.period, s.since}
         /\ s.skipping /\ ~key => V!Judged(s, key, slow).skipping
<1>1. V!Skips(s, key, slow) \in BOOLEAN /\ (s.skipping /\ ~key => V!Skips(s, key, slow))
  BY Zenon DEF V!Skips
<1>2. V!Period(s, key) \in {s.period, s.since} /\ V!Since(s, key) = IF key THEN 0 ELSE s.since
  BY DEF V!Period, V!Since
<1>3. s.late \in Int /\ s.period \in Nat /\ s.since \in Nat
  BY DEF Members
<1>4. V!LateAfter(s, V!Skips(s, key, slow)) \in Int
  BY <1>3 DEF V!LateAfter
<1>5. V!Judged(s, key, slow) =
        [late |-> V!LateAfter(s, V!Skips(s, key, slow)), period |-> V!Period(s, key),
         since |-> V!Since(s, key) + 1, skipping |-> V!Skips(s, key, slow)]
  BY DEF V!Judged
<1>6. V!Period(s, key) \in Nat /\ V!Since(s, key) + 1 \in Nat
  BY <1>2, <1>3
<1> QED BY <1>1, <1>2, <1>4, <1>5, <1>6 DEF Members

LEMMA FramesReceive == ASSUME V!VideoAssumption, FramesInv, V!Receive PROVE FramesInv'
<1>1. PICK key, slow, start, newInput, newOutput \in BOOLEAN, timed \in {t \in BOOLEAN : ~t => Untimed} :
        /\ last # "failed"
        /\ ~key => position \in 0 .. MaxGroup - 1
        /\ newInput => key
        /\ position = 0 => start
        /\ position' = IF key THEN 1 ELSE position + 1
        /\ V!Handle(IF newInput THEN V!Started ELSE q, key, timed, slow, start, newOutput)
  BY DEF V!Receive
<1>2. PICK s : s = IF newInput THEN V!Started ELSE q
  OBVIOUS
<1>3. PICK t : t = IF timed THEN V!Judged(s, key, slow) ELSE s
  OBVIOUS
<1>4. \/ /\ timed /\ t.skipping
         /\ q' = t /\ last' = "skipped" /\ clean' = FALSE /\ UNCHANGED m_nWaitForKey
      \/ /\ timed => ~t.skipping
         /\ V!Decode(t, key, start, newOutput)
      \/ /\ timed => ~t.skipping
         /\ q' = t /\ last' = "failed" /\ clean' = FALSE /\ UNCHANGED m_nWaitForKey
  BY <1>1, <1>2, <1>3 DEF V!Handle
<1>5. /\ MaxGroup \in Nat \ {0} /\ Wait \in Nat \ {0} /\ q \in Members
      /\ m_nWaitForKey \in 0 .. Wait /\ position \in 0 .. MaxGroup /\ clean \in BOOLEAN
      /\ Untimed \in BOOLEAN
  BY DEF FramesInv, V!VideoAssumption
<1>6. V!Started \in Members /\ V!Started.since = 0 /\ V!Started.period = 0
  BY DEF V!Started, Members
<1>7. s \in Members /\ t \in Members
  BY <1>2, <1>3, <1>5, <1>6, JudgedMembers
<1>8. position' \in 0 .. MaxGroup /\ position' \in Nat
  BY <1>1, <1>5
<1>9. ASSUME ~Untimed
      PROVE  /\ timed /\ t.since <= position' /\ t.period <= MaxGroup
             /\ q.skipping /\ ~key => t.skipping
  <2>1. timed /\ t = V!Judged(s, key, slow)
    BY <1>3, <1>9
  <2>2. s.since <= position /\ s.period <= MaxGroup
    BY <1>2, <1>5, <1>6, <1>9 DEF FramesInv, DecodableInv
  <2>3. s.since \in Nat /\ s.period \in Nat
    BY <1>7 DEF Members
  <2>4. t.since = (IF key THEN 0 ELSE s.since) + 1 /\ t.period \in {s.period, s.since}
        /\ (s.skipping /\ ~key => t.skipping)
    BY <1>7, <2>1, JudgedMembers
  <2>5. t.since <= position' /\ t.period <= MaxGroup
    BY <1>1, <1>5, <2>2, <2>3, <2>4
  <2>6. q.skipping /\ ~key => s.skipping
    BY <1>1, <1>2
  <2> QED BY <2>1, <2>4, <2>5, <2>6
<1>10. CASE q' = t /\ last' \in {"skipped", "failed"} /\ clean' = FALSE /\ UNCHANGED m_nWaitForKey
            /\ (last' = "skipped" => t.skipping)
  <2>1. ~Untimed => DecodableInv'
    BY <1>9, <1>10 DEF DecodableInv
  <2> QED BY <1>5, <1>7, <1>8, <1>10, <2>1 DEF FramesInv, V!Outcomes
<1>11. CASE (timed => ~t.skipping) /\ V!Decode(t, key, start, newOutput)
  <2>1. PICK n : n = V!WaitStarts(start \/ newOutput)
    OBVIOUS
  <2>2. PICK wait : wait = V!WaitAfter(key, start \/ newOutput)
    OBVIOUS
  <2>3. PICK hr \in {"shown", "hidden", "failed"} :
          /\ q' = V!AfterDecode(t, newOutput)
          /\ m_nWaitForKey' = wait
          /\ clean' = (hr # "failed" /\ (key \/ (wait = 0 /\ n = 1) \/ (clean /\ ~start /\ ~newOutput)))
          /\ last' = IF hr = "shown" /\ wait > 0 THEN "hidden" ELSE hr
    BY <1>11, <2>1, <2>2 DEF V!Decode
  <2>4. n = IF start \/ newOutput THEN Wait ELSE m_nWaitForKey
    BY <2>1 DEF V!WaitStarts
  <2>5. wait = IF key \/ n = 0 THEN 0 ELSE n - 1
    BY <2>1, <2>2 DEF V!WaitAfter
  <2>6. n \in 0 .. Wait /\ wait \in 0 .. Wait
    BY <1>5, <2>4, <2>5
  <2>7. q' \in Members /\ q'.since \in {0, t.since} /\ q'.period \in {0, t.period}
    BY <1>6, <1>7, <2>3 DEF V!AfterDecode
  <2>8. last' \in {"shown", "hidden", "failed"} /\ clean' \in BOOLEAN
    BY <2>3
  <2>9. ASSUME ~Untimed PROVE DecodableInv'
    <3>1. q'.since <= position' /\ q'.period <= MaxGroup
      BY <1>5, <1>7, <1>8, <1>9, <2>7, <2>9 DEF Members
    <3>2. ASSUME wait = 0, hr # "failed" PROVE clean'
      <4>1. CASE key \/ n = 1
        BY <2>3, <3>2, <4>1
      <4>2. CASE ~key /\ n # 1
        <5>1. n = 0 /\ ~start /\ ~newOutput /\ m_nWaitForKey = 0
          BY <1>5, <2>4, <2>5, <2>6, <3>2, <4>2
        <5>2. position > 0 /\ last # "failed"
          BY <1>1, <1>5, <5>1
        <5>3. clean
          BY <1>9, <1>11, <2>9, <4>2, <5>1, <5>2 DEF FramesInv, DecodableInv
        <5> QED BY <2>3, <3>2, <5>1, <5>3
      <4> QED BY <4>1, <4>2
    <3>3. last' = "shown" => wait = 0 /\ hr # "failed"
      BY <2>3, <2>6
    <3>4. last' # "failed" => hr # "failed"
      BY <2>3
    <3> QED BY <2>3, <3>1, <3>2, <3>3, <3>4 DEF DecodableInv
  <2> QED BY <1>8, <2>3, <2>6, <2>7, <2>8, <2>9 DEF FramesInv, V!Outcomes
<1> QED BY <1>4, <1>10, <1>11

LEMMA FramesStep == ASSUME V!VideoAssumption, FramesInv, [V!Next]_frames PROVE FramesInv'
<1> USE DEF V!VideoAssumption, FramesInv
<1>1. CASE V!Receive
  BY <1>1, FramesReceive
<1>2. CASE V!EndFlush
  <2>1. q' = V!Started /\ position' = 0 /\ last' = "none" /\ UNCHANGED <<m_nWaitForKey, clean>>
    BY <1>2 DEF V!EndFlush
  <2>2. q' \in Members /\ q'.since = 0 /\ q'.period = 0
    BY <2>1 DEF V!Started, Members
  <2> QED BY <2>1, <2>2 DEF DecodableInv, V!Outcomes
<1>3. ASSUME NEW late \in Lates, V!AlterQuality(late) PROVE FramesInv'
  <2>1. q' = [q EXCEPT !.late = IF @ > Silly THEN Silly ELSE late] /\ UNCHANGED <<m_nWaitForKey, position, last, clean>>
    BY <1>3 DEF V!AlterQuality
  <2>2. Silly \in Int /\ late \in Int
    OBVIOUS
  <2>3. q' \in Members /\ q'.since = q.since /\ q'.period = q.period /\ q'.skipping = q.skipping
    BY <2>1, <2>2 DEF Members
  <2> QED BY <2>1, <2>3 DEF DecodableInv
<1>4. CASE UNCHANGED frames
  BY <1>4 DEF frames, DecodableInv
<1> QED BY <1>1, <1>2, <1>3, <1>4 DEF V!Next

LEMMA FramesWhole ==
  ASSUME V!VideoAssumption, FramesInv
  PROVE  V!TypeOK /\ (~Untimed => V!ShownIsDecodable)
<1>1. q.late \in Int /\ q.period \in Nat /\ q.since \in Nat /\ q.skipping \in BOOLEAN
  BY DEF FramesInv, Members
<1>2. ASSUME ~Untimed PROVE q.period \in 0 .. MaxGroup + 1 /\ q.since \in 0 .. MaxGroup + 1
  BY <1>1, <1>2 DEF FramesInv, DecodableInv, V!VideoAssumption
<1>3. V!TypeOK
  BY <1>1, <1>2 DEF V!TypeOK, FramesInv
<1> QED BY <1>3 DEF V!ShownIsDecodable, FramesInv, DecodableInv

-----------------------------------------------------------------------------
(***************************************************************************)
(* Each part takes its steps alone, from a start where nothing of the      *)
(* others has happened.                                                    *)
(***************************************************************************)

ThreadsInv ==
  /\ part \in {"pin", "source", "pull", "control", "frames"}
  /\ part = "pin" => PinInv
  /\ part = "source" => SourceInv
  /\ part = "pull" => PullInv
  /\ part = "control" => ControlInv
  /\ part = "frames" => FramesInv
  /\ part # "source" => ~sample

LEMMA Assumed ==
  /\ DynamicPinAssumption /\ S!SourceAssumption /\ P!PullAssumption
  /\ C!StreamControlAssumption /\ V!VideoAssumption
BY DynamicPinAssumption, PartsAssumption DEF DynamicPinAssumption

LEMMA ThreadsStart == ASSUME MCInit PROVE ThreadsInv
<1>1. /\ part \in {"pin", "source", "pull", "control", "frames"}
      /\ Init /\ S!Init /\ P!Init /\ C!Init /\ V!Init
  BY DEF MCInit
<1>2. ~sample
  BY <1>1 DEF S!Init
<1>3. PinInv /\ SourceInv /\ PullInv /\ ControlInv /\ FramesInv
  BY <1>1, Assumed, PinStart, SourceStart, PullStart, ControlStart, FramesStart
<1> QED BY <1>1, <1>2, <1>3 DEF ThreadsInv

\* A step is a step of one part, which leaves the others what they are.
LEMMA ThreadsParts ==
  ASSUME ThreadsInv, [MCNext]_everything
  PROVE  /\ part' = part
         /\ part = "pin" => [Next]_vars
         /\ part = "source" => [S!Next]_<<amThread, source, committed>>
         /\ part = "pull" => [P!Next]_pullVars
         /\ part = "control" => [C!Next]_stc
         /\ part = "frames" => [V!Next]_frames
         /\ part # "source" => UNCHANGED source
         /\ part # "control" => UNCHANGED stc
         /\ part \in {"pin", "control", "frames"} => UNCHANGED amThread
<1>1. CASE UNCHANGED everything
  <2>1. /\ UNCHANGED <<part, vars, amThread, source, pull, stc, frames>>
        /\ committed' = committed
    BY <1>1 DEF everything, vars, filterVars
  <2> QED BY <2>1 DEF pullVars
<1>2. CASE MCNext
  BY <1>2 DEF MCNext
<1> QED BY <1>1, <1>2

LEMMA ThreadsStep == ASSUME ThreadsInv, [MCNext]_everything PROVE ThreadsInv'
<1>a. /\ part \in {"pin", "source", "pull", "control", "frames"} /\ part' = part
      /\ part # "source" => UNCHANGED source /\ ~sample
  BY ThreadsParts DEF ThreadsInv
<1>0. part # "source" => ~sample'
  BY <1>a DEF source
<1>1. CASE part = "pin"
  <2>1. PinInv /\ [Next]_vars
    BY <1>1, ThreadsParts DEF ThreadsInv
  <2>2. PinInv'
    BY <2>1, Assumed, PinStep
  <2> QED BY <1>a, <1>0, <1>1, <2>2 DEF ThreadsInv
<1>2. CASE part = "source"
  <2>1. SourceInv /\ [S!Next]_<<amThread, source, committed>>
    BY <1>2, ThreadsParts DEF ThreadsInv
  <2>2. SourceInv'
    BY <2>1, Assumed, SourceStep
  <2> QED BY <1>a, <1>2, <2>2 DEF ThreadsInv
<1>3. CASE part = "pull"
  <2>1. PullInv /\ [P!Next]_pullVars
    BY <1>3, ThreadsParts DEF ThreadsInv
  <2>2. PullInv'
    BY <2>1, Assumed, PullStep
  <2> QED BY <1>a, <1>0, <1>3, <2>2 DEF ThreadsInv
<1>4. CASE part = "control"
  <2>1. ControlInv /\ [C!Next]_stc
    BY <1>4, ThreadsParts DEF ThreadsInv
  <2>2. ControlInv'
    BY <2>1, Assumed, ControlStep
  <2> QED BY <1>a, <1>0, <1>4, <2>2 DEF ThreadsInv
<1>5. CASE part = "frames"
  <2>1. FramesInv /\ [V!Next]_frames
    BY <1>5, ThreadsParts DEF ThreadsInv
  <2>2. FramesInv'
    BY <2>1, Assumed, FramesStep
  <2> QED BY <1>a, <1>0, <1>5, <2>2 DEF ThreadsInv
<1> QED BY <1>a, <1>1, <1>2, <1>3, <1>4, <1>5

LEMMA ThreadsAlways == MCSpec => []ThreadsInv
<1>1. MCSpec => MCInit /\ [][MCNext]_everything
  BY PTL DEF MCSpec
<1>2. MCInit => ThreadsInv
  BY ThreadsStart
<1>3. ThreadsInv /\ [MCNext]_everything => ThreadsInv'
  BY ThreadsStep
<1> QED BY <1>1, <1>2, <1>3, PTL

\* Every variable of the part that runs has a value of its kind, however many threads,
\* samples, seeks and requests there are.
THEOREM TypesHold == MCSpec => []TypesOK
<1>1. ASSUME ThreadsInv PROVE TypesOK
  <2>1. CASE part = "pin"
    BY <1>1, <2>1, PinWhole DEF ThreadsInv, TypesOK
  <2>2. CASE part = "source"
    BY <1>1, <2>2, SourceWhole DEF ThreadsInv, TypesOK
  <2>3. CASE part = "pull"
    BY <1>1, <2>3, PullWhole DEF ThreadsInv, TypesOK
  <2>4. CASE part = "control"
    BY <1>1, <2>4, Assumed, ControlWhole DEF ThreadsInv, TypesOK
  <2>5. CASE part = "frames"
    BY <1>1, <2>5, Assumed, FramesWhole DEF ThreadsInv, TypesOK
  <2> QED BY <1>1, <2>1, <2>2, <2>3, <2>4, <2>5 DEF ThreadsInv
<1> QED BY <1>1, ThreadsAlways, PTL

\* A worker that has been stopped holds no sample, has asked for nothing and gives nothing
\* to the filter, and a blocked pin is used by nobody but the thread that reconnects it.
\* A pin whose filter could not pause because of another pin keeps its worker running;
\* that is the one thread that the destructor closes without its having been told to exit.
THEOREM NothingIsLeftBehind == MCSpec => []NothingLeftBehind
<1>1. ASSUME ThreadsInv PROVE NothingLeftBehind
  <2>1. part = "pin" => AssertValid /\ ReconnectAlone /\ CommittedWhileActive
    BY <1>1, PinWhole DEF ThreadsInv
  <2>2. part = "source" => S!InactiveHoldsNothing /\ S!NeverUnexpected /\ S!CloseAfterExit
    BY <1>1, SourceWhole DEF ThreadsInv
  <2>3. part = "pull" => P!Quiet /\ P!NoRequestLeft
    BY <1>1, PullWhole DEF ThreadsInv
  <2> QED BY <2>1, <2>2, <2>3 DEF NothingLeftBehind
<1> QED BY <1>1, ThreadsAlways, PTL

\* The filter of a pull pin receives the range in order and its end after it, a request
\* to start or to stop the stream is told once, one stop gives one extra sample, a held
\* sample is let go, and, where frames have time stamps, what is shown can be decoded.
THEOREM EachIsServedOnce == ASSUME ~Untimed PROVE MCSpec => []ServedOnce
<1>1. ASSUME ThreadsInv PROVE ServedOnce
  <2>1. part = "pull" => P!InOrder
    BY <1>1, PullWhole DEF ThreadsInv
  <2>2. part = "control" => C!HeldIsWoken /\ C!OnceEach
    BY <1>1, Assumed, ControlWhole DEF ThreadsInv
  <2>3. part = "frames" => V!ShownIsDecodable
    BY <1>1, Assumed, FramesWhole DEF ThreadsInv
  <2> QED BY <2>1, <2>2, <2>3 DEF ServedOnce
<1> QED BY <1>1, ThreadsAlways, PTL

\* A sample is passed on exactly if part of it lies where the stream flows, nothing is
\* delivered after the end of a stream, and a caller gets the answer to its own request.
THEOREM AllDecidedRight == MCSpec => DecidedRight
<1>1. MCSpec => MCInit /\ [][MCNext]_everything
  BY PTL DEF MCSpec
<1>2. ASSUME ThreadsInv, ThreadsInv', [MCNext]_everything,
             thread.at = "times", thread' # thread
      PROVE  thread'.at = "out" <=>
               \/ C!FlowsBefore(thread.start)
               \/ thread.start <= m_tStartTime /\ m_tStartTime < thread.stop
  <2>1. part = "control"
    BY <1>2, ThreadsParts DEF stc
  <2>2. ControlInv /\ [C!Next]_stc
    BY <1>2, <2>1, ThreadsParts DEF ThreadsInv
  <2> QED BY <1>2, <2>2, Assumed, ControlDecides
<1>3. ASSUME ThreadsInv' PROVE sample' => ~ended'
  <2>1. part' # "source" => ~sample'
    BY <1>3 DEF ThreadsInv
  <2>2. part' = "source" => SourceInv'
    BY <1>3 DEF ThreadsInv
  <2>3. SourceInv' => (sample' => ~ended')
    BY DEF SourceInv, SampleInv, Looping
  <2> QED BY <2>1, <2>2, <2>3
<1>4. ASSUME ThreadsInv, [MCNext]_everything, m_EventComplete, ~m_EventComplete'
      PROVE  reply.to = m_dwParam /\ m_dwReturnVal = reply.value /\ ~m_EventSend
  <2>1. part \in {"source", "pull"}
    BY <1>4, ThreadsParts DEF amThread, ThreadsInv
  <2>2. AnswerInv(control \in S!Commands) \/ AnswerInv(pullControl = "sent")
    BY <1>4, <2>1 DEF ThreadsInv, SourceInv, PullInv
  <2> QED BY <1>4, <2>2 DEF AnswerInv
<1>5. ASSUME ThreadsInv, ThreadsInv', [MCNext]_everything
      PROVE  /\ [thread.at = "times" /\ thread' # thread =>
                   (thread'.at = "out" <=>
                      \/ C!FlowsBefore(thread.start)
                      \/ thread.start <= m_tStartTime /\ m_tStartTime < thread.stop)]_C!vars
             /\ [sample' => ~ended']_S!vars
             /\ [m_EventComplete /\ ~m_EventComplete' =>
                   reply.to = m_dwParam /\ m_dwReturnVal = reply.value /\ ~m_EventSend]_S!vars
  BY <1>2, <1>3, <1>4, <1>5
<1> QED BY <1>1, <1>5, ThreadsAlways, PTL DEF DecidedRight, C!SentIfAnyPart, S!NothingAfterEnd, S!AnswersMatch

=============================================================================
