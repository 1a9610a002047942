------------------------------ MODULE MCThreads -----------------------------
(* An instance for TLC of the threads of pins and of what they are told, each *)
(* with an environment of its own; "part" is the one that takes steps.  The   *)
(* source and the pull pin have the same members of CAMThread.                *)
EXTENDS DynamicPin

CONSTANTS
  MaxSamples,                                   \* of SourceStream
  Length, MaxSeeks,                             \* of PullPin
  MaxTime, MaxCalls,                            \* of StreamControl
  MaxGroup, Wait, Silly, Lates, Untimed         \* of VideoTransform

VARIABLES
  part,
  m_hThread, m_EventSend, m_EventComplete, m_dwParam, m_dwReturnVal, worker, reply,
  control, filterActive, sample, filled, ended, sourceTold,
  setting, pullControl, todo, m_State, m_tStart, m_tStop, tCurrent, range, requests,
  flushing, downFlushing, received, seeks,
  m_StreamState, m_StreamStateOnStop, m_tStartTime, m_tStopTime, m_dwStartCookie,
  m_dwStopCookie, m_bStopSendExtra, m_bStopExtraSent, m_FilterState, m_bIsFlushing,
  m_StreamEvent, m_pRefClock, now, thread, calls, extras, told,
  q, m_nWaitForKey, position, last, clean

amThread == <<m_hThread, m_EventSend, m_EventComplete, m_dwParam, m_dwReturnVal, worker, reply>>
source == <<control, filterActive, sample, filled, ended, sourceTold>>
pull == <<setting, pullControl, todo, m_State, m_tStart, m_tStop, tCurrent, range, requests,
          flushing, downFlushing, received, seeks>>
stc == <<m_StreamState, m_StreamStateOnStop, m_tStartTime, m_tStopTime, m_dwStartCookie,
         m_dwStopCookie, m_bStopSendExtra, m_bStopExtraSent, m_FilterState, m_bIsFlushing,
         m_StreamEvent, m_pRefClock, now, thread, calls, extras, told>>
frames == <<q, m_nWaitForKey, position, last, clean>>

S == INSTANCE SourceStream WITH told <- sourceTold
P == INSTANCE PullPin WITH control <- pullControl
C == INSTANCE StreamControl
V == INSTANCE VideoTransform

ASSUME PartsAssumption == S!SourceAssumption /\ P!PullAssumption /\ C!StreamControlAssumption /\ V!VideoAssumption

Lateness == {-1, 0, 2, 5}

\* The choices of the other parts are made.
OneStart ==
  /\ part # "pull" => setting = [sync |-> TRUE, ahead |-> TRUE]
  /\ part # "control" => m_bStopExtraSent = FALSE
  /\ part # "frames" => m_nWaitForKey = 0

rest == <<active, connected, missed, torn, blockVars, stopEvent, appVars, streamVars>>
sourceVars == <<amThread, source, committed>>
pullVars == <<amThread, pull, committed>>
everything == <<part, vars, amThread, source, pull, stc, frames>>

MCNext ==
  /\ UNCHANGED part
  /\ \/ part = "pin" /\ Next /\ UNCHANGED <<amThread, source, pull, stc, frames>>
     \/ part = "source" /\ S!Next /\ UNCHANGED <<rest, pull, stc, frames>>
     \/ part = "pull" /\ P!Next /\ UNCHANGED <<rest, source, stc, frames>>
     \/ part = "control" /\ C!Next /\ UNCHANGED <<vars, amThread, source, pull, frames>>
     \/ part = "frames" /\ V!Next /\ UNCHANGED <<vars, amThread, source, pull, stc>>

MCInit ==
  /\ part \in {"pin", "source", "pull", "control", "frames"}
  /\ Init /\ S!Init /\ P!Init /\ C!Init /\ V!Init /\ OneStart

MCSpec ==
  /\ MCInit
  /\ [][MCNext]_everything
  /\ WF_vars(part = "pin" /\ Streaming)
  /\ \A t \in Apps : WF_vars(part = "pin" /\ BlockReturns(t))
  /\ WF_sourceVars(part = "source" /\ S!Worker)
  /\ WF_sourceVars(part = "source" /\ S!Control)
  /\ WF_sourceVars(part = "source" /\ ~committed /\ S!GetDeliveryBuffer)
  /\ WF_sourceVars(part = "source" /\ control = "CMD_STOP" /\ S!Deliver)
  /\ WF_pullVars(part = "pull" /\ P!Worker)
  /\ WF_pullVars(part = "pull" /\ P!Control)
  /\ WF_pullVars(part = "pull" /\ flushing /\ P!Collect)
  /\ WF_pullVars(part = "pull" /\ pullControl # "idle" /\ P!Read)
  /\ WF_stc(part = "control" /\ C!CheckStreamState)
  /\ WF_stc(part = "control" /\ C!Tick)
  /\ WF_frames(part = "frames" /\ V!Receive)

-----------------------------------------------------------------------------
(* The properties of the parts, whose comments are there, by theme.          *)

\* Every variable has a value of its kind.
TypesOK ==
  CASE part = "pin" -> TypeOK
    [] part = "source" -> S!TypeOK
    [] part = "pull" -> P!TypeOK
    [] part = "control" -> C!TypeOK
    [] part = "frames" -> V!TypeOK

\* A worker that has been stopped holds no sample, has asked for nothing and gives
\* nothing to the filter, and no command comes to a part of it that does not expect
\* it; a blocked pin is used by nobody but the thread that reconnects it, and its
\* allocator is committed while it is active.
NothingLeftBehind ==
  /\ part = "pin" => AssertValid /\ ReconnectAlone /\ CommittedWhileActive
  /\ part = "source" => S!InactiveHoldsNothing /\ S!NeverUnexpected /\ S!CloseAfterExit
  /\ part = "pull" => P!Quiet /\ P!NoRequestLeft

\* What reaches a filter is in order and can be decoded; a request to start or to stop
\* the stream is served once, and a sample held for one is let go.
ServedOnce ==
  /\ part = "pull" => P!InOrder
  /\ part = "control" => C!HeldIsWoken /\ C!OnceEach
  /\ part = "frames" => V!ShownIsDecodable

\* A sample is passed on if any part of it is to be, nothing follows the end of a
\* stream, and each call of a worker gets the answer to its own request.
DecidedRight == C!SentIfAnyPart /\ S!NothingAfterEnd /\ S!AnswersMatch

\* The calls that stop, flush or block return, a held sample is let go, and the skipping
\* of frames to make up time comes to an end; but for a stop during the reconnection of
\* a pin, and a source left active by a pause that failed elsewhere.
CallsReturn ==
  /\ BlockEnds /\ StopReleases /\ S!ControlReturns /\ P!ControlReturns
  /\ C!CheckReturns /\ V!SkippingEnds

=============================================================================
