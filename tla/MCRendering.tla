----------------------------- MODULE MCRendering ----------------------------
(* An instance for TLC of the renderer and of the clock that wakes it, each  *)
(* with an environment of its own; "part" is the one that takes steps.       *)
EXTENDS Renderer, Sequences

CONSTANTS Half, MaxTicks, MaxCookie, Times, Deltas, MaxDeltas

VARIABLES
  part, ticks, m_rtPrivateTime, m_dwPrevSystemTime, m_rtLastGotTime,
  corrections, truth, list, m_dwAdviseCount, m_dwNextCookie, event, thread,
  rtNow, until, clockAbort, withdrawn, late

C == INSTANCE Clock WITH m_bAbort <- clockAbort

ASSUME MCClockAssumption == C!ClockAssumption

Corrections == {-2, 1, 2}

theClock == <<ticks, m_rtPrivateTime, m_dwPrevSystemTime, m_rtLastGotTime,
              corrections, truth, list, m_dwAdviseCount, m_dwNextCookie, event,
              thread, rtNow, until, clockAbort, withdrawn, late>>

MCInit == part \in {"renderer", "clock"} /\ Init /\ C!Init

MCNext ==
  \/ part = "renderer" /\ Next /\ UNCHANGED <<part, theClock>>
  \/ part = "clock" /\ C!Next /\ UNCHANGED <<part, vars>>

MCSpec ==
  /\ MCInit
  /\ [][MCNext]_<<part, vars, theClock>>
  /\ SF_vars(part = "renderer" /\ ReceiveStep)
  /\ WF_vars(part = "renderer" /\ Return)
  /\ \A c \in Cookies : WF_vars(part = "renderer" /\ ClockFires(c))
  /\ SF_vars(part = "renderer" /\ TimerCallback)
  /\ WF_theClock(part = "clock" /\ C!AdviseThread)

\* Every variable of the renderer and of the clock has a value of its kind.
TypesOK == TypeOK /\ C!TypeOK

\* The list of the clock's requests stays sorted and counted, a withdrawn event
\* is never set, no request is overslept, and the time is that of the counter
\* and its corrections, through the counter's wrap.
ClockKept ==
  /\ C!Sorted /\ C!CountExact /\ C!NeverAfterUnadvise
  /\ C!NeverOversleeps /\ C!TimeIsTrue

\* No step completes before the last sample, takes a stop for an error, turns the
\* clock back, or shows a sample early but in a Receive that was overtaken: see NotEarly.
StepsAreRight == CompleteIsLast /\ NotEarly /\ NoSpuriousAbort /\ C!NeverBack

\* Every call returns, a sample waited for is shown (unless a flush and a Run overtook
\* its Receive: see SampleIsShown), the end of a stream is told and
\* the clock's thread ends when the clock does.
ThingsEnd == CallsReturn /\ SampleIsShown /\ EndIsDelivered /\ C!ThreadEnds

=============================================================================
