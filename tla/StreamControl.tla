--------------------------- MODULE StreamControl ----------------------------
(***************************************************************************)
(* CBaseStreamControl (strmctl.cpp): a pin asks CheckStreamState, before it*)
(* passes a sample on, whether the application has turned the stream on or *)
(* off for that time; a sample that is not to be passed on is held until   *)
(* its time has come, or until something changes.                          *)
(***************************************************************************)
EXTENDS Integers

CONSTANTS
  MaxTime,   \* bound on stream time
  MaxCalls   \* bound on the calls of StartAt and StopAt

StreamControlAssumption == MaxTime \in Nat \ {0} /\ MaxCalls \in Nat

VARIABLES
  m_StreamState, m_StreamStateOnStop,
  m_tStartTime, m_tStopTime, m_dwStartCookie, m_dwStopCookie,
  m_bStopSendExtra, m_bStopExtraSent,
  m_FilterState, m_bIsFlushing,
  m_StreamEvent,  \* auto-reset
  m_pRefClock,    \* there is a clock
  now,            \* stream time, by that clock
  thread,         \* the streaming thread: where it is, its sample, its answer
  calls,          \* how many times StartAt and StopAt were called
  extras,         \* auxiliary: extra samples since the last StopAt
  told            \* auxiliary: how many times each request was notified

state == <<m_StreamState, m_StreamStateOnStop>>
request == <<m_tStartTime, m_tStopTime, m_dwStartCookie, m_dwStopCookie>>
extra == <<m_bStopSendExtra, m_bStopExtraSent, extras>>
vars == <<state, request, extra, m_FilterState, m_bIsFlushing, m_StreamEvent, m_pRefClock,
          now, thread, calls, told>>

MAX_TIME == MaxTime + 1
INFINITE == -1
Times == 0..MaxTime
Flowing == "STREAM_FLOWING"
Discarding == "STREAM_DISCARDING"
Out == [at |-> "out", start |-> 0, stop |-> 0, until |-> 0]

TypeOK ==
  /\ {m_StreamState, m_StreamStateOnStop} \subseteq {Flowing, Discarding}
  /\ {m_tStartTime, m_tStopTime} \subseteq Times \cup {MAX_TIME}
  /\ {m_dwStartCookie, m_dwStopCookie} \subseteq 0..MaxCalls
  /\ {m_bStopSendExtra, m_bStopExtraSent, m_bIsFlushing, m_StreamEvent, m_pRefClock} \subseteq BOOLEAN
  /\ m_FilterState \in {"State_Stopped", "State_Paused", "State_Running"}
  /\ now \in Times /\ calls \in 0..MaxCalls /\ extras \in Nat
  /\ thread.at \in {"out", "check", "times", "extra", "extraSent", "decide", "wait"}
  /\ thread.start \in Times /\ thread.stop \in Times /\ thread.until \in Times \cup {INFINITE}
  /\ told \in [1..MaxCalls -> Nat]

\* Stopping when no time is set means flowing on.
Init ==
  /\ m_StreamState = Flowing /\ m_StreamStateOnStop = Flowing
  /\ m_tStartTime = MAX_TIME /\ m_tStopTime = MAX_TIME
  /\ m_dwStartCookie = 0 /\ m_dwStopCookie = 0
  /\ m_bStopSendExtra = FALSE /\ m_bStopExtraSent \in BOOLEAN \* not initialised
  /\ m_FilterState = "State_Stopped" /\ m_bIsFlushing = FALSE
  /\ m_StreamEvent = FALSE /\ m_pRefClock = FALSE /\ now = 0
  /\ thread = Out /\ calls = 0 /\ extras = 0
  /\ told = [n \in 1..MaxCalls |-> 0]

-----------------------------------------------------------------------------
(* What the executions of the requests make of the state, as a record.     *)

Now == [flow |-> m_StreamState, onStop |-> m_StreamStateOnStop,
        start |-> m_tStartTime, stop |-> m_tStopTime,
        startCookie |-> m_dwStartCookie, stopCookie |-> m_dwStopCookie, told |-> told]

Tell(r, cookie) ==
  IF cookie = 0 THEN r ELSE [r EXCEPT !.told[cookie] = @ + 1]

CancelStop(r) == [r EXCEPT !.stop = MAX_TIME, !.stopCookie = 0, !.onStop = Flowing]
CancelStart(r) == [r EXCEPT !.start = MAX_TIME, !.startCookie = 0]

ExecuteStop(r) == CancelStop(Tell([r EXCEPT !.flow = r.onStop], r.stopCookie))
ExecuteStart(r) == CancelStart(Tell([r EXCEPT !.flow = Flowing], r.startCookie))

Becomes(r) ==
  /\ m_StreamState' = r.flow /\ m_StreamStateOnStop' = r.onStop
  /\ m_tStartTime' = r.start /\ m_tStopTime' = r.stop
  /\ m_dwStartCookie' = r.startCookie /\ m_dwStopCookie' = r.stopCookie
  /\ told' = r.told

CheckSampleTimes(r, start, stop) ==
  IF r.stop >= start
  THEN IF r.start >= stop THEN r
       ELSE IF r.stop < r.start THEN ExecuteStart(ExecuteStop(r)) ELSE ExecuteStart(r)
  ELSE IF r.start >= stop THEN ExecuteStop(r)
       ELSE IF r.start <= r.stop THEN ExecuteStop(ExecuteStart(r)) ELSE ExecuteStart(ExecuteStop(r))

-----------------------------------------------------------------------------
(* The application.                                                        *)

Stopped == m_FilterState = "State_Stopped"

StartAt(time, cookie) ==
  /\ calls < MaxCalls /\ calls' = calls + 1
  /\ m_tStartTime' = time /\ m_dwStartCookie' = cookie
  /\ m_StreamState' = IF Stopped /\ m_tStopTime >= time THEN Discarding ELSE m_StreamState
  /\ m_StreamEvent' = TRUE
  /\ UNCHANGED <<m_StreamStateOnStop, m_tStopTime, m_dwStopCookie, extra, m_FilterState,
                 m_bIsFlushing, m_pRefClock, now, thread, told>>

StartNow ==
  /\ calls < MaxCalls /\ calls' = calls + 1
  /\ m_tStartTime' = MAX_TIME /\ m_dwStartCookie' = 0
  /\ m_StreamState' = Flowing
  /\ m_StreamEvent' = TRUE
  /\ UNCHANGED <<m_StreamStateOnStop, m_tStopTime, m_dwStopCookie, extra, m_FilterState,
                 m_bIsFlushing, m_pRefClock, now, thread, told>>

\* StartAt(MAX_TIME) cancels; the event is not set.
StartNever ==
  /\ m_tStartTime # MAX_TIME
  /\ Becomes([CancelStart(Now) EXCEPT !.flow = IF Stopped /\ m_tStopTime < MAX_TIME THEN Flowing ELSE @])
  /\ UNCHANGED <<extra, m_FilterState, m_bIsFlushing, m_StreamEvent, m_pRefClock, now, thread, calls>>

StopAt(time, sendExtra, cookie) ==
  /\ calls < MaxCalls /\ calls' = calls + 1
  /\ m_tStopTime' = time /\ m_dwStopCookie' = cookie
  /\ m_StreamState' = IF Stopped /\ m_tStartTime > time THEN Flowing ELSE m_StreamState
  /\ m_StreamStateOnStop' = Discarding
  /\ m_bStopSendExtra' = sendExtra /\ m_bStopExtraSent' = FALSE /\ extras' = 0
  /\ m_StreamEvent' = TRUE
  /\ UNCHANGED <<m_tStartTime, m_dwStartCookie, m_FilterState, m_bIsFlushing, m_pRefClock, now,
                 thread, told>>

StopNow ==
  /\ calls < MaxCalls /\ calls' = calls + 1
  /\ Becomes([CancelStop(Now) EXCEPT !.flow = Discarding])
  /\ m_bStopSendExtra' = FALSE /\ m_bStopExtraSent' = FALSE /\ extras' = 0
  /\ m_StreamEvent' = TRUE
  /\ UNCHANGED <<m_FilterState, m_bIsFlushing, m_pRefClock, now, thread>>

StopNever ==
  /\ m_tStopTime # MAX_TIME
  /\ Becomes([CancelStop(Now) EXCEPT !.flow = IF Stopped /\ m_tStartTime < MAX_TIME THEN Discarding ELSE @])
  /\ m_bStopSendExtra' = FALSE /\ m_bStopExtraSent' = FALSE /\ extras' = 0
  /\ UNCHANGED <<m_FilterState, m_bIsFlushing, m_StreamEvent, m_pRefClock, now, thread, calls>>

-----------------------------------------------------------------------------
(* The filter.                                                             *)

\* All that is pending is executed in its order, and the stream flows again.
StopFilter ==
  /\ ~Stopped /\ m_FilterState' = "State_Stopped"
  /\ LET due == CASE m_tStartTime # MAX_TIME /\ m_tStopTime = MAX_TIME -> ExecuteStart(Now)
                  [] m_tStopTime # MAX_TIME /\ m_tStartTime = MAX_TIME -> ExecuteStop(Now)
                  [] m_tStopTime # MAX_TIME /\ m_tStartTime # MAX_TIME ->
                       IF m_tStartTime <= m_tStopTime THEN ExecuteStop(ExecuteStart(Now))
                                                      ELSE ExecuteStart(ExecuteStop(Now))
                  [] OTHER -> Now
     IN Becomes([due EXCEPT !.flow = Flowing])
  /\ m_StreamEvent' = TRUE
  /\ UNCHANGED <<extra, m_bIsFlushing, m_pRefClock, now, thread, calls>>

PauseFilter ==
  /\ m_FilterState # "State_Paused" /\ m_FilterState' = "State_Paused"
  /\ m_StreamEvent' = TRUE
  /\ UNCHANGED <<state, request, extra, m_bIsFlushing, m_pRefClock, now, thread, calls, told>>

\* m_tRunStart is the time at which stream time is zero.
RunFilter ==
  /\ m_FilterState = "State_Paused" /\ m_FilterState' = "State_Running"
  /\ now' = 0
  /\ m_StreamEvent' = TRUE
  /\ UNCHANGED <<state, request, extra, m_bIsFlushing, m_pRefClock, thread, calls, told>>

\* BeginFlush and EndFlush of the pin.
Flushing ==
  /\ ~Stopped /\ m_bIsFlushing' = ~m_bIsFlushing
  /\ m_StreamEvent' = TRUE
  /\ UNCHANGED <<state, request, extra, m_FilterState, m_pRefClock, now, thread, calls, told>>

\* The graph sets the clock of a stopped filter; stream time begins with the next run.
SetSyncSource ==
  /\ Stopped /\ thread.at = "out"
  /\ m_pRefClock' = ~m_pRefClock /\ now' = 0
  /\ UNCHANGED <<state, request, extra, m_FilterState, m_bIsFlushing, m_StreamEvent, thread,
                 calls, told>>

Tick ==
  /\ m_pRefClock /\ m_FilterState = "State_Running" /\ now < MaxTime /\ now' = now + 1
  /\ UNCHANGED <<state, request, extra, m_FilterState, m_bIsFlushing, m_StreamEvent, m_pRefClock,
                 thread, calls, told>>

-----------------------------------------------------------------------------
(* CheckStreamState, on the streaming thread.                              *)

Go(at) == thread' = [thread EXCEPT !.at = at]

\* A sample with times comes to an active filter.  One without them is passed on
\* as the stream is, and changes nothing.
Receive(start, stop) ==
  /\ thread.at = "out" /\ ~Stopped
  /\ thread' = [at |-> "check", start |-> start, stop |-> stop, until |-> 0]
  /\ UNCHANGED <<state, request, extra, m_FilterState, m_bIsFlushing, m_StreamEvent, m_pRefClock,
                 now, calls, told>>

\* Without the lock.
Check ==
  /\ thread.at = "check"
  /\ IF m_bIsFlushing \/ Stopped THEN thread' = Out ELSE Go("times")
  /\ UNCHANGED <<state, request, extra, m_FilterState, m_bIsFlushing, m_StreamEvent, m_pRefClock,
                 now, calls, told>>

\* With it.  A flush or a stop that has come meanwhile is seen at the next look (and
\* fails ASSERT(!m_bIsFlushing), strmctl.cpp:239, in a debug build).
CheckTimes ==
  /\ thread.at = "times"
  /\ LET r == CheckSampleTimes(Now, thread.start, thread.stop) IN
     /\ Becomes(r)
     /\ IF r.flow = Flowing THEN thread' = Out ELSE Go("extra")
  /\ UNCHANGED <<extra, m_FilterState, m_bIsFlushing, m_StreamEvent, m_pRefClock, now, calls>>

\* Without the lock: is one more sample wanted after the stop?
CheckExtra ==
  /\ thread.at = "extra"
  /\ Go(IF m_bStopSendExtra /\ ~m_bStopExtraSent /\ m_tStopTime = MAX_TIME /\ ~Stopped
        THEN "extraSent" ELSE "decide")
  /\ UNCHANGED <<state, request, extra, m_FilterState, m_bIsFlushing, m_StreamEvent, m_pRefClock,
                 now, calls, told>>

SendExtra ==
  /\ thread.at = "extraSent"
  /\ m_bStopExtraSent' = TRUE /\ extras' = extras + 1
  /\ thread' = Out
  /\ UNCHANGED <<state, request, m_bStopSendExtra, m_FilterState, m_bIsFlushing, m_StreamEvent,
                 m_pRefClock, now, calls, told>>

\* How long to hold a sample that is to be discarded.
Decide ==
  /\ thread.at = "decide"
  /\ thread' = CASE ~m_pRefClock -> Out
                 [] m_pRefClock /\ m_FilterState = "State_Paused" ->
                      [thread EXCEPT !.at = "wait", !.until = INFINITE]
                 [] OTHER -> IF thread.start <= now THEN Out
                             ELSE [thread EXCEPT !.at = "wait", !.until = thread.start]
  /\ UNCHANGED <<state, request, extra, m_FilterState, m_bIsFlushing, m_StreamEvent, m_pRefClock,
                 now, calls, told>>

Wake ==
  /\ thread.at = "wait" /\ m_StreamEvent
  /\ m_StreamEvent' = FALSE
  /\ thread' = [thread EXCEPT !.at = "check", !.until = 0]
  /\ UNCHANGED <<state, request, extra, m_FilterState, m_bIsFlushing, m_pRefClock, now, calls, told>>

\* The wait is by the system's time: it ends whether the filter still runs or not.
TimeOut ==
  /\ thread.at = "wait" /\ thread.until # INFINITE
  /\ m_FilterState = "State_Running" => thread.until <= now
  /\ thread' = Out
  /\ UNCHANGED <<state, request, extra, m_FilterState, m_bIsFlushing, m_StreamEvent, m_pRefClock,
                 now, calls, told>>

-----------------------------------------------------------------------------
CheckStreamState == Check \/ CheckTimes \/ CheckExtra \/ SendExtra \/ Decide \/ Wake \/ TimeOut

\* A cookie of 0 asks for no notification: the application gives it for a stop only.
Next ==
  \/ \E t \in Times : StartAt(t, calls + 1)
  \/ \E t \in Times, c \in {0, calls + 1}, x \in BOOLEAN : StopAt(t, x, c)
  \/ StartNow \/ StartNever \/ StopNow \/ StopNever
  \/ StopFilter \/ PauseFilter \/ RunFilter \/ Flushing \/ SetSyncSource \/ Tick
  \/ \E t, u \in Times : t < u /\ Receive(t, u)
  \/ CheckStreamState

Spec == Init /\ [][Next]_vars /\ WF_vars(CheckStreamState) /\ WF_vars(Tick)

-----------------------------------------------------------------------------
(* Properties.                                                             *)

\* The rule of the comment above CheckSampleTimes: a request counts as inside the
\* sample from its first instant to before its end, of two at the same time the
\* start is first, and a sample is passed on if any part of it is to be.  Said
\* over the time line: it is, if the stream flows just before the sample, or a
\* start lies inside.
FlowsBefore(time) ==
  CASE m_tStopTime < time /\ ~ (m_tStopTime < m_tStartTime /\ m_tStartTime < time) -> FALSE
    [] m_tStartTime < time /\ ~ (m_tStopTime < time /\ m_tStartTime <= m_tStopTime) -> TRUE
    [] OTHER -> m_StreamState = Flowing

SentIfAnyPart ==
  [][thread.at = "times" /\ thread' # thread =>
       (thread'.at = "out" <=>
          \/ FlowsBefore(thread.start)
          \/ thread.start <= m_tStartTime /\ m_tStartTime < thread.stop)]_vars

\* A thread that holds a sample has been woken when there is a reason to look
\* again: a flush, a stop, a run, or a stream that flows.
HeldIsWoken ==
  thread.at = "wait" /\ (\/ m_bIsFlushing \/ Stopped \/ m_StreamState = Flowing
                         \/ thread.until = INFINITE /\ m_FilterState # "State_Paused") =>
    m_StreamEvent

\* No request is notified twice, one stop gives at most one extra sample, and a
\* stop to come is a stop indeed.
OnceEach ==
  /\ \A n \in 1..MaxCalls : told[n] <= 1
  /\ extras <= 1
  /\ m_StreamStateOnStop = Discarding <=> m_tStopTime # MAX_TIME

\* CheckStreamState returns, unless the filter is paused.
CheckReturns == thread.at # "out" ~> thread.at = "out" \/ m_FilterState = "State_Paused"

\* "if the first command is to stop in the future, then we assume they want to be
\* started when the graph is first run", and the other way round.
BeginsAsScheduled ==
  Stopped /\ m_tStartTime < MAX_TIME /\ m_tStopTime < MAX_TIME =>
    (m_StreamState = Flowing <=> m_tStopTime < m_tStartTime)

=============================================================================
