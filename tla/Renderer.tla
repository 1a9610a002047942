------------------------------ MODULE Renderer ------------------------------
(***************************************************************************)
(* CBaseRenderer and CRendererInputPin (renbase.cpp): the streaming thread *)
(* that brings samples and waits in Receive for their time, the threads    *)
(* that stop, pause, run and flush the filter, the clock that wakes the    *)
(* streaming thread, the timer that delays the end of the stream and the   *)
(* window that reports a change of the display.                            *)
(*                                                                         *)
(* A step is what a thread does under m_InterfaceLock, m_RendererLock or   *)
(* both, or between two of them.  Stop and BeginFlush keep what they have  *)
(* locked while they wait for Receive: these calls take two steps, and     *)
(* "holder" is the one in between.                                         *)
(*                                                                         *)
(* Rules of the graph, outside this code: the streaming thread is one      *)
(* thread; EndFlush, the activation of a stopped filter and the breaking   *)
(* of the connection come when that thread is out of Receive.              *)
(***************************************************************************)
EXTENDS Integers, FiniteSets

CONSTANTS
  MaxAdvise,  \* bound on the requests the clock holds at once
  MaxTimers   \* bound on the end of stream timers the system grants at once

ASSUME RendererAssumption == MaxAdvise \in Nat \ {0} /\ MaxTimers \in Nat

VARIABLES
  m_State, connected,
  m_bFlushing, m_bRunTimeError,  \* of the input pin
  m_pMediaSample,                \* a sample is held
  m_bInReceive, m_bEOS, m_bEOSDelivered, m_bStreaming, m_bAbort,
  complete,       \* m_evComplete: the change of state is complete
  threadSignal,   \* m_ThreadSignal: the streaming thread may not wait
  renderEvent,    \* m_RenderEvent, which resets itself
  m_dwAdvise,     \* the clock's cookie, or 0
  advised,        \* the cookies the clock still has to fire
  m_EndOfStreamTimer,
  timers,         \* timers that have not called back, killed ones that are
                  \* already calling included
  source,         \* where the streaming thread is
  holder,         \* the call that holds the locks while it waits
  finished,       \* auxiliary: EC_COMPLETE sent since streaming began
  due,            \* auxiliary: the sample held is due, or its time has come
  overtaken,      \* auxiliary: a call ran between two parts of the last Receive, or
                  \* this was woken by the request of another
  orphans         \* auxiliary: requests whose cookie has been overwritten

pinVars == <<m_bFlushing, m_bRunTimeError>>
eosVars == <<m_bEOS, m_bEOSDelivered, m_EndOfStreamTimer, timers, finished>>
clockVars == <<renderEvent, m_dwAdvise, advised>>
aux == <<overtaken, orphans>>
vars == <<m_State, connected, pinVars, m_pMediaSample, m_bInReceive, eosVars,
          m_bStreaming, m_bAbort, complete, threadSignal, clockVars, source,
          holder, due, overtaken, orphans>>

Cookies == 1..MaxAdvise

TypeOK ==
  /\ m_State \in {"Stopped", "Paused", "Running"}
  /\ holder \in {"nobody", "Stop", "Stopped", "Pause", "BeginFlush",
                 "flushed"}
  /\ source \in {"out", "prepared", "first", "readying", "waiting",
                 "fired", "awake", "refused", "interrupted"}
  /\ {connected, m_bFlushing, m_bRunTimeError, m_pMediaSample, m_bInReceive,
      m_bEOS, m_bEOSDelivered, m_bStreaming, m_bAbort, complete,
      threadSignal, renderEvent, m_EndOfStreamTimer, due, overtaken}
     \subseteq BOOLEAN
  /\ m_dwAdvise \in Cookies \cup {0}
  /\ advised \subseteq Cookies /\ orphans \subseteq advised
  /\ timers \in 0..MaxTimers /\ finished \in 0..2

Init ==
  /\ m_State = "Stopped" /\ connected = FALSE
  /\ m_bFlushing = FALSE /\ m_bRunTimeError = FALSE
  /\ m_pMediaSample = FALSE /\ m_bInReceive = FALSE
  /\ m_bEOS = FALSE /\ m_bEOSDelivered = FALSE
  /\ m_EndOfStreamTimer = FALSE /\ timers = 0
  /\ m_bStreaming = FALSE /\ m_bAbort = FALSE
  /\ complete = TRUE /\ threadSignal = FALSE
  /\ renderEvent = FALSE /\ m_dwAdvise = 0 /\ advised = {}
  /\ source = "out" /\ holder = "nobody"
  /\ finished = 0 /\ due = FALSE /\ overtaken = FALSE /\ orphans = {}

\* m_InterfaceLock is free, and m_RendererLock is.
Unlocked == holder = "nobody"
RendererUnlocked == holder # "BeginFlush"

\* CBaseInputPin::CheckStreaming.
CheckStreaming ==
  connected /\ m_State # "Stopped" /\ ~m_bFlushing /\ ~m_bRunTimeError

-----------------------------------------------------------------------------
(* The clock, the sample and the end of the stream.                        *)

\* Fault: the request to the clock is forgotten, not withdrawn.
CancelForgets ==
  /\ advised' = advised
  /\ m_dwAdvise' = 0
  /\ renderEvent' = FALSE

\* CancelNotification and SignalTimerFired.
CancelNotification ==
  /\ advised' = advised \ {m_dwAdvise}
  /\ m_dwAdvise' = 0
  /\ renderEvent' = FALSE

\* ScheduleSample: at once when there is no clock or the sample is due, else
\* by a request to the clock.
ScheduleSample ==
  \/ /\ renderEvent' = TRUE
     /\ due' = TRUE
     /\ UNCHANGED <<m_dwAdvise, advised>>
  \/ \E c \in Cookies \ advised :
       /\ m_dwAdvise' = c
       /\ advised' = advised \cup {c}
       /\ due' = FALSE
       /\ UNCHANGED renderEvent

\* NotifyEndOfStream; no caller of a filter that does not stream has a timer.
NotifyEndOfStream(streaming) ==
  /\ m_EndOfStreamTimer' = FALSE
  /\ IF streaming
     THEN m_bEOSDelivered' = TRUE /\ finished' = finished + 1
     ELSE UNCHANGED <<m_bEOSDelivered, finished>>

\* Fault: what has been delivered, or is under way, is sent once more.
SendAgain(eos, streaming, set, left) ==
  IF ~eos
  THEN /\ m_EndOfStreamTimer' = set
       /\ timers' = left
       /\ UNCHANGED <<m_bEOSDelivered, finished>>
  ELSE \/ /\ NotifyEndOfStream(streaming)
          /\ timers' = left
       \/ /\ left < MaxTimers
          /\ m_EndOfStreamTimer' = TRUE
          /\ timers' = left + 1
          /\ UNCHANGED <<m_bEOSDelivered, finished>>

\* SendEndOfStream: now, or when a timer says that the last sample has been
\* shown.  "set" is m_EndOfStreamTimer and "left" are the timers as the
\* caller leaves them.
SendEndOfStream(eos, streaming, set, left) ==
  IF ~eos \/ m_bEOSDelivered \/ set
  THEN /\ m_EndOfStreamTimer' = set
       /\ timers' = left
       /\ UNCHANGED <<m_bEOSDelivered, finished>>
  ELSE \/ /\ NotifyEndOfStream(streaming)
          /\ timers' = left
       \/ /\ left < MaxTimers
          /\ m_EndOfStreamTimer' = TRUE
          /\ timers' = left + 1
          /\ UNCHANGED <<m_bEOSDelivered, finished>>

\* ResetEndOfStreamTimer: a callback under way is not called back.
ResetEndOfStreamTimer ==
  /\ m_EndOfStreamTimer' = FALSE
  /\ timers' \in IF m_EndOfStreamTimer THEN {timers - 1, timers} ELSE {timers}

\* ResetEndOfStream.
ResetEndOfStream ==
  /\ ResetEndOfStreamTimer
  /\ m_bEOS' = FALSE /\ m_bEOSDelivered' = FALSE
  /\ finished' = 0

\* TimerCallback.
TimerCallback ==
  /\ timers > 0 /\ RendererUnlocked
  /\ IF m_EndOfStreamTimer
     THEN SendEndOfStream(m_bEOS, m_bStreaming, FALSE, timers - 1)
     ELSE /\ timers' = timers - 1
          /\ UNCHANGED <<m_bEOSDelivered, m_EndOfStreamTimer, finished>>
  /\ UNCHANGED <<m_State, connected, pinVars, m_pMediaSample, m_bInReceive,
                 m_bEOS, m_bStreaming, m_bAbort, complete, threadSignal,
                 clockVars, source, holder, due, aux>>

\* The clock fires one of its requests.
ClockFires(c) ==
  /\ c \in advised
  /\ advised' = advised \ {c}
  /\ renderEvent' = TRUE
  /\ due' = (due \/ c = m_dwAdvise)
  /\ overtaken' = (overtaken \/ c \in orphans)
  /\ orphans' = orphans \ {c}
  /\ UNCHANGED <<m_State, connected, pinVars, m_pMediaSample, m_bInReceive,
                 eosVars, m_bStreaming, m_bAbort, complete, threadSignal,
                 m_dwAdvise, source, holder>>

-----------------------------------------------------------------------------
(* The streaming thread in Receive.                                        *)

\* PrepareReceive.  A sample that comes too late to be shown is dropped and
\* nothing changes.
PrepareReceive ==
  /\ source = "out" /\ Unlocked /\ connected
  /\ \/ /\ ~CheckStreaming  \* what it answers is turned into E_FAIL
        /\ source' = "interrupted"
        /\ UNCHANGED <<m_bRunTimeError, m_pMediaSample, m_bInReceive,
                       complete, clockVars, due, overtaken>>
     \/ /\ CheckStreaming  \* a change of type that CheckMediaType refuses
        /\ m_bRunTimeError' = TRUE
        /\ source' = "interrupted"
        /\ UNCHANGED <<m_pMediaSample, m_bInReceive, complete, clockVars, due, overtaken>>
     \/ /\ CheckStreaming  \* a change of type that SetMediaType refuses
        /\ source' = "refused"
        /\ UNCHANGED <<m_bRunTimeError, m_pMediaSample, m_bInReceive,
                       complete, clockVars, due, overtaken>>
     \/ /\ CheckStreaming
        /\ m_pMediaSample \/ m_bEOS \/ m_bAbort
        /\ complete' = TRUE
        /\ source' = "refused"
        /\ UNCHANGED <<m_bRunTimeError, m_pMediaSample, m_bInReceive,
                       clockVars, due, overtaken>>
     \/ /\ CheckStreaming
        /\ ~m_pMediaSample /\ ~m_bEOS /\ ~m_bAbort
        /\ IF m_bStreaming
           THEN ScheduleSample
           ELSE due' = FALSE /\ UNCHANGED clockVars
        /\ overtaken' = renderEvent  \* an orphan's
        /\ m_pMediaSample' = TRUE
        /\ m_bInReceive' = TRUE
        /\ source' = "prepared"
        /\ UNCHANGED <<m_bRunTimeError, complete>>
  /\ UNCHANGED <<m_State, connected, m_bFlushing, eosVars, m_bStreaming,
                 m_bAbort, threadSignal, holder, orphans>>

sourceOnly == <<m_State, connected, pinVars, m_pMediaSample, eosVars,
                m_bStreaming, m_bAbort, threadSignal, holder, due, overtaken>>

\* Receive reads m_State without a lock.
Prepared ==
  /\ source = "prepared"
  /\ IF m_State = "Paused"
     THEN source' = "first" /\ m_bInReceive' = FALSE
     ELSE source' = "waiting" /\ UNCHANGED m_bInReceive
  /\ UNCHANGED <<sourceOnly, orphans, complete, clockVars>>

\* The first sample since the filter was paused is shown, under the lock.
FirstSample ==
  /\ source = "first" /\ Unlocked
  /\ IF m_State = "Stopped"
     THEN source' = "out" /\ UNCHANGED m_bInReceive
     ELSE source' = "readying" /\ m_bInReceive' = TRUE
  /\ UNCHANGED <<sourceOnly, orphans, complete, clockVars>>

Ready ==
  /\ source = "readying"
  /\ complete' = TRUE
  /\ source' = "waiting"
  /\ UNCHANGED <<sourceOnly, orphans, m_bInReceive, clockVars>>

\* WaitForRenderTime, with what Receive does when it fails.
WaitForRenderTime ==
  /\ source = "waiting"
  /\ IF threadSignal
     THEN /\ source' = "out"
          /\ m_bInReceive' = FALSE
          /\ UNCHANGED clockVars
     ELSE /\ renderEvent
          /\ renderEvent' = FALSE
          /\ source' = "fired"
          /\ UNCHANGED <<m_bInReceive, m_dwAdvise, advised>>
  /\ UNCHANGED <<sourceOnly, orphans, complete>>

\* SignalTimerFired, no lock held; then Receive goes for the lock.
SignalTimerFired ==
  /\ source = "fired"
  /\ m_dwAdvise' = 0
  /\ orphans' = orphans \cup ({m_dwAdvise} \cap advised)
  /\ m_bInReceive' = FALSE
  /\ source' = "awake"
  /\ UNCHANGED <<sourceOnly, complete, renderEvent, advised>>

\* Render, ClearPendingSample, SendEndOfStream and CancelNotification.
RenderSample ==
  /\ source = "awake" /\ Unlocked
  /\ source' = "out"
  /\ IF m_State = "Stopped"
     THEN UNCHANGED <<m_pMediaSample, eosVars, clockVars>>
     ELSE /\ m_pMediaSample' = FALSE
          /\ SendEndOfStream(m_bEOS, m_bStreaming, m_EndOfStreamTimer, timers)
          /\ CancelNotification
          /\ UNCHANGED m_bEOS
  /\ UNCHANGED <<m_State, connected, pinVars, m_bInReceive, m_bStreaming,
                 m_bAbort, complete, threadSignal, holder, due, aux>>

\* CRendererInputPin::Receive when CBaseRenderer::Receive has failed:
\* EC_ERRORABORT, and EC_COMPLETE when it has not been sent.
ReceiveFails ==
  /\ source \in {"refused", "interrupted"} /\ Unlocked
  /\ IF m_State # "Stopped" /\ ~m_bFlushing /\ ~m_bAbort /\ ~m_bRunTimeError
     THEN /\ m_bRunTimeError' = TRUE
          /\ IF m_bStreaming /\ ~m_bEOSDelivered
             THEN NotifyEndOfStream(TRUE)
             ELSE UNCHANGED <<m_bEOSDelivered, m_EndOfStreamTimer, finished>>
     ELSE UNCHANGED <<m_bRunTimeError, m_bEOSDelivered, m_EndOfStreamTimer,
                      finished>>
  /\ source' = "out"
  /\ UNCHANGED <<m_State, connected, m_bFlushing, m_pMediaSample, m_bInReceive,
                 m_bEOS, timers, m_bStreaming, m_bAbort, complete,
                 threadSignal, clockVars, holder, due, aux>>

\* EndOfStream, on the streaming thread.
EndOfStream ==
  /\ source = "out" /\ Unlocked /\ CheckStreaming
  /\ m_bEOS' = TRUE
  /\ complete' = (complete \/ ~m_pMediaSample)
  /\ IF ~m_pMediaSample /\ m_bStreaming
     THEN SendEndOfStream(TRUE, TRUE, m_EndOfStreamTimer, timers)
     ELSE UNCHANGED <<m_bEOSDelivered, m_EndOfStreamTimer, timers, finished>>
  /\ UNCHANGED <<m_State, connected, pinVars, m_pMediaSample, m_bInReceive,
                 m_bStreaming, m_bAbort, threadSignal, clockVars, source,
                 holder, due, aux>>

-----------------------------------------------------------------------------
(* The calls of the graph and of the application.                          *)

\* CompleteStateChange, where "held" is whether there is a sample.
CompleteStateChange(old, held) ==
  complete' = (~connected \/ m_bEOS \/ (held /\ old # "Stopped"))

\* Fault: what has happened while the filter was paused is not caught up with.
StartForgetful(held) ==
  /\ m_bStreaming' = TRUE
  /\ UNCHANGED <<eosVars, due, clockVars>>

\* StartStreaming, of a filter that was not streaming.
StartStreaming(held) ==
  /\ m_bStreaming' = TRUE
  /\ IF held
     THEN /\ ScheduleSample
          /\ UNCHANGED <<m_bEOSDelivered, m_EndOfStreamTimer, timers, finished>>
     ELSE /\ SendEndOfStream(m_bEOS, TRUE, m_EndOfStreamTimer, timers)
          /\ UNCHANGED <<due, clockVars>>
  /\ UNCHANGED m_bEOS

\* Stop, Pause and Run of a filter whose pin is not connected; Run sends
\* EC_COMPLETE, which is all this filter will ever do.
Unconnected(state) ==
  /\ Unlocked /\ ~connected
  /\ m_State' = state
  /\ complete' = (complete \/ state = "Paused")
  /\ UNCHANGED <<connected, pinVars, m_pMediaSample, m_bInReceive, eosVars,
                 m_bStreaming, m_bAbort, threadSignal, clockVars, source,
                 holder, due, aux>>

\* Stop, up to StopStreaming; a timer's callback may come in between.
Stop ==
  /\ Unlocked /\ connected /\ m_State # "Stopped"
  /\ m_State' = "Stopped"
  /\ m_bRunTimeError' = FALSE /\ m_pMediaSample' = FALSE  \* Inactive
  /\ m_bStreaming' = FALSE /\ m_bEOSDelivered' = FALSE /\ finished' = 0
  /\ holder' = "Stop"
  /\ UNCHANGED <<connected, m_bFlushing, m_bInReceive, m_bEOS,
                 m_EndOfStreamTimer, timers, m_bAbort, complete, threadSignal,
                 clockVars, source, due, aux>>

\* The rest of Stop, up to WaitForReceiveToComplete.
StopWakes ==
  /\ holder = "Stop"
  /\ threadSignal' = TRUE
  /\ ResetEndOfStream
  /\ CancelNotification
  /\ complete' = TRUE
  /\ holder' = "Stopped"
  /\ UNCHANGED <<m_State, connected, pinVars, m_pMediaSample, m_bInReceive,
                 m_bStreaming, m_bAbort, source, due, aux>>

StopReturns ==
  /\ holder = "Stopped" /\ ~m_bInReceive
  /\ m_bAbort' = FALSE
  /\ holder' = "nobody"
  /\ UNCHANGED <<m_State, connected, pinVars, m_pMediaSample, m_bInReceive,
                 eosVars, m_bStreaming, complete, threadSignal, clockVars,
                 source, due, aux>>

\* Pause of a filter that was stopped, also on its way to run; "streaming"
\* says whether it goes on.
Activate(state) ==
  /\ Unlocked /\ connected /\ m_State = "Stopped" /\ source = "out"
  /\ m_State' = state
  /\ m_bStreaming' = (state = "Running")
  /\ threadSignal' = FALSE
  /\ CancelNotification
  /\ ResetEndOfStreamTimer
  /\ m_bEOSDelivered' = FALSE /\ finished' = 0
  /\ m_bAbort' = FALSE
  /\ m_pMediaSample' = FALSE
  /\ CompleteStateChange("Stopped", m_pMediaSample)
  /\ UNCHANGED <<connected, pinVars, m_bInReceive, m_bEOS, source, holder, due,
                 aux>>

\* Pause of a filter that runs, up to StopStreaming.
Pause ==
  /\ Unlocked /\ connected /\ m_State = "Running"
  /\ m_State' = "Paused"
  /\ m_bStreaming' = FALSE /\ m_bEOSDelivered' = FALSE /\ finished' = 0
  /\ holder' = "Pause"
  /\ UNCHANGED <<connected, pinVars, m_pMediaSample, m_bInReceive, m_bEOS,
                 m_EndOfStreamTimer, timers, m_bAbort, complete, threadSignal,
                 clockVars, source, due, aux>>

PauseReturns ==
  /\ holder = "Pause"
  /\ threadSignal' = FALSE
  /\ CancelNotification
  /\ ResetEndOfStreamTimer
  /\ CompleteStateChange("Running", m_pMediaSample)
  /\ holder' = "nobody"
  /\ overtaken' = (overtaken \/ source \in {"fired", "awake"})
  /\ UNCHANGED <<m_State, connected, pinVars, m_pMediaSample, m_bInReceive,
                 m_bEOS, m_bEOSDelivered, finished, m_bStreaming, m_bAbort,
                 source, due, orphans>>

\* Pause of a filter that is paused.
PauseAgain ==
  /\ Unlocked /\ connected /\ m_State = "Paused"
  /\ CompleteStateChange("Paused", m_pMediaSample)
  /\ UNCHANGED <<m_State, connected, pinVars, m_pMediaSample, m_bInReceive,
                 eosVars, m_bStreaming, m_bAbort, threadSignal, clockVars,
                 source, holder, due, aux>>

\* Run of a filter that is paused.
Run ==
  /\ Unlocked /\ connected /\ m_State = "Paused"
  /\ m_State' = "Running"
  /\ complete' = TRUE
  /\ threadSignal' = FALSE
  /\ StartStreaming(m_pMediaSample)
  /\ UNCHANGED <<connected, pinVars, m_pMediaSample, m_bInReceive, m_bAbort,
                 source, holder, aux>>

\* Fault: the flush empties the filter and does not say so.
FlushKeepsReady ==
  /\ Unlocked /\ connected /\ ~m_bFlushing
  /\ m_bFlushing' = TRUE
  /\ threadSignal' = TRUE
  /\ CancelNotification
  /\ m_pMediaSample' = FALSE
  /\ holder' = "BeginFlush"
  /\ overtaken' = (overtaken \/ source \in {"prepared", "first", "readying"})
  /\ UNCHANGED <<m_State, connected, m_bRunTimeError, m_bInReceive, eosVars,
                 m_bStreaming, m_bAbort, complete, source, due, orphans>>

\* BeginFlush, up to WaitForReceiveToComplete.
BeginFlush ==
  /\ Unlocked /\ connected /\ ~m_bFlushing
  /\ m_bFlushing' = TRUE
  /\ complete' = (complete /\ m_State # "Paused")
  /\ threadSignal' = TRUE
  /\ CancelNotification
  /\ m_pMediaSample' = FALSE
  /\ holder' = "BeginFlush"
  /\ overtaken' = (overtaken \/ source \in {"prepared", "first", "readying"})
  /\ UNCHANGED <<m_State, connected, m_bRunTimeError, m_bInReceive, eosVars,
                 m_bStreaming, m_bAbort, source, due, orphans>>

\* m_RendererLock is released, then ResetEndOfStream is called.
FlushWaited ==
  /\ holder = "BeginFlush" /\ ~m_bInReceive
  /\ holder' = "flushed"
  /\ UNCHANGED <<m_State, connected, pinVars, m_pMediaSample, m_bInReceive,
                 eosVars, m_bStreaming, m_bAbort, complete, threadSignal,
                 clockVars, source, due, aux>>

FlushReturns ==
  /\ holder = "flushed"
  /\ ResetEndOfStream
  /\ holder' = "nobody"
  /\ UNCHANGED <<m_State, connected, pinVars, m_pMediaSample, m_bInReceive,
                 m_bStreaming, m_bAbort, complete, threadSignal, clockVars,
                 source, due, aux>>

EndFlush ==
  /\ Unlocked /\ connected /\ m_bFlushing /\ source = "out"
  /\ m_bFlushing' = FALSE /\ m_bRunTimeError' = FALSE
  /\ threadSignal' = FALSE
  /\ UNCHANGED <<m_State, connected, m_pMediaSample, m_bInReceive, eosVars,
                 m_bStreaming, m_bAbort, complete, clockVars, source, holder,
                 due, aux>>

\* CompleteConnect and BreakConnect; a pin is not connected while active.
CompleteConnect ==
  /\ Unlocked /\ ~connected /\ m_State = "Stopped"
  /\ connected' = TRUE
  /\ m_bAbort' = FALSE
  /\ UNCHANGED <<m_State, pinVars, m_pMediaSample, m_bInReceive, eosVars,
                 m_bStreaming, complete, threadSignal, clockVars, source,
                 holder, due, aux>>

BreakConnect ==
  /\ Unlocked /\ connected /\ m_State = "Stopped" /\ source = "out"
  /\ connected' = FALSE
  /\ ResetEndOfStream
  /\ m_pMediaSample' = FALSE
  /\ m_bAbort' = FALSE
  /\ UNCHANGED <<m_State, pinVars, m_bInReceive, m_bStreaming, complete,
                 threadSignal, clockVars, source, holder, due, aux>>

\* OnDisplayChange, on the window's thread: only m_RendererLock is taken.
OnDisplayChange ==
  /\ RendererUnlocked /\ connected
  /\ m_bAbort' = TRUE
  /\ m_pMediaSample' = FALSE
  /\ UNCHANGED <<m_State, connected, pinVars, m_bInReceive, eosVars,
                 m_bStreaming, complete, threadSignal, clockVars, source,
                 holder, due, aux>>

-----------------------------------------------------------------------------

ReceiveStep ==
  \/ Prepared \/ FirstSample \/ Ready \/ WaitForRenderTime
  \/ SignalTimerFired \/ RenderSample \/ ReceiveFails

Return == StopWakes \/ StopReturns \/ PauseReturns \/ FlushWaited \/ FlushReturns

Next ==
  \/ PrepareReceive \/ ReceiveStep \/ EndOfStream
  \/ \E c \in Cookies : ClockFires(c)
  \/ TimerCallback
  \/ \E state \in {"Stopped", "Paused", "Running"} : Unconnected(state)
  \/ Activate("Paused") \/ Activate("Running")
  \/ Pause \/ PauseAgain \/ Run \/ Stop \/ Return
  \/ BeginFlush \/ EndFlush
  \/ CompleteConnect \/ BreakConnect
  \/ OnDisplayChange

Spec == Init /\ [][Next]_vars

\* Threads run; a lock that is released again and again is not always lost
\* (Windows critical sections have no order, the system's scheduler ages the
\* threads that wait); the clock's time and the timers' passes.
FairSpec ==
  /\ Spec
  /\ SF_vars(ReceiveStep) /\ WF_vars(Return)
  /\ \A c \in Cookies : WF_vars(ClockFires(c))
  /\ SF_vars(TimerCallback)

-----------------------------------------------------------------------------
(* Properties.                                                             *)

\* A filter that has been stopped holds no sample, no request to the clock and
\* no promise to end a stream, whatever the streaming thread was doing: no
\* Receive that was under way when Stop returned (WaitForReceiveToComplete)
\* may act as if the filter were still active.
StoppedHoldsNothing ==
  m_State = "Stopped" /\ connected /\ Unlocked =>
    /\ ~m_pMediaSample /\ ~m_bEOS /\ ~m_bStreaming
    /\ m_dwAdvise = 0
    /\ ~m_bInReceive

\* EC_COMPLETE is sent at most once for one end of the stream, although the
\* streaming thread, the timer's thread, Run and the error path all send it
\* (SendEndOfStream, CRendererInputPin::Receive).
CompleteOnce == finished <= 1

\* EC_COMPLETE for the end of the stream never passes a sample that is still
\* held, and is not sent by a filter that does not stream.
CompleteIsLast ==
  [][finished' > finished /\ m_bRunTimeError' = m_bRunTimeError
       => ~m_pMediaSample' /\ m_bStreaming' /\ m_bEOS']_vars

\* A request to the clock that has not fired is the one in m_dwAdvise, so that
\* it can be withdrawn, and there is never a second one.  The exceptions are those
\* that SignalTimerFired takes from it: after a Pause and a Run that come between
\* the end of the wait and it, it overwrites the cookie of the new request.
AdviseOwned == advised \ orphans \subseteq {m_dwAdvise}

\* A running filter shows a sample when the clock has said that its time has come,
\* and not on an event that was set for another one.  It does show one early if a
\* Pause and a Run came after the end of its wait and before Receive had the lock, or
\* if a request whose cookie was lost so fired in its time: "overtaken", which the
\* next sample is not.
NotEarly ==
  [][RenderSample /\ m_State # "Stopped" /\ m_pMediaSample /\ m_bStreaming
       => due \/ overtaken]_vars

\* A paused filter that says its change of state is complete has a sample to
\* show or has seen the end of the stream (CompleteStateChange, Receive,
\* BeginFlush).  It says so without one if a flush came while Receive was on its way
\* to the lock or to Ready, or a Pause after its wait, and does so up to the next
\* sample: "overtaken".
ReadyMeansCued ==
  m_State = "Paused" /\ connected /\ complete /\ Unlocked
    => m_pMediaSample \/ m_bEOS \/ m_bAbort \/ overtaken

\* Over stops, pauses, runs, flushes and disconnections that meet Receive and
\* the timers in any order: a stopped renderer holds no sample and waits for no
\* time, it completes a stream once, can withdraw what it asked of the clock but for
\* the orphans, and is cued only with a sample in hand but after an overtaken Receive.
RendererKept == StoppedHoldsNothing /\ CompleteOnce /\ AdviseOwned /\ ReadyMeansCued

\* The comment at BeginFlush: "If paused then report state intermediate until
\* we get some data".
FlushedIsIntermediate ==
  m_State = "Paused" /\ m_bFlushing /\ Unlocked /\ connected
    => ~complete \/ m_bAbort

\* Neither a stop nor a flush that ends a Receive is reported as an error.
NoSpuriousAbort ==
  [][m_bRunTimeError' /\ ~m_bRunTimeError => m_State # "Stopped" /\ ~m_bFlushing]_vars

\* Stop and BeginFlush return: what Receive does while they hold the locks
\* never needs these (WaitForReceiveToComplete, RelockWindow).
CallsReturn == ~Unlocked ~> Unlocked

\* The streaming thread does not wait for ever in a filter that streams.  It
\* would if a Run undid the signal of a flush that came between m_bInReceive
\* going down and the lock being taken again in Receive: "overtaken".
SampleIsShown ==
  (source = "waiting" /\ m_bStreaming)
    ~> (source # "waiting" \/ ~m_bStreaming \/ m_bAbort \/ overtaken)

\* A filter that streams and has seen the end of the stream says so.
EndIsDelivered ==
  (m_bEOS /\ m_bStreaming)
    ~> (m_bEOSDelivered \/ ~m_bEOS \/ ~m_bStreaming)

=============================================================================
