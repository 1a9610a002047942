-------------------------- MODULE Rendering_proofs --------------------------
(***************************************************************************)
(* Proofs about the renderer, about the clock that wakes it and about the  *)
(* two side by side, for every value of the constants.                     *)
(*                                                                         *)
(* Of the renderer, Inv is inductive: it says, for every place the         *)
(* streaming thread and the calls can be in, what Receive has announced    *)
(* (PlaceInv), who may still hold the sample (HeldInv), what a stop has    *)
(* taken away (StopInv), that the end of the stream is counted and has its *)
(* timer (EndInv), which requests the clock has (OwnedInv), whose time it  *)
(* is waiting for (ClockInv) and what a paused filter has to show          *)
(* (CuedInv).                                                              *)
(*                                                                         *)
(* Of the clock, ClockWhole is inductive: the counter read before differs  *)
(* from the counter now by what went by since, modulo its range (TimeInv), *)
(* the list is in order and its cookies are counted and not withdrawn      *)
(* (ListInv), and the thread's sleep ends in time for its head (SleepInv). *)
(***************************************************************************)
EXTENDS MCRendering, FiniteSetTheorems, SequenceTheorems, TLAPS

(***************************************************************************)
(* The renderer                                                            *)
(***************************************************************************)
IsBoolean(b) == b = TRUE \/ b = FALSE

TypeInv ==
  /\ m_State \in {"Stopped", "Paused", "Running"}
  /\ holder \in {"nobody", "Stop", "Stopped", "Pause", "BeginFlush",
                 "flushed"}
  /\ source \in {"out", "prepared", "first", "readying", "waiting",
                 "fired", "awake", "refused", "interrupted"}
  /\ m_dwAdvise \in Cookies \cup {0} /\ advised \subseteq Cookies
  /\ timers \in 0..MaxTimers

FlagInv ==
  /\ IsBoolean(connected) /\ IsBoolean(m_bFlushing)
  /\ IsBoolean(m_bRunTimeError) /\ IsBoolean(m_pMediaSample)
  /\ IsBoolean(m_bInReceive) /\ IsBoolean(m_bEOS)
  /\ IsBoolean(m_bEOSDelivered) /\ IsBoolean(m_bStreaming)
  /\ IsBoolean(m_bAbort) /\ IsBoolean(complete)
  /\ IsBoolean(threadSignal) /\ IsBoolean(renderEvent)
  /\ IsBoolean(m_EndOfStreamTimer) /\ IsBoolean(due) /\ IsBoolean(overtaken)

\* Where Receive is while it has announced itself or is between two locks with
\* a sample to show.
Pending == {"prepared", "first", "readying", "waiting"}
Cueing == {"prepared", "first", "readying"}

\* m_bInReceive covers Receive from PrepareReceive to the end of the wait, but
\* not while it takes m_InterfaceLock again; only a filter that runs streams.
PlaceInv ==
  /\ m_bInReceive <=> source \in {"prepared", "readying", "waiting", "fired"}
  /\ ~connected => source = "out" /\ holder = "nobody"
  /\ m_bStreaming => m_State = "Running" /\ connected
  /\ holder \in {"Stop", "Stopped"} => m_State = "Stopped"
  /\ holder = "Pause" => m_State = "Paused"

\* A sample is held by a Receive that is still to show it, and by none once the
\* filter is stopped or flushed: what wakes that Receive is then set.
HeldInv ==
  /\ m_State = "Stopped" \/ ~connected \/ m_bFlushing => ~m_pMediaSample
  /\ m_pMediaSample => source \in Pending \cup {"fired", "awake"}
  /\ threadSignal => m_bFlushing \/ m_State = "Stopped" \/ ~connected

\* What Stop has taken away does not come back until the filter is active.
StopInv ==
  /\ (m_State = "Stopped" /\ holder \notin {"Stop", "Stopped"}) \/ ~connected
       => ~m_bEOS /\ m_dwAdvise = 0 /\ ~m_bInReceive
  /\ holder = "Stopped" => ~m_bEOS /\ m_dwAdvise = 0

\* EC_COMPLETE has been sent when m_bEOSDelivered says so, and the timer that is
\* to send it belongs to a stream that has ended, with no sample left.
EndInv ==
  /\ finished = IF m_bEOSDelivered THEN 1 ELSE 0
  /\ m_EndOfStreamTimer => timers > 0 /\ m_bEOS /\ ~m_pMediaSample

\* Besides the orphans the clock has the request m_dwAdvise, which is none of them.
OwnedInv ==
  /\ orphans \subseteq advised /\ m_dwAdvise \notin orphans
  /\ \A c \in advised : c = m_dwAdvise \/ c \in orphans

\* It has that request for a Receive that waits or is about to; and unless this
\* Receive was overtaken the event that it sets is about its sample.
Asked == m_dwAdvise \in advised

ClockInv ==
  /\ Asked => /\ source \in Pending \cup {"fired", "awake"} /\ ~threadSignal
              /\ m_bStreaming \/ holder \in {"Stop", "Pause"}
  /\ ~overtaken =>
       /\ ~Asked \/ ~renderEvent
       /\ Asked \/ renderEvent =>
            /\ source \in Pending /\ ~threadSignal
            /\ m_bStreaming \/ holder \in {"Stop", "Pause"}
       /\ renderEvent \/ source \in {"fired", "awake"} => due
       /\ m_State = "Paused" /\ holder # "Pause" => source \notin {"fired", "awake"}

\* A Receive that is about to say that the filter is cued still has its sample;
\* a flush that took it has overtaken that Receive or made the state incomplete.
CuedInv ==
  /\ ReadyMeansCued
  /\ source \in Cueing /\ m_State # "Stopped" =>
       m_pMediaSample \/ m_bAbort \/ overtaken
  /\ holder \in {"BeginFlush", "flushed"} =>
       /\ source \in Cueing => overtaken
       /\ m_State = "Paused" /\ complete => overtaken

Inv ==
  /\ TypeInv /\ FlagInv /\ PlaceInv /\ HeldInv /\ StopInv /\ EndInv
  /\ OwnedInv /\ ClockInv /\ CuedInv

-----------------------------------------------------------------------------

\* A step keeps the places, the cookies and the number of timers.
LEMMA TypesStep ==
  ASSUME Inv, Next
  PROVE  TypeInv'
<1> USE RendererAssumption DEF Inv, TypeInv, FlagInv, IsBoolean, clockVars, aux,
        eosVars, pinVars, Unlocked, Cookies, EndInv
<1>1. CASE Prepared \/ FirstSample \/ Ready \/ WaitForRenderTime \/
            SignalTimerFired
  BY <1>1 DEF Prepared, FirstSample, Ready, WaitForRenderTime,
     SignalTimerFired, sourceOnly
<1>2. CASE PrepareReceive
  BY <1>2 DEF PrepareReceive, ScheduleSample, CheckStreaming
<1>3. CASE EndOfStream
  <2>1. timers' \in 0..MaxTimers
    BY <1>3 DEF EndOfStream, SendEndOfStream, NotifyEndOfStream, CheckStreaming
  <2> QED BY <1>3, <2>1 DEF EndOfStream, SendEndOfStream, NotifyEndOfStream,
             CheckStreaming
<1>4. CASE RenderSample
  <2>1. timers' \in 0..MaxTimers
    BY <1>4 DEF RenderSample, SendEndOfStream, NotifyEndOfStream,
       CancelNotification
  <2> QED BY <1>4, <2>1 DEF RenderSample, SendEndOfStream, NotifyEndOfStream,
             CancelNotification
<1>5. CASE ReceiveFails
  BY <1>5 DEF ReceiveFails, NotifyEndOfStream
<1>6. CASE TimerCallback
  <2>1. timers' \in 0..MaxTimers
    BY <1>6 DEF TimerCallback, SendEndOfStream, NotifyEndOfStream,
       RendererUnlocked
  <2> QED BY <1>6, <2>1 DEF TimerCallback, SendEndOfStream, NotifyEndOfStream,
             RendererUnlocked
<1>7. CASE Run
  <2>1. timers' \in 0..MaxTimers
    BY <1>7 DEF Run, StartStreaming, ScheduleSample, SendEndOfStream,
       NotifyEndOfStream
  <2> QED BY <1>7, <2>1 DEF Run, StartStreaming, ScheduleSample,
          SendEndOfStream,
             NotifyEndOfStream
<1>8. CASE \E c \in Cookies : ClockFires(c)
  BY <1>8 DEF ClockFires
<1>9. CASE \E state \in {"Stopped", "Paused", "Running"} : Unconnected(state)
  BY <1>9 DEF Unconnected
<1>10. CASE StopWakes \/ StopReturns \/ PauseReturns \/ FlushWaited \/
            FlushReturns
  <2>1. timers' \in 0..MaxTimers
    BY <1>10 DEF StopWakes, StopReturns, PauseReturns, FlushWaited,
       FlushReturns,
       ResetEndOfStream, ResetEndOfStreamTimer, CancelNotification,
       CompleteStateChange
  <2> QED BY <1>10, <2>1 DEF StopWakes, StopReturns, PauseReturns, FlushWaited,
             FlushReturns, ResetEndOfStream, ResetEndOfStreamTimer,
             CancelNotification, CompleteStateChange
<1>11. CASE Activate("Paused") \/ Activate("Running")
  <2>1. timers' \in 0..MaxTimers
    BY <1>11 DEF Activate, ResetEndOfStreamTimer, CancelNotification,
       CompleteStateChange
  <2> QED BY <1>11, <2>1 DEF Activate, ResetEndOfStreamTimer,
          CancelNotification,
             CompleteStateChange
<1>12. CASE Pause \/ PauseAgain \/ Stop \/ BeginFlush \/ EndFlush
  BY <1>12 DEF Pause, PauseAgain, Stop, BeginFlush, EndFlush,
     CompleteStateChange, CancelNotification
<1>13. CASE CompleteConnect \/ BreakConnect \/ OnDisplayChange
  <2>1. timers' \in 0..MaxTimers
    BY <1>13 DEF CompleteConnect, BreakConnect, OnDisplayChange,
       ResetEndOfStream,
       ResetEndOfStreamTimer, RendererUnlocked
  <2> QED BY <1>13, <2>1 DEF CompleteConnect, BreakConnect, OnDisplayChange,
             ResetEndOfStream, ResetEndOfStreamTimer, RendererUnlocked
<1> QED BY <1>1, <1>2, <1>3, <1>4, <1>5, <1>6, <1>7, <1>8, <1>9, <1>10, <1>11,
         <1>12, <1>13 DEF Next, ReceiveStep, Return

\* It keeps the flags Booleans.
LEMMA FlagsStep ==
  ASSUME Inv, Next
  PROVE  FlagInv'
<1> USE DEF Inv, TypeInv, FlagInv, IsBoolean, clockVars, aux, eosVars, pinVars,
        PlaceInv
<1>1. CASE Prepared \/ FirstSample \/ Ready \/ WaitForRenderTime \/
            SignalTimerFired
  BY <1>1 DEF Prepared, FirstSample, Ready, WaitForRenderTime,
     SignalTimerFired, sourceOnly
<1>2. CASE RenderSample \/ ReceiveFails \/ TimerCallback
  BY <1>2 DEF RenderSample, ReceiveFails, TimerCallback, SendEndOfStream,
     NotifyEndOfStream, CancelNotification, RendererUnlocked
<1>3. CASE PrepareReceive \/ EndOfStream
  BY <1>3 DEF PrepareReceive, EndOfStream, ScheduleSample, CheckStreaming,
     SendEndOfStream, NotifyEndOfStream
<1>4. CASE Run
  BY <1>4 DEF Run, StartStreaming, ScheduleSample, SendEndOfStream,
     NotifyEndOfStream
<1>5. CASE \E c \in Cookies : ClockFires(c)
  BY <1>5 DEF ClockFires
<1>6. CASE \E state \in {"Stopped", "Paused", "Running"} : Unconnected(state)
  BY <1>6 DEF Unconnected
<1>7. CASE StopWakes \/ StopReturns \/ PauseReturns \/ FlushWaited \/
            FlushReturns
  BY <1>7 DEF StopWakes, StopReturns, PauseReturns, FlushWaited, FlushReturns,
     ResetEndOfStream, ResetEndOfStreamTimer, CancelNotification,
     CompleteStateChange
<1>8. CASE Activate("Paused") \/ Activate("Running")
  BY <1>8 DEF Activate, ResetEndOfStreamTimer, CancelNotification,
     CompleteStateChange
<1>9. CASE Pause \/ PauseAgain \/ Stop \/ BeginFlush \/ EndFlush
  BY <1>9 DEF Pause, PauseAgain, Stop, BeginFlush, EndFlush,
     CompleteStateChange, CancelNotification
<1>10. CASE CompleteConnect \/ BreakConnect \/ OnDisplayChange
  BY <1>10 DEF CompleteConnect, BreakConnect, OnDisplayChange,
     ResetEndOfStream, ResetEndOfStreamTimer, RendererUnlocked
<1> QED BY <1>1, <1>2, <1>3, <1>4, <1>5, <1>6, <1>7, <1>8, <1>9, <1>10 DEF
         Next, ReceiveStep, Return

\* It keeps m_bInReceive with Receive, and the locks with the calls that hold
\* them.
LEMMA PlaceStep ==
  ASSUME Inv, Next
  PROVE  PlaceInv'
<1> USE DEF Inv, TypeInv, FlagInv, IsBoolean, clockVars, aux, eosVars, pinVars,
        PlaceInv, Unlocked
<1>1. CASE Prepared \/ FirstSample \/ Ready \/ WaitForRenderTime \/
            SignalTimerFired
  BY <1>1 DEF Prepared, FirstSample, Ready, WaitForRenderTime,
     SignalTimerFired, sourceOnly
<1>2. CASE RenderSample \/ ReceiveFails \/ TimerCallback
  BY <1>2 DEF RenderSample, ReceiveFails, TimerCallback, SendEndOfStream,
     NotifyEndOfStream, CancelNotification, RendererUnlocked
<1>3. CASE PrepareReceive \/ EndOfStream
  BY <1>3 DEF PrepareReceive, EndOfStream, ScheduleSample, CheckStreaming,
     SendEndOfStream, NotifyEndOfStream
<1>4. CASE Run
  BY <1>4 DEF Run, StartStreaming, ScheduleSample, SendEndOfStream,
     NotifyEndOfStream
<1>5. CASE \E c \in Cookies : ClockFires(c)
  BY <1>5 DEF ClockFires
<1>6. CASE \E state \in {"Stopped", "Paused", "Running"} : Unconnected(state)
  BY <1>6 DEF Unconnected
<1>7. CASE StopWakes \/ StopReturns \/ PauseReturns \/ FlushWaited \/
            FlushReturns
  BY <1>7 DEF StopWakes, StopReturns, PauseReturns, FlushWaited, FlushReturns,
     ResetEndOfStream, ResetEndOfStreamTimer, CancelNotification,
     CompleteStateChange
<1>8. CASE Activate("Paused")
  BY <1>8 DEF Activate, ResetEndOfStreamTimer, CancelNotification,
     CompleteStateChange
<1>9. CASE Activate("Running")
  BY <1>9 DEF Activate, ResetEndOfStreamTimer, CancelNotification,
     CompleteStateChange
<1>10. CASE Pause \/ PauseAgain \/ Stop \/ BeginFlush \/ EndFlush
  BY <1>10 DEF Pause, PauseAgain, Stop, BeginFlush, EndFlush,
     CompleteStateChange, CancelNotification
<1>11. CASE CompleteConnect \/ BreakConnect \/ OnDisplayChange
  BY <1>11 DEF CompleteConnect, BreakConnect, OnDisplayChange,
     ResetEndOfStream, ResetEndOfStreamTimer, RendererUnlocked
<1> QED BY <1>1, <1>2, <1>3, <1>4, <1>5, <1>6, <1>7, <1>8, <1>9, <1>10, <1>11
         DEF Next, ReceiveStep, Return

\* It leaves no sample behind in a filter that is stopped or flushed.
LEMMA HeldStep ==
  ASSUME Inv, Next
  PROVE  HeldInv'
<1> USE DEF Inv, TypeInv, FlagInv, IsBoolean, clockVars, aux, eosVars, pinVars,
        PlaceInv, HeldInv, Pending, Unlocked
<1>1. CASE Prepared \/ FirstSample \/ Ready \/ WaitForRenderTime \/
            SignalTimerFired
  BY <1>1 DEF Prepared, FirstSample, Ready, WaitForRenderTime,
     SignalTimerFired, sourceOnly
<1>2. CASE RenderSample \/ ReceiveFails \/ TimerCallback
  BY <1>2 DEF RenderSample, ReceiveFails, TimerCallback, SendEndOfStream,
     NotifyEndOfStream, CancelNotification, RendererUnlocked
<1>3. CASE PrepareReceive \/ EndOfStream
  BY <1>3 DEF PrepareReceive, EndOfStream, ScheduleSample, CheckStreaming,
     SendEndOfStream, NotifyEndOfStream
<1>4. CASE Run
  BY <1>4 DEF Run, StartStreaming, ScheduleSample, SendEndOfStream,
     NotifyEndOfStream
<1>5. CASE \E c \in Cookies : ClockFires(c)
  BY <1>5 DEF ClockFires
<1>6. CASE \E state \in {"Stopped", "Paused", "Running"} : Unconnected(state)
  BY <1>6 DEF Unconnected
<1>7. CASE StopWakes \/ StopReturns \/ PauseReturns \/ FlushWaited \/
            FlushReturns
  BY <1>7 DEF StopWakes, StopReturns, PauseReturns, FlushWaited, FlushReturns,
     ResetEndOfStream, ResetEndOfStreamTimer, CancelNotification,
     CompleteStateChange
<1>8. CASE Activate("Paused") \/ Activate("Running")
  BY <1>8 DEF Activate, ResetEndOfStreamTimer, CancelNotification,
     CompleteStateChange
<1>9. CASE Pause \/ PauseAgain \/ Stop \/ BeginFlush \/ EndFlush
  BY <1>9 DEF Pause, PauseAgain, Stop, BeginFlush, EndFlush,
     CompleteStateChange, CancelNotification
<1>10. CASE CompleteConnect \/ BreakConnect \/ OnDisplayChange
  BY <1>10 DEF CompleteConnect, BreakConnect, OnDisplayChange,
     ResetEndOfStream, ResetEndOfStreamTimer, RendererUnlocked
<1> QED BY <1>1, <1>2, <1>3, <1>4, <1>5, <1>6, <1>7, <1>8, <1>9, <1>10 DEF
         Next, ReceiveStep, Return

\* It does not undo a stop.
LEMMA StopStep ==
  ASSUME Inv, Next
  PROVE  StopInv'
<1> USE DEF Inv, TypeInv, FlagInv, IsBoolean, clockVars, aux, eosVars, pinVars,
        PlaceInv, StopInv, Cookies, Unlocked
<1>1. CASE Prepared \/ FirstSample \/ Ready \/ WaitForRenderTime \/
            SignalTimerFired
  BY <1>1 DEF Prepared, FirstSample, Ready, WaitForRenderTime,
     SignalTimerFired, sourceOnly
<1>2. CASE RenderSample \/ ReceiveFails \/ TimerCallback
  BY <1>2 DEF RenderSample, ReceiveFails, TimerCallback, SendEndOfStream,
     NotifyEndOfStream, CancelNotification, RendererUnlocked
<1>3. CASE PrepareReceive \/ EndOfStream
  BY <1>3 DEF PrepareReceive, EndOfStream, ScheduleSample, CheckStreaming,
     SendEndOfStream, NotifyEndOfStream
<1>4. CASE Run
  BY <1>4 DEF Run, StartStreaming, ScheduleSample, SendEndOfStream,
     NotifyEndOfStream
<1>5. CASE \E c \in Cookies : ClockFires(c)
  BY <1>5 DEF ClockFires
<1>6. CASE \E state \in {"Stopped", "Paused", "Running"} : Unconnected(state)
  BY <1>6 DEF Unconnected
<1>7. CASE StopWakes \/ StopReturns \/ PauseReturns \/ FlushWaited \/
            FlushReturns
  BY <1>7 DEF StopWakes, StopReturns, PauseReturns, FlushWaited, FlushReturns,
     ResetEndOfStream, ResetEndOfStreamTimer, CancelNotification,
     CompleteStateChange
<1>8. CASE Activate("Paused") \/ Activate("Running")
  BY <1>8 DEF Activate, ResetEndOfStreamTimer, CancelNotification,
     CompleteStateChange
<1>9. CASE Pause \/ PauseAgain \/ Stop \/ BeginFlush \/ EndFlush
  BY <1>9 DEF Pause, PauseAgain, Stop, BeginFlush, EndFlush,
     CompleteStateChange, CancelNotification
<1>10. CASE CompleteConnect \/ BreakConnect \/ OnDisplayChange
  BY <1>10 DEF CompleteConnect, BreakConnect, OnDisplayChange,
     ResetEndOfStream, ResetEndOfStreamTimer, RendererUnlocked
<1> QED BY <1>1, <1>2, <1>3, <1>4, <1>5, <1>6, <1>7, <1>8, <1>9, <1>10 DEF
         Next, ReceiveStep, Return

\* It counts each EC_COMPLETE it sends, and sends none for a sample held.
LEMMA EndStep ==
  ASSUME Inv, Next
  PROVE  EndInv'
<1> USE DEF Inv, TypeInv, FlagInv, IsBoolean, clockVars, aux, eosVars, pinVars,
        PlaceInv, HeldInv, StopInv, EndInv, Pending, Unlocked
<1>1. CASE Prepared \/ FirstSample \/ Ready \/ WaitForRenderTime \/
            SignalTimerFired
  BY <1>1 DEF Prepared, FirstSample, Ready, WaitForRenderTime,
     SignalTimerFired, sourceOnly
<1>2. CASE RenderSample \/ ReceiveFails \/ TimerCallback
  BY <1>2 DEF RenderSample, ReceiveFails, TimerCallback, SendEndOfStream,
     NotifyEndOfStream, CancelNotification, RendererUnlocked
<1>3. CASE PrepareReceive \/ EndOfStream
  BY <1>3 DEF PrepareReceive, EndOfStream, ScheduleSample, CheckStreaming,
     SendEndOfStream, NotifyEndOfStream
<1>4. CASE Run
  BY <1>4 DEF Run, StartStreaming, ScheduleSample, SendEndOfStream,
     NotifyEndOfStream
<1>5. CASE \E c \in Cookies : ClockFires(c)
  BY <1>5 DEF ClockFires
<1>6. CASE \E state \in {"Stopped", "Paused", "Running"} : Unconnected(state)
  BY <1>6 DEF Unconnected
<1>7. CASE StopWakes \/ StopReturns \/ PauseReturns \/ FlushWaited \/
            FlushReturns
  BY <1>7 DEF StopWakes, StopReturns, PauseReturns, FlushWaited, FlushReturns,
     ResetEndOfStream, ResetEndOfStreamTimer, CancelNotification,
     CompleteStateChange
<1>8. CASE Activate("Paused") \/ Activate("Running")
  BY <1>8 DEF Activate, ResetEndOfStreamTimer, CancelNotification,
     CompleteStateChange
<1>9. CASE Pause \/ PauseAgain \/ Stop \/ BeginFlush \/ EndFlush
  BY <1>9 DEF Pause, PauseAgain, Stop, BeginFlush, EndFlush,
     CompleteStateChange, CancelNotification
<1>10. CASE CompleteConnect \/ BreakConnect \/ OnDisplayChange
  BY <1>10 DEF CompleteConnect, BreakConnect, OnDisplayChange,
     ResetEndOfStream, ResetEndOfStreamTimer, RendererUnlocked
<1> QED BY <1>1, <1>2, <1>3, <1>4, <1>5, <1>6, <1>7, <1>8, <1>9, <1>10 DEF
         Next, ReceiveStep, Return

-----------------------------------------------------------------------------
(* The requests to the clock.                                              *)

\* What a step may do with them: nothing, withdraw, ask, forget the cookie or fire.
Kept == UNCHANGED <<m_dwAdvise, advised, orphans>>
Withdrawn == m_dwAdvise' = 0 /\ advised' = advised \ {m_dwAdvise} /\ orphans' = orphans
Asks ==
  /\ m_dwAdvise' \in Cookies \ advised /\ advised' = advised \cup {m_dwAdvise'}
  /\ orphans' = orphans
Forgotten ==
  /\ m_dwAdvise' = 0 /\ advised' = advised
  /\ orphans' = orphans \cup ({m_dwAdvise} \cap advised)
Fires(c) ==
  /\ c \in advised /\ m_dwAdvise' = m_dwAdvise
  /\ advised' = advised \ {c} /\ orphans' = orphans \ {c}

\* What of them is about m_dwAdvise.
LEMMA AskedMoves ==
  ASSUME TypeInv, OwnedInv
  PROVE  /\ Kept => (Asked' <=> Asked)
         /\ Withdrawn => ~Asked'
         /\ Asks => Asked'
         /\ Forgotten => ~Asked'
         /\ \A c : Fires(c) => /\ Asked' <=> Asked /\ c # m_dwAdvise
                               /\ c \in orphans \/ (Asked /\ c = m_dwAdvise)
<1>1. 0 \notin advised
  BY RendererAssumption DEF TypeInv, Cookies
<1>2. Kept => (Asked' <=> Asked)
  BY DEF Kept, Asked
<1>3. Withdrawn \/ Forgotten => ~Asked'
  BY <1>1 DEF Withdrawn, Forgotten, Asked
<1>4. Asks => Asked'
  BY DEF Asks, Asked
<1>5. ASSUME NEW c, Fires(c)
      PROVE  /\ Asked' <=> Asked /\ c # m_dwAdvise
             /\ c \in orphans \/ (Asked /\ c = m_dwAdvise)
  BY <1>5 DEF Fires, Asked, OwnedInv
<1> QED BY <1>2, <1>3, <1>4, <1>5

\* Each of them leaves the request and the orphans apart, if nothing is asked for twice.
LEMMA OwnedMoves ==
  ASSUME TypeInv, OwnedInv,
         \/ Kept \/ Withdrawn \/ Forgotten \/ (Asks /\ ~Asked)
         \/ \E c \in Cookies : Fires(c)
  PROVE  OwnedInv'
<1>1. 0 \notin advised
  BY RendererAssumption DEF TypeInv, Cookies
<1>2. CASE Kept
  BY <1>2 DEF Kept, OwnedInv
<1>3. CASE Withdrawn
  BY <1>1, <1>3 DEF Withdrawn, OwnedInv
<1>4. CASE Forgotten
  BY <1>1, <1>4 DEF Forgotten, OwnedInv
<1>5. CASE \E c \in Cookies : Fires(c)
  BY <1>5 DEF Fires, OwnedInv
<1>6. CASE Asks /\ ~Asked
  BY <1>6 DEF Asks, Asked, OwnedInv
<1> QED BY <1>2, <1>3, <1>4, <1>5, <1>6

\* A step leaves the requests owned and for the Receive under way.
LEMMA ClockStep ==
  ASSUME Inv, Next
  PROVE  OwnedInv' /\ ClockInv'
<1>0. TypeInv /\ OwnedInv
  BY DEF Inv
<1> USE DEF Inv, FlagInv, IsBoolean, clockVars, aux, eosVars, pinVars,
        PlaceInv, HeldInv, StopInv, ClockInv, Pending, Unlocked
<1>1. CASE Prepared \/ FirstSample \/ Ready \/ WaitForRenderTime
  <2>1. Kept
    BY <1>1 DEF Kept, Prepared, FirstSample, Ready, WaitForRenderTime, sourceOnly
  <2>2. (Asked' <=> Asked)
    BY <1>0, <2>1, AskedMoves
  <2>3. ClockInv'
    BY <1>1, <2>2 DEF Prepared, FirstSample, Ready, WaitForRenderTime, sourceOnly
  <2> QED BY <1>0, <2>1, <2>3, OwnedMoves
<1>2. CASE SignalTimerFired
  <2>1. Forgotten
    BY <1>2 DEF Forgotten, SignalTimerFired, sourceOnly
  <2>2. ~Asked'
    BY <1>0, <2>1, AskedMoves
  <2>3. ClockInv'
    BY <1>2, <2>2 DEF SignalTimerFired, sourceOnly
  <2> QED BY <1>0, <2>1, <2>3, OwnedMoves
<1>3. CASE RenderSample
  <2>1. \/ m_State # "Stopped" /\ Withdrawn
        \/ m_State = "Stopped" /\ Kept
    BY <1>3 DEF Kept, Withdrawn, RenderSample, CancelNotification
  <2>2. IF m_State = "Stopped" THEN (Asked' <=> Asked) ELSE ~Asked'
    BY <1>0, <2>1, AskedMoves
  <2>3. ClockInv'
    BY <1>3, <2>2 DEF RenderSample, CancelNotification
  <2> QED BY <1>0, <2>1, <2>3, OwnedMoves
<1>4. CASE ReceiveFails \/ TimerCallback \/ EndOfStream
  <2>1. Kept
    BY <1>4 DEF Kept, ReceiveFails, TimerCallback, EndOfStream
  <2>2. (Asked' <=> Asked)
    BY <1>0, <2>1, AskedMoves
  <2>3. /\ UNCHANGED <<m_State, holder, threadSignal, renderEvent, m_bStreaming, due, overtaken>>
        /\ source' = source \/ (source \in {"refused", "interrupted"} /\ source' = "out")
    BY <1>4 DEF ReceiveFails, TimerCallback, EndOfStream
  <2>4. ClockInv'
    BY <2>2, <2>3
  <2>6. OwnedInv'
    BY <1>0, <2>1, OwnedMoves
  <2> QED BY <2>4, <2>6
<1>5. CASE PrepareReceive
  <2>1. ~Asked /\ (Kept \/ Asks)
    BY <1>5 DEF PrepareReceive, ScheduleSample, Kept, Asks
  <2>2. (Kept => ~Asked') /\ (Asks => Asked')
    BY <1>0, <2>1, AskedMoves
  <2>3. ClockInv'
    BY <1>5, <2>1, <2>2 DEF PrepareReceive, ScheduleSample, CheckStreaming, Kept, Asks
  <2>4. OwnedInv'
    BY <1>0, <2>1, OwnedMoves
  <2> QED BY <2>3, <2>4
<1>6. CASE Run
  <2>1. ~Asked /\ (Kept \/ Asks)
    BY <1>6 DEF Run, StartStreaming, ScheduleSample, Kept, Asks
  <2>2. (Kept => ~Asked') /\ (Asks => Asked')
    BY <1>0, <2>1, AskedMoves
  <2>3. ClockInv'
    BY <1>6, <2>1, <2>2 DEF Run, StartStreaming, ScheduleSample, Kept, Asks
  <2>4. OwnedInv'
    BY <1>0, <2>1, OwnedMoves
  <2> QED BY <2>3, <2>4
<1>7. CASE \E state \in {"Stopped", "Paused", "Running"} : Unconnected(state)
  <2>1. Kept
    BY <1>7 DEF Kept, Unconnected
  <2>2. (Asked' <=> Asked)
    BY <1>0, <2>1, AskedMoves
  <2>3. ClockInv'
    BY <1>7, <2>2 DEF Unconnected
  <2> QED BY <1>0, <2>1, <2>3, OwnedMoves
<1>8. CASE StopReturns \/ FlushWaited \/ FlushReturns
  <2>1. Kept
    BY <1>8 DEF Kept, StopReturns, FlushWaited, FlushReturns, ResetEndOfStream
  <2>2. (Asked' <=> Asked)
    BY <1>0, <2>1, AskedMoves
  <2>3. ClockInv'
    BY <1>8, <2>2 DEF StopReturns, FlushWaited, FlushReturns, ResetEndOfStream
  <2> QED BY <1>0, <2>1, <2>3, OwnedMoves
<1>9. CASE StopWakes \/ PauseReturns
  <2>1. Withdrawn
    BY <1>9 DEF Withdrawn, StopWakes, PauseReturns, CancelNotification, ResetEndOfStream
  <2>2. ~Asked'
    BY <1>0, <2>1, AskedMoves
  <2>3. ClockInv'
    BY <1>9, <2>2 DEF StopWakes, PauseReturns, CancelNotification, ResetEndOfStream
  <2> QED BY <1>0, <2>1, <2>3, OwnedMoves
<1>10. CASE Activate("Paused") \/ Activate("Running")
  <2>1. Withdrawn
    BY <1>10 DEF Withdrawn, Activate, CancelNotification
  <2>2. ~Asked'
    BY <1>0, <2>1, AskedMoves
  <2>3. ClockInv'
    BY <1>10, <2>2 DEF Activate, CancelNotification
  <2> QED BY <1>0, <2>1, <2>3, OwnedMoves
<1>11. CASE BeginFlush
  <2>1. Withdrawn
    BY <1>11 DEF Withdrawn, BeginFlush, CancelNotification
  <2>2. ~Asked'
    BY <1>0, <2>1, AskedMoves
  <2>3. ClockInv'
    BY <1>11, <2>2 DEF BeginFlush, CancelNotification
  <2> QED BY <1>0, <2>1, <2>3, OwnedMoves
<1>12. CASE Pause \/ PauseAgain \/ Stop \/ EndFlush
  <2>1. Kept
    BY <1>12 DEF Kept, Pause, PauseAgain, Stop, EndFlush
  <2>2. (Asked' <=> Asked)
    BY <1>0, <2>1, AskedMoves
  <2>3. ClockInv'
    BY <1>12, <2>2 DEF Pause, PauseAgain, Stop, EndFlush
  <2> QED BY <1>0, <2>1, <2>3, OwnedMoves
<1>13. CASE CompleteConnect \/ BreakConnect \/ OnDisplayChange
  <2>1. Kept
    BY <1>13 DEF Kept, CompleteConnect, BreakConnect, OnDisplayChange
  <2>2. (Asked' <=> Asked)
    BY <1>0, <2>1, AskedMoves
  <2>3. ClockInv'
    BY <1>13, <2>2 DEF CompleteConnect, BreakConnect, OnDisplayChange
  <2> QED BY <1>0, <2>1, <2>3, OwnedMoves
<1>14. CASE \E c \in Cookies : ClockFires(c)
  <2>1. PICK c \in Cookies : ClockFires(c)
    BY <1>14
  <2>2. Fires(c)
    BY <2>1 DEF ClockFires, Fires
  <2>3. /\ Asked' <=> Asked /\ c # m_dwAdvise
        /\ c \in orphans \/ (Asked /\ c = m_dwAdvise)
    BY <1>0, <2>2, AskedMoves
  <2>4. ClockInv'
    BY <2>1, <2>3 DEF ClockFires
  <2> QED BY <1>0, <2>2, <2>4, OwnedMoves
<1> QED BY <1>1, <1>2, <1>3, <1>4, <1>5, <1>6, <1>7, <1>8, <1>9, <1>10, <1>11, <1>12, <1>13, <1>14
        DEF Next, ReceiveStep, Return

\* It completes a pause only with something to show.
LEMMA CuedStep ==
  ASSUME Inv, Next
  PROVE  CuedInv'
<1> USE DEF Inv, TypeInv, FlagInv, IsBoolean, clockVars, aux, eosVars, pinVars,
        PlaceInv, HeldInv, StopInv, ClockInv, CuedInv, ReadyMeansCued, Pending,
        Cueing, Unlocked
<1>1. CASE Prepared \/ FirstSample \/ Ready \/ WaitForRenderTime \/
            SignalTimerFired
  BY <1>1 DEF Prepared, FirstSample, Ready, WaitForRenderTime,
     SignalTimerFired, sourceOnly
<1>2. CASE RenderSample
  BY <1>2 DEF RenderSample, SendEndOfStream, NotifyEndOfStream,
     CancelNotification
<1>3. CASE ReceiveFails \/ TimerCallback
  BY <1>3 DEF ReceiveFails, TimerCallback, NotifyEndOfStream, SendEndOfStream,
     RendererUnlocked
<1>19. CASE PrepareReceive
  BY <1>19 DEF PrepareReceive, CheckStreaming
<1>4. CASE EndOfStream
  BY <1>4 DEF EndOfStream, SendEndOfStream, NotifyEndOfStream, CheckStreaming
<1>5. CASE Run
  BY <1>5 DEF Run, StartStreaming, ScheduleSample, SendEndOfStream,
     NotifyEndOfStream
<1>6. CASE \E c \in Cookies : ClockFires(c)
  <2>1. PICK c \in Cookies : ClockFires(c)
    BY <1>6
  <2>2. overtaken => overtaken'
    BY <2>1 DEF ClockFires
  <2> QED BY <2>1, <2>2 DEF ClockFires
<1>7. CASE \E state \in {"Stopped", "Paused", "Running"} : Unconnected(state)
  BY <1>7 DEF Unconnected
<1>8. CASE StopWakes \/ StopReturns
  BY <1>8 DEF StopWakes, StopReturns, ResetEndOfStream, ResetEndOfStreamTimer,
     CancelNotification
<1>9. CASE PauseReturns
  BY <1>9 DEF PauseReturns, ResetEndOfStreamTimer, CancelNotification,
     CompleteStateChange
<1>10. CASE FlushWaited \/ FlushReturns
  BY <1>10 DEF FlushWaited, FlushReturns, ResetEndOfStream,
     ResetEndOfStreamTimer
<1>11. CASE Activate("Paused")
  BY <1>11 DEF Activate, ResetEndOfStreamTimer, CancelNotification,
     CompleteStateChange
<1>12. CASE Activate("Running")
  BY <1>12 DEF Activate, ResetEndOfStreamTimer, CancelNotification,
     CompleteStateChange
<1>13. CASE Pause
  BY <1>13 DEF Pause
<1>14. CASE PauseAgain
  BY <1>14 DEF PauseAgain, CompleteStateChange
<1>15. CASE Stop
  BY <1>15 DEF Stop
<1>16. CASE BeginFlush
  BY <1>16 DEF BeginFlush, CancelNotification
<1>17. CASE EndFlush
  BY <1>17 DEF EndFlush
<1>18. CASE CompleteConnect \/ BreakConnect \/ OnDisplayChange
  BY <1>18 DEF CompleteConnect, BreakConnect, OnDisplayChange,
     ResetEndOfStream, ResetEndOfStreamTimer, RendererUnlocked
<1> QED BY <1>1, <1>2, <1>3, <1>4, <1>5, <1>6, <1>7, <1>8, <1>9, <1>10, <1>11,
         <1>12, <1>13, <1>14, <1>15, <1>16, <1>17, <1>18, <1>19 DEF Next,
         ReceiveStep, Return

-----------------------------------------------------------------------------
(* The invariant and what it implies.                                      *)

\* The invariant holds at first.
LEMMA InitInv == Init => Inv
BY RendererAssumption
   DEF Init, Inv, TypeInv, FlagInv, IsBoolean, PlaceInv, HeldInv, StopInv,
       EndInv, OwnedInv, ClockInv, Asked, CuedInv, ReadyMeansCued, Pending, Cueing, Cookies,
       Unlocked

\* A step keeps it.
LEMMA InvStep ==
  ASSUME Inv, [Next]_vars
  PROVE  Inv'
<1>1. CASE Next
  BY <1>1, TypesStep, FlagsStep, PlaceStep, HeldStep, StopStep, EndStep,
     ClockStep, CuedStep DEF Inv
<1>2. CASE UNCHANGED vars
  BY <1>2 DEF vars, pinVars, eosVars, clockVars, aux, Inv, TypeInv, FlagInv,
     PlaceInv,
              HeldInv, StopInv, EndInv,
              OwnedInv, ClockInv, Asked, CuedInv, ReadyMeansCued,
              Pending, Cueing, Cookies, Unlocked
<1> QED BY <1>1, <1>2

LEMMA InvHolds == Spec => []Inv
<1>1. Init => Inv
  BY InitInv
<1>2. Inv /\ [Next]_vars => Inv'
  BY InvStep
<1> QED BY <1>1, <1>2, PTL DEF Spec

\* Every variable of the renderer has a value of its kind, and EC_COMPLETE is
\* sent at most once: what TLC checks of one instance holds for all.
THEOREM TypesKept == Spec => []TypeOK
<1>1. Inv => TypeOK
  <2> SUFFICES ASSUME Inv PROVE TypeOK
    OBVIOUS
  <2>1. finished \in 0..2
    BY DEF Inv, EndInv
  <2>2. {connected, m_bFlushing, m_bRunTimeError, m_pMediaSample, m_bInReceive,
         m_bEOS, m_bEOSDelivered, m_bStreaming, m_bAbort, complete,
         threadSignal, renderEvent, m_EndOfStreamTimer, due, overtaken}
        \subseteq BOOLEAN
    BY DEF Inv, FlagInv, IsBoolean
  <2> QED BY <2>1, <2>2 DEF TypeOK, Inv, TypeInv, OwnedInv
<1> QED BY <1>1, InvHolds, PTL

\* A renderer that has been stopped holds nothing, whatever Receive was doing, and it
\* completes a stream once.  The clock has the request m_dwAdvise and no other but those
\* whose cookie SignalTimerFired overwrote.  A paused filter that is complete has
\* something to show, or its last Receive was overtaken by a flush or a pause, which
\* the next one is not.
THEOREM RendererIsKept == Spec => []RendererKept
<1>1. Inv => RendererKept
  <2> SUFFICES ASSUME Inv PROVE RendererKept
    OBVIOUS
  <2>1. StoppedHoldsNothing
    BY DEF Inv, PlaceInv, HeldInv, StopInv, StoppedHoldsNothing, Unlocked
  <2>2. CompleteOnce
    BY DEF Inv, EndInv, CompleteOnce
  <2>3. AdviseOwned
    BY DEF Inv, OwnedInv, AdviseOwned
  <2>4. ReadyMeansCued
    BY DEF Inv, CuedInv
  <2> QED BY <2>1, <2>2, <2>3, <2>4 DEF RendererKept
<1> QED BY <1>1, InvHolds, PTL

\* Between two steps: EC_COMPLETE does not pass a sample that is held
\* (SendEndOfStream), a sample is rendered before its time only by a Receive that was
\* overtaken (after WaitForRenderTime, which takes any event for its own), and what
\* interrupts a Receive is not reported as an error (CRendererInputPin::Receive).
THEOREM NoStepIsWrong == Spec => CompleteIsLast /\ NotEarly /\ NoSpuriousAbort
<1> DEFINE
     Last == finished' > finished /\ m_bRunTimeError' = m_bRunTimeError
               => ~m_pMediaSample' /\ m_bStreaming' /\ m_bEOS'
     Early == (RenderSample /\ m_State # "Stopped"
                 /\ m_pMediaSample /\ m_bStreaming) => due \/ overtaken
     Abort == m_bRunTimeError' /\ ~m_bRunTimeError
                => m_State # "Stopped" /\ ~m_bFlushing
<1>1. Inv /\ [Next]_vars => [Last]_vars
  <2> SUFFICES ASSUME Inv, Next PROVE Last
    OBVIOUS
  <2> USE DEF Inv, FlagInv, IsBoolean, EndInv, PlaceInv, HeldInv, StopInv,
          pinVars, eosVars
  <2>1. CASE RenderSample
    BY <2>1 DEF RenderSample, SendEndOfStream, NotifyEndOfStream
  <2>2. CASE TimerCallback
    BY <2>2 DEF TimerCallback, SendEndOfStream, NotifyEndOfStream
  <2>3. CASE EndOfStream
    BY <2>3 DEF EndOfStream, SendEndOfStream, NotifyEndOfStream, CheckStreaming
  <2>4. CASE Run
    BY <2>4 DEF Run, StartStreaming, ScheduleSample, SendEndOfStream,
       NotifyEndOfStream
  <2>5. CASE ReceiveFails
    BY <2>5 DEF ReceiveFails, NotifyEndOfStream
  <2>6. CASE \/ Prepared \/ FirstSample \/ Ready \/ WaitForRenderTime
             \/ SignalTimerFired \/ PrepareReceive
    BY <2>6 DEF Prepared, FirstSample, Ready, WaitForRenderTime,
       SignalTimerFired, PrepareReceive, sourceOnly
  <2>7. CASE (\E c \in Cookies : ClockFires(c)) \/ Return
    BY <2>7 DEF ClockFires, Return, StopWakes, StopReturns, PauseReturns,
       FlushWaited, FlushReturns, ResetEndOfStream
  <2>8. CASE \E state \in {"Stopped", "Paused", "Running"} : Unconnected(state)
    BY <2>8 DEF Unconnected
  <2>9. CASE \/ Activate("Paused") \/ Activate("Running")
             \/ Pause \/ PauseAgain \/ Stop \/ BeginFlush \/ EndFlush
             \/ CompleteConnect \/ BreakConnect \/ OnDisplayChange
    BY <2>9 DEF Activate, Pause, PauseAgain, Stop, BeginFlush, EndFlush,
       CompleteConnect, BreakConnect, OnDisplayChange, ResetEndOfStream
  <2> QED BY <2>1, <2>2, <2>3, <2>4, <2>5, <2>6, <2>7, <2>8, <2>9 DEF Next,
          ReceiveStep
<1>2. Inv /\ [Next]_vars => [Early]_vars
  BY DEF Inv, ClockInv, FlagInv, IsBoolean, RenderSample
<1>3. Inv /\ [Next]_vars => [Abort]_vars
  <2> SUFFICES ASSUME Inv, Next PROVE Abort
    OBVIOUS
  <2> USE DEF pinVars
  <2>1. CASE PrepareReceive
    BY <2>1 DEF PrepareReceive, CheckStreaming
  <2>2. CASE ReceiveFails
    BY <2>2 DEF ReceiveFails
  <2>3. CASE EndFlush \/ Stop
    BY <2>3 DEF EndFlush, Stop
  <2>4. \/ UNCHANGED m_bRunTimeError
        \/ PrepareReceive \/ ReceiveFails \/ EndFlush \/ Stop
    BY DEF Next, ReceiveStep, Return, Prepared, FirstSample, Ready,
       WaitForRenderTime, SignalTimerFired, RenderSample, EndOfStream,
       ClockFires, TimerCallback, Unconnected, Activate, Pause, PauseAgain,
       Run, StopWakes, StopReturns, PauseReturns, FlushWaited, FlushReturns,
       BeginFlush, CompleteConnect, BreakConnect, OnDisplayChange, sourceOnly
  <2> QED BY <2>1, <2>2, <2>3, <2>4
<1> QED
  BY <1>1, <1>2, <1>3, InvHolds, PTL
     DEF Spec, CompleteIsLast, NotEarly, NoSpuriousAbort

-----------------------------------------------------------------------------
(***************************************************************************)
(* The clock                                                               *)
(***************************************************************************)
LEMMA Remainder ==
  ASSUME NEW a \in Int, NEW m \in Nat, m > 0
  PROVE  /\ a % m \in 0..(m - 1)
         /\ a \div m \in Int
         /\ a = m * (a \div m) + (a % m)
<1>1. a % m \in 0..(m - 1)
  OBVIOUS
<1>2. a \div m \in Int
  OBVIOUS
<1>3. a = m * (a \div m) + (a % m)
  OBVIOUS
<1> QED BY <1>1, <1>2, <1>3

\* It is the only number below the divisor at a multiple of it from the
\* dividend.
LEMMA RemainderIsUnique ==
  ASSUME NEW a \in Int, NEW m \in Nat, m > 0, NEW r \in 0..(m - 1),
         NEW q \in Int, a = m * q + r
  PROVE  a % m = r
<1> DEFINE p == a \div m
           s == a % m
<1>1. p \in Int /\ s \in 0..(m - 1) /\ a = m * p + s
  BY Remainder
<1> HIDE DEF p, s
<1>2. m * (p - q) = r - s
  BY <1>1
<1>3. p - q <= 0
  <2> SUFFICES ASSUME p - q >= 1 PROVE FALSE
    BY <1>1
  <2>1. m * (p - q) >= m
    BY <1>1
  <2> QED BY <1>1, <1>2, <2>1
<1>4. p - q >= 0
  <2> SUFFICES ASSUME p - q <= -1 PROVE FALSE
    BY <1>1
  <2>1. m * (p - q) <= -m
    BY <1>1
  <2> QED BY <1>1, <1>2, <2>1
<1>5. p = q
  BY <1>1, <1>3, <1>4
<1>6. r = s
  BY <1>1, <1>5
<1> QED BY <1>6 DEF s

\* While less than half the range of the counter has gone by since it was read,
\* a tick adds one to the difference, also where the counter wraps.
LEMMA UnreadGrows ==
  ASSUME NEW t \in Nat, NEW half \in Nat, half > 0, NEW prev \in Int,
         NEW u, u = (((t + half) % (2 * half)) - prev) % (2 * half), u < half
  PROVE  (((t + 1 + half) % (2 * half)) - prev) % (2 * half) = u + 1
<1> DEFINE m == 2 * half
           a == t + half
           q == a \div m
           r == a % m
           p == (r - prev) \div m
<1>1. m \in Nat /\ m > 0 /\ a \in Int
  OBVIOUS
<1>2. q \in Int /\ r \in 0..(m - 1) /\ a = m * q + r
  BY <1>1, Remainder
<1>3. p \in Int /\ u \in 0..(m - 1) /\ r - prev = m * p + u
  <2>1. r - prev \in Int
    BY <1>2
  <2>2. u = (r - prev) % m
    OBVIOUS
  <2> HIDE DEF r, m
  <2> QED BY <1>1, <2>1, <2>2, Remainder
<1>4. u + 1 \in 0..(m - 1)
  BY <1>3
<1>5. CASE r + 1 < m
  <2>1. (a + 1) % m = r + 1
    <3> DEFINE b == a + 1
               v == r + 1
    <3>1. b = m * q + v /\ v \in 0..(m - 1) /\ b \in Int
      BY <1>1, <1>2, <1>5
    <3> HIDE DEF a, m, q, r, b, v
    <3>2. b % m = v
      BY <1>1, <1>2, <3>1, RemainderIsUnique
    <3> QED BY <3>2 DEF b, v
  <2>2. (r + 1 - prev) % m = u + 1
    <3> DEFINE b == r + 1 - prev
               v == u + 1
    <3>1. b = m * p + v /\ v \in 0..(m - 1) /\ b \in Int /\ p \in Int
      BY <1>2, <1>3, <1>4
    <3> HIDE DEF a, m, p, r, b, v
    <3>2. b % m = v
      BY <1>1, <3>1, RemainderIsUnique
    <3> QED BY <3>2 DEF b, v
  <2>3. t + 1 + half = a + 1
    OBVIOUS
  <2> QED BY <2>1, <2>2, <2>3
<1>6. CASE r + 1 = m
  <2>1. (a + 1) % m = 0
    <3>1. a + 1 = m * (q + 1) + 0 /\ q + 1 \in Int /\ 0 \in 0..(m - 1)
            /\ a + 1 \in Int
      BY <1>1, <1>2, <1>6
    <3> HIDE DEF a, m, q, r
    <3> QED BY <1>1, <3>1, RemainderIsUnique
  <2>2. (0 - prev) % m = u + 1
    <3> DEFINE b == 0 - prev
               v == u + 1
               w == p - 1
    <3>1. b = m * w + v /\ v \in 0..(m - 1) /\ b \in Int /\ w \in Int
      BY <1>2, <1>3, <1>4, <1>6
    <3> HIDE DEF a, m, p, r, b, v, w
    <3>2. b % m = v
      BY <1>1, <3>1, RemainderIsUnique
    <3> QED BY <3>2 DEF b, v
  <2>3. t + 1 + half = a + 1
    OBVIOUS
  <2> QED BY <2>1, <2>2, <2>3
<1> QED BY <1>2, <1>5, <1>6

\* r is s with e at place i.
Inserted(r, s, i, e) ==
  \A j \in 1..(Len(s) + 1) :
    r[j] = IF j < i THEN s[j] ELSE IF j = i THEN e ELSE s[j - 1]

LEMMA InsertAtIs ==
  ASSUME NEW S, NEW s \in Seq(S), NEW e \in S, NEW i \in 1..(Len(s) + 1)
  PROVE  /\ C!InsertAt(s, i, e) \in Seq(S)
         /\ Len(C!InsertAt(s, i, e)) = Len(s) + 1
         /\ Inserted(C!InsertAt(s, i, e), s, i, e)
<1> DEFINE before == SubSeq(s, 1, i - 1)
           after == SubSeq(s, i, Len(s))
<1>1. \A k \in 1..Len(s) : s[k] \in S
  BY ElementOfSeq
<1>2. /\ before \in Seq(S) /\ Len(before) = i - 1
      /\ \A k \in 1..(i - 1) : before[k] = s[k]
  <2>1. \A k \in 1..(i-1) : s[k] \in S
    BY <1>1, LenProperties
  <2> QED BY <2>1, LenProperties, SubSeqProperties
<1>3. /\ after \in Seq(S) /\ Len(after) = Len(s) - i + 1
      /\ \A k \in 1..(Len(s) - i + 1) : after[k] = s[i + k - 1]
  <2>1. \A k \in i..Len(s) : s[k] \in S
    BY <1>1, LenProperties
  <2> QED BY <2>1, LenProperties, SubSeqProperties
<1>4. <<e>> \in Seq(S) /\ Len(<<e>>) = 1 /\ <<e>>[1] = e
  OBVIOUS
<1> HIDE DEF before, after
<1>5. /\ before \o <<e>> \in Seq(S) /\ Len(before \o <<e>>) = i
      /\ \A k \in 1..i : (before \o <<e>>)[k] = IF k <= i - 1 THEN before[k]
                                                ELSE <<e>>[k - (i - 1)]
  BY <1>2, <1>4, ConcatProperties
<1>6. C!InsertAt(s, i, e) = (before \o <<e>>) \o after
  BY DEF C!InsertAt, before, after
<1>7. /\ C!InsertAt(s, i, e) \in Seq(S)
      /\ Len(C!InsertAt(s, i, e)) = Len(s) + 1
      /\ \A k \in 1..(Len(s) + 1) : C!InsertAt(s, i, e)[k] =
           IF k <= i THEN (before \o <<e>>)[k] ELSE after[k - i]
  <2> DEFINE head == before \o <<e>>
  <2>1. head \in Seq(S) /\ Len(head) = i
    BY <1>5
  <2> HIDE DEF head
  <2>2. /\ head \o after \in Seq(S)
        /\ Len(head \o after) = Len(head) + Len(after)
        /\ \A k \in 1..(Len(head) + Len(after)) : (head \o after)[k] =
             IF k <= Len(head) THEN head[k] ELSE after[k - Len(head)]
    BY <1>3, <2>1, ConcatProperties
  <2>3. Len(head) + Len(after) = Len(s) + 1
    BY <1>3, <2>1, LenProperties
  <2> QED BY <1>6, <2>1, <2>2, <2>3 DEF head
<1>8. ASSUME NEW j \in 1..(Len(s) + 1)
      PROVE  C!InsertAt(s, i, e)[j] = IF j < i THEN s[j] ELSE IF j = i THEN e
                                      ELSE s[j - 1]
  <2>1. CASE j < i
    BY <2>1, <1>2, <1>5, <1>7, LenProperties
  <2>2. CASE j = i
    BY <2>2, <1>4, <1>5, <1>7, LenProperties
  <2>3. CASE j > i
    <3>1. j - i \in 1..(Len(s) - i + 1) /\ i + (j - i) - 1 = j - 1
      BY <2>3, LenProperties
    <3>2. after[j - i] = s[j - 1]
      BY <1>3, <3>1
    <3>3. C!InsertAt(s, i, e)[j] = after[j - i] /\ ~(j < i) /\ j # i
      BY <1>7, <2>3, LenProperties
    <3> QED BY <3>2, <3>3
  <2> QED BY <2>1, <2>2, <2>3, LenProperties
<1> QED BY <1>7, <1>8 DEF Inserted

LEMMA RemoveAtIs ==
  ASSUME NEW S, NEW s \in Seq(S), NEW i \in 1..Len(s)
  PROVE  /\ C!RemoveAt(s, i) \in Seq(S)
         /\ Len(C!RemoveAt(s, i)) = Len(s) - 1
         /\ \A j \in 1..(Len(s) - 1) :
              C!RemoveAt(s, i)[j] = IF j < i THEN s[j] ELSE s[j + 1]
<1> DEFINE before == SubSeq(s, 1, i - 1)
           after == SubSeq(s, i + 1, Len(s))
<1>1. \A k \in 1..Len(s) : s[k] \in S
  BY ElementOfSeq
<1>2. /\ before \in Seq(S) /\ Len(before) = i - 1
      /\ \A k \in 1..(i - 1) : before[k] = s[k]
  <2>1. \A k \in 1..(i-1) : s[k] \in S
    BY <1>1, LenProperties
  <2> QED BY <2>1, LenProperties, SubSeqProperties
<1>3. /\ after \in Seq(S) /\ Len(after) = Len(s) - i
      /\ \A k \in 1..(Len(s) - i) : after[k] = s[i + k]
  <2>1. \A k \in (i + 1)..Len(s) : s[k] \in S
    BY <1>1, LenProperties
  <2> QED BY <2>1, LenProperties, SubSeqProperties
<1> HIDE DEF before, after
<1>4. C!RemoveAt(s, i) = before \o after
  BY DEF C!RemoveAt, before, after
<1>5. /\ C!RemoveAt(s, i) \in Seq(S) /\ Len(C!RemoveAt(s, i)) = Len(s) - 1
      /\ \A k \in 1..(Len(s) - 1) : C!RemoveAt(s, i)[k] =
           IF k <= i - 1 THEN before[k] ELSE after[k - (i - 1)]
  <2>1. /\ before \o after \in Seq(S)
        /\ Len(before \o after) = Len(before) + Len(after)
        /\ \A k \in 1..(Len(before) + Len(after)) : (before \o after)[k] =
             IF k <= Len(before) THEN before[k] ELSE after[k - Len(before)]
    BY <1>2, <1>3, ConcatProperties
  <2>2. Len(before) + Len(after) = Len(s) - 1
    BY <1>2, <1>3, LenProperties
  <2> QED BY <1>2, <1>4, <2>1, <2>2
<1>6. ASSUME NEW j \in 1..(Len(s) - 1)
      PROVE  C!RemoveAt(s, i)[j] = IF j < i THEN s[j] ELSE s[j + 1]
  <2>1. CASE j < i
    BY <2>1, <1>2, <1>5, LenProperties
  <2>2. CASE j >= i
    <3>1. j - (i - 1) \in 1..(Len(s) - i) /\ i + (j - (i - 1)) = j + 1
      BY <2>2, LenProperties
    <3> QED BY <2>2, <3>1, <1>3, <1>5, LenProperties
  <2> QED BY <2>1, <2>2, LenProperties
<1> QED BY <1>5, <1>6

LEMMA HeadIsFirst ==
  ASSUME NEW S, NEW s \in Seq(S), s # <<>>
  PROVE  /\ Len(s) \in Nat /\ Len(s) > 0
         /\ Head(s) = s[1] /\ s[1] \in S
         /\ Tail(s) \in Seq(S) /\ Len(Tail(s)) = Len(s) - 1
         /\ \A i \in 1..(Len(s) - 1) : Tail(s)[i] = s[i + 1]
<1>1. Len(s) \in Nat /\ Len(s) # 0
  BY EmptySeq, LenProperties
<1>2. s[1] \in S
  BY <1>1, ElementOfSeq
<1>3. /\ Tail(s) \in Seq(S) /\ Len(Tail(s)) = Len(s) - 1
      /\ \A i \in 1..(Len(s) - 1) : Tail(s)[i] = s[i + 1]
  BY HeadTailProperties, <1>1
<1>4. Head(s) = s[1]
  BY <1>1
<1> QED BY <1>1, <1>2, <1>3, <1>4

\* Positions of a list that lie before all others are as many as the last of
\* them says.
LEMMA PrefixCounts ==
  ASSUME NEW n \in Nat, NEW P \in SUBSET (1..n),
         \A i \in P : \A j \in 1..n : j < i => j \in P
  PROVE  Cardinality(P) \in 0..n /\ P = 1..Cardinality(P)
<1>1. IsFiniteSet(1..n) /\ Cardinality(1..n) = n
  BY FS_Interval
<1>2. Cardinality(P) \in Nat /\ Cardinality(P) <= n
  BY <1>1, FS_Subset, FS_CardinalityType
<1>3. ASSUME NEW j \in P PROVE j <= Cardinality(P)
  <2>1. 1..j \subseteq P
    <3>1. ASSUME NEW k \in 1..j PROVE k \in P
      <4>1. k \in 1..n /\ (k < j \/ k = j)
        BY <1>3
      <4> QED BY <1>3, <4>1
    <3> QED BY <3>1
  <2>2. j \in Nat /\ IsFiniteSet(P)
    <3>1. j \in 1..n /\ P \subseteq 1..n
      OBVIOUS
    <3>2. IsFiniteSet(P)
      BY <1>1, <3>1, FS_Subset
    <3> QED BY <3>1, <3>2
  <2>3. IsFiniteSet(1..j) /\ Cardinality(1..j) = j
    BY <2>2, FS_Interval
  <2> QED BY <2>1, <2>2, <2>3, FS_Subset
<1>4. ASSUME NEW j \in 1..n, j \notin P PROVE j > Cardinality(P)
  <2>1. P \subseteq 1..(j - 1)
    <3>1. ASSUME NEW i \in P PROVE i \in 1..(j - 1)
      <4>1. i \in 1..n /\ i # j /\ ~(j < i)
        BY <1>4
      <4> QED BY <4>1
    <3> QED BY <3>1
  <2>2. IsFiniteSet(1..(j - 1)) /\ Cardinality(1..(j - 1)) = j - 1
    BY FS_Interval
  <2>3. Cardinality(P) <= Cardinality(1..(j - 1))
    BY Zenon, <2>1, <2>2, FS_Subset
  <2> QED BY <1>2, <2>2, <2>3
<1>5. P = 1..Cardinality(P)
  <2>1. ASSUME NEW j \in P PROVE j \in 1..Cardinality(P)
    BY <1>2, <1>3
  <2>2. ASSUME NEW j \in 1..Cardinality(P) PROVE j \in P
    BY <1>2, <1>4
  <2> QED BY <2>1, <2>2
<1> QED BY <1>2, <1>5

-----------------------------------------------------------------------------
Packets == [cookie : Nat, time : Nat, period : Times \cup {0}]

Ordered(s) ==
  \A i, j \in 1..Len(s) :
    i < j => s[i].time <= s[j].time /\ s[i].cookie # s[j].cookie

LEMMA InsertKeepsOrder ==
  ASSUME NEW s \in Seq(Packets), Ordered(s), NEW e \in Packets,
         NEW k \in 1..(Len(s) + 1),
         \A i \in 1..Len(s) :
           /\ s[i].cookie # e.cookie
           /\ i < k => s[i].time <= e.time
           /\ i >= k => e.time <= s[i].time
  PROVE  Ordered(C!InsertAt(s, k, e))
<1> DEFINE r == C!InsertAt(s, k, e)
<1>1. /\ Len(r) = Len(s) + 1 /\ Len(s) \in Nat
      /\ \A j \in 1..(Len(s) + 1) : r[j] = IF j < k THEN s[j]
                                           ELSE IF j = k THEN e ELSE s[j - 1]
  <2>1. Len(s) \in Nat
    BY LenProperties
  <2>2. Len(r) = Len(s) + 1 /\ Inserted(r, s, k, e)
    BY Zenon, InsertAtIs
  <2> QED BY <2>1, <2>2 DEF Inserted
<1>2. \A i \in 1..Len(s) : s[i].time \in Nat
  <2>1. \A i \in 1..Len(s) : s[i] \in Packets
    BY ElementOfSeq
  <2> QED BY <2>1 DEF Packets
<1>3. e.time \in Nat
  BY DEF Packets
<1> HIDE DEF r
<1>4. ASSUME NEW i \in 1..Len(r), NEW j \in 1..Len(r), i < j
      PROVE  r[i].time <= r[j].time /\ r[i].cookie # r[j].cookie
  <2>1. CASE j < k
    BY <1>1, <1>4, <2>1 DEF Ordered
  <2>2. CASE j = k
    BY <1>1, <1>4, <2>2
  <2>3. CASE i = k
    <3>1. r[i] = e /\ r[j] = s[j - 1] /\ j - 1 \in 1..Len(s) /\ j - 1 >= k
      BY <1>1, <1>4, <2>3
    <3> QED BY <3>1
  <2>4. CASE i < k /\ j > k
    <3>1. r[i] = s[i] /\ r[j] = s[j - 1] /\ i \in 1..Len(s)
            /\ j - 1 \in 1..Len(s) /\ i < j - 1
      BY <1>1, <1>4, <2>4
    <3> QED BY <3>1 DEF Ordered
  <2>5. CASE i > k
    <3>1. i - 1 \in 1..Len(s) /\ j - 1 \in 1..Len(s) /\ i - 1 < j - 1
      BY <1>1, <1>4, <2>5
    <3>2. r[i] = s[i - 1] /\ r[j] = s[j - 1]
      BY <1>1, <1>4, <2>5
    <3> QED BY <3>1, <3>2 DEF Ordered
  <2> QED BY <1>1, <1>4, <2>1, <2>2, <2>3, <2>4, <2>5
<1> QED BY <1>4 DEF Ordered, r

LEMMA RemoveKeepsOrder ==
  ASSUME NEW s \in Seq(Packets), Ordered(s), NEW k \in 1..Len(s)
  PROVE  /\ Ordered(C!RemoveAt(s, k))
         /\ \A i \in 1..Len(C!RemoveAt(s, k)) : \E j \in 1..Len(s) :
              /\ j # k /\ i <= j /\ C!RemoveAt(s, k)[i] = s[j]
<1> DEFINE r == C!RemoveAt(s, k)
<1>1. /\ Len(r) = Len(s) - 1 /\ Len(s) \in Nat
      /\ \A j \in 1..(Len(s) - 1) : r[j] = IF j < k THEN s[j] ELSE s[j + 1]
  BY RemoveAtIs, LenProperties
<1> HIDE DEF r
<1>2. ASSUME NEW i \in 1..Len(r)
      PROVE  \E j \in 1..Len(s) : j # k /\ i <= j /\ r[i] = s[j]
  <2>1. CASE i < k
    BY <1>1, <2>1
  <2>2. CASE i >= k
    <3>1. i + 1 \in 1..Len(s) /\ i + 1 # k /\ i <= i + 1 /\ r[i] = s[i + 1]
      BY <1>1, <2>2
    <3> QED BY <3>1
  <2> QED BY <2>1, <2>2
<1>3. ASSUME NEW i \in 1..Len(r), NEW j \in 1..Len(r), i < j
      PROVE  r[i].time <= r[j].time /\ r[i].cookie # r[j].cookie
  <2>1. CASE j < k
    BY <1>1, <1>3, <2>1 DEF Ordered
  <2>2. CASE i < k /\ j >= k
    <3>1. r[i] = s[i] /\ r[j] = s[j + 1] /\ i \in 1..Len(s)
            /\ j + 1 \in 1..Len(s) /\ i < j + 1
      BY <1>1, <1>3, <2>2
    <3> QED BY <3>1 DEF Ordered
  <2>3. CASE i >= k
    <3>1. r[i] = s[i + 1] /\ r[j] = s[j + 1] /\ i + 1 \in 1..Len(s)
            /\ j + 1 \in 1..Len(s) /\ i + 1 < j + 1
      BY <1>1, <1>3, <2>3
    <3> QED BY <3>1 DEF Ordered
  <2> QED BY <1>1, <1>3, <2>1, <2>2, <2>3
<1> QED BY <1>2, <1>3 DEF Ordered, r

-----------------------------------------------------------------------------
(* The clock's invariant.                                                  *)

\* The number of the clock's time and of the thread.
ClockTypes ==
  /\ ticks \in 0..MaxTicks /\ corrections \in 0..MaxDeltas
  /\ m_rtPrivateTime \in Int /\ m_rtLastGotTime \in Int
  /\ truth \in Int /\ rtNow \in Int /\ late \in Nat
  /\ m_dwPrevSystemTime \in 0..(2 * Half - 1)
  /\ event \in BOOLEAN /\ clockAbort \in BOOLEAN
  /\ thread \in {"waiting", "advising", "ended"}
  /\ until \in Nat \cup {C!INFINITE}

\* The counter was read less than half its range ago, and the time is right.
TimeInv ==
  /\ C!Unread \in 0..(Half - 1)
  /\ m_rtPrivateTime + C!Ms * C!Unread = truth

\* The list is in order, each request in it has a cookie of its own, and none
\* has been withdrawn.
ListInv ==
  /\ list \in Seq(Packets) /\ Ordered(list)
  /\ m_dwNextCookie \in 0..MaxCookie
  /\ withdrawn \subseteq 1..m_dwNextCookie
  /\ m_dwAdviseCount = Len(list)
  /\ \A i \in 1..Len(list) :
       list[i].cookie \in 1..m_dwNextCookie /\ list[i].cookie \notin withdrawn

\* The thread has looked at a time that is not too old, or will look again.
SleepInv ==
  /\ C!NeverOversleeps
  /\ thread = "advising" /\ list # <<>> => event \/ truth <= rtNow + late

ClockWhole == ClockTypes /\ TimeInv /\ ListInv /\ SleepInv

LEMMA ListElements ==
  ASSUME ListInv
  PROVE  /\ Len(list) \in Nat
         /\ list # <<>> => Head(list) = list[1] /\ Len(list) > 0
         /\ \A i \in 1..Len(list) : /\ list[i] \in Packets
                                   /\ list[i].time \in Nat
                                   /\ list[i].period \in Times \cup {0}
<1>1. \A i \in 1..Len(list) : list[i] \in Packets
  BY ElementOfSeq DEF ListInv
<1>2. Len(list) \in Nat
  BY LenProperties DEF ListInv
<1>3. list # <<>> => Head(list) = list[1] /\ Len(list) > 0
  BY HeadIsFirst DEF ListInv
<1> QED BY <1>1, <1>2, <1>3 DEF Packets

LEMMA ElapsedIsUnread ==
  ASSUME TimeInv, ClockTypes
  PROVE  C!PrivateTime = truth
<1>1. C!Elapsed = C!Unread
  <2>1. C!Elapsed = IF C!Unread < Half THEN C!Unread ELSE C!Unread - 2 * Half
    BY DEF C!Elapsed, C!Unread
  <2>2. C!Unread < Half
    BY MCClockAssumption DEF TimeInv, C!ClockAssumption
  <2> QED BY <2>1, <2>2
<1> QED BY <1>1 DEF TimeInv, C!PrivateTime

LEMMA ReadIsZero ==
  ASSUME ClockTypes
  PROVE  /\ C!dwTime \in 0..(2 * Half - 1)
         /\ (C!dwTime - C!dwTime) % (2 * Half) = 0
<1>1. 2 * Half \in Nat /\ 2 * Half > 0 /\ ticks + Half \in Int
  BY MCClockAssumption DEF C!ClockAssumption, ClockTypes
<1>2. C!dwTime \in 0..(2 * Half - 1)
  BY <1>1, Remainder DEF C!dwTime
<1>3. 0 % (2 * Half) = 0
  <2>1. 0 = (2 * Half) * 0 + 0 /\ 0 \in 0..(2 * Half - 1)
    BY <1>1
  <2> QED BY <1>1, <2>1, RemainderIsUnique
<1>4. C!dwTime - C!dwTime = 0
  BY <1>2
<1> QED BY <1>2, <1>3, <1>4

LEMMA ClockInit == C!Init => ClockWhole
<1> SUFFICES ASSUME C!Init PROVE ClockWhole
  OBVIOUS
<1> USE MCClockAssumption DEF C!ClockAssumption, C!Init
<1>1. ClockTypes
  <2>1. event \in BOOLEAN /\ clockAbort \in BOOLEAN
    OBVIOUS
  <2>2. m_dwPrevSystemTime \in 0..(2 * Half - 1)
    OBVIOUS
  <2> QED BY <2>1, <2>2 DEF ClockTypes
<1>2. ListInv
  BY EmptySeq DEF ListInv, Ordered
<1>3. SleepInv
  BY DEF SleepInv, C!NeverOversleeps
<1>4. TimeInv
  <2>1. Half % (2 * Half) = Half
    <3>1. Half = (2 * Half) * 0 + Half /\ Half \in 0..(2 * Half - 1)
            /\ 2 * Half \in Nat /\ 2 * Half > 0
      OBVIOUS
    <3> QED BY <3>1, RemainderIsUnique
  <2>2. C!dwTime = Half
    BY <2>1 DEF C!dwTime
  <2>3. C!Unread = 0
    BY <1>1, <2>2, ReadIsZero DEF C!Unread
  <2> QED BY <2>3 DEF TimeInv, C!Ms
<1> QED BY <1>1, <1>2, <1>3, <1>4 DEF ClockWhole

\* Time passes.
LEMMA TickKeeps ==
  ASSUME ClockWhole, C!Tick
  PROVE  ClockWhole'
<1> USE MCClockAssumption DEF C!ClockAssumption, ClockWhole, C!Tick,
        C!schedule, C!sleeper, C!Ms
<1>1. ClockTypes'
  BY DEF ClockTypes
<1>2. ListInv'
  BY DEF ListInv, Ordered
<1>3. SleepInv'
  BY DEF SleepInv, ClockTypes, C!NeverOversleeps, C!INFINITE
<1>4. TimeInv'
  <2>1. C!Unread' = C!Unread + 1
    <3>1. ticks \in Nat /\ m_dwPrevSystemTime \in Int /\ C!Unread < Half
      BY DEF ClockTypes, TimeInv
    <3>2. C!Unread' = (((ticks + 1 + Half) % (2 * Half)) - m_dwPrevSystemTime)
                        % (2 * Half)
      BY DEF C!Unread, C!dwTime
    <3> QED BY <3>1, <3>2, UnreadGrows DEF C!Unread, C!dwTime
  <2> QED BY <2>1, <1>1 DEF TimeInv, ClockTypes
<1> QED BY <1>1, <1>2, <1>3, <1>4

LEMMA ReadKeeps ==
  ASSUME ClockWhole, C!GetTime
  PROVE  ClockWhole'
<1> USE MCClockAssumption DEF C!ClockAssumption, ClockWhole, C!GetTime,
        C!schedule, C!sleeper, C!GetPrivateTime
<1>1. C!PrivateTime = truth
  BY ElapsedIsUnread
<1>2. ClockTypes'
  BY <1>1, ReadIsZero DEF ClockTypes
<1>3. ListInv'
  BY DEF ListInv, Ordered
<1>4. SleepInv'
  BY DEF SleepInv, ClockTypes, C!NeverOversleeps, C!INFINITE
<1>5. TimeInv'
  <2>1. C!Unread' = 0
    BY ReadIsZero DEF C!Unread, C!dwTime
  <2> QED BY <1>1, <2>1, <1>2 DEF TimeInv, ClockTypes, C!Ms
<1> QED BY <1>2, <1>3, <1>4, <1>5

LEMMA CorrectKeeps ==
  ASSUME ClockWhole, NEW d \in Deltas, C!SetTimeDelta(d)
  PROVE  ClockWhole'
<1> USE MCClockAssumption DEF C!ClockAssumption, ClockWhole, C!SetTimeDelta,
        C!schedule, C!sleeper
<1>1. ClockTypes'
  BY DEF ClockTypes, C!Smallest
<1>2. ListInv'
  BY DEF ListInv, Ordered
<1>3. SleepInv'
  <2>1. list # <<>> => m_dwAdviseCount > 0 /\ Head(list).time \in Nat
    BY ListElements DEF ListInv
  <2>2. d \in Int /\ truth \in Int /\ late \in Nat /\ rtNow \in Int
          /\ ticks \in Nat
    BY DEF ClockTypes
  <2>3. event \/ (d > C!Smallest /\ m_dwAdviseCount > 0) => event'
    BY Zenon
  <2>4. C!NeverOversleeps'
    <3> SUFFICES ASSUME thread = "waiting", ~event', ~clockAbort, list # <<>>
                 PROVE  (/\ until # C!INFINITE
                         /\ truth + C!Ms * (until - ticks) <= Head(list).time + late)'
      BY DEF C!NeverOversleeps
    <3>1. ~event /\ d <= C!Smallest
      BY <2>3, <2>1, <2>2 DEF C!Smallest
    <3>2. until \in Nat
            /\ truth + C!Ms * (until - ticks) <= Head(list).time + late
      BY <3>1 DEF SleepInv, C!NeverOversleeps, ClockTypes
    <3>3. truth' - truth <= late' - late /\ late' \in Nat
      BY <2>2, <3>1 DEF C!Smallest
    <3> QED BY <2>1, <2>2, <3>2, <3>3 DEF C!Ms, C!INFINITE
  <2>5. thread = "advising" /\ list # <<>> => event' \/ truth' <= rtNow + late'
    BY <2>3, <2>1, <2>2 DEF SleepInv, C!Smallest
  <2> QED BY <2>4, <2>5 DEF SleepInv
<1>4. TimeInv'
  BY DEF TimeInv, C!Unread, C!dwTime, ClockTypes, C!Ms
<1> QED BY <1>1, <1>2, <1>3, <1>4

\* The place of a time in a list that is in order: the requests before it are
\* earlier, those after it are not.
LEMMA PlaceIs ==
  ASSUME ListInv, NEW t \in Nat
  PROVE  /\ C!Place(t) \in 1..(Len(list) + 1)
         /\ \A i \in 1..Len(list) : i < C!Place(t) <=> list[i].time < t
<1> DEFINE P == {i \in 1..Len(list) : list[i].time < t}
<1>1. ASSUME NEW i \in P, NEW j \in 1..Len(list), j < i
      PROVE  j \in P
  BY <1>1, ListElements DEF ListInv, Ordered
<1>2. Cardinality(P) \in 0..Len(list) /\ P = 1..Cardinality(P)
  <2>1. Len(list) \in Nat /\ P \in SUBSET (1..Len(list))
    BY ListElements
  <2> HIDE DEF P
  <2> QED BY <1>1, <2>1, PrefixCounts
<1>3. C!Place(t) = 1 + Cardinality(P)
  BY DEF C!Place, C!Cardinality, Cardinality
<1>4. ASSUME NEW i \in 1..Len(list)
      PROVE  i < C!Place(t) <=> list[i].time < t
  <2>1. i \in P <=> list[i].time < t
    OBVIOUS
  <2> HIDE DEF P
  <2>2. i \in P <=> i <= Cardinality(P)
    BY <1>2
  <2> QED BY <1>2, <1>3, <2>1, <2>2
<1> HIDE DEF P
<1> QED BY <1>2, <1>3, <1>4, ListElements

LEMMA AdviseKeeps ==
  ASSUME ClockWhole, NEW t \in Times, NEW p \in Times \cup {0},
           C!AdviseTime(t, p)
  PROVE  ClockWhole'
<1> DEFINE e == C!Packet(m_dwNextCookie + 1, t, p)
           k == C!Place(t)
<1> USE DEF C!clock, C!sleeper
<1>1. /\ list' = C!InsertAt(list, k, e) /\ thread # "advising"
      /\ m_dwNextCookie' = m_dwNextCookie + 1 /\ m_dwNextCookie < MaxCookie
      /\ m_dwAdviseCount' = m_dwAdviseCount + 1
      /\ UNCHANGED <<C!clock, C!sleeper, withdrawn, late>>
  BY DEF C!AdviseTime, C!Unlocked
<1>2. event \/ k = 1 => event'
  BY Zenon DEF C!AdviseTime
<1>3. ClockTypes'
  <2>1. event' \in BOOLEAN
    BY DEF C!AdviseTime
  <2> QED BY <1>1, <2>1 DEF ClockWhole, ClockTypes
<1>4. TimeInv'
  BY <1>1 DEF ClockWhole, TimeInv, C!Unread, C!dwTime
<1>5. t \in Nat /\ MaxCookie \in Nat
  BY MCClockAssumption DEF C!ClockAssumption
<1>6. /\ k \in 1..(Len(list) + 1)
      /\ \A i \in 1..Len(list) : i < k <=> list[i].time < t
  BY <1>5, PlaceIs DEF ClockWhole
<1>7. e \in Packets /\ e.cookie = m_dwNextCookie + 1 /\ e.time = t
  BY <1>5 DEF Packets, C!Packet, ClockWhole, ListInv
<1> HIDE DEF e, k
<1>8. /\ list' \in Seq(Packets) /\ Len(list') = Len(list) + 1
      /\ \A j \in 1..(Len(list) + 1) :
           list'[j] = IF j < k THEN list[j] ELSE IF j = k THEN e
                      ELSE list[j - 1]
  <2>1. list \in Seq(Packets) /\ Len(list) + 1 \in Nat
    BY ListElements DEF ClockWhole, ListInv
  <2>2. /\ C!InsertAt(list, k, e) \in Seq(Packets)
        /\ Len(C!InsertAt(list, k, e)) = Len(list) + 1
        /\ Inserted(C!InsertAt(list, k, e), list, k, e)
    <3>1. k \in 1..(Len(list) + 1) /\ e \in Packets
      BY <1>6, <1>7
    <3> QED BY Zenon, <2>1, <3>1, InsertAtIs
  <2> QED BY <1>1, <2>2 DEF Inserted
<1>9. Ordered(list')
  <2>1. list \in Seq(Packets) /\ Ordered(list)
    BY DEF ClockWhole, ListInv
  <2>2. ASSUME NEW i \in 1..Len(list)
        PROVE  /\ list[i].cookie # e.cookie
               /\ i < k => list[i].time <= e.time
               /\ i >= k => e.time <= list[i].time
    <3>1. list[i].cookie \in 1..m_dwNextCookie /\ m_dwNextCookie \in Nat
      BY DEF ClockWhole, ListInv
    <3>2. list[i].time \in Nat
      BY ListElements DEF ClockWhole
    <3>3. k \in Int /\ i \in Int
      BY <1>6
    <3> QED BY <1>5, <1>6, <1>7, <3>1, <3>2, <3>3
  <2> QED BY <1>1, <1>6, <1>7, <2>1, <2>2, InsertKeepsOrder
<1>10. ListInv'
  <2>1. ASSUME NEW j \in 1..Len(list')
        PROVE  list'[j].cookie \in 1..m_dwNextCookie'
                 /\ list'[j].cookie \notin withdrawn'
    <3>1. list'[j] = e \/ \E i \in 1..Len(list) : list'[j] = list[i]
      <4>1. CASE j < k
        BY <1>6, <1>8, <4>1, ListElements DEF ClockWhole
      <4>2. CASE j > k
        <5>1. j - 1 \in 1..Len(list) /\ list'[j] = list[j - 1]
          BY <1>6, <1>8, <4>2, ListElements DEF ClockWhole
        <5> QED BY <5>1
      <4>3. CASE j = k
        BY <1>8, <4>3
      <4> QED BY <1>6, <1>8, <4>1, <4>2, <4>3
    <3> QED BY <1>1, <1>7, <3>1 DEF ClockWhole, ListInv
  <2> QED BY <1>1, <1>5, <1>8, <1>9, <2>1 DEF ClockWhole, ListInv
<1>11. SleepInv'
  <2>1. ASSUME ~event' PROVE list # <<>> /\ Head(list') = Head(list)
    <3>1. k # 1
      BY <1>2, <2>1
    <3>2. Len(list) > 0 /\ list # <<>>
      BY <1>6, <3>1, ListElements, EmptySeq DEF ClockWhole
    <3>3. Head(list') = list'[1] /\ Head(list) = list[1]
      BY <1>8, <3>2, ListElements DEF ClockWhole
    <3> QED BY <1>6, <1>8, <3>1, <3>2, <3>3
  <2> QED BY <1>1, <1>2, <2>1 DEF ClockWhole, SleepInv, C!NeverOversleeps
<1> QED BY <1>3, <1>4, <1>10, <1>11 DEF ClockWhole

LEMMA UnadviseKeeps ==
  ASSUME ClockWhole, NEW c \in 1..MaxCookie, C!Unadvise(c)
  PROVE  ClockWhole'
<1> USE DEF C!clock, C!sleeper
<1>1. PICK k \in 1..Len(list) : /\ list[k].cookie = c
                               /\ list' = C!RemoveAt(list, k)
                               /\ m_dwAdviseCount' = m_dwAdviseCount - 1
  BY DEF C!Unadvise
<1>2. /\ withdrawn' = withdrawn \cup {c} /\ thread # "advising"
      /\ UNCHANGED <<C!clock, C!sleeper, m_dwNextCookie, event, late>>
  BY DEF C!Unadvise, C!Unlocked
<1>3. ClockTypes'
  BY <1>2 DEF ClockWhole, ClockTypes
<1>4. TimeInv'
  BY <1>2 DEF ClockWhole, TimeInv, C!Unread, C!dwTime
<1>5. list \in Seq(Packets) /\ Ordered(list) /\ Len(list) \in Nat
  BY ListElements DEF ClockWhole, ListInv
<1>6. list' \in Seq(Packets) /\ Len(list') = Len(list) - 1
  BY <1>1, <1>5, RemoveAtIs
<1>7. /\ Ordered(list')
      /\ \A i \in 1..Len(list') : \E j \in 1..Len(list) :
           j # k /\ i <= j /\ list'[i] = list[j]
  BY <1>1, <1>5, RemoveKeepsOrder
<1>8. ListInv'
  <2>1. ASSUME NEW i \in 1..Len(list')
        PROVE  list'[i].cookie \in 1..m_dwNextCookie
                 /\ list'[i].cookie \notin withdrawn'
    <3>1. PICK j \in 1..Len(list) : j # k /\ list'[i] = list[j]
      BY <1>7
    <3>2. list[j].cookie # list[k].cookie
      BY <1>5, <3>1 DEF Ordered
    <3> QED BY <1>1, <1>2, <3>1, <3>2 DEF ClockWhole, ListInv
  <2>2. c \in 1..m_dwNextCookie
    BY <1>1 DEF ClockWhole, ListInv
  <2> QED BY <1>1, <1>2, <1>6, <1>7, <2>1, <2>2 DEF ClockWhole, ListInv
<1>9. SleepInv'
  <2>1. ASSUME list' # <<>>
        PROVE list # <<>> /\ Head(list).time <= Head(list').time
    <3>1. Len(list') > 0 /\ Head(list') = list'[1] /\ 1 \in 1..Len(list')
      BY <1>6, <2>1, HeadIsFirst
    <3>2. PICK j \in 1..Len(list) : list'[1] = list[j] /\ 1 <= j
      BY <1>7, <3>1
    <3>3. list # <<>> /\ Head(list) = list[1] /\ 1 \in 1..Len(list)
      BY <1>5, <1>6, <3>1, ListElements, EmptySeq DEF ClockWhole
    <3>4. list[1].time <= list[j].time
      <4>1. CASE j = 1
        BY <3>3, <4>1, ListElements DEF ClockWhole
      <4>2. CASE 1 < j
        BY <1>5, <3>3, <4>2 DEF Ordered
      <4> QED BY <3>2, <4>1, <4>2
    <3> QED BY <3>1, <3>2, <3>3, <3>4
  <2>2. \A i \in 1..Len(list) : list[i].time \in Nat
    BY ListElements DEF ClockWhole
  <2>3. ASSUME list' # <<>>
        PROVE Head(list).time \in Nat /\ Head(list').time \in Nat
    <3>1. Head(list) = list[1] /\ 1 \in 1..Len(list)
      BY <2>1, <2>3, ListElements DEF ClockWhole
    <3>2. Head(list') = list'[1] /\ 1 \in 1..Len(list')
      BY <1>6, <2>3, HeadIsFirst
    <3>3. PICK j \in 1..Len(list) : list'[1] = list[j]
      BY <1>7, <3>2
    <3> QED BY <2>2, <3>1, <3>2, <3>3
  <2>4. until' = until /\ ticks' = ticks /\ truth' = truth /\ late' = late
          /\ event' = event
        /\ clockAbort' = clockAbort /\ thread' = thread
    BY <1>2
  <2>5. until \in Nat \cup {C!INFINITE} /\ ticks \in Int /\ truth \in Int
          /\ late \in Nat
    BY DEF ClockWhole, ClockTypes
  <2> QED
    BY <1>2, <2>1, <2>3, <2>4, <2>5
       DEF ClockWhole, SleepInv, C!NeverOversleeps, C!Ms, C!INFINITE
<1> QED BY <1>3, <1>4, <1>8, <1>9 DEF ClockWhole

LEMMA WakeKeeps ==
  ASSUME ClockWhole, C!Wake
  PROVE  ClockWhole'
<1> USE MCClockAssumption DEF C!ClockAssumption, ClockWhole, C!Wake,
        C!schedule, C!GetPrivateTime
<1>1. C!PrivateTime = truth
  BY ElapsedIsUnread
<1>2. ClockTypes'
  <2>1. event' \in BOOLEAN /\ until' \in Nat \cup {C!INFINITE}
    OBVIOUS
  <2>2. thread' \in {"ended", "advising"}
    OBVIOUS
  <2>3. /\ rtNow' \in Int /\ m_rtPrivateTime' \in Int /\ late' \in Nat
        /\ m_dwPrevSystemTime' \in 0..(2 * Half - 1)
    BY <1>1, ReadIsZero DEF ClockTypes
  <2>4. UNCHANGED <<ticks, m_rtLastGotTime, truth, corrections, clockAbort>>
    OBVIOUS
  <2> HIDE DEF C!Wake
  <2> QED BY <2>1, <2>2, <2>3, <2>4 DEF ClockTypes
<1>3. ListInv'
  BY DEF ListInv, Ordered
<1>4. SleepInv'
  BY <1>1 DEF SleepInv, ClockTypes, C!NeverOversleeps, C!INFINITE
<1>5. TimeInv'
  <2>1. CASE clockAbort
    BY <2>1 DEF TimeInv, C!Unread, C!dwTime
  <2>2. CASE ~clockAbort
    <3>1. C!Unread' = 0
      BY <2>2, ReadIsZero DEF C!Unread, C!dwTime
    <3> QED BY <1>1, <2>2, <3>1, <1>2 DEF TimeInv, ClockTypes, C!Ms
  <2> QED BY <2>1, <2>2
<1> QED BY <1>2, <1>3, <1>4, <1>5

LEMMA SleepKeeps ==
  ASSUME ClockWhole, C!Sleep
  PROVE  ClockWhole'
<1> USE DEF ClockWhole, C!Sleep, C!schedule, C!clock
<1>1. list # <<>> => Head(list).time \in Nat /\ Head(list).time > rtNow + C!Ms
  <2> SUFFICES ASSUME list # <<>>
               PROVE Head(list).time \in Nat /\ Head(list).time > rtNow + C!Ms
    OBVIOUS
  <2>1. Head(list).time \in Nat
    BY ListElements
  <2>2. rtNow + C!Ms \in Int
    BY DEF ClockTypes, C!Ms
  <2> QED BY <2>1, <2>2 DEF C!Due
<1>2. ASSUME list # <<>>
      PROVE  /\ (Head(list).time - rtNow) \div C!Ms \in Nat
             /\ C!Ms * ((Head(list).time - rtNow) \div C!Ms) <= Head(list).time - rtNow
  <2> DEFINE x == Head(list).time - rtNow
  <2>1. x \in Int /\ x >= 2
    BY <1>1, <1>2 DEF ClockTypes, C!Ms
  <2> HIDE DEF x
  <2>2. x % 2 \in 0..1 /\ x \div 2 \in Int /\ x = 2 * (x \div 2) + (x % 2)
    BY <2>1, Remainder
  <2>3. x \div 2 \in Nat /\ 2 * (x \div 2) <= x
    BY <2>1, <2>2
  <2> QED BY <2>3 DEF x, C!Ms
<1>3. ClockTypes'
  BY <1>2 DEF ClockTypes, C!INFINITE
<1>4. ListInv'
  BY DEF ListInv, Ordered
<1>5. SleepInv'
  <2>1. CASE list = <<>>
    BY <2>1 DEF SleepInv, C!NeverOversleeps
  <2>2. CASE list # <<>>
    <3> DEFINE n == (Head(list).time - rtNow) \div C!Ms
    <3>1. n \in Nat /\ C!Ms * n <= Head(list).time - rtNow
      BY <1>2, <2>2
    <3>2. /\ thread' = "waiting" /\ until' = ticks + n /\ list' = list
          /\ UNCHANGED <<ticks, truth, late, event, clockAbort>>
      BY <2>2
    <3>3. ~event => truth <= rtNow + late
      BY <2>2 DEF SleepInv
    <3>4. ticks \in Nat /\ truth \in Int /\ rtNow \in Int /\ late \in Nat
      BY DEF ClockTypes
    <3> HIDE DEF n, ClockWhole, C!Sleep
    <3>5. ~event => truth + C!Ms * (until' - ticks) <= Head(list).time + late
      BY <1>1, <2>2, <3>1, <3>2, <3>3, <3>4 DEF C!Ms
    <3>6. until' # C!INFINITE
      BY <3>1, <3>2, <3>4 DEF C!INFINITE
    <3> QED BY <3>2, <3>5, <3>6 DEF SleepInv, C!NeverOversleeps
  <2> QED BY <2>1, <2>2
<1>6. TimeInv'
  BY DEF TimeInv, C!Unread, C!dwTime
<1> QED BY <1>3, <1>4, <1>5, <1>6

LEMMA FireKeeps ==
  ASSUME ClockWhole, C!Fire
  PROVE  ClockWhole'
<1> USE DEF ClockWhole, C!clock, C!sleeper
<1>1. /\ list # <<>> /\ list' = Tail(list)
      /\ m_dwAdviseCount' = m_dwAdviseCount - 1
      /\ thread = "advising"
      /\ UNCHANGED <<C!clock, m_dwNextCookie, withdrawn, event, C!sleeper, late>>
  BY DEF C!Fire, C!Due
<1>2. ClockTypes'
  BY <1>1 DEF ClockTypes
<1>3. ListInv'
  <2>1. /\ list \in Seq(Packets) /\ Len(list) \in Nat /\ Len(list) > 0
        /\ list' \in Seq(Packets) /\ Len(list') = Len(list) - 1
        /\ \A i \in 1..(Len(list) - 1) : list'[i] = list[i + 1]
    BY <1>1, HeadIsFirst DEF ListInv
  <2>2. \A i \in 1..Len(list') : i + 1 \in 1..Len(list)
          /\ list'[i] = list[i + 1]
    BY <2>1
  <2>3. Ordered(list')
    BY <2>2 DEF ListInv, Ordered
  <2> QED BY <1>1, <2>1, <2>2, <2>3 DEF ListInv
<1>4. SleepInv'
  BY <1>1 DEF SleepInv, C!NeverOversleeps
<1>5. TimeInv'
  BY <1>1 DEF TimeInv, C!Unread, C!dwTime
<1> QED BY <1>2, <1>3, <1>4, <1>5

LEMMA LaterPacket ==
  ASSUME NEW p \in Packets, NEW t \in Nat
  PROVE  /\ [p EXCEPT !.time = t] \in Packets
         /\ [p EXCEPT !.time = t].time = t
         /\ [p EXCEPT !.time = t].cookie = p.cookie
BY DEF Packets

LEMMA FirePeriodicKeeps ==
  ASSUME ClockWhole, C!FirePeriodic
  PROVE  ClockWhole'
<1> DEFINE next == Head(list).time + Head(list).period
           rest == Tail(list)
           Q == {i \in 2..Len(list) : list[i].time <= next}
           at == 1 + Cardinality(Q)
           e == [Head(list) EXCEPT !.time = next]
<1> USE DEF C!clock, C!sleeper
<1>1. /\ list # <<>> /\ thread = "advising"
      /\ list' = C!InsertAt(rest, at, e)
      /\ UNCHANGED <<C!clock, m_dwAdviseCount, m_dwNextCookie, withdrawn, event,
                     C!sleeper, late>>
  BY DEF C!FirePeriodic, C!Due, C!Cardinality, Cardinality
<1>2. ClockTypes'
  BY <1>1 DEF ClockWhole, ClockTypes
<1>3. SleepInv'
  BY <1>1, ListElements DEF ClockWhole, SleepInv, C!NeverOversleeps
<1>4. TimeInv'
  BY <1>1 DEF ClockWhole, TimeInv, C!Unread, C!dwTime
<1>5. /\ list \in Seq(Packets) /\ Ordered(list) /\ Len(list) \in Nat
      /\ Len(list) > 0
      /\ Head(list) = list[1] /\ Head(list) \in Packets
      /\ rest \in Seq(Packets) /\ Len(rest) = Len(list) - 1
      /\ \A i \in 1..(Len(list) - 1) : rest[i] = list[i + 1]
      /\ \A i \in 1..Len(list) : list[i].time \in Nat
  BY <1>1, HeadIsFirst, ListElements DEF ClockWhole, ListInv
<1>6. /\ next \in Nat /\ e \in Packets /\ e.time = next
      /\ e.cookie = list[1].cookie /\ list[1].time <= next
  <2>1. list[1] \in Packets /\ Head(list) = list[1]
    BY <1>5
  <2>2. list[1].time \in Nat /\ list[1].period \in Nat
    <3>1. list[1].time \in Nat /\ list[1].period \in Times \cup {0}
      BY <2>1 DEF Packets
    <3>2. \A t \in Times : t \in Nat
      <4>1. Times \subseteq Nat
        BY MCClockAssumption DEF C!ClockAssumption
      <4> QED BY Zenon, <4>1
    <3>3. CASE list[1].period \in Times
      BY Zenon, <3>1, <3>2, <3>3
    <3>4. CASE list[1].period = 0
      BY <3>1, <3>4
    <3> QED BY Zenon, <3>1, <3>3, <3>4
  <2>3. next \in Nat /\ list[1].time <= next
    BY <2>1, <2>2
  <2> HIDE DEF next
  <2> QED BY <2>1, <2>3, LaterPacket
<1>7. /\ at \in 1..(Len(rest) + 1)
      /\ \A i \in 1..Len(rest) : i < at <=> rest[i].time <= next
  <2> DEFINE P == {i \in 1..Len(rest) : rest[i].time <= next}
  <2>1. ASSUME NEW i \in P, NEW j \in 1..Len(rest), j < i PROVE j \in P
    <3>1. i + 1 \in 1..Len(list) /\ j + 1 \in 1..Len(list) /\ j + 1 < i + 1
      BY <1>5, <2>1
    <3>2. rest[j].time <= rest[i].time /\ rest[j].time \in Nat
            /\ rest[i].time \in Nat
      BY <1>5, <2>1, <3>1 DEF Ordered
    <3> QED BY <1>6, <3>2
  <2>2. Cardinality(P) \in 0..Len(rest) /\ P = 1..Cardinality(P)
    <3>1. Len(rest) \in Nat /\ P \in SUBSET (1..Len(rest))
      BY <1>5
    <3> HIDE DEF P
    <3> QED BY <2>1, <3>1, PrefixCounts
  <2>3. Cardinality(Q) = Cardinality(P)
    <3> DEFINE up == [i \in P |-> i + 1]
    <3>1. \A i \in P : i + 1 \in Q
      BY <1>5, <1>6
    <3>2. \A q \in Q : q - 1 \in P /\ (q - 1) + 1 = q
      BY <1>5, <1>6
    <3>3. \A i, j \in P : i + 1 = j + 1 => i = j
      BY <1>5
    <3>4. up \in Bijection(P, Q)
      <4> HIDE DEF P, Q
      <4>1. up \in [P -> Q]
        BY <3>1
      <4>2. \A i, j \in P : up[i] = up[j] => i = j
        BY <3>3
      <4>3. \A q \in Q : \E i \in P : up[i] = q
        BY <3>2
      <4> HIDE DEF up
      <4>4. up \in Injection(P, Q)
        BY <4>1, <4>2 DEF Injection, IsInjective
      <4>5. up \in Surjection(P, Q)
        BY <4>1, <4>3 DEF Surjection
      <4> QED BY <4>4, <4>5 DEF Bijection
    <3> HIDE DEF P, Q
    <3>5. IsFiniteSet(P)
      <4>1. IsFiniteSet(1..Cardinality(P))
        BY <2>2, FS_Interval
      <4> QED BY <2>2, <4>1
    <3>6. ExistsBijection(P, Q)
      BY <3>4 DEF ExistsBijection
    <3> QED BY <3>5, <3>6, FS_Bijection
  <2>4. ASSUME NEW i \in 1..Len(rest) PROVE i < at <=> rest[i].time <= next
    <3>1. i \in P <=> rest[i].time <= next
      OBVIOUS
    <3> HIDE DEF P, Q, next, rest
    <3> QED BY <2>2, <2>3, <3>1
  <2> HIDE DEF P, Q
  <2> QED BY <1>5, <2>2, <2>3, <2>4
<1> HIDE DEF next, rest, at, e
<1>8. /\ list' \in Seq(Packets) /\ Len(list') = Len(list)
      /\ \A j \in 1..(Len(rest) + 1) :
           list'[j] = IF j < at THEN rest[j] ELSE IF j = at THEN e
                      ELSE rest[j - 1]
  <2>1. /\ C!InsertAt(rest, at, e) \in Seq(Packets)
        /\ Len(C!InsertAt(rest, at, e)) = Len(rest) + 1
        /\ Inserted(C!InsertAt(rest, at, e), rest, at, e)
    <3>1. /\ rest \in Seq(Packets) /\ at \in 1..(Len(rest) + 1)
          /\ e \in Packets
      BY <1>5, <1>6, <1>7
    <3> QED BY Zenon, <3>1, InsertAtIs
  <2> QED BY <1>1, <1>5, <2>1 DEF Inserted
<1>9. Ordered(list')
  <2>1. Ordered(rest)
    <3>1. \A i \in 1..Len(rest) : i + 1 \in 1..Len(list)
            /\ rest[i] = list[i + 1]
      BY <1>5
    <3>2. Ordered(list)
      BY <1>5
    <3> QED BY <3>1, <3>2 DEF Ordered
  <2>2. ASSUME NEW i \in 1..Len(rest)
        PROVE  /\ rest[i].cookie # e.cookie
               /\ i < at => rest[i].time <= e.time
               /\ i >= at => e.time <= rest[i].time
    <3>1. i + 1 \in 1..Len(list) /\ 1 < i + 1 /\ 1 \in 1..Len(list)
            /\ rest[i] = list[i + 1]
      BY <1>5
    <3>2. rest[i].cookie # e.cookie
      BY <1>5, <1>6, <3>1 DEF Ordered
    <3>3. rest[i].time \in Nat /\ next \in Nat /\ at \in Int /\ i \in Int
      BY <1>5, <1>6, <1>7, <3>1
    <3> QED BY <1>6, <1>7, <3>2, <3>3
  <2>3. rest \in Seq(Packets) /\ at \in 1..(Len(rest) + 1) /\ e \in Packets
    BY <1>5, <1>6, <1>7
  <2> QED BY <1>1, <2>1, <2>2, <2>3, InsertKeepsOrder
<1>10. ListInv'
  <2>1. ASSUME NEW j \in 1..Len(list')
        PROVE  list'[j].cookie \in 1..m_dwNextCookie
                 /\ list'[j].cookie \notin withdrawn
    <3>1. j \in 1..(Len(rest) + 1) /\ at \in Int
      BY <1>5, <1>7, <1>8
    <3>2. \/ list'[j].cookie = list[1].cookie
          \/ \E i \in 1..Len(rest) : list'[j] = rest[i]
      <4>1. CASE j < at
        <5>1. j \in 1..Len(rest)
          BY <1>5, <1>7, <3>1, <4>1
        <5> QED BY <1>8, <3>1, <4>1, <5>1
      <4>2. CASE j > at
        <5>1. j - 1 \in 1..Len(rest) /\ list'[j] = rest[j - 1]
          BY <1>5, <1>7, <1>8, <3>1, <4>2
        <5> QED BY <5>1
      <4>3. CASE j = at
        BY <1>6, <1>8, <3>1, <4>3
      <4> QED BY <3>1, <4>1, <4>2, <4>3
    <3>3. 1 \in 1..Len(list) /\ \A i \in 1..Len(rest) : i + 1 \in 1..Len(list)
            /\ rest[i] = list[i + 1]
      BY <1>5
    <3> QED BY <3>2, <3>3 DEF ClockWhole, ListInv
  <2> QED BY <1>1, <1>8, <1>9, <2>1 DEF ClockWhole, ListInv
<1> QED BY <1>2, <1>3, <1>4, <1>10 DEF ClockWhole

LEMMA DestroyKeeps ==
  ASSUME ClockWhole, C!Destroy
  PROVE  ClockWhole'
<1> USE DEF ClockWhole, C!Destroy, C!clock, C!schedule
<1>1. ClockTypes'
  BY DEF ClockTypes
<1>2. ListInv'
  BY DEF ListInv, Ordered
<1>3. SleepInv'
  BY DEF SleepInv, C!NeverOversleeps
<1>4. TimeInv'
  BY DEF TimeInv, C!Unread, C!dwTime
<1> QED BY <1>1, <1>2, <1>3, <1>4

-----------------------------------------------------------------------------
(* What the clock's invariant implies.                                     *)

LEMMA ClockWholeStep ==
  ASSUME ClockWhole, [C!Next]_C!vars
  PROVE  ClockWhole'
<1>1. CASE C!Tick \/ C!GetTime
  BY <1>1, TickKeeps, ReadKeeps
<1>2. CASE \E d \in Deltas : C!SetTimeDelta(d)
  BY <1>2, CorrectKeeps
<1>3. CASE \E t \in Times, p \in Times \cup {0} : C!AdviseTime(t, p)
  BY <1>3, AdviseKeeps
<1>4. CASE \E c \in 1..MaxCookie : C!Unadvise(c)
  BY <1>4, UnadviseKeeps
<1>5. CASE C!AdviseThread
  BY <1>5, WakeKeeps, FireKeeps, FirePeriodicKeeps,
     SleepKeeps DEF C!AdviseThread
<1>6. CASE C!Destroy
  BY <1>6, DestroyKeeps
<1>7. CASE UNCHANGED C!vars
  BY <1>7 DEF C!vars, C!clock, C!schedule, C!sleeper, ClockWhole, ClockTypes,
              TimeInv, C!Unread, C!dwTime, ListInv, Ordered, SleepInv,
              C!NeverOversleeps
<1> QED BY <1>1, <1>2, <1>3, <1>4, <1>5, <1>6, <1>7 DEF C!Next, C!Gone

LEMMA ClockHolds == C!Spec => []ClockWhole
<1>1. C!Init => ClockWhole
  BY ClockInit
<1>2. ClockWhole /\ [C!Next]_C!vars => ClockWhole'
  BY ClockWholeStep
<1> QED BY <1>1, <1>2, PTL DEF C!Spec

LEMMA ClockTypesKept == C!Spec => []C!TypeOK
<1>1. ClockWhole => C!TypeOK
  <2> SUFFICES ASSUME ClockWhole PROVE C!TypeOK
    OBVIOUS
  <2>1. /\ ticks \in 0..MaxTicks /\ corrections \in 0..MaxDeltas
        /\ {m_rtPrivateTime, m_rtLastGotTime, truth, rtNow} \subseteq Int
        /\ m_dwPrevSystemTime \in 0..(2 * Half - 1)
    BY DEF ClockWhole, ClockTypes
  <2>2. \A i \in 1..Len(list) : /\ list[i].cookie \in 1..m_dwNextCookie
                                /\ list[i].time \in Nat
                                /\ list[i].period \in Times \cup {0}
    BY ListElements DEF ClockWhole, ListInv
  <2>3. m_dwAdviseCount \in Nat /\ m_dwNextCookie \in 0..MaxCookie
    BY ListElements DEF ClockWhole, ListInv
  <2>4. withdrawn \subseteq 1..MaxCookie
    BY MCClockAssumption DEF ClockWhole, ListInv, C!ClockAssumption
  <2> QED BY <2>1, <2>2, <2>3, <2>4 DEF ClockWhole, ClockTypes, C!TypeOK
<1> QED BY <1>1, ClockHolds, PTL

THEOREM ClockIsKept == C!Spec => []ClockKept
<1>1. ClockWhole => ClockKept
  <2> SUFFICES ASSUME ClockWhole PROVE ClockKept
    OBVIOUS
  <2>1. C!Sorted
    BY ListElements DEF ClockWhole, ListInv, Ordered, C!Sorted
  <2>2. C!CountExact /\ C!NeverAfterUnadvise
    BY DEF ClockWhole, ListInv, C!CountExact, C!NeverAfterUnadvise
  <2>3. C!NeverOversleeps
    BY DEF ClockWhole, SleepInv
  <2>4. C!TimeIsTrue
    BY ElapsedIsUnread DEF ClockWhole, C!TimeIsTrue
  <2> QED BY <2>1, <2>2, <2>3, <2>4 DEF ClockKept
<1> QED BY <1>1, ClockHolds, PTL

LEMMA ClockNeverBack == C!Spec => C!NeverBack
<1>1. ClockWhole /\ [C!Next]_C!vars
        => [m_rtLastGotTime' >= m_rtLastGotTime]_C!vars
  <2> SUFFICES ASSUME ClockWhole, C!Next
               PROVE m_rtLastGotTime' >= m_rtLastGotTime
    OBVIOUS
  <2>1. m_rtLastGotTime \in Int /\ C!PrivateTime \in Int
    BY ElapsedIsUnread DEF ClockWhole, ClockTypes
  <2>2. CASE C!GetTime
    BY <2>1, <2>2 DEF C!GetTime
  <2>3. C!GetTime \/ UNCHANGED m_rtLastGotTime
    BY DEF C!Next, C!AdviseThread, C!Wake, C!Fire, C!FirePeriodic, C!Sleep,
           C!Tick, C!SetTimeDelta, C!AdviseTime, C!Unadvise, C!Destroy, C!Gone,
           C!clock, C!vars
  <2> QED BY <2>1, <2>2, <2>3
<1> QED BY <1>1, ClockHolds, PTL DEF C!Spec, C!NeverBack

-----------------------------------------------------------------------------
(***************************************************************************)
(* The renderer and the clock side by side                                 *)
(***************************************************************************)
\* In the composition the renderer behaves as Renderer says and the clock as
\* Clock does.
LEMMA PartsAreThemselves == MCSpec => Spec /\ C!Spec
<1>1. MCInit => Init /\ C!Init
  BY DEF MCInit
<1>2. [MCNext]_<<part, vars, theClock>> => [Next]_vars /\ [C!Next]_C!vars
  BY DEF MCNext, theClock, C!vars, C!clock, C!schedule, C!sleeper
<1> QED BY <1>1, <1>2, PTL DEF MCSpec, Spec, C!Spec

\* Every variable of the renderer and of the clock always has a value of its
\* kind: a list of requests whose cookies are those given out, times that are
\* natural numbers, states and places the code has.
THEOREM RenderingTypes == MCSpec => []TypesOK
BY PartsAreThemselves, TypesKept, ClockTypesKept, PTL DEF TypesOK

\* Together they keep what each keeps: no step completes before the last sample, takes
\* a stop for an error or turns the clock back, and one shows a sample early only in a
\* Receive that a pause, a run or an orphan overtook.
THEOREM StepsStayRight == MCSpec => StepsAreRight
BY PartsAreThemselves, NoStepIsWrong, ClockNeverBack, PTL DEF StepsAreRight

\* The renderer's and the clock's own invariants hold of the two together.
THEOREM RenderingIsKept == MCSpec => [](RendererKept /\ ClockKept)
BY PartsAreThemselves, RendererIsKept, ClockIsKept, PTL
=============================================================================
