---------------------------- MODULE SourceStream ----------------------------
(***************************************************************************)
(* CSourceStream (source.cpp): an output pin of a source filter whose      *)
(* worker thread gets buffers, fills them and delivers them, between the   *)
(* commands that Active and Inactive give it.                              *)
(*                                                                         *)
(* The control thread holds the filter's lock throughout Active, Inactive  *)
(* and the destructor.  Steps of the worker end where it may wait: for a   *)
(* request, for a buffer, within Deliver.                                  *)
(***************************************************************************)
EXTENDS AMThread

CONSTANT MaxSamples  \* bound on the samples of a stream

SourceAssumption == MaxSamples \in Nat

VARIABLES
  control,      \* where the control thread is
  filterActive, \* IsActive: the filter is paused or running
  committed,    \* the allocator is committed
  sample,       \* the worker holds a sample
  filled,       \* auxiliary: samples of this stream so far
  ended,        \* auxiliary: the end of the stream has been delivered in this play
  told          \* auxiliary: the commands given since the thread was created

sourceVars == <<control, filterActive, committed, sample, filled, ended, told>>
vars == <<threadVars, sourceVars>>

Commands == {"CMD_INIT", "CMD_PAUSE", "CMD_RUN", "CMD_STOP", "CMD_EXIT"}
Results == {"NOERROR", "E_FAIL", "E_UNEXPECTED", "E_NOTIMPL"}

TypeOK ==
  /\ m_hThread \in BOOLEAN /\ m_EventSend \in BOOLEAN /\ m_EventComplete \in BOOLEAN
  /\ m_dwParam \in Commands \cup {Nobody} /\ m_dwReturnVal \in Results \cup {Nobody}
  /\ worker \in {Nobody, "wait", "ready", "loop", "buffer", "fill", "deliver", "reset",
                 "signal", "ended"}
  /\ control \in Commands \cup {"inactive", "created", "initialized", "active", "stopped",
                               "close", "failed", "delete", "deleted"}
  /\ filterActive \in BOOLEAN /\ committed \in BOOLEAN /\ sample \in BOOLEAN
  /\ filled \in 0..MaxSamples /\ ended \in BOOLEAN /\ told \subseteq Commands

Init ==
  /\ ThreadInit
  /\ control = "inactive" /\ filterActive = FALSE /\ committed = FALSE
  /\ sample = FALSE /\ filled = 0 /\ ended = FALSE /\ told = {}

-----------------------------------------------------------------------------
(* The control thread.                                                     *)

Call(command) ==
  /\ CallWorker(command)
  /\ control' = command
  /\ told' = told \cup {command}

\* CBaseOutputPin::Active commits the allocator; then the thread is created and
\* told to start.  A thread that is left over from a failure is not created.
Active ==
  /\ control = "inactive" /\ ~m_hThread
  /\ Create
  /\ control' = "created"
  /\ committed' = TRUE
  /\ told' = {} /\ ended' = FALSE /\ filled' = 0
  /\ UNCHANGED <<filterActive, sample>>

ThreadInitialize ==
  /\ control = "created"
  /\ Call("CMD_INIT")
  /\ UNCHANGED <<filterActive, committed, sample, filled, ended>>

\* A failure is returned as it is: nothing is undone.
Initialized ==
  /\ control = "CMD_INIT" /\ WorkerReturns
  /\ control' = IF m_dwReturnVal = "NOERROR" THEN "initialized" ELSE "failed"
  /\ UNCHANGED <<filterActive, committed, sample, filled, ended, told>>

Pause ==
  /\ control = "initialized"
  /\ Call("CMD_PAUSE")
  /\ UNCHANGED <<filterActive, committed, sample, filled, ended>>

\* CBaseFilter::Pause goes on to the next pin, and fails if that one does: it does
\* not make this one inactive again, and Stop passes over a stopped filter.
Paused ==
  /\ control = "CMD_PAUSE" /\ WorkerReturns
  /\ \/ control' = "active" /\ filterActive' = TRUE
     \/ control' = "failed" /\ UNCHANGED filterActive
  /\ UNCHANGED <<committed, sample, filled, ended, told>>

\* CSourceStream::Run, for whoever calls it while the pin is active.
Run ==
  /\ control = "active" /\ "CMD_RUN" \notin told
  /\ Call("CMD_RUN")
  /\ UNCHANGED <<filterActive, committed, sample, filled, ended>>

RunReturns ==
  /\ control = "CMD_RUN" /\ WorkerReturns
  /\ control' = "active"
  /\ UNCHANGED <<filterActive, committed, sample, filled, ended, told>>

\* CBaseOutputPin::Inactive decommits the allocator before the thread is told:
\* it may be waiting for a buffer.
Inactive ==
  /\ control = "active"
  /\ committed' = FALSE
  /\ Call("CMD_STOP")
  /\ UNCHANGED <<filterActive, sample, filled, ended>>

\* Fault: Inactive does not wait for the thread to have stopped.
ExitAtOnce ==
  /\ control = "CMD_STOP"
  /\ control' = "inactive"
  /\ filterActive' = FALSE
  /\ UNCHANGED <<threadVars, committed, sample, filled, ended, told>>

Exit ==
  /\ control = "CMD_STOP" /\ WorkerReturns
  /\ control' = "stopped"
  /\ UNCHANGED <<filterActive, committed, sample, filled, ended, told>>

ThreadExit ==
  /\ control = "stopped"
  /\ Call("CMD_EXIT")
  /\ UNCHANGED <<filterActive, committed, sample, filled, ended>>

Exited ==
  /\ control = "CMD_EXIT" /\ WorkerReturns
  /\ control' = "close"
  /\ UNCHANGED <<filterActive, committed, sample, filled, ended, told>>

Closed ==
  /\ control = "close" /\ Close
  /\ control' = "inactive"
  /\ filterActive' = FALSE
  /\ UNCHANGED <<committed, sample, filled, ended, told>>

\* The destructor of a pin that is not active: that of CAMThread closes what
\* thread there is.
Delete ==
  /\ control \in {"inactive", "failed"}
  /\ control' = IF m_hThread THEN "delete" ELSE "deleted"
  /\ UNCHANGED <<threadVars, filterActive, committed, sample, filled, ended, told>>

Deleted ==
  /\ control = "delete" /\ Close
  /\ control' = "deleted"
  /\ UNCHANGED <<filterActive, committed, sample, filled, ended, told>>

Gone == control = "deleted" /\ UNCHANGED vars

-----------------------------------------------------------------------------
(* The worker: ThreadProc and DoBufferProcessingLoop.                      *)

unmoved == <<control, filterActive, committed, told>>

Go(place) ==
  /\ worker' = place
  /\ UNCHANGED <<m_hThread, m_EventSend, m_EventComplete, m_dwParam, m_dwReturnVal, reply>>

\* OnThreadCreate may fail; then the thread ends.
OnInit ==
  /\ GetRequest("CMD_INIT")
  /\ \/ Reply("NOERROR", "ready")
     \/ Reply("E_FAIL", "ended")
  /\ UNCHANGED sourceVars

OnUnexpected ==
  /\ worker = "wait" /\ m_EventSend /\ m_dwParam # "CMD_INIT"
  /\ Reply("E_UNEXPECTED", "wait")
  /\ UNCHANGED sourceVars

\* The commands outside the loop.
OnRequest ==
  /\ worker = "ready" /\ m_EventSend
  /\ CASE m_dwParam = "CMD_EXIT" -> Reply("NOERROR", "ended") /\ UNCHANGED ended
       [] m_dwParam \in {"CMD_RUN", "CMD_PAUSE"} -> Reply("NOERROR", "loop") /\ ended' = FALSE
       [] m_dwParam = "CMD_STOP" -> Reply("NOERROR", "ready") /\ UNCHANGED ended
       [] OTHER -> Reply("E_NOTIMPL", "ready") /\ UNCHANGED ended
  /\ UNCHANGED <<unmoved, sample, filled>>

\* Within it: CMD_STOP ends the loop and is left for ThreadProc to answer.
Loop ==
  /\ worker = "loop"
  /\ IF CheckRequest
     THEN CASE m_dwParam \in {"CMD_RUN", "CMD_PAUSE"} -> Reply("NOERROR", "loop")
            [] m_dwParam = "CMD_STOP" -> Go("ready")
            [] OTHER -> Reply("E_UNEXPECTED", "loop")
     ELSE Go("buffer")
  /\ UNCHANGED sourceVars

\* GetDeliveryBuffer waits while the allocator is committed, and fails when it
\* is not; then the loop tries again, after a look for a request.
GetDeliveryBuffer ==
  /\ worker = "buffer"
  /\ IF committed
     THEN Go("fill") /\ sample' = TRUE
     ELSE Go("loop") /\ UNCHANGED sample
  /\ UNCHANGED <<unmoved, filled, ended>>

\* FillBuffer has a sample, or is at the end of the stream, or fails.
FillBuffer ==
  /\ worker = "fill"
  /\ \/ filled < MaxSamples /\ filled' = filled + 1 /\ Go("deliver") /\ UNCHANGED <<sample, ended>>
     \/ Go("ready") /\ sample' = FALSE /\ ended' = TRUE /\ UNCHANGED filled
  /\ UNCHANGED unmoved

\* A result other than S_OK ends the loop: the pin downstream is stopped.
Deliver ==
  /\ worker = "deliver"
  /\ sample' = FALSE
  /\ Go("loop") \/ Go("ready")
  /\ UNCHANGED <<unmoved, filled, ended>>

-----------------------------------------------------------------------------
\* The worker takes its steps, except that it may be kept waiting for a buffer
\* while the allocator is committed, and within Deliver until the filters
\* downstream have stopped, which the graph does before it stops this one.
Worker == OnInit \/ OnUnexpected \/ OnRequest \/ Loop \/ FillBuffer \/ (Replying /\ UNCHANGED sourceVars)

Control ==
  \/ ThreadInitialize \/ Initialized \/ Pause \/ Paused \/ RunReturns \/ Exit \/ ThreadExit
  \/ Exited \/ Closed \/ Deleted

Next ==
  \/ Active \/ Run \/ Inactive \/ Control \/ Delete \/ Gone
  \/ Worker \/ GetDeliveryBuffer \/ Deliver

Fairness ==
  /\ WF_vars(Worker) /\ WF_vars(Control)
  /\ WF_vars(~committed /\ GetDeliveryBuffer)
  /\ WF_vars(control = "CMD_STOP" /\ Deliver)

Spec == Init /\ [][Next]_vars /\ Fairness

-----------------------------------------------------------------------------
(* Properties.                                                             *)

\* The answer that a caller gets is the one to its own request: the request is
\* taken back before the caller can make the next one.
AnswersMatch ==
  [][m_EventComplete /\ ~m_EventComplete' =>
       reply.to = m_dwParam /\ m_dwReturnVal = reply.value /\ ~m_EventSend]_vars

\* Nobody but the worker in its loop holds a sample: when Inactive has returned
\* none is left to be delivered.
InactiveHoldsNothing ==
  control \in {"stopped", "inactive", "deleted"} \/ ~m_hThread => ~sample

\* Nothing is delivered after the end of the stream, in a play.
NothingAfterEnd == [][sample' => ~ended']_vars

\* A stop is never refused, and each command is answered by the part of the
\* worker that is meant to.
NeverUnexpected == m_dwReturnVal \notin {"E_UNEXPECTED", "E_NOTIMPL"}

\* The pin is active but its filter is not, and nobody makes the pin inactive.
Abandoned == control \in {"failed", "delete"} /\ "CMD_PAUSE" \in told

\* Active, Inactive and the destructor return.  Run need not: it waits for the
\* worker to come out of Deliver.  Nor does the destructor of a pin whose filter
\* could not pause because of another pin (amfilter.cpp:573): Close waits for a
\* thread that nobody has told to exit.
ControlReturns ==
  control \notin {"inactive", "active", "failed", "deleted", "CMD_RUN"} ~>
    control \in {"inactive", "active", "failed", "deleted"} \/ Abandoned

\* Close is for a thread that has been told to exit, or has ended by itself; of a
\* pin left active it is for one that runs.
CloseAfterExit ==
  control \in {"close", "delete"} =>
    "CMD_EXIT" \in told \/ worker = "ended" \/ Abandoned

=============================================================================
