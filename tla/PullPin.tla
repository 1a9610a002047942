------------------------------- MODULE PullPin -------------------------------
(***************************************************************************)
(* CPullPin (pullpin.cpp): an input pin that pulls, whose worker thread    *)
(* asks an IAsyncReader of the pin upstream for samples, two requests      *)
(* ahead of the answers, and gives them to the filter, until the end of    *)
(* the range, a refusal, or a command.                                     *)
(*                                                                         *)
(* Positions are multiples of the size of a sample.  Active, Inactive,     *)
(* Seek and Disconnect hold m_AccessLock from beginning to end: they are   *)
(* one control thread.  The reader, external, answers requests in order,   *)
(* and fails them while it is flushing; that its BeginFlush may fail, and  *)
(* PauseThread or StopThread give up before the command (pullpin.cpp:258,  *)
(* 281), is left out.                                                      *)
(***************************************************************************)
EXTENDS AMThread, Sequences

CONSTANTS
  Length,  \* of the stream: m_tDuration
  MaxSeeks \* bound on the seeks

PullAssumption == Length \in Nat \ {0} /\ MaxSeeks \in Nat

VARIABLES
  setting,    \* m_bSync, and more than one buffer in the allocator
  control,    \* where the control thread is
  todo,       \* the call in progress: what is left of it
  m_State,    \* the last command given
  m_tStart, m_tStop, tCurrent,
  range,      \* the start and the end that Process has read
  committed,  \* the allocator
  requests,   \* what the reader has been asked for and has not given back
  flushing,   \* the reader is flushing
  downFlushing, \* the filter downstream is flushing
  received,   \* auxiliary: since Process began, what the filter has received
  seeks       \* auxiliary: bounds the seeks

End == -1
pullVars == <<m_tStart, m_tStop, tCurrent, range, requests, flushing, downFlushing, received>>
vars == <<threadVars, setting, control, todo, m_State, committed, seeks, pullVars>>

Commands == {"TM_Pause", "TM_Start", "TM_Exit"}

TypeOK ==
  /\ setting \in [sync : BOOLEAN, ahead : BOOLEAN]
  /\ worker \in {Nobody, "wait", "start", "check", "ask", "again", "collect", "last",
                 "read", "flush", "clean", "unflush", "reset", "signal", "ended"}
  /\ control \in {"idle", "call", "sent"}
  /\ todo \in Seq({"downFlush", "flush", "downEnd", "end", "seek", "close"} \cup Commands)
  /\ m_State \in Commands
  /\ m_tStart \in 0..Length /\ m_tStop \in 0..Length /\ tCurrent \in 0..Length
  /\ range \in (0..Length) \X (0..Length)
  /\ committed \in BOOLEAN /\ flushing \in BOOLEAN /\ downFlushing \in BOOLEAN
  /\ requests \in Seq(0..Length) /\ Len(requests) <= 2
  /\ received \in Seq(0..Length \cup {End})
  /\ seeks \in 0..MaxSeeks

Init ==
  /\ ThreadInit
  /\ setting \in [sync : BOOLEAN, ahead : BOOLEAN]
  /\ control = "idle" /\ todo = <<>> /\ m_State = "TM_Exit"
  /\ m_tStart = 0 /\ m_tStop = Length /\ tCurrent = 0 /\ range = <<0, 0>>
  /\ committed = FALSE /\ flushing = FALSE /\ downFlushing = FALSE
  /\ requests = <<>> /\ received = <<>> /\ seeks = 0

-----------------------------------------------------------------------------
(* The control thread: a call, and then what it does one by one.           *)

\* Active: StartThread commits the allocator and creates the thread.
Active ==
  /\ control = "idle" /\ Create
  /\ control' = "call" /\ todo' = <<"TM_Start">>
  /\ committed' = TRUE
  /\ UNCHANGED <<setting, m_State, seeks, pullVars>>

\* Inactive and Disconnect: StopThread.
StopThread ==
  /\ control = "idle" /\ m_hThread
  /\ control' = "call" /\ todo' = <<"flush", "TM_Exit", "end", "close">>
  /\ UNCHANGED <<threadVars, setting, m_State, committed, seeks, pullVars>>

\* PauseThread, between a flush downstream and its end, then StartThread.
Seek ==
  /\ control = "idle" /\ seeks < MaxSeeks /\ seeks' = seeks + 1
  /\ control' = "call"
  /\ todo' = IF m_State = "TM_Start"
             THEN <<"downFlush", "flush", "TM_Pause", "end", "downEnd", "seek", "TM_Start">>
             ELSE <<"seek">>
  /\ UNCHANGED <<threadVars, setting, m_State, committed, pullVars>>

Now(what) == control = "call" /\ todo # <<>> /\ Head(todo) = what

Flush ==
  /\ \/ Now("flush") /\ flushing' = TRUE /\ UNCHANGED downFlushing
     \/ Now("end") /\ flushing' = FALSE /\ UNCHANGED downFlushing
     \/ Now("downFlush") /\ downFlushing' = TRUE /\ UNCHANGED flushing
     \/ Now("downEnd") /\ downFlushing' = FALSE /\ UNCHANGED flushing
  /\ todo' = Tail(todo)
  /\ UNCHANGED <<threadVars, setting, control, m_State, committed, seeks, m_tStart, m_tStop,
                 tCurrent, range, requests, received>>

SetRange ==
  /\ Now("seek")
  /\ m_tStart' \in 0..Length /\ m_tStop' \in 0..Length
  /\ todo' = Tail(todo)
  /\ UNCHANGED <<threadVars, setting, control, m_State, committed, seeks, tCurrent, range,
                 requests, flushing, downFlushing, received>>

Send ==
  /\ \E command \in Commands :
       /\ Now(command)
       /\ CallWorker(command)
       /\ m_State' = command
  /\ control' = "sent"
  /\ UNCHANGED <<setting, todo, committed, seeks, pullVars>>

Answered ==
  /\ control = "sent" /\ WorkerReturns
  /\ control' = "call" /\ todo' = Tail(todo)
  /\ UNCHANGED <<setting, m_State, committed, seeks, pullVars>>

\* Only when the thread has ended is the allocator decommitted.
Decommit ==
  /\ Now("close") /\ Close
  /\ todo' = Tail(todo)
  /\ committed' = FALSE
  /\ UNCHANGED <<setting, control, m_State, seeks, pullVars>>

Return ==
  /\ control = "call" /\ todo = <<>>
  /\ control' = "idle"
  /\ UNCHANGED <<threadVars, setting, todo, m_State, committed, seeks, pullVars>>

-----------------------------------------------------------------------------
(* The worker.                                                             *)

calls == <<setting, control, todo, m_State, committed, seeks>>

Go(place) ==
  /\ worker' = place
  /\ UNCHANGED <<m_hThread, m_EventSend, m_EventComplete, m_dwParam, m_dwReturnVal, reply>>

OnRequest ==
  /\ \/ GetRequest("TM_Exit") /\ Reply("S_OK", "ended")
     \/ GetRequest("TM_Pause") /\ Reply("S_OK", "flush")
     \/ GetRequest("TM_Start") /\ Reply("S_OK", "start")
  /\ UNCHANGED <<calls, pullVars>>

EndOfStream ==
  /\ Go("flush")
  /\ received' = IF downFlushing THEN received ELSE Append(received, End)

\* Process reads the range; an empty one ends at once.
ProcessStart ==
  /\ worker = "start"
  /\ range' = <<m_tStart, m_tStop>>
  /\ tCurrent' = m_tStart
  /\ IF m_tStop <= m_tStart
     THEN /\ Go("flush")
          /\ received' = IF downFlushing THEN <<>> ELSE <<End>>
     ELSE Go("check") /\ received' = <<>>
  /\ UNCHANGED <<calls, m_tStart, m_tStop, requests, flushing, downFlushing>>

\* The outer loops, with or without overlapped requests.
Check ==
  /\ worker = "check"
  /\ IF tCurrent >= range[2]
     THEN EndOfStream
     ELSE /\ UNCHANGED received
          /\ IF CheckRequest THEN Go("flush")
             ELSE Go(IF setting.sync THEN "read" ELSE IF setting.ahead THEN "ask" ELSE "again")
  /\ UNCHANGED <<calls, m_tStart, m_tStop, tCurrent, range, requests, flushing, downFlushing>>

\* CleanupCancelled takes back what the reader has done with: all of it when it
\* is flushing, else what has been answered.
CleanupCancelled ==
  \E n \in 0..Len(requests) :
    /\ flushing => n = Len(requests)
    /\ requests' = SubSeq(requests, n + 1, Len(requests))

\* QueueSample: no buffer, or a request that is refused, ends Process.
QueueSample(next) ==
  \/ /\ committed /\ ~flushing
     /\ requests' = Append(requests, tCurrent)
     /\ tCurrent' = tCurrent + 1
     /\ Go(next)
  \/ /\ CleanupCancelled
     /\ Go("flush")
     /\ UNCHANGED tCurrent

Ask ==
  /\ \/ worker = "ask" /\ QueueSample("again")
     \/ worker = "again" /\ tCurrent < range[2] /\ QueueSample("collect")
     \/ /\ worker = "again" /\ tCurrent >= range[2]
        /\ Go(IF setting.ahead THEN "last" ELSE "check")
        /\ UNCHANGED <<requests, tCurrent>>
  /\ UNCHANGED <<calls, m_tStart, m_tStop, range, flushing, downFlushing, received>>

\* DeliverSample: the filter receives the sample and says S_OK or S_FALSE, or
\* refuses it.
DeliverSample(at, hr) ==
  /\ hr = "S_OK" => ~downFlushing
  /\ received' = IF hr = "S_OK" THEN Append(received, at) ELSE received

\* CollectAndDeliver, whose S_FALSE is not heeded for the last sample.
Collect ==
  /\ worker \in {"collect", "last"} /\ requests # <<>>
  /\ \/ \E hr \in {"S_OK", "S_FALSE"} :
          /\ ~flushing
          /\ DeliverSample(Head(requests), hr)
          /\ requests' = Tail(requests)
          /\ Go(IF worker = "last" THEN "check" ELSE IF hr = "S_OK" THEN "again" ELSE "flush")
     \/ /\ \E n \in 1..Len(requests) :
             /\ flushing => n = Len(requests)
             /\ requests' = SubSeq(requests, n + 1, Len(requests))
        /\ Go("flush")
        /\ UNCHANGED received
  /\ UNCHANGED <<calls, m_tStart, m_tStop, tCurrent, range, flushing, downFlushing>>

\* SyncReadAligned and what is done with its sample.
Read ==
  /\ worker = "read"
  /\ \/ \E hr \in {"S_OK", "S_FALSE"} :
          /\ committed
          /\ DeliverSample(tCurrent, hr)
          /\ tCurrent' = tCurrent + 1
          /\ Go(IF hr = "S_OK" THEN "check" ELSE "flush")
     \/ Go("flush") /\ UNCHANGED <<received, tCurrent>>
  /\ UNCHANGED <<calls, m_tStart, m_tStop, range, requests, flushing, downFlushing>>

\* Fault: what is left of the requests is looked for without a flush.
CleanOnly ==
  /\ \/ worker = "flush" /\ Go("clean") /\ UNCHANGED <<flushing, requests>>
     \/ worker = "clean" /\ Go("unflush") /\ CleanupCancelled /\ UNCHANGED flushing
     \/ worker = "unflush" /\ Go("wait") /\ UNCHANGED <<flushing, requests>>
  /\ UNCHANGED <<calls, m_tStart, m_tStop, tCurrent, range, downFlushing, received>>

\* The end of the loop of ThreadProc.
Clean ==
  /\ \/ worker = "flush" /\ Go("clean") /\ flushing' = TRUE /\ UNCHANGED requests
     \/ worker = "clean" /\ Go("unflush") /\ CleanupCancelled /\ UNCHANGED flushing
     \/ worker = "unflush" /\ Go("wait") /\ flushing' = FALSE /\ UNCHANGED requests
  /\ UNCHANGED <<calls, m_tStart, m_tStop, tCurrent, range, downFlushing, received>>

-----------------------------------------------------------------------------
Worker ==
  \/ OnRequest \/ ProcessStart \/ Check \/ Ask \/ Clean
  \/ (Replying /\ UNCHANGED <<calls, pullVars>>)
Control == Flush \/ SetRange \/ Send \/ Answered \/ Decommit \/ Return
Next == Active \/ StopThread \/ Seek \/ Control \/ Worker \/ Collect \/ Read

\* The reader answers when it is flushed, if not before; the filter returns
\* from Receive when it is flushed, or stopped, as it is before this pin.
Fairness ==
  /\ WF_vars(Worker) /\ WF_vars(Control)
  /\ WF_vars(flushing /\ Collect)
  /\ WF_vars(control # "idle" /\ Read)

Spec == Init /\ [][Next]_vars /\ Fairness

-----------------------------------------------------------------------------
(* Properties.                                                             *)

\* When the worker waits for a request or answers one, the reader has nothing of
\* its: neither a refusal, nor an error, nor a flush leaves a sample behind.
NoRequestLeft == worker \in {Nobody, "wait", "reset", "signal", "start", "ended"} => requests = <<>>

\* The filter receives the samples of the range in order without a gap, and the
\* end of the stream after all of them, but for a last one that it refused.
InOrder ==
  /\ \A i \in DOMAIN received :
       \/ received[i] = range[1] + i - 1 /\ received[i] < range[2]
       \/ received[i] = End /\ i = Len(received)
  /\ received # <<>> /\ received[Len(received)] = End =>
       Len(received) + (IF setting.ahead /\ ~setting.sync THEN 1 ELSE 0) > range[2] - range[1]

\* From the answer to TM_Pause or TM_Exit on, until the next start, nothing is
\* asked of the reader and nothing is given to the filter, whose flush may end.
Quiet ==
  control = "call" /\ todo # <<>> /\ Head(todo) \in {"end", "downEnd", "seek", "close"} =>
    worker \in {"wait", "flush", "clean", "unflush", "ended"} \/ ~m_hThread

ControlReturns == control # "idle" ~> control = "idle"

=============================================================================
