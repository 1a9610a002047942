------------------------------ MODULE AMThread ------------------------------
(***************************************************************************)
(* CAMThread (wxutil.cpp, wxutil.h): a worker thread that is given one     *)
(* request at a time, and whose answer the caller waits for.  The derived  *)
(* classes, SourceStream and PullPin, say what the worker does.            *)
(***************************************************************************)
EXTENDS Integers

VARIABLES
  m_hThread,        \* the thread exists
  m_EventSend,      \* manual-reset: there is a request
  m_EventComplete,  \* auto-reset: there is an answer
  m_dwParam, m_dwReturnVal,
  worker,           \* where the thread is
  reply             \* within Reply: the request, the answer, what comes next

threadVars == <<m_hThread, m_EventSend, m_EventComplete, m_dwParam, m_dwReturnVal,
                worker, reply>>

Nobody == "none"
NoReply == [to |-> Nobody, value |-> Nobody, next |-> Nobody]

ThreadInit ==
  /\ m_hThread = FALSE
  /\ m_EventSend = FALSE /\ m_EventComplete = FALSE
  /\ m_dwParam = Nobody /\ m_dwReturnVal = Nobody
  /\ worker = Nobody /\ reply = NoReply

-----------------------------------------------------------------------------
(* What the caller does, with m_AccessLock.                                *)

Create ==
  /\ ~m_hThread
  /\ m_hThread' = TRUE
  /\ worker' = "wait"
  /\ UNCHANGED <<m_EventSend, m_EventComplete, m_dwParam, m_dwReturnVal, reply>>

\* CallWorker, up to its wait ...
CallWorker(request) ==
  /\ m_hThread
  /\ m_dwParam' = request
  /\ m_EventSend' = TRUE
  /\ UNCHANGED <<m_hThread, m_EventComplete, m_dwReturnVal, worker, reply>>

\* ... and from the end of it.
WorkerReturns ==
  /\ m_EventComplete
  /\ m_EventComplete' = FALSE
  /\ UNCHANGED <<m_hThread, m_EventSend, m_dwParam, m_dwReturnVal, worker, reply>>

\* Close waits for the end of the thread.
Close ==
  /\ m_hThread /\ worker = "ended"
  /\ m_hThread' = FALSE
  /\ worker' = Nobody
  /\ UNCHANGED <<m_EventSend, m_EventComplete, m_dwParam, m_dwReturnVal, reply>>

-----------------------------------------------------------------------------
(* What the worker does.                                                   *)

GetRequest(request) == worker = "wait" /\ m_EventSend /\ m_dwParam = request

CheckRequest == m_EventSend

\* The worker, somewhere, replies, and goes on at "next".
Reply(value, next) ==
  /\ worker' = "reset"
  /\ reply' = [to |-> m_dwParam, value |-> value, next |-> next]
  /\ UNCHANGED <<m_hThread, m_EventSend, m_EventComplete, m_dwParam, m_dwReturnVal>>

\* Fault: the caller is told before the request is taken back.
SignalFirst(place) ==
  /\ worker = place
  /\ m_dwReturnVal' = reply.value
  /\ IF place = "reset"
     THEN m_EventComplete' = TRUE /\ worker' = "signal" /\ UNCHANGED m_EventSend
     ELSE m_EventSend' = FALSE /\ worker' = reply.next /\ UNCHANGED m_EventComplete
  /\ UNCHANGED <<m_hThread, m_dwParam, reply>>

ReplyStep(place) ==
  /\ worker = place
  /\ m_dwReturnVal' = reply.value
  /\ IF place = "reset"
     THEN m_EventSend' = FALSE /\ worker' = "signal" /\ UNCHANGED m_EventComplete
     ELSE m_EventComplete' = TRUE /\ worker' = reply.next /\ UNCHANGED m_EventSend
  /\ UNCHANGED <<m_hThread, m_dwParam, reply>>

Replying == \E place \in {"reset", "signal"} : ReplyStep(place)

=============================================================================
