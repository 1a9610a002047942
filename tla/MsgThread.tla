------------------------------ MODULE MsgThread -----------------------------
(***************************************************************************)
(* CMsgThread (msgthrd.h, wxutil.cpp): a thread and the queue of messages  *)
(* that any other thread may put.  The thread counts itself as waiting in  *)
(* m_lWaiting before it waits for m_hSem; whoever puts a message releases  *)
(* it as often as that says.                                               *)
(***************************************************************************)
EXTENDS Integers, Sequences

CONSTANT MaxMessages \* bound on the messages that are put

MessagesAssumption == MaxMessages \in Nat \ {0}

VARIABLES
  m_ThreadQueue, m_hSem, m_lWaiting,
  thread,           \* where the thread is
  owner,            \* whoever owns it
  accepted, handled \* auxiliary: how many messages were put, and the handled ones

vars == <<m_ThreadQueue, m_hSem, m_lWaiting, thread, owner, accepted, handled>>

Message(kind, id) == [kind |-> kind, id |-> id]
Messages == [kind : {"work", "quit"}, id : 1..MaxMessages]

TypeOK ==
  /\ m_ThreadQueue \in Seq(Messages) /\ m_hSem \in 0..1 /\ m_lWaiting \in 0..1
  /\ thread \in {"none", "get", "wait", "ended"}
  /\ owner \in {"running", "deleting", "deleted"}
  /\ accepted \in 0..MaxMessages /\ handled \in Seq(Messages)

Init ==
  /\ m_ThreadQueue = <<>> /\ m_hSem = 0 /\ m_lWaiting = 0
  /\ thread = "none" /\ owner = "running"
  /\ accepted = 0 /\ handled = <<>>

\* Messages may be put before there is a thread.
CreateThread ==
  /\ owner = "running" /\ thread = "none"
  /\ thread' = "get"
  /\ UNCHANGED <<m_ThreadQueue, m_hSem, m_lWaiting, owner, accepted, handled>>

PutThreadMsg(kind) ==
  /\ owner = "running" /\ accepted < MaxMessages
  /\ accepted' = accepted + 1
  /\ m_ThreadQueue' = Append(m_ThreadQueue, Message(kind, accepted + 1))
  /\ IF m_lWaiting # 0
     THEN m_hSem' = m_hSem + m_lWaiting /\ m_lWaiting' = 0
     ELSE UNCHANGED <<m_hSem, m_lWaiting>>
  /\ UNCHANGED <<thread, owner, handled>>

\* GetThreadMsg finds a message, and ThreadMessageProc handles it; a result other
\* than zero ends the thread.
GetThreadMsg ==
  /\ thread = "get" /\ m_ThreadQueue # <<>>
  /\ LET msg == Head(m_ThreadQueue) IN
     /\ handled' = Append(handled, msg)
     /\ thread' = IF msg.kind = "quit" THEN "ended" ELSE "get"
  /\ m_ThreadQueue' = Tail(m_ThreadQueue)
  /\ UNCHANGED <<m_hSem, m_lWaiting, owner, accepted>>

PrepareToWait ==
  /\ thread = "get" /\ m_ThreadQueue = <<>>
  /\ m_lWaiting' = m_lWaiting + 1
  /\ thread' = "wait"
  /\ UNCHANGED <<m_ThreadQueue, m_hSem, owner, accepted, handled>>

Wake ==
  /\ thread = "wait" /\ m_hSem > 0
  /\ m_hSem' = m_hSem - 1
  /\ thread' = "get"
  /\ UNCHANGED <<m_ThreadQueue, m_lWaiting, owner, accepted, handled>>

\* The destructor, for an owner that has told the thread to quit, waits for it ...
Delete ==
  /\ owner = "running"
  /\ \/ thread \in {"none", "ended"}
     \/ \E i \in DOMAIN m_ThreadQueue : m_ThreadQueue[i].kind = "quit"
  /\ owner' = "deleting"
  /\ UNCHANGED <<m_ThreadQueue, m_hSem, m_lWaiting, thread, accepted, handled>>

\* ... and deletes the messages that are left.
Deleted ==
  /\ owner = "deleting" /\ thread \in {"none", "ended"}
  /\ owner' = "deleted"
  /\ m_ThreadQueue' = <<>>
  /\ UNCHANGED <<m_hSem, m_lWaiting, thread, accepted, handled>>

\* Nobody has to put messages, or to delete the thread.
Idle == owner # "deleting" /\ UNCHANGED vars

Put == \E kind \in {"work", "quit"} : PutThreadMsg(kind)
Worker == GetThreadMsg \/ PrepareToWait \/ Wake

Next == CreateThread \/ Put \/ Worker \/ Delete \/ Deleted \/ Idle

Spec == Init /\ [][Next]_vars /\ WF_vars(Worker) /\ WF_vars(Deleted)

-----------------------------------------------------------------------------
(* Properties.                                                             *)

\* The messages are handled in the order in which they were put, each once.
pending == m_ThreadQueue
out == handled
Promise == INSTANCE Channel WITH Kinds <- {"work", "quit"}
IsChannel == Promise!Spec

\* A thread that waits with a message in the queue has been released, and one
\* that has not been released is counted.
NoLostWakeup ==
  thread = "wait" => /\ m_lWaiting + m_hSem = 1
                     /\ m_ThreadQueue # <<>> => m_hSem = 1

\* A thread that was told to quit does, and the destructor returns.
DestructorReturns == owner = "deleting" ~> owner = "deleted"

=============================================================================
