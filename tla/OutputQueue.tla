---------------------------- MODULE OutputQueue -----------------------------
(***************************************************************************)
(* COutputQueue (outputq.cpp): the queue between a filter and the input    *)
(* pin downstream, with a thread of its own or without one, that delivers  *)
(* samples in batches, with the flush, the end of the stream, the change   *)
(* of segment and the "return code" that a caller learns one call late.    *)
(*                                                                         *)
(* Three threads: the producer, whose calls deliver samples; the control   *)
(* thread of the filter, which flushes, resets and deletes the queue; and  *)
(* the thread of the queue.  A step is what a thread does with the         *)
(* critical section of the queue, or one access without it.                *)
(***************************************************************************)
EXTENDS Integers, Sequences, SequencesExt, FiniteSetsExt

CONSTANTS
  Settings,  \* how queues are made: [queued, size, exact, opt]
  MaxItems,  \* bound on what the producer gets into the queue
  MaxFlushes \* bound on flushes and resets

\* Batches of one are never exact, and a queue without a thread has no use for
\* the flushing optimization.
AllSettings ==
  {s \in [queued : BOOLEAN, size : 1..2, exact : BOOLEAN, opt : BOOLEAN] :
     (s.exact => s.size > 1) /\ (s.opt => s.queued)}

OutputQueueAssumption ==
  Settings \subseteq AllSettings /\ MaxItems \in Nat /\ MaxFlushes \in Nat

VARIABLES
  setting,         \* m_List # NULL, m_lBatchSize, m_bBatchExact, m_bFlushingOpt
  list,            \* m_List
  batched,         \* m_ppSamples, m_nBatched of them
  m_hr, m_bFlushing, m_bFlushed, m_bTerminate,
  m_lWaiting, sem, \* m_hSem
  evFlushComplete,
  thread,          \* where ThreadProc is
  sending,         \* the batch that it has taken
  pSample,         \* and what ended the batch
  producer,        \* "out", or within NewSegment
  control,         \* where the control thread is
  downFlushing,    \* the pin downstream is flushing
  out,             \* auxiliary: what the pin downstream has taken
  accepted,        \* auxiliary: how much has gone into the queue
  floor,           \* auxiliary: how much of it when the last flush ended
  flushes,         \* auxiliary: bounds the flushes and resets
  early            \* auxiliary: a Reset has returned before its packet was dealt with

data == <<list, batched, sending, pSample, out, accepted>>
code == <<m_hr, m_bFlushing, m_bFlushed, m_bTerminate>>
wait == <<m_lWaiting, sem, evFlushComplete>>
where == <<thread, producer, control>>
marks == <<floor, flushes, early>>
vars == <<setting, data, code, wait, where, downFlushing, marks>>

IsQueued == setting.queued

\* Samples and the packets EOS, NEW_SEGMENT (with its parameters), SEND, RESET.
Item(k) == [kind |-> k, id |-> accepted + 1]
Message(k) == [kind |-> k, id |-> 0]
Nothing == Message("nothing")
Kinds == {"sample", "eos", "segment"}
Things == [kind : Kinds, id : 1..MaxItems]

\* The items of these kinds, in order.
OfKinds(kinds, items) ==
  FlattenSeq([n \in 1..Len(items) |-> IF items[n].kind \in kinds THEN <<items[n]>> ELSE <<>>])

TypeOK ==
  /\ setting \in Settings
  /\ list \in Seq([kind : {"sample", "eos", "segment", "send", "reset"}, id : 0..MaxItems])
  /\ batched \in Seq(Things) /\ Len(batched) <= setting.size
  /\ m_hr \in {"S_OK", "S_FALSE"}
  /\ m_bFlushing \in BOOLEAN /\ m_bFlushed \in BOOLEAN /\ m_bTerminate \in BOOLEAN
  /\ m_lWaiting \in 0..1 /\ sem \in 0..1
  /\ evFlushComplete \in BOOLEAN
  /\ thread \in {"top", "waiting", "send", "receive", "act", "ended"}
  /\ sending \in Seq(Things)
  /\ producer \in {"out", "segment"}
  /\ control \in {"idle", "beginning", "flushing", "ending", "complete", "ended", "resetting",
                  "closing", "closed"}
  /\ downFlushing \in BOOLEAN
  /\ out \in Seq(Things)
  /\ accepted \in 0..MaxItems /\ floor \in 0..accepted
  /\ flushes \in 0..MaxFlushes
  /\ early \in BOOLEAN

Init ==
  /\ setting \in Settings
  /\ list = <<>> /\ batched = <<>> /\ sending = <<>> /\ pSample = Nothing
  /\ m_hr = "S_OK" /\ m_bFlushing = FALSE /\ m_bFlushed = TRUE /\ m_bTerminate = FALSE
  /\ m_lWaiting = 0 /\ sem = 0 /\ evFlushComplete = FALSE
  /\ thread = IF IsQueued THEN "top" ELSE "ended"
  /\ producer = "out" /\ control = "idle" /\ downFlushing = FALSE
  /\ out = <<>> /\ accepted = 0 /\ floor = 0 /\ flushes = 0 /\ early = FALSE

-----------------------------------------------------------------------------
(* The producer: Receive and ReceiveMultiple, EOS, NewSegment, SendAnyway. *)

\* Fault: the thread that is woken still counts as waiting.
NotifyAgain ==
  /\ sem' = m_lWaiting
  /\ UNCHANGED <<m_lWaiting, evFlushComplete>>

NotifyThread ==
  /\ sem' = sem + m_lWaiting
  /\ m_lWaiting' = 0
  /\ UNCHANGED evFlushComplete

\* The filter lets nobody in from the end of its BeginFlush on, and waits for
\* those who are in.
MayCall ==
  /\ producer = "out"
  /\ control \in {"idle", "beginning", "resetting"}
MayAdd == MayCall /\ accepted < MaxItems

\* The pin downstream takes the first n of a batch: all of them if it says S_OK.
Taken(batch, n, hr) ==
  /\ n \in 0..Len(batch)
  /\ hr = "S_OK" => n = Len(batch) /\ ~downFlushing
  /\ downFlushing => n = 0

\* With a thread: a refused sample is released, others wait in the list.
ReceiveQueued ==
  /\ MayAdd /\ IsQueued /\ m_hr = "S_OK"
  /\ accepted' = accepted + 1
  /\ m_bFlushed' = FALSE
  /\ list' = Append(list, Item("sample"))
  /\ IF ~setting.exact \/ Len(batched) + Len(list') >= setting.size
     THEN NotifyThread ELSE UNCHANGED wait
  /\ UNCHANGED <<batched, sending, pSample, out, m_hr, m_bFlushing, m_bTerminate, setting,
                 where, downFlushing, marks>>

\* Without one: the batch is delivered by the call that fills it.
ReceiveDirect ==
  /\ MayAdd /\ ~IsQueued /\ m_hr = "S_OK"
  /\ accepted' = accepted + 1
  /\ m_bFlushed' = FALSE
  /\ LET batch == Append(batched, Item("sample")) IN
     IF Len(batch) < setting.size
     THEN batched' = batch /\ UNCHANGED <<out, m_hr>>
     ELSE \E n \in 0..Len(batch), hr \in {"S_OK", "S_FALSE"} :
            /\ Taken(batch, n, hr)
            /\ out' = out \o SubSeq(batch, 1, n)
            /\ m_hr' = hr
            /\ batched' = <<>>
  /\ UNCHANGED <<list, sending, pSample, m_bFlushing, m_bTerminate, setting, wait, where,
                 downFlushing, marks>>

\* What SendAnyway does without a thread, in EOS and NewSegment for exact batches
\* only; then the things that follow the batch, unless m_hr has gone bad.
SendThen(now, things) ==
  \E n \in 0..Len(batched), hr \in {"S_OK", "S_FALSE"} :
    /\ IF batched # <<>> /\ now
       THEN Taken(batched, n, hr) /\ batched' = <<>>
       ELSE n = 0 /\ hr = m_hr /\ UNCHANGED batched
    /\ m_hr' = hr
    /\ out' = out \o SubSeq(batched, 1, n) \o
                IF hr = "S_OK" /\ ~downFlushing THEN things ELSE <<>>

SendAnyway ==
  /\ MayCall
  /\ IF IsQueued
     THEN /\ Len(list) < MaxItems
          /\ list' = Append(list, Message("send"))
          /\ NotifyThread
          /\ UNCHANGED <<batched, out, m_hr, m_bFlushed>>
     ELSE /\ m_hr = "S_OK" /\ batched # <<>>
          /\ SendThen(TRUE, <<>>)
          /\ m_bFlushed' = FALSE
          /\ UNCHANGED <<list, wait>>
  /\ UNCHANGED <<accepted, sending, pSample, m_bFlushing, m_bTerminate, setting, where,
                 downFlushing, marks>>

EOS ==
  /\ MayAdd /\ m_hr = "S_OK"
  /\ accepted' = accepted + 1
  /\ m_bFlushed' = FALSE
  /\ IF IsQueued
     THEN /\ list' = Append(list, Item("eos"))
          /\ NotifyThread
          /\ UNCHANGED <<batched, out, m_hr>>
     ELSE SendThen(setting.exact, <<Item("eos")>>) /\ UNCHANGED <<list, wait>>
  /\ UNCHANGED <<sending, pSample, m_bFlushing, m_bTerminate, setting, where,
                 downFlushing, marks>>

\* NewSegment looks at m_hr without the critical section ...
NewSegment ==
  /\ MayAdd /\ m_hr = "S_OK"
  /\ producer' = "segment"
  /\ UNCHANGED <<setting, data, code, wait, thread, control, downFlushing, marks>>

\* Without a thread: after the batch, whatever has become of m_hr.
SendSegment ==
  \E n \in 0..Len(batched), hr \in {"S_OK", "S_FALSE"} :
    /\ IF batched # <<>> /\ setting.exact /\ m_hr = "S_OK"
       THEN Taken(batched, n, hr) /\ batched' = <<>>
       ELSE n = 0 /\ hr = m_hr /\ UNCHANGED batched
    /\ m_hr' = hr
    /\ out' = out \o SubSeq(batched, 1, n) \o <<Item("segment")>>

\* ... and queues the packet whatever has happened since, or sends it.
QueueSegment ==
  /\ producer = "segment"
  /\ producer' = "out"
  /\ accepted' = accepted + 1
  /\ IF IsQueued
     THEN /\ list' = Append(list, Item("segment"))
          /\ NotifyThread
          /\ UNCHANGED <<batched, out, m_hr, m_bFlushed>>
     ELSE /\ SendSegment
          /\ m_bFlushed' = (m_bFlushed /\ ~(setting.exact /\ m_hr = "S_OK"))
          /\ UNCHANGED <<list, wait>>
  /\ UNCHANGED <<sending, pSample, m_bFlushing, m_bTerminate, setting, thread, control,
                 downFlushing, marks>>

-----------------------------------------------------------------------------
(* ThreadProc.                                                             *)

\* There is nothing to send: the next call that has something wakes the thread.
PrepareToWait ==
  /\ thread' = "waiting"
  /\ m_lWaiting' = m_lWaiting + 1
  /\ UNCHANGED sem

\* The loop over the list ends at an item that fills the batch, and at a message,
\* but for SEND_PACKET when there is nothing to send.
Batch(n) == batched \o OfKinds({"sample"}, SubSeq(list, 1, n))
Ends(n) ==
  CASE list[n].kind = "sample" -> Len(Batch(n)) = setting.size
    [] list[n].kind = "send" -> Batch(n) # <<>>
    [] OTHER -> TRUE

Take(n) ==
  /\ list' = SubSeq(list, n + 1, Len(list))
  /\ pSample' = IF list[n].kind = "sample" THEN Nothing ELSE list[n]
  /\ sending' = Batch(n)
  /\ batched' = <<>>

FreeSamples ==
  /\ list' = <<>> /\ batched' = <<>>
  /\ UNCHANGED <<sending, pSample>>

GetBatch ==
  /\ thread = "top"
  /\ IF m_bTerminate
     THEN /\ FreeSamples
          /\ thread' = "ended"
          /\ UNCHANGED wait
     ELSE IF m_bFlushing
     THEN /\ FreeSamples
          /\ evFlushComplete' = TRUE
          /\ PrepareToWait
     ELSE IF \E n \in DOMAIN list : Ends(n)
     THEN /\ Take(Min({n \in DOMAIN list : Ends(n)}))
          /\ thread' = "send"
          /\ UNCHANGED wait
     ELSE /\ list' = <<>>
          /\ UNCHANGED <<pSample, evFlushComplete>>
          /\ IF setting.exact \/ Batch(Len(list)) = <<>>
             THEN /\ batched' = Batch(Len(list))
                  /\ UNCHANGED sending
                  /\ PrepareToWait
             ELSE /\ sending' = Batch(Len(list))
                  /\ batched' = <<>>
                  /\ thread' = "send"
                  /\ UNCHANGED <<m_lWaiting, sem>>
  /\ UNCHANGED <<setting, out, accepted, code, producer, control, downFlushing, marks>>

Wake ==
  /\ thread = "waiting" /\ sem > 0
  /\ sem' = sem - 1
  /\ thread' = "top"
  /\ UNCHANGED <<setting, data, code, m_lWaiting, evFlushComplete, producer, control,
                 downFlushing, marks>>

\* m_hr is read without the critical section.
Send ==
  /\ thread = "send"
  /\ IF sending # <<>> /\ m_hr = "S_OK"
     THEN thread' = "receive" /\ UNCHANGED sending
     ELSE thread' = "act" /\ sending' = <<>>
  /\ UNCHANGED <<setting, list, batched, pSample, out, accepted, code, wait, producer,
                 control, downFlushing, marks>>

\* The call of ReceiveMultiple returns; its result counts if there is no other.
Delivered ==
  /\ thread = "receive"
  /\ thread' = "act"
  /\ sending' = <<>>
  /\ \E n \in 0..Len(sending), hr \in {"S_OK", "S_FALSE"} :
       /\ Taken(sending, n, hr)
       /\ out' = out \o SubSeq(sending, 1, n)
       /\ m_hr' = IF m_hr = "S_OK" THEN hr ELSE m_hr
  /\ UNCHANGED <<setting, list, batched, pSample, accepted, m_bFlushing, m_bFlushed,
                 m_bTerminate, wait, producer, control, downFlushing, marks>>

\* EOS_PACKET, RESET_PACKET and NEW_SEGMENT, after the batch before them.
Act ==
  /\ thread = "act"
  /\ thread' = "top"
  /\ pSample' = Nothing
  /\ out' = CASE pSample.kind = "eos" /\ m_hr = "S_OK" /\ ~downFlushing -> Append(out, pSample)
              [] pSample.kind = "segment" -> Append(out, pSample)
              [] OTHER -> out
  /\ m_hr' = IF pSample.kind = "reset" THEN "S_OK" ELSE m_hr
  /\ evFlushComplete' = (evFlushComplete \/ pSample.kind = "reset")
  /\ UNCHANGED <<setting, list, batched, sending, accepted, m_bFlushing, m_bFlushed,
                 m_bTerminate, m_lWaiting, sem, producer, control, downFlushing, marks>>

-----------------------------------------------------------------------------
(* The control thread.                                                     *)

unmoved == <<setting, thread, producer, accepted, out>>

\* With a thread: a flush of what has been flushed may not go downstream.
BeginFlush ==
  /\ control = "idle" /\ flushes < MaxFlushes /\ flushes' = flushes + 1
  /\ IF IsQueued
     THEN /\ m_bFlushing' = TRUE
          /\ m_hr' = "S_FALSE"
          /\ IF m_bFlushed /\ setting.opt
             THEN control' = "flushing" /\ UNCHANGED wait
             ELSE /\ control' = "beginning"
                  /\ evFlushComplete' = FALSE
                  /\ sem' = sem + m_lWaiting /\ m_lWaiting' = 0
          /\ UNCHANGED downFlushing
     ELSE /\ downFlushing' = TRUE
          /\ control' = "beginning"
          /\ UNCHANGED <<m_bFlushing, m_hr, wait>>
  /\ UNCHANGED <<unmoved, list, batched, sending, pSample, m_bFlushed, m_bTerminate,
                 floor, early>>

\* Without a thread, the queue starts to flush when the pin downstream does.
FlushDownstream ==
  /\ control = "beginning"
  /\ control' = "flushing"
  /\ downFlushing' = TRUE
  /\ IF IsQueued THEN UNCHANGED <<m_bFlushing, m_hr>>
     ELSE m_bFlushing' = TRUE /\ m_hr' = "S_FALSE"
  /\ UNCHANGED <<unmoved, list, batched, sending, pSample, m_bFlushed, m_bTerminate, wait,
                 marks>>

\* Fault: the flush ends without a look at what the thread does.
EndFlushAtOnce ==
  /\ control = "flushing" /\ producer = "out"
  /\ control' = "complete"
  /\ UNCHANGED <<unmoved, list, batched, sending, pSample, code, wait, downFlushing, marks>>

\* The producer is out by now, and stays out until EndFlush returns.
EndFlush ==
  /\ control = "flushing" /\ producer = "out"
  /\ IF setting.opt /\ m_bFlushed /\ IsQueued
     THEN /\ control' = "idle"
          /\ m_bFlushing' = FALSE
          /\ m_hr' = "S_OK"
          /\ floor' = accepted
     ELSE control' = "ending" /\ UNCHANGED <<m_bFlushing, m_hr, floor>>
  /\ UNCHANGED <<unmoved, list, batched, sending, pSample, m_bFlushed, m_bTerminate, wait,
                 downFlushing, flushes, early>>

FlushComplete ==
  /\ control = "ending"
  /\ control' = "complete"
  /\ IF IsQueued
     THEN /\ evFlushComplete /\ evFlushComplete' = FALSE
          /\ UNCHANGED <<list, batched>>
     ELSE list' = <<>> /\ batched' = <<>> /\ UNCHANGED evFlushComplete
  /\ UNCHANGED <<unmoved, sending, pSample, code, m_lWaiting, sem, downFlushing, marks>>

\* "Be daring": no critical section from here on.
Flushed ==
  /\ control = "complete"
  /\ control' = "ended"
  /\ m_bFlushing' = FALSE
  /\ m_bFlushed' = TRUE
  /\ UNCHANGED <<unmoved, list, batched, sending, pSample, m_hr, m_bTerminate, wait,
                 downFlushing, marks>>

EndFlushDownstream ==
  /\ control = "ended"
  /\ control' = "idle"
  /\ downFlushing' = FALSE
  /\ m_hr' = "S_OK"
  /\ floor' = accepted
  /\ UNCHANGED <<unmoved, list, batched, sending, pSample, m_bFlushing, m_bFlushed,
                 m_bTerminate, wait, flushes, early>>

\* For a queue whose m_hr has gone bad.
Reset ==
  /\ control = "idle" /\ m_hr # "S_OK" /\ flushes < MaxFlushes /\ flushes' = flushes + 1
  /\ IF IsQueued
     THEN /\ list' = Append(list, Message("reset"))
          /\ NotifyThread
          /\ control' = "resetting"
          /\ UNCHANGED m_hr
     ELSE m_hr' = "S_OK" /\ UNCHANGED <<list, wait, control>>
  /\ UNCHANGED <<unmoved, batched, sending, pSample, m_bFlushing, m_bFlushed, m_bTerminate,
                 downFlushing, floor, early>>

ResetIsDealtWith ==
  \A i \in DOMAIN (<<pSample>> \o list) : (<<pSample>> \o list)[i].kind # "reset"

\* The event may be one that a flush has left set.
ResetReturns ==
  /\ control = "resetting" /\ evFlushComplete
  /\ control' = "idle"
  /\ evFlushComplete' = FALSE
  /\ early' = (early \/ ~ResetIsDealtWith)
  /\ UNCHANGED <<unmoved, list, batched, sending, pSample, code, m_lWaiting, sem,
                 downFlushing, floor, flushes>>

\* The destructor, when the filter has stopped.
Delete ==
  /\ control = "idle" /\ producer = "out"
  /\ IF IsQueued
     THEN /\ m_bTerminate' = TRUE
          /\ m_hr' = "S_FALSE"
          /\ NotifyThread
          /\ control' = "closing"
          /\ UNCHANGED <<list, batched>>
     ELSE /\ list' = <<>> /\ batched' = <<>>
          /\ control' = "closed"
          /\ UNCHANGED <<m_bTerminate, m_hr, wait>>
  /\ UNCHANGED <<unmoved, sending, pSample, m_bFlushing, m_bFlushed, downFlushing, marks>>

Deleted ==
  /\ control = "closing" /\ thread = "ended"
  /\ control' = "closed"
  /\ UNCHANGED <<unmoved, list, batched, sending, pSample, code, wait, downFlushing, marks>>

Gone == control = "closed" /\ UNCHANGED vars

-----------------------------------------------------------------------------
ThreadProc == GetBatch \/ Wake \/ Send \/ Act

Next ==
  \/ ReceiveQueued \/ ReceiveDirect \/ SendAnyway \/ EOS \/ NewSegment \/ QueueSegment
  \/ ThreadProc \/ Delivered
  \/ BeginFlush \/ FlushDownstream \/ EndFlush \/ FlushComplete \/ Flushed
  \/ EndFlushDownstream \/ Reset \/ ResetReturns \/ Delete \/ Deleted \/ Gone

\* The pin downstream may block in ReceiveMultiple for as long as it likes,
\* unless it is flushed or stopped, as it is when the queue is deleted; the
\* threads run.
Fairness ==
  /\ WF_vars(ThreadProc)
  /\ WF_vars(Delivered /\ (downFlushing \/ m_bTerminate))
  /\ WF_vars(FlushDownstream) /\ WF_vars(FlushComplete) /\ WF_vars(Flushed)
  /\ WF_vars(EndFlushDownstream) /\ WF_vars(ResetReturns) /\ WF_vars(Deleted)
  /\ WF_vars(QueueSegment)

Spec == Init /\ [][Next]_vars /\ Fairness

-----------------------------------------------------------------------------
(* Properties.                                                             *)

\* What is still to come out: nothing of a batch that is only kept for the flush
\* or the failure to drop it, when the queue has no thread.
pending ==
  IF IsQueued \/ m_hr = "S_OK"
  THEN sending \o OfKinds(Kinds, <<pSample>> \o batched \o list)
  ELSE <<>>

\* The queue is a channel: the pin downstream gets samples, ends of streams and
\* changes of segment in the order in which the filter gave them, each once,
\* whatever the batches, the messages, the failures and the flushes.
Promise == INSTANCE Channel
IsChannel == Promise!Spec

\* After EndFlush, nothing that the filter gave before it is delivered, but for
\* a change of segment, which alone does not count as something to flush; unless
\* a Reset returned early, whose packet may end a later flush before its time.
NothingStale ==
  [][~early => \A i \in DOMAIN out' \ DOMAIN out :
       out'[i].kind # "segment" => out'[i].id > floor]_vars

\* What the assertions about m_bFlushed around ReceiveMultiple say of the thread.
SendsNothingFlushed == thread = "receive" => ~m_bFlushed

\* The thread does not sleep on something to do: when it waits and nobody has
\* woken it, it is known to wait, and the list holds less than an exact batch.
NoLostWakeup ==
  thread = "waiting" /\ sem = 0 =>
    /\ m_lWaiting = 1
    /\ ~m_bTerminate
    /\ m_bFlushing => evFlushComplete \/ control # "ending"
    /\ \A n \in DOMAIN list : list[n].kind = "sample"
    /\ list # <<>> => setting.exact /\ Len(batched) + Len(list) < setting.size

\* A queue that is idle has nothing to send (the assertion of IsIdle), when it
\* does not wait for full batches.
IsIdle == (IsQueued => m_lWaiting # 0) /\ batched = <<>>
IdleMeansDone == ~setting.exact /\ IsIdle => pending = <<>>

\* EndFlush, Reset and the destructor return, though the thread may be blocked
\* downstream when they are called.
ControlReturns ==
  control \in {"beginning", "ending", "resetting", "closing"} ~>
    control \in {"idle", "flushing", "closed"}

\* Reset returns when the thread has dealt with its packet.
ResetIsDone ==
  [][control = "resetting" /\ control' = "idle" => ResetIsDealtWith]_vars

=============================================================================
