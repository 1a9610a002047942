------------------------------ MODULE MCQueues ------------------------------
(* An instance for TLC of the queues between threads, of seeks, which wait   *)
(* for threads, and of the registration of the DLL, each with an environment *)
(* of its own; "part" is the one that takes steps.                           *)
EXTENDS OutputQueue

CONSTANTS
  nMax, Putters, Getters, MaxObjects,             \* of SlotQueue
  MaxMessages,                                    \* of MsgThread
  Count, SetupFilters, Denials,                   \* of Registration
  Length, MaxSeeks                                \* of Seeking

VARIABLES
  part,
  hSemPut, hSemGet, iNextPut, iNextGet, QueueObjects, at, put, got,
  m_ThreadQueue, m_hSem, m_lMsgWaiting, msgThread, owner, sent, handled,
  keys, filter, steps, denied, failed, lastCall,
  m_rtStart, m_rtStop, sourceLock, rendererLock, m_StartMedia, m_bReset, m_bEOS,
  m_EndOfStreamTimer, flushing, from, segment, seek, changes, seeks, refused, stream,
  timer, m_Connected

slots == <<hSemPut, hSemGet, iNextPut, iNextGet, QueueObjects, at, put, got>>
messages == <<m_ThreadQueue, m_hSem, m_lMsgWaiting, msgThread, owner, sent, handled>>
setup == <<keys, filter, steps, denied, failed, lastCall>>
seeking == <<m_rtStart, m_rtStop, sourceLock, rendererLock, m_StartMedia, m_bReset, m_bEOS,
             m_EndOfStreamTimer, flushing, from, segment, seek, changes, seeks, refused, stream,
             timer, m_Connected>>

S == INSTANCE SlotQueue WITH accepted <- put
M == INSTANCE MsgThread WITH m_lWaiting <- m_lMsgWaiting, thread <- msgThread,
                             accepted <- sent
R == INSTANCE Registration WITH server <- keys, todo <- steps, last <- lastCall,
                                Filters <- SetupFilters
K == INSTANCE Seeking

ASSUME MCQueuesAssumption ==
  /\ OutputQueueAssumption /\ S!QueueAssumption /\ M!MessagesAssumption
  /\ R!RegistrationAssumption /\ K!SeekingAssumption

\* A queue with a thread, or one without that delivers each sample at once or
\* has exact batches: the others keep samples after the end of the stream.
UsualSettings == {s \in AllSettings : ~s.queued => s.size = 1 \/ s.exact}

\* A caller may be denied anything.
AllDenials == SUBSET {"open", "delete key", "delete InprocServer32"}

\* Only the variables of one part change.
Others(p) ==
  /\ p # "output" => UNCHANGED vars
  /\ p # "slots" => UNCHANGED slots
  /\ p # "messages" => UNCHANGED messages
  /\ p # "setup" => UNCHANGED setup
  /\ p # "seeking" => UNCHANGED seeking

MCNext ==
  /\ UNCHANGED part /\ Others(part)
  /\ \/ part = "output" /\ Next
     \/ part = "slots" /\ S!Next
     \/ part = "messages" /\ M!Next
     \/ part = "setup" /\ R!Next
     \/ part = "seeking" /\ K!Next

MCInit ==
  /\ part \in {"output", "slots", "messages", "setup", "seeking"}
  /\ Init /\ S!Init /\ M!Init /\ R!Init /\ K!Init
  /\ part # "output" => setting = CHOOSE s \in Settings : TRUE

MCSpec ==
  /\ MCInit
  /\ [][MCNext]_<<part, vars, slots, messages, setup, seeking>>
  /\ WF_vars(part = "output" /\ ThreadProc)
  /\ WF_vars(part = "output" /\ Delivered /\ (downFlushing \/ m_bTerminate))
  /\ WF_vars(part = "output" /\ FlushDownstream)
  /\ WF_vars(part = "output" /\ FlushComplete)
  /\ WF_vars(part = "output" /\ Flushed)
  /\ WF_vars(part = "output" /\ EndFlushDownstream)
  /\ WF_vars(part = "output" /\ ResetReturns)
  /\ WF_vars(part = "output" /\ Deleted)
  /\ WF_vars(part = "output" /\ QueueSegment)
  /\ \A t \in Putters : WF_slots(part = "slots" /\ (S!Put(t) \/ S!SignalPut(t)))
  /\ \A t \in Getters : WF_slots(part = "slots" /\ S!GetStep(t))
  /\ WF_messages(part = "messages" /\ M!Worker)
  /\ WF_messages(part = "messages" /\ M!Deleted)
  /\ WF_setup(part = "setup" /\ R!Setup)
  /\ WF_seeking(part = "seeking" /\ K!Seek)
  /\ WF_seeking(part = "seeking" /\ K!Notify)
  /\ WF_seeking(part = "seeking" /\ K!Receive)
  /\ WF_seeking(part = "seeking" /\ K!EndOfStream)

-----------------------------------------------------------------------------
(* The properties of the parts, whose comments are there, by theme.          *)

\* Every variable has a value of its kind.
TypesOK ==
  CASE part = "output" -> TypeOK
    [] part = "slots" -> S!TypeOK
    [] part = "messages" -> M!TypeOK
    [] part = "setup" -> R!RegistrationTypeOK
    [] part = "seeking" -> K!SeekingTypeOK

\* No thread sleeps on something to do, neither that of the output queue nor that of a
\* message queue, and an output queue that says that it is idle has nothing left.
WakeupsKept == NoLostWakeup /\ IdleMeansDone /\ M!NoLostWakeup

\* A registration that fails or is killed, and a seek that meets samples, the end of the
\* stream and a timer, leave nothing half done.
NothingHalfDone ==
  /\ part = "setup" => R!FilterHasServer /\ R!SuccessIsWhole
  /\ part = "seeking" => K!PositionIsCurrent

\* The queues between threads are channels, whatever batches, messages and flushes
\* do to them: what is put comes out once and in order, and no sample of before a flush
\* after it, unless a Reset returned too early.
QueuesAreChannels == IsChannel /\ NothingStale /\ S!IsChannel /\ M!IsChannel

\* What was put is got, no putter waits for ever, and the calls
\* that wait for a thread or a lock return; so do those that change the registry, but
\* for the one that may not delete a subkey.
CallsReturn ==
  /\ ControlReturns /\ S!AllComesOut /\ S!PutReturns /\ M!DestructorReturns
  /\ R!CallEnds /\ K!SetPositionsReturns

=============================================================================
