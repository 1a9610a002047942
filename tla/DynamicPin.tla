----------------------------- MODULE DynamicPin -----------------------------
(***************************************************************************)
(* CDynamicOutputPin (amfilter.cpp): an output pin that application        *)
(* threads block, so that they can reconnect it while the graph runs, and  *)
(* whose streaming thread brackets everything it does downstream with      *)
(* StartUsingOutputPin and StopUsingOutputPin, and changes the format on   *)
(* its own account (ChangeMediaTypeHelper).                                *)
(*                                                                         *)
(* Every member function that holds m_BlockStateLock is a step, as is each *)
(* wait for an event; events are manual-reset but the callers' own.  Of    *)
(* DynamicReconnect the graph's reconnection is modelled, not what the pin *)
(* does by itself when the graph cannot (amfilter.cpp:4381, 4448).         *)
(***************************************************************************)
EXTENDS Integers

CONSTANTS
  Apps,     \* application threads
  MaxUsers  \* bound on nested uses of the pin by the streaming thread

ASSUME DynamicPinAssumption == MaxUsers \in Nat \ {0}

NoThread == "no thread"
ASSUME NoThreadAssumption == NoThread \notin Apps

VARIABLES
  m_BlockState,   \* "NOT_BLOCKED", "PENDING" or "BLOCKED"
  m_dwBlockCallerThreadID,
  notify,         \* whose event m_hNotifyCallerPinBlockedEvent duplicates
  unblockEvent,   \* m_hUnblockOutputPinEvent is signalled
  stopEvent,      \* m_hStopEvent is signalled
  m_dwNumOutstandingOutputPinUsers,
  event,          \* the threads' events that are signalled
  at,             \* what an application thread does
  stream,         \* what the streaming thread does
  nested,         \* auxiliary: the use in progress has had one within it, or
                  \* a change of format: it does one of these
  active,         \* the filter is paused or running
  committed,      \* the allocator is committed
  connected,      \* m_Connected is set
  missed,         \* auxiliary: the last Stop came while the pin had no peer
  torn            \* auxiliary: since the filter was last made active a change
                  \* of format has failed or met Inactive, or a thread has
                  \* reconnected the pin under a block that was lifted

blockVars == <<m_BlockState, m_dwBlockCallerThreadID, notify, unblockEvent>>
appVars == <<event, at>>
streamVars == <<stream, nested, m_dwNumOutstandingOutputPinUsers>>
filterVars == <<active, committed, connected, missed, torn>>
vars == <<blockVars, stopEvent, appVars, streamVars, filterVars>>

users == m_dwNumOutstandingOutputPinUsers

TypeOK ==
  /\ m_BlockState \in {"NOT_BLOCKED", "PENDING", "BLOCKED"}
  /\ m_dwBlockCallerThreadID \in Apps \cup {NoThread}
  /\ notify \in Apps \cup {NoThread}
  /\ unblockEvent \in BOOLEAN /\ stopEvent \in BOOLEAN
  /\ users \in 0..MaxUsers
  /\ event \subseteq Apps
  /\ at \in [Apps -> {"idle", "waiting", "blocked", "reconnecting"}]
  /\ stream \in {"out", "starting", "waiting", "using", "changing", "deciding"}
  /\ nested \in BOOLEAN
  /\ active \in BOOLEAN /\ committed \in BOOLEAN
  /\ connected \in BOOLEAN /\ missed \in BOOLEAN /\ torn \in BOOLEAN

Init ==
  /\ m_BlockState = "NOT_BLOCKED"
  /\ m_dwBlockCallerThreadID = NoThread
  /\ notify = NoThread
  /\ unblockEvent = TRUE
  /\ stopEvent = FALSE
  /\ m_dwNumOutstandingOutputPinUsers = 0
  /\ event = {}
  /\ at = [t \in Apps |-> "idle"]
  /\ stream = "out" /\ nested = FALSE
  /\ active = FALSE /\ committed = FALSE
  /\ connected = TRUE /\ missed = FALSE /\ torn = FALSE

-----------------------------------------------------------------------------
(* Blocking.                                                               *)

\* BlockOutputPin; n is the thread to be told.
BlockOutputPin(n) ==
  /\ m_BlockState' = "BLOCKED"
  /\ unblockEvent' = FALSE
  /\ event' = event \cup {n}
  /\ notify' = NoThread

\* Block with or without an event: the thread waits, here, in both cases.
AsynchronousBlockOutputPin(t) ==
  /\ at[t] = "idle"
  /\ m_BlockState = "NOT_BLOCKED"
  /\ m_dwBlockCallerThreadID' = t
  /\ at' = [at EXCEPT ![t] = "waiting"]
  /\ IF users > 0
     THEN /\ m_BlockState' = "PENDING"
          /\ notify' = t
          /\ event' = event \ {t}
          /\ UNCHANGED unblockEvent
     ELSE BlockOutputPin(t)
  /\ UNCHANGED <<stopEvent, streamVars, filterVars>>

\* WaitEvent: the pin is blocked, or the operation has been cancelled.
BlockReturns(t) ==
  /\ at[t] = "waiting" /\ t \in event
  /\ event' = event \ {t}
  /\ at' = [at EXCEPT ![t] = "blocked"]
  /\ UNCHANGED <<blockVars, stopEvent, streamVars, filterVars>>

\* Fault: a pending operation is cancelled without telling the thread.
UnblockSilently(t) ==
  /\ at[t] \in {"idle", "blocked"}
  /\ m_BlockState' = "NOT_BLOCKED"
  /\ m_dwBlockCallerThreadID' = NoThread
  /\ notify' = NoThread
  /\ unblockEvent' = TRUE
  /\ at' = [at EXCEPT ![t] = "idle"]
  /\ UNCHANGED <<event, stopEvent, streamVars, filterVars>>

\* Any thread may unblock the pin, or cancel the operation of another.
UnblockOutputPin(t) ==
  /\ at[t] \in {"idle", "blocked"}
  /\ at' = [at EXCEPT ![t] = "idle"]
  /\ IF m_BlockState = "NOT_BLOCKED"
     THEN UNCHANGED <<blockVars, event>>
     ELSE /\ m_BlockState' = "NOT_BLOCKED"
          /\ m_dwBlockCallerThreadID' = NoThread
          /\ notify' = NoThread
          /\ unblockEvent' = TRUE
          /\ event' = IF notify = NoThread THEN event ELSE event \cup {notify}
  /\ UNCHANGED <<stopEvent, streamVars, filterVars>>

\* The graph reconnects the pin that it has blocked: Disconnect, which for this
\* pin needs no stopped filter, and CompleteConnect, which commits the new
\* allocator when the filter is active.
Disconnect(t) ==
  /\ at[t] = "blocked" /\ m_dwBlockCallerThreadID = t
  /\ connected
  /\ at' = [at EXCEPT ![t] = "reconnecting"]
  /\ connected' = FALSE
  /\ committed' = FALSE
  /\ UNCHANGED <<blockVars, stopEvent, event, streamVars, active, missed, torn>>

CompleteConnect(t) ==
  /\ at[t] = "reconnecting"
  /\ at' = [at EXCEPT ![t] = "blocked"]
  /\ connected' = TRUE
  /\ committed' = active
  /\ torn' = (m_dwBlockCallerThreadID # t)
  /\ UNCHANGED <<blockVars, stopEvent, event, streamVars, active, missed>>

-----------------------------------------------------------------------------
(* The streaming thread.                                                   *)

\* A use, or one within another: the loop of StartUsingOutputPin, which waits
\* only while the pin is blocked, not while that is pending.
StartUsingOutputPin ==
  /\ \/ stream = "out" /\ active
     \/ stream = "using" /\ users < MaxUsers /\ ~nested
     \/ stream = "starting"
  /\ IF m_BlockState = "BLOCKED"
     THEN /\ stream' = "waiting"
          /\ UNCHANGED m_dwNumOutstandingOutputPinUsers
     ELSE /\ stream' = "using"
          /\ m_dwNumOutstandingOutputPinUsers' = users + 1
  /\ nested' = (users > 0)
  /\ UNCHANGED <<blockVars, stopEvent, appVars, filterVars>>

\* WaitForMultipleObjects: the first of the two events that is signalled.
WaitForEvents ==
  /\ stream = "waiting"
  /\ \/ unblockEvent /\ stream' = "starting"
     \/ ~unblockEvent /\ stopEvent /\ stream' = "out"  \* VFW_E_STATE_CHANGED
  /\ UNCHANGED <<nested, m_dwNumOutstandingOutputPinUsers, blockVars, stopEvent,
                 appVars, filterVars>>

StopUsingOutputPin ==
  /\ stream = "using"
  /\ m_dwNumOutstandingOutputPinUsers' = users - 1
  /\ stream' = IF users = 1 THEN "out" ELSE "using"
  /\ IF users = 1 /\ m_BlockState # "NOT_BLOCKED"
     THEN BlockOutputPin(notify)
     ELSE UNCHANGED <<m_BlockState, unblockEvent, event, notify>>
  /\ UNCHANGED <<nested, m_dwBlockCallerThreadID, stopEvent, at, filterVars>>

\* ChangeMediaTypeHelper: the peer accepts the type; the allocator is
\* decommitted, decided upon again and committed.  Each call may fail.
ChangeMediaType ==
  /\ stream = "using" /\ ~nested /\ connected /\ active
  /\ stream' = "changing"
  /\ nested' = TRUE
  /\ UNCHANGED <<m_dwNumOutstandingOutputPinUsers, blockVars, stopEvent,
                 appVars, filterVars>>

ChangeMediaTypeHelper ==
  /\ \/ /\ stream = "changing"
        /\ \/ stream' = "using" /\ UNCHANGED <<committed, torn>>
           \/ stream' = "deciding" /\ committed' = FALSE /\ UNCHANGED torn
     \/ /\ stream = "deciding" /\ stream' = "using"
        /\ \/ committed' = TRUE /\ UNCHANGED torn
           \/ torn' = TRUE /\ UNCHANGED committed
  /\ UNCHANGED <<nested, m_dwNumOutstandingOutputPinUsers, blockVars, stopEvent,
                 appVars, active, connected, missed>>

-----------------------------------------------------------------------------
(* State changes and flushes.  Stop and Pause of the filter call Inactive  *)
(* and Active of the pins that have a peer.                                *)

Active ==
  /\ ~active /\ stream = "out"
  /\ stopEvent' = (stopEvent /\ ~connected)
  /\ active' = TRUE
  /\ committed' = connected
  /\ missed' = FALSE
  /\ torn' = FALSE
  /\ UNCHANGED <<blockVars, appVars, streamVars, connected>>

\* The streaming thread ends later, when its calls have failed.
Inactive ==
  /\ active
  /\ stopEvent' = (stopEvent \/ connected)
  /\ active' = FALSE
  /\ committed' = FALSE
  /\ missed' = ~connected
  /\ torn' = (torn \/ stream \in {"changing", "deciding"})
  /\ UNCHANGED <<blockVars, appVars, streamVars, connected>>

DeliverBeginFlush ==
  /\ active /\ ~stopEvent
  /\ stopEvent' = TRUE
  /\ UNCHANGED <<blockVars, appVars, streamVars, filterVars>>

DeliverEndFlush ==
  /\ active /\ stopEvent
  /\ stopEvent' = FALSE
  /\ UNCHANGED <<blockVars, appVars, streamVars, filterVars>>

-----------------------------------------------------------------------------
Streaming ==
  \/ WaitForEvents \/ StopUsingOutputPin \/ ChangeMediaTypeHelper
  \/ stream = "starting" /\ StartUsingOutputPin

Next ==
  \/ \E t \in Apps :
       \/ AsynchronousBlockOutputPin(t) \/ BlockReturns(t) \/ UnblockOutputPin(t)
       \/ Disconnect(t) \/ CompleteConnect(t)
  \/ StartUsingOutputPin \/ ChangeMediaType \/ Streaming
  \/ Active \/ Inactive \/ DeliverBeginFlush \/ DeliverEndFlush

\* The streaming thread ends what it does, and the threads that have been told
\* run; nobody has to block or to unblock.
Fairness == WF_vars(Streaming) /\ \A t \in Apps : WF_vars(BlockReturns(t))

Spec == Init /\ [][Next]_vars /\ Fairness

-----------------------------------------------------------------------------
(* Properties.                                                             *)

\* CDynamicOutputPin::AssertValid, and the comments on the members: the pin is
\* not used while it is blocked, somebody is to be told exactly while a block
\* is pending, and the event that says so is signalled unless it is blocked.
AssertValid ==
  /\ m_BlockState = "BLOCKED" => users = 0
  /\ (notify # NoThread) <=> m_BlockState = "PENDING"
  /\ (m_dwBlockCallerThreadID # NoThread) <=> m_BlockState # "NOT_BLOCKED"
  /\ unblockEvent <=> m_BlockState # "BLOCKED"

\* While a thread reconnects the pin under a block that nobody has lifted, the
\* streaming thread does nothing downstream.
ReconnectAlone ==
  \A t \in Apps : at[t] = "reconnecting" /\ m_dwBlockCallerThreadID = t =>
    m_BlockState = "BLOCKED" /\ stream \in {"out", "starting", "waiting"}

\* The allocator of a connected pin is committed exactly while the filter is
\* active and no change of format is under way, unless one has failed or met
\* Inactive, or met a thread whose block another one has lifted.
CommittedWhileActive ==
  connected /\ ~torn /\ stream \notin {"changing", "deciding"} =>
    (committed <=> active)

\* A thread that blocks the pin is told so, or of the cancellation: however the
\* streaming thread nests its uses, the last one ends the wait.
BlockEnds == \A t \in Apps : at[t] = "waiting" ~> at[t] # "waiting"

\* Stop and flush get the streaming thread out of a blocked pin.  A Stop that comes
\* while a thread reconnects the pin does not: CBaseFilter::Stop (amfilter.cpp:533)
\* passes over a pin without a peer, so m_hStopEvent is not set, and the streaming
\* thread waits until the pin is unblocked.
StopReleases ==
  stream = "waiting" /\ (stopEvent \/ ~active) /\ ~missed ~>
    stream # "waiting" \/ (active /\ ~stopEvent) \/ missed

=============================================================================
