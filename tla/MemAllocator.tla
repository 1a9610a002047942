---------------------------- MODULE MemAllocator ----------------------------
(***************************************************************************)
(* The sample allocator two connected pins share: CBaseAllocator and       *)
(* CMemAllocator, with the life of the CMediaSamples they hand out         *)
(* (amfilter.cpp, amfilter.h).                                             *)
(*                                                                         *)
(* Users are the threads that get, share and release samples: the          *)
(* streaming thread inside CTransformFilter::Receive and the renderer's.   *)
(* Pins are the two pins of the connection: each keeps a counted pointer   *)
(* and commits and decommits the allocator from the graph's thread.        *)
(*                                                                         *)
(* Every section under the allocator's critical section is one step, and   *)
(* so is every piece of code between two of them: setting a sample's       *)
(* count outside the lock, the wait on the semaphore, the read of m_pNotify *)
(* after the lock has been left, and the Release() that may destroy the    *)
(* allocator.  Samples are numbered 1..m_lAllocated; their data and the    *)
(* buffer size are left out, their count is not.                           *)
(***************************************************************************)
EXTENDS Integers, FiniteSets

CONSTANTS
  Users,        \* Threads that hold samples
  Getters,      \* The users that call GetBuffer
  Pins,         \* The connected pins that keep a counted pointer to the allocator
  MaxBuffers,   \* The largest cBuffers a pin may agree on
  HoldAndWait,  \* TRUE if a thread that holds samples, its own or handed to
                \* it, may ask for another; FALSE in a filter that passes every
                \* sample downstream before it gets the next, as Receive does
  MaxTimeouts   \* Bound: AM_GBF_NOWAIT is used while fewer signals are pending

ASSUME AllocatorAssumption ==
  /\ IsFiniteSet(Users)
  /\ Getters \subseteq Users
  /\ IsFiniteSet(Pins)
  /\ MaxBuffers \in Nat \ {0}
  /\ HoldAndWait \in BOOLEAN
  /\ MaxTimeouts \in Nat

VARIABLES
  m_lFree,                \* The samples on the free list
  m_lAllocated,           \* How many samples exist
  m_lCount,               \* How many samples the pins have agreed on
  m_bChanged,             \* The agreement has changed since the last Alloc
  m_bCommitted,           \* GetBuffer may succeed
  m_bDecommitInProgress,  \* Decommitted, but samples are still outstanding
  m_lWaiting,             \* Waiters announced and not yet signalled
  m_hSem,                 \* Count of the semaphore
  m_cRef,                 \* Reference count of the allocator; 0 = destroyed
  sampleRef,              \* Reference count (m_cRef) of each sample
  holds,                  \* The samples each user holds a counted pointer to
  pc,                     \* Where each user is in GetBuffer or Release
  cur,                    \* The sample each user is working on
  pin                     \* Where each pin is in Decommit or BreakConnect

vars == <<m_lFree, m_lAllocated, m_lCount, m_bChanged, m_bCommitted,
          m_bDecommitInProgress, m_lWaiting, m_hSem, m_cRef, sampleRef, holds,
          pc, cur, pin>>

listVars   == <<m_lFree, m_lAllocated>>
agreedVars == <<m_lCount, m_bChanged>>
stateVars  == <<m_bCommitted, m_bDecommitInProgress>>
semVars    == <<m_lWaiting, m_hSem>>
sampleVars == <<sampleRef, holds>>
userVars   == <<pc, cur>>

Samples == 1..MaxBuffers

\* Places of a user in CBaseAllocator::GetBuffer, CMediaSample::Release and
\* CBaseAllocator::ReleaseBuffer.
GettingPlaces == {"get", "getNoWait", "wait", "got"}
UserPlaces    == GettingPlaces \cup
                   {"idle", "release", "releaseLast", "releaseDec", "put",
                    "notify", "notifyRelease"}
PinPlaces     == {"idle", "decommitted", "breaking", "drop", "gone"}

Init ==
  /\ m_lFree = {}
  /\ m_lAllocated = 0
  /\ m_lCount = 0
  /\ m_bChanged = FALSE
  /\ m_bCommitted = FALSE
  /\ m_bDecommitInProgress = FALSE
  /\ m_lWaiting = 0
  /\ m_hSem = 0
  /\ m_cRef = Cardinality(Pins)
  /\ sampleRef = [b \in Samples |-> 0]
  /\ holds = [t \in Users |-> {}]
  /\ pc = [t \in Users |-> "idle"]
  /\ cur = [t \in Users |-> 0]
  /\ pin = [p \in Pins |-> "idle"]

Goto(t, from, to) == pc[t] = from /\ pc' = [pc EXCEPT ![t] = to]

-----------------------------------------------------------------------------
(* Getting a sample.                                                       *)

\* A user calls GetBuffer through a pin that is still connected.
CallGetBuffer(t) ==
  /\ t \in Getters
  /\ HoldAndWait \/ holds[t] = {}
  /\ \E p \in Pins : pin[p] \in {"idle", "decommitted"}
  /\ \/ Goto(t, "idle", "get")
     \/ /\ m_lWaiting + m_hSem < MaxTimeouts
        /\ Goto(t, "idle", "getNoWait")
  /\ UNCHANGED <<listVars, agreedVars, stateVars, semVars, m_cRef, sampleVars,
                 cur, pin>>

\* Under the lock, and not committed: VFW_E_NOT_COMMITTED.
GetBufferRefused(t) ==
  /\ ~m_bCommitted
  /\ \E at \in {"get", "getNoWait"} : Goto(t, at, "idle")
  /\ UNCHANGED <<listVars, agreedVars, stateVars, semVars, m_cRef, sampleVars,
                 cur, pin>>

\* Under the lock: RemoveHead takes a sample off the free list.
GetBufferTakes(t) ==
  /\ m_bCommitted
  /\ \E at \in {"get", "getNoWait"} : Goto(t, at, "got")
  /\ \E b \in m_lFree : /\ m_lFree' = m_lFree \ {b}
                        /\ cur' = [cur EXCEPT ![t] = b]
  /\ UNCHANGED <<m_lAllocated, agreedVars, stateVars, semVars, m_cRef,
                 sampleVars, pin>>

\* Under the lock: the list is empty, SetWaiting().  With AM_GBF_NOWAIT the
\* call then returns VFW_E_TIMEOUT; otherwise the user goes on to wait.
GetBufferEmpty(t) ==
  /\ m_bCommitted
  /\ m_lFree = {}
  /\ m_lWaiting' = m_lWaiting + 1
  /\ \/ Goto(t, "get", "wait")
     \/ Goto(t, "getNoWait", "idle")
  /\ UNCHANGED <<listVars, agreedVars, stateVars, m_hSem, m_cRef, sampleVars,
                 cur, pin>>

\* WaitForSingleObject returns and the user goes round the loop.
Wake(t) ==
  /\ m_hSem > 0
  /\ m_hSem' = m_hSem - 1
  /\ Goto(t, "wait", "get")
  /\ UNCHANGED <<listVars, agreedVars, stateVars, m_lWaiting, m_cRef,
                 sampleVars, cur, pin>>

\* After the lock has been left: pSample->m_cRef = 1.
GetBufferReturns(t) ==
  /\ Goto(t, "got", "idle")
  /\ sampleRef' = [sampleRef EXCEPT ![cur[t]] = 1]
  /\ holds' = [holds EXCEPT ![t] = @ \cup {cur[t]}]
  /\ cur' = [cur EXCEPT ![t] = 0]
  /\ UNCHANGED <<listVars, agreedVars, stateVars, semVars, m_cRef, pin>>

-----------------------------------------------------------------------------
(* Sharing and releasing a sample.                                         *)

\* A user that holds a sample passes it on and the receiver keeps it.
AddRefSample(t, u) ==
  /\ pc[t] = "idle"
  /\ HoldAndWait \/ u \notin Getters
  /\ \E b \in holds[t] \ holds[u] :
        /\ sampleRef' = [sampleRef EXCEPT ![b] = @ + 1]
        /\ holds' = [holds EXCEPT ![u] = @ \cup {b}]
  /\ UNCHANGED <<listVars, agreedVars, stateVars, semVars, m_cRef, userVars,
                 pin>>

CallRelease(t) ==
  /\ Goto(t, "idle", "release")
  /\ \E b \in holds[t] : cur' = [cur EXCEPT ![t] = b]
  /\ UNCHANGED <<listVars, agreedVars, stateVars, semVars, m_cRef, sampleVars,
                 pin>>

\* Fault: the test for the last reference is off by one.
LastReferenceEarly(b) == sampleRef[b] \in {1, 2}

\* m_cRef == 1: whoever drops this reference is the last holder.
LastReference(b) == sampleRef[b] = 1

\* The count is read, not yet changed.
ReleaseTest(t) ==
  /\ pc[t] = "release"
  /\ pc' = [pc EXCEPT ![t] = IF LastReference(cur[t]) THEN "releaseLast"
                                                        ELSE "releaseDec"]
  /\ UNCHANGED <<listVars, agreedVars, stateVars, semVars, m_cRef, sampleVars,
                 cur, pin>>

LetGo(t) == holds' = [holds EXCEPT ![t] = @ \ {cur[t]}]

\* The last holder: m_cRef = 0 without an interlocked operation.
ReleaseLast(t) ==
  /\ Goto(t, "releaseLast", "put")
  /\ sampleRef' = [sampleRef EXCEPT ![cur[t]] = 0]
  /\ LetGo(t)
  /\ UNCHANGED <<listVars, agreedVars, stateVars, semVars, m_cRef, cur, pin>>

\* Otherwise InterlockedDecrement, whose result decides who was last.
ReleaseDec(t) ==
  /\ pc[t] = "releaseDec"
  /\ sampleRef' = [sampleRef EXCEPT ![cur[t]] = @ - 1]
  /\ LetGo(t)
  /\ IF LastReference(cur[t])
     THEN pc' = [pc EXCEPT ![t] = "put"] /\ cur' = cur
     ELSE pc' = [pc EXCEPT ![t] = "idle"] /\ cur' = [cur EXCEPT ![t] = 0]
  /\ UNCHANGED <<listVars, agreedVars, stateVars, semVars, m_cRef, pin>>

\* Faults: nobody is signalled; the announced waiters are not forgotten.
NotifyNobody == UNCHANGED semVars
NotifyAgain  == m_hSem' = m_hSem + m_lWaiting /\ UNCHANGED m_lWaiting

\* ReleaseSemaphore(m_hSem, m_lWaiting) and m_lWaiting = 0.
NotifySample ==
  /\ m_hSem' = m_hSem + m_lWaiting
  /\ m_lWaiting' = 0

\* Every sample is back on the free list.
AllFree(free) == Cardinality(free) = m_lAllocated

\* Fault: outstanding samples are ignored.
OutstandingIgnored == FALSE

\* Some sample is not on the free list.
Outstanding == Cardinality(m_lFree) < m_lAllocated

\* ReleaseBuffer under the lock: the sample goes on the free list, waiters are
\* signalled, and the last sample of a pending decommit completes it.
ReleaseBuffer(t) ==
  LET free      == m_lFree \cup {cur[t]}
      completes == m_bDecommitInProgress /\ AllFree(free)
  IN /\ m_lFree' = free
     /\ NotifySample
     /\ m_bDecommitInProgress' = (m_bDecommitInProgress /\ ~completes)
     /\ IF completes THEN Goto(t, "put", "notifyRelease")
                     ELSE Goto(t, "put", "notify")
     /\ cur' = [cur EXCEPT ![t] = 0]
     /\ UNCHANGED <<m_lAllocated, agreedVars, m_bCommitted, m_cRef, sampleVars,
                    pin>>

\* ReleaseBuffer after the lock: it reads m_pNotify and returns.
LeaveReleaseBuffer(t) ==
  /\ Goto(t, "notify", "idle")
  /\ UNCHANGED <<listVars, agreedVars, stateVars, semVars, m_cRef, sampleVars,
                 cur, pin>>

-----------------------------------------------------------------------------
(* The allocator's own reference count.                                    *)

\* Fault: the committed allocator does not keep itself alive.
AddRefForgotten == UNCHANGED m_cRef

\* AddRef(), once for the whole commit.
AddRef == m_cRef' = m_cRef + 1

\* Release(); at zero ~CMemAllocator runs: its Decommit returns early and
\* ReallyFree deletes the samples.
Release ==
  /\ m_cRef' = m_cRef - 1
  /\ IF m_cRef = 1 THEN m_lFree' = {} /\ m_lAllocated' = 0
                   ELSE UNCHANGED listVars

\* ReleaseBuffer after the lock, when it completed a decommit.
LeaveAndRelease(t) ==
  /\ Goto(t, "notifyRelease", "idle")
  /\ Release
  /\ UNCHANGED <<agreedVars, stateVars, semVars, sampleVars, cur, pin>>

-----------------------------------------------------------------------------
(* What the pins call.                                                     *)

GotoPin(p, from, to) == pin[p] = from /\ pin' = [pin EXCEPT ![p] = to]

\* Refused while committed or while samples are outstanding.
MayChange == ~m_bCommitted /\ ~Outstanding

SetProperties(p) ==
  /\ pin[p] = "idle"
  /\ MayChange
  /\ m_lCount' \in 0..MaxBuffers
  /\ m_bChanged' = TRUE
  /\ UNCHANGED <<listVars, stateVars, semVars, m_cRef, sampleVars, userVars,
                 pin>>

CanCommit(p) == pin[p] = "idle" /\ ~m_bCommitted

\* A pending decommit is cancelled: neither Alloc nor AddRef.
CommitCancels(p) ==
  /\ CanCommit(p)
  /\ m_bDecommitInProgress
  /\ m_bCommitted' = TRUE
  /\ m_bDecommitInProgress' = FALSE
  /\ UNCHANGED <<listVars, agreedVars, semVars, m_cRef, sampleVars, userVars,
                 pin>>

\* Alloc returns S_FALSE (nothing changed) or makes m_lCount new samples.
CommitAllocates(p) ==
  /\ CanCommit(p)
  /\ ~m_bDecommitInProgress
  /\ m_lCount > 0
  /\ m_bCommitted' = TRUE
  /\ IF m_bChanged THEN m_lAllocated' = m_lCount /\ m_lFree' = 1..m_lCount
                   ELSE UNCHANGED listVars
  /\ m_bChanged' = FALSE
  /\ AddRef
  /\ UNCHANGED <<m_lCount, m_bDecommitInProgress, semVars, sampleVars,
                 userVars, pin>>

\* Alloc fails after ReallyFree, with k samples made: m_bCommitted is FALSE
\* again and m_bChanged stays set.  (Failing with VFW_E_SIZENOTSET, before
\* ReallyFree, changes nothing.)
CommitFails(p) ==
  /\ CanCommit(p)
  /\ ~m_bDecommitInProgress
  /\ m_lCount > 0
  /\ m_bChanged
  /\ \E k \in 0..(m_lCount - 1) : m_lAllocated' = k /\ m_lFree' = 1..k
  /\ UNCHANGED <<agreedVars, stateVars, semVars, m_cRef, sampleVars, userVars,
                 pin>>

\* Decommit under the lock; "released" is where the pin goes to call Release()
\* if no sample was outstanding.
DecommitSection(p, released, done) ==
  IF m_bCommitted \/ m_bDecommitInProgress
  THEN /\ m_bCommitted' = FALSE
       /\ m_bDecommitInProgress' = Outstanding
       /\ NotifySample
       /\ GotoPin(p, "idle", IF Outstanding THEN done ELSE released)
  ELSE /\ GotoPin(p, "idle", done)
       /\ UNCHANGED <<stateVars, semVars>>

\* CBaseOutputPin::Inactive and CBaseInputPin::Inactive.
Decommit(p) ==
  /\ DecommitSection(p, "decommitted", "idle")
  /\ UNCHANGED <<listVars, agreedVars, m_cRef, sampleVars, userVars>>

DecommitReleases(p) ==
  /\ GotoPin(p, "decommitted", "idle")
  /\ Release
  /\ UNCHANGED <<agreedVars, stateVars, semVars, sampleVars, userVars>>

\* A pin is disconnected only while its filter is stopped: Stop has waited for
\* the streaming thread.  The other pin may have committed the allocator.
Stopped == \A t \in Users : pc[t] \notin GettingPlaces

\* BreakConnect, of either pin: Decommit, then Release.
BreakConnect(p) ==
  /\ Stopped
  /\ DecommitSection(p, "breaking", "drop")
  /\ UNCHANGED <<listVars, agreedVars, m_cRef, sampleVars, userVars>>

BreakReleases(p) ==
  /\ GotoPin(p, "breaking", "drop")
  /\ Release
  /\ UNCHANGED <<agreedVars, stateVars, semVars, sampleVars, userVars>>

DropReference(p) ==
  /\ GotoPin(p, "drop", "gone")
  /\ Release
  /\ UNCHANGED <<agreedVars, stateVars, semVars, sampleVars, userVars>>

\* Both pins are disconnected and no sample is left: the allocator's life is over.
Finished ==
  /\ \A p \in Pins : pin[p] = "gone"
  /\ \A t \in Users : pc[t] = "idle" /\ holds[t] = {}
  /\ UNCHANGED vars

-----------------------------------------------------------------------------
GetBufferStep(t) ==
  \/ GetBufferRefused(t) \/ GetBufferTakes(t) \/ GetBufferEmpty(t)
  \/ Wake(t) \/ GetBufferReturns(t)

ReleaseStep(t) ==
  \/ ReleaseTest(t) \/ ReleaseLast(t) \/ ReleaseDec(t) \/ ReleaseBuffer(t)
  \/ LeaveReleaseBuffer(t) \/ LeaveAndRelease(t)

UserNext(t) ==
  \/ CallGetBuffer(t) \/ GetBufferStep(t)
  \/ CallRelease(t) \/ ReleaseStep(t)
  \/ \E u \in Users : AddRefSample(t, u)

PinNext(p) ==
  \/ SetProperties(p)
  \/ CommitCancels(p) \/ CommitAllocates(p) \/ CommitFails(p)
  \/ Decommit(p) \/ DecommitReleases(p)
  \/ BreakConnect(p) \/ BreakReleases(p) \/ DropReference(p)

Next ==
  \/ \E t \in Users : UserNext(t)
  \/ \E p \in Pins : PinNext(p)
  \/ Finished

Spec == Init /\ [][Next]_vars

\* Threads run, and every holder of a sample eventually releases it.
Fairness ==
  \A t \in Users : /\ WF_vars(GetBufferStep(t))
                   /\ WF_vars(ReleaseStep(t))
                   /\ WF_vars(CallRelease(t))

FairSpec == Spec /\ Fairness

-----------------------------------------------------------------------------
TypeOK ==
  /\ m_lAllocated \in 0..MaxBuffers
  /\ m_lFree \subseteq 1..m_lAllocated
  /\ m_lCount \in 0..MaxBuffers
  /\ m_bChanged \in BOOLEAN
  /\ m_bCommitted \in BOOLEAN
  /\ m_bDecommitInProgress \in BOOLEAN
  /\ m_lWaiting \in Nat
  /\ m_hSem \in Nat
  /\ m_cRef \in Nat
  /\ sampleRef \in [Samples -> Nat]
  /\ holds \in [Users -> SUBSET Samples]
  /\ pc \in [Users -> UserPlaces]
  /\ cur \in [Users -> 0..MaxBuffers]
  /\ pin \in [Pins -> PinPlaces]

Waiters   == {t \in Users : pc[t] = "wait"}
Holders(b) == {t \in Users : b \in holds[t]}
Carriers(b) == {t \in Users : pc[t] \in {"got", "put"} /\ cur[t] = b}

\* The lazy signalling never loses a wakeup (amfilter.h:1412-1424): while a
\* sample is free, or once GetBuffer would be refused, every thread that is
\* waiting has a count of the semaphore to wake on.
NoLostWakeup ==
  (m_lFree # {} \/ ~m_bCommitted) =>
     m_lWaiting = 0 /\ m_hSem >= Cardinality(Waiters)

\* A sample's count is the number of its holders, through the unlocked store of
\* GetBuffer and the racing tests and decrements of Release.
SampleCountMatches ==
  \A b \in Samples : sampleRef[b] = Cardinality(Holders(b))

\* A sample is on the free list, or held, or carried by exactly one thread
\* between a list and a holder: never in two places, and never lost.
SampleInOnePlace ==
  \A b \in 1..m_lAllocated :
     /\ Cardinality({i \in 1..3 : \/ i = 1 /\ b \in m_lFree
                                  \/ i = 2 /\ Holders(b) # {}
                                  \/ i = 3 /\ Carriers(b) # {}}) = 1
     /\ \A t, u \in Carriers(b) : t = u

\* The comment in Commit (amfilter.cpp:4898-4901): cancelling a pending
\* decommit needs no Alloc because the agreement cannot have changed, so a
\* committed allocator always has exactly the samples that were agreed on.
CommittedAsAgreed == m_bCommitted => m_lAllocated = m_lCount /\ m_lCount > 0

\* Threads between the decision to give up the allocator's own reference and
\* the Release() that does it.
Releasing == {t \in Users : pc[t] = "notifyRelease"}
PinsReleasing == {p \in Pins : pin[p] \in {"decommitted", "breaking"}}
PinsHolding   == {p \in Pins : pin[p] # "gone"}

\* Commit, Decommit and ReleaseBuffer between them keep one reference on the
\* allocator from the first Commit until the decommit is complete.
SelfReference ==
  m_cRef = Cardinality(PinsHolding) + Cardinality(PinsReleasing)
             + Cardinality(Releasing)
             + (IF m_bCommitted \/ m_bDecommitInProgress THEN 1 ELSE 0)

\* The allocator is never destroyed under a sample that somebody holds or is
\* about to put back, nor under a thread inside GetBuffer.
AliveWhileInUse ==
  \A t \in Users :
     holds[t] # {} \/ pc[t] \in GettingPlaces \cup {"put", "notifyRelease"}
       => m_cRef > 0

\* A pending decommit completes exactly when the last sample comes back.
DecommitPending ==
  m_bDecommitInProgress => ~m_bCommitted /\ Cardinality(m_lFree) < m_lAllocated

\* Samples are deleted only while all of them are on the free list.
NoDeleteWhileOut ==
  [][m_lAllocated' # m_lAllocated => Cardinality(m_lFree) = m_lAllocated]_vars

\* What ReleaseBuffer, GetBuffer and Release of the sample promise: no sample is
\* lost, counted wrongly, or in two places at once.
SamplesKept == SampleCountMatches /\ SampleInOnePlace

\* What Commit, Decommit and the last ReleaseBuffer promise, whoever comes in
\* between: the samples are those agreed on and are deleted only when all are
\* back, and the allocator lives while any of them is out.
AllocatorKept ==
  /\ [](CommittedAsAgreed /\ SelfReference /\ AliveWhileInUse /\ DecommitPending)
  /\ NoDeleteWhileOut

\* A thread blocked in GetBuffer gets a sample or is refused.
GetBufferTerminates ==
  \A t \in Getters : pc[t] \in GettingPlaces ~> pc[t] = "idle"

\* amfilter.h:1415: "m_lWaiting + Semaphore count == nWaiting".
WaitCountExact == m_lWaiting + m_hSem = Cardinality(Waiters)

\* No thread stays in GetBuffer, and no count of the semaphore is left for a
\* waiter that has gone.
WaitingEnds == []WaitCountExact /\ GetBufferTerminates

\* amfilter.cpp:3358: "We also need to hold a refcount on the allocator to stop
\* that going away until we have finished with this": a thread of the renderer
\* that is still inside ReleaseBuffer, past the lock, has a live allocator.
AliveUntilReleaseReturns ==
  \A t \in Users \ Getters : pc[t] = "notify" => m_cRef > 0

=============================================================================
