------------------------- MODULE MemAllocator_proofs -------------------------
(***************************************************************************)
(* Proofs about MemAllocator, for every finite set of threads and pins and *)
(* every number of samples.  TypeInv and PlaceInv are inductive by         *)
(* themselves, and WakeInv, which is why no wakeup is lost, relies on them *)
(* alone.  Inv adds where each sample is, how many hold it, how many refer *)
(* to the allocator, and when its samples may be out: a thread knows that  *)
(* it is the last holder by the count, the count is right because a sample *)
(* is in one place, and that survives Release() of the allocator because   *)
(* whoever drops its last reference finds every sample free.               *)
(***************************************************************************)
EXTENDS MemAllocator, FiniteSetTheorems, TLAPS

-----------------------------------------------------------------------------
(* Types and places.                                                       *)

\* The part of TypeOK that does not depend on where the samples are.
TypeInv ==
  /\ m_lAllocated \in 0..MaxBuffers
  /\ m_lFree \subseteq Samples
  /\ m_lCount \in 0..MaxBuffers
  /\ m_bChanged \in BOOLEAN
  /\ m_bCommitted \in BOOLEAN
  /\ m_bDecommitInProgress \in BOOLEAN
  /\ m_lWaiting \in Nat
  /\ m_hSem \in Nat
  /\ m_cRef \in Int
  /\ sampleRef \in [Samples -> Int]
  /\ holds \in [Users -> SUBSET Samples]
  /\ pc \in [Users -> UserPlaces]
  /\ cur \in [Users -> 0..MaxBuffers]
  /\ pin \in [Pins -> PinPlaces]

\* A thread at one of these places works on the sample cur.
WorkPlaces == {"got", "release", "releaseLast", "releaseDec", "put"}
PlaceInv   == \A t \in Users : pc[t] \in WorkPlaces => cur[t] \in Samples

\* The names of the places.
LEMMA Places ==
  /\ {"idle", "get", "getNoWait", "wait", "got", "release", "releaseLast",
      "releaseDec", "put", "notify", "notifyRelease"} \subseteq UserPlaces
  /\ {"idle", "decommitted", "breaking", "drop", "gone"} \subseteq PinPlaces
  BY DEF UserPlaces, GettingPlaces, PinPlaces

\* Release() keeps the types of what it changes.
LEMMA ReleaseTypes ==
  ASSUME TypeInv, Release
  PROVE  /\ m_cRef' \in Int
         /\ m_lFree' \subseteq Samples
         /\ m_lAllocated' \in 0..MaxBuffers
<1>1. m_cRef' \in Int
  BY DEF Release, TypeInv
<1>2. CASE m_cRef = 1
  BY <1>1, <1>2, AllocatorAssumption DEF Release
<1>3. CASE m_cRef # 1
  BY <1>1, <1>3 DEF Release, TypeInv, listVars
<1> QED BY <1>2, <1>3

\* NotifySample() keeps the types of what it changes.
LEMMA NotifyTypes ==
  ASSUME TypeInv, NotifySample
  PROVE  m_lWaiting' \in Nat /\ m_hSem' \in Nat
  BY DEF TypeInv, NotifySample

\* A thread's steps keep the types.
LEMMA UserTypes ==
  ASSUME TypeInv, PlaceInv, NEW t \in Users, UserNext(t)
  PROVE  TypeInv' /\ PlaceInv'
<1> USE AllocatorAssumption, Places
    DEF TypeInv, PlaceInv, WorkPlaces, Samples, Goto
<1> USE DEF listVars, agreedVars, stateVars, semVars, sampleVars, userVars
<1>1. CASE CallGetBuffer(t)
  BY <1>1 DEF CallGetBuffer
<1>2. CASE GetBufferRefused(t)
  BY <1>2 DEF GetBufferRefused
<1>3. CASE GetBufferTakes(t)
  BY <1>3 DEF GetBufferTakes
<1>4. CASE GetBufferEmpty(t)
  <2>1. CASE Goto(t, "get", "wait")
    BY <1>4, <2>1 DEF GetBufferEmpty
  <2>2. CASE Goto(t, "getNoWait", "idle")
    BY <1>4, <2>2 DEF GetBufferEmpty
  <2> QED BY <1>4, <2>1, <2>2 DEF GetBufferEmpty
<1>5. CASE Wake(t)
  BY <1>5 DEF Wake
<1>6. CASE GetBufferReturns(t)
  BY <1>6 DEF GetBufferReturns
<1>7. CASE CallRelease(t)
  BY <1>7 DEF CallRelease
<1>8. CASE ReleaseTest(t)
  BY <1>8 DEF ReleaseTest
<1>9. CASE ReleaseLast(t)
  BY <1>9 DEF ReleaseLast, LetGo
<1>10. CASE ReleaseDec(t)
  <2>1. sampleRef' \in [Samples -> Int] /\ holds' \in [Users -> SUBSET Samples]
    BY <1>10 DEF ReleaseDec, LetGo
  <2>2. /\ UNCHANGED <<listVars, agreedVars, stateVars, semVars, m_cRef, pin>>
        /\ \/ pc' = [pc EXCEPT ![t] = "put"] /\ cur' = cur
           \/ pc' = [pc EXCEPT ![t] = "idle"] /\ cur' = [cur EXCEPT ![t] = 0]
        /\ cur[t] \in Samples
    BY <1>10 DEF ReleaseDec
  <2>3. pc' \in [Users -> UserPlaces] /\ cur' \in [Users -> 0..MaxBuffers]
    <3>1. CASE pc' = [pc EXCEPT ![t] = "put"] /\ cur' = cur
      BY <3>1
    <3>2. CASE pc' = [pc EXCEPT ![t] = "idle"] /\ cur' = [cur EXCEPT ![t] = 0]
      BY <3>2
    <3> QED BY <2>2, <3>1, <3>2
  <2>4. PlaceInv'
    BY <2>2
  <2>5. TypeInv'
    BY <2>1, <2>2, <2>3
  <2> QED BY <2>4, <2>5
<1>11. CASE ReleaseBuffer(t)
  <2>1. /\ m_lWaiting' \in Nat /\ m_hSem' \in Nat
        /\ cur' = [cur EXCEPT ![t] = 0]
        /\ UNCHANGED <<m_lAllocated, agreedVars, m_bCommitted, m_cRef,
                       sampleVars, pin>>
    BY <1>11 DEF ReleaseBuffer, NotifySample
  <2>3. m_lFree' \subseteq Samples
    BY <1>11 DEF ReleaseBuffer
  <2>4. m_bDecommitInProgress' \in BOOLEAN
    BY <1>11, Zenon DEF ReleaseBuffer
  <2>2. \E to \in {"notify", "notifyRelease"} : pc' = [pc EXCEPT ![t] = to]
    BY <1>11 DEF ReleaseBuffer
  <2> QED BY <2>1, <2>2, <2>3, <2>4
<1>12. CASE LeaveReleaseBuffer(t)
  BY <1>12 DEF LeaveReleaseBuffer
<1>13. CASE LeaveAndRelease(t)
  <2>1. Release
    BY <1>13 DEF LeaveAndRelease
  <2> QED BY <1>13, <2>1, ReleaseTypes DEF LeaveAndRelease
<1>14. CASE \E u \in Users : AddRefSample(t, u)
  BY <1>14 DEF AddRefSample
<1> QED
  BY <1>1, <1>2, <1>3, <1>4, <1>5, <1>6, <1>7, <1>8, <1>9, <1>10, <1>11,
     <1>12, <1>13, <1>14 DEF UserNext, GetBufferStep, ReleaseStep

\* So do the steps of a pin.
LEMMA PinTypes ==
  ASSUME TypeInv, PlaceInv, NEW p \in Pins, PinNext(p)
  PROVE  TypeInv' /\ PlaceInv'
<1> USE AllocatorAssumption, Places DEF TypeInv, PlaceInv, WorkPlaces, GotoPin
<1> USE DEF listVars, agreedVars, stateVars, semVars, sampleVars, userVars
<1>1. CASE SetProperties(p)
  BY <1>1 DEF SetProperties
<1>2. CASE CommitCancels(p)
  BY <1>2 DEF CommitCancels
<1>3. CASE CommitAllocates(p)
  <2>1. m_lFree' \subseteq Samples /\ m_lAllocated' \in 0..MaxBuffers
    <3>1. CASE m_bChanged
      <4>1. m_lAllocated' = m_lCount /\ m_lFree' = 1..m_lCount
        BY <1>3, <3>1 DEF CommitAllocates
      <4>2. 1..m_lCount \subseteq Samples
        BY DEF Samples
      <4> QED BY <4>1, <4>2
    <3>2. CASE ~m_bChanged
      BY <1>3, <3>2 DEF CommitAllocates
    <3> QED BY <3>1, <3>2
  <2>2. /\ m_bCommitted' = TRUE /\ m_bChanged' = FALSE /\ m_cRef' = m_cRef + 1
        /\ UNCHANGED <<m_lCount, m_bDecommitInProgress, semVars, sampleVars,
                       userVars, pin>>
    BY <1>3 DEF CommitAllocates, AddRef
  <2>3. m_cRef' \in Int
    BY <2>2
  <2> QED BY <2>1, <2>2, <2>3
<1>4. CASE CommitFails(p)
  <2>1. PICK k \in 0..(m_lCount - 1) : m_lAllocated' = k /\ m_lFree' = 1..k
    BY <1>4 DEF CommitFails
  <2>2. k \in 0..MaxBuffers
    OBVIOUS
  <2>3. 1..k \subseteq Samples
    BY <2>2 DEF Samples
  <2>4. UNCHANGED <<agreedVars, stateVars, semVars, m_cRef, sampleVars,
                    userVars, pin>>
    BY <1>4 DEF CommitFails
  <2> QED BY <2>1, <2>2, <2>3, <2>4
<1>5. ASSUME NEW q \in Pins, NEW released \in PinPlaces, NEW done \in PinPlaces,
             DecommitSection(q, released, done)
      PROVE  /\ m_bCommitted' \in BOOLEAN /\ m_bDecommitInProgress' \in BOOLEAN
             /\ m_lWaiting' \in Nat /\ m_hSem' \in Nat
             /\ pin' \in [Pins -> PinPlaces]
  <2>1. CASE m_bCommitted \/ m_bDecommitInProgress
    <3>1. m_lWaiting' \in Nat /\ m_hSem' \in Nat /\ m_bCommitted' \in BOOLEAN
      <4>1. NotifySample /\ m_bCommitted' = FALSE
        BY <1>5, <2>1 DEF DecommitSection
      <4> QED BY <4>1, NotifyTypes
    <3>2. pin' \in [Pins -> PinPlaces]
      BY <1>5, <2>1 DEF DecommitSection
    <3>3. m_bDecommitInProgress' = Outstanding
      BY <1>5, <2>1 DEF DecommitSection
    <3> QED BY <3>1, <3>2, <3>3 DEF Outstanding
  <2>2. CASE ~(m_bCommitted \/ m_bDecommitInProgress)
    BY <1>5, <2>2 DEF DecommitSection
  <2> QED BY <2>1, <2>2
<1>6. CASE Decommit(p)
  BY <1>6, <1>5 DEF Decommit
<1>7. CASE DecommitReleases(p)
  BY <1>7, ReleaseTypes DEF DecommitReleases
<1>8. CASE BreakConnect(p)
  BY <1>8, <1>5 DEF BreakConnect
<1>9. CASE BreakReleases(p)
  BY <1>9, ReleaseTypes DEF BreakReleases
<1>10. CASE DropReference(p)
  BY <1>10, ReleaseTypes DEF DropReference
<1> QED
  BY <1>1, <1>2, <1>3, <1>4, <1>6, <1>7, <1>8, <1>9, <1>10 DEF PinNext

\* The types and the places are inductive.
LEMMA TypesInductive == Spec => [](TypeInv /\ PlaceInv)
<1>1. ASSUME Init PROVE TypeInv /\ PlaceInv
  <2>1. IsFiniteSet(Pins) /\ Cardinality(Pins) \in Int
    BY AllocatorAssumption, FS_CardinalityType
  <2>2. 0 \in 0..MaxBuffers
    BY AllocatorAssumption
  <2>3. /\ m_cRef \in Int
        /\ sampleRef \in [Samples -> Int]
        /\ holds \in [Users -> SUBSET Samples]
        /\ pc \in [Users -> UserPlaces] /\ PlaceInv
        /\ cur \in [Users -> 0..MaxBuffers]
        /\ pin \in [Pins -> PinPlaces]
    BY <1>1, <2>1, <2>2, Places DEF Init, PlaceInv, WorkPlaces
  <2> QED
    BY <1>1, <2>2, <2>3 DEF Init, TypeInv
<1>2. TypeInv /\ PlaceInv /\ [Next]_vars => TypeInv' /\ PlaceInv'
  <2> SUFFICES ASSUME TypeInv, PlaceInv, [Next]_vars
               PROVE  TypeInv' /\ PlaceInv'
    OBVIOUS
  <2>1. CASE \E t \in Users : UserNext(t)
    BY <2>1, UserTypes
  <2>2. CASE \E p \in Pins : PinNext(p)
    BY <2>2, PinTypes
  <2>3. CASE Finished \/ UNCHANGED vars
    BY <2>3 DEF Finished, vars, TypeInv, PlaceInv
  <2> QED BY <2>1, <2>2, <2>3 DEF Next
<1> QED BY <1>1, <1>2, PTL DEF Spec

-----------------------------------------------------------------------------
(* No wakeup is lost.                                                      *)

\* While GetBuffer has nothing to wait for, no waiter is announced; and every
\* waiter is announced or has a count of the semaphore.
WakeInv ==
  /\ m_lFree # {} \/ ~m_bCommitted => m_lWaiting = 0
  /\ m_lWaiting + m_hSem >= Cardinality(Waiters)

\* The waiters are finitely many.
LEMMA WaitersFinite ==
  IsFiniteSet(Waiters) /\ Cardinality(Waiters) \in Nat
<1>1. Waiters \in SUBSET Users
  BY DEF Waiters
<1>2. IsFiniteSet(Users)
  BY AllocatorAssumption
<1>3. IsFiniteSet(Waiters)
  BY <1>1, <1>2, FS_Subset
<1> QED BY <1>3, FS_CardinalityType

\* A thread that goes from one place to another without waiting.
LEMMA WaitersSame ==
  ASSUME TypeInv, NEW t \in Users, NEW to, to # "wait", pc[t] # "wait",
         pc' = [pc EXCEPT ![t] = to]
  PROVE  Waiters' = Waiters
  BY DEF Waiters, TypeInv

\* A step that signals every announced waiter, whatever becomes free.
LEMMA NotifyWakes ==
  ASSUME TypeInv, WakeInv, NotifySample, Waiters' = Waiters
  PROVE  WakeInv'
<1>1. m_lWaiting' = 0 /\ m_hSem' = m_hSem + m_lWaiting
  BY DEF NotifySample
<1>2. m_lWaiting \in Nat /\ m_hSem \in Nat /\ Cardinality(Waiters) \in Nat
  BY WaitersFinite DEF TypeInv
<1>3. m_lWaiting' + m_hSem' >= Cardinality(Waiters)
  BY <1>1, <1>2 DEF WakeInv
<1> QED BY <1>1, <1>3 DEF WakeInv

\* A step after which no more is free, or which finds nobody announced, and
\* which touches neither the semaphore nor the waiters.
LEMMA NobodyToWake ==
  ASSUME WakeInv, UNCHANGED semVars, Waiters' = Waiters,
         \/ m_lWaiting = 0
         \/ m_lFree' \subseteq m_lFree /\ m_bCommitted' = m_bCommitted
  PROVE  WakeInv'
  BY DEF WakeInv, semVars

\* A thread's steps.
LEMMA UserWakes ==
  ASSUME TypeInv, WakeInv, NEW t \in Users, UserNext(t)
  PROVE  WakeInv'
<1> USE DEF listVars, stateVars
<1> DEFINE Moves == \E to : /\ to # "wait" /\ pc[t] # "wait"
                            /\ pc' = [pc EXCEPT ![t] = to]
<1>1. CASE GetBufferEmpty(t)
  <2>1. /\ m_lFree = {} /\ m_lFree' = {} /\ m_bCommitted /\ m_bCommitted'
        /\ m_lWaiting' = m_lWaiting + 1 /\ m_hSem' = m_hSem
    BY <1>1 DEF GetBufferEmpty
  <2>2. Cardinality(Waiters') <= Cardinality(Waiters) + 1
    <3>1. CASE Goto(t, "get", "wait")
      <4>1. Waiters' = Waiters \cup {t}
        BY <3>1 DEF Goto, Waiters, TypeInv
      <4> QED BY <4>1, WaitersFinite, FS_AddElement
    <3>2. CASE Goto(t, "getNoWait", "idle")
      <4>1. Waiters' = Waiters
        BY <3>2 DEF Goto, Waiters, TypeInv
      <4> QED BY <4>1, WaitersFinite
    <3> QED BY <1>1, <3>1, <3>2 DEF GetBufferEmpty
  <2>3. /\ m_lWaiting \in Nat /\ m_hSem \in Nat
        /\ Cardinality(Waiters) \in Nat /\ Cardinality(Waiters') \in Nat
    <3>1. Waiters' \in SUBSET Users
      BY DEF Waiters
    <3>2. IsFiniteSet(Waiters')
      BY <3>1, AllocatorAssumption, FS_Subset
    <3> QED BY <3>2, WaitersFinite, FS_CardinalityType DEF TypeInv
  <2>4. m_lWaiting' + m_hSem' >= Cardinality(Waiters')
    BY <2>1, <2>2, <2>3 DEF WakeInv
  <2> QED BY <2>1, <2>4 DEF WakeInv
<1>2. CASE Wake(t)
  <2>1. /\ m_hSem > 0 /\ m_hSem' = m_hSem - 1
        /\ UNCHANGED <<m_lWaiting, m_lFree, m_bCommitted>>
    BY <1>2 DEF Wake
  <2>2. Waiters' = Waiters \ {t} /\ t \in Waiters
    BY <1>2 DEF Wake, Goto, Waiters, TypeInv
  <2>3. Cardinality(Waiters') = Cardinality(Waiters) - 1
    BY <2>2, WaitersFinite, FS_RemoveElement
  <2>4. m_lWaiting \in Nat /\ m_hSem \in Nat /\ Cardinality(Waiters) \in Nat
    BY WaitersFinite DEF TypeInv
  <2>5. m_lWaiting' + m_hSem' >= Cardinality(Waiters')
    BY <2>1, <2>3, <2>4 DEF WakeInv
  <2> QED BY <2>1, <2>5 DEF WakeInv
<1>3. CASE ReleaseBuffer(t)
  <2>1. NotifySample /\ Moves
    BY <1>3 DEF ReleaseBuffer, Goto
  <2> QED BY <2>1, WaitersSame, NotifyWakes
<1>4. CASE \/ CallGetBuffer(t) \/ GetBufferRefused(t) \/ GetBufferReturns(t)
           \/ CallRelease(t) \/ ReleaseTest(t) \/ ReleaseLast(t)
           \/ ReleaseDec(t) \/ LeaveReleaseBuffer(t)
  <2>1. Moves
    BY <1>4 DEF CallGetBuffer, GetBufferRefused, GetBufferReturns, CallRelease,
                ReleaseTest, ReleaseLast, ReleaseDec, LeaveReleaseBuffer, Goto
  <2>2. UNCHANGED <<semVars, listVars, m_bCommitted>>
    BY <1>4 DEF CallGetBuffer, GetBufferRefused, GetBufferReturns, CallRelease,
                ReleaseTest, ReleaseLast, ReleaseDec, LeaveReleaseBuffer
  <2> QED BY <2>1, <2>2, WaitersSame, NobodyToWake
<1>5. CASE GetBufferTakes(t)
  <2>1. Moves
    BY <1>5 DEF GetBufferTakes, Goto
  <2>2. UNCHANGED semVars /\ m_lFree' \subseteq m_lFree
          /\ m_bCommitted' = m_bCommitted
    BY <1>5 DEF GetBufferTakes
  <2> QED BY <2>1, <2>2, WaitersSame, NobodyToWake
<1>6. CASE LeaveAndRelease(t)
  <2>1. Moves
    BY <1>6 DEF LeaveAndRelease, Goto
  <2>2. UNCHANGED semVars /\ m_lFree' \subseteq m_lFree
          /\ m_bCommitted' = m_bCommitted
    BY <1>6 DEF LeaveAndRelease, Release
  <2> QED BY <2>1, <2>2, WaitersSame, NobodyToWake
<1>7. CASE \E u \in Users : AddRefSample(t, u)
  <2>1. UNCHANGED <<semVars, listVars, m_bCommitted, pc>>
    BY <1>7 DEF AddRefSample, userVars
  <2> QED BY <2>1, NobodyToWake DEF Waiters
<1> QED
  BY <1>1, <1>2, <1>3, <1>4, <1>5, <1>6, <1>7
     DEF UserNext, GetBufferStep, ReleaseStep

\* A pin's steps.
LEMMA PinWakes ==
  ASSUME TypeInv, WakeInv, NEW p \in Pins, PinNext(p)
  PROVE  WakeInv'
<1> USE DEF listVars, stateVars
<1>1. Waiters' = Waiters
  <2>1. pc' = pc
    BY DEF PinNext, SetProperties, CommitCancels, CommitAllocates, CommitFails,
           Decommit, DecommitReleases, DropReference, BreakConnect,
           BreakReleases, userVars
  <2> QED BY <2>1 DEF Waiters
<1>2. CASE SetProperties(p)
  BY <1>1, <1>2, NobodyToWake DEF SetProperties
<1>3. CASE CommitCancels(p) \/ CommitAllocates(p) \/ CommitFails(p)
  <2>1. ~m_bCommitted /\ UNCHANGED semVars
    BY <1>3 DEF CommitCancels, CommitAllocates, CommitFails, CanCommit
  <2> QED BY <1>1, <2>1, NobodyToWake DEF WakeInv
<1>4. ASSUME NEW q, NEW released, NEW done, UNCHANGED listVars,
             DecommitSection(q, released, done)
      PROVE  WakeInv'
  <2>1. CASE m_bCommitted \/ m_bDecommitInProgress
    BY <1>1, <1>4, <2>1, NotifyWakes DEF DecommitSection
  <2>2. CASE ~(m_bCommitted \/ m_bDecommitInProgress)
    BY <1>1, <1>4, <2>2, NobodyToWake DEF DecommitSection
  <2> QED BY <2>1, <2>2
<1>5. CASE Decommit(p) \/ BreakConnect(p)
  BY <1>4, <1>5 DEF Decommit, BreakConnect
<1>6. CASE DecommitReleases(p) \/ BreakReleases(p) \/ DropReference(p)
  <2>1. UNCHANGED semVars /\ m_lFree' \subseteq m_lFree
          /\ m_bCommitted' = m_bCommitted
    BY <1>6 DEF DecommitReleases, BreakReleases, DropReference, Release
  <2> QED BY <1>1, <2>1, NobodyToWake
<1> QED BY <1>2, <1>3, <1>5, <1>6 DEF PinNext

\* The lazy signalling loses no wakeup: while a sample is free, or GetBuffer
\* would be refused, every waiting thread has a count of the semaphore.
THEOREM WakeupsKept == Spec => []NoLostWakeup
<1>1. TypeInv /\ Init => WakeInv
  <2> SUFFICES ASSUME TypeInv, Init PROVE WakeInv
    OBVIOUS
  <2>1. Waiters = {}
    BY DEF Init, Waiters
  <2>2. Cardinality(Waiters) = 0
    BY <2>1, FS_EmptySet
  <2> QED BY <2>2 DEF Init, WakeInv
<1>2. TypeInv /\ WakeInv /\ [Next]_vars => WakeInv'
  <2> SUFFICES ASSUME TypeInv, WakeInv, [Next]_vars PROVE WakeInv'
    OBVIOUS
  <2>1. CASE \E t \in Users : UserNext(t)
    BY <2>1, UserWakes
  <2>2. CASE \E p \in Pins : PinNext(p)
    BY <2>2, PinWakes
  <2>3. CASE Finished \/ UNCHANGED vars
    BY <2>3 DEF Finished, vars, WakeInv, Waiters
  <2> QED BY <2>1, <2>2, <2>3 DEF Next
<1>3. TypeInv /\ WakeInv => NoLostWakeup
  <2> SUFFICES ASSUME TypeInv, WakeInv, m_lFree # {} \/ ~m_bCommitted
               PROVE  m_lWaiting = 0 /\ m_hSem >= Cardinality(Waiters)
    BY DEF NoLostWakeup
  <2>1. m_lWaiting = 0 /\ m_lWaiting + m_hSem >= Cardinality(Waiters)
    BY DEF WakeInv
  <2>2. m_hSem \in Nat /\ Cardinality(Waiters) \in Nat
    BY WaitersFinite DEF TypeInv
  <2> QED BY <2>1, <2>2
<1> QED BY <1>1, <1>2, <1>3, TypesInductive, PTL DEF Spec


-----------------------------------------------------------------------------
(* The samples: where each one is, and how many.                           *)

Carries(t) == pc[t] \in {"got", "put"}
Releases(t) == pc[t] \in {"release", "releaseLast", "releaseDec"}

\* Every sample is on the free list, or with its holders, or with the one thread
\* that carries it between the two; a thread that has found itself to be the
\* last holder is the only one.
OnePlaceInv ==
  /\ m_lFree \subseteq 1..m_lAllocated
  /\ \A t \in Users : holds[t] \subseteq (1..m_lAllocated) \ m_lFree
  /\ \A t \in Users : Releases(t) => cur[t] \in holds[t]
  /\ \A t, u \in Users : pc[t] = "releaseLast" /\ cur[t] \in holds[u] => t = u
  /\ \A t \in Users : Carries(t) => cur[t] \in (1..m_lAllocated) \ m_lFree
  /\ \A t, u \in Users : Carries(t) => cur[t] \notin holds[u]
  /\ \A t, u \in Users : Carries(t) /\ Carries(u) /\ cur[t] = cur[u] => t = u
  /\ \A b \in 1..m_lAllocated : \/ b \in m_lFree
                                \/ \E t \in Users : b \in holds[t]
                                \/ \E t \in Users : Carries(t) /\ cur[t] = b

\* Samples are out only between a Commit and the end of its Decommit, and while
\* they are, and as long as the agreement stands, they are those agreed on.
CommitInv ==
  /\ m_bDecommitInProgress => ~m_bCommitted /\ m_lFree # 1..m_lAllocated
  /\ ~m_bDecommitInProgress /\ ~m_bCommitted => m_lFree = 1..m_lAllocated
  /\ m_bDecommitInProgress \/ m_bCommitted => ~m_bChanged /\ m_lCount > 0
  /\ ~m_bChanged /\ m_cRef > 0 => m_lAllocated = m_lCount

\* A thread in GetBuffer has come in through a pin that is connected still.
GettingInv ==
  \A t \in Users : pc[t] \in GettingPlaces =>
    \E p \in Pins : pin[p] \in {"idle", "decommitted"}


\* The holders of a sample are finitely many.
LEMMA HoldersFinite ==
  ASSUME NEW b
  PROVE  /\ IsFiniteSet(Holders(b)) /\ Cardinality(Holders(b)) \in Nat
         /\ IsFiniteSet(Holders(b)') /\ Cardinality(Holders(b)') \in Nat
<1>1. Holders(b) \in SUBSET Users /\ Holders(b)' \in SUBSET Users
  BY DEF Holders
<1>2. IsFiniteSet(Holders(b)) /\ IsFiniteSet(Holders(b)')
  BY <1>1, AllocatorAssumption, FS_Subset
<1> QED BY <1>2, FS_CardinalityType

\* Where the count is that of the holders, a holder who reads 1 is the only one.
LEMMA LastIsOnly ==
  ASSUME SampleCountMatches, NEW b \in Samples, NEW t \in Holders(b)
  PROVE  LastReference(b) <=> Holders(b) = {t}
<1>1. LastReference(b) <=> Cardinality(Holders(b)) = 1
  BY DEF LastReference, SampleCountMatches
<1>2. Cardinality(Holders(b)) = 1 <=> \E x : Holders(b) = {x}
  BY HoldersFinite, FS_Singleton
<1> QED BY <1>1, <1>2

\* A thread's steps leave every sample in one place.
LEMMA UserKeepsPlaces ==
  ASSUME TypeInv, PlaceInv, OnePlaceInv, SampleCountMatches, NEW t \in Users,
         UserNext(t), ~LeaveAndRelease(t)
  PROVE  OnePlaceInv'
<1> USE DEF TypeInv, PlaceInv, WorkPlaces, OnePlaceInv, Carries, Releases, Goto
<1> USE DEF listVars, agreedVars, stateVars, semVars, sampleVars, userVars
<1>1. CASE CallGetBuffer(t)
  BY <1>1 DEF CallGetBuffer
<1>2. CASE GetBufferRefused(t)
  BY <1>2 DEF GetBufferRefused
<1>3. CASE GetBufferTakes(t)
  BY <1>3 DEF GetBufferTakes
<1>4. CASE GetBufferEmpty(t)
  BY <1>4 DEF GetBufferEmpty
<1>5. CASE Wake(t)
  BY <1>5 DEF Wake
<1>6. CASE GetBufferReturns(t)
  BY <1>6 DEF GetBufferReturns
<1>7. CASE CallRelease(t)
  BY <1>7 DEF CallRelease
<1>8. CASE ReleaseTest(t)
  <2>1. t \in Holders(cur[t]) /\ cur[t] \in Samples
    BY <1>8 DEF ReleaseTest, Holders
  <2>2. LastReference(cur[t]) <=> Holders(cur[t]) = {t}
    BY <2>1, LastIsOnly
  <2>3. CASE LastReference(cur[t])
    <3>1. \A u \in Users : cur[t] \in holds[u] => u = t
      BY <2>2, <2>3 DEF Holders
    <3>2. pc' = [pc EXCEPT ![t] = "releaseLast"]
      BY <1>8, <2>3 DEF ReleaseTest
    <3> QED BY <1>8, <3>1, <3>2 DEF ReleaseTest
  <2>4. CASE ~LastReference(cur[t])
    <3>1. pc' = [pc EXCEPT ![t] = "releaseDec"]
      BY <1>8, <2>4 DEF ReleaseTest
    <3> QED BY <1>8, <3>1 DEF ReleaseTest
  <2> QED BY <2>3, <2>4
<1>9. CASE ReleaseLast(t)
  BY <1>9 DEF ReleaseLast, LetGo
<1>10. CASE ReleaseDec(t)
  <2>1. t \in Holders(cur[t]) /\ cur[t] \in Samples
    BY <1>10 DEF ReleaseDec, Holders
  <2>2. LastReference(cur[t]) <=> Holders(cur[t]) = {t}
    BY <2>1, LastIsOnly
  <2>3. CASE LastReference(cur[t])
    <3>1. \A u \in Users : cur[t] \in holds[u] => u = t
      BY <2>2, <2>3 DEF Holders
    <3>2. pc' = [pc EXCEPT ![t] = "put"] /\ cur' = cur
      BY <1>10, <2>3 DEF ReleaseDec
    <3> QED BY <1>10, <3>1, <3>2 DEF ReleaseDec, LetGo
  <2>4. CASE ~LastReference(cur[t])
    <3>1. PICK u \in Users : cur[t] \in holds[u] /\ u # t
      BY <2>1, <2>2, <2>4 DEF Holders
    <3>2. pc' = [pc EXCEPT ![t] = "idle"] /\ cur' = [cur EXCEPT ![t] = 0]
      BY <1>10, <2>4 DEF ReleaseDec
    <3> QED BY <1>10, <3>1, <3>2 DEF ReleaseDec, LetGo
  <2> QED BY <2>3, <2>4
<1>11. CASE ReleaseBuffer(t)
  <2>1. /\ m_lFree' = m_lFree \cup {cur[t]}
        /\ cur' = [cur EXCEPT ![t] = 0]
        /\ UNCHANGED <<m_lAllocated, sampleVars>>
    BY <1>11 DEF ReleaseBuffer
  <2>2. /\ pc[t] = "put"
        /\ \E to \in {"notify", "notifyRelease"} : pc' = [pc EXCEPT ![t] = to]
    BY <1>11 DEF ReleaseBuffer
  <2>3. \A u \in Users \ {t} : pc'[u] = pc[u] /\ cur'[u] = cur[u]
    BY <2>1, <2>2
  <2>4. ~Carries(t)' /\ ~Releases(t)' /\ pc'[t] # "releaseLast"
    BY <2>2
  <2>5. \A b \in 1..m_lAllocated' :
          \/ b \in m_lFree'
          \/ \E u \in Users : b \in holds'[u]
          \/ \E u \in Users : Carries(u)' /\ cur'[u] = b
    <3> SUFFICES ASSUME NEW b \in 1..m_lAllocated, b \notin m_lFree, b # cur[t],
                        NEW u \in Users, Carries(u), cur[u] = b
                 PROVE  \E v \in Users : Carries(v)' /\ cur'[v] = b
      BY <2>1
    <3>1. u # t
      OBVIOUS
    <3> QED BY <2>3, <3>1
  <2>6. \A u \in Users : /\ holds'[u] = holds[u] /\ cur[t] \notin holds[u]
                         /\ holds[u] \subseteq (1..m_lAllocated) \ m_lFree
    BY <2>1, <2>2
  <2>7. /\ m_lFree' \subseteq 1..m_lAllocated'
        /\ \A u \in Users : holds'[u] \subseteq (1..m_lAllocated') \ m_lFree'
    <3>1. cur[t] \in 1..m_lAllocated /\ m_lFree \subseteq 1..m_lAllocated
      BY <2>2
    <3>2. m_lAllocated' = m_lAllocated /\ m_lFree' = m_lFree \cup {cur[t]}
      BY <2>1
    <3> QED BY ONLY <2>6, <3>1, <3>2, Zenon
  <2>8. \A u, v \in Users : pc'[u] = "releaseLast" /\ cur'[u] \in holds'[v] => u = v
    BY <2>3, <2>4, <2>6
  <2>9. \A u \in Users : Releases(u)' => cur'[u] \in holds'[u]
    BY <2>3, <2>4, <2>6
  <2>10. \A u \in Users : Carries(u)' => /\ Carries(u) /\ u # t /\ cur'[u] = cur[u]
                                         /\ cur[u] # cur[t]
    BY <2>2, <2>3, <2>4
  <2>11. \A u, v \in Users : Carries(u)' => cur'[u] \notin holds'[v]
    BY <2>6, <2>10
  <2>12. \A u \in Users : Carries(u)' => cur'[u] \in (1..m_lAllocated') \ m_lFree'
    BY <2>1, <2>10
  <2>13. \A u, v \in Users : Carries(u)' /\ Carries(v)' /\ cur'[u] = cur'[v] => u = v
    BY <2>10
  <2> QED BY <2>5, <2>7, <2>8, <2>9, <2>11, <2>12, <2>13
<1>12. CASE LeaveReleaseBuffer(t)
  BY <1>12 DEF LeaveReleaseBuffer
<1>14. CASE \E u \in Users : AddRefSample(t, u)
  BY <1>14 DEF AddRefSample
<1> QED
  BY <1>1, <1>2, <1>3, <1>4, <1>5, <1>6, <1>7, <1>8, <1>9, <1>10, <1>11,
     <1>12, <1>14 DEF UserNext, GetBufferStep, ReleaseStep


\* While every sample is free nobody has one, however many there are.
LEMMA NoneOut ==
  ASSUME TypeInv, OnePlaceInv, m_lFree = 1..m_lAllocated,
         m_lFree' = 1..m_lAllocated', holds' = holds, cur' = cur,
         \A u \in Users : /\ Carries(u)' => Carries(u)
                          /\ Releases(u)' => Releases(u)
                          /\ pc'[u] = "releaseLast" => pc[u] = "releaseLast"
  PROVE  OnePlaceInv'
<1>1. \A u \in Users : holds[u] = {} /\ ~Carries(u)
  BY DEF OnePlaceInv
<1> QED BY <1>1 DEF OnePlaceInv

\* A thread's steps keep the counts of the samples.
LEMMA UserKeepsCounts ==
  ASSUME TypeInv, PlaceInv, OnePlaceInv, SampleCountMatches, NEW t \in Users,
         UserNext(t)
  PROVE  SampleCountMatches'
<1> USE DEF TypeInv, PlaceInv, WorkPlaces, Goto
<1>0. SUFFICES ASSUME NEW b \in Samples
               PROVE  sampleRef'[b] = Cardinality(Holders(b)')
  BY DEF SampleCountMatches
<1>1. sampleRef[b] = Cardinality(Holders(b))
  BY DEF SampleCountMatches
<1>2. ASSUME UNCHANGED sampleVars
      PROVE  sampleRef'[b] = Cardinality(Holders(b)')
  BY <1>1, <1>2 DEF sampleVars, Holders
<1>3. ASSUME b # cur[t], sampleRef'[b] = sampleRef[b],
             \A u \in Users \ {t} : holds'[u] = holds[u],
             b \in holds'[t] <=> b \in holds[t]
      PROVE  sampleRef'[b] = Cardinality(Holders(b)')
  <2>1. Holders(b)' = Holders(b)
    BY <1>3 DEF Holders
  <2> QED BY <1>1, <1>3, <2>1
<1>4. CASE GetBufferReturns(t)
  <2>1. /\ sampleRef' = [sampleRef EXCEPT ![cur[t]] = 1]
        /\ holds' = [holds EXCEPT ![t] = @ \cup {cur[t]}]
        /\ cur[t] \in Samples /\ pc[t] = "got"
    BY <1>4 DEF GetBufferReturns
  <2>2. CASE b = cur[t]
    <3>1. Holders(b)' = {t}
      BY <2>1, <2>2 DEF Holders, OnePlaceInv, Carries
    <3> QED BY <2>1, <2>2, <3>1, FS_Singleton
  <2>3. CASE b # cur[t]
    BY <2>1, <2>3, <1>3
  <2> QED BY <2>2, <2>3
<1>5. CASE ReleaseLast(t)
  <2>1. /\ sampleRef' = [sampleRef EXCEPT ![cur[t]] = 0]
        /\ holds' = [holds EXCEPT ![t] = @ \ {cur[t]}]
        /\ cur[t] \in Samples /\ pc[t] = "releaseLast"
    BY <1>5 DEF ReleaseLast, LetGo
  <2>2. CASE b = cur[t]
    <3>1. Holders(b)' = {}
      BY <2>1, <2>2 DEF Holders, OnePlaceInv
    <3> QED BY <2>1, <2>2, <3>1, FS_EmptySet
  <2>3. CASE b # cur[t]
    BY <2>1, <2>3, <1>3
  <2> QED BY <2>2, <2>3
<1>6. CASE ReleaseDec(t)
  <2>1. /\ sampleRef' = [sampleRef EXCEPT ![cur[t]] = @ - 1]
        /\ holds' = [holds EXCEPT ![t] = @ \ {cur[t]}]
        /\ cur[t] \in Samples /\ pc[t] = "releaseDec"
    BY <1>6 DEF ReleaseDec, LetGo
  <2>2. CASE b = cur[t]
    <3>1. Holders(b)' = Holders(b) \ {t} /\ t \in Holders(b)
      BY <2>1, <2>2 DEF Holders, OnePlaceInv, Releases
    <3>2. Cardinality(Holders(b)') = Cardinality(Holders(b)) - 1
      BY <3>1, HoldersFinite, FS_RemoveElement
    <3> QED BY <1>1, <2>1, <2>2, <3>2
  <2>3. CASE b # cur[t]
    BY <2>1, <2>3, <1>3
  <2> QED BY <2>2, <2>3
<1>7. CASE \E u \in Users : AddRefSample(t, u)
  <2>1. PICK u \in Users, c \in Samples :
          /\ c \notin holds[u]
          /\ sampleRef' = [sampleRef EXCEPT ![c] = @ + 1]
          /\ holds' = [holds EXCEPT ![u] = @ \cup {c}]
    BY <1>7 DEF AddRefSample
  <2>2. CASE b = c
    <3>1. Holders(b)' = Holders(b) \cup {u} /\ u \notin Holders(b)
      BY <2>1, <2>2 DEF Holders
    <3>2. Cardinality(Holders(b)') = Cardinality(Holders(b)) + 1
      BY <3>1, HoldersFinite, FS_AddElement
    <3> QED BY <1>1, <2>1, <2>2, <3>2
  <2>3. CASE b # c
    <3>1. Holders(b)' = Holders(b)
      BY <2>1, <2>3 DEF Holders
    <3> QED BY <1>1, <2>1, <2>3, <3>1
  <2> QED BY <2>2, <2>3
<1>8. CASE \/ CallGetBuffer(t) \/ GetBufferRefused(t) \/ GetBufferTakes(t)
           \/ GetBufferEmpty(t) \/ Wake(t) \/ CallRelease(t) \/ ReleaseTest(t)
           \/ ReleaseBuffer(t) \/ LeaveReleaseBuffer(t) \/ LeaveAndRelease(t)
  <2>1. UNCHANGED sampleVars
    BY <1>8 DEF CallGetBuffer, GetBufferRefused, GetBufferTakes, GetBufferEmpty,
                Wake, CallRelease, ReleaseTest, ReleaseBuffer,
                LeaveReleaseBuffer, LeaveAndRelease
  <2> QED BY <1>2, <2>1
<1> QED
  BY <1>4, <1>5, <1>6, <1>7, <1>8 DEF UserNext, GetBufferStep, ReleaseStep


-----------------------------------------------------------------------------
(* The allocator: when samples are out, and what keeps it alive.           *)

\* In numbers: a subset of the samples is all of them, or fewer.
LEMMA FreeCounts ==
  ASSUME NEW n \in Nat, NEW F \in SUBSET (1..n)
  PROVE  /\ Cardinality(F) = n <=> F = 1..n
         /\ Cardinality(F) < n <=> F # 1..n
<1>1. IsFiniteSet(1..n) /\ Cardinality(1..n) = n
  BY FS_Interval
<1>2. IsFiniteSet(F) /\ Cardinality(F) <= n /\ (Cardinality(F) = n => F = 1..n)
  BY <1>1, FS_Subset
<1>3. Cardinality(F) \in Nat
  BY <1>2, FS_CardinalityType
<1> QED BY <1>1, <1>2, <1>3

LEMMA OutstandingIs ==
  ASSUME TypeInv, OnePlaceInv
  PROVE  Outstanding <=> m_lFree # 1..m_lAllocated
<1>1. m_lAllocated \in Nat /\ m_lFree \in SUBSET (1..m_lAllocated)
  BY DEF TypeInv, OnePlaceInv
<1> QED BY <1>1, FreeCounts DEF Outstanding

\* The allocator's own reference, and those of the pins and threads, in numbers.
Own == IF m_bCommitted \/ m_bDecommitInProgress THEN 1 ELSE 0

LEMMA Referrers ==
  /\ IsFiniteSet(PinsHolding) /\ Cardinality(PinsHolding) \in Nat
  /\ IsFiniteSet(PinsReleasing) /\ Cardinality(PinsReleasing) \in Nat
  /\ IsFiniteSet(Releasing) /\ Cardinality(Releasing) \in Nat
  /\ Own \in {0, 1}
<1>1. /\ PinsHolding \in SUBSET Pins /\ PinsReleasing \in SUBSET Pins
      /\ Releasing \in SUBSET Users
  BY DEF PinsHolding, PinsReleasing, Releasing
<1>2. IsFiniteSet(PinsHolding) /\ IsFiniteSet(PinsReleasing) /\ IsFiniteSet(Releasing)
  BY <1>1, AllocatorAssumption, FS_Subset
<1> QED BY <1>2, FS_CardinalityType DEF Own

\* Whoever has a reference finds the allocator alive, and whoever has the last
\* one finds it decommitted.
LEMMA KeptAlive ==
  ASSUME TypeInv, SelfReference
  PROVE  /\ Own = 1 => m_cRef > 0
         /\ \A p \in Pins : pin[p] # "gone" => m_cRef > 0
         /\ \A p \in Pins : pin[p] \in {"decommitted", "breaking"} => m_cRef > 1
         /\ \A p \in Pins : pin[p] # "gone" /\ m_cRef = 1 => Own = 0
         /\ \A t \in Users : pc[t] = "notifyRelease" => m_cRef > 0
         /\ \A t \in Users : pc[t] = "notifyRelease" /\ m_cRef = 1 => Own = 0
<1>1. m_cRef = Cardinality(PinsHolding) + Cardinality(PinsReleasing)
                 + Cardinality(Releasing) + Own
  BY DEF SelfReference, Own
<1>2. \A p \in Pins : pin[p] # "gone" => Cardinality(PinsHolding) > 0
  <2>1. \A p \in Pins : pin[p] # "gone" => PinsHolding # {}
    BY DEF PinsHolding
  <2> QED BY <2>1, Referrers, FS_EmptySet
<1>3. \A p \in Pins : pin[p] \in {"decommitted", "breaking"} =>
        Cardinality(PinsReleasing) > 0 /\ pin[p] # "gone"
  <2>1. \A p \in Pins : pin[p] \in {"decommitted", "breaking"} => PinsReleasing # {}
    BY DEF PinsReleasing
  <2> QED BY <2>1, Referrers, FS_EmptySet
<1>4. \A t \in Users : pc[t] = "notifyRelease" => Cardinality(Releasing) > 0
  <2>1. \A t \in Users : pc[t] = "notifyRelease" => Releasing # {}
    BY DEF Releasing
  <2> QED BY <2>1, Referrers, FS_EmptySet
<1> QED BY <1>1, <1>2, <1>3, <1>4, Referrers

\* All the parts of the invariant.
Inv ==
  /\ TypeInv /\ PlaceInv /\ OnePlaceInv /\ SampleCountMatches
  /\ SelfReference /\ CommitInv /\ GettingInv

\* Release() destroys the allocator only when all its samples are free.
LEMMA DestroyedWhenFree ==
  ASSUME Inv, \/ \E t \in Users : pc[t] = "notifyRelease"
              \/ \E p \in Pins : pin[p] # "gone"
  PROVE  m_cRef = 1 => ~m_bCommitted /\ ~m_bDecommitInProgress
                         /\ m_lFree = 1..m_lAllocated
<1>1. m_cRef = 1 => Own = 0
  BY KeptAlive DEF Inv
<1> QED BY <1>1 DEF Own, Inv, CommitInv, TypeInv

LEMMA ReleaseKeepsPlaces ==
  ASSUME Inv, Release, \/ \E t \in Users : pc[t] = "notifyRelease"
                       \/ \E p \in Pins : pin[p] # "gone",
         UNCHANGED <<stateVars, agreedVars, sampleVars, cur>>,
         \A u \in Users : pc'[u] = pc[u] \/ (pc[u] = "notifyRelease" /\ pc'[u] = "idle")
  PROVE  OnePlaceInv' /\ CommitInv'
<1> USE DEF stateVars, agreedVars, sampleVars, listVars
<1>0. \A u \in Users : /\ Carries(u)' <=> Carries(u)
                       /\ Releases(u)' <=> Releases(u)
                       /\ pc'[u] = "releaseLast" <=> pc[u] = "releaseLast"
  BY DEF Carries, Releases
<1>1. CASE m_cRef = 1
  <2>1. /\ ~m_bCommitted /\ ~m_bDecommitInProgress
        /\ m_lFree = 1..m_lAllocated
    BY <1>1, DestroyedWhenFree
  <2>2. m_cRef' = 0 /\ m_lFree' = {} /\ m_lAllocated' = 0
    BY <1>1 DEF Release
  <2>3. m_lFree' = 1..m_lAllocated'
    BY <2>2
  <2>4. OnePlaceInv'
    BY <1>0, <2>1, <2>3, NoneOut DEF Inv
  <2>5. CommitInv'
    BY <2>1, <2>2, <2>3 DEF CommitInv
  <2> QED BY <2>4, <2>5
<1>2. CASE m_cRef # 1
  <2>1. UNCHANGED listVars /\ m_cRef' = m_cRef - 1
    BY <1>2 DEF Release
  <2>2. OnePlaceInv'
    BY <1>0, <2>1 DEF Inv, OnePlaceInv
  <2>3. CommitInv'
    BY <2>1 DEF Inv, CommitInv, TypeInv
  <2> QED BY <2>2, <2>3
<1> QED BY <1>1, <1>2


\* A thread that goes from a place to another one, neither of them the Release()
\* after a decommit, is counted as before.
LEMMA ReleasingSame ==
  ASSUME TypeInv, NEW t \in Users, NEW to, to # "notifyRelease",
         pc[t] # "notifyRelease", pc' = [pc EXCEPT ![t] = to]
  PROVE  Releasing' = Releasing
  BY DEF Releasing, TypeInv

\* A step that changes no count.
LEMMA NobodyRefers ==
  ASSUME SelfReference, UNCHANGED <<m_cRef, pin>>, Releasing' = Releasing, Own' = Own
  PROVE  SelfReference'
  BY DEF SelfReference, Own, PinsHolding, PinsReleasing

\* A thread's steps keep the rest of the invariant.
LEMMA UserKeepsReference ==
  ASSUME Inv, NEW t \in Users, UserNext(t)
  PROVE  SelfReference' /\ CommitInv' /\ GettingInv'
<1> USE DEF listVars, agreedVars, stateVars, semVars, sampleVars, userVars
<1> DEFINE Moves == \E to : /\ to # "notifyRelease" /\ pc[t] # "notifyRelease"
                            /\ pc' = [pc EXCEPT ![t] = to]
<1>1. GettingInv'
  <2>1. pin' = pin
    BY DEF UserNext, GetBufferStep, ReleaseStep, CallGetBuffer, GetBufferRefused,
           GetBufferTakes, GetBufferEmpty, Wake, GetBufferReturns, CallRelease,
           ReleaseTest, ReleaseLast, ReleaseDec, ReleaseBuffer,
           LeaveReleaseBuffer, LeaveAndRelease, AddRefSample
  <2>2. CASE CallGetBuffer(t)
    BY <2>1, <2>2 DEF CallGetBuffer, GettingInv
  <2>3. CASE ~CallGetBuffer(t)
    <3>1. \A u \in Users : pc'[u] \in GettingPlaces => pc[u] \in GettingPlaces
      BY <2>3 DEF UserNext, GetBufferStep, ReleaseStep, GetBufferRefused,
           GetBufferTakes, GetBufferEmpty, Wake, GetBufferReturns, CallRelease,
           ReleaseTest, ReleaseLast, ReleaseDec, ReleaseBuffer,
           LeaveReleaseBuffer, LeaveAndRelease, AddRefSample, Goto,
           GettingPlaces, Inv, TypeInv
    <3> QED BY <2>1, <3>1 DEF Inv, GettingInv
  <2> QED BY <2>2, <2>3
<1>2. CASE \/ CallGetBuffer(t) \/ GetBufferRefused(t) \/ GetBufferTakes(t)
           \/ GetBufferEmpty(t) \/ Wake(t) \/ GetBufferReturns(t) \/ CallRelease(t)
           \/ ReleaseTest(t) \/ ReleaseLast(t) \/ ReleaseDec(t)
           \/ LeaveReleaseBuffer(t) \/ \E u \in Users : AddRefSample(t, u)
  <2>1. UNCHANGED <<agreedVars, stateVars, m_cRef, pin, m_lAllocated>>
    BY <1>2 DEF CallGetBuffer, GetBufferRefused, GetBufferTakes, GetBufferEmpty,
           Wake, GetBufferReturns, CallRelease, ReleaseTest, ReleaseLast,
           ReleaseDec, LeaveReleaseBuffer, AddRefSample
  <2>2. Releasing' = Releasing
    <3>1. Moves \/ pc' = pc
      BY <1>2 DEF CallGetBuffer, GetBufferRefused, GetBufferTakes, GetBufferEmpty,
           Wake, GetBufferReturns, CallRelease, ReleaseTest, ReleaseLast,
           ReleaseDec, LeaveReleaseBuffer, AddRefSample, Goto
    <3>2. CASE pc' = pc
      BY <3>2 DEF Releasing
    <3> QED BY <3>1, <3>2, ReleasingSame DEF Inv
  <2>3. SelfReference'
    BY <2>1, <2>2, NobodyRefers DEF Inv, Own
  <2>4. m_lFree' = m_lFree \/ (m_bCommitted /\ m_lFree' \subseteq m_lFree)
    BY <1>2 DEF CallGetBuffer, GetBufferRefused, GetBufferTakes, GetBufferEmpty,
           Wake, GetBufferReturns, CallRelease, ReleaseTest, ReleaseLast,
           ReleaseDec, LeaveReleaseBuffer, AddRefSample
  <2>5. CommitInv'
    BY <2>1, <2>4 DEF Inv, CommitInv
  <2> QED BY <1>1, <2>3, <2>5
<1>3. CASE ReleaseBuffer(t)
  <2> DEFINE free == m_lFree \cup {cur[t]}
             completes == m_bDecommitInProgress /\ AllFree(free)
  <2>1. /\ m_lFree' = free /\ pc[t] = "put"
        /\ UNCHANGED <<m_lAllocated, agreedVars, m_bCommitted, m_cRef, pin>>
    BY <1>3 DEF ReleaseBuffer, Goto
  <2>2. AllFree(free) <=> free = 1..m_lAllocated
    <3>1. free \in SUBSET (1..m_lAllocated) /\ m_lAllocated \in Nat
      <4>1. m_lFree \subseteq 1..m_lAllocated /\ cur[t] \in 1..m_lAllocated
        BY <2>1 DEF Inv, OnePlaceInv, Carries
      <4>2. m_lAllocated \in Nat
        BY DEF Inv, TypeInv
      <4> QED BY ONLY <4>1, <4>2, Zenon
    <3> QED BY <3>1, FreeCounts DEF AllFree
  <2>3. CASE completes
    <3>1. ~m_bDecommitInProgress' /\ ~m_bCommitted /\ ~m_bCommitted'
          /\ pc' = [pc EXCEPT ![t] = "notifyRelease"]
      <4>1. m_bDecommitInProgress' = FALSE /\ Goto(t, "put", "notifyRelease")
        BY <1>3, <2>3, Zenon DEF ReleaseBuffer
      <4> QED BY <2>1, <2>3, <4>1 DEF Goto, Inv, CommitInv
    <3>2. CommitInv'
      BY <2>1, <2>2, <2>3, <3>1 DEF Inv, CommitInv
    <3>3. Releasing' = Releasing \cup {t} /\ t \notin Releasing
      BY <2>1, <3>1 DEF Releasing, Inv, TypeInv
    <3>4. Cardinality(Releasing') = Cardinality(Releasing) + 1
      BY <3>3, Referrers, FS_AddElement
    <3>5. Own = 1 /\ Own' = 0
      BY <2>3, <3>1 DEF Own
    <3>6. PinsHolding' = PinsHolding /\ PinsReleasing' = PinsReleasing
      BY <2>1 DEF PinsHolding, PinsReleasing
    <3>7. SelfReference'
      BY <2>1, <3>4, <3>5, <3>6, Referrers DEF Inv, SelfReference, Own
    <3> QED BY <1>1, <3>2, <3>7
  <2>4. CASE ~completes
    <3>1. /\ m_bDecommitInProgress' = m_bDecommitInProgress
          /\ pc' = [pc EXCEPT ![t] = "notify"]
      <4>1. Goto(t, "put", "notify")
        BY <1>3, <2>4, Zenon DEF ReleaseBuffer
      <4>2. m_bDecommitInProgress' = m_bDecommitInProgress
        BY <1>3, <2>4, Zenon DEF ReleaseBuffer, Inv, TypeInv
      <4> QED BY <4>1, <4>2 DEF Goto
    <3>2. CommitInv'
      <4>1. m_lFree = 1..m_lAllocated => FALSE
        BY <2>1 DEF Inv, OnePlaceInv, Carries
      <4> QED BY <2>1, <2>2, <2>4, <3>1, <4>1 DEF Inv, CommitInv
    <3>3. Releasing' = Releasing
      BY <2>1, <3>1, ReleasingSame DEF Inv
    <3>4. SelfReference'
      BY <2>1, <3>1, <3>3, NobodyRefers DEF Inv, Own
    <3> QED BY <1>1, <3>2, <3>4
  <2> QED BY <2>3, <2>4
<1>4. CASE LeaveAndRelease(t)
  <2>1. /\ pc[t] = "notifyRelease" /\ pc' = [pc EXCEPT ![t] = "idle"]
        /\ Release /\ UNCHANGED <<agreedVars, stateVars, sampleVars, cur, pin>>
    BY <1>4 DEF LeaveAndRelease, Goto
  <2>2. CommitInv'
    <3>1. \A u \in Users : pc'[u] = pc[u] \/ (pc[u] = "notifyRelease" /\ pc'[u] = "idle")
      BY <2>1 DEF Inv, TypeInv
    <3>2. UNCHANGED <<stateVars, agreedVars, sampleVars, cur>>
      BY <2>1
    <3> QED BY ONLY <2>1, <3>1, <3>2, Inv, t \in Users, ReleaseKeepsPlaces, Zenon
  <2>3. Releasing' = Releasing \ {t} /\ t \in Releasing
    BY <2>1 DEF Releasing, Inv, TypeInv
  <2>4. Cardinality(Releasing') = Cardinality(Releasing) - 1
    BY <2>3, Referrers, FS_RemoveElement
  <2>5. Own' = Own /\ PinsHolding' = PinsHolding /\ PinsReleasing' = PinsReleasing
        /\ m_cRef' = m_cRef - 1
    BY <2>1 DEF Own, PinsHolding, PinsReleasing, Release
  <2>6. SelfReference'
    BY <2>4, <2>5, Referrers DEF Inv, SelfReference, Own
  <2> QED BY <1>1, <2>2, <2>6
<1> QED BY <1>2, <1>3, <1>4 DEF UserNext, GetBufferStep, ReleaseStep


\* A pin's move, and whom it leaves releasing and holding.
LEMMA PinMoves ==
  ASSUME TypeInv, NEW p \in Pins, NEW from, NEW to, GotoPin(p, from, to)
  PROVE  /\ to # "gone" /\ from # "gone" => PinsHolding' = PinsHolding
         /\ from # "gone" /\ to = "gone" => /\ PinsHolding' = PinsHolding \ {p}
                                            /\ p \in PinsHolding
         /\ (from \in {"decommitted", "breaking"}
               <=> to \in {"decommitted", "breaking"}) => PinsReleasing' = PinsReleasing
         /\ (/\ from \in {"decommitted", "breaking"}
             /\ to \notin {"decommitted", "breaking"}) =>
              PinsReleasing' = PinsReleasing \ {p} /\ p \in PinsReleasing
         /\ (/\ from \notin {"decommitted", "breaking"}
             /\ to \in {"decommitted", "breaking"}) =>
              PinsReleasing' = PinsReleasing \cup {p} /\ p \notin PinsReleasing
  BY DEF TypeInv, GotoPin, PinsHolding, PinsReleasing

\* Decommit's section: the samples are as they were, and its own reference is
\* handed to the pin unless a sample is out.
LEMMA DecommitKeepsReference ==
  ASSUME Inv, NEW p \in Pins, NEW released \in {"decommitted", "breaking"},
         NEW done \in {"idle", "drop"}, DecommitSection(p, released, done),
         UNCHANGED <<listVars, agreedVars, m_cRef, sampleVars, userVars>>
  PROVE  SelfReference' /\ CommitInv'
<1> USE DEF listVars, agreedVars, stateVars, semVars, sampleVars, userVars
<1>0. Releasing' = Releasing
  BY DEF Releasing
<1>1. CASE (m_bCommitted \/ m_bDecommitInProgress) /\ Outstanding
  <2>1. m_bCommitted' = FALSE /\ GotoPin(p, "idle", done)
    BY <1>1 DEF DecommitSection
  <2>2. m_bDecommitInProgress' = TRUE
    BY <1>1, Zenon DEF DecommitSection
  <2>3. Own = 1 /\ Own' = 1
    BY <1>1, <2>2 DEF Own
  <2>4. PinsHolding' = PinsHolding /\ PinsReleasing' = PinsReleasing
    BY <2>1, PinMoves DEF Inv
  <2>5. SelfReference'
    BY <1>0, <2>3, <2>4, Referrers DEF Inv, SelfReference, Own
  <2>6. m_lFree # 1..m_lAllocated
    BY <1>1, OutstandingIs DEF Inv
  <2>7. CommitInv'
    BY <1>1, <2>1, <2>2, <2>6 DEF Inv, CommitInv
  <2> QED BY <2>5, <2>7
<1>2. CASE (m_bCommitted \/ m_bDecommitInProgress) /\ ~Outstanding
  <2>1. m_bCommitted' = FALSE /\ GotoPin(p, "idle", released)
    BY <1>2 DEF DecommitSection
  <2>2. ~m_bDecommitInProgress'
    BY <1>2, Zenon DEF DecommitSection
  <2>3. Own = 1 /\ Own' = 0
    BY <1>2, <2>1, <2>2 DEF Own
  <2>4. PinsHolding' = PinsHolding
        /\ PinsReleasing' = PinsReleasing \cup {p} /\ p \notin PinsReleasing
    BY <2>1, PinMoves DEF Inv
  <2>5. Cardinality(PinsReleasing') = Cardinality(PinsReleasing) + 1
    BY <2>4, Referrers, FS_AddElement
  <2>6. SelfReference'
    BY <1>0, <2>3, <2>4, <2>5, Referrers DEF Inv, SelfReference, Own
  <2>7. m_lFree = 1..m_lAllocated
    BY <1>2, OutstandingIs DEF Inv
  <2>8. CommitInv'
    BY <2>1, <2>2, <2>7 DEF Inv, CommitInv
  <2> QED BY <2>6, <2>8
<1>3. CASE ~(m_bCommitted \/ m_bDecommitInProgress)
  <2>1. GotoPin(p, "idle", done) /\ UNCHANGED stateVars
    BY <1>3 DEF DecommitSection
  <2>2. PinsHolding' = PinsHolding /\ PinsReleasing' = PinsReleasing
    BY <2>1, PinMoves DEF Inv
  <2>3. SelfReference'
    BY <1>0, <2>1, <2>2 DEF Inv, SelfReference
  <2>4. CommitInv'
    BY <2>1 DEF Inv, CommitInv
  <2> QED BY <2>3, <2>4
<1> QED BY <1>1, <1>2, <1>3

\* A pin's Release(), of the allocator's own reference or of its own.
LEMMA PinReleaseKeepsReference ==
  ASSUME Inv, NEW p \in Pins, NEW from, NEW to, GotoPin(p, from, to), Release,
         \/ from = "decommitted" /\ to = "idle"
         \/ from = "breaking" /\ to = "drop"
         \/ from = "drop" /\ to = "gone",
         UNCHANGED <<agreedVars, stateVars, semVars, sampleVars, userVars>>
  PROVE  OnePlaceInv' /\ SelfReference' /\ CommitInv'
<1>1. /\ UNCHANGED <<stateVars, agreedVars, sampleVars, cur>>
      /\ \A u \in Users : pc'[u] = pc[u]
      /\ pin[p] # "gone"
  BY DEF userVars, GotoPin
<1>2. OnePlaceInv' /\ CommitInv'
  BY <1>1, ReleaseKeepsPlaces
<1>3. m_cRef' = m_cRef - 1 /\ Releasing' = Releasing /\ Own' = Own
  BY DEF Release, Releasing, Own, userVars, stateVars
<1>4. \/ /\ PinsHolding' = PinsHolding
         /\ PinsReleasing' = PinsReleasing \ {p} /\ p \in PinsReleasing
      \/ /\ PinsReleasing' = PinsReleasing
         /\ PinsHolding' = PinsHolding \ {p} /\ p \in PinsHolding
  BY PinMoves DEF Inv
<1>5. \/ /\ PinsHolding' = PinsHolding
         /\ Cardinality(PinsReleasing') = Cardinality(PinsReleasing) - 1
      \/ /\ PinsReleasing' = PinsReleasing
         /\ Cardinality(PinsHolding') = Cardinality(PinsHolding) - 1
  BY <1>4, Referrers, FS_RemoveElement
<1>6. SelfReference'
  BY <1>3, <1>5, Referrers DEF Inv, SelfReference, Own
<1> QED BY <1>2, <1>6

\* The samples are where they were for the threads, when neither the list nor a
\* thread moves.
LEMMA PlacesSame ==
  ASSUME OnePlaceInv, UNCHANGED <<listVars, sampleVars, userVars>>
  PROVE  OnePlaceInv'
  BY DEF OnePlaceInv, Carries, Releases, listVars, sampleVars, userVars

\* So do a pin's.
LEMMA PinKeepsInvariant ==
  ASSUME Inv, NEW p \in Pins, PinNext(p)
  PROVE  OnePlaceInv' /\ SampleCountMatches' /\ SelfReference' /\ CommitInv' /\ GettingInv'
<1> USE DEF listVars, agreedVars, stateVars, semVars, sampleVars, userVars
<1>1. SampleCountMatches' /\ pc' = pc
  <2>1. UNCHANGED <<sampleVars, pc>>
    BY DEF PinNext, SetProperties, CommitCancels, CommitAllocates, CommitFails,
           Decommit, DecommitReleases, BreakConnect, BreakReleases, DropReference
  <2> QED BY <2>1 DEF Inv, SampleCountMatches, Holders
<1>2. GettingInv'
  <2>1. CASE BreakConnect(p)
    BY <1>1, <2>1 DEF BreakConnect, Stopped, GettingInv
  <2>2. CASE ~BreakConnect(p)
    <3>1. \A q \in Pins : pin[q] \in {"idle", "decommitted"} =>
                            pin'[q] \in {"idle", "decommitted"}
      BY <2>2 DEF PinNext, SetProperties, CommitCancels, CommitAllocates,
           CommitFails, Decommit, DecommitReleases, BreakReleases, DropReference,
           DecommitSection, GotoPin, Inv, TypeInv
    <3> QED BY <1>1, <3>1 DEF Inv, GettingInv
  <2> QED BY <2>1, <2>2
<1>3. CASE SetProperties(p)
  <2>1. /\ UNCHANGED <<listVars, stateVars, m_cRef, sampleVars, userVars, pin>>
        /\ m_bChanged' = TRUE /\ ~m_bCommitted /\ ~Outstanding
    BY <1>3 DEF SetProperties, MayChange
  <2>2. OnePlaceInv'
    BY <2>1, PlacesSame DEF Inv
  <2>3. ~m_bDecommitInProgress
    BY <2>1, OutstandingIs DEF Inv, CommitInv
  <2>4. CommitInv'
    BY <2>1, <2>3 DEF Inv, CommitInv
  <2>5. SelfReference'
    BY <2>1, NobodyRefers DEF Inv, Releasing, Own
  <2> QED BY <1>1, <1>2, <2>2, <2>4, <2>5
<1>4. CASE CommitCancels(p)
  <2>1. /\ UNCHANGED <<listVars, agreedVars, m_cRef, sampleVars, userVars, pin>>
        /\ m_bCommitted' = TRUE /\ m_bDecommitInProgress' = FALSE
        /\ m_bDecommitInProgress
    BY <1>4 DEF CommitCancels
  <2>2. OnePlaceInv'
    BY <2>1, PlacesSame DEF Inv
  <2>3. CommitInv'
    BY <2>1 DEF Inv, CommitInv
  <2>4. SelfReference'
    BY <2>1, NobodyRefers DEF Inv, Releasing, Own
  <2> QED BY <1>1, <1>2, <2>2, <2>3, <2>4
<1>5. CASE CommitAllocates(p)
  <2>1. /\ UNCHANGED <<m_lCount, m_bDecommitInProgress, sampleVars, userVars, pin>>
        /\ m_bCommitted' = TRUE /\ m_bChanged' = FALSE /\ m_cRef' = m_cRef + 1
        /\ ~m_bCommitted /\ ~m_bDecommitInProgress /\ m_lCount > 0
        /\ pin[p] = "idle"
    BY <1>5 DEF CommitAllocates, CanCommit, AddRef
  <2>2. m_lFree = 1..m_lAllocated
    BY <2>1 DEF Inv, CommitInv
  <2>3. m_lAllocated' = m_lCount /\ m_lFree' = 1..m_lAllocated'
    <3>1. CASE m_bChanged
      BY <1>5, <3>1 DEF CommitAllocates
    <3>2. CASE ~m_bChanged
      <4>1. m_cRef > 0
        BY <2>1, KeptAlive DEF Inv
      <4> QED BY <1>5, <2>2, <3>2, <4>1 DEF CommitAllocates, Inv, CommitInv
    <3> QED BY <3>1, <3>2
  <2>4. OnePlaceInv'
    <3>1. \A u \in Users : /\ Carries(u)' => Carries(u)
                           /\ Releases(u)' => Releases(u)
                           /\ pc'[u] = "releaseLast" => pc[u] = "releaseLast"
      BY <2>1 DEF Carries, Releases
    <3> QED BY <2>1, <2>2, <2>3, <3>1, NoneOut DEF Inv
  <2>5. CommitInv'
    BY <2>1, <2>3 DEF CommitInv
  <2>6. Own = 0 /\ Own' = 1 /\ Releasing' = Releasing
        /\ PinsHolding' = PinsHolding /\ PinsReleasing' = PinsReleasing
    BY <2>1 DEF Own, Releasing, PinsHolding, PinsReleasing
  <2>7. SelfReference'
    BY <2>1, <2>6, Referrers DEF Inv, SelfReference, Own
  <2> QED BY <1>1, <1>2, <2>4, <2>5, <2>7
<1>6. CASE CommitFails(p)
  <2>1. /\ UNCHANGED <<agreedVars, stateVars, m_cRef, sampleVars, userVars, pin>>
        /\ ~m_bCommitted /\ ~m_bDecommitInProgress /\ m_bChanged
        /\ m_lFree' = 1..m_lAllocated'
    BY <1>6 DEF CommitFails, CanCommit
  <2>2. m_lFree = 1..m_lAllocated
    BY <2>1 DEF Inv, CommitInv
  <2>3. OnePlaceInv'
    <3>1. \A u \in Users : /\ Carries(u)' => Carries(u)
                           /\ Releases(u)' => Releases(u)
                           /\ pc'[u] = "releaseLast" => pc[u] = "releaseLast"
      BY <2>1 DEF Carries, Releases
    <3> QED BY <2>1, <2>2, <3>1, NoneOut DEF Inv
  <2>4. CommitInv'
    BY <2>1 DEF CommitInv
  <2>5. SelfReference'
    BY <2>1, NobodyRefers DEF Inv, Releasing, Own
  <2> QED BY <1>1, <1>2, <2>3, <2>4, <2>5
<1>7. CASE Decommit(p) \/ BreakConnect(p)
  <2>1. UNCHANGED <<listVars, agreedVars, m_cRef, sampleVars, userVars>>
    BY <1>7 DEF Decommit, BreakConnect
  <2>2. OnePlaceInv'
    BY <2>1, PlacesSame DEF Inv
  <2>3. SelfReference' /\ CommitInv'
    BY <1>7, <2>1, DecommitKeepsReference DEF Decommit, BreakConnect
  <2> QED BY <1>1, <1>2, <2>2, <2>3
<1>8. CASE DecommitReleases(p) \/ BreakReleases(p) \/ DropReference(p)
  <2>1. OnePlaceInv' /\ SelfReference' /\ CommitInv'
    BY <1>8, PinReleaseKeepsReference DEF DecommitReleases, BreakReleases, DropReference
  <2> QED BY <1>1, <1>2, <2>1
<1> QED BY <1>3, <1>4, <1>5, <1>6, <1>7, <1>8 DEF PinNext

\* The other half of a thread's steps: the Release() after the last sample of a
\* pending decommit.
LEMMA UserKeepsInvariant ==
  ASSUME Inv, NEW t \in Users, UserNext(t)
  PROVE  OnePlaceInv' /\ SampleCountMatches' /\ SelfReference' /\ CommitInv' /\ GettingInv'
<1>1. SampleCountMatches'
  BY UserKeepsCounts DEF Inv
<1>2. OnePlaceInv'
  <2>1. CASE LeaveAndRelease(t)
    <3>1. /\ pc[t] = "notifyRelease" /\ pc' = [pc EXCEPT ![t] = "idle"]
          /\ Release /\ UNCHANGED <<agreedVars, stateVars, sampleVars, cur>>
      BY <2>1 DEF LeaveAndRelease, Goto
    <3>2. \A u \in Users : pc'[u] = pc[u] \/ (pc[u] = "notifyRelease" /\ pc'[u] = "idle")
      BY <3>1 DEF Inv, TypeInv
    <3>3. UNCHANGED <<stateVars, agreedVars, sampleVars, cur>>
      BY <3>1
    <3> QED BY ONLY <3>1, <3>2, <3>3, Inv, t \in Users, ReleaseKeepsPlaces, Zenon
  <2>2. CASE ~LeaveAndRelease(t)
    BY <2>2, UserKeepsPlaces DEF Inv
  <2> QED BY <2>1, <2>2
<1> QED BY <1>1, <1>2, UserKeepsReference

\* The invariant holds of every state: places, counts, the agreement and the
\* allocator's references are kept together, since each relies on the others.
LEMMA InvInductive == Spec => []Inv
<1>1. Init /\ TypeInv /\ PlaceInv => Inv
  <2> SUFFICES ASSUME Init, TypeInv, PlaceInv PROVE Inv
    OBVIOUS
  <2>1. /\ PinsHolding = Pins /\ PinsReleasing = {} /\ Releasing = {} /\ Own = 0
        /\ \A b \in Samples : Holders(b) = {}
    BY DEF Init, PinsHolding, PinsReleasing, Releasing, Own, Holders
  <2>2. SelfReference
    BY <2>1, Referrers, FS_EmptySet DEF Init, SelfReference, Own
  <2>3. SampleCountMatches
    BY <2>1, FS_EmptySet DEF Init, SampleCountMatches
  <2>4. m_lFree = 1..m_lAllocated /\ 1..0 = {}
    BY DEF Init
  <2>5. OnePlaceInv
    BY <2>4 DEF Init, OnePlaceInv, Carries, Releases
  <2>6. CommitInv /\ GettingInv
    BY <2>4 DEF Init, CommitInv, GettingInv, GettingPlaces
  <2> QED BY <2>2, <2>3, <2>5, <2>6 DEF Inv
<1>2. Inv /\ [Next]_vars /\ TypeInv' /\ PlaceInv' => Inv'
  <2> SUFFICES ASSUME Inv, [Next]_vars, TypeInv', PlaceInv' PROVE Inv'
    OBVIOUS
  <2>1. CASE \E t \in Users : UserNext(t)
    BY <2>1, UserKeepsInvariant DEF Inv
  <2>2. CASE \E p \in Pins : PinNext(p)
    BY <2>2, PinKeepsInvariant DEF Inv
  <2>3. CASE Finished \/ UNCHANGED vars
    <3>1. UNCHANGED vars
      BY <2>3 DEF Finished
    <3>2. OnePlaceInv'
      BY <3>1, PlacesSame DEF vars, Inv, listVars, sampleVars, userVars
    <3>3. SampleCountMatches'
      BY <3>1 DEF vars, Inv, SampleCountMatches, Holders
    <3>4. SelfReference'
      BY <3>1, NobodyRefers DEF vars, Inv, Releasing, Own
    <3>5. CommitInv' /\ GettingInv'
      BY <3>1 DEF vars, Inv, CommitInv, GettingInv
    <3> QED BY <3>2, <3>3, <3>4, <3>5 DEF Inv
  <2> QED BY <2>1, <2>2, <2>3 DEF Next
<1> QED BY <1>1, <1>2, TypesInductive, PTL DEF Spec

-----------------------------------------------------------------------------
(* What follows from the invariant.                                        *)

\* The types: no count is ever negative, and the free list holds samples that
\* exist.
THEOREM TypesKept == Spec => []TypeOK
<1>1. Inv => TypeOK
  <2> SUFFICES ASSUME Inv PROVE TypeOK
    OBVIOUS
  <2>1. m_cRef \in Nat
    BY Referrers DEF Inv, SelfReference
  <2>2. sampleRef \in [Samples -> Nat]
    <3>1. \A b \in Samples : sampleRef[b] \in Nat
      BY HoldersFinite DEF Inv, SampleCountMatches
    <3>2. sampleRef \in [Samples -> Int]
      BY DEF Inv, TypeInv
    <3> QED BY ONLY <3>1, <3>2
  <2>3. m_lFree \subseteq 1..m_lAllocated
    BY DEF Inv, OnePlaceInv
  <2> QED BY <2>1, <2>2, <2>3 DEF Inv, TypeInv, TypeOK
<1> QED BY <1>1, InvInductive, PTL

\* No sample is lost, counted wrongly or in two places at once.
THEOREM SamplesNeverLost == Spec => []SamplesKept
<1>1. Inv => SampleInOnePlace
  <2> SUFFICES ASSUME Inv, NEW b \in 1..m_lAllocated
               PROVE  /\ Cardinality({i \in 1..3 : \/ i = 1 /\ b \in m_lFree
                                                   \/ i = 2 /\ Holders(b) # {}
                                                   \/ i = 3 /\ Carriers(b) # {}}) = 1
                      /\ \A t, u \in Carriers(b) : t = u
    BY DEF SampleInOnePlace
  <2> DEFINE S == {i \in 1..3 : \/ i = 1 /\ b \in m_lFree
                                \/ i = 2 /\ Holders(b) # {}
                                \/ i = 3 /\ Carriers(b) # {}}
  <2>1. /\ Holders(b) # {} <=> \E t \in Users : b \in holds[t]
        /\ Carriers(b) # {} <=> \E t \in Users : Carries(t) /\ cur[t] = b
    BY DEF Holders, Carriers, Carries
  <2>2. /\ b \in m_lFree \/ Holders(b) # {} \/ Carriers(b) # {}
        /\ ~(b \in m_lFree /\ Holders(b) # {})
        /\ ~(b \in m_lFree /\ Carriers(b) # {})
        /\ ~(Holders(b) # {} /\ Carriers(b) # {})
    BY <2>1 DEF Inv, OnePlaceInv
  <2>3. S = {1} \/ S = {2} \/ S = {3}
    BY <2>2
  <2> HIDE DEF S
  <2>4. Cardinality(S) = 1
    BY <2>3, FS_Singleton
  <2>5. \A t, u \in Carriers(b) : t = u
    BY DEF Inv, OnePlaceInv, Carriers, Carries
  <2> QED BY <2>4, <2>5 DEF S
<1>2. Inv => SamplesKept
  BY <1>1 DEF Inv, SamplesKept
<1> QED BY <1>2, InvInductive, PTL

\* A committed allocator has the samples that were agreed on, it keeps itself
\* alive exactly from the first Commit to the end of the decommit, and its
\* samples are deleted only when all of them are back.
THEOREM AllocatorIsKept == Spec => AllocatorKept
<1>1. Inv => CommittedAsAgreed /\ SelfReference /\ AliveWhileInUse /\ DecommitPending
  <2> SUFFICES ASSUME Inv
               PROVE  CommittedAsAgreed /\ SelfReference /\ AliveWhileInUse
                        /\ DecommitPending
    OBVIOUS
  <2>1. Own = 1 => m_cRef > 0
    BY KeptAlive DEF Inv
  <2>2. m_bCommitted => m_lAllocated = m_lCount /\ m_lCount > 0
    BY <2>1 DEF Own, Inv, CommitInv
  <2>3. AliveWhileInUse
    <3> SUFFICES ASSUME NEW t \in Users,
                        \/ holds[t] # {}
                        \/ pc[t] \in GettingPlaces \cup {"put", "notifyRelease"}
                 PROVE  m_cRef > 0
      BY DEF AliveWhileInUse
    <3>1. CASE holds[t] # {} \/ pc[t] = "put"
      <4>1. m_lFree # 1..m_lAllocated
        BY <3>1 DEF Inv, OnePlaceInv, Carries, TypeInv
      <4> QED BY <2>1, <4>1 DEF Own, Inv, CommitInv
    <3>2. CASE pc[t] = "notifyRelease"
      BY <3>2, KeptAlive DEF Inv
    <3>3. CASE pc[t] \in GettingPlaces
      <4>1. \E p \in Pins : pin[p] # "gone"
        BY <3>3 DEF Inv, GettingInv
      <4> QED BY <4>1, KeptAlive DEF Inv
    <3> QED BY <3>1, <3>2, <3>3
  <2>4. DecommitPending
    BY OutstandingIs DEF Inv, CommitInv, DecommitPending, Outstanding
  <2> QED BY <2>2, <2>3, <2>4 DEF Inv, CommittedAsAgreed
<1>2. Inv /\ [Next]_vars =>
        (m_lAllocated' # m_lAllocated => Cardinality(m_lFree) = m_lAllocated)
  <2> SUFFICES ASSUME Inv, [Next]_vars, m_lAllocated' # m_lAllocated
               PROVE  Cardinality(m_lFree) = m_lAllocated
    OBVIOUS
  <2>1. m_lFree = 1..m_lAllocated
    <3> USE DEF listVars
    <3>1. CASE \E t \in Users : UserNext(t)
      <4>1. PICK t \in Users : LeaveAndRelease(t)
        BY <3>1 DEF UserNext, GetBufferStep, ReleaseStep, CallGetBuffer,
             GetBufferRefused, GetBufferTakes, GetBufferEmpty, Wake,
             GetBufferReturns, CallRelease, ReleaseTest, ReleaseLast, ReleaseDec,
             ReleaseBuffer, LeaveReleaseBuffer, AddRefSample
      <4> QED BY <4>1, DestroyedWhenFree DEF LeaveAndRelease, Release, Goto
    <3>2. CASE \E p \in Pins : PinNext(p)
      <4>1. PICK p \in Pins :
              \/ CommitAllocates(p) \/ CommitFails(p)
              \/ DecommitReleases(p) \/ BreakReleases(p) \/ DropReference(p)
        BY <3>2 DEF PinNext, SetProperties, CommitCancels, Decommit, BreakConnect
      <4>2. CASE CommitAllocates(p) \/ CommitFails(p)
        BY <4>2 DEF CommitAllocates, CommitFails, CanCommit, Inv, CommitInv
      <4>3. CASE DecommitReleases(p) \/ BreakReleases(p) \/ DropReference(p)
        <5>1. Release /\ pin[p] # "gone"
          BY <4>3 DEF DecommitReleases, BreakReleases, DropReference, GotoPin
        <5> QED BY <5>1, DestroyedWhenFree DEF Release
      <4> QED BY <4>1, <4>2, <4>3
    <3>3. CASE Finished \/ UNCHANGED vars
      BY <3>3 DEF Finished, vars
    <3> QED BY <3>1, <3>2, <3>3 DEF Next
  <2>2. m_lAllocated \in Nat
    BY DEF Inv, TypeInv
  <2> QED BY <2>1, <2>2, FS_Interval
<1>3. Inv /\ [Next]_vars =>
        [m_lAllocated' # m_lAllocated => Cardinality(m_lFree) = m_lAllocated]_vars
  BY <1>2
<1> QED BY <1>1, <1>3, InvInductive, PTL DEF Spec, AllocatorKept, NoDeleteWhileOut

=============================================================================
