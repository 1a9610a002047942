------------------------------- MODULE Clock --------------------------------
(***************************************************************************)
(* CBaseReferenceClock (refclock.cpp) and the list of advise requests it   *)
(* serves, CAMSchedule (schedule.cpp).                                     *)
(*                                                                         *)
(* Reference time is counted in half milliseconds; the system's clock ticks*)
(* once a millisecond and its reading, a DWORD, wraps.                     *)
(***************************************************************************)
EXTENDS Integers, Sequences, FiniteSets, SequencesExt

CONSTANTS
  Half,        \* half the range of the DWORD that timeGetTime returns, in ms
  MaxTicks,    \* bound on the milliseconds that pass
  MaxCookie,   \* bound on the requests made
  Times,       \* the times and periods that are asked for
  Deltas,      \* the corrections of SetTimeDelta
  MaxDeltas    \* bound on their number

ClockAssumption ==
  /\ Half \in Nat \ {0} /\ MaxTicks \in Nat /\ MaxCookie \in Nat
  /\ Times \subseteq Nat \ {0} /\ Deltas \subseteq Int \ {0} /\ MaxDeltas \in Nat

Ms == 2          \* UNITS / MILLISECONDS, in half milliseconds
Smallest == 1    \* the 5000 units below which a correction wakes nobody
INFINITE == -1   \* dwWait of an empty list

VARIABLES
  ticks,              \* what timeGetTime would return if it did not wrap
  m_rtPrivateTime, m_dwPrevSystemTime, m_rtLastGotTime,
  list,               \* CAMSchedule: the packets between head and z
  m_dwAdviseCount, m_dwNextCookie,
  event,              \* m_ev, on which the thread waits
  thread,             \* the advise thread
  rtNow,              \* its local variable
  until,              \* the tick at which its wait ends, or INFINITE
  m_bAbort,
  withdrawn,          \* auxiliary: cookies that Unadvise has taken back
  late,               \* auxiliary: what the thread cannot know when it sleeps
  corrections,        \* the calls of SetTimeDelta
  truth               \* auxiliary: the private time, were it not read from a
                      \* counter that wraps

clock == <<ticks, m_rtPrivateTime, m_dwPrevSystemTime, m_rtLastGotTime, truth,
           corrections>>
schedule == <<list, m_dwAdviseCount, m_dwNextCookie, withdrawn>>
sleeper == <<thread, rtNow, until, m_bAbort>>
vars == <<clock, schedule, event, sleeper, late>>

Packet(cookie, time, period) ==
  [cookie |-> cookie, time |-> time, period |-> period]

TypeOK ==
  /\ ticks \in 0..MaxTicks /\ corrections \in 0..MaxDeltas
  /\ {m_rtPrivateTime, m_rtLastGotTime, truth, rtNow} \subseteq Int
  /\ m_dwPrevSystemTime \in 0..(2 * Half - 1)
  /\ \A i \in 1..Len(list) :
       /\ list[i].cookie \in 1..m_dwNextCookie
       /\ list[i].time \in Nat /\ list[i].period \in Times \cup {0}
  /\ m_dwAdviseCount \in Nat /\ m_dwNextCookie \in 0..MaxCookie
  /\ event \in BOOLEAN /\ m_bAbort \in BOOLEAN
  /\ thread \in {"waiting", "advising", "ended"}
  /\ until \in Nat \cup {INFINITE}
  /\ withdrawn \subseteq 1..MaxCookie /\ late \in Nat

Init ==
  /\ ticks = 0 /\ m_rtPrivateTime = 0 /\ m_dwPrevSystemTime = Half
  /\ m_rtLastGotTime = 0 /\ truth = 0 /\ corrections = 0
  /\ list = <<>> /\ m_dwAdviseCount = 0 /\ m_dwNextCookie = 0
  /\ event = FALSE
  /\ thread = "waiting" /\ rtNow = 0 /\ until = INFINITE
  /\ m_bAbort = FALSE
  /\ withdrawn = {} /\ late = 0

-----------------------------------------------------------------------------
(* The time.                                                               *)

\* timeGetTime; the machine has been up for a while.
dwTime == (ticks + Half) % (2 * Half)

\* (DWORD)(dwTime - m_dwPrevSystemTime), which Int32x32To64 takes as signed.
Elapsed ==
  LET d == (dwTime - m_dwPrevSystemTime) % (2 * Half)
  IN  IF d < Half THEN d ELSE d - 2 * Half

PrivateTime == m_rtPrivateTime + Ms * Elapsed

GetPrivateTime ==
  /\ m_rtPrivateTime' = PrivateTime
  /\ m_dwPrevSystemTime' = dwTime

GetTime ==
  /\ GetPrivateTime
  /\ m_rtLastGotTime' = IF PrivateTime > m_rtLastGotTime
                        THEN PrivateTime ELSE m_rtLastGotTime
  /\ UNCHANGED <<ticks, schedule, event, sleeper, late, truth, corrections>>

\* The time of the last call of GetPrivateTime, on the counter.
Unread == (dwTime - m_dwPrevSystemTime) % (2 * Half)

\* A millisecond passes.  Somebody reads the clock before half the range of
\* the counter, 24 days, has gone by.
Tick ==
  /\ ticks < MaxTicks /\ Unread < Half - 1
  /\ ticks' = ticks + 1
  /\ truth' = truth + Ms
  /\ late' = IF thread = "advising" THEN late + Ms ELSE late
  /\ UNCHANGED <<m_rtPrivateTime, m_dwPrevSystemTime, m_rtLastGotTime,
                 corrections, schedule, event, sleeper>>

\* Fault: only a clock that is put back has the thread look again.
SetTimeDeltaBack(delta) ==
  /\ corrections < MaxDeltas /\ corrections' = corrections + 1
  /\ m_rtPrivateTime' = m_rtPrivateTime + delta
  /\ truth' = truth + delta
  /\ event' = (event \/ (delta < 0 /\ m_dwAdviseCount > 0))
  /\ late' = IF delta \in 1..Smallest THEN late + delta ELSE late
  /\ UNCHANGED <<ticks, m_dwPrevSystemTime, m_rtLastGotTime, schedule, sleeper>>

SetTimeDelta(delta) ==
  /\ corrections < MaxDeltas /\ corrections' = corrections + 1
  /\ m_rtPrivateTime' = m_rtPrivateTime + delta
  /\ truth' = truth + delta
  /\ event' = (event \/ (delta > Smallest /\ m_dwAdviseCount > 0))
  /\ late' = IF delta \in 1..Smallest THEN late + delta ELSE late
  /\ UNCHANGED <<ticks, m_dwPrevSystemTime, m_rtLastGotTime, schedule, sleeper>>

-----------------------------------------------------------------------------
(* The list of requests.                                                   *)

\* m_Serialize is free.
Unlocked == thread # "advising"

\* AddAdvisePacket: before the first packet that is not earlier.
Place(time) == 1 + Cardinality({i \in 1..Len(list) : list[i].time < time})

\* AdviseTime, and AdvisePeriodic when there is a period.
AdviseTime(time, period) ==
  /\ Unlocked /\ m_dwNextCookie < MaxCookie
  /\ list' = InsertAt(list, Place(time), Packet(m_dwNextCookie + 1, time, period))
  /\ event' = (event \/ Place(time) = 1)
  /\ m_dwNextCookie' = m_dwNextCookie + 1
  /\ m_dwAdviseCount' = m_dwAdviseCount + 1
  /\ UNCHANGED <<clock, sleeper, withdrawn, late>>

\* Unadvise; a request that has been served is not found and nothing changes.
Unadvise(cookie) ==
  /\ Unlocked
  /\ withdrawn' = withdrawn \cup {cookie}
  /\ \E i \in 1..Len(list) :
       /\ list[i].cookie = cookie
       /\ list' = RemoveAt(list, i)
       /\ m_dwAdviseCount' = m_dwAdviseCount - 1
  /\ UNCHANGED <<clock, m_dwNextCookie, event, sleeper, late>>

-----------------------------------------------------------------------------
(* The advise thread.                                                      *)

\* The thread's wait ends: it leaves, or goes on with the time it reads.
Wake ==
  /\ thread = "waiting"
  /\ event \/ (until # INFINITE /\ ticks >= until)
  /\ event' = FALSE
  /\ IF m_bAbort
     THEN /\ thread' = "ended"
          /\ UNCHANGED <<rtNow, m_rtPrivateTime, m_dwPrevSystemTime, late>>
     ELSE /\ thread' = "advising"
          /\ GetPrivateTime
          /\ rtNow' = PrivateTime
          /\ late' = 0
  /\ until' = INFINITE
  /\ UNCHANGED <<ticks, m_rtLastGotTime, truth, corrections, schedule, m_bAbort>>

Due == list # <<>> /\ Head(list).time <= rtNow + Ms

\* Advise: a request for one time has its event set and is gone.
Fire ==
  /\ thread = "advising" /\ Due
  /\ Head(list).period = 0
  /\ list' = Tail(list)
  /\ m_dwAdviseCount' = m_dwAdviseCount - 1
  /\ UNCHANGED <<clock, m_dwNextCookie, withdrawn, event, sleeper, late>>

\* Advise: a periodic request has its semaphore released; ShuntHead then puts
\* it after all that are not later.
FirePeriodic ==
  /\ thread = "advising" /\ Due
  /\ Head(list).period > 0
  /\ LET next == Head(list).time + Head(list).period
         at == 1 + Cardinality({i \in 2..Len(list) : list[i].time <= next})
     IN  list' = InsertAt(Tail(list), at, [Head(list) EXCEPT !.time = next])
  /\ UNCHANGED <<clock, m_dwAdviseCount, m_dwNextCookie, withdrawn, event,
                 sleeper, late>>

\* The thread waits for the next request, in whole milliseconds.
Sleep ==
  /\ thread = "advising" /\ ~Due
  /\ thread' = "waiting"
  /\ until' = IF list = <<>> THEN INFINITE
              ELSE ticks + (Head(list).time - rtNow) \div Ms
  /\ rtNow' = 0  \* of no use any more
  /\ UNCHANGED <<clock, schedule, event, m_bAbort, late>>

\* The destructor, up to its wait for the thread.
Destroy ==
  /\ Unlocked /\ ~m_bAbort
  /\ m_bAbort' = TRUE
  /\ event' = TRUE
  /\ UNCHANGED <<clock, schedule, thread, rtNow, until, late>>

\* Nobody uses a clock that is being destroyed.
Gone == m_bAbort /\ UNCHANGED vars

AdviseThread == Wake \/ Fire \/ FirePeriodic \/ Sleep

Next ==
  \/ AdviseThread
  \/ ~m_bAbort /\ ( \/ Tick \/ GetTime
                    \/ \E d \in Deltas : SetTimeDelta(d)
                    \/ \E t \in Times, p \in Times \cup {0} : AdviseTime(t, p)
                    \/ \E c \in 1..MaxCookie : Unadvise(c))
  \/ Destroy \/ Gone

Spec == Init /\ [][Next]_vars

\* The thread runs with the highest priority there is.
FairSpec == Spec /\ WF_vars(AdviseThread)

-----------------------------------------------------------------------------
(* Properties.                                                             *)

\* The list is kept in the order of its times by AddAdvisePacket and
\* ShuntHead: the thread looks at its head only.
Sorted == \A i \in 1..(Len(list) - 1) : list[i].time <= list[i + 1].time

\* m_dwAdviseCount, which SetTimeDelta reads without m_Serialize to know
\* whether to wake the thread, is the length of the list.
CountExact == m_dwAdviseCount = Len(list)

\* What Unadvise has taken back is never served: a renderer that has called it
\* may reset its event and set it for another sample.
NeverAfterUnadvise == \A i \in 1..Len(list) : list[i].cookie \notin withdrawn

\* The thread never sleeps past the next request: whatever was added or
\* corrected since it looked, it has been woken or will wake in time, but for
\* the corrections too small to wake it and the time it took to go to sleep.
NeverOversleeps ==
  thread = "waiting" /\ ~event /\ ~m_bAbort /\ list # <<>>
    => /\ until # INFINITE
       /\ truth + Ms * (until - ticks) <= Head(list).time + late

\* The time read is the time that passed, also when the counter has wrapped.
TimeIsTrue == PrivateTime = truth

\* The time given out never goes back, although corrections may put the clock
\* back.
NeverBack == [][m_rtLastGotTime' >= m_rtLastGotTime]_vars

\* A clock that is destroyed gets rid of its thread.
ThreadEnds == m_bAbort ~> thread = "ended"

=============================================================================
