------------------------------ MODULE SlotQueue -----------------------------
(***************************************************************************)
(* CQueue (wxutil.h): a ring of nMax slots, with one semaphore that counts *)
(* the free ones and one that counts the full ones.  The semaphores are    *)
(* waited for and released outside the critical section in which a slot is *)
(* written or read, so several calls may be anywhere in between.           *)
(***************************************************************************)
EXTENDS Integers, Sequences, FiniteSets

CONSTANTS
  nMax,
  Putters, Getters,  \* the threads that call
  MaxObjects         \* bound on the calls of PutQueueObject; far below 2^31,
                     \* where iNextPut would overflow

\* Whoever puts and gets is a thread of each kind.
QueueAssumption ==
  /\ nMax \in Nat \ {0} /\ MaxObjects \in Nat
  /\ IsFiniteSet(Putters) /\ IsFiniteSet(Getters) /\ Putters \cap Getters = {}

VARIABLES
  hSemPut, hSemGet, iNextPut, iNextGet, QueueObjects,
  at,            \* where each thread is
  accepted, got  \* auxiliary: how many objects were put, and those that were got

vars == <<hSemPut, hSemGet, iNextPut, iNextGet, QueueObjects, at, accepted, got>>

Threads == Putters \cup Getters
Empty == 0

TypeOK ==
  /\ hSemPut \in 0..nMax /\ hSemGet \in 0..nMax
  /\ iNextPut \in 0..MaxObjects /\ iNextGet \in 0..MaxObjects
  /\ QueueObjects \in [0..(nMax - 1) -> 0..MaxObjects]
  /\ at \in [Threads -> {"out", "slot", "signal"}]
  /\ accepted \in 0..MaxObjects /\ got \in Seq(1..MaxObjects)

Init ==
  /\ hSemPut = nMax /\ hSemGet = 0
  /\ iNextPut = 0 /\ iNextGet = 0
  /\ QueueObjects = [i \in 0..(nMax - 1) |-> Empty]
  /\ at = [t \in Threads |-> "out"]
  /\ accepted = 0 /\ got = <<>>

Go(t, place) == at' = [at EXCEPT ![t] = place]

\* Fault: the getters are told before the slot is written.
WaitAndSignal(t) ==
  /\ at[t] = "out" /\ hSemPut > 0
  /\ accepted + Cardinality({u \in Putters : at[u] = "slot"}) < MaxObjects
  /\ hSemPut' = hSemPut - 1 /\ hSemGet' = hSemGet + 1
  /\ Go(t, "slot")
  /\ UNCHANGED <<iNextPut, iNextGet, QueueObjects, accepted, got>>

WaitToPut(t) ==
  /\ at[t] = "out" /\ hSemPut > 0
  /\ accepted + Cardinality({u \in Putters : at[u] = "slot"}) < MaxObjects
  /\ hSemPut' = hSemPut - 1
  /\ Go(t, "slot")
  /\ UNCHANGED <<hSemGet, iNextPut, iNextGet, QueueObjects, accepted, got>>

\* The objects are numbered as they are put.
Put(t) ==
  /\ at[t] = "slot"
  /\ QueueObjects' = [QueueObjects EXCEPT ![iNextPut % nMax] = accepted + 1]
  /\ iNextPut' = iNextPut + 1 /\ accepted' = accepted + 1
  /\ Go(t, "signal")
  /\ UNCHANGED <<hSemPut, hSemGet, iNextGet, got>>

SignalPut(t) ==
  /\ at[t] = "signal"
  /\ hSemGet' = hSemGet + 1
  /\ Go(t, "out")
  /\ UNCHANGED <<hSemPut, iNextPut, iNextGet, QueueObjects, accepted, got>>

WaitToGet(t) ==
  /\ at[t] = "out" /\ hSemGet > 0
  /\ hSemGet' = hSemGet - 1
  /\ Go(t, "slot")
  /\ UNCHANGED <<hSemPut, iNextPut, iNextGet, QueueObjects, accepted, got>>

Get(t) ==
  /\ at[t] = "slot"
  /\ got' = Append(got, QueueObjects[iNextGet % nMax])
  /\ iNextGet' = iNextGet + 1
  /\ Go(t, "signal")
  /\ UNCHANGED <<hSemPut, hSemGet, iNextPut, QueueObjects, accepted>>

SignalGet(t) ==
  /\ at[t] = "signal"
  /\ hSemPut' = hSemPut + 1
  /\ Go(t, "out")
  /\ UNCHANGED <<hSemGet, iNextPut, iNextGet, QueueObjects, accepted, got>>

\* Nobody has to call.
Done == (\A t \in Threads : at[t] = "out") /\ UNCHANGED vars

PutStep(t) == WaitToPut(t) \/ Put(t) \/ SignalPut(t)
GetStep(t) == WaitToGet(t) \/ Get(t) \/ SignalGet(t)

Next == (\E t \in Putters : PutStep(t)) \/ (\E t \in Getters : GetStep(t)) \/ Done

Fairness ==
  /\ \A t \in Putters : WF_vars(Put(t) \/ SignalPut(t))
  /\ \A t \in Getters : WF_vars(GetStep(t))

Spec == Init /\ [][Next]_vars /\ Fairness

-----------------------------------------------------------------------------
(* Properties.                                                             *)

Object(id) == [kind |-> "object", id |-> id]
pending == [i \in 1..(iNextPut - iNextGet) |-> Object(QueueObjects[(iNextGet + i - 1) % nMax])]
out == [i \in DOMAIN got |-> Object(got[i])]

\* The queue is a channel: every object comes out once and in the order in which
\* the objects were put, whoever puts and gets meanwhile.
Promise == INSTANCE Channel WITH Kinds <- {"object"}
IsChannel == Promise!Spec

\* What was put is got, as long as somebody gets: no slot and no signal is lost.
AllComesOut == \A n \in 1..MaxObjects : accepted >= n ~> Len(got) >= n

\* Neither does a thread wait to put into a queue that stays full.
PutReturns == hSemPut = 0 ~> hSemPut > 0

=============================================================================
