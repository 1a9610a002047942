-------------------------- MODULE Connection_proofs -------------------------
(***************************************************************************)
(* Proofs about Connection, for every set of media types, every list the   *)
(* source may offer and every renderer.  The state of the pins is one      *)
(* record and a handler a function on it, so the proofs go in two steps:   *)
(* first, what each function does to the references (Whole) and which pins *)
(* it leaves alone (OnlyPair); then, where the call to Connect is, what    *)
(* the two pins it works on are to each other (CallInv), while every other *)
(* pair of pins is connected or not, and nothing in between (Pair).  The   *)
(* last section follows the enumeration of types: what a call that meets   *)
(* no other failure has tried so far has been refused (TriedInv).          *)
(***************************************************************************)
EXTENDS Connection, FiniteSetTheorems, SequenceTheorems, TLAPS

\* The members of the pins and filters are one record with these fields.
Fields == {"m_State", "m_Connected", "m_mt", "m_pInputPin", "m_pAllocator",
           "committed", "pinRefs", "allocRefs"}

IsRecord(s) == s = [x \in Fields |-> s[x]]

\* Their types; that the counts are natural numbers follows from the balance.
Typed(s) ==
  /\ s.m_State \in [Filters -> {"stopped", "active"}]
  /\ s.m_Connected \in [Pins -> Pins \cup {None}]
  /\ s.m_mt \in [Pins -> Types \cup {NoType}]
  /\ s.m_pInputPin \in [Outs -> Ins \cup {None}]
  /\ s.m_pAllocator \in [Pins -> Pins \cup {None}]
  /\ s.committed \in SUBSET Pins
  /\ s.pinRefs \in [Pins -> Int]
  /\ s.allocRefs \in [Pins -> Int]

\* How many of the pins in S have x as what f gives.
Count(f, S, x) == Cardinality({q \in S : f[q] = x})

PinsBalance(s) ==
  \A p \in Pins : s.pinRefs[p] = Count(s.m_Connected, Pins, p)
                                 + Count(s.m_pInputPin, Outs, p)

AllocsBalance(s) ==
  \A a \in Pins : s.allocRefs[a] = Count(s.m_pAllocator, Pins, a)

Whole(s) == IsRecord(s) /\ Typed(s) /\ PinsBalance(s) /\ AllocsBalance(s)

-----------------------------------------------------------------------------
(* Counting.                                                               *)

LEMMA PinsAreFinite == IsFiniteSet(Pins) /\ IsFiniteSet(Outs)
<1>1. \A x, y : IsFiniteSet({x, y})
  <2> SUFFICES ASSUME NEW x, NEW y PROVE IsFiniteSet({x, y})
    OBVIOUS
  <2>1. IsFiniteSet({} \cup {x})
    BY Zenon, FS_EmptySet, FS_AddElement
  <2>2. IsFiniteSet(({} \cup {x}) \cup {y})
    BY Zenon, <2>1, FS_AddElement
  <2>3. ({} \cup {x}) \cup {y} = {x, y}
    OBVIOUS
  <2> QED BY <2>2, <2>3
<1>2. IsFiniteSet(Outs) /\ IsFiniteSet(Ins)
  BY <1>1 DEF Outs, Ins
<1> QED BY <1>2, FS_Union DEF Pins

\* No pin is nothing.
LEMMA NoPinIsNone == None \notin Pins /\ None \notin Outs /\ None \notin Ins
BY DEF None, Pins, Outs, Ins

\* Of the pins in S, p has v now, and the others have what they had.
Moved(f, h, S, p, v) ==
  p \in S /\ \A q \in S : h[q] = IF q = p THEN v ELSE f[q]

\* It is counted there and no longer where it was.
LEMMA Retarget ==
  ASSUME NEW S, IsFiniteSet(S), NEW f, NEW h, NEW p, NEW v,
         Moved(f, h, S, p, v), NEW x
  PROVE  /\ Count(f, S, x) \in Nat /\ Count(h, S, x) \in Nat
         /\ Count(h, S, x) = Count(f, S, x) + (IF v = x THEN 1 ELSE 0)
                             - (IF f[p] = x THEN 1 ELSE 0)
<1> DEFINE A == {q \in S : f[q] = x}
           B == {q \in S : h[q] = x}
<1>1. IsFiniteSet(A) /\ IsFiniteSet(B)
  BY FS_Subset
<1>2. Cardinality(A) \in Nat /\ Cardinality(B) \in Nat
  BY <1>1, FS_CardinalityType
<1>3. ASSUME v = x, f[p] # x PROVE Cardinality(B) = Cardinality(A) + 1
  <2>1. B = A \cup {p} /\ p \notin A
    BY <1>3 DEF Moved
  <2> HIDE DEF A, B
  <2> QED BY <1>1, <2>1, FS_AddElement
<1>4. ASSUME v # x, f[p] = x PROVE Cardinality(B) = Cardinality(A) - 1
  <2>1. A = B \cup {p} /\ p \notin B
    BY <1>4 DEF Moved
  <2> HIDE DEF A, B
  <2>2. Cardinality(A) = Cardinality(B) + 1
    BY <1>1, <2>1, FS_AddElement
  <2> QED BY <1>2, <2>2
<1>5. ASSUME v = x <=> f[p] = x PROVE B = A
  BY <1>5 DEF Moved
<1> HIDE DEF A, B
<1>6. Count(f, S, x) = Cardinality(A) /\ Count(h, S, x) = Cardinality(B)
  BY DEF Count, A, B
<1> QED BY <1>2, <1>3, <1>4, <1>5, <1>6

-----------------------------------------------------------------------------
(* A pin that remembers another in place of the one it had keeps the       *)
(* balance if the counts of the two follow.                                *)

AllocatorMoved(s, t, p, v) ==
  /\ IsRecord(t) /\ Typed(t)
  /\ t.m_pAllocator = [s.m_pAllocator EXCEPT ![p] = v]
  /\ \A a \in Pins :
       t.allocRefs[a] = s.allocRefs[a] + (IF v = a THEN 1 ELSE 0)
                     - (IF s.m_pAllocator[p] = a THEN 1 ELSE 0)
  /\ t.m_Connected = s.m_Connected /\ t.m_pInputPin = s.m_pInputPin
  /\ t.pinRefs = s.pinRefs

LEMMA AllocatorMoves ==
  ASSUME NEW s, NEW t, NEW p \in Pins, NEW v, Whole(s),
         AllocatorMoved(s, t, p, v)
  PROVE  Whole(t)
<1>1. PinsBalance(t)
  BY DEF Whole, PinsBalance, AllocatorMoved
<1>2. ASSUME NEW a \in Pins
      PROVE  t.allocRefs[a] = Count(t.m_pAllocator, Pins, a)
  <2>1. /\ s.m_pAllocator \in [Pins -> Pins \cup {None}]
        /\ s.allocRefs[a] = Count(s.m_pAllocator, Pins, a)
    BY DEF Whole, Typed, AllocsBalance
  <2>2. Moved(s.m_pAllocator, t.m_pAllocator, Pins, p, v)
    BY <2>1 DEF Moved, AllocatorMoved
  <2>3. /\ Count(s.m_pAllocator, Pins, a) \in Nat
        /\ Count(t.m_pAllocator, Pins, a) = Count(s.m_pAllocator, Pins, a)
             + (IF v = a THEN 1 ELSE 0)
             - (IF s.m_pAllocator[p] = a THEN 1 ELSE 0)
    BY <2>2, Retarget, PinsAreFinite
  <2> QED BY <2>1, <2>3 DEF AllocatorMoved
<1> QED BY <1>1, <1>2 DEF Whole, AllocsBalance, AllocatorMoved

PeerMoved(s, t, p, v) ==
  /\ IsRecord(t) /\ Typed(t)
  /\ t.m_Connected = [s.m_Connected EXCEPT ![p] = v]
  /\ \A q \in Pins :
       t.pinRefs[q] = s.pinRefs[q] + (IF v = q THEN 1 ELSE 0)
                     - (IF s.m_Connected[p] = q THEN 1 ELSE 0)
  /\ t.m_pAllocator = s.m_pAllocator /\ t.m_pInputPin = s.m_pInputPin
  /\ t.allocRefs = s.allocRefs

LEMMA PeerMoves ==
  ASSUME NEW s, NEW t, NEW p \in Pins, NEW v, Whole(s),
         PeerMoved(s, t, p, v)
  PROVE  Whole(t)
<1>1. AllocsBalance(t)
  BY DEF Whole, AllocsBalance, PeerMoved
<1>2. ASSUME NEW q \in Pins
      PROVE  t.pinRefs[q] = Count(t.m_Connected, Pins, q)
                            + Count(t.m_pInputPin, Outs, q)
  <2>1. /\ s.m_Connected \in [Pins -> Pins \cup {None}]
        /\ s.pinRefs[q] = Count(s.m_Connected, Pins, q)
                            + Count(s.m_pInputPin, Outs, q)
    BY DEF Whole, Typed, PinsBalance
  <2>2. Moved(s.m_Connected, t.m_Connected, Pins, p, v)
    BY <2>1 DEF Moved, PeerMoved
  <2>3. /\ Count(s.m_Connected, Pins, q) \in Nat
        /\ Count(t.m_Connected, Pins, q) = Count(s.m_Connected, Pins, q)
             + (IF v = q THEN 1 ELSE 0)
             - (IF s.m_Connected[p] = q THEN 1 ELSE 0)
    BY <2>2, Retarget, PinsAreFinite
  <2>4. Count(s.m_pInputPin, Outs, q) \in Nat
    BY PinsAreFinite, FS_Subset, FS_CardinalityType DEF Count
  <2> QED BY <2>1, <2>3, <2>4 DEF PeerMoved
<1> QED BY <1>1, <1>2 DEF Whole, PinsBalance, PeerMoved

InputPinMoved(s, t, o, v) ==
  /\ IsRecord(t) /\ Typed(t)
  /\ t.m_pInputPin = [s.m_pInputPin EXCEPT ![o] = v]
  /\ \A q \in Pins :
       t.pinRefs[q] = s.pinRefs[q] + (IF v = q THEN 1 ELSE 0)
                     - (IF s.m_pInputPin[o] = q THEN 1 ELSE 0)
  /\ t.m_pAllocator = s.m_pAllocator /\ t.m_Connected = s.m_Connected
  /\ t.allocRefs = s.allocRefs

LEMMA InputPinMoves ==
  ASSUME NEW s, NEW t, NEW o \in Outs, NEW v, Whole(s),
         InputPinMoved(s, t, o, v)
  PROVE  Whole(t)
<1>1. AllocsBalance(t)
  BY DEF Whole, AllocsBalance, InputPinMoved
<1>2. ASSUME NEW q \in Pins
      PROVE  t.pinRefs[q] = Count(t.m_Connected, Pins, q)
                            + Count(t.m_pInputPin, Outs, q)
  <2>1. /\ s.m_pInputPin \in [Outs -> Ins \cup {None}]
        /\ s.pinRefs[q] = Count(s.m_Connected, Pins, q)
                            + Count(s.m_pInputPin, Outs, q)
    BY DEF Whole, Typed, PinsBalance
  <2>2. Moved(s.m_pInputPin, t.m_pInputPin, Outs, o, v)
    BY <2>1 DEF Moved, InputPinMoved
  <2>3. /\ Count(s.m_pInputPin, Outs, q) \in Nat
        /\ Count(t.m_pInputPin, Outs, q) = Count(s.m_pInputPin, Outs, q)
             + (IF v = q THEN 1 ELSE 0)
             - (IF s.m_pInputPin[o] = q THEN 1 ELSE 0)
    BY <2>2, Retarget, PinsAreFinite
  <2>4. Count(s.m_Connected, Pins, q) \in Nat
    BY PinsAreFinite, FS_Subset, FS_CardinalityType DEF Count
  <2> QED BY <2>1, <2>3, <2>4 DEF InputPinMoved
<1> QED BY <1>1, <1>2 DEF Whole, PinsBalance, InputPinMoved

-----------------------------------------------------------------------------
(* What the functions on the members do.                                   *)

\* t is s in which the pin p has the allocator a, or none,
AllocatorSet(s, t, p, a) ==
  /\ t.m_pAllocator = [s.m_pAllocator EXCEPT ![p] = a]
  /\ t.m_State = s.m_State /\ t.m_Connected = s.m_Connected
  /\ t.m_mt = s.m_mt /\ t.m_pInputPin = s.m_pInputPin
  /\ t.committed = s.committed

\* or the peer q,
PeerSet(s, t, p, q) ==
  /\ t.m_Connected = [s.m_Connected EXCEPT ![p] = q]
  /\ t.m_mt = s.m_mt
  /\ t.m_State = s.m_State /\ t.m_pInputPin = s.m_pInputPin
  /\ t.m_pAllocator = s.m_pAllocator /\ t.committed = s.committed

\* or that and the media type y,
PeerAndTypeSet(s, t, p, q, y) ==
  /\ t.m_Connected = [s.m_Connected EXCEPT ![p] = q]
  /\ t.m_mt = [s.m_mt EXCEPT ![p] = y]
  /\ t.m_State = s.m_State /\ t.m_pInputPin = s.m_pInputPin
  /\ t.m_pAllocator = s.m_pAllocator /\ t.committed = s.committed

\* or neither peer nor type.
Forgotten(s, t, p) ==
  /\ t.m_Connected = [s.m_Connected EXCEPT ![p] = None]
  /\ \A q \in Pins : q # p => t.m_mt[q] = s.m_mt[q]
  /\ t.m_State = s.m_State /\ t.m_pInputPin = s.m_pInputPin
  /\ t.m_pAllocator = s.m_pAllocator /\ t.committed = s.committed

LEMMA ReleaseAllocatorDoes ==
  ASSUME NEW s, Whole(s), NEW p \in Pins, s.m_pAllocator[p] # None,
         NEW t, t = ReleaseAllocator(s, p)
  PROVE  Whole(t) /\ AllocatorSet(s, t, p, None)
<1> DEFINE a == s.m_pAllocator[p]
<1>1. IsRecord(s) /\ Typed(s) /\ a \in Pins
  BY DEF Whole, Typed
<1>2. /\ t.m_pAllocator = [s.m_pAllocator EXCEPT ![p] = None]
      /\ t.allocRefs = [s.allocRefs EXCEPT ![a] = s.allocRefs[a] - 1]
      /\ t.m_State = s.m_State /\ t.m_Connected = s.m_Connected
      /\ t.m_mt = s.m_mt /\ t.m_pInputPin = s.m_pInputPin
      /\ t.committed = s.committed /\ t.pinRefs = s.pinRefs
      /\ IsRecord(t)
  BY <1>1 DEF ReleaseAllocator, IsRecord, Fields
<1>3. Typed(t)
  BY <1>1, <1>2 DEF Typed
<1>4. ASSUME NEW b \in Pins
      PROVE  t.allocRefs[b] = s.allocRefs[b] + (IF None = b THEN 1 ELSE 0)
                              - (IF s.m_pAllocator[p] = b THEN 1 ELSE 0)
  <2>1. s.allocRefs \in [Pins -> Int] /\ None # b
    BY <1>1, NoPinIsNone DEF Typed
  <2> QED BY <1>1, <1>2, <2>1
<1>5. AllocatorMoved(s, t, p, None)
  BY <1>2, <1>3, <1>4 DEF AllocatorMoved
<1>6. Whole(t)
  BY Zenon, <1>5, AllocatorMoves
<1> QED BY <1>2, <1>6 DEF AllocatorSet

LEMMA DropAllocatorDoes ==
  ASSUME NEW s, Whole(s), NEW p \in Pins, NEW t, t = DropAllocator(s, p)
  PROVE  /\ Whole(t)
         /\ t.m_pAllocator = [s.m_pAllocator EXCEPT ![p] = None]
         /\ t.m_State = s.m_State /\ t.m_Connected = s.m_Connected
         /\ t.m_mt = s.m_mt /\ t.m_pInputPin = s.m_pInputPin
         /\ t.committed \subseteq s.committed
<1>1. CASE s.m_pAllocator[p] = None
  BY <1>1 DEF DropAllocator, Whole, Typed
<1>2. CASE s.m_pAllocator[p] # None
  <2> DEFINE r == [s EXCEPT !.committed = @ \ {s.m_pAllocator[p]}]
  <2>1. /\ IsRecord(r) /\ r.m_pAllocator = s.m_pAllocator
        /\ r.m_State = s.m_State /\ r.m_Connected = s.m_Connected
        /\ r.m_mt = s.m_mt /\ r.m_pInputPin = s.m_pInputPin
        /\ r.committed = s.committed \ {s.m_pAllocator[p]}
        /\ r.pinRefs = s.pinRefs /\ r.allocRefs = s.allocRefs
    BY DEF Whole, IsRecord, Fields
  <2>2. t = ReleaseAllocator(r, p)
    BY <1>2 DEF DropAllocator
  <2> HIDE DEF r
  <2>3. Whole(r)
    BY <2>1 DEF Whole, Typed, PinsBalance, AllocsBalance
  <2>4. r.m_pAllocator[p] # None
    BY <1>2, <2>1
  <2>5. Whole(t) /\ AllocatorSet(r, t, p, None)
    BY Zenon, <2>2, <2>3, <2>4, ReleaseAllocatorDoes
  <2> QED BY <2>1, <2>5 DEF AllocatorSet
<1> QED BY <1>1, <1>2

\* t is s in which the output pin p has let go of the input pin it had.
InputPinDropped(s, t, p) ==
  /\ p \in Outs => t.m_pInputPin = [s.m_pInputPin EXCEPT ![p] = None]
  /\ p \in Ins => t.m_pInputPin = s.m_pInputPin
  /\ t.m_State = s.m_State /\ t.m_Connected = s.m_Connected
  /\ t.m_mt = s.m_mt /\ t.m_pAllocator = s.m_pAllocator
  /\ t.committed = s.committed

LEMMA DropInputPinDoes ==
  ASSUME NEW s, NEW p \in Pins, NEW t, Whole(s), t = DropInputPin(s, p)
  PROVE  Whole(t) /\ InputPinDropped(s, t, p)
<1> USE DEF InputPinDropped
<1>1. p \in Ins <=> p \notin Outs
  BY DEF Pins, Ins, Outs
<1>2. CASE p \in Ins \/ s.m_pInputPin[p] = None
  BY <1>1, <1>2 DEF DropInputPin, Whole, Typed
<1>3. CASE ~(p \in Ins \/ s.m_pInputPin[p] = None)
  <2> DEFINE i == s.m_pInputPin[p]
  <2>1. IsRecord(s) /\ Typed(s) /\ p \in Outs /\ i \in Ins /\ i \in Pins
    BY <1>1, <1>3 DEF Whole, Typed, Pins
  <2>2. /\ t.m_pInputPin = [s.m_pInputPin EXCEPT ![p] = None]
        /\ t.pinRefs = [s.pinRefs EXCEPT ![i] = s.pinRefs[i] - 1]
        /\ t.m_State = s.m_State /\ t.m_Connected = s.m_Connected
        /\ t.m_mt = s.m_mt /\ t.m_pAllocator = s.m_pAllocator
        /\ t.committed = s.committed /\ t.allocRefs = s.allocRefs
        /\ IsRecord(t)
    BY <1>3, <2>1 DEF DropInputPin, IsRecord, Fields
  <2>3. Typed(t)
    BY <2>1, <2>2 DEF Typed
  <2>4. ASSUME NEW q \in Pins
        PROVE  t.pinRefs[q] = s.pinRefs[q] + (IF None = q THEN 1 ELSE 0)
                              - (IF s.m_pInputPin[p] = q THEN 1 ELSE 0)
    <3>1. s.pinRefs \in [Pins -> Int] /\ None # q
      BY <2>1, NoPinIsNone DEF Typed
    <3> QED BY <2>1, <2>2, <3>1
  <2>5. InputPinMoved(s, t, p, None)
    BY <2>2, <2>3, <2>4 DEF InputPinMoved
  <2>6. Whole(t)
    BY Zenon, <2>1, <2>5, InputPinMoves
  <2> QED BY <1>1, <2>1, <2>2, <2>6
<1> QED BY <1>2, <1>3

\* t is s in which the pin p has let go of both.
Broken(s, t, p) ==
  /\ t.m_pAllocator = [s.m_pAllocator EXCEPT ![p] = None]
  /\ p \in Outs => t.m_pInputPin = [s.m_pInputPin EXCEPT ![p] = None]
  /\ p \in Ins => t.m_pInputPin = s.m_pInputPin
  /\ t.m_State = s.m_State /\ t.m_Connected = s.m_Connected
  /\ t.m_mt = s.m_mt /\ t.committed \subseteq s.committed

LEMMA BreakConnectDoes ==
  ASSUME NEW s, Whole(s), NEW p \in Pins, NEW t, t = BreakConnect(s, p)
  PROVE  Whole(t) /\ Broken(s, t, p)
<1> DEFINE r == DropAllocator(s, p)
<1>1. t = DropInputPin(r, p)
  BY DEF BreakConnect
<1>2. /\ Whole(r)
      /\ r.m_pAllocator = [s.m_pAllocator EXCEPT ![p] = None]
      /\ r.m_State = s.m_State /\ r.m_Connected = s.m_Connected
      /\ r.m_mt = s.m_mt /\ r.m_pInputPin = s.m_pInputPin
      /\ r.committed \subseteq s.committed
  BY DropAllocatorDoes
<1> HIDE DEF r
<1>3. Whole(t) /\ InputPinDropped(r, t, p)
  BY Zenon, <1>1, <1>2, DropInputPinDoes
<1> QED BY <1>2, <1>3 DEF InputPinDropped, Broken

LEMMA ForgetDoes ==
  ASSUME NEW s, Whole(s), NEW p \in Pins, NEW t, t = Forget(s, p)
  PROVE  Whole(t) /\ Forgotten(s, t, p)
<1> USE DEF Forgotten
<1>1. CASE ~IsConnected(s, p)
  BY <1>1 DEF Forget, IsConnected, Whole, Typed
<1>2. CASE IsConnected(s, p)
  <2> DEFINE q == s.m_Connected[p]
  <2>1. IsRecord(s) /\ Typed(s) /\ q \in Pins
    BY <1>2 DEF Whole, Typed, IsConnected
  <2>2. /\ t.m_Connected = [s.m_Connected EXCEPT ![p] = None]
        /\ t.pinRefs = [s.pinRefs EXCEPT ![q] = s.pinRefs[q] - 1]
        /\ t.m_mt = [s.m_mt EXCEPT ![p] = NoType]
        /\ t.m_State = s.m_State /\ t.m_pInputPin = s.m_pInputPin
        /\ t.m_pAllocator = s.m_pAllocator
        /\ t.committed = s.committed /\ t.allocRefs = s.allocRefs
        /\ IsRecord(t)
    BY <1>2, <2>1 DEF Forget, IsRecord, Fields
  <2>3. Typed(t)
    BY <2>1, <2>2 DEF Typed
  <2>4. ASSUME NEW x \in Pins
        PROVE  t.pinRefs[x] = s.pinRefs[x] + (IF None = x THEN 1 ELSE 0)
                              - (IF s.m_Connected[p] = x THEN 1 ELSE 0)
    <3>1. s.pinRefs \in [Pins -> Int] /\ None # x
      BY <2>1, NoPinIsNone DEF Typed
    <3> QED BY <2>1, <2>2, <3>1
  <2>5. PeerMoved(s, t, p, None)
    BY <2>2, <2>3, <2>4 DEF PeerMoved
  <2>6. Whole(t)
    BY Zenon, <2>5, PeerMoves
  <2>7. s.m_mt \in [Pins -> Types \cup {NoType}]
    BY <2>1 DEF Typed
  <2> QED BY <2>2, <2>6, <2>7
<1> QED BY <1>1, <1>2

LEMMA RememberDoes ==
  ASSUME NEW s, Whole(s), NEW p \in Pins, ~IsConnected(s, p), NEW q \in Pins,
         NEW r, r = Remember(s, p, q)
  PROVE  Whole(r) /\ PeerSet(s, r, p, q)
<1>1. IsRecord(s) /\ Typed(s) /\ s.m_Connected[p] = None
  BY DEF Whole, IsConnected
<1>2. /\ r.m_Connected = [s.m_Connected EXCEPT ![p] = q]
      /\ r.pinRefs = [s.pinRefs EXCEPT ![q] = s.pinRefs[q] + 1]
      /\ r.m_mt = s.m_mt
      /\ r.m_State = s.m_State /\ r.m_pInputPin = s.m_pInputPin
      /\ r.m_pAllocator = s.m_pAllocator
      /\ r.committed = s.committed /\ r.allocRefs = s.allocRefs
      /\ IsRecord(r)
  BY <1>1 DEF Remember, IsRecord, Fields
<1>3. Typed(r)
  BY <1>1, <1>2 DEF Typed
<1>4. ASSUME NEW x \in Pins
      PROVE  r.pinRefs[x] = s.pinRefs[x] + (IF q = x THEN 1 ELSE 0)
                            - (IF s.m_Connected[p] = x THEN 1 ELSE 0)
  <2>1. s.pinRefs \in [Pins -> Int] /\ None # x
    BY <1>1, NoPinIsNone DEF Typed
  <2> QED BY <1>1, <1>2, <2>1
<1>5. PeerMoved(s, r, p, q)
  BY <1>2, <1>3, <1>4 DEF PeerMoved
<1>6. Whole(r)
  BY Zenon, <1>5, PeerMoves
<1> QED BY <1>2, <1>6 DEF PeerSet

LEMMA SetTypeDoes ==
  ASSUME NEW s, NEW r, Whole(r), NEW p \in Pins, NEW q, PeerSet(s, r, p, q),
         NEW y \in Types, NEW t, t = [r EXCEPT !.m_mt[p] = y]
  PROVE  Whole(t) /\ PeerAndTypeSet(s, t, p, q, y)
<1>1. IsRecord(r) /\ Typed(r)
  BY DEF Whole
<1>2. /\ IsRecord(t) /\ t.m_Connected = r.m_Connected
      /\ t.m_mt = [r.m_mt EXCEPT ![p] = y]
      /\ t.m_State = r.m_State /\ t.m_pInputPin = r.m_pInputPin
      /\ t.m_pAllocator = r.m_pAllocator /\ t.committed = r.committed
      /\ t.pinRefs = r.pinRefs /\ t.allocRefs = r.allocRefs
  BY <1>1 DEF IsRecord, Fields
<1>3. Typed(t)
  <2> DEFINE T == Types \cup {NoType}
  <2>1. r.m_mt \in [Pins -> T] /\ y \in T /\ t.m_mt = [r.m_mt EXCEPT ![p] = y]
    BY <1>1, <1>2 DEF Typed
  <2> HIDE DEF T
  <2>2. t.m_mt \in [Pins -> T]
    BY <2>1
  <2> USE DEF T
  <2> QED BY <1>1, <1>2, <2>2 DEF Typed
<1>4. PinsBalance(t) /\ AllocsBalance(t)
  BY <1>2 DEF Whole, PinsBalance, AllocsBalance
<1> QED BY <1>2, <1>3, <1>4 DEF Whole, PeerSet, PeerAndTypeSet

LEMMA NotifyAllocatorDoes ==
  ASSUME NEW s, Whole(s), NEW p \in Pins, NEW a \in Pins,
         NEW t, t = NotifyAllocator(s, p, a)
  PROVE  Whole(t) /\ AllocatorSet(s, t, p, a)
<1> DEFINE r == [s EXCEPT !.allocRefs[a] = @ + 1]
           b == s.m_pAllocator[p]
<1>1. IsRecord(s) /\ Typed(s) /\ b \in Pins \cup {None}
  BY DEF Whole, Typed
<1>2. /\ IsRecord(r)
      /\ r.m_pAllocator = s.m_pAllocator
      /\ r.allocRefs = [s.allocRefs EXCEPT ![a] = s.allocRefs[a] + 1]
      /\ r.m_State = s.m_State /\ r.m_Connected = s.m_Connected
      /\ r.m_mt = s.m_mt /\ r.m_pInputPin = s.m_pInputPin
      /\ r.committed = s.committed /\ r.pinRefs = s.pinRefs
  BY <1>1 DEF IsRecord, Fields
<1>3. t = [(IF r.m_pAllocator[p] = None THEN r ELSE ReleaseAllocator(r, p))
            EXCEPT !.m_pAllocator[p] = a]
  BY DEF NotifyAllocator
<1> HIDE DEF r
<1>4. /\ IsRecord(t)
      /\ t.m_pAllocator = [s.m_pAllocator EXCEPT ![p] = a]
      /\ t.m_State = s.m_State /\ t.m_Connected = s.m_Connected
      /\ t.m_mt = s.m_mt /\ t.m_pInputPin = s.m_pInputPin
      /\ t.committed = s.committed /\ t.pinRefs = s.pinRefs
      /\ t.allocRefs = IF b = None THEN r.allocRefs
                       ELSE [r.allocRefs EXCEPT ![b] = r.allocRefs[b] - 1]
  <2>1. CASE b = None
    <3>1. t = [r EXCEPT !.m_pAllocator[p] = a]
      BY <1>2, <1>3, <2>1
    <3> QED BY <1>2, <2>1, <3>1 DEF IsRecord, Fields
  <2>2. CASE b # None
    <3> DEFINE c == ReleaseAllocator(r, p)
    <3>1. t = [c EXCEPT !.m_pAllocator[p] = a]
      BY <1>2, <1>3, <2>2
    <3>2. /\ IsRecord(c)
          /\ c.m_pAllocator = [s.m_pAllocator EXCEPT ![p] = None]
          /\ c.m_State = s.m_State /\ c.m_Connected = s.m_Connected
          /\ c.m_mt = s.m_mt /\ c.m_pInputPin = s.m_pInputPin
          /\ c.committed = s.committed /\ c.pinRefs = s.pinRefs
          /\ c.allocRefs = [r.allocRefs EXCEPT ![b] = r.allocRefs[b] - 1]
      BY <1>2 DEF IsRecord, Fields, ReleaseAllocator
    <3> HIDE DEF c
    <3>3. [[s.m_pAllocator EXCEPT ![p] = None] EXCEPT ![p] = a]
            = [s.m_pAllocator EXCEPT ![p] = a]
      BY <1>1 DEF Typed
    <3> QED BY <2>2, <3>1, <3>2, <3>3 DEF IsRecord, Fields
  <2> QED BY <2>1, <2>2
<1>5. Typed(t)
  BY <1>1, <1>2, <1>4 DEF Typed
<1>6. ASSUME NEW x \in Pins
      PROVE  t.allocRefs[x] = s.allocRefs[x] + (IF a = x THEN 1 ELSE 0)
                              - (IF s.m_pAllocator[p] = x THEN 1 ELSE 0)
  <2>1. s.allocRefs \in [Pins -> Int] /\ None # x
    BY <1>1, NoPinIsNone DEF Typed
  <2> QED BY <1>1, <1>2, <1>4, <2>1
<1>7. AllocatorMoved(s, t, p, a)
  BY <1>4, <1>5, <1>6 DEF AllocatorMoved
<1>8. Whole(t)
  BY Zenon, <1>7, AllocatorMoves
<1> QED BY <1>4, <1>8 DEF AllocatorSet

\* A pin without an allocator takes a reference on one.
TakeAllocator(s, p, a) ==
  [s EXCEPT !.m_pAllocator[p] = a, !.allocRefs[a] = @ + 1]

LEMMA TakeAllocatorDoes ==
  ASSUME NEW s, Whole(s), NEW p \in Pins, s.m_pAllocator[p] = None,
         NEW a \in Pins,
         NEW t, t = TakeAllocator(s, p, a)
  PROVE  Whole(t) /\ AllocatorSet(s, t, p, a)
<1>1. IsRecord(s) /\ Typed(s)
  BY DEF Whole
<1>2. /\ IsRecord(t)
      /\ t.m_pAllocator = [s.m_pAllocator EXCEPT ![p] = a]
      /\ t.m_State = s.m_State /\ t.m_Connected = s.m_Connected
      /\ t.m_mt = s.m_mt /\ t.m_pInputPin = s.m_pInputPin
      /\ t.committed = s.committed /\ t.pinRefs = s.pinRefs
      /\ t.allocRefs = [s.allocRefs EXCEPT ![a] = s.allocRefs[a] + 1]
  BY <1>1 DEF TakeAllocator, IsRecord, Fields
<1>3. Typed(t)
  BY <1>1, <1>2 DEF Typed
<1>4. ASSUME NEW x \in Pins
      PROVE  t.allocRefs[x] = s.allocRefs[x] + (IF a = x THEN 1 ELSE 0)
                              - (IF s.m_pAllocator[p] = x THEN 1 ELSE 0)
  <2>1. s.allocRefs \in [Pins -> Int] /\ None # x
    BY <1>1, NoPinIsNone DEF Typed
  <2> QED BY <1>1, <1>2, <2>1
<1>5. AllocatorMoved(s, t, p, a)
  BY <1>2, <1>3, <1>4 DEF AllocatorMoved
<1>6. Whole(t)
  BY Zenon, <1>5, AllocatorMoves
<1> QED BY <1>2, <1>6 DEF AllocatorSet

-----------------------------------------------------------------------------
(* The two ends of a connection.                                           *)

\* t differs from s at most in the output pin o and its peer, and commits no
\* allocator.
OnlyPair(s, t, o) ==
  /\ t.m_State = s.m_State /\ t.committed \subseteq s.committed
  /\ \A q \in Pins : q \notin {o, Peer[o]} =>
       /\ t.m_Connected[q] = s.m_Connected[q]
       /\ t.m_mt[q] = s.m_mt[q]
       /\ t.m_pAllocator[q] = s.m_pAllocator[q]
  /\ \A q \in Outs : q # o => t.m_pInputPin[q] = s.m_pInputPin[q]

\* A pin that is connected has a media type.
HasType(s, p) == IsConnected(s, p) => s.m_mt[p] \in Types

\* Between two calls: connected and complete, or not connected and without
\* anything of the other.
Paired(s, o) ==
  LET i == Peer[o]
  IN /\ HasType(s, o) /\ HasType(s, i)
     /\ IF IsConnected(s, o)
        THEN s.m_pInputPin[o] = i /\ s.m_pAllocator[o] # None
        ELSE s.m_pInputPin[o] = None /\ s.m_pAllocator[o] = None
     /\ IsConnected(s, o) /\ IsConnected(s, i) =>
          /\ s.m_mt[o] = s.m_mt[i]
          /\ i = "xformIn" => s.m_mt[i].kind \in VideoInfo
          /\ s.m_pAllocator[o] = s.m_pAllocator[i]

\* In a call to Connect of o: before the attempt and after it has been undone,
Quiet(s, o) ==
  /\ ~IsConnected(s, o) /\ s.m_pInputPin[o] = None
  /\ s.m_pAllocator[o] = None /\ HasType(s, Peer[o])

\* while the receiving pin is asked for the media type y,
Begun(s, o, y) ==
  /\ IsConnected(s, o) /\ s.m_mt[o] = y
  /\ s.m_pInputPin[o] = Peer[o] /\ s.m_pAllocator[o] = None
  /\ HasType(s, Peer[o])

\* and when it has accepted it, until there is an allocator.
Joined(s, o, y) ==
  /\ Begun(s, o, y)
  /\ IsConnected(s, Peer[o]) /\ s.m_mt[Peer[o]] = y
  /\ Peer[o] = "xformIn" => y.kind \in VideoInfo

\* What is committed is in use, by an output pin that Stop does not pass over.
Uses(s, o, a) ==
  /\ s.m_pAllocator[o] = a
  /\ IsConnected(s, o)
  /\ s.m_State[FilterOf[o]] = "active"
  /\ o = "xformOut" => IsConnected(s, "xformIn")

InUse(s) == \A a \in s.committed : \E o \in Outs : Uses(s, o, a)

\* An active injector keeps its input.
InputKept ==
  g.m_State["injector"] = "active" /\ IsConnected(g, "xformIn") => IsConnected(g', "xformIn")

LEMMA Peers ==
  \A o \in Outs :
    /\ o \in Pins /\ o \notin Ins
    /\ Peer[o] \in Ins /\ Peer[o] \in Pins /\ Peer[o] \notin Outs
    /\ Peer[o] # o
    /\ FilterOf[o] \in Filters /\ FilterOf[Peer[o]] \in Filters
    /\ \A q \in Outs : q # o => Peer[q] # Peer[o]
BY DEF Outs, Ins, Pins, Peer, FilterOf, Filters

LEMMA EveryPin ==
  \A p \in Pins : p \in Outs \/ \E o \in Outs : p = Peer[o]
BY DEF Outs, Ins, Pins, Peer

\* The other pair of pins is not disturbed, nor is what is committed as long as
\* the filter of the output pin is stopped.
LEMMA OtherPairs ==
  ASSUME NEW s, NEW t, NEW o \in Outs, OnlyPair(s, t, o),
         NEW q \in Outs, q # o, Paired(s, q)
  PROVE  Paired(t, q)
<1>1. /\ q \in Pins /\ q \notin {o, Peer[o]}
      /\ Peer[q] \in Pins /\ Peer[q] \notin {o, Peer[o]}
  BY Peers
<1>2. /\ t.m_Connected[q] = s.m_Connected[q] /\ t.m_mt[q] = s.m_mt[q]
      /\ t.m_pAllocator[q] = s.m_pAllocator[q]
      /\ t.m_Connected[Peer[q]] = s.m_Connected[Peer[q]]
      /\ t.m_mt[Peer[q]] = s.m_mt[Peer[q]]
      /\ t.m_pAllocator[Peer[q]] = s.m_pAllocator[Peer[q]]
      /\ t.m_pInputPin[q] = s.m_pInputPin[q]
  BY <1>1 DEF OnlyPair
<1> QED BY <1>2 DEF Paired, HasType, IsConnected

LEMMA StillInUse ==
  ASSUME NEW s, NEW t, NEW o \in Outs, OnlyPair(s, t, o), IsStopped(s, o), InUse(s),
         s.m_State["injector"] = "active" /\ IsConnected(s, "xformIn")
           => IsConnected(t, "xformIn")
  PROVE  InUse(t)
<1> SUFFICES ASSUME NEW a \in t.committed PROVE \E q \in Outs : Uses(t, q, a)
  BY DEF InUse
<1>1. PICK q \in Outs : Uses(s, q, a)
  BY DEF InUse, OnlyPair
<1>2. q # o /\ q \in Pins /\ q # Peer[o]
  BY <1>1, Peers DEF IsStopped, Uses
<1>3. /\ t.m_pAllocator[q] = s.m_pAllocator[q]
      /\ t.m_Connected[q] = s.m_Connected[q] /\ t.m_State = s.m_State
  BY <1>2 DEF OnlyPair
<1>4. q = "xformOut" => IsConnected(t, "xformIn")
  BY <1>1 DEF Uses, FilterOf
<1> QED BY <1>1, <1>3, <1>4 DEF IsConnected, Uses

LEMMA OnlyPairJoins ==
  ASSUME NEW s, NEW t, NEW u, NEW o, OnlyPair(s, t, o), OnlyPair(t, u, o)
  PROVE  OnlyPair(s, u, o)
BY DEF OnlyPair

\* Pairs of pins and the functions on the members.
LEMMA BreakConnectAtPair ==
  ASSUME NEW s, Whole(s), NEW o \in Outs, NEW p \in {o, Peer[o]},
         NEW t, t = BreakConnect(s, p)
  PROVE  Whole(t) /\ OnlyPair(s, t, o)
<1>1. p \in Pins /\ (p = o \/ p \in Ins) /\ o \notin Ins
  BY Peers
<1>2. Whole(t) /\ Broken(s, t, p)
  BY Zenon, <1>1, BreakConnectDoes
<1>3. s.m_pAllocator \in [Pins -> Pins \cup {None}]
      /\ s.m_pInputPin \in [Outs -> Ins \cup {None}]
  BY DEF Whole, Typed
<1> QED BY <1>1, <1>2, <1>3 DEF OnlyPair, Broken

LEMMA ForgetAtPair ==
  ASSUME NEW s, Whole(s), NEW o \in Outs, NEW p \in {o, Peer[o]},
         NEW t, t = Forget(s, p)
  PROVE  Whole(t) /\ OnlyPair(s, t, o)
<1>1. p \in Pins
  BY Peers
<1>2. Whole(t) /\ Forgotten(s, t, p)
  BY Zenon, <1>1, ForgetDoes
<1>3. s.m_Connected \in [Pins -> Pins \cup {None}]
  BY DEF Whole, Typed
<1> QED BY <1>2, <1>3 DEF OnlyPair, Forgotten

\* An attempt that has failed leaves the output pin as it was.
LEMMA UndoneIsQuiet ==
  ASSUME NEW s, Whole(s), NEW o \in Outs, HasType(s, Peer[o]),
         NEW t, t = Forget(BreakConnect(s, o), o)
  PROVE  Whole(t) /\ OnlyPair(s, t, o) /\ Quiet(t, o)
<1> DEFINE r == BreakConnect(s, o)
<1>1. o \in Pins /\ Peer[o] \in Pins /\ Peer[o] # o
  BY Peers
<1>2. /\ Whole(r)
      /\ r.m_pAllocator = [s.m_pAllocator EXCEPT ![o] = None]
      /\ o \in Outs => r.m_pInputPin = [s.m_pInputPin EXCEPT ![o] = None]
      /\ r.m_Connected = s.m_Connected /\ r.m_mt = s.m_mt
  <2>1. Whole(r) /\ Broken(s, r, o)
    BY Zenon, <1>1, BreakConnectDoes
  <2> QED BY <2>1 DEF Broken
<1>3. OnlyPair(s, r, o)
  BY BreakConnectAtPair
<1> HIDE DEF r
<1>4. t = Forget(r, o)
  BY DEF r
<1>5. /\ t.m_Connected = [r.m_Connected EXCEPT ![o] = None]
      /\ \A q \in Pins : q # o => t.m_mt[q] = r.m_mt[q]
      /\ t.m_pInputPin = r.m_pInputPin /\ t.m_pAllocator = r.m_pAllocator
  <2>1. Whole(r)
    BY <1>2
  <2>2. Forgotten(r, t, o)
    BY Zenon, <1>1, <1>4, <2>1, ForgetDoes
  <2> QED BY <2>2 DEF Forgotten
<1>6. Whole(t) /\ OnlyPair(r, t, o)
  <2>1. o \in {o, Peer[o]} /\ Whole(r)
    BY <1>2
  <2> QED BY Zenon, <1>4, <2>1, ForgetAtPair
<1>7. OnlyPair(s, t, o)
  BY Zenon, <1>3, <1>6, OnlyPairJoins
<1>8. /\ s.m_pAllocator \in [Pins -> Pins \cup {None}]
      /\ s.m_Connected \in [Pins -> Pins \cup {None}]
      /\ s.m_pInputPin \in [Outs -> Ins \cup {None}]
  BY DEF Whole, Typed
<1>9. Quiet(t, o)
  <2>1. t.m_Connected[o] = None /\ t.m_pInputPin[o] = None
        /\ t.m_pAllocator[o] = None
    BY <1>1, <1>2, <1>5, <1>8
  <2>2. t.m_Connected[Peer[o]] = s.m_Connected[Peer[o]]
        /\ t.m_mt[Peer[o]] = s.m_mt[Peer[o]]
    BY <1>1, <1>2, <1>5, <1>8
  <2> QED BY <2>1, <2>2 DEF Quiet, HasType, IsConnected
<1> QED BY <1>6, <1>7, <1>9

-----------------------------------------------------------------------------
(* The invariant.                                                          *)

CallFields == {"out", "pmt", "matching", "round", "pos", "seen", "type", "hrFailure",
               "roundFailure"}

\* The call to Connect is one record too.
CallTyped ==
  /\ call = [x \in CallFields |-> call[x]]
  /\ call.out \in Outs \cup {None}
  /\ call.pmt \in Types \cup {NoType}
  /\ call.pos \in Nat
  /\ call.hrFailure \in Codes /\ call.roundFailure \in Codes

GraphTyped ==
  /\ offers \in SourceOffers /\ accepts \in RendererAccepts
  /\ version \in 1..MaxVersion /\ result \in Codes
  /\ place \in {"idle", "agree", "next", "attempt", "receive", "allocate",
                "init", "undo", "attempted"}

\* A type has been chosen.
Chosen == {"attempt", "receive", "allocate", "init", "undo", "attempted"}

\* Where the call is, and how far its two pins are.
CallInv ==
  /\ place = "idle" => call.out = None
  /\ place # "idle" => call.out \in Outs /\ IsStopped(g, call.out)
  /\ place \in Chosen => call.type \in Types
  /\ place \in {"agree", "next", "attempt", "attempted"} => Quiet(g, call.out)
  /\ place = "receive" => Begun(g, call.out, call.type)
  /\ place \in {"allocate", "init", "undo"} => Joined(g, call.out, call.type)

PairsInv == \A o \in Outs : o # call.out => Paired(g, o)

Inv == /\ Whole(g) /\ CallTyped /\ GraphTyped
       /\ CallInv /\ PairsInv /\ InUse(g)

LEMMA TypesAreTypes ==
  /\ \A o \in SourceOffers : \A n \in DOMAIN o : o[n] \in Types
  /\ \A o \in SourceOffers : Len(o) \in Nat /\ DOMAIN o = 1..Len(o)
  /\ Named \subseteq Types
  /\ \A t \in Types : Fake(t) \in Types
<1>1. SourceOffers \subseteq Seq(Types) /\ Named \subseteq Types
  BY ConnectionAssumption DEF Types
<1>2. \A o \in Seq(Types) : Len(o) \in Nat /\ DOMAIN o = 1..Len(o)
  BY LenProperties
<1>3. \A o \in Seq(Types) : \A n \in 1..Len(o) : o[n] \in Types
  BY ElementOfSeq
<1>4. \A t \in Types : Fake(t) \in Types
  BY DEF Types, Fake
<1> QED BY <1>1, <1>2, <1>3, <1>4

LEMMA InitInv == Init => Inv
<1> SUFFICES ASSUME Init PROVE Inv
  OBVIOUS
<1>1. /\ g.m_State = [f \in Filters |-> "stopped"]
      /\ g.m_Connected = [p \in Pins |-> None]
      /\ g.m_mt = [p \in Pins |-> NoType]
      /\ g.m_pInputPin = [o \in Outs |-> None]
      /\ g.m_pAllocator = [p \in Pins |-> None]
      /\ g.committed = {}
      /\ g.pinRefs = [p \in Pins |-> 0] /\ g.allocRefs = [p \in Pins |-> 0]
  BY DEF Init
<1>2. IsRecord(g)
  BY DEF Init, IsRecord, Fields
<1>3. Typed(g)
  BY <1>1 DEF Typed
<1>4. PinsBalance(g) /\ AllocsBalance(g)
  <2>1. ASSUME NEW f, NEW S \in SUBSET Pins, NEW x \in Pins,
               \A q \in S : f[q] = None
        PROVE  Count(f, S, x) = 0
    <3>1. {q \in S : f[q] = x} = {}
      BY <2>1, NoPinIsNone
    <3> QED BY <3>1, FS_EmptySet DEF Count
  <2>2. Outs \subseteq Pins
    BY Peers
  <2>3. \A x \in Pins : /\ Count(g.m_Connected, Pins, x) = 0
                        /\ Count(g.m_pInputPin, Outs, x) = 0
                        /\ Count(g.m_pAllocator, Pins, x) = 0
    BY <1>1, <2>1, <2>2
  <2> QED BY <1>1, <2>3 DEF PinsBalance, AllocsBalance
<1>5. call = NoCall /\ CallTyped /\ call.out = None
  BY DEF Init, CallTyped, CallFields, NoCall, Codes
<1>6. GraphTyped
  BY ConnectionAssumption DEF Init, GraphTyped, Codes
<1>7. \A o \in Outs : Paired(g, o)
  BY <1>1, Peers DEF Paired, HasType, IsConnected
<1>8. InUse(g)
  BY <1>1 DEF InUse
<1>9. CallInv
  BY <1>5 DEF Init, CallInv, Chosen
<1> QED BY <1>2, <1>3, <1>4, <1>5, <1>6, <1>7, <1>8, <1>9
        DEF Inv, Whole, PairsInv

\* What a step of the call has to establish.
LEMMA CallStep ==
  ASSUME Inv, InputKept, NEW o \in Outs, call.out = o, place # "idle",
         Whole(g'), OnlyPair(g, g', o), CallTyped', GraphTyped',
         \/ place' = "idle" /\ call'.out = None /\ Paired(g', o)
         \/ /\ place' # "idle" /\ call'.out = o
            /\ place' \in Chosen => call'.type \in Types
            /\ place' \in {"agree", "next", "attempt", "attempted"} =>
                 Quiet(g', o)
            /\ place' = "receive" => Begun(g', o, call'.type)
            /\ place' \in {"allocate", "init", "undo"} =>
                 Joined(g', o, call'.type)
  PROVE  Inv'
<1>1. IsStopped(g, o) /\ InUse(g)
  BY DEF Inv, CallInv
<1>2. InUse(g')
  BY Zenon, <1>1, StillInUse DEF InputKept
<1>3. \A q \in Outs : q # o => Paired(g', q)
  <2>1. \A q \in Outs : q # o => Paired(g, q)
    BY DEF Inv, PairsInv
  <2> QED BY Zenon, <2>1, OtherPairs
<1>4. IsStopped(g', o)
  BY <1>1 DEF OnlyPair, IsStopped
<1>5. CallInv'
  BY <1>4 DEF CallInv, Chosen
<1>6. PairsInv'
  BY <1>3 DEF PairsInv
<1> QED BY <1>2, <1>5, <1>6 DEF Inv

\* A pin that has nothing of another is in order.
LEMMA QuietIsPaired ==
  ASSUME NEW s, NEW o \in Outs, Quiet(s, o)
  PROVE  Paired(s, o)
BY DEF Quiet, Paired, HasType, IsConnected

\* To break a connection that is not there changes nothing the pins show.
LEMMA BrokenIsQuiet ==
  ASSUME NEW s, Whole(s), NEW o \in Outs, Quiet(s, o),
         NEW t, t = BreakConnect(s, o)
  PROVE  Whole(t) /\ OnlyPair(s, t, o) /\ Quiet(t, o)
<1>1. o \in Pins /\ Peer[o] \in Pins /\ Peer[o] # o
  BY Peers
<1>2. /\ Whole(t)
      /\ t.m_pAllocator = [s.m_pAllocator EXCEPT ![o] = None]
      /\ o \in Outs => t.m_pInputPin = [s.m_pInputPin EXCEPT ![o] = None]
      /\ t.m_Connected = s.m_Connected /\ t.m_mt = s.m_mt
  <2>1. Whole(t) /\ Broken(s, t, o)
    BY Zenon, <1>1, BreakConnectDoes
  <2> QED BY <2>1 DEF Broken
<1>3. OnlyPair(s, t, o)
  BY BreakConnectAtPair
<1>4. /\ s.m_pAllocator \in [Pins -> Pins \cup {None}]
      /\ s.m_pInputPin \in [Outs -> Ins \cup {None}]
  BY DEF Whole, Typed
<1> QED BY <1>1, <1>2, <1>3, <1>4 DEF Quiet, HasType, IsConnected

\* Connect gives up.
LEMMA FailIsQuiet ==
  ASSUME NEW s, Whole(s), NEW o \in Outs, call.out = o, Quiet(s, o),
         OnlyPair(g, s, o), NEW hr \in Codes, Fail(s, hr)
  PROVE  /\ Whole(g') /\ OnlyPair(g, g', o) /\ Paired(g', o)
         /\ place' = "idle" /\ call' = NoCall /\ result' \in Codes
<1>1. /\ g' = BreakConnect(s, o) /\ result' = hr
      /\ call' = NoCall /\ place' = "idle"
  BY DEF Fail
<1>2. Whole(g') /\ OnlyPair(s, g', o) /\ Quiet(g', o)
  BY Zenon, <1>1, BrokenIsQuiet
<1>3. OnlyPair(g, g', o)
  BY Zenon, <1>2, OnlyPairJoins
<1>4. Paired(g', o)
  BY Zenon, <1>2, QuietIsPaired
<1> QED BY <1>1, <1>2, <1>3, <1>4

LEMMA AttemptedIsQuiet ==
  ASSUME NEW s, Whole(s), NEW o \in Outs, call.out = o, HasType(s, Peer[o]),
         OnlyPair(g, s, o), NEW hr \in Codes, Attempted(s, hr)
  PROVE  /\ Whole(g') /\ OnlyPair(g, g', o) /\ Quiet(g', o)
         /\ place' = "attempted" /\ result' \in Codes
<1>1. g' = Forget(BreakConnect(s, o), o) /\ result' = hr /\ place' = "attempted"
  BY DEF Attempted
<1>2. Whole(g') /\ OnlyPair(s, g', o) /\ Quiet(g', o)
  BY Zenon, <1>1, UndoneIsQuiet
<1>3. OnlyPair(g, g', o)
  BY Zenon, <1>2, OnlyPairJoins
<1> QED BY <1>1, <1>2, <1>3

LEMMA NoCallTyped == call' = NoCall => CallTyped' /\ call'.out = None
BY DEF CallTyped, CallFields, NoCall, Codes

LEMMA SamePair == \A s, o : OnlyPair(s, s, o)
BY DEF OnlyPair

-----------------------------------------------------------------------------
(* The steps of Connect.                                                   *)

LEMMA EnumerateKeeps ==
  ASSUME Inv, InputKept, Enumerate
  PROVE  Inv'
<1> DEFINE o == call.out
<1>1. /\ o \in Outs /\ Quiet(g, o) /\ Whole(g) /\ CallTyped /\ GraphTyped
      /\ place = "agree"
  BY DEF Inv, CallInv, Enumerate
<1>2. CASE call.round = 2
  <2>1. call.hrFailure \in Codes /\ Fail(g, call.hrFailure)
        /\ UNCHANGED <<offers, accepts, version>>
    BY <1>1, <1>2 DEF Enumerate, CallTyped
  <2>2. OnlyPair(g, g, o)
    BY SamePair
  <2>3. /\ Whole(g') /\ OnlyPair(g, g', o) /\ Paired(g', o)
        /\ place' = "idle" /\ call' = NoCall /\ result' \in Codes
    BY Zenon, <1>1, <2>1, <2>2, FailIsQuiet
  <2>4. CallTyped' /\ call'.out = None
    BY <2>3, NoCallTyped
  <2>5. GraphTyped'
    BY <1>1, <2>1, <2>3 DEF GraphTyped
  <2> QED BY <1>1, <2>3, <2>4, <2>5, CallStep
<1>3. CASE call.round # 2
  <2>1. /\ place' = "next"
        /\ UNCHANGED <<g, result, offers, accepts, version>>
        /\ call' = [call EXCEPT !.pos = 0, !.roundFailure = "S_OK",
                                !.seen = VersionOf(EnumPin(call.out, call.round))]
    BY <1>3 DEF Enumerate
  <2>2. CallTyped' /\ call'.out = o
    BY <1>1, <2>1 DEF CallTyped, CallFields, Codes
  <2>3. GraphTyped'
    BY <1>1, <2>1 DEF GraphTyped
  <2>4. OnlyPair(g, g', o) /\ Quiet(g', o) /\ Whole(g')
    BY <1>1, <2>1, SamePair
  <2> QED BY <1>1, <2>1, <2>2, <2>3, <2>4, CallStep DEF Chosen
<1> QED BY <1>2, <1>3

LEMMA EnumerateFailsKeeps ==
  ASSUME Inv, InputKept, EnumerateFails
  PROVE  Inv'
<1> DEFINE o == call.out
<1>1. /\ o \in Outs /\ Quiet(g, o) /\ Whole(g) /\ CallTyped /\ GraphTyped
      /\ place = "agree" /\ place' = "agree"
      /\ UNCHANGED <<g, result, offers, accepts, version>>
      /\ call' = [call EXCEPT !.round = call.round + 1]
  BY DEF Inv, CallInv, EnumerateFails
<1>2. CallTyped' /\ call'.out = o
  BY <1>1 DEF CallTyped, CallFields
<1>3. GraphTyped'
  BY <1>1 DEF GraphTyped
<1>4. OnlyPair(g, g', o) /\ Quiet(g', o) /\ Whole(g')
  BY <1>1, SamePair
<1> QED BY <1>1, <1>2, <1>3, <1>4, CallStep DEF Chosen

\* Every pin that is connected has a type, also during a call.
LEMMA AllHaveTypes ==
  ASSUME Inv
  PROVE  \A p \in Pins : HasType(g, p)
<1>1. ASSUME NEW o \in Outs PROVE HasType(g, o) /\ HasType(g, Peer[o])
  <2>1. CASE o # call.out
    BY <2>1 DEF Inv, PairsInv, Paired
  <2>2. CASE o = call.out
    <3>1. place # "idle"
      BY <2>2, NoPinIsNone DEF Inv, CallInv
    <3>2. \/ Quiet(g, o)
          \/ Begun(g, o, call.type) /\ call.type \in Types
      BY <2>2, <3>1 DEF Inv, CallInv, GraphTyped, Joined, Chosen
    <3> QED BY <3>2 DEF Quiet, Begun, HasType
  <2> QED BY <2>1, <2>2
<1> QED BY <1>1, EveryPin

\* What an enumerator returns is a media type.
LEMMA TypesOfAreTypes ==
  ASSUME Inv, NEW p \in Pins, NEW n \in Nat, n < Len(TypesOf(g, p))
  PROVE  TypesOf(g, p)[n + 1] \in Types
<1>1. CASE p = "source"
  <2>1. TypesOf(g, p) = offers
    BY <1>1 DEF TypesOf
  <2>2. offers \in SourceOffers
    BY DEF Inv, GraphTyped
  <2>3. n + 1 \in DOMAIN offers
    BY <2>1, <2>2, TypesAreTypes
  <2> QED BY <2>1, <2>2, <2>3, TypesAreTypes
<1>2. CASE p = "xformOut" /\ IsConnected(g, "xformIn")
  <2>1. TypesOf(g, p) = <<Fake(g.m_mt["xformIn"])>>
    BY <1>2 DEF TypesOf
  <2>2. g.m_mt["xformIn"] \in Types
    <3>1. "xformIn" \in Pins
      BY DEF Pins, Ins
    <3> QED BY <1>2, <3>1, AllHaveTypes DEF HasType
  <2>3. Fake(g.m_mt["xformIn"]) \in Types
    BY <2>2, TypesAreTypes
  <2>4. n = 0
    BY <2>1
  <2> QED BY <2>1, <2>3, <2>4
<1>3. CASE p # "source" /\ ~(p = "xformOut" /\ IsConnected(g, "xformIn"))
  <2>1. TypesOf(g, p) = <<>>
    BY <1>3 DEF TypesOf
  <2> QED BY <2>1
<1> QED BY <1>1, <1>2, <1>3

LEMMA NextTypeKeeps ==
  ASSUME Inv, InputKept, NextType
  PROVE  Inv'
<1> DEFINE o == call.out
           p == EnumPin(call.out, call.round)
           hr == IF call.roundFailure = "S_OK" THEN "NO_ACCEPTABLE_TYPES"
                 ELSE call.roundFailure
<1>1. /\ o \in Outs /\ Quiet(g, o) /\ Whole(g) /\ CallTyped /\ GraphTyped
      /\ place = "next"
      /\ UNCHANGED <<g, result, offers, accepts, version>>
  BY DEF Inv, CallInv, NextType
<1>2. OnlyPair(g, g', o) /\ Quiet(g', o) /\ Whole(g')
  BY <1>1, SamePair
<1>3. GraphTyped' <=> place' \in {"idle", "agree", "next", "attempt", "receive",
                                  "allocate", "init", "undo", "attempted"}
  BY <1>1 DEF GraphTyped
<1>4. p \in Pins
  BY <1>1, Peers DEF EnumPin
<1>5. CASE call.seen = VersionOf(p) /\ call.pos < Len(TypesOf(g, p))
  <2> DEFINE y == TypesOf(g, p)[call.pos + 1]
  <2>1. /\ place' = "attempt" \/ place' = "next"
        /\ call' = [call EXCEPT !.pos = call.pos + 1,
                                !.type = y]
    BY <1>5 DEF NextType
  <2>2. y \in Types
    BY <1>1, <1>4, <1>5, TypesOfAreTypes DEF CallTyped
  <2> HIDE DEF p, y
  <2>3. /\ call' = [x \in CallFields |-> call'[x]]
        /\ call'.pos = call.pos + 1 /\ call'.type = y /\ call'.out = call.out
        /\ call'.pmt = call.pmt /\ call'.hrFailure = call.hrFailure
        /\ call'.roundFailure = call.roundFailure
    <3>1. call = [x \in CallFields |-> call[x]]
      BY <1>1 DEF CallTyped
    <3> QED BY <2>1, <3>1 DEF CallFields
  <2>4. call.pos + 1 \in Nat
    BY <1>1 DEF CallTyped
  <2>5. CallTyped'
    BY <1>1, <2>3, <2>4 DEF CallTyped
  <2> QED BY <1>1, <1>2, <1>3, <2>1, <2>2, <2>3, <2>5, CallStep
<1>6. CASE ~(call.seen = VersionOf(p) /\ call.pos < Len(TypesOf(g, p)))
  <2>1. /\ place' = "agree"
        /\ call' = [call EXCEPT !.round = call.round + 1,
                                !.hrFailure = IF Telling(hr) THEN hr
                                              ELSE call.hrFailure]
    BY <1>6 DEF NextType
  <2>2. hr \in Codes
    BY <1>1 DEF CallTyped, Codes
  <2> HIDE DEF p, hr
  <2>3. CallTyped' /\ call'.out = o
    BY <1>1, <2>1, <2>2 DEF CallTyped, CallFields
  <2> QED BY <1>1, <1>2, <1>3, <2>1, <2>3, CallStep DEF Chosen
<1> QED BY <1>5, <1>6

LEMMA AfterAttemptKeeps ==
  ASSUME Inv, InputKept, AfterAttempt
  PROVE  Inv'
<1> DEFINE o == call.out
<1>1. /\ o \in Outs /\ Quiet(g, o) /\ Whole(g) /\ CallTyped /\ GraphTyped
      /\ place = "attempted" /\ UNCHANGED <<offers, accepts, version>>
  BY DEF Inv, CallInv, AfterAttempt
<1>2. CASE call.pmt # NoType
  <2>1. result \in Codes /\ Fail(g, result)
    BY <1>1, <1>2 DEF AfterAttempt, GraphTyped
  <2>2. OnlyPair(g, g, o)
    BY SamePair
  <2>3. /\ Whole(g') /\ OnlyPair(g, g', o) /\ Paired(g', o)
        /\ place' = "idle" /\ call' = NoCall /\ result' \in Codes
    BY Zenon, <1>1, <2>1, <2>2, FailIsQuiet
  <2>4. CallTyped' /\ call'.out = None
    BY <2>3, NoCallTyped
  <2>5. GraphTyped'
    BY <1>1, <2>3 DEF GraphTyped
  <2> QED BY <1>1, <2>3, <2>4, <2>5, CallStep
<1>3. CASE call.pmt = NoType
  <2>1. /\ place' = "next" /\ UNCHANGED <<g, result>>
        /\ call' = [call EXCEPT !.roundFailure =
                      IF call.roundFailure = "S_OK" /\ Telling(result)
                      THEN result ELSE call.roundFailure]
    BY <1>3 DEF AfterAttempt
  <2>2. CallTyped' /\ call'.out = o
    BY <1>1, <2>1 DEF CallTyped, CallFields, GraphTyped
  <2>3. GraphTyped'
    BY <1>1, <2>1 DEF GraphTyped
  <2>4. OnlyPair(g, g', o) /\ Quiet(g', o) /\ Whole(g')
    BY <1>1, <2>1, SamePair
  <2> QED BY <1>1, <2>1, <2>2, <2>3, <2>4, CallStep DEF Chosen
<1> QED BY <1>2, <1>3

\* A call that takes no more than the members along with its place.
LEMMA SameCall ==
  ASSUME Inv, call.out \in Outs, UNCHANGED <<offers, accepts, version>>,
         call' = call \/ call' = NoCall, result' \in Codes,
         place' \in {"idle", "receive", "allocate", "init", "undo", "attempted"}
  PROVE  CallTyped' /\ GraphTyped'
<1>1. CallTyped'
  BY NoCallTyped DEF Inv, CallTyped
<1>2. GraphTyped'
  BY DEF Inv, GraphTyped
<1> QED BY <1>1, <1>2

\* An attempt fails in a step of the call.
LEMMA AttemptedKeeps ==
  ASSUME Inv, InputKept, NEW o \in Outs, call.out = o, place \in Chosen,
         NEW s, Whole(s), HasType(s, Peer[o]), OnlyPair(g, s, o),
         NEW hr \in Codes, Attempted(s, hr),
         UNCHANGED <<offers, accepts, version, call>>
  PROVE  Inv'
<1>1. /\ Whole(g') /\ OnlyPair(g, g', o) /\ Quiet(g', o)
      /\ place' = "attempted" /\ result' \in Codes
  BY Zenon, AttemptedIsQuiet
<1>2. CallTyped' /\ GraphTyped'
  BY <1>1, SameCall
<1>3. call'.type \in Types /\ call'.out = o /\ place # "idle"
  BY DEF Inv, CallInv, Chosen
<1> QED BY <1>1, <1>2, <1>3, CallStep

LEMMA AttemptKeeps ==
  ASSUME Inv, InputKept, Attempt
  PROVE  Inv'
<1> DEFINE o == call.out
           i == Peer[o]
           y == call.type
           s1 == [g EXCEPT !.m_pInputPin[o] = i, !.pinRefs[i] = @ + 1]
           s2 == [Remember(s1, o, i) EXCEPT !.m_mt[o] = y]
<1>1. /\ o \in Outs /\ Quiet(g, o) /\ Whole(g) /\ place = "attempt"
      /\ place \in Chosen /\ y \in Types /\ OnlyPair(g, g, o)
      /\ UNCHANGED <<offers, accepts, version, call>>
  BY SamePair DEF Inv, CallInv, Attempt, Chosen
<1>2. /\ o \in Pins /\ o \notin Ins /\ i \in Pins /\ i \in Ins /\ i # o
      /\ i \notin Outs
  BY <1>1, Peers
<1>3. /\ g.m_pInputPin \in [Outs -> Ins \cup {None}]
      /\ g.pinRefs \in [Pins -> Int] /\ Typed(g) /\ IsRecord(g)
      /\ g.m_Connected \in [Pins -> Pins \cup {None}]
      /\ g.m_mt \in [Pins -> Types \cup {NoType}]
  BY <1>1 DEF Whole, Typed
<1>4. /\ IsRecord(s1)
      /\ s1.m_pInputPin = [g.m_pInputPin EXCEPT ![o] = i]
      /\ s1.pinRefs = [g.pinRefs EXCEPT ![i] = g.pinRefs[i] + 1]
      /\ s1.m_State = g.m_State /\ s1.m_Connected = g.m_Connected
      /\ s1.m_mt = g.m_mt /\ s1.m_pAllocator = g.m_pAllocator
      /\ s1.committed = g.committed /\ s1.allocRefs = g.allocRefs
  BY <1>3 DEF IsRecord, Fields
<1> HIDE DEF s1
<1>5. Whole(s1)
  <2>1. Typed(s1)
    <3>1. s1.m_pInputPin \in [Outs -> Ins \cup {None}]
      <4>1. i \in Ins \cup {None}
        BY <1>2
      <4> QED BY <1>3, <1>4, <4>1
    <3>2. s1.pinRefs \in [Pins -> Int]
      <4> DEFINE n == g.pinRefs[i] + 1
      <4>1. n \in Int /\ g.pinRefs \in [Pins -> Int]
        BY <1>2, <1>3
      <4>2. s1.pinRefs = [g.pinRefs EXCEPT ![i] = n]
        BY <1>4
      <4> HIDE DEF n
      <4> QED BY <4>1, <4>2
    <3> QED BY <1>3, <1>4, <3>1, <3>2 DEF Typed
  <2>2. ASSUME NEW q \in Pins
        PROVE  s1.pinRefs[q] = g.pinRefs[q] + (IF i = q THEN 1 ELSE 0)
                               - (IF g.m_pInputPin[o] = q THEN 1 ELSE 0)
    BY <1>1, <1>2, <1>3, <1>4, NoPinIsNone DEF Quiet
  <2>3. InputPinMoved(g, s1, o, i)
    BY <1>4, <2>1, <2>2 DEF InputPinMoved
  <2> QED BY Zenon, <1>1, <2>3, InputPinMoves
<1>6. OnlyPair(g, s1, o) /\ HasType(s1, i) /\ ~IsConnected(s1, o)
  <2>1. OnlyPair(g, s1, o)
    BY <1>3, <1>4 DEF OnlyPair
  <2> QED BY <1>1, <1>4, <2>1 DEF Quiet, HasType, IsConnected
<1> DEFINE r == Remember(s1, o, i)
<1>7. Whole(r) /\ PeerSet(s1, r, o, i)
  BY Zenon, <1>2, <1>5, <1>6, RememberDoes
<1> HIDE DEF r
<1>8. Whole(s2) /\ PeerAndTypeSet(s1, s2, o, i, y)
  <2>1. s2 = [r EXCEPT !.m_mt[o] = y]
    BY DEF r
  <2> QED BY Zenon, <1>1, <1>2, <1>7, <2>1, SetTypeDoes
<1> HIDE DEF s2
<1>9. OnlyPair(g, r, o) /\ HasType(r, i)
  <2>1. OnlyPair(g, r, o)
    BY <1>3, <1>4, <1>7 DEF OnlyPair, PeerSet
  <2>2. HasType(r, i)
    BY <1>2, <1>3, <1>4, <1>6, <1>7 DEF HasType, IsConnected, PeerSet
  <2> QED BY <2>1, <2>2
<1>10. OnlyPair(g, s2, o) /\ Begun(s2, o, y)
  <2>1. OnlyPair(g, s2, o)
    BY <1>3, <1>4, <1>8 DEF OnlyPair, PeerAndTypeSet
  <2>2. s2.m_Connected[o] = i /\ s2.m_mt[o] = y /\ s2.m_pInputPin[o] = i
        /\ s2.m_pAllocator[o] = None
    BY <1>1, <1>2, <1>3, <1>4, <1>8 DEF Quiet, PeerAndTypeSet
  <2>3. HasType(s2, i)
    BY <1>2, <1>3, <1>4, <1>6, <1>8 DEF HasType, IsConnected, PeerAndTypeSet
  <2>4. i # None
    BY <1>2, NoPinIsNone
  <2> QED BY <2>1, <2>2, <2>3, <2>4 DEF Begun, IsConnected
<1>11. \/ Attempted(g, "OTHER") \/ Attempted(r, "OTHER")
       \/ Attempted(s1, "TYPE_NOT_ACCEPTED")
       \/ g' = s2 /\ place' = "receive" /\ UNCHANGED result
  BY Zenon DEF Attempt, s1, s2, r
<1>12. "OTHER" \in Codes /\ "TYPE_NOT_ACCEPTED" \in Codes
  BY DEF Codes
<1>13. CASE Attempted(g, "OTHER")
  <2>1. HasType(g, i)
    BY <1>1 DEF Quiet
  <2> QED BY Zenon, <1>1, <1>13, <1>12, <2>1, AttemptedKeeps
<1>14. CASE Attempted(r, "OTHER")
  BY Zenon, <1>1, <1>7, <1>9, <1>14, <1>12, AttemptedKeeps
<1>15. CASE Attempted(s1, "TYPE_NOT_ACCEPTED")
  BY Zenon, <1>1, <1>5, <1>6, <1>15, <1>12, AttemptedKeeps
<1>16. CASE g' = s2 /\ place' = "receive" /\ UNCHANGED result
  <2>1. result' \in Codes
    BY <1>16 DEF Inv, GraphTyped
  <2>2. CallTyped' /\ GraphTyped'
    BY <1>1, <1>16, <2>1, SameCall
  <2>3. Whole(g') /\ OnlyPair(g, g', o) /\ Begun(g', o, y)
    BY <1>10, <1>16, <1>8
  <2>4. place' = "receive" /\ call'.out = o /\ call'.type = y /\ place # "idle"
    BY <1>1, <1>16
  <2> QED BY <1>1, <2>2, <2>3, <2>4, CallStep
<1> QED BY <1>11, <1>13, <1>14, <1>15, <1>16

\* The receiving pin is asked.
LEMMA ReceiveKeeps ==
  ASSUME Inv, InputKept, Receive
  PROVE  Inv'
<1> DEFINE o == call.out
           i == Peer[o]
           y == call.type
           r == Remember(g, i, o)
           accepted == [r EXCEPT !.m_mt[i] = y]
<1>1. /\ o \in Outs /\ Begun(g, o, y) /\ Whole(g) /\ place = "receive"
      /\ place \in Chosen /\ y \in Types /\ OnlyPair(g, g, o)
      /\ UNCHANGED <<offers, accepts, version, call>>
  BY SamePair DEF Inv, CallInv, Receive, Chosen
<1>2. o \in Pins /\ i \in Pins /\ i \in {o, Peer[o]} /\ i # o /\ o # None
  BY <1>1, Peers, NoPinIsNone
<1>3. HasType(g, i) /\ IsConnected(g, o)
  BY <1>1 DEF Begun
<1>4. /\ "ALREADY_CONNECTED" \in Codes /\ "NOT_STOPPED" \in Codes
      /\ "OTHER" \in Codes /\ "TYPE_NOT_ACCEPTED" \in Codes
  BY DEF Codes
<1>5. \/ Attempted(g, "ALREADY_CONNECTED") \/ Attempted(g, "NOT_STOPPED")
      \/ /\ ~IsConnected(g, i)
         /\ \/ Attempted(BreakConnect(g, i), "OTHER")
            \/ Attempted(BreakConnect(g, i), "TYPE_NOT_ACCEPTED")
            \/ /\ CheckMediaType(g, i, y) /\ g' = accepted
               /\ place' = "allocate" /\ UNCHANGED result
            \/ Attempted(BreakConnect(Forget(accepted, i), i), "OTHER")
  BY DEF Receive
<1>6. CASE Attempted(g, "ALREADY_CONNECTED") \/ Attempted(g, "NOT_STOPPED")
  BY Zenon, <1>1, <1>3, <1>4, <1>6, AttemptedKeeps
<1>7. CASE /\ ~IsConnected(g, i)
           /\ \/ Attempted(BreakConnect(g, i), "OTHER")
              \/ Attempted(BreakConnect(g, i), "TYPE_NOT_ACCEPTED")
  <2> DEFINE b == BreakConnect(g, i)
  <2>1. Whole(b) /\ OnlyPair(g, b, o)
    BY Zenon, <1>1, <1>2, BreakConnectAtPair
  <2>2. HasType(b, i)
    <3>1. Broken(g, b, i)
      BY Zenon, <1>1, <1>2, BreakConnectDoes
    <3> QED BY <1>7, <3>1 DEF HasType, IsConnected, Broken
  <2>3. Attempted(b, "OTHER") \/ Attempted(b, "TYPE_NOT_ACCEPTED")
    BY <1>7
  <2> HIDE DEF b
  <2> QED BY Zenon, <1>1, <1>4, <2>1, <2>2, <2>3, AttemptedKeeps
<1>8. ASSUME ~IsConnected(g, i)
      PROVE  /\ Whole(accepted) /\ PeerAndTypeSet(g, accepted, i, o, y)
             /\ OnlyPair(g, accepted, o)
  <2>1. Whole(r) /\ PeerSet(g, r, i, o)
    BY Zenon, <1>1, <1>2, <1>8, RememberDoes
  <2> HIDE DEF r
  <2>2. Whole(accepted) /\ PeerAndTypeSet(g, accepted, i, o, y)
    BY Zenon, <1>1, <1>2, <2>1, SetTypeDoes
  <2> HIDE DEF accepted
  <2>3. /\ g.m_Connected \in [Pins -> Pins \cup {None}]
        /\ g.m_mt \in [Pins -> Types \cup {NoType}]
    BY <1>1 DEF Whole, Typed
  <2>4. OnlyPair(g, accepted, o)
    BY <2>2, <2>3 DEF OnlyPair, PeerAndTypeSet
  <2> QED BY <2>2, <2>4
<1>9. CASE /\ ~IsConnected(g, i) /\ CheckMediaType(g, i, y) /\ g' = accepted
           /\ place' = "allocate" /\ UNCHANGED result
  <2> HIDE DEF accepted
  <2>1. /\ g.m_Connected \in [Pins -> Pins \cup {None}]
        /\ g.m_mt \in [Pins -> Types \cup {NoType}]
    BY <1>1 DEF Whole, Typed
  <2>2. /\ Whole(g') /\ OnlyPair(g, g', o) /\ PeerAndTypeSet(g, g', i, o, y)
    BY <1>8, <1>9
  <2>3. /\ g'.m_Connected[i] = o /\ g'.m_mt[i] = y
        /\ g'.m_Connected[o] = g.m_Connected[o] /\ g'.m_mt[o] = g.m_mt[o]
        /\ g'.m_pInputPin = g.m_pInputPin /\ g'.m_pAllocator = g.m_pAllocator
    BY <1>2, <2>1, <2>2 DEF PeerAndTypeSet
  <2>4. i = "xformIn" => y.kind \in VideoInfo
    BY <1>9 DEF CheckMediaType
  <2>5. Joined(g', o, y)
    BY <1>1, <1>2, <2>3, <2>4 DEF Joined, Begun, HasType, IsConnected
  <2>6. result' \in Codes
    BY <1>9 DEF Inv, GraphTyped
  <2>7. CallTyped' /\ GraphTyped'
    BY <1>1, <1>9, <2>6, SameCall
  <2>8. place' = "allocate" /\ call'.out = o /\ call'.type = y /\ place # "idle"
    BY <1>1, <1>9
  <2> QED BY <1>1, <2>2, <2>5, <2>7, <2>8, CallStep
<1>10. CASE /\ ~IsConnected(g, i)
            /\ Attempted(BreakConnect(Forget(accepted, i), i), "OTHER")
  <2> DEFINE f == Forget(accepted, i)
             b == BreakConnect(f, i)
  <2>1. Whole(accepted) /\ OnlyPair(g, accepted, o)
    BY <1>8, <1>10
  <2>2. Attempted(b, "OTHER")
    BY <1>10
  <2> HIDE DEF accepted
  <2>3. Whole(f) /\ Forgotten(accepted, f, i)
    BY Zenon, <1>2, <2>1, ForgetDoes
  <2>4. OnlyPair(accepted, f, o)
    BY Zenon, <1>1, <1>2, <2>1, ForgetAtPair
  <2> HIDE DEF f
  <2>5. Whole(b) /\ OnlyPair(f, b, o)
    BY Zenon, <1>1, <1>2, <2>3, BreakConnectAtPair
  <2>6. Broken(f, b, i)
    BY Zenon, <1>2, <2>3, BreakConnectDoes
  <2> HIDE DEF b
  <2>7. OnlyPair(g, b, o)
    BY Zenon, <2>1, <2>4, <2>5, OnlyPairJoins
  <2>8. HasType(b, i)
    <3>1. accepted.m_Connected \in [Pins -> Pins \cup {None}]
      BY <2>1 DEF Whole, Typed
    <3> QED BY <1>2, <2>3, <2>6, <3>1
             DEF Forgotten, HasType, IsConnected, Broken
  <2> QED BY Zenon, <1>1, <1>4, <2>2, <2>5, <2>7, <2>8, AttemptedKeeps
<1> QED BY <1>5, <1>6, <1>7, <1>9, <1>10

-----------------------------------------------------------------------------
(* The allocators.                                                         *)

LEMMA GetAllocatorDoes ==
  ASSUME NEW s, Whole(s), NEW p \in Pins, NEW t, t = GetAllocator(s, p)
  PROVE  /\ Whole(t) /\ t.m_pAllocator[p] \in Pins
         /\ AllocatorSet(s, t, p, t.m_pAllocator[p])
<1>1. s.m_pAllocator \in [Pins -> Pins \cup {None}]
  BY DEF Whole, Typed
<1>2. CASE s.m_pAllocator[p] = None
  <2>1. t = TakeAllocator(s, p, p)
    BY <1>2 DEF GetAllocator, TakeAllocator
  <2>2. Whole(t) /\ AllocatorSet(s, t, p, p)
    BY Zenon, <1>2, <2>1, TakeAllocatorDoes
  <2>3. t.m_pAllocator[p] = p
    BY <1>1, <2>2 DEF AllocatorSet
  <2> QED BY <2>2, <2>3
<1>3. CASE s.m_pAllocator[p] # None
  <2>1. t = s
    BY <1>3 DEF GetAllocator
  <2>2. s.m_pAllocator = [s.m_pAllocator EXCEPT ![p] = s.m_pAllocator[p]]
    BY <1>1
  <2>3. s.m_pAllocator[p] \in Pins
    BY <1>1, <1>3
  <2> QED BY <2>1, <2>2, <2>3 DEF AllocatorSet
<1> QED BY <1>2, <1>3

\* t is s but for the allocators of the two pins.
SamePins(s, t, o) ==
  /\ OnlyPair(s, t, o) /\ t.m_Connected = s.m_Connected
  /\ t.m_mt = s.m_mt /\ t.m_pInputPin = s.m_pInputPin

\* In u the pin p has a and the others what they have in t.
Has(t, u, p, a) ==
  /\ u.m_pAllocator[p] = a
  /\ \A q \in Pins : q # p => u.m_pAllocator[q] = t.m_pAllocator[q]

LEMMA AllocatorAtPair ==
  ASSUME NEW s, NEW t, NEW u, NEW o \in Outs, NEW p \in {o, Peer[o]}, NEW a,
         Whole(t), SamePins(s, t, o), AllocatorSet(t, u, p, a)
  PROVE  SamePins(s, u, o) /\ Has(t, u, p, a)
<1>1. t.m_pAllocator \in [Pins -> Pins \cup {None}] /\ p \in Pins
  BY Peers DEF Whole, Typed
<1>2. /\ u.m_pAllocator[p] = a
      /\ \A q \in Pins : q # p => u.m_pAllocator[q] = t.m_pAllocator[q]
  BY <1>1 DEF AllocatorSet
<1>3. OnlyPair(t, u, o)
  BY <1>1, <1>2 DEF AllocatorSet, OnlyPair
<1>4. OnlyPair(s, u, o)
  BY Zenon, <1>3, OnlyPairJoins DEF SamePins
<1> QED BY <1>2, <1>4 DEF SamePins, AllocatorSet, Has

\* The two pins have agreed on an allocator.
LEMMA SucceedKeeps ==
  ASSUME Inv, InputKept, NEW o \in Outs, call.out = o, Joined(g, o, call.type),
         place # "idle", NEW t, Whole(t), SamePins(g, t, o),
         t.m_pAllocator[o] \in Pins,
         t.m_pAllocator[Peer[o]] = t.m_pAllocator[o],
         Succeed(t), UNCHANGED <<offers, accepts, version>>
  PROVE  Inv'
<1>1. /\ g' = t /\ result' = "S_OK" /\ call' = NoCall /\ place' = "idle"
  BY DEF Succeed
<1>2. Paired(t, o)
  <2>1. /\ IsConnected(t, o) /\ t.m_mt[o] = call.type
        /\ t.m_pInputPin[o] = Peer[o] /\ HasType(t, Peer[o])
        /\ t.m_mt[Peer[o]] = call.type
        /\ Peer[o] = "xformIn" => call.type.kind \in VideoInfo
    BY DEF Joined, Begun, SamePins, IsConnected, HasType
  <2>2. call.type \in Types
    BY <2>1 DEF Joined, Begun, HasType, IsConnected, SamePins
  <2>3. t.m_pAllocator[o] # None
    BY NoPinIsNone
  <2> QED BY <2>1, <2>2, <2>3 DEF Paired, HasType
<1>3. "S_OK" \in Codes
  BY DEF Codes
<1>4. CallTyped' /\ GraphTyped' /\ call'.out = None
  BY <1>1, <1>3, SameCall, NoCallTyped
<1>5. Whole(g') /\ OnlyPair(g, g', o) /\ Paired(g', o)
  BY <1>1, <1>2 DEF SamePins
<1> QED BY <1>1, <1>4, <1>5, CallStep

\* They have not, and the call goes on with the output pin without one.
LEMMA JoinedKeeps ==
  ASSUME Inv, InputKept, NEW o \in Outs, call.out = o, Joined(g, o, call.type),
         place \in Chosen, Whole(g'), SamePins(g, g', o),
         g'.m_pAllocator[o] = None, place' \in {"init", "undo"},
         UNCHANGED <<result, call, offers, accepts, version>>
  PROVE  Inv'
<1>1. Joined(g', o, call.type)
  BY DEF Joined, Begun, SamePins, IsConnected, HasType
<1>2. result' \in Codes
  BY DEF Inv, GraphTyped
<1>3. CallTyped' /\ GraphTyped'
  BY <1>2, SameCall
<1>4. OnlyPair(g, g', o) /\ place # "idle" /\ call.type \in Types
  BY DEF SamePins, Inv, CallInv, Chosen
<1> QED BY <1>1, <1>3, <1>4, CallStep

\* The receiver's allocator, then the output pin's own one.
LEMMA DecideAllocatorKeeps ==
  ASSUME Inv, InputKept, DecideAllocator
  PROVE  Inv'
<1> DEFINE o == call.out
           i == Peer[o]
           s1 == GetAllocator(g, i)
           a == s1.m_pAllocator[i]
           s2 == TakeAllocator(s1, o, a)
           n == NotifyAllocator(s2, i, a)
           r == ReleaseAllocator(s2, o)
<1>1. /\ o \in Outs /\ Joined(g, o, call.type) /\ Whole(g)
      /\ place = "allocate" /\ place \in Chosen /\ place # "idle"
      /\ UNCHANGED <<offers, accepts, version>>
  BY DEF Inv, CallInv, DecideAllocator, Chosen
<1>2. /\ o \in Pins /\ i \in Pins /\ i # o /\ o \in {o, Peer[o]}
      /\ i \in {o, Peer[o]}
  BY <1>1, Peers
<1>3. SamePins(g, g, o) /\ g.m_pAllocator[o] = None
  BY <1>1, SamePair DEF SamePins, Joined, Begun
<1>4. \/ Succeed(n)
      \/ g' = r /\ place' = "init" /\ UNCHANGED <<result, call>>
  BY DEF DecideAllocator, TakeAllocator
<1>5. Whole(s1) /\ a \in Pins /\ AllocatorSet(g, s1, i, a)
  BY Zenon, <1>1, <1>2, GetAllocatorDoes
<1>6. s2 = TakeAllocator(s1, o, a)
  OBVIOUS
<1> HIDE DEF s1, a, s2
<1>7. SamePins(g, s1, o) /\ s1.m_pAllocator[o] = None
  <2>1. SamePins(g, s1, o) /\ Has(g, s1, i, a)
    BY Zenon, <1>1, <1>2, <1>3, <1>5, AllocatorAtPair
  <2> QED BY <1>2, <1>3, <2>1 DEF Has
<1>8. Whole(s2) /\ AllocatorSet(s1, s2, o, a)
  BY Zenon, <1>2, <1>5, <1>6, <1>7, TakeAllocatorDoes
<1>9. SamePins(g, s2, o) /\ s2.m_pAllocator[o] = a
  <2>1. SamePins(g, s2, o) /\ Has(s1, s2, o, a)
    BY Zenon, <1>1, <1>2, <1>5, <1>7, <1>8, AllocatorAtPair
  <2> QED BY <2>1 DEF Has
<1>10. CASE Succeed(n)
  <2>1. Whole(n) /\ AllocatorSet(s2, n, i, a)
    <3>1. Whole(s2) /\ i \in Pins /\ a \in Pins
      BY <1>2, <1>5, <1>8
    <3>2. n = NotifyAllocator(s2, i, a)
      OBVIOUS
    <3> HIDE DEF n, i
    <3> QED BY Zenon, <3>1, <3>2, NotifyAllocatorDoes
  <2> HIDE DEF n
  <2>2. SamePins(g, n, o) /\ Has(s2, n, i, a)
    <3>1. /\ o \in Outs /\ i \in {o, Peer[o]} /\ Whole(s2)
          /\ SamePins(g, s2, o) /\ AllocatorSet(s2, n, i, a)
      BY <1>1, <1>2, <1>8, <1>9, <2>1
    <3> HIDE DEF i, o
    <3> QED BY <3>1, AllocatorAtPair
  <2>3. n.m_pAllocator[o] \in Pins /\ n.m_pAllocator[i] = n.m_pAllocator[o]
    BY <1>2, <1>5, <1>9, <2>2 DEF Has
  <2> QED BY Zenon, <1>1, <1>10, <2>1, <2>2, <2>3, SucceedKeeps
<1>11. CASE g' = r /\ place' = "init" /\ UNCHANGED <<result, call>>
  <2>1. s2.m_pAllocator[o] # None
    BY <1>5, <1>9, NoPinIsNone
  <2>2. Whole(r) /\ AllocatorSet(s2, r, o, None)
    BY Zenon, <1>2, <1>8, <2>1, ReleaseAllocatorDoes
  <2> HIDE DEF r
  <2>3. SamePins(g, r, o) /\ Has(s2, r, o, None)
    BY Zenon, <1>1, <1>2, <1>8, <1>9, <2>2, AllocatorAtPair
  <2> QED BY <1>1, <1>11, <2>2, <2>3, JoinedKeeps DEF Has
<1> QED BY <1>4, <1>10, <1>11

LEMMA InitAllocatorKeeps ==
  ASSUME Inv, InputKept, InitAllocator
  PROVE  Inv'
<1> DEFINE o == call.out
           i == Peer[o]
           s1 == TakeAllocator(g, o, o)
           n == NotifyAllocator(s1, i, o)
           r == ReleaseAllocator(s1, o)
<1>1. /\ o \in Outs /\ Joined(g, o, call.type) /\ Whole(g)
      /\ place = "init" /\ place \in Chosen /\ place # "idle"
      /\ UNCHANGED <<offers, accepts, version>>
  BY DEF Inv, CallInv, InitAllocator, Chosen
<1>2. /\ o \in Pins /\ i \in Pins /\ i # o /\ o \in {o, Peer[o]}
      /\ i \in {o, Peer[o]} /\ o # None
  BY <1>1, Peers, NoPinIsNone
<1>3. SamePins(g, g, o) /\ g.m_pAllocator[o] = None
  BY <1>1, SamePair DEF SamePins, Joined, Begun
<1>4. \/ Succeed(n)
      \/ g' = r /\ place' = "undo" /\ UNCHANGED <<result, call>>
  BY DEF InitAllocator, TakeAllocator
<1>5. Whole(s1) /\ AllocatorSet(g, s1, o, o)
  BY Zenon, <1>1, <1>2, <1>3, TakeAllocatorDoes
<1> HIDE DEF s1
<1>6. SamePins(g, s1, o) /\ s1.m_pAllocator[o] = o
  <2>1. SamePins(g, s1, o) /\ Has(g, s1, o, o)
    BY Zenon, <1>1, <1>2, <1>3, <1>5, AllocatorAtPair
  <2> QED BY <2>1 DEF Has
<1>7. CASE Succeed(n)
  <2>1. Whole(n) /\ AllocatorSet(s1, n, i, o)
    BY Zenon, <1>2, <1>5, NotifyAllocatorDoes
  <2> HIDE DEF n
  <2>2. SamePins(g, n, o) /\ Has(s1, n, i, o)
    BY Zenon, <1>1, <1>2, <1>5, <1>6, <2>1, AllocatorAtPair
  <2>3. n.m_pAllocator[o] \in Pins /\ n.m_pAllocator[i] = n.m_pAllocator[o]
    BY <1>2, <1>6, <2>2 DEF Has
  <2> QED BY Zenon, <1>1, <1>7, <2>1, <2>2, <2>3, SucceedKeeps
<1>8. CASE g' = r /\ place' = "undo" /\ UNCHANGED <<result, call>>
  <2>1. s1.m_pAllocator[o] # None
    BY <1>2, <1>6
  <2>2. Whole(r) /\ AllocatorSet(s1, r, o, None)
    BY Zenon, <1>2, <1>5, <2>1, ReleaseAllocatorDoes
  <2> HIDE DEF r
  <2>3. SamePins(g, r, o) /\ Has(s1, r, o, None)
    BY Zenon, <1>1, <1>2, <1>5, <1>6, <2>2, AllocatorAtPair
  <2> QED BY <1>1, <1>8, <2>2, <2>3, JoinedKeeps DEF Has
<1> QED BY <1>4, <1>7, <1>8

-----------------------------------------------------------------------------
(* A pin is disconnected.                                                  *)

\* In t the pin p is not connected and holds nothing.
Disconnected(s, t, p) ==
  /\ t.m_Connected = [s.m_Connected EXCEPT ![p] = None]
  /\ \A q \in Pins : q # p => t.m_mt[q] = s.m_mt[q]
  /\ t.m_pAllocator = [s.m_pAllocator EXCEPT ![p] = None]
  /\ p \in Outs => t.m_pInputPin = [s.m_pInputPin EXCEPT ![p] = None]
  /\ p \in Ins => t.m_pInputPin = s.m_pInputPin
  /\ t.m_State = s.m_State /\ t.committed \subseteq s.committed

LEMMA DisconnectInternalDoes ==
  ASSUME NEW s, Whole(s), NEW o \in Outs, NEW p \in {o, Peer[o]},
         IsConnected(s, p), NEW t, t = DisconnectInternal(s, p)
  PROVE  Whole(t) /\ OnlyPair(s, t, o) /\ Disconnected(s, t, p)
<1> DEFINE b == BreakConnect(s, p)
<1>1. p \in Pins
  BY Peers
<1>2. t = Forget(b, p)
  BY DEF DisconnectInternal
<1>3. Whole(b) /\ Broken(s, b, p)
  BY Zenon, <1>1, BreakConnectDoes
<1>4. OnlyPair(s, b, o)
  BY Zenon, BreakConnectAtPair
<1> HIDE DEF b
<1>5. Whole(t) /\ Forgotten(b, t, p)
  BY Zenon, <1>1, <1>2, <1>3, ForgetDoes
<1>6. OnlyPair(b, t, o)
  BY Zenon, <1>2, <1>3, ForgetAtPair
<1>7. OnlyPair(s, t, o)
  BY Zenon, <1>4, <1>6, OnlyPairJoins
<1> QED BY <1>3, <1>5, <1>7 DEF Broken, Forgotten, Disconnected

\* The receiver is disconnected, unless its filter has been started meanwhile.
LEMMA UndoKeeps ==
  ASSUME Inv, InputKept, Undo
  PROVE  Inv'
<1> DEFINE o == call.out
           i == Peer[o]
           d == DisconnectInternal(g, i)
<1>1. /\ o \in Outs /\ Joined(g, o, call.type) /\ Whole(g)
      /\ place = "undo" /\ place \in Chosen /\ OnlyPair(g, g, o)
      /\ UNCHANGED <<offers, accepts, version, call>>
  BY SamePair DEF Inv, CallInv, Undo, Chosen
<1>2. i \in Pins /\ i \in {o, Peer[o]}
  BY <1>1, Peers
<1>3. HasType(g, i) /\ IsConnected(g, i)
  BY <1>1 DEF Joined, Begun
<1>4. "OTHER" \in Codes
  BY DEF Codes
<1>5. Attempted(d, "OTHER") \/ Attempted(g, "OTHER")
  BY DEF Undo
<1>6. CASE Attempted(d, "OTHER")
  <2>1. Whole(d) /\ OnlyPair(g, d, o) /\ Disconnected(g, d, i)
    BY Zenon, <1>1, <1>2, <1>3, DisconnectInternalDoes
  <2> HIDE DEF d
  <2>2. g.m_Connected \in [Pins -> Pins \cup {None}]
    BY <1>1 DEF Whole, Typed
  <2>3. HasType(d, i)
    BY <1>2, <2>1, <2>2 DEF HasType, IsConnected, Disconnected
  <2> QED BY Zenon, <1>1, <1>4, <1>6, <2>1, <2>3, AttemptedKeeps
<1>7. CASE Attempted(g, "OTHER")
  BY Zenon, <1>1, <1>3, <1>4, <1>7, AttemptedKeeps
<1> QED BY <1>5, <1>6, <1>7

\* Either end of a connection may be disconnected first: an output pin that is
\* left alone stays complete, and what is committed of the other filters is of
\* other pins than the one that lets go.
LEMMA DisconnectKeeps ==
  ASSUME Inv, InputKept, NEW p \in Pins, Disconnect(p)
  PROVE  Inv'
<1>1. /\ place = "idle" /\ IsConnected(g, p) /\ IsStopped(g, p)
      /\ g' = DisconnectInternal(g, p) /\ Whole(g)
      /\ UNCHANGED <<offers, accepts, version, call, place, result>>
  BY DEF Inv, Disconnect
<1>2. PICK o \in Outs : p \in {o, Peer[o]}
  BY EveryPin
<1>3. Whole(g') /\ OnlyPair(g, g', o) /\ Disconnected(g, g', p)
  BY Zenon, <1>1, <1>2, DisconnectInternalDoes
<1>4. /\ g.m_Connected \in [Pins -> Pins \cup {None}]
      /\ g.m_pAllocator \in [Pins -> Pins \cup {None}]
      /\ g.m_pInputPin \in [Outs -> Ins \cup {None}]
  BY <1>1 DEF Whole, Typed
<1>5. call.out = None /\ \A q \in Outs : Paired(g, q)
  BY <1>1, NoPinIsNone DEF Inv, CallInv, PairsInv
<1>6. Paired(g', o)
  <2>1. /\ o \in Pins /\ Peer[o] \in Pins /\ Peer[o] \in Ins /\ o # Peer[o]
        /\ Paired(g, o)
    BY <1>5, Peers
  <2>2. CASE p = o
    <3>1. /\ g'.m_Connected[o] = None /\ g'.m_pAllocator[o] = None
          /\ g'.m_pInputPin[o] = None
          /\ g'.m_Connected[Peer[o]] = g.m_Connected[Peer[o]]
          /\ g'.m_mt[Peer[o]] = g.m_mt[Peer[o]]
      BY <1>3, <1>4, <2>1, <2>2 DEF Disconnected
    <3> QED BY <2>1, <3>1 DEF Paired, HasType, IsConnected
  <2>3. CASE p = Peer[o]
    <3>1. /\ g'.m_Connected[Peer[o]] = None
          /\ g'.m_Connected[o] = g.m_Connected[o]
          /\ g'.m_mt[o] = g.m_mt[o] /\ g'.m_pInputPin = g.m_pInputPin
          /\ g'.m_pAllocator[o] = g.m_pAllocator[o]
      BY <1>3, <1>4, <2>1, <2>3 DEF Disconnected
    <3> QED BY <2>1, <3>1 DEF Paired, HasType, IsConnected
  <2> QED BY <1>2, <2>2, <2>3
<1>7. \A q \in Outs : Paired(g', q)
  <2>1. \A q \in Outs : q # o => Paired(g', q)
    BY Zenon, <1>3, <1>5, OtherPairs
  <2> QED BY <1>6, <2>1
<1>8. InUse(g')
  <2> SUFFICES ASSUME NEW a \in g'.committed PROVE \E q \in Outs : Uses(g', q, a)
    BY DEF InUse
  <2>1. PICK q \in Outs : Uses(g, q, a)
    BY <1>3 DEF Inv, InUse, Disconnected
  <2>2. q # p /\ q \in Pins
    BY <1>1, <2>1, Peers DEF IsStopped, Uses
  <2>3. /\ g'.m_pAllocator[q] = g.m_pAllocator[q]
        /\ g'.m_Connected[q] = g.m_Connected[q] /\ g'.m_State = g.m_State
    BY <1>3, <1>4, <2>2 DEF Disconnected
  <2>4. q = "xformOut" => IsConnected(g', "xformIn")
    BY <2>1 DEF Uses, InputKept, FilterOf
  <2> QED BY <2>1, <2>3, <2>4 DEF IsConnected, Uses
<1>9. CallInv'
  BY <1>1, <1>5 DEF CallInv, Chosen
<1>10. CallTyped' /\ GraphTyped'
  BY <1>1 DEF Inv, CallTyped, GraphTyped
<1> QED BY <1>3, <1>7, <1>8, <1>9, <1>10 DEF Inv, PairsInv

-----------------------------------------------------------------------------
(* The rest of the graph.                                                  *)

\* t has the pins of s.
AllPins(s, t) ==
  /\ t.m_Connected = s.m_Connected /\ t.m_mt = s.m_mt
  /\ t.m_pInputPin = s.m_pInputPin /\ t.m_pAllocator = s.m_pAllocator
  /\ t.pinRefs = s.pinRefs /\ t.allocRefs = s.allocRefs

\* A step that leaves the pins and the call alone.
LEMMA GraphStep ==
  ASSUME Inv, AllPins(g, g'), IsRecord(g'),
         g'.m_State \in [Filters -> {"stopped", "active"}],
         g'.committed \in SUBSET Pins, InUse(g'),
         call.out \in Outs => IsStopped(g', call.out),
         offers' \in SourceOffers, version' \in 1..MaxVersion,
         result' \in Codes, UNCHANGED <<accepts, call, place>>
  PROVE  Inv'
<1>1. Whole(g')
  <2>1. Typed(g')
    BY DEF Inv, Whole, Typed, AllPins
  <2>2. PinsBalance(g') /\ AllocsBalance(g')
    BY DEF Inv, Whole, PinsBalance, AllocsBalance, AllPins
  <2> QED BY <2>1, <2>2 DEF Whole
<1>2. CallTyped' /\ GraphTyped'
  BY DEF Inv, CallTyped, GraphTyped
<1>3. PairsInv'
  <2>1. ASSUME NEW o \in Outs, Paired(g, o)
        PROVE  Paired(g', o)
    BY <2>1 DEF Paired, HasType, IsConnected, AllPins
  <2> QED BY <2>1 DEF Inv, PairsInv
<1>4. CallInv'
  <2>1. /\ Quiet(g, call.out) => Quiet(g', call.out)
        /\ Begun(g, call.out, call.type) => Begun(g', call.out, call.type)
        /\ Joined(g, call.out, call.type) => Joined(g', call.out, call.type)
    BY DEF Quiet, Begun, Joined, HasType, IsConnected, AllPins
  <2> QED BY <2>1 DEF Inv, CallInv, Chosen
<1> QED BY <1>1, <1>2, <1>3, <1>4 DEF Inv

\* One that leaves the filters alone as well.
LEMMA SameGraph ==
  ASSUME Inv, offers' \in SourceOffers, version' \in 1..MaxVersion,
         result' \in Codes, UNCHANGED <<g, accepts, call, place>>
  PROVE  Inv'
<1>1. AllPins(g, g')
  BY DEF AllPins
<1>2. /\ IsRecord(g') /\ g'.m_State \in [Filters -> {"stopped", "active"}]
      /\ g'.committed \in SUBSET Pins /\ InUse(g')
  BY DEF Inv, Whole, Typed
<1>3. call.out \in Outs => IsStopped(g', call.out)
  BY NoPinIsNone DEF Inv, CallInv
<1> QED BY <1>1, <1>2, <1>3, GraphStep

\* A call that is refused, and one that begins.
LEMMA ConnectRefusedKeeps ==
  ASSUME Inv, NEW o \in Outs, ConnectRefused(o)
  PROVE  Inv'
<1>1. /\ result' \in {"ALREADY_CONNECTED", "NOT_STOPPED"}
      /\ UNCHANGED <<g, offers, accepts, version, call, place>>
  BY DEF ConnectRefused
<1>2. offers' \in SourceOffers /\ version' \in 1..MaxVersion
  BY <1>1 DEF Inv, GraphTyped
<1> QED BY <1>1, <1>2, SameGraph DEF Codes

LEMMA ConnectKeeps ==
  ASSUME Inv, NEW o \in Outs, NEW pmt \in Named \cup {NoType}, NEW m,
         Connect(o, pmt, m)
  PROVE  Inv'
<1>1. /\ place = "idle" /\ ~IsConnected(g, o) /\ IsStopped(g, o)
      /\ call' = [NoCall EXCEPT !.out = o, !.pmt = pmt, !.matching = m, !.type = pmt,
                                !.hrFailure = "NO_ACCEPTABLE_TYPES"]
      /\ place' = IF pmt = NoType THEN "agree" ELSE "attempt"
      /\ UNCHANGED <<g, offers, accepts, version, result>>
  BY DEF Connect
<1>2. /\ call'.out = o /\ call'.pmt = pmt /\ call'.type = pmt /\ call'.pos = 0
      /\ call'.hrFailure = "NO_ACCEPTABLE_TYPES" /\ call'.roundFailure = "S_OK"
      /\ call' = [x \in CallFields |-> call'[x]]
  BY <1>1 DEF NoCall, CallFields
<1>3. pmt \in Types \cup {NoType} /\ Named \subseteq Types
  BY TypesAreTypes
<1>4. CallTyped'
  BY <1>2, <1>3 DEF CallTyped, Codes
<1>5. GraphTyped'
  BY <1>1 DEF Inv, GraphTyped
<1>6. \A q \in Outs : Paired(g, q)
  BY <1>1, NoPinIsNone DEF Inv, CallInv, PairsInv
<1>7. Quiet(g, o)
  BY <1>1, <1>6 DEF Paired, Quiet
<1>8. CallInv'
  <2>1. /\ place' \in {"agree", "attempt"} /\ call'.out = o
        /\ place' = "attempt" => call'.type \in Types
    BY <1>1, <1>2, <1>3
  <2>2. IsStopped(g', o) /\ Quiet(g', o)
    BY <1>1, <1>7
  <2> QED BY <2>1, <2>2 DEF CallInv, Chosen
<1>9. Whole(g') /\ PairsInv' /\ InUse(g')
  BY <1>1, <1>6 DEF Inv, PairsInv
<1> QED BY <1>4, <1>5, <1>8, <1>9 DEF Inv

LEMMA ChangeTypesKeeps ==
  ASSUME Inv, ChangeTypes
  PROVE  Inv'
<1>1. /\ offers' \in SourceOffers /\ version' = version + 1
      /\ version < MaxVersion
      /\ UNCHANGED <<g, accepts, call, place, result>>
  BY DEF ChangeTypes
<1>2. version' \in 1..MaxVersion
  BY <1>1, ConnectionAssumption DEF Inv, GraphTyped
<1>3. result' \in Codes
  BY <1>1 DEF Inv, GraphTyped
<1> QED BY <1>1, <1>2, <1>3, SameGraph

\* A filter that is activated commits what its connected pins have agreed on: its
\* lock is taken while one of them connects, so that they are complete.
LEMMA PauseKeeps ==
  ASSUME Inv, NEW f \in Filters, Pause(f)
  PROVE  Inv'
<1>1. /\ Unlocked(f) /\ g.m_State[f] = "stopped"
      /\ g' = Activated(g, f) \/ g' = g
      /\ UNCHANGED <<offers, accepts, version, call, place, result>>
  BY DEF Pause
<1>2. /\ offers' \in SourceOffers /\ version' \in 1..MaxVersion
      /\ result' \in Codes
  BY <1>1 DEF Inv, GraphTyped
<1>3. CASE g' = g
  BY <1>1, <1>2, <1>3, SameGraph
<1>4. CASE g' = Activated(g, f)
  <2> DEFINE active == {o \in Outs : /\ FilterOf[o] = f /\ IsConnected(g, o)
                                     /\ (o = "xformOut" => IsConnected(g, "xformIn"))}
             added == {g.m_pAllocator[o] : o \in active}
  <2>1. IsRecord(g) /\ Typed(g)
    BY DEF Inv, Whole
  <2>2. /\ IsRecord(g') /\ AllPins(g, g')
        /\ g'.m_State = [g.m_State EXCEPT ![f] = "active"]
        /\ g'.committed = g.committed \cup added
    BY <1>4, <2>1 DEF Activated, IsRecord, Fields, AllPins
  <2>3. ASSUME NEW o \in active
        PROVE  g.m_pAllocator[o] \in Pins
    <3>1. call.out # o
      BY <1>1, <2>3 DEF Unlocked
    <3>2. Paired(g, o) /\ IsConnected(g, o) /\ o \in Pins
      BY <2>3, <3>1, Peers DEF Inv, PairsInv
    <3> QED BY <2>1, <3>2 DEF Paired, Typed
  <2>4. /\ g'.committed \in SUBSET Pins
        /\ g'.m_State \in [Filters -> {"stopped", "active"}]
    <3>1. g.committed \subseteq Pins
      BY <2>1 DEF Typed
    <3>2. added \subseteq Pins
      BY <2>3
    <3>3. g.m_State \in [Filters -> {"stopped", "active"}]
      BY <2>1 DEF Typed
    <3> QED BY <2>2, <3>1, <3>2, <3>3
  <2>5. InUse(g')
    <3> SUFFICES ASSUME NEW a \in g'.committed PROVE \E q \in Outs : Uses(g', q, a)
      BY DEF InUse
    <3>1. \E q \in Outs : /\ g.m_pAllocator[q] = a /\ IsConnected(g, q)
                          /\ q = "xformOut" => IsConnected(g, "xformIn")
                          /\ \/ FilterOf[q] = f
                             \/ g.m_State[FilterOf[q]] = "active"
      <4>1. CASE a \in g.committed
        BY <4>1 DEF Inv, InUse, Uses
      <4>2. CASE a \in added
        BY <4>2
      <4> QED BY <2>2, <4>1, <4>2
    <3>2. PICK q \in Outs : /\ g.m_pAllocator[q] = a /\ IsConnected(g, q)
                            /\ q = "xformOut" => IsConnected(g, "xformIn")
                            /\ \/ FilterOf[q] = f
                               \/ g.m_State[FilterOf[q]] = "active"
      BY <3>1
    <3>3. g'.m_State[FilterOf[q]] = "active"
      <4>1. g.m_State \in [Filters -> {"stopped", "active"}]
        BY <2>1 DEF Typed
      <4>2. FilterOf[q] \in Filters
        BY Peers
      <4> QED BY <2>2, <3>2, <4>1, <4>2
    <3>4. /\ g'.m_pAllocator[q] = a /\ IsConnected(g', q)
          /\ q = "xformOut" => IsConnected(g', "xformIn")
      BY <2>2, <3>2 DEF AllPins, IsConnected
    <3> QED BY <3>3, <3>4 DEF Uses
  <2>6. ASSUME call.out \in Outs
        PROVE  IsStopped(g', call.out)
    <3>1. IsStopped(g, call.out)
      BY <2>6, NoPinIsNone DEF Inv, CallInv
    <3>2. FilterOf[call.out] # f /\ FilterOf[call.out] \in Filters
      BY <1>1, <2>6, Peers DEF Unlocked
    <3>3. g.m_State \in [Filters -> {"stopped", "active"}]
      BY <2>1 DEF Typed
    <3> QED BY <2>2, <3>1, <3>2, <3>3 DEF IsStopped
  <2> QED BY <1>1, <1>2, <2>2, <2>4, <2>5, <2>6, GraphStep
<1> QED BY <1>1, <1>3, <1>4

\* One that is stopped decommits what its connected pins had committed: those that the
\* injector's Stop passes over had nothing.
LEMMA StopKeeps ==
  ASSUME Inv, NEW f \in Filters, Stop(f)
  PROVE  Inv'
<1> DEFINE passed == f = "injector" /\ ~(IsConnected(g, "xformIn") /\ IsConnected(g, "xformOut"))
           ended == {x \in Pins : FilterOf[x] = f /\ IsConnected(g, x) /\ ~passed}
           released == {g.m_pAllocator[p] : p \in ended}
<1>1. /\ Unlocked(f)
      /\ g' = [g EXCEPT !.m_State[f] = "stopped",
                        !.committed = g.committed \ released]
      /\ UNCHANGED <<offers, accepts, version, call, place, result>>
  BY DEF Stop, Deactivated
<1>2. /\ offers' \in SourceOffers /\ version' \in 1..MaxVersion
      /\ result' \in Codes
  BY <1>1 DEF Inv, GraphTyped
<1>3. IsRecord(g) /\ Typed(g)
  BY DEF Inv, Whole
<1>4. g.m_State \in [Filters -> {"stopped", "active"}] /\ g.committed \subseteq Pins
  BY <1>3 DEF Typed
<1>5. /\ IsRecord(g') /\ AllPins(g, g')
      /\ g'.m_State = [g.m_State EXCEPT ![f] = "stopped"]
      /\ g'.committed = g.committed \ released
  <2> HIDE DEF released
  <2> QED BY <1>1, <1>3 DEF IsRecord, Fields, AllPins
<1>6. /\ g'.committed \in SUBSET Pins
      /\ g'.m_State \in [Filters -> {"stopped", "active"}]
  <2> HIDE DEF released
  <2> QED BY <1>4, <1>5
<1>7. InUse(g')
  <2> SUFFICES ASSUME NEW a \in g'.committed PROVE \E q \in Outs : Uses(g', q, a)
    BY DEF InUse
  <2>1. a \in g.committed /\ a \notin released
    BY <1>5
  <2>2. PICK q \in Outs : Uses(g, q, a)
    BY <2>1 DEF Inv, InUse
  <2>3. FilterOf[q] # f
    <3>1. q \in Pins /\ q \notin ended
      BY <2>1, <2>2, Peers DEF Uses
    <3>2. FilterOf[q] = f => ~passed
      <4>1. FilterOf[q] = "injector" => q = "xformOut"
        BY DEF FilterOf, Outs
      <4> QED BY <2>2, <4>1 DEF Uses
    <3> QED BY <2>2, <3>1, <3>2 DEF Uses
  <2> HIDE DEF released
  <2>4. g'.m_State[FilterOf[q]] = "active"
    <3>1. FilterOf[q] \in Filters
      BY Peers
    <3> QED BY <1>4, <1>5, <2>2, <2>3, <3>1 DEF Uses
  <2>5. /\ g'.m_pAllocator[q] = a /\ IsConnected(g', q)
        /\ q = "xformOut" => IsConnected(g', "xformIn")
    BY <1>5, <2>2 DEF AllPins, IsConnected, Uses
  <2> QED BY <2>4, <2>5 DEF Uses
<1> HIDE DEF released
<1>8. ASSUME call.out \in Outs
      PROVE  IsStopped(g', call.out)
  <2>1. IsStopped(g, call.out)
    BY <1>8, NoPinIsNone DEF Inv, CallInv
  <2>2. FilterOf[call.out] \in Filters
    BY <1>8, Peers
  <2> QED BY <1>4, <1>5, <2>1, <2>2 DEF IsStopped
<1> QED BY <1>1, <1>2, <1>5, <1>6, <1>7, <1>8, GraphStep

-----------------------------------------------------------------------------
(* The input of an active injector.                                        *)

\* The members of s are there, and in t the input is connected if it is in s.
Members(s) == IsRecord(s) /\ s.m_Connected \in [Pins -> Pins \cup {None}]
InputStays(s, t) ==
  Members(t) /\ (IsConnected(s, "xformIn") => IsConnected(t, "xformIn"))

LEMMA MembersStay ==
  ASSUME NEW s, NEW t, Members(s), IsRecord(t), t.m_Connected = s.m_Connected
  PROVE  InputStays(s, t)
BY DEF InputStays, Members, IsConnected

LEMMA InputJoins ==
  ASSUME NEW r, NEW s, NEW t, InputStays(r, s), InputStays(s, t)
  PROVE  InputStays(r, t)
BY DEF InputStays

LEMMA ReleaseInput ==
  ASSUME NEW s, Members(s), NEW p PROVE InputStays(s, ReleaseAllocator(s, p))
<1>1. /\ IsRecord(ReleaseAllocator(s, p))
      /\ ReleaseAllocator(s, p).m_Connected = s.m_Connected
  BY DEF ReleaseAllocator, Members, IsRecord, Fields
<1> QED BY <1>1, MembersStay

LEMMA BreakInput ==
  ASSUME NEW s, Members(s), NEW p PROVE InputStays(s, BreakConnect(s, p))
<1> DEFINE c == [s EXCEPT !.committed = @ \ {s.m_pAllocator[p]}]
           d == DropAllocator(s, p)
<1>1. InputStays(s, c)
  <2>1. IsRecord(c) /\ c.m_Connected = s.m_Connected
    BY DEF Members, IsRecord, Fields
  <2> QED BY <2>1, MembersStay
<1>2. InputStays(s, s)
  BY MembersStay DEF Members
<1>3. InputStays(s, d)
  <2>1. d = s \/ d = ReleaseAllocator(c, p)
    BY DEF DropAllocator
  <2>2. Members(c)
    BY <1>1 DEF InputStays
  <2> HIDE DEF c, d
  <2>3. InputStays(c, ReleaseAllocator(c, p))
    BY <2>2, ReleaseInput
  <2> QED BY <1>1, <1>2, <2>1, <2>3, InputJoins
<1>4. Members(d) /\ BreakConnect(s, p) = DropInputPin(d, p)
  BY <1>3 DEF InputStays, BreakConnect
<1> HIDE DEF d
<1>5. IsRecord(DropInputPin(d, p)) /\ DropInputPin(d, p).m_Connected = d.m_Connected
  BY <1>4 DEF DropInputPin, Members, IsRecord, Fields
<1>6. InputStays(d, DropInputPin(d, p))
  BY <1>4, <1>5, MembersStay
<1> QED BY <1>3, <1>4, <1>6, InputJoins

LEMMA ForgetInput ==
  ASSUME NEW s, Members(s), NEW p \in Pins, p # "xformIn" \/ ~IsConnected(s, p)
  PROVE  InputStays(s, Forget(s, p))
<1> DEFINE t == Forget(s, p)
<1>1. CASE ~IsConnected(s, p)
  BY <1>1, MembersStay DEF Forget, Members
<1>2. CASE IsConnected(s, p)
  <2>1. IsRecord(t) /\ t.m_Connected = [s.m_Connected EXCEPT ![p] = None]
    BY <1>2 DEF Forget, Members, IsRecord, Fields
  <2> SUFFICES InputStays(s, t)
    OBVIOUS
  <2> HIDE DEF t
  <2>2. "xformIn" \in Pins /\ p # "xformIn"
    BY <1>2 DEF Pins, Ins
  <2>3. s.m_Connected \in [Pins -> Pins \cup {None}]
    BY DEF Members
  <2>4. /\ t.m_Connected \in [Pins -> Pins \cup {None}]
        /\ t.m_Connected["xformIn"] = s.m_Connected["xformIn"]
    BY <2>1, <2>2, <2>3
  <2> QED BY <2>1, <2>4 DEF InputStays, Members, IsConnected
<1> QED BY <1>1, <1>2

LEMMA RememberInput ==
  ASSUME NEW s, Members(s), NEW p \in Pins, NEW q \in Pins
  PROVE  InputStays(s, Remember(s, p, q))
<1> DEFINE t == Remember(s, p, q)
<1>1. IsRecord(t) /\ t.m_Connected = [s.m_Connected EXCEPT ![p] = q]
  BY DEF Remember, Members, IsRecord, Fields
<1> SUFFICES InputStays(s, t)
  OBVIOUS
<1> HIDE DEF t
<1>2. "xformIn" \in Pins /\ q # None
  BY NoPinIsNone DEF Pins, Ins
<1>3. s.m_Connected \in [Pins -> Pins \cup {None}]
  BY DEF Members
<1>4. /\ t.m_Connected \in [Pins -> Pins \cup {None}]
      /\ t.m_Connected["xformIn"] \in {q, s.m_Connected["xformIn"]}
  BY <1>1, <1>2, <1>3
<1> QED BY <1>1, <1>2, <1>4 DEF InputStays, Members, IsConnected

\* The media type, an allocator or a reference of a pin is not its connection.
LEMMA OtherMembers ==
  ASSUME NEW s, Members(s), NEW p, NEW y
  PROVE  /\ InputStays(s, [s EXCEPT !.m_mt[p] = y])
         /\ InputStays(s, [s EXCEPT !.allocRefs[p] = @ + 1])
         /\ InputStays(s, [s EXCEPT !.m_pAllocator[p] = y])
         /\ InputStays(s, [s EXCEPT !.m_pAllocator[p] = y, !.allocRefs[y] = @ + 1])
         /\ InputStays(s, [s EXCEPT !.m_pInputPin[p] = y, !.pinRefs[y] = @ + 1])
<1>1. ASSUME NEW t, IsRecord(t) /\ t.m_Connected = s.m_Connected PROVE InputStays(s, t)
  BY <1>1, MembersStay
<1> USE DEF Members, IsRecord, Fields
<1>2. InputStays(s, [s EXCEPT !.m_mt[p] = y])
  <2>1. /\ IsRecord([s EXCEPT !.m_mt[p] = y])
        /\ [s EXCEPT !.m_mt[p] = y].m_Connected = s.m_Connected
    OBVIOUS
  <2> QED BY <2>1, MembersStay
<1>3. InputStays(s, [s EXCEPT !.allocRefs[p] = @ + 1])
  <2>1. /\ IsRecord([s EXCEPT !.allocRefs[p] = @ + 1])
        /\ [s EXCEPT !.allocRefs[p] = @ + 1].m_Connected = s.m_Connected
    OBVIOUS
  <2> QED BY <2>1, MembersStay
<1>4. InputStays(s, [s EXCEPT !.m_pAllocator[p] = y])
  <2>1. /\ IsRecord([s EXCEPT !.m_pAllocator[p] = y])
        /\ [s EXCEPT !.m_pAllocator[p] = y].m_Connected = s.m_Connected
    OBVIOUS
  <2> QED BY <2>1, MembersStay
<1>5. InputStays(s, [s EXCEPT !.m_pAllocator[p] = y, !.allocRefs[y] = @ + 1])
  <2>1. /\ IsRecord([s EXCEPT !.m_pAllocator[p] = y, !.allocRefs[y] = @ + 1])
        /\ [s EXCEPT !.m_pAllocator[p] = y, !.allocRefs[y] = @ + 1].m_Connected = s.m_Connected
    OBVIOUS
  <2> QED BY <2>1, MembersStay
<1>6. InputStays(s, [s EXCEPT !.m_pInputPin[p] = y, !.pinRefs[y] = @ + 1])
  <2>1. /\ IsRecord([s EXCEPT !.m_pInputPin[p] = y, !.pinRefs[y] = @ + 1])
        /\ [s EXCEPT !.m_pInputPin[p] = y, !.pinRefs[y] = @ + 1].m_Connected = s.m_Connected
    OBVIOUS
  <2> QED BY <2>1, MembersStay
<1> HIDE DEF Members, IsRecord, Fields
<1> QED BY <1>2, <1>3, <1>4, <1>5, <1>6

LEMMA NotifyInput ==
  ASSUME NEW s, Members(s), NEW p, NEW a PROVE InputStays(s, NotifyAllocator(s, p, a))
<1> DEFINE t == [s EXCEPT !.allocRefs[a] = @ + 1]
           u == IF t.m_pAllocator[p] = None THEN t ELSE ReleaseAllocator(t, p)
<1>1. InputStays(s, t) /\ Members(t)
  BY OtherMembers DEF InputStays
<1>2. NotifyAllocator(s, p, a) = [u EXCEPT !.m_pAllocator[p] = a]
  BY DEF NotifyAllocator
<1>3. u = t \/ u = ReleaseAllocator(t, p)
  OBVIOUS
<1> HIDE DEF t, u
<1>4. InputStays(t, ReleaseAllocator(t, p)) /\ InputStays(s, u)
  <2>1. InputStays(t, ReleaseAllocator(t, p))
    BY <1>1, ReleaseInput
  <2> QED BY <1>1, <1>3, <2>1, InputJoins
<1>5. Members(u)
  BY <1>4 DEF InputStays
<1>6. InputStays(u, [u EXCEPT !.m_pAllocator[p] = a])
  BY <1>5, OtherMembers
<1> QED BY <1>2, <1>4, <1>6, InputJoins

LEMMA GetInput ==
  ASSUME NEW s, Members(s), NEW p PROVE InputStays(s, GetAllocator(s, p))
BY OtherMembers, MembersStay DEF GetAllocator, Members

\* What a failed attempt, or a failed call, leaves.
LEMMA AttemptedInput ==
  ASSUME NEW s, Members(s), call.out \in Outs, NEW hr, Attempted(s, hr)
  PROVE  InputStays(s, g')
<1> DEFINE o == call.out
           b == BreakConnect(s, o)
<1>1. o \in Pins /\ o # "xformIn" /\ g' = Forget(b, o)
  BY DEF Attempted, Outs, Pins
<1>2. InputStays(s, b)
  BY BreakInput
<1>3. Members(b)
  BY <1>2 DEF InputStays
<1> HIDE DEF b
<1>4. InputStays(b, Forget(b, o))
  BY <1>1, <1>3, ForgetInput
<1> QED BY <1>1, <1>2, <1>4, InputJoins

\* The steps of the call, in which the receiving pin may be the injector's input.
LEMMA AttemptInput ==
  ASSUME Members(g), call.out \in Outs, Attempt PROVE InputStays(g, g')
<1> DEFINE o == call.out
           i == Peer[o]
           s1 == [g EXCEPT !.m_pInputPin[o] = i, !.pinRefs[i] = @ + 1]
           r == Remember(s1, o, i)
           s2 == [r EXCEPT !.m_mt[o] = call.type]
<1>1. o \in Pins /\ i \in Pins
  BY Peers
<1>2. \/ \E s \in {g, s1, r} : \E hr \in Codes : Attempted(s, hr)
      \/ g' = s2
  BY DEF Attempt, Codes
<1>3. InputStays(g, g) /\ InputStays(g, s1)
  BY MembersStay, OtherMembers DEF Members
<1>4. Members(s1)
  BY <1>3 DEF InputStays
<1> HIDE DEF s1
<1>5. InputStays(s1, r)
  BY <1>1, <1>4, RememberInput
<1>6. InputStays(g, r)
  BY <1>3, <1>5, InputJoins
<1>7. Members(r)
  BY <1>6 DEF InputStays
<1> HIDE DEF r
<1>8. InputStays(r, s2)
  BY <1>7, OtherMembers
<1>9. InputStays(g, s2)
  BY <1>6, <1>8, InputJoins
<1> HIDE DEF s2, o, i
<1>10. ASSUME NEW s \in {g, s1, r}, NEW hr \in Codes, Attempted(s, hr)
       PROVE  InputStays(g, g')
  <2>1. InputStays(g, s) /\ Members(s)
    BY <1>3, <1>4, <1>6, <1>7
  <2>2. InputStays(s, g')
    BY <1>10, <2>1, AttemptedInput
  <2> QED BY <2>1, <2>2, InputJoins
<1> QED BY <1>2, <1>9, <1>10

LEMMA ReceiveInput ==
  ASSUME Members(g), call.out \in Outs, Receive PROVE InputStays(g, g')
<1> DEFINE o == call.out
           i == Peer[o]
           r == Remember(g, i, o)
           a == [r EXCEPT !.m_mt[i] = call.type]
           f == Forget(a, i)
           b == BreakConnect(g, i)
           bf == BreakConnect(f, i)
<1>1. o \in Pins /\ i \in Pins
  BY Peers
<1>2. \/ \E s \in {g, b} : \E hr \in Codes : Attempted(s, hr)
      \/ g' = a
      \/ ~IsConnected(g, i) /\ Attempted(bf, "OTHER")
  BY DEF Receive, Codes
<1>3. InputStays(g, g) /\ InputStays(g, b) /\ InputStays(g, r)
  BY <1>1, MembersStay, BreakInput, RememberInput DEF Members
<1>4. Members(b) /\ Members(r)
  BY <1>3 DEF InputStays
<1> HIDE DEF b, r
<1>5. InputStays(r, a)
  BY <1>4, OtherMembers
<1>6. InputStays(g, a)
  BY <1>3, <1>5, InputJoins
<1>7. Members(a)
  BY <1>6 DEF InputStays
<1> HIDE DEF a
<1>8. ASSUME NEW s, InputStays(g, s), NEW hr, Attempted(s, hr)
      PROVE  InputStays(g, g')
  <2>1. Members(s)
    BY <1>8 DEF InputStays
  <2>2. InputStays(s, g')
    BY <1>8, <2>1, AttemptedInput
  <2> QED BY <1>8, <2>2, InputJoins
<1>9. CASE ~IsConnected(g, i) /\ Attempted(bf, "OTHER")
  <2>1. Members(f) /\ InputStays(g, f)
    <3>1. CASE i = "xformIn"
      <4>1. ~IsConnected(g, "xformIn")
        BY <1>9, <3>1
      <4>2. Members(f)
        BY <1>1, <1>7 DEF Forget, Members, IsRecord, Fields
      <4> QED BY <4>1, <4>2 DEF InputStays
    <3>2. CASE i # "xformIn"
      <4>1. InputStays(a, f)
        BY <1>1, <1>7, <3>2, ForgetInput
      <4>2. InputStays(g, f)
        BY <1>6, <4>1, InputJoins
      <4> QED BY <4>2 DEF InputStays
    <3> QED BY <3>1, <3>2
  <2> HIDE DEF f
  <2>2. InputStays(f, bf)
    BY <2>1, BreakInput
  <2>3. InputStays(g, bf)
    BY <2>1, <2>2, InputJoins
  <2> HIDE DEF bf
  <2> QED BY <1>8, <1>9, <2>3
<1> HIDE DEF bf, f, o, i
<1> QED BY <1>2, <1>3, <1>6, <1>8, <1>9

LEMMA DecideAllocatorInput ==
  ASSUME Members(g), DecideAllocator PROVE InputStays(g, g')
<1> DEFINE o == call.out
           i == Peer[o]
           s1 == GetAllocator(g, i)
           a == s1.m_pAllocator[i]
           s2 == [s1 EXCEPT !.m_pAllocator[o] = a, !.allocRefs[a] = @ + 1]
<1>1. g' = NotifyAllocator(s2, i, a) \/ g' = ReleaseAllocator(s2, o)
  BY DEF DecideAllocator, Succeed
<1>2. InputStays(g, s1)
  BY GetInput
<1>3. Members(s1)
  BY <1>2 DEF InputStays
<1> HIDE DEF s1
<1>4. InputStays(s1, s2)
  BY <1>3, OtherMembers
<1>5. InputStays(g, s2) /\ Members(s2)
  BY <1>2, <1>4, InputJoins DEF InputStays
<1> HIDE DEF s2
<1>6. InputStays(s2, g')
  BY <1>1, <1>5, NotifyInput, ReleaseInput
<1> QED BY <1>5, <1>6, InputJoins

LEMMA InitAllocatorInput ==
  ASSUME Members(g), InitAllocator PROVE InputStays(g, g')
<1> DEFINE o == call.out
           i == Peer[o]
           s1 == [g EXCEPT !.m_pAllocator[o] = o, !.allocRefs[o] = @ + 1]
<1>1. g' = NotifyAllocator(s1, i, o) \/ g' = ReleaseAllocator(s1, o)
  BY DEF InitAllocator, Succeed
<1>2. InputStays(g, s1)
  BY OtherMembers
<1>3. Members(s1)
  BY <1>2 DEF InputStays
<1> HIDE DEF s1
<1>4. InputStays(s1, g')
  BY <1>1, <1>3, NotifyInput, ReleaseInput
<1> QED BY <1>2, <1>4, InputJoins

\* A pin is disconnected only while its filter is stopped.
LEMMA DisconnectedKeepsInput ==
  ASSUME Members(g), g.m_State["injector"] = "active", NEW p \in Pins, IsStopped(g, p)
  PROVE  InputStays(g, DisconnectInternal(g, p))
<1> DEFINE b == BreakConnect(g, p)
<1>1. p # "xformIn"
  BY DEF IsStopped, FilterOf
<1>2. InputStays(g, b) /\ InputStays(g, g)
  BY BreakInput, MembersStay DEF Members
<1>3. Members(b)
  BY <1>2 DEF InputStays
<1>4. DisconnectInternal(g, p) = Forget(b, p) \/ DisconnectInternal(g, p) = g
  BY DEF DisconnectInternal
<1> HIDE DEF b
<1>5. InputStays(b, Forget(b, p))
  BY <1>1, <1>3, ForgetInput
<1>6. InputStays(g, Forget(b, p))
  BY <1>2, <1>5, InputJoins
<1> QED BY <1>2, <1>4, <1>6

LEMMA InputIsKept ==
  ASSUME Inv, [Next]_vars PROVE InputKept
<1> SUFFICES ASSUME g.m_State["injector"] = "active" PROVE InputStays(g, g')
  BY DEF InputKept, InputStays
<1>1. Members(g)
  BY DEF Inv, Whole, Typed, Members
<1>2. CASE g' = g
  BY <1>1, <1>2, MembersStay DEF Members
<1>3. ASSUME place # "idle" PROVE call.out \in Outs
  BY <1>3 DEF Inv, CallInv
<1>4. CASE Enumerate \/ AfterAttempt
  <2>1. g' = g \/ g' = BreakConnect(g, call.out)
    BY <1>4 DEF Enumerate, AfterAttempt, Fail
  <2> QED BY <1>1, <1>2, <2>1, BreakInput
<1>5. CASE Attempt
  BY <1>1, <1>3, <1>5, AttemptInput DEF Attempt
<1>6. CASE Receive
  BY <1>1, <1>3, <1>6, ReceiveInput DEF Receive
<1>7. CASE DecideAllocator \/ InitAllocator
  BY <1>1, <1>7, DecideAllocatorInput, InitAllocatorInput
<1>8. CASE Undo
  <2> DEFINE i == Peer[call.out]
             d == IF IsStopped(g, i) THEN DisconnectInternal(g, i) ELSE g
  <2>1. call.out \in Outs /\ Attempted(d, "OTHER")
    BY <1>3, <1>8 DEF Undo
  <2>2. InputStays(g, d)
    <3>1. InputStays(g, g)
      BY <1>1, MembersStay DEF Members
    <3>2. i \in Pins
      BY <2>1, Peers
    <3> QED BY <1>1, <3>1, <3>2, DisconnectedKeepsInput
  <2> HIDE DEF d
  <2>3. Members(d)
    BY <2>2 DEF InputStays
  <2>4. InputStays(d, g')
    BY <2>1, <2>3, AttemptedInput
  <2> QED BY <2>2, <2>4, InputJoins
<1>9. CASE \E p \in Pins : Disconnect(p)
  BY <1>1, <1>9, DisconnectedKeepsInput DEF Disconnect
<1>10. CASE \E f \in Filters : Pause(f) \/ Stop(f)
  <2>1. g' = g \/ (IsRecord(g') /\ g'.m_Connected = g.m_Connected)
    <3>1. PICK f \in Filters : \/ g' = Activated(g, f) \/ g' = g
                               \/ g' = Deactivated(g, f)
      BY <1>10 DEF Pause, Stop
    <3>2. /\ IsRecord(Activated(g, f)) /\ Activated(g, f).m_Connected = g.m_Connected
      BY <1>1 DEF Activated, Members, IsRecord, Fields
    <3>3. /\ IsRecord(Deactivated(g, f)) /\ Deactivated(g, f).m_Connected = g.m_Connected
      BY <1>1 DEF Deactivated, Members, IsRecord, Fields
    <3> QED BY <3>1, <3>2, <3>3
  <2> QED BY <1>1, <1>2, <2>1, MembersStay
<1>11. CASE \/ \E o \in Outs : ConnectRefused(o) \/ \E t : \E m : Connect(o, t, m)
            \/ EnumerateFails \/ NextType \/ ChangeTypes \/ UNCHANGED vars
  <2>1. g' = g
    BY <1>11 DEF ConnectRefused, Connect, EnumerateFails, NextType, ChangeTypes, vars
  <2> QED BY <1>2, <2>1
<1> QED
  BY <1>4, <1>5, <1>6, <1>7, <1>8, <1>9, <1>10, <1>11 DEF Next, Connecting

-----------------------------------------------------------------------------
(* The theorems.                                                           *)

LEMMA InvStep == Inv /\ [Next]_vars => Inv'
<1> SUFFICES ASSUME Inv, [Next]_vars PROVE Inv'
  OBVIOUS
<1>0. InputKept
  BY InputIsKept
<1>1. CASE \E o \in Outs : \/ ConnectRefused(o)
                          \/ \E t \in Named \cup {NoType} : \E m : Connect(o, t, m)
  BY <1>1, ConnectRefusedKeeps, ConnectKeeps
<1>2. CASE Connecting
  BY <1>0, <1>2, EnumerateKeeps, EnumerateFailsKeeps, NextTypeKeeps, AttemptKeeps,
     ReceiveKeeps, DecideAllocatorKeeps, InitAllocatorKeeps, UndoKeeps,
     AfterAttemptKeeps DEF Connecting
<1>3. CASE ChangeTypes
  BY <1>3, ChangeTypesKeeps
<1>4. CASE \E p \in Pins : Disconnect(p)
  BY <1>0, <1>4, DisconnectKeeps
<1>5. CASE \E f \in Filters : Pause(f) \/ Stop(f)
  BY <1>5, PauseKeeps, StopKeeps
<1>6. CASE UNCHANGED vars
  <2>1. UNCHANGED <<g, offers, accepts, version, call, place, result>>
    BY <1>6 DEF vars
  <2>2. /\ offers' \in SourceOffers /\ version' \in 1..MaxVersion
        /\ result' \in Codes
    BY <2>1 DEF Inv, GraphTyped
  <2> QED BY <2>1, <2>2, SameGraph
<1> QED BY <1>1, <1>2, <1>3, <1>4, <1>5, <1>6 DEF Next

\* In every state that the graph reaches, whoever calls what: the invariant.
LEMMA InvHolds == Spec => []Inv
BY InitInv, InvStep, PTL DEF Spec

LEMMA CountsAreNatural ==
  \A f, S, x : S \in {Pins, Outs} => Count(f, S, x) \in Nat
BY PinsAreFinite, FS_Subset, FS_CardinalityType DEF Count

LuckTyped == luck = TRUE \/ luck = FALSE

LEMMA LuckStep == LuckTyped /\ [Next]_vars => LuckTyped'
<1> SUFFICES ASSUME LuckTyped, [Next]_vars PROVE LuckTyped'
  OBVIOUS
<1>1. ASSUME NEW o \in Outs,
             ConnectRefused(o) \/ \E t \in Named \cup {NoType} : \E m : Connect(o, t, m)
      PROVE  LuckTyped'
  BY Zenon, <1>1 DEF ConnectRefused, Connect, LuckTyped
<1>2. CASE Enumerate \/ EnumerateFails \/ AfterAttempt \/ Undo
  BY Zenon, <1>2 DEF Enumerate, EnumerateFails, AfterAttempt, Undo, LuckTyped
<1>3. CASE NextType
  <2>1. \/ luck' = luck
        \/ luck' = (luck /\ call.seen = VersionOf(EnumPin(call.out, call.round)))
    BY Zenon, <1>3 DEF NextType
  <2> QED BY Zenon, <2>1 DEF LuckTyped
<1>4. CASE Attempt \/ DecideAllocator \/ InitAllocator
  <2>1. luck' = luck \/ luck' = FALSE
    BY Zenon, <1>4 DEF Attempt, DecideAllocator, InitAllocator
  <2> QED BY Zenon, <2>1 DEF LuckTyped
<1>5. CASE Receive
  <2>1. luck' = luck \/ luck' = FALSE
    BY <1>5 DEF Receive
  <2> QED BY Zenon, <2>1 DEF LuckTyped
<1>6. CASE ChangeTypes
  BY Zenon, <1>6 DEF ChangeTypes, LuckTyped
<1>7. ASSUME NEW p \in Pins, Disconnect(p)
      PROVE  LuckTyped'
  BY Zenon, <1>7 DEF Disconnect, LuckTyped
<1>8. ASSUME NEW f \in Filters, Pause(f) \/ Stop(f)
      PROVE  LuckTyped'
  BY Zenon, <1>8 DEF Pause, Stop, LuckTyped
<1>9. CASE UNCHANGED vars
  BY Zenon, <1>9 DEF vars, LuckTyped
<1> QED BY Zenon, <1>1, <1>2, <1>3, <1>4, <1>5, <1>6, <1>7, <1>8, <1>9
           DEF Next, Connecting

LEMMA LuckHolds == Spec => []LuckTyped
<1>1. Init => LuckTyped
  BY DEF Init, LuckTyped
<1> QED BY <1>1, LuckStep, PTL DEF Spec

\* Every member keeps its type for every set of media types, offers and
\* renderers; no reference count of a pin or an allocator becomes negative.
THEOREM TypesKept == Spec => []TypeOK
<1>1. Inv /\ LuckTyped => TypeOK
  <2> SUFFICES ASSUME Inv, LuckTyped PROVE TypeOK
    OBVIOUS
  <2>1. Typed(g) /\ PinsBalance(g) /\ AllocsBalance(g) /\ GraphTyped
    BY DEF Inv, Whole
  <2>2. \A p \in Pins : g.pinRefs[p] \in Nat
    <3>1. ASSUME NEW p \in Pins PROVE g.pinRefs[p] \in Nat
      <4>1. /\ Count(g.m_Connected, Pins, p) \in Nat
            /\ Count(g.m_pInputPin, Outs, p) \in Nat
        BY CountsAreNatural
      <4> QED BY <2>1, <4>1 DEF PinsBalance
    <3> QED BY <3>1
  <2>3. \A a \in Pins : g.allocRefs[a] \in Nat
    BY <2>1, CountsAreNatural DEF AllocsBalance
  <2>4. g.pinRefs \in [Pins -> Nat] /\ g.allocRefs \in [Pins -> Nat]
    BY <2>1, <2>2, <2>3 DEF Typed
  <2>5. luck \in BOOLEAN
    BY Zenon DEF LuckTyped
  <2>6. g.committed \subseteq Pins
    BY <2>1 DEF Typed
  <2> QED BY <2>1, <2>4, <2>5, <2>6 DEF TypeOK, Typed, GraphTyped
<1> QED BY <1>1, InvHolds, LuckHolds, PTL

\* Whatever is called in whatever order, and whichever calls fail: the counts of
\* references are those that the pins remember, a pin that is not connected
\* holds nothing and one that is holds all it needs, the two ends of a
\* connection have agreed on one accepted type and one allocator, and only the
\* allocator of an active filter's connected pin is committed.
THEOREM ConnectionIsWhole == Spec => []ConnectedWhole
<1>1. Inv => ConnectedWhole
  <2> SUFFICES ASSUME Inv PROVE ConnectedWhole
    OBVIOUS
  <2>1. PinRefsBalance /\ AllocRefsBalance
    BY DEF Inv, Whole, PinsBalance, AllocsBalance, Count, PinRefsBalance,
           AllocRefsBalance
  <2>2. place = "idle" => \A o \in Outs : Paired(g, o)
    BY NoPinIsNone DEF Inv, CallInv, PairsInv
  <2>3. AllOrNothing
    BY <2>2 DEF AllOrNothing, Paired
  <2>4. EndsAgree
    BY <2>2 DEF EndsAgree, Paired
  <2>5. CommittedWhileActive
    BY DEF Inv, InUse, Uses, CommittedWhileActive
  <2> QED BY <2>1, <2>3, <2>4, <2>5 DEF ConnectedWhole
<1> QED BY <1>1, InvHolds, PTL

(***************************************************************************)
(* What the negotiation has tried                                          *)
(***************************************************************************)
Offered(p) == TypesOf(g, p)
Refuses(o, t) ==
  t \notin call.matching \/ ~CheckMediaType(g, o, t) \/ ~CheckMediaType(g, Peer[o], t)
RefusedTo(o, p, n) == \A k \in DOMAIN Offered(p) : k <= n => Refuses(o, Offered(p)[k])
AllRefused(o, p) == \A k \in DOMAIN Offered(p) : Refuses(o, Offered(p)[k])

\* The places at which the types before the current one have been refused.
Trying == {"attempt", "receive", "attempted"}

\* Where the enumeration is, for a pin o that is left to find a type itself.
Reached(o) ==
  /\ call.round \in 0..2
  /\ call.round >= 1 => AllRefused(o, Peer[o])
  /\ call.round = 2 => AllRefused(o, o) /\ place = "agree"

\* And in the list of p.
ReachedIn(o, p) ==
  /\ call.seen = VersionOf(p)
  /\ place = "next" => RefusedTo(o, p, call.pos)
  /\ place \in Trying =>
       /\ call.pos \in DOMAIN Offered(p) /\ call.type = Offered(p)[call.pos]
       /\ RefusedTo(o, p, call.pos - 1)
  /\ place = "attempted" => Refuses(o, call.type)

\* As long as nothing but types has been refused, all that was tried has been refused.
Negotiating == luck /\ call.pmt = NoType /\ place \in {"agree", "next"} \cup Trying

TriedInv ==
  /\ place = "undo" => ~luck
  /\ Negotiating =>
       /\ Reached(call.out)
       /\ place # "agree" => ReachedIn(call.out, EnumPin(call.out, call.round))

\* What the pins offer and accept during a call depends on the input pin of the injector.
SameView ==
  /\ UNCHANGED <<offers, accepts, version>> /\ call'.matching = call.matching
  /\ call.out = "xformOut" =>
       /\ g'.m_Connected["xformIn"] = g.m_Connected["xformIn"]
       /\ g'.m_mt["xformIn"] = g.m_mt["xformIn"]

LEMMA ViewKept ==
  ASSUME SameView, NEW o \in Outs, o = call.out
  PROVE  /\ \A t : Refuses(o, t)' <=> Refuses(o, t)
         /\ \A p \in {o, Peer[o]} : Offered(p)' = Offered(p) /\ VersionOf(p)' = VersionOf(p)
<1>1. CASE o = "source"
  <2>1. Peer["source"] = "xformIn"
    BY DEF Peer
  <2>2. \A t : CheckMediaType(g, "source", t)' <=> CheckMediaType(g, "source", t)
    BY DEF CheckMediaType
  <2>3. \A t : CheckMediaType(g, "xformIn", t)' <=> CheckMediaType(g, "xformIn", t)
    BY DEF CheckMediaType
  <2>4. Offered("source")' = Offered("source") /\ Offered("xformIn")' = Offered("xformIn")
    BY DEF Offered, TypesOf, SameView
  <2>5. \A p \in Pins : VersionOf(p)' = VersionOf(p)
    BY DEF SameView, VersionOf
  <2>6. {"source", "xformIn"} \subseteq Pins
    BY DEF Pins, Outs, Ins
  <2>7. \A t : Refuses(o, t)' <=> Refuses(o, t)
    BY <1>1, <2>1, <2>2, <2>3 DEF Refuses, SameView
  <2> QED BY <1>1, <2>1, <2>4, <2>5, <2>6, <2>7
<1>2. CASE o = "xformOut"
  <2>1. Peer["xformOut"] = "renderer"
    BY DEF Peer
  <2>2. IsConnected(g', "xformIn") <=> IsConnected(g, "xformIn")
    BY <1>2 DEF SameView, IsConnected
  <2>3. \A t : CheckMediaType(g, "xformOut", t)' <=> CheckMediaType(g, "xformOut", t)
    BY <2>2 DEF CheckMediaType
  <2>4. \A t : CheckMediaType(g, "renderer", t)' <=> CheckMediaType(g, "renderer", t)
    BY DEF CheckMediaType, SameView
  <2>5. Offered("xformOut")' = Offered("xformOut") /\ Offered("renderer")' = Offered("renderer")
    BY <1>2, <2>2 DEF Offered, TypesOf, SameView
  <2>6. \A p \in Pins : VersionOf(p)' = VersionOf(p)
    BY DEF SameView, VersionOf
  <2>7. {"xformOut", "renderer"} \subseteq Pins
    BY DEF Pins, Outs, Ins
  <2>8. \A t : Refuses(o, t)' <=> Refuses(o, t)
    BY <1>2, <2>1, <2>3, <2>4 DEF Refuses, SameView
  <2> QED BY <1>2, <2>1, <2>5, <2>6, <2>7, <2>8
<1> QED BY <1>1, <1>2 DEF Outs

\* The parts of Reached and ReachedIn stay true along with the view.
LEMMA ReachedKept ==
  ASSUME SameView, NEW o \in Outs, o = call.out, NEW p \in {o, Peer[o]}
  PROVE  /\ AllRefused(o, p) => AllRefused(o, p)'
         /\ \A n : RefusedTo(o, p, n) =>
              \A k \in DOMAIN Offered(p)' : k <= n => Refuses(o, Offered(p)[k])'
<1>1. \A t : Refuses(o, t)' <=> Refuses(o, t)
  BY ViewKept
<1>2. Offered(p)' = Offered(p)
  BY ViewKept
<1>3. \A k : Refuses(o, Offered(p)[k])' <=> Refuses(o, Offered(p)[k])
  BY <1>1, <1>2
<1>4. AllRefused(o, p) => AllRefused(o, p)'
  BY <1>2, <1>3 DEF AllRefused
<1> QED BY <1>2, <1>3, <1>4 DEF RefusedTo

\* A step that stays in the round keeps what was refused in the rounds before.
LEMMA RoundKept ==
  ASSUME SameView, NEW o \in Outs, o = call.out, Reached(o), call.round # 2, call'.round = call.round
  PROVE  Reached(o)'
<1>1. Peer[o] \in {o, Peer[o]}
  OBVIOUS
<1>2. AllRefused(o, Peer[o]) => AllRefused(o, Peer[o])'
  BY <1>1, ReachedKept
<1> QED BY <1>2 DEF Reached

\* The members of a call.
LEMMA CallMembers ==
  ASSUME Inv, place # "idle"
  PROVE  /\ call = [x \in CallFields |-> call[x]] /\ call.out \in Outs /\ call.pos \in Nat
         /\ EnumPin(call.out, call.round) \in {call.out, Peer[call.out]}
         /\ EnumPin(call.out, call.round) \in Pins
<1>1. /\ call = [x \in CallFields |-> call[x]] /\ call.out \in Outs /\ call.pos \in Nat
  BY DEF Inv, CallInv, CallTyped
<1>2. /\ EnumPin(call.out, call.round) \in {call.out, Peer[call.out]}
  BY DEF EnumPin
<1>3. call.out \in Pins /\ Peer[call.out] \in Pins
  BY <1>1, Peers
<1> QED BY <1>1, <1>2, <1>3

LEMMA OffersCounted ==
  ASSUME Inv, NEW p \in Pins
  PROVE  Len(Offered(p)) \in Nat /\ DOMAIN Offered(p) = 1..Len(Offered(p))
<1>1. CASE p = "source"
  <2>1. Offered(p) = offers /\ offers \in SourceOffers
    BY <1>1 DEF Offered, TypesOf, Inv, GraphTyped
  <2> QED BY <2>1, TypesAreTypes
<1>2. CASE p # "source"
  <2>1. Offered(p) = <<>> \/ Offered(p) = <<Fake(g.m_mt["xformIn"])>>
    BY <1>2 DEF Offered, TypesOf, Pins, Outs, Ins
  <2> QED BY <2>1
<1> QED BY <1>1, <1>2

LEMMA EnumerateTries ==
  ASSUME Inv, TriedInv, Enumerate
  PROVE  TriedInv'
<1> DEFINE o == call.out
<1>1. place = "agree" /\ UNCHANGED <<offers, accepts, version, luck>>
  BY DEF Enumerate
<1>2. CASE call.round = 2
  <2>1. place' = "idle"
    BY <1>2 DEF Enumerate, Fail
  <2> QED BY <2>1 DEF TriedInv, Negotiating, Trying
<1>3. CASE call.round # 2
  <2>1. /\ place' = "next" /\ UNCHANGED <<g, result>>
        /\ call' = [call EXCEPT !.pos = 0, !.roundFailure = "S_OK",
                                !.seen = VersionOf(EnumPin(call.out, call.round))]
    BY <1>3 DEF Enumerate
  <2>2. /\ call'.out = o /\ call'.round = call.round /\ call'.pmt = call.pmt /\ call'.pos = 0
        /\ call'.matching = call.matching
        /\ call'.seen = VersionOf(EnumPin(o, call.round))
    BY <1>1, <2>1, CallMembers DEF CallFields
  <2>3. SameView
    BY <1>1, <2>1, <2>2 DEF SameView
  <2> SUFFICES ASSUME Negotiating'
               PROVE  Reached(o)' /\ ReachedIn(o, EnumPin(o, call.round))'
    BY <2>1, <2>2 DEF TriedInv
  <2>4. o \in Outs /\ Reached(o)
    BY <1>1, <2>2, CallMembers DEF Negotiating, TriedInv
  <2>5. Reached(o)'
    BY <1>3, <2>2, <2>3, <2>4, RoundKept
  <2> DEFINE p == EnumPin(o, call.round)
  <2>6. p \in Pins
    BY <1>1, CallMembers
  <2>7. call'.seen = VersionOf(p)'
    BY <1>1, <2>2 DEF VersionOf
  <2>8. Offered(p)' = Offered(p)
    BY <1>1, <2>1 DEF Offered, TypesOf
  <2>9. RefusedTo(o, p, 0)'
    BY <2>6, <2>8, OffersCounted DEF RefusedTo
  <2> QED BY <2>1, <2>2, <2>5, <2>7, <2>9 DEF ReachedIn, Trying
<1> QED BY <1>2, <1>3

LEMMA NextTypeTries ==
  ASSUME Inv, TriedInv, NextType
  PROVE  TriedInv'
<1> SUFFICES ASSUME NEW o, o = call.out, NEW p, p = EnumPin(call.out, call.round),
                    NEW n, n = call.pos
             PROVE  TriedInv'
  OBVIOUS
<1>1. place = "next" /\ UNCHANGED <<g, result, offers, accepts, version>>
  BY DEF NextType
<1>2. o \in Outs /\ p \in Pins /\ p \in {o, Peer[o]} /\ call.pos \in Nat
  BY <1>1, CallMembers
<1>3. call'.matching = call.matching => SameView
  BY <1>1 DEF SameView
<1>4. /\ Offered(p) = TypesOf(g, p) /\ Len(Offered(p)) \in Nat
      /\ DOMAIN Offered(p) = 1..Len(Offered(p))
  BY <1>2, OffersCounted DEF Offered
<1>5. CASE call.seen = VersionOf(p) /\ call.pos < Len(TypesOf(g, p))
  <2>1. /\ place' = IF Offered(p)[call.pos + 1] \in call.matching THEN "attempt" ELSE "next"
        /\ luck' = luck
        /\ call' = [call EXCEPT !.pos = call.pos + 1,
                                !.type = TypesOf(g, p)[call.pos + 1]]
    BY <1>4, <1>5 DEF NextType
  <2>2. /\ call'.out = o /\ call'.round = call.round /\ call'.pmt = call.pmt
        /\ call'.matching = call.matching
        /\ call'.pos = call.pos + 1 /\ call'.seen = call.seen
        /\ call'.type = Offered(p)[call.pos + 1]
    BY <1>1, <1>4, <2>1, CallMembers DEF CallFields
  <2> SUFFICES ASSUME Negotiating'
               PROVE  Reached(o)' /\ ReachedIn(o, p)'
    BY <2>1, <2>2 DEF TriedInv, EnumPin
  <2>3. Reached(o) /\ ReachedIn(o, p)
    BY <1>1, <2>1, <2>2 DEF Negotiating, TriedInv, Trying
  <2>4. call.round # 2
    BY <1>1, <2>3 DEF Reached
  <2>5. Reached(o)'
    BY <1>2, <1>3, <2>2, <2>3, <2>4, RoundKept
  <2>6. p = EnumPin(call'.out, call'.round)
    BY <2>2 DEF EnumPin
  <2>7. call'.seen = VersionOf(p)'
    BY <1>5, <1>1, <2>2, <2>6 DEF VersionOf
  <2>8. Offered(p)' = Offered(p)
    BY <1>2, <1>3, <2>2, ViewKept
  <2>9. RefusedTo(o, p, call.pos)
    BY <1>1, <2>3 DEF ReachedIn
  <2>10. \A k \in DOMAIN Offered(p)' : k <= call.pos => Refuses(o, Offered(p)[k])'
    <3>1. SameView
      BY <1>3, <2>2
    <3> QED BY Zenon, <1>2, <2>9, <3>1, ReachedKept
  <2>11. RefusedTo(o, p, call.pos - 1)'
    BY <1>2, <2>2, <2>10 DEF RefusedTo
  <2>12. call'.pos \in DOMAIN Offered(p)' /\ call'.type = Offered(p)'[call'.pos]
    BY <1>2, <1>4, <1>5, <2>2, <2>8
  <2>13. CASE Offered(p)[call.pos + 1] \in call.matching
    <3>1. place' = "attempt"
      BY <2>1, <2>13
    <3> QED BY <2>2, <2>5, <2>6, <2>7, <2>11, <2>12, <3>1 DEF ReachedIn, Trying
  <2>14. CASE Offered(p)[call.pos + 1] \notin call.matching
    <3>1. place' = "next"
      BY <2>1, <2>14
    <3>2. Refuses(o, Offered(p)[n + 1])'
      BY <2>2, <2>6, <2>8, <2>14 DEF Refuses
    <3>3. RefusedTo(o, p, n + 1)'
      BY <1>2, <1>4, <2>2, <2>8, <2>10, <3>2 DEF RefusedTo
    <3> QED BY <2>2, <2>5, <2>6, <2>7, <3>1, <3>3 DEF ReachedIn, Trying
  <2> QED BY <2>13, <2>14
<1>6. CASE ~(call.seen = VersionOf(p) /\ call.pos < Len(TypesOf(g, p)))
  <2>1. /\ place' = "agree" /\ luck' = (luck /\ call.seen = VersionOf(p))
    BY <1>6 DEF NextType
  <2>2. /\ call'.out = o /\ call'.round = call.round + 1 /\ call'.pmt = call.pmt
        /\ call'.matching = call.matching
    <3> DEFINE hr == IF call.roundFailure = "S_OK" THEN "NO_ACCEPTABLE_TYPES"
                     ELSE call.roundFailure
    <3>1. call' = [call EXCEPT !.round = call.round + 1,
                               !.hrFailure = IF Telling(hr) THEN hr ELSE call.hrFailure]
      BY <1>6 DEF NextType
    <3> HIDE DEF hr
    <3> QED BY <1>1, <3>1, CallMembers DEF CallFields
  <2> SUFFICES ASSUME Negotiating' PROVE Reached(o)'
    BY <2>1, <2>2 DEF TriedInv
  <2>3. luck /\ call.seen = VersionOf(p) /\ call.pmt = NoType
    BY <2>1, <2>2 DEF Negotiating
  <2>4. Reached(o) /\ ReachedIn(o, p)
    BY <1>1, <2>3 DEF Negotiating, TriedInv
  <2>5. call.round \in 0..1
    BY <1>1, <2>4 DEF Reached
  <2>6. AllRefused(o, p)
    BY <1>1, <1>2, <1>4, <1>6, <2>3, <2>4 DEF ReachedIn, RefusedTo, AllRefused
  <2>7. \A q \in {o, Peer[o]} : AllRefused(o, q) => AllRefused(o, q)'
    BY <1>2, <1>3, <2>2, ReachedKept
  <2>8. CASE call.round = 0
    <3>1. p = Peer[o]
      BY <2>8 DEF EnumPin
    <3> QED BY <2>1, <2>2, <2>6, <2>7, <2>8, <3>1 DEF Reached
  <2>9. CASE call.round = 1
    <3>1. p = o
      BY <2>9 DEF EnumPin
    <3>2. AllRefused(o, o)' /\ AllRefused(o, Peer[o])'
      BY <2>2, <2>4, <2>6, <2>7, <2>9, <3>1 DEF Reached
    <3> QED BY <2>1, <2>2, <2>9, <3>2 DEF Reached
  <2> QED BY <2>5, <2>8, <2>9
<1> QED BY <1>5, <1>6

LEMMA AfterAttemptTries ==
  ASSUME Inv, TriedInv, AfterAttempt
  PROVE  TriedInv'
<1> DEFINE o == call.out
           p == EnumPin(call.out, call.round)
<1>1. place = "attempted" /\ UNCHANGED <<offers, accepts, version, luck>>
  BY DEF AfterAttempt
<1>2. CASE call.pmt # NoType
  <2>1. place' = "idle"
    BY <1>2 DEF AfterAttempt, Fail
  <2> QED BY <2>1 DEF TriedInv, Negotiating, Trying
<1>3. CASE call.pmt = NoType
  <2>1. /\ place' = "next" /\ UNCHANGED g
        /\ call' = [call EXCEPT !.roundFailure =
                      IF call.roundFailure = "S_OK" /\ Telling(result)
                      THEN result ELSE call.roundFailure]
    BY <1>3 DEF AfterAttempt
  <2>2. /\ call'.out = o /\ call'.round = call.round /\ call'.pmt = call.pmt
        /\ call'.matching = call.matching
        /\ call'.pos = call.pos /\ call'.seen = call.seen
    <3>1. call = [x \in CallFields |-> call[x]]
      BY <1>1, CallMembers
    <3> QED BY <2>1, <3>1 DEF CallFields
  <2> SUFFICES ASSUME Negotiating'
               PROVE  Reached(o)' /\ ReachedIn(o, EnumPin(o, call.round))'
    BY <2>1, <2>2 DEF TriedInv
  <2>3. Reached(o) /\ ReachedIn(o, p)
    BY <1>1, <1>3, <2>2 DEF Negotiating, TriedInv, Trying
  <2>4. o \in Outs /\ p \in Pins /\ p \in {o, Peer[o]} /\ call.pos \in Nat
    BY <1>1, CallMembers
  <2>5. SameView
    BY <1>1, <2>1, <2>2 DEF SameView
  <2>6. Reached(o)'
    BY <1>1, <2>2, <2>3, <2>4, <2>5, RoundKept DEF Reached
  <2>7. p' = p
    BY <2>2 DEF EnumPin
  <2>8. call'.seen = VersionOf(p)'
    BY <1>1, <2>2, <2>3, <2>7 DEF VersionOf, ReachedIn
  <2>9. RefusedTo(o, p, call.pos - 1) /\ Refuses(o, Offered(p)[call.pos])
    BY <1>1, <2>3 DEF ReachedIn, Trying
  <2>10. RefusedTo(o, p, call.pos)
    <3>1. DOMAIN Offered(p) = 1..Len(Offered(p))
      BY <2>4, OffersCounted
    <3> QED BY <2>4, <2>9, <3>1, OffersCounted DEF RefusedTo
  <2>11. RefusedTo(o, p, call.pos)'
    BY <1>1, <2>1, <2>2, <2>7, <2>10 DEF RefusedTo, Refuses, Offered, CheckMediaType, TypesOf
  <2> QED BY <2>1, <2>6, <2>8, <2>11 DEF ReachedIn, Trying
<1> QED BY <1>2, <1>3

\* The members that say what is connected, of a record that is still being made.
Shown(s) ==
  /\ IsRecord(s) /\ s.m_Connected \in [Pins -> Pins \cup {None}]
  /\ s.m_mt \in [Pins -> Types \cup {NoType}]

SameAt(s, t, p) == t.m_Connected[p] = s.m_Connected[p] /\ t.m_mt[p] = s.m_mt[p]

LEMMA AllocatorNotShown ==
  ASSUME NEW s, IsRecord(s), NEW p
  PROVE  /\ IsRecord(DropAllocator(s, p)) /\ DropAllocator(s, p).m_Connected = s.m_Connected
         /\ DropAllocator(s, p).m_mt = s.m_mt
<1>1. CASE s.m_pAllocator[p] = None
  BY <1>1 DEF DropAllocator
<1>2. CASE s.m_pAllocator[p] # None
  <2> DEFINE r == [s EXCEPT !.committed = @ \ {s.m_pAllocator[p]}]
             d == ReleaseAllocator(r, p)
  <2>1. IsRecord(r) /\ r.m_Connected = s.m_Connected /\ r.m_mt = s.m_mt
    BY DEF IsRecord, Fields
  <2> HIDE DEF r
  <2>2. IsRecord(d) /\ d.m_Connected = r.m_Connected /\ d.m_mt = r.m_mt
    BY <2>1 DEF ReleaseAllocator, IsRecord, Fields
  <2>3. DropAllocator(s, p) = d
    BY <1>2 DEF DropAllocator, r
  <2> HIDE DEF d
  <2> QED BY <2>1, <2>2, <2>3
<1> QED BY <1>1, <1>2

LEMMA BreakNotShown ==
  ASSUME NEW s, Shown(s), NEW p
  PROVE  /\ Shown(BreakConnect(s, p)) /\ BreakConnect(s, p).m_Connected = s.m_Connected
         /\ BreakConnect(s, p).m_mt = s.m_mt
<1> DEFINE r == DropAllocator(s, p)
           d == DropInputPin(r, p)
<1>1. IsRecord(r) /\ r.m_Connected = s.m_Connected /\ r.m_mt = s.m_mt
  BY AllocatorNotShown DEF Shown
<1> HIDE DEF r
<1>2. IsRecord(d) /\ d.m_Connected = r.m_Connected /\ d.m_mt = r.m_mt
  BY <1>1 DEF DropInputPin, IsRecord, Fields
<1>3. BreakConnect(s, p) = d
  BY DEF BreakConnect, r
<1> HIDE DEF d
<1> QED BY <1>1, <1>2, <1>3 DEF Shown

LEMMA ForgetShows ==
  ASSUME NEW s, Shown(s), NEW p \in Pins, NEW q \in Pins, q # p
  PROVE  SameAt(s, Forget(s, p), q)
<1>1. CASE ~IsConnected(s, p)
  BY <1>1 DEF Forget, SameAt
<1>2. CASE IsConnected(s, p)
  <2> DEFINE t == Forget(s, p)
  <2>1. t = [s EXCEPT !.pinRefs[s.m_Connected[p]] = @ - 1, !.m_Connected[p] = None,
                      !.m_mt[p] = NoType]
    BY <1>2 DEF Forget
  <2>2. t.m_Connected = [s.m_Connected EXCEPT ![p] = None] /\ t.m_mt = [s.m_mt EXCEPT ![p] = NoType]
    BY <2>1 DEF Shown, IsRecord, Fields
  <2> HIDE DEF t
  <2>3. SameAt(s, t, q)
    BY <2>2 DEF SameAt, Shown
  <2> QED BY <2>3 DEF t
<1> QED BY <1>1, <1>2

\* A failed attempt shows at the output pin only.
LEMMA AttemptedShows ==
  ASSUME NEW s, Shown(s), NEW o \in Outs, o = call.out, NEW hr, Attempted(s, hr), NEW q \in Pins, q # o
  PROVE  SameAt(s, g', q)
<1> DEFINE r == BreakConnect(s, o)
<1>1. Shown(r) /\ r.m_Connected = s.m_Connected /\ r.m_mt = s.m_mt
  BY BreakNotShown
<1>2. g' = Forget(r, o)
  BY DEF Attempted
<1> HIDE DEF r
<1>3. SameAt(r, g', q)
  BY <1>1, <1>2, ForgetShows DEF Pins
<1> QED BY <1>1, <1>3 DEF SameAt

LEMMA RememberShows ==
  ASSUME NEW s, Shown(s), NEW p \in Pins, NEW i \in Pins, NEW q \in Pins, q # p
  PROVE  SameAt(s, Remember(s, p, i), q) /\ Shown(Remember(s, p, i))
<1> DEFINE t == Remember(s, p, i)
<1>1. IsRecord(t) /\ t.m_Connected = [s.m_Connected EXCEPT ![p] = i] /\ t.m_mt = s.m_mt
  BY DEF Shown, IsRecord, Fields, Remember
<1> HIDE DEF t
<1>2. Shown(t)
  BY <1>1 DEF Shown
<1>3. SameAt(s, t, q)
  BY <1>1 DEF SameAt, Shown
<1> QED BY <1>2, <1>3 DEF t

LEMMA TypeShows ==
  ASSUME NEW s, Shown(s), NEW p \in Pins, NEW y, NEW q \in Pins, q # p
  PROVE  SameAt(s, [s EXCEPT !.m_mt[p] = y], q)
<1> DEFINE t == [s EXCEPT !.m_mt[p] = y]
<1>1. t.m_Connected = s.m_Connected /\ t.m_mt = [s.m_mt EXCEPT ![p] = y]
  BY DEF Shown, IsRecord, Fields
<1> QED BY <1>1 DEF SameAt, Shown

\* A step of an attempt that goes on with the same call.
LEMMA AttemptStays ==
  ASSUME Inv, TriedInv, NEW o \in Outs, o = call.out, place \in Trying, place' \in Trying, luck' => luck,
         UNCHANGED call, luck' => SameView, luck' /\ place' = "attempted" => Refuses(o, call.type)
  PROVE  TriedInv'
<1> DEFINE p == EnumPin(call.out, call.round)
<1> SUFFICES ASSUME Negotiating'
             PROVE  Reached(o)' /\ ReachedIn(o, EnumPin(o, call.round))'
  BY DEF TriedInv, Trying
<1>1. SameView /\ luck /\ call.pmt = NoType /\ luck'
  BY DEF Negotiating
<1>2. Reached(o) /\ ReachedIn(o, p) /\ place # "agree"
  BY <1>1 DEF Negotiating, TriedInv, Trying
<1>3. p \in Pins /\ p \in {o, Peer[o]} /\ call.pos \in Nat
  BY CallMembers DEF Trying
<1>4. Reached(o)'
  BY <1>1, <1>2, RoundKept DEF Reached
<1>5. p' = p /\ call' = call
  BY DEF EnumPin
<1>6. Offered(p)' = Offered(p) /\ VersionOf(p)' = VersionOf(p)
  BY <1>1, <1>3, <1>5, ViewKept
<1>7. \A t : Refuses(o, t)' <=> Refuses(o, t)
  BY <1>1, ViewKept
<1>8. RefusedTo(o, p, call.pos - 1)'
  <2>1. \A k \in DOMAIN Offered(p) : k <= call.pos - 1 => Refuses(o, Offered(p)[k])
    BY <1>2 DEF ReachedIn, RefusedTo
  <2>2. \A k : Refuses(o, Offered(p)[k])' <=> Refuses(o, Offered(p)[k])
    BY <1>6, <1>7
  <2> QED BY <1>5, <1>6, <2>1, <2>2 DEF RefusedTo
<1>9. place' = "attempted" => Refuses(o, call.type)'
  BY <1>1, <1>5, <1>7
<1>10. call'.pos \in DOMAIN Offered(p)' /\ call'.type = Offered(p)'[call'.pos] /\ call'.seen = VersionOf(p)'
  BY <1>2, <1>5, <1>6 DEF ReachedIn
<1> QED BY <1>4, <1>8, <1>9, <1>10 DEF ReachedIn, Trying

LEMMA AttemptTries ==
  ASSUME Inv, TriedInv, Attempt
  PROVE  TriedInv'
<1> DEFINE o == call.out
           i == Peer[o]
           y == call.type
           s1 == [g EXCEPT !.m_pInputPin[o] = i, !.pinRefs[i] = @ + 1]
           r == Remember(s1, o, i)
           s2 == [r EXCEPT !.m_mt[o] = y]
           v == "xformIn"
<1>1. /\ place = "attempt" /\ place \in Trying /\ o \in Outs /\ o \in Pins /\ i \in Pins
      /\ UNCHANGED <<offers, accepts, version, call>>
  BY Peers, CallMembers DEF Attempt, Trying
<1>2. Shown(g)
  BY DEF Inv, Whole, Typed, Shown
<1>3. Shown(s1) /\ s1.m_Connected = g.m_Connected /\ s1.m_mt = g.m_mt
  BY <1>2 DEF Shown, IsRecord, Fields
<1>4. \/ ~CheckConnect(g, o) /\ Attempted(g, "OTHER") /\ luck' = luck
      \/ luck' = FALSE /\ place' = "attempted"
      \/ g' = s2 /\ place' = "receive" /\ luck' = luck
      \/ ~CheckMediaType(g, o, y) /\ Attempted(s1, "TYPE_NOT_ACCEPTED") /\ luck' = luck
  BY Zenon DEF Attempt, Attempted
<1> HIDE DEF s1
<1>5. Shown(r) /\ \A q \in Pins : q # o => SameAt(s1, r, q)
  <2>1. ASSUME NEW q \in Pins, q # o PROVE SameAt(s1, r, q) /\ Shown(r)
    BY <1>1, <1>3, <2>1, RememberShows
  <2>2. i # o
    BY <1>1, Peers
  <2> QED BY <1>1, <2>1, <2>2
<1> HIDE DEF r
<1>6. \A q \in Pins : q # o => SameAt(r, s2, q)
  BY <1>1, <1>5, TypeShows, Zenon
<1> HIDE DEF s2
<1>7. v \in Pins /\ (o = "xformOut" => v # o)
  BY DEF Pins, Ins
<1>8. luck' => \/ SameAt(g, g', v)
               \/ o # "xformOut"
  <2>1. CASE Attempted(g, "OTHER")
    BY <1>1, <1>2, <1>7, <2>1, AttemptedShows
  <2>2. CASE Attempted(s1, "TYPE_NOT_ACCEPTED")
    <3>1. o = "xformOut" => SameAt(s1, g', v)
      BY <1>1, <1>3, <1>7, <2>2, AttemptedShows
    <3> QED BY <1>3, <3>1 DEF SameAt
  <2>3. CASE g' = s2
    BY <1>3, <1>5, <1>6, <1>7, <2>3 DEF SameAt
  <2> QED BY <1>4, <2>1, <2>2, <2>3
<1>9. luck' => SameView
  BY <1>1, <1>8 DEF SameView, SameAt
<1>10. ~CheckConnect(g, o) => ~CheckMediaType(g, o, y)
  BY DEF CheckConnect, CheckMediaType
<1>11. luck' /\ place' = "attempted" => Refuses(o, y)
  BY <1>4, <1>10 DEF Refuses
<1>12. place' \in Trying /\ (luck' => luck)
  BY <1>4 DEF Attempted, Trying
<1> QED BY <1>1, <1>9, <1>11, <1>12, AttemptStays

LEMMA ReceiveTries ==
  ASSUME Inv, TriedInv, Receive
  PROVE  TriedInv'
<1> DEFINE o == call.out
           i == Peer[o]
           y == call.type
           b == BreakConnect(g, i)
           v == "xformIn"
<1>1. /\ place = "receive" /\ place \in Trying /\ o \in Outs /\ o \in Pins /\ i \in Pins
      /\ UNCHANGED <<offers, accepts, version, call>>
  BY Peers, CallMembers DEF Receive, Trying
<1>2. Shown(g)
  BY DEF Inv, Whole, Typed, Shown
<1>3. \/ luck' = FALSE /\ place' = "attempted"
      \/ place' = "allocate"
      \/ ~CheckMediaType(g, i, y) /\ Attempted(b, "TYPE_NOT_ACCEPTED") /\ luck' = luck
  BY DEF Receive, Attempted
<1>4. CASE place' = "allocate"
  BY <1>4 DEF TriedInv, Negotiating, Trying
<1>5. CASE place' # "allocate"
  <2>1. Shown(b) /\ b.m_Connected = g.m_Connected /\ b.m_mt = g.m_mt
    BY <1>2, BreakNotShown
  <2> HIDE DEF b
  <2>2. v \in Pins /\ (o = "xformOut" => v # o)
    BY DEF Pins, Ins
  <2>3. luck' => SameView
    <3>1. luck' /\ o = "xformOut" => SameAt(b, g', v)
      BY <1>1, <1>3, <1>5, <2>1, <2>2, AttemptedShows
    <3> QED BY <1>1, <2>1, <3>1 DEF SameView, SameAt
  <2>4. luck' /\ place' = "attempted" => Refuses(o, y)
    BY <1>3, <1>5 DEF Refuses
  <2>5. place' \in Trying /\ (luck' => luck)
    BY <1>3, <1>5 DEF Attempted, Trying
  <2> QED BY <1>1, <2>3, <2>4, <2>5, AttemptStays
<1> QED BY <1>4, <1>5

LEMMA TriedInit == Init => TriedInv
BY DEF Init, TriedInv, Negotiating, Trying

LEMMA ConnectTries ==
  ASSUME TriedInv, NEW o \in Outs, NEW t, NEW m, ConnectRefused(o) \/ Connect(o, t, m)
  PROVE  TriedInv'
<1>1. CASE ConnectRefused(o)
  BY <1>1 DEF ConnectRefused, TriedInv, Negotiating, Trying
<1>2. CASE Connect(o, t, m)
  <2>1. call'.pmt = t /\ call'.round = 0
    BY <1>2 DEF Connect, NoCall
  <2>2. place' = IF t = NoType THEN "agree" ELSE "attempt"
    BY <1>2 DEF Connect
  <2> QED BY <2>1, <2>2 DEF TriedInv, Negotiating, Trying, Reached
<1> QED BY <1>1, <1>2

\* A filter is started or stopped, which nobody's types depend on.
LEMMA GraphTries ==
  ASSUME Inv, TriedInv, UNCHANGED <<offers, accepts, version, call, place, luck>>,
         g'.m_Connected = g.m_Connected, g'.m_mt = g.m_mt
  PROVE  TriedInv'
<1>1. \A p : IsConnected(g, p)' <=> IsConnected(g, p)
  BY DEF IsConnected
<1>2. \A p : Offered(p)' = Offered(p) /\ VersionOf(p)' = VersionOf(p)
  BY <1>1 DEF Offered, TypesOf, VersionOf
<1>3. \A p, t : CheckMediaType(g, p, t)' <=> CheckMediaType(g, p, t)
  BY <1>1 DEF CheckMediaType
<1>4. \A o, t : Refuses(o, t)' <=> Refuses(o, t)
  BY <1>3 DEF Refuses
<1>5. \A o, p, k : Refuses(o, Offered(p)[k])' <=> Refuses(o, Offered(p)[k])
  BY <1>2, <1>4
<1>6. \A o, p : AllRefused(o, p)' <=> AllRefused(o, p)
  BY <1>2, <1>5 DEF AllRefused
<1>7. \A o, p, n : RefusedTo(o, p, n)' <=> RefusedTo(o, p, n)
  BY <1>2, <1>5 DEF RefusedTo
<1>8. Negotiating' <=> Negotiating
  BY DEF Negotiating
<1>9. Reached(call.out)' <=> Reached(call.out)
  BY <1>6 DEF Reached
<1>10. EnumPin(call.out, call.round)' = EnumPin(call.out, call.round)
  BY DEF EnumPin
<1>11. ReachedIn(call.out, EnumPin(call.out, call.round))' <=>
       ReachedIn(call.out, EnumPin(call.out, call.round))
  BY <1>2, <1>4, <1>7, <1>10 DEF ReachedIn
<1> QED BY <1>8, <1>9, <1>11 DEF TriedInv

LEMMA TriedStep == Inv /\ TriedInv /\ [Next]_vars => TriedInv'
<1> SUFFICES ASSUME Inv, TriedInv, [Next]_vars PROVE TriedInv'
  OBVIOUS
<1>1. ASSUME NEW o \in Outs, ConnectRefused(o) \/ \E t : \E m : Connect(o, t, m)
      PROVE  TriedInv'
  BY <1>1, ConnectTries
<1>2. CASE Enumerate \/ NextType \/ Attempt \/ Receive \/ AfterAttempt
  BY <1>2, EnumerateTries, NextTypeTries, AttemptTries, ReceiveTries, AfterAttemptTries
<1>3. CASE EnumerateFails
  BY <1>3 DEF EnumerateFails, TriedInv, Negotiating
<1>4. CASE DecideAllocator \/ InitAllocator
  <2>1. place' \in {"idle", "init", "undo"} /\ (place' = "undo" => ~luck')
    BY <1>4 DEF DecideAllocator, InitAllocator, Succeed
  <2> QED BY <2>1 DEF TriedInv, Negotiating, Trying
<1>5. CASE Undo
  <2>1. place = "undo" /\ luck' = luck /\ place' = "attempted"
    BY <1>5 DEF Undo, Attempted
  <2> QED BY <2>1 DEF TriedInv, Negotiating
<1>6. CASE ChangeTypes
  <2>1. UNCHANGED place /\ luck' = (luck /\ place = "idle")
    BY <1>6 DEF ChangeTypes
  <2>2. luck' => luck /\ place = "idle"
    BY <2>1
  <2> QED BY <2>1, <2>2 DEF TriedInv, Negotiating, Trying
<1>7. ASSUME NEW p \in Pins, Disconnect(p)
      PROVE  TriedInv'
  BY <1>7 DEF Disconnect, TriedInv, Negotiating, Trying
<1>8. ASSUME NEW f \in Filters, Pause(f) \/ Stop(f)
      PROVE  TriedInv'
  <2>1. IsRecord(g)
    BY DEF Inv, Whole
  <2>2. UNCHANGED <<offers, accepts, version, call, place, luck>>
    BY <1>8 DEF Pause, Stop
  <2>3. g'.m_Connected = g.m_Connected /\ g'.m_mt = g.m_mt
    BY <1>8, <2>1 DEF Pause, Stop, Activated, Deactivated, IsRecord, Fields
  <2> QED BY <2>2, <2>3, GraphTries
<1>9. CASE UNCHANGED vars
  BY <1>9, GraphTries DEF vars
<1> QED BY <1>1, <1>2, <1>3, <1>4, <1>5, <1>6, <1>7, <1>8, <1>9 DEF Next, Connecting

\* A call that names no type, meets no failure and does not succeed ends when the list of
\* both pins has been gone through.
LEMMA GivenUp ==
  ASSUME Inv, TriedInv, [Next]_vars, place # "idle", place' = "idle", call.pmt = NoType, luck',
         result' # "S_OK"
  PROVE  AllRefused(call.out, call.out) /\ AllRefused(call.out, Peer[call.out])
<1>1. Enumerate /\ call.round = 2
  <2>1. Connecting
    BY DEF Next, vars, ConnectRefused, Connect, ChangeTypes, Disconnect, Pause, Stop
  <2>2. ~NextType /\ ~EnumerateFails /\ ~AfterAttempt
    BY DEF NextType, EnumerateFails, AfterAttempt
  <2>3. ~Attempt /\ ~Receive /\ ~Undo
    BY DEF Attempt, Receive, Undo, Attempted
  <2>4. ~DecideAllocator /\ ~InitAllocator
    BY DEF DecideAllocator, InitAllocator, Succeed
  <2> QED BY <2>1, <2>2, <2>3, <2>4 DEF Connecting, Enumerate
<1>2. luck /\ place = "agree"
  BY <1>1 DEF Enumerate
<1> QED BY <1>1, <1>2 DEF TriedInv, Negotiating, Reached

\* A Connect that leaves the type to the pins and meets no failure but refused types, nor a
\* list that changes meanwhile, has tried every type that either end offers and that
\* matches the partially specified type of the caller, if there is one: it fails only if
\* there is none that both accept.
THEOREM NegotiationFinds == Spec => Negotiated
<1>1. Inv /\ TriedInv /\ [Next]_vars =>
        [place # "idle" /\ place' = "idle" /\ call.pmt = NoType /\ luck' /\ result' # "S_OK"
           => Common(call.out, g) \cap call.matching = {}]_vars
  <2> SUFFICES ASSUME Inv, TriedInv, [Next]_vars, place # "idle", place' = "idle",
                      call.pmt = NoType, luck', result' # "S_OK"
               PROVE  Common(call.out, g) \cap call.matching = {}
    OBVIOUS
  <2>1. AllRefused(call.out, call.out) /\ AllRefused(call.out, Peer[call.out])
    BY GivenUp
  <2> QED BY <2>1 DEF Common, AllRefused, Offered, Refuses
<1> QED BY <1>1, TriedInit, TriedStep, InvHolds, PTL DEF Spec, Negotiated

=============================================================================
