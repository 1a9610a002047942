--------------------------- MODULE PinEnumerator ----------------------------
(***************************************************************************)
(* The enumerator of the pins of a filter (CEnumPins in amfilter.cpp).  It *)
(* takes no lock: the filter adds and removes pins between any two of the  *)
(* calls it makes, and all they share is a version that the filter         *)
(* increments after each change (IncrementPinVersion).                     *)
(*                                                                         *)
(* An enumerator is used by one thread at a time and may be cloned.  A pin *)
(* is identified by its address, which a later pin may have again.         *)
(***************************************************************************)
EXTENDS Integers, Sequences, SequencesExt

CONSTANTS
  Addresses,  \* of pins
  FirstPins,  \* the lists of pins that filters begin with
  MaxPins,    \* bound on the pins of the filter
  MaxVersion, \* bound on the changes of its list
  MaxBatch    \* bound on the pins that one call asks for

PinEnumeratorAssumption ==
  /\ MaxPins \in Nat /\ MaxVersion \in Nat \ {0} /\ MaxBatch \in Nat
  /\ \A s \in FirstPins : s \in Seq(Addresses) /\ Len(s) <= MaxPins

VARIABLES
  pins,         \* what GetPin and GetPinCount answer
  pinVersion,   \* m_PinVersion
  pinPending,   \* the list has changed, m_PinVersion not yet
  pe            \* an enumerator and its clone

vars == <<pins, pinVersion, pinPending, pe>>

Enums == {1, 2}
NoEnum == [at |-> "none", m_Position |-> 0, m_PinCount |-> 0, m_Version |-> 0,
           m_PinCache |-> {}, want |-> 0, fetched |-> <<>>,
           \* auxiliary: what Next has returned since Reset, and whether it
           \* has come to the end, or pins have been skipped
           got |-> <<>>, done |-> FALSE, skipped |-> FALSE]

TypeOK ==
  /\ pins \in Seq(Addresses) /\ Len(pins) <= MaxPins
  /\ pinVersion \in 1..MaxVersion
  /\ pinPending \in BOOLEAN
  /\ \A e \in Enums :
       /\ pe[e].at \in {"none", "idle", "version", "count", "loop", "outOfSync"}
       /\ pe[e].m_Position \in 0..MaxPins
       /\ pe[e].m_PinCount \in 0..MaxPins
       /\ pe[e].m_Version \in 0..MaxVersion
       /\ pe[e].m_PinCache \subseteq Addresses
       /\ pe[e].want \in 0..MaxBatch
       /\ Len(pe[e].fetched) <= pe[e].want

Init ==
  /\ pins \in FirstPins
  /\ pinVersion = 1
  /\ pinPending = FALSE
  /\ pe = [e \in Enums |-> NoEnum]

-----------------------------------------------------------------------------
(* The filter.                                                             *)

AddPin ==
  /\ ~pinPending /\ pinVersion < MaxVersion /\ Len(pins) < MaxPins
  /\ \E a \in Addresses \ ToSet(pins) : pins' = Append(pins, a)
  /\ pinPending' = TRUE
  /\ UNCHANGED <<pinVersion, pe>>

RemovePin ==
  /\ ~pinPending /\ pinVersion < MaxVersion
  /\ \E n \in DOMAIN pins : pins' = RemoveAt(pins, n)
  /\ pinPending' = TRUE
  /\ UNCHANGED <<pinVersion, pe>>

IncrementPinVersion ==
  /\ pinPending
  /\ pinVersion' = pinVersion + 1
  /\ pinPending' = FALSE
  /\ UNCHANGED <<pins, pe>>

-----------------------------------------------------------------------------
(* CEnumPins.                                                              *)

PinStep(e, r) ==
  /\ pe' = [pe EXCEPT ![e] = r]
  /\ UNCHANGED <<pins, pinVersion, pinPending>>

AreWeOutOfSync(r) == r.m_Version # pinVersion

\* A new enumerator, and one that is reset, read the version and the count;
\* only these two forget which pins have been returned.
NewPins(e) == pe[e].at = "none" /\ PinStep(e, [NoEnum EXCEPT !.at = "version"])
ResetPins(e) ==
  /\ pe[e].at \in {"idle", "outOfSync"}
  /\ PinStep(e, [NoEnum EXCEPT !.at = "version"])

ClonePins(e, f) ==
  /\ pe[e].at = "idle" /\ pe[f].at = "none"
  /\ ~AreWeOutOfSync(pe[e])
  /\ PinStep(f, pe[e])

ReleasePins(e) == pe[e].at \in {"idle", "outOfSync"} /\ PinStep(e, NoEnum)

\* Refresh, and the same lines of Reset and the constructor.
Refresh(e) ==
  \/ /\ pe[e].at = "version"
     /\ PinStep(e, [pe[e] EXCEPT !.m_Version = pinVersion, !.at = "count"])
  \/ /\ pe[e].at = "count"
     /\ PinStep(e, [pe[e] EXCEPT !.m_PinCount = Len(pins), !.m_Position = 0,
                                 !.at = IF pe[e].want = 0 THEN "idle" ELSE "loop"])

NextPins(e, n) ==
  /\ pe[e].at = "idle"
  /\ PinStep(e, [pe[e] EXCEPT !.want = n, !.done = FALSE,
       !.at = IF AreWeOutOfSync(pe[e]) THEN "version" ELSE "loop"])

\* Fault: the end of the list is not noticed.
KeepGoing(r) == Len(r.fetched) < r.want

More(r) == Len(r.fetched) < r.want /\ r.m_Position < r.m_PinCount

\* One round of the loop of Next: a pin that is gone ends it with
\* VFW_E_ENUM_OUT_OF_SYNC, one that has been returned before is passed over.
FetchPin(e) ==
  LET r == pe[e]
      n == r.m_Position + 1
  IN /\ r.at = "loop" /\ More(r)
     /\ IF n > Len(pins)
        THEN PinStep(e, [r EXCEPT !.m_Position = n, !.at = "outOfSync", !.want = 0,
                                  !.fetched = <<>>])
        ELSE PinStep(e, [r EXCEPT
               !.m_Position = n,
               !.fetched = IF pins[n] \in r.m_PinCache THEN @ ELSE Append(@, pins[n]),
               !.m_PinCache = @ \cup {pins[n]}])

ReturnPins(e) ==
  LET r == pe[e]
  IN /\ r.at = "loop" /\ ~More(r)
     /\ PinStep(e, [r EXCEPT !.at = "idle", !.want = 0, !.fetched = <<>>,
                             !.got = @ \o r.fetched,
                             !.done = Len(r.fetched) < r.want])

SkipPins(e, n) ==
  /\ pe[e].at = "idle"
  /\ ~AreWeOutOfSync(pe[e])
  /\ n <= pe[e].m_PinCount - pe[e].m_Position
  /\ PinStep(e, [pe[e] EXCEPT !.m_Position = @ + n, !.skipped = TRUE])

-----------------------------------------------------------------------------
Next ==
  \/ AddPin \/ RemovePin \/ IncrementPinVersion
  \/ NewPins(1) \/ ClonePins(1, 2)
  \/ \E e \in Enums :
       \/ ResetPins(e) \/ ReleasePins(e) \/ Refresh(e)
       \/ FetchPin(e) \/ ReturnPins(e)
       \/ \E n \in 1..MaxBatch : NextPins(e, n) \/ SkipPins(e, n)

Spec == Init /\ [][Next]_vars

-----------------------------------------------------------------------------
(* Properties.                                                             *)

\* Next never returns a pin twice, neither across changes of the list nor to
\* the clone of the enumerator that has returned it.
NoPinTwice == \A e \in Enums : IsInjective(pe[e].got)

\* An enumerator that has come to the end and is in sync has returned the address of
\* every pin the filter has, unless pins were skipped: no pin that is added or moves up
\* during the enumeration is missed.  A pin is its address here: a new one that has
\* the address of one that was returned and deleted is not told of, since m_PinCache
\* (amfilter.cpp:1134) keeps the address and no reference.
NoPinMissed ==
  \A e \in Enums :
    LET r == pe[e]
    IN r.done /\ ~r.skipped /\ ~AreWeOutOfSync(r) /\ ~pinPending =>
         ToSet(pins) \subseteq ToSet(r.got)

=============================================================================
