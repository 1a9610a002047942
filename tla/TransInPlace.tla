----------------------------- MODULE TransInPlace ----------------------------
(***************************************************************************)
(* How a filter that transforms in place settles which allocators its pins *)
(* use (transip.cpp): it sits between an upstream and a downstream filter, *)
(* tries to pass one allocator through, asks the graph to reconnect the    *)
(* other pin when a connection changes what was agreed, and copies each    *)
(* sample when the two pins end with different allocators.                 *)
(*                                                                         *)
(* A call of the graph's owner is one step: pins are connected while the   *)
(* filters are stopped, one call at a time.  The graph takes every request *)
(* for a reconnection (ReconnectPin, transip.cpp:386, 400, may fail).  The *)
(* members of the two pins are the fields of f, so that a handler calling  *)
(* another is the composition of two functions.                            *)
(***************************************************************************)
EXTENDS Integers

CONSTANTS
  Upstreams, Downstreams,   \* filters to connect; each is its own allocator
  Owns,                     \* objects that CreateMemoryAllocator makes
  Types,                    \* media types
  None

Allocators == Upstreams \cup Downstreams \cup Owns

InPlaceAssumption ==
  /\ \E o, p, q \in Owns : o # p /\ p # q /\ q # o
  /\ None \notin Allocators \cup Types

\* What the filter at the other end of a pin does: an upstream filter may insist on
\* its own allocator and declare it read-only; a downstream filter may offer an
\* allocator and may refuse any other.
UpManners == [insists : BOOLEAN, readOnly : BOOLEAN]
DownManners == {m \in [offers : BOOLEAN, onlyOwn : BOOLEAN] : m.onlyOwn => m.offers}

VARIABLES
  f,        \* the members of the two pins, see TypeOK
  pending,  \* reconnections asked of the graph: pin -> media type or None
  running,  \* the filters are not stopped
  buffer,   \* Receive: the allocator of the sample being transformed, or None
  copies,   \* Receive: copies made and not released
  rounds    \* auxiliary: reconnections since the owner connected a pin

vars == <<f, pending, running, buffer, copies, rounds>>

NoPending == [p \in {"in", "out"} |-> None]
InConnected(s) == s.up # None
OutConnected(s) == s.down # None

-----------------------------------------------------------------------------
(* Functions on the members; r.ok says whether a call succeeded.           *)

AddRef(s, a) == [s EXCEPT !.refs[a] = @ + 1]
Release(s, a) == IF a = None THEN s ELSE [s EXCEPT !.refs[a] = @ - 1]

\* CreateMemoryAllocator: an object that nobody uses, with one reference.
NewAllocator(s) == CHOOSE o \in Owns : o \notin {s.inAlloc, s.outAlloc, s.told}

\* Fault: the reference to the allocator used before is kept.
SetAllocatorOnly(s, a) == [AddRef(s, a) EXCEPT !.outAlloc = a]

\* CTransInPlaceOutputPin::SetAllocator
SetAllocator(s, a) == [Release(AddRef(s, a), s.outAlloc) EXCEPT !.outAlloc = a]

SetInput(s, a) == [Release(AddRef(s, a), s.inAlloc) EXCEPT !.inAlloc = a]

\* CTransInPlaceInputPin::GetAllocator: the caller gets a reference.
GetAllocator(s) ==
  IF OutConnected(s)
  THEN [ok |-> s.downManner.offers, alloc |-> s.down,
        s |-> IF s.downManner.offers THEN SetAllocator(AddRef(s, s.down), s.down) ELSE s]
  ELSE LET o == NewAllocator(s)
           t == IF s.inAlloc = None THEN [AddRef(s, o) EXCEPT !.inAlloc = o] ELSE s
       IN  [ok |-> TRUE, alloc |-> t.inAlloc, s |-> AddRef(t, t.inAlloc)]

\* IMemInputPin::NotifyAllocator of the downstream filter
NotifyDownstream(s, a) ==
  LET ok == a = s.down \/ ~s.downManner.onlyOwn
  IN  [ok |-> ok, s |-> IF ok THEN [s EXCEPT !.told = a] ELSE s]

\* NotifyAllocator makes an allocator for the output when it has none.
MakeOutput(s) ==
  IF s.outAlloc # None THEN s
  ELSE SetAllocator(s, IF s.downManner.offers THEN s.down ELSE NewAllocator(s))

\* CTransInPlaceInputPin::NotifyAllocator; fits: the output's allocator takes the
\* properties of the input's.
NotifyAllocator(s, a, ro, fits) ==
  LET t == [s EXCEPT !.readOnly = ro]
      made == MakeOutput(t)
      copying == IF made.outAlloc = a \/ ~fits THEN [ok |-> FALSE, s |-> made]
                 ELSE NotifyDownstream(made, made.outAlloc)
      passed == NotifyDownstream(t, a)
      sharing == IF passed.ok THEN [ok |-> TRUE, s |-> SetAllocator(passed.s, a)] ELSE passed
      n == IF ro /\ s.m_bModifiesData THEN copying ELSE sharing
  IN  IF ~OutConnected(s) THEN [ok |-> TRUE, s |-> SetInput(t, a)]
      ELSE IF n.ok THEN [ok |-> TRUE, s |-> SetInput(n.s, a)] ELSE n

\* CBaseInputPin::BreakConnect and CBaseOutputPin::BreakConnect; the filter
\* overrides neither.
BreakInput(s) == [Release(s, s.inAlloc) EXCEPT !.inAlloc = None, !.up = None, !.inType = None]
BreakOutput(s) ==
  [Release(s, s.outAlloc) EXCEPT !.outAlloc = None, !.down = None, !.outType = None, !.told = None]

\* The upstream filter decides: the allocator it is offered, unless it insists on its
\* own; its own if there is none or it is refused.
Decide(s, u, fits) ==
  LET own(t) == NotifyAllocator(t, u, s.upManner.readOnly, fits)
      offer == GetAllocator(s)
      taken == NotifyAllocator(offer.s, offer.alloc, FALSE, fits)
      left == Release(taken.s, offer.alloc)
  IN  IF s.upManner.insists \/ ~offer.ok THEN own(s)
      ELSE IF taken.ok THEN [taken EXCEPT !.s = left]
      ELSE own(left)

\* CBaseOutputPin::DecideAllocator of the output pin, with the filter's DecideBufferSize.
DecideAllocator(s, fits) ==
  LET o == NewAllocator(s)
      a == IF s.downManner.offers /\ fits THEN s.down ELSE o
      n == NotifyDownstream([AddRef(s, a) EXCEPT !.outAlloc = a], a)
  IN  n

CheckMediaType(s, p, t) ==
  IF p = "in" THEN OutConnected(s) => t \in s.downAccepts
  ELSE InConnected(s) => t \in s.upAccepts

-----------------------------------------------------------------------------
(* The graph's owner and the graph.                                        *)

Fresh == [up |-> None, down |-> None, inType |-> None, outType |-> None,
          inAlloc |-> None, outAlloc |-> None, told |-> None, readOnly |-> FALSE,
          upManner |-> [insists |-> FALSE, readOnly |-> FALSE],
          downManner |-> [offers |-> FALSE, onlyOwn |-> FALSE],
          upAccepts |-> {}, downAccepts |-> {}, m_bModifiesData |-> FALSE,
          m_bSampleSkipped |-> FALSE, m_bQualityChanged |-> FALSE,
          refs |-> [a \in Allocators |-> 0]]

Init ==
  /\ \E modifies \in BOOLEAN : f = [Fresh EXCEPT !.m_bModifiesData = modifies]
  /\ pending = NoPending /\ running = FALSE /\ buffer = None /\ copies = 0 /\ rounds = 0

\* An input connected to a type other than the output's has the output reconnected.
AfterInput(s, asked) ==
  IF OutConnected(s) /\ s.inType # s.outType THEN [asked EXCEPT !.out = s.inType] ELSE asked

\* An output that connects has a connected input reconnected, whatever its type.
AfterOutput(s, asked) == IF InConnected(s) THEN [asked EXCEPT !.in = s.outType] ELSE asked

\* The upstream filter connects to the input pin and decides the allocator; the pin
\* is broken again when it cannot.
ConnectInput(s, u, t, asked) ==
  \E fits \in BOOLEAN :
    LET joined == [s EXCEPT !.up = u, !.inType = t]
        d == Decide(joined, u, fits)
    IN  IF t \in s.upAccepts /\ CheckMediaType(s, "in", t)
        THEN /\ f' = IF d.ok THEN d.s ELSE BreakInput(d.s)
             /\ pending' = AfterInput(joined, asked)
        ELSE f' = s /\ pending' = asked

MayConnectOutput(s, t) ==
  t \in s.downAccepts /\ InConnected(s) /\ CheckMediaType(s, "out", t)

ConnectOutput(s, d, t, asked) ==
  \E fits \in BOOLEAN :
    LET joined == [s EXCEPT !.down = d, !.outType = t]
        n == DecideAllocator(joined, fits)
    IN  IF MayConnectOutput(s, t)
        THEN IF n.ok THEN f' = n.s /\ pending' = AfterOutput(n.s, asked)
             ELSE f' = BreakOutput(n.s) /\ pending' = asked
        ELSE f' = s /\ pending' = asked

Settled == pending = NoPending /\ ~running

OwnerConnectsInput ==
  /\ Settled /\ ~InConnected(f)
  /\ \E u \in Upstreams, t \in Types, m \in UpManners, A \in SUBSET Types \ {{}} :
       ConnectInput([f EXCEPT !.upManner = m, !.upAccepts = A], u, t, pending)
  /\ rounds' = 0
  /\ UNCHANGED <<running, buffer, copies>>

OwnerConnectsOutput ==
  /\ Settled /\ ~OutConnected(f)
  /\ \E d \in Downstreams, t \in Types, m \in DownManners, A \in SUBSET Types \ {{}} :
       ConnectOutput([f EXCEPT !.downManner = m, !.downAccepts = A], d, t, pending)
  /\ rounds' = 0
  /\ UNCHANGED <<running, buffer, copies>>

DisconnectInput ==
  /\ Settled /\ InConnected(f)
  /\ f' = BreakInput(f)
  /\ UNCHANGED <<pending, running, buffer, copies, rounds>>

DisconnectOutput ==
  /\ Settled /\ OutConnected(f)
  /\ f' = BreakOutput(f)
  /\ UNCHANGED <<pending, running, buffer, copies, rounds>>

\* The graph disconnects the pin it was asked to reconnect, if it still is connected,
\* and connects it to the same filter with the type it was given.
Reconnect(p) ==
  /\ pending[p] # None
  /\ LET left == [pending EXCEPT ![p] = None]
     IN  IF p = "in"
         THEN IF InConnected(f) THEN ConnectInput(BreakInput(f), f.up, pending[p], left)
              ELSE f' = f /\ pending' = left
         ELSE IF OutConnected(f) THEN ConnectOutput(BreakOutput(f), f.down, pending[p], left)
              ELSE f' = f /\ pending' = left
  /\ rounds' = rounds + 1
  /\ UNCHANGED <<running, buffer, copies>>

Start ==
  /\ Settled /\ InConnected(f) /\ OutConnected(f)
  /\ running' = TRUE
  /\ f' = [f EXCEPT !.m_bSampleSkipped = FALSE, !.m_bQualityChanged = FALSE]
  /\ UNCHANGED <<pending, buffer, copies, rounds>>

Stop ==
  /\ running /\ buffer = None /\ running' = FALSE
  /\ UNCHANGED <<f, pending, buffer, copies, rounds>>

-----------------------------------------------------------------------------
(* CTransInPlaceFilter::Receive                                            *)

UsingDifferentAllocators == f.inAlloc # f.outAlloc

\* Copy fails when the output's allocator gives no buffer, or one too small.  A sample
\* of another stream than AM_STREAM_MEDIA is passed to the output as it is, in no
\* allocator of these (transip.cpp:586): it is left out.
Receive ==
  /\ running /\ buffer = None
  /\ IF UsingDifferentAllocators
     THEN \/ /\ buffer' = f.outAlloc /\ copies' = copies + 1
             /\ f' = [f EXCEPT !.m_bSampleSkipped = FALSE]
          \/ UNCHANGED <<f, buffer, copies>>
     ELSE buffer' = f.inAlloc /\ UNCHANGED <<f, copies>>
  /\ UNCHANGED <<pending, running, rounds>>

TransformFails ==
  /\ buffer # None /\ buffer' = None
  /\ copies' = IF UsingDifferentAllocators THEN copies - 1 ELSE copies
  /\ UNCHANGED <<f, pending, running, rounds>>

\* The sample is delivered, or skipped when Transform returns S_FALSE.
Transform ==
  /\ buffer # None /\ buffer' = None
  /\ copies' = IF UsingDifferentAllocators THEN copies - 1 ELSE copies
  /\ \/ f' = f
     \/ f' = [f EXCEPT !.m_bSampleSkipped = TRUE, !.m_bQualityChanged = TRUE]
  /\ UNCHANGED <<pending, running, rounds>>

Next ==
  \/ OwnerConnectsInput \/ OwnerConnectsOutput \/ DisconnectInput \/ DisconnectOutput
  \/ \E p \in {"in", "out"} : Reconnect(p)
  \/ Start \/ Stop \/ Receive \/ TransformFails \/ Transform

Spec == Init /\ [][Next]_vars

-----------------------------------------------------------------------------
(* Properties.                                                             *)

\* Every variable has a value of its kind.
TypeOK ==
  /\ f.up \in Upstreams \cup {None} /\ f.down \in Downstreams \cup {None}
  /\ {f.inType, f.outType} \subseteq Types \cup {None}
  /\ {f.inAlloc, f.outAlloc, f.told, buffer} \subseteq Allocators \cup {None}
  /\ pending \in [{"in", "out"} -> Types \cup {None}]
  /\ {f.readOnly, f.m_bModifiesData, f.m_bSampleSkipped, f.m_bQualityChanged, running} \subseteq BOOLEAN
  /\ f.upManner \in UpManners /\ f.downManner \in DownManners
  /\ f.upAccepts \subseteq Types /\ f.downAccepts \subseteq Types
  /\ f.refs \in [Allocators -> Int] /\ copies \in Int /\ rounds \in Nat

\* "we'll stick with one per pointer": through every failed negotiation, fallback and
\* reconnection, an allocator has one reference for each pin whose m_pAllocator it is.
OneReferencePerPointer ==
  \A a \in Allocators :
    f.refs[a] = (IF f.inAlloc = a THEN 1 ELSE 0) + (IF f.outAlloc = a THEN 1 ELSE 0)

\* Once the reconnections asked for are done, two connected pins have the same media
\* type, which both neighbours accept, and the downstream filter was told of the very
\* allocator its samples will come from.
Agreed ==
  pending = NoPending /\ InConnected(f) /\ OutConnected(f) =>
    /\ f.inType = f.outType /\ f.inType \in f.upAccepts \cap f.downAccepts
    /\ f.told = f.outAlloc

\* Whatever sequence of connections and reconnections led to it, a sample is
\* transformed in a buffer of the allocator that the downstream filter was told of, and
\* never in one of an allocator that the upstream filter declared read-only.
WritesWhereAgreed ==
  buffer # None =>
    /\ buffer = f.told
    /\ f.m_bModifiesData /\ f.readOnly => buffer # f.inAlloc

\* A copy made by Receive is released by the end of it, on every path.
CopiesReleased == copies = IF buffer # None /\ UsingDifferentAllocators THEN 1 ELSE 0

\* "a pending reconnect which is guaranteed to finish": one pin that is reconnected may
\* ask for the other, but after two of them nothing more is asked for.
ReconnectsSettle == rounds <= 2 /\ (rounds = 2 => pending = NoPending)

\* The kind of allocator of a pin, in the notation of transip.cpp:52: "00" none,
\* "up" one of an upstream filter, "own", "down".
Kind(a) == CASE a = None -> "00" [] a \in Upstreams -> "up"
             [] a \in Downstreams -> "down" [] OTHER -> "own"

\* "that leaves 11 possible resting states": once no reconnection is pending, the
\* pins' allocators are in one of those the comment lists.  They are not: an input that
\* disconnects leaves the output with the upstream filter's allocator (00 <-), and an
\* output that disconnects leaves the input with the downstream one's (-> 00).
RestingStates ==
  pending = NoPending =>
    <<Kind(f.inAlloc), Kind(f.outAlloc)>> \in
      {<<"00", "00">>, <<"up", "00">>, <<"own", "00">>, <<"00", "own">>, <<"00", "down">>,
       <<"own", "own">>, <<"up", "own">>, <<"up", "down">>, <<"up", "up">>, <<"down", "down">>}

=============================================================================
