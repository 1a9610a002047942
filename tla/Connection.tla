----------------------------- MODULE Connection -----------------------------
(***************************************************************************)
(* How pins are connected, negotiated about and disconnected (CBasePin,    *)
(* CBaseOutputPin and CBaseInputPin in amfilter.cpp, the pins of           *)
(* CTransformFilter in transfrm.cpp): a source, the injector and a         *)
(* renderer, all built on these classes, in a graph whose owner connects   *)
(* and disconnects pins one call at a time and starts and stops filters.   *)
(* Connect holds the lock of its own filter only, so the other filters may *)
(* be started and stopped while it is in progress.                         *)
(*                                                                         *)
(* A step of Connect is one call across the boundary between two pins, or  *)
(* one round of the loops of AgreeMediaType and TryMediaTypes: there the   *)
(* list of media types may change under the enumerator, and each call may  *)
(* fail.  The pins' members are the fields of one record, so that a        *)
(* handler that calls another is the composition of two functions.         *)
(***************************************************************************)
EXTENDS Integers, Sequences, FiniteSets

CONSTANTS
  Kinds,        \* media types of the source, without colour information
  VideoInfo,    \* those of them with format type FORMAT_VideoInfo
  SourceOffers, \* possible lists of types that the source offers
  Named,        \* types that the caller of Connect may name
  Partial,      \* sets of types that a partially specified one may match
  RendererAccepts, \* possible sets of types that the renderer accepts
  MaxVersion    \* bound on changes of the source's list

ASSUME ConnectionAssumption ==
  /\ VideoInfo \subseteq Kinds
  /\ SourceOffers \subseteq Seq([kind : Kinds, faked : BOOLEAN])
  /\ Named \subseteq [kind : Kinds, faked : BOOLEAN]
  /\ Partial \subseteq SUBSET [kind : Kinds, faked : BOOLEAN]
  /\ RendererAccepts \subseteq SUBSET [kind : Kinds, faked : BOOLEAN]
  /\ MaxVersion \in Nat \ {0}

Outs == {"source", "xformOut"}
Ins == {"xformIn", "renderer"}
Pins == Outs \cup Ins
Peer == [source |-> "xformIn", xformIn |-> "source",
         xformOut |-> "renderer", renderer |-> "xformOut"]
Filters == {"sourceFilter", "injector", "rendererFilter"}
FilterOf == [source |-> "sourceFilter", xformIn |-> "injector",
             xformOut |-> "injector", renderer |-> "rendererFilter"]
None == "none"

\* A type of the source, and the one the injector makes of it.
Types == [kind : Kinds, faked : BOOLEAN]
Plain(k) == [kind |-> k, faked |-> FALSE]
Fake(t) == [t EXCEPT !.faked = TRUE]
NoType == [kind |-> None, faked |-> FALSE]

Codes == {"S_OK", "E_FAIL", "E_INVALIDARG", "TYPE_NOT_ACCEPTED",
          "NO_ACCEPTABLE_TYPES", "ALREADY_CONNECTED", "NOT_STOPPED", "OTHER"}

VARIABLES
  g,        \* the members of the pins and filters, see TypeOK
  offers,   \* the source's list of media types
  accepts,  \* the types the renderer's CheckMediaType accepts
  version,  \* m_TypeVersion of the source's pin
  call,     \* the call to Connect in progress
  place,    \* where it is; "idle" between calls
  result,   \* what the last call returned
  luck      \* auxiliary: nothing has failed in this call but the negotiation

vars == <<g, offers, accepts, version, call, place, result, luck>>

NoCall == [out |-> None, pmt |-> NoType, matching |-> {}, round |-> 0, pos |-> 0,
           seen |-> 0, type |-> NoType, hrFailure |-> "S_OK", roundFailure |-> "S_OK"]

-----------------------------------------------------------------------------
(* Functions on the members.                                               *)

IsConnected(s, p) == s.m_Connected[p] # None
IsStopped(s, p) == s.m_State[FilterOf[p]] = "stopped"

\* The last reference destroys an allocator; it has been decommitted before.
ReleaseAllocator(s, p) ==
  [s EXCEPT !.allocRefs[s.m_pAllocator[p]] = @ - 1, !.m_pAllocator[p] = None]

\* CBaseInputPin::BreakConnect, and the first half of CBaseOutputPin's.
DropAllocator(s, p) ==
  IF s.m_pAllocator[p] = None THEN s
  ELSE ReleaseAllocator([s EXCEPT !.committed = @ \ {s.m_pAllocator[p]}], p)

DropInputPin(s, p) ==
  IF p \in Ins \/ s.m_pInputPin[p] = None THEN s
  ELSE [s EXCEPT !.pinRefs[s.m_pInputPin[p]] = @ - 1, !.m_pInputPin[p] = None]

BreakConnect(s, p) == DropInputPin(DropAllocator(s, p), p)

\* Fault: the peer is released and the pointer to it kept.
KeepPointer(s, p) ==
  IF ~IsConnected(s, p) THEN s ELSE [s EXCEPT !.pinRefs[s.m_Connected[p]] = @ - 1]

\* m_Connected->Release(); m_Connected = NULL.  The media type stays in m_mt, but
\* is read only while the pin is connected: the model forgets it.
Forget(s, p) ==
  IF ~IsConnected(s, p) THEN s
  ELSE [s EXCEPT !.pinRefs[s.m_Connected[p]] = @ - 1, !.m_Connected[p] = None,
                 !.m_mt[p] = NoType]

Remember(s, p, q) == [s EXCEPT !.pinRefs[q] = @ + 1, !.m_Connected[p] = q]

\* CBasePin::DisconnectInternal
DisconnectInternal(s, p) ==
  IF IsConnected(s, p) THEN Forget(BreakConnect(s, p), p) ELSE s

\* CTransformOutputPin::CheckConnect refuses while the input is unconnected.
CheckConnect(s, p) == p = "xformOut" => IsConnected(s, "xformIn")

CheckMediaType(s, p, t) ==
  CASE p = "source" -> TRUE
    [] p = "xformIn" -> t.kind \in VideoInfo /\ ~t.faked
    [] p = "xformOut" -> IsConnected(s, "xformIn")
    [] p = "renderer" -> t \in accepts

\* The types EnumMediaTypes(p) enumerates; CBasePin has none of its own.
TypesOf(s, p) ==
  CASE p = "source" -> offers
    [] p = "xformOut" /\ IsConnected(s, "xformIn") -> <<Fake(s.m_mt["xformIn"])>>
    [] OTHER -> <<>>

VersionOf(p) == IF p = "source" THEN version ELSE 1

\* AgreeMediaType asks the receiving pin first (m_bTryMyTypesFirst is false).
EnumPin(o, round) == IF round = 0 THEN Peer[o] ELSE o

\* A failure of one round, or attempt, that says more than that the types do
\* not match is remembered.
Telling(hr) == hr \notin {"E_FAIL", "E_INVALIDARG", "TYPE_NOT_ACCEPTED"}

-----------------------------------------------------------------------------
TypeOK ==
  /\ g.m_State \in [Filters -> {"stopped", "active"}]
  /\ g.m_Connected \in [Pins -> Pins \cup {None}]
  /\ g.m_mt \in [Pins -> Types \cup {NoType}]
  /\ g.m_pInputPin \in [Outs -> Ins \cup {None}]
  /\ g.m_pAllocator \in [Pins -> Pins \cup {None}]
  /\ g.committed \subseteq Pins
  /\ g.pinRefs \in [Pins -> Nat]
  /\ g.allocRefs \in [Pins -> Nat]
  /\ offers \in SourceOffers
  /\ accepts \in RendererAccepts
  /\ version \in 1..MaxVersion
  /\ place \in {"idle", "agree", "next", "attempt", "receive", "allocate",
                "init", "undo", "attempted"}
  /\ result \in Codes
  /\ luck \in BOOLEAN

Init ==
  /\ g = [m_State |-> [f \in Filters |-> "stopped"],
          m_Connected |-> [p \in Pins |-> None],
          m_mt |-> [p \in Pins |-> NoType],
          m_pInputPin |-> [o \in Outs |-> None],
          m_pAllocator |-> [p \in Pins |-> None],
          committed |-> {},
          pinRefs |-> [p \in Pins |-> 0],
          allocRefs |-> [p \in Pins |-> 0]]
  /\ offers \in SourceOffers
  /\ accepts \in RendererAccepts
  /\ version = 1
  /\ call = NoCall
  /\ place = "idle"
  /\ result = "S_OK"
  /\ luck = TRUE

-----------------------------------------------------------------------------
(* CBasePin::Connect                                                       *)

ConnectRefused(o) ==
  /\ place = "idle"
  /\ \/ IsConnected(g, o) /\ result' = "ALREADY_CONNECTED"
     \/ ~IsConnected(g, o) /\ ~IsStopped(g, o) /\ result' = "NOT_STOPPED"
  /\ UNCHANGED <<g, offers, accepts, version, call, place, luck>>

\* The caller names a type, or leaves it to the pins (NoType): then it may still
\* name a partially specified one, which only the types in matching match.
Connect(o, pmt, matching) ==
  /\ place = "idle"
  /\ ~IsConnected(g, o) /\ IsStopped(g, o)
  /\ call' = [NoCall EXCEPT !.out = o, !.pmt = pmt, !.matching = matching, !.type = pmt,
                            !.hrFailure = "NO_ACCEPTABLE_TYPES"]
  /\ place' = IF pmt = NoType THEN "agree" ELSE "attempt"
  /\ luck' = TRUE
  /\ UNCHANGED <<g, offers, accepts, version, result>>

\* AgreeMediaType has failed: Connect breaks the connection once more.
Fail(s, hr) ==
  /\ g' = BreakConnect(s, call.out)
  /\ result' = hr
  /\ call' = NoCall
  /\ place' = "idle"

\* One round of AgreeMediaType: an enumerator of the pin, with its version.
Enumerate ==
  /\ place = "agree"
  /\ IF call.round = 2
     THEN Fail(g, call.hrFailure)
     ELSE /\ call' = [call EXCEPT !.pos = 0, !.roundFailure = "S_OK",
                                  !.seen = VersionOf(EnumPin(call.out, call.round))]
          /\ place' = "next"
          /\ UNCHANGED <<g, result>>
  /\ UNCHANGED <<offers, accepts, version, luck>>

\* EnumMediaTypes fails for lack of memory: the round is passed over.
EnumerateFails ==
  /\ place = "agree" /\ call.round < 2
  /\ call' = [call EXCEPT !.round = @ + 1]
  /\ luck' = FALSE
  /\ UNCHANGED <<g, offers, accepts, version, place, result>>

\* TryMediaTypes: the next type, passed over unless it matches, or the end of the
\* list, or a list that has changed since, which ends the round as well.
NextType ==
  LET p == EnumPin(call.out, call.round)
      hr == IF call.roundFailure = "S_OK" THEN "NO_ACCEPTABLE_TYPES"
            ELSE call.roundFailure
  IN /\ place = "next"
     /\ IF call.seen = VersionOf(p) /\ call.pos < Len(TypesOf(g, p))
        THEN /\ call' = [call EXCEPT !.pos = @ + 1,
                                     !.type = TypesOf(g, p)[call.pos + 1]]
             /\ place' = IF TypesOf(g, p)[call.pos + 1] \in call.matching
                         THEN "attempt" ELSE "next"
             /\ luck' = luck
        ELSE /\ call' = [call EXCEPT !.round = @ + 1,
                                     !.hrFailure = IF Telling(hr) THEN hr ELSE @]
             /\ place' = "agree"
             /\ luck' = (luck /\ call.seen = VersionOf(p))
     /\ UNCHANGED <<g, offers, accepts, version, result>>

\* An attempt has failed: the connector undoes its half.
Attempted(s, hr) ==
  /\ g' = Forget(BreakConnect(s, call.out), call.out)
  /\ result' = hr
  /\ place' = "attempted"

\* AttemptConnection up to ReceiveConnection: CheckConnect takes a reference on
\* the IMemInputPin of the peer, or finds that it has none.
Attempt ==
  LET o == call.out
      i == Peer[o]
      s1 == [g EXCEPT !.m_pInputPin[o] = i, !.pinRefs[i] = @ + 1]
      s2 == [Remember(s1, o, i) EXCEPT !.m_mt[o] = call.type]
  IN /\ place = "attempt"
     /\ \/ ~CheckConnect(g, o) /\ Attempted(g, "OTHER") /\ luck' = luck
        \/ CheckConnect(g, o) /\ Attempted(g, "OTHER") /\ luck' = FALSE
        \/ /\ CheckConnect(g, o)
           /\ IF CheckMediaType(g, o, call.type)
              THEN \/ g' = s2 /\ place' = "receive" /\ UNCHANGED <<result, luck>>
                   \/ Attempted(Remember(s1, o, i), "OTHER") /\ luck' = FALSE
              ELSE Attempted(s1, "TYPE_NOT_ACCEPTED") /\ luck' = luck
     /\ UNCHANGED <<offers, accepts, version, call>>

\* CBasePin::ReceiveConnection: each early return, and the one connection.
Receive ==
  LET o == call.out
      i == Peer[o]
      accepted == [Remember(g, i, o) EXCEPT !.m_mt[i] = call.type]
  IN /\ place = "receive"
     /\ CASE IsConnected(g, i) -> Attempted(g, "ALREADY_CONNECTED") /\ luck' = FALSE
          [] ~IsConnected(g, i) /\ ~IsStopped(g, i) ->
               Attempted(g, "NOT_STOPPED") /\ luck' = FALSE
          [] OTHER ->
               \/ Attempted(BreakConnect(g, i), "OTHER") /\ luck' = FALSE
               \/ /\ ~CheckMediaType(g, i, call.type)
                  /\ Attempted(BreakConnect(g, i), "TYPE_NOT_ACCEPTED")
                  /\ luck' = luck
               \/ /\ CheckMediaType(g, i, call.type)
                  /\ g' = accepted
                  /\ place' = "allocate"
                  /\ UNCHANGED <<result, luck>>
               \* SetMediaType or CompleteConnect of the receiver fails.
               \/ /\ CheckMediaType(g, i, call.type)
                  /\ Attempted(BreakConnect(Forget(accepted, i), i), "OTHER")
                  /\ luck' = FALSE
     /\ UNCHANGED <<offers, accepts, version, call>>

\* A pin has agreed on the allocator a, in place of the one it had.
NotifyAllocator(s, i, a) ==
  LET t == [s EXCEPT !.allocRefs[a] = @ + 1]
  IN [(IF t.m_pAllocator[i] = None THEN t ELSE ReleaseAllocator(t, i))
        EXCEPT !.m_pAllocator[i] = a]

\* CBaseInputPin::GetAllocator: its own allocator, made at the first call.
GetAllocator(s, i) ==
  IF s.m_pAllocator[i] = None
  THEN [s EXCEPT !.m_pAllocator[i] = i, !.allocRefs[i] = @ + 1]
  ELSE s

Succeed(s) ==
  /\ g' = s
  /\ result' = "S_OK"
  /\ call' = NoCall
  /\ place' = "idle"

\* DecideAllocator, first with the allocator of the input pin: DecideBufferSize
\* or NotifyAllocator may fail, or there is no such allocator.
DecideAllocator ==
  LET o == call.out
      i == Peer[o]
      s1 == GetAllocator(g, i)
      a == s1.m_pAllocator[i]
      s2 == [s1 EXCEPT !.m_pAllocator[o] = a, !.allocRefs[a] = @ + 1]
  IN /\ place = "allocate"
     /\ \/ Succeed(NotifyAllocator(s2, i, a)) /\ luck' = luck
        \/ /\ g' = ReleaseAllocator(s2, o)
           /\ place' = "init"
           /\ luck' = luck
           /\ UNCHANGED <<result, call>>
     /\ UNCHANGED <<offers, accepts, version>>

\* Fault: the input pin is not told of the second allocator.
InitUnannounced ==
  /\ place = "init"
  /\ Succeed([g EXCEPT !.m_pAllocator[call.out] = call.out,
                       !.allocRefs[call.out] = @ + 1])
  /\ UNCHANGED <<offers, accepts, version, luck>>

\* Then with one of its own (InitAllocator).
InitAllocator ==
  LET o == call.out
      i == Peer[o]
      s1 == [g EXCEPT !.m_pAllocator[o] = o, !.allocRefs[o] = @ + 1]
  IN /\ place = "init"
     /\ \/ Succeed(NotifyAllocator(s1, i, o)) /\ luck' = luck
        \/ /\ g' = ReleaseAllocator(s1, o)
           /\ place' = "undo"
           /\ luck' = FALSE
           /\ UNCHANGED <<result, call>>
     /\ UNCHANGED <<offers, accepts, version>>

\* CompleteConnect has failed: the receiving pin is disconnected again.
Undo ==
  LET i == Peer[call.out]
  IN /\ place = "undo"
     /\ Attempted(IF IsStopped(g, i) THEN DisconnectInternal(g, i) ELSE g, "OTHER")
     /\ UNCHANGED <<offers, accepts, version, call, luck>>

\* Fault: a refused type ends the loop over the types.
GiveUpEarly ==
  /\ place = "attempted"
  /\ IF call.pmt # NoType
     THEN Fail(g, result)
     ELSE /\ call' = [call EXCEPT !.round = @ + 1]
          /\ place' = "agree"
          /\ UNCHANGED <<g, result>>
  /\ UNCHANGED <<offers, accepts, version, luck>>

\* Back in AgreeMediaType, which was given the one type to try, or in the loop.
AfterAttempt ==
  /\ place = "attempted"
  /\ IF call.pmt # NoType
     THEN Fail(g, result)
     ELSE /\ call' = [call EXCEPT !.roundFailure =
                        IF @ = "S_OK" /\ Telling(result) THEN result ELSE @]
          /\ place' = "next"
          /\ UNCHANGED <<g, result>>
  /\ UNCHANGED <<offers, accepts, version, luck>>

-----------------------------------------------------------------------------
(* The rest of the graph.                                                  *)

\* The source changes its list (IncrementTypeVersion).
ChangeTypes ==
  /\ version < MaxVersion
  /\ offers' \in SourceOffers \ {offers}
  /\ version' = version + 1
  /\ luck' = (luck /\ place = "idle")
  /\ UNCHANGED <<g, accepts, call, place, result>>

\* CBasePin::Disconnect; the graph calls it for each of the two pins.
Disconnect(p) ==
  /\ place = "idle"
  /\ IsConnected(g, p)
  /\ IsStopped(g, p)
  /\ g' = DisconnectInternal(g, p)
  /\ UNCHANGED <<offers, accepts, version, call, place, result, luck>>

\* The lock of the filter whose pin connects is taken.
Unlocked(f) == \A o \in Outs : call.out = o => FilterOf[o] # f

\* CBaseFilter::Pause commits the allocators of the connected output pins; the
\* injector passes over its pins unless both are connected.
Activated(s, f) ==
  LET active == {o \in Outs : /\ FilterOf[o] = f /\ IsConnected(s, o)
                              /\ (o = "xformOut" => IsConnected(s, "xformIn"))}
  IN [s EXCEPT !.m_State[f] = "active",
               !.committed = @ \cup {s.m_pAllocator[o] : o \in active}]

Pause(f) ==
  /\ Unlocked(f)
  /\ g.m_State[f] = "stopped"
  /\ \/ g' = Activated(g, f)
     \/ g' = g  \* Commit fails: the state stays stopped
  /\ UNCHANGED <<offers, accepts, version, call, place, result, luck>>

\* CBaseFilter::Stop: Inactive of each connected pin, input or output; but the
\* injector's Stop passes over its pins unless both are connected.
Deactivated(s, f) ==
  LET passed == f = "injector" /\ ~(IsConnected(s, "xformIn") /\ IsConnected(s, "xformOut"))
      inactive == {p \in Pins : FilterOf[p] = f /\ IsConnected(s, p) /\ ~passed}
  IN [s EXCEPT !.m_State[f] = "stopped",
               !.committed = @ \ {s.m_pAllocator[p] : p \in inactive}]

Stop(f) ==
  /\ Unlocked(f)
  /\ g.m_State[f] = "active"
  /\ g' = Deactivated(g, f)
  /\ UNCHANGED <<offers, accepts, version, call, place, result, luck>>

Connecting ==
  \/ Enumerate \/ EnumerateFails \/ NextType \/ Attempt \/ Receive
  \/ DecideAllocator \/ InitAllocator \/ Undo \/ AfterAttempt

Next ==
  \/ \E o \in Outs : \/ ConnectRefused(o)
                     \/ \E t \in Named : Connect(o, t, {t})
                     \/ \E m \in Partial \cup {Types} : Connect(o, NoType, m)
  \/ Connecting
  \/ ChangeTypes
  \/ \E p \in Pins : Disconnect(p)
  \/ \E f \in Filters : Pause(f) \/ Stop(f)

Spec == Init /\ [][Next]_vars

\* The call in progress goes on.
FairSpec == Spec /\ WF_vars(Connecting)

-----------------------------------------------------------------------------
(* Properties.                                                             *)

\* Every pin has as many references on it as other pins remember: no step of a
\* connection that fails, nor a disconnection of one end only, leaks a
\* reference or releases one twice.
PinRefsBalance ==
  \A p \in Pins :
    g.pinRefs[p] = Cardinality({q \in Pins : g.m_Connected[q] = p})
                   + Cardinality({o \in Outs : g.m_pInputPin[o] = p})

\* The same for allocators, which die with the last reference.
AllocRefsBalance ==
  \A a \in Pins :
    g.allocRefs[a] = Cardinality({p \in Pins : g.m_pAllocator[p] = a})

\* Between two calls an output pin that is not connected holds neither an
\* allocator nor the peer's IMemInputPin, and a connected one holds both:
\* a negotiation that fails in any of its steps leaves nothing.
AllOrNothing ==
  place = "idle" =>
    \A o \in Outs :
      IF IsConnected(g, o)
      THEN g.m_pInputPin[o] = Peer[o] /\ g.m_pAllocator[o] # None
      ELSE g.m_pInputPin[o] = None /\ g.m_pAllocator[o] = None

\* Two pins that are connected with each other have the same media type, one
\* that the receiving pin accepts, and the same allocator: the samples that the
\* output pin fills are those of the allocator that was negotiated.
EndsAgree ==
  place = "idle" =>
    \A o \in Outs :
      LET i == Peer[o]
      IN IsConnected(g, o) /\ IsConnected(g, i) =>
           /\ g.m_mt[o] = g.m_mt[i]
           /\ i = "xformIn" => g.m_mt[i].kind \in VideoInfo
           /\ g.m_pAllocator[o] = g.m_pAllocator[i]

\* Only the allocator of a connected output pin of an active filter is
\* committed: one that is released has been decommitted before.
CommittedWhileActive ==
  \A a \in g.committed :
    \E o \in Outs : /\ g.m_pAllocator[o] = a
                    /\ IsConnected(g, o)
                    /\ g.m_State[FilterOf[o]] = "active"

Common(o, s) ==
  {t \in Types : /\ \E p \in {o, Peer[o]} :
                      \E n \in DOMAIN TypesOf(s, p) : TypesOf(s, p)[n] = t
                 /\ CheckMediaType(s, o, t)
                 /\ CheckMediaType(s, Peer[o], t)}

\* A Connect that leaves the type to the pins and meets no failure but refused
\* types fails only if there is no type that one end offers, both accept and the
\* partially specified type of the caller, if any, matches.
Negotiated ==
  [][place # "idle" /\ place' = "idle" /\ call.pmt = NoType /\ luck'
     /\ result' # "S_OK" => Common(call.out, g) \cap call.matching = {}]_vars

\* A connection is whole or absent: references balance, both ends agree, and only
\* what is in use is committed.
ConnectedWhole ==
  /\ PinRefsBalance /\ AllocRefsBalance
  /\ AllOrNothing /\ EndsAgree /\ CommittedWhileActive

\* Connect returns, however often the source changes its list meanwhile.
ConnectReturns == place # "idle" ~> place = "idle"

\* Connect comes to an end, and to the right one.
ConnectEnds == Negotiated /\ ConnectReturns

=============================================================================
