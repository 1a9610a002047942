-------------------------- MODULE Services_proofs ---------------------------
(***************************************************************************)
(* Proofs about what is asked of a filter besides samples, for every value *)
(* of the constants: one section for each part of MCServices, and a last   *)
(* one that puts them side by side.                                        *)
(*                                                                         *)
(* Every part has an invariant of its own, its name ending in Inv, with a  *)
(* lemma that it holds at the start, one that every step keeps it and one  *)
(* for each property it implies.                                           *)
(***************************************************************************)
EXTENDS MCServices, FiniteSetTheorems, SequenceTheorems, WellFoundedInduction, TLAPS

(***************************************************************************)
(* The property page                                                       *)
(***************************************************************************)
\* A page is connected while it has the interface, and its dialog, which tells of every
\* edit, is there only while it is.
PageTypes ==
  /\ m_pPageSite \in BOOLEAN /\ m_bObjectSet \in BOOLEAN /\ mDMIFInterface \in BOOLEAN
  /\ m_hwnd \in BOOLEAN /\ m_bDirty \in BOOLEAN /\ mIsInitialized \in BOOLEAN /\ alive \in BOOLEAN
  /\ mConfigFilename \in P!Names /\ filterName \in P!Names
  /\ text \in P!Texts /\ meant \in P!Texts

PageConnected ==
  /\ m_bObjectSet <=> mDMIFInterface
  /\ m_hwnd => m_bObjectSet /\ alive /\ mIsInitialized

\* What GetControlValues reads, or has read, is what was meant or its question marks.
PageRead ==
  m_bObjectSet => (IF m_hwnd THEN P!Narrow(text) ELSE mConfigFilename) \in P!Becomes(meant)

PageInv == PageTypes /\ PageConnected /\ PageRead /\ P!EditsKept /\ P!ReferenceHeld

\* What the conversions make of a name and of a text.
LEMMA PageConstants ==
  /\ P!Names \subseteq P!Texts /\ P!Plain \subseteq P!Names /\ Lost \in P!Plain
  /\ \A n \in P!Names : P!Widen(n) \in P!Texts /\ n \in P!Becomes(n)
  /\ \A n \in P!Names : P!Narrow(n) = n /\ P!Narrow(P!Widen(n)) \in {n, Lost}
  /\ \A n \in P!Names : n \in P!Plain => P!Widen(n) = n
  /\ \A t \in P!Texts : P!Narrow(t) \in P!Names /\ P!Narrow(t) \in P!Becomes(t)
  /\ \A t : Lost \in P!Becomes(t) \/ t \in P!Plain
  /\ \A t : t \in P!Plain => P!Narrow(t) = t /\ P!Becomes(t) = {t}
BY ServicesAssumption DEF P!PageAssumption, P!Names, P!Texts, P!Plain, P!Widen, P!Narrow, P!Becomes

\* PageInv holds at the start.
LEMMA PageStart == P!Init => PageInv
<1> SUFFICES ASSUME P!Init PROVE PageInv
  OBVIOUS
<1> USE DEF P!Init
<1>1. PageTypes
  BY DEF PageTypes, P!Names, P!Texts
<1>2. PageConnected /\ PageRead /\ P!EditsKept
  BY DEF PageConnected, PageRead, P!EditsKept
<1>3. P!ReferenceHeld
  BY DEF P!ReferenceHeld
<1> QED BY <1>1, <1>2, <1>3 DEF PageInv

\* PageInv is inductive.
LEMMA PageStep ==
  ASSUME PageInv, P!Next \/ UNCHANGED page
  PROVE  PageInv'
<1>1. CASE UNCHANGED page
  <2>1. PageTypes' /\ PageConnected'
    BY <1>1, PageConstants DEF PageInv, PageTypes, PageConnected, page
  <2>2. PageRead'
    BY <1>1, PageConstants DEF PageInv, PageTypes, PageRead, PageConnected, page
  <2>4. P!EditsKept'
    BY <1>1, PageConstants DEF PageInv, PageTypes, PageRead, P!EditsKept, PageConnected, page
  <2>3. P!ReferenceHeld'
    BY <1>1 DEF PageInv, PageTypes, P!ReferenceHeld, PageConnected, page
  <2> QED BY <2>1, <2>2, <2>3, <2>4 DEF PageInv
<1>2. CASE P!SetPageSite
  <2>1. PageTypes' /\ PageConnected'
    BY <1>2, PageConstants DEF PageInv, PageTypes, PageConnected, P!SetPageSite
  <2>2. PageRead'
    BY <1>2, PageConstants DEF PageInv, PageTypes, PageRead, PageConnected, P!SetPageSite
  <2>4. P!EditsKept'
    BY <1>2, PageConstants DEF PageInv, PageTypes, PageRead, P!EditsKept, PageConnected, P!SetPageSite
  <2>3. P!ReferenceHeld'
    BY <1>2 DEF PageInv, PageTypes, P!ReferenceHeld, PageConnected, P!SetPageSite
  <2> QED BY <2>1, <2>2, <2>3, <2>4 DEF PageInv
<1>3. CASE P!SetObjects
  <2>a. filterName \in P!Names
    BY DEF PageInv, PageTypes
  <2>0. filterName \in P!Texts /\ filterName \in P!Becomes(filterName)
    BY <2>a, PageConstants
  <2>1. PageTypes'
    BY <1>3, <2>0, <2>a DEF PageInv, PageTypes, P!SetObjects
  <2>5. PageConnected'
    BY <1>3 DEF PageInv, PageConnected, P!SetObjects
  <2>2. PageRead'
    BY <1>3, <2>0 DEF PageInv, PageTypes, PageRead, PageConnected, P!SetObjects
  <2>4. P!EditsKept'
    BY <1>3, <2>0 DEF PageInv, PageTypes, PageRead, P!EditsKept, PageConnected, P!SetObjects
  <2>3. P!ReferenceHeld'
    BY <1>3 DEF PageInv, PageTypes, P!ReferenceHeld, PageConnected, P!SetObjects
  <2> QED BY <2>1, <2>5, <2>2, <2>3, <2>4 DEF PageInv
<1>4. CASE P!Disconnect
  <2>1. PageTypes' /\ PageConnected'
    BY <1>4, PageConstants DEF PageInv, PageTypes, PageConnected, P!Disconnect
  <2>2. PageRead'
    BY <1>4, PageConstants DEF PageInv, PageTypes, PageRead, PageConnected, P!Disconnect
  <2>4. P!EditsKept'
    BY <1>4, PageConstants DEF PageInv, PageTypes, PageRead, P!EditsKept, PageConnected, P!Disconnect
  <2>3. P!ReferenceHeld'
    BY <1>4 DEF PageInv, PageTypes, P!ReferenceHeld, PageConnected, P!Disconnect
  <2> QED BY <2>1, <2>2, <2>3, <2>4 DEF PageInv
<1>5. CASE P!Activate
  <2>0. /\ P!Widen(mConfigFilename) \in P!Texts
        /\ P!Narrow(P!Widen(mConfigFilename)) \in {mConfigFilename, Lost}
        /\ mConfigFilename \in P!Plain => P!Widen(mConfigFilename) = mConfigFilename
        /\ Lost \in P!Becomes(meant) \/ meant \in P!Plain
        /\ meant \in P!Plain => P!Becomes(meant) = {meant} /\ P!Narrow(meant) = meant
    BY PageConstants DEF PageInv, PageTypes, PageConnected, PageRead
  <2>1. PageTypes'
    BY <1>5, <2>0 DEF PageInv, PageTypes, P!Activate
  <2>5. PageConnected'
    BY <1>5 DEF PageInv, PageConnected, P!Activate
  <2>2. PageRead'
    BY <1>5, <2>0 DEF PageInv, PageTypes, PageRead, PageConnected, P!Activate
  <2>4. P!EditsKept'
    BY <1>5, <2>0 DEF PageInv, PageTypes, PageRead, P!EditsKept, PageConnected, P!Activate
  <2>3. P!ReferenceHeld'
    BY <1>5 DEF PageInv, PageTypes, P!ReferenceHeld, PageConnected, P!Activate
  <2> QED BY <2>1, <2>5, <2>2, <2>3, <2>4 DEF PageInv
<1>6. CASE P!Deactivate
  <2>1. PageTypes' /\ PageConnected'
    BY <1>6, PageConstants DEF PageInv, PageTypes, PageConnected, P!Deactivate, P!GetControlValues
  <2>2. PageRead'
    BY <1>6, PageConstants DEF PageInv, PageTypes, PageRead, PageConnected, P!Deactivate, P!GetControlValues
  <2>4. P!EditsKept'
    BY <1>6, PageConstants DEF PageInv, PageTypes, PageRead, P!EditsKept, PageConnected, P!Deactivate, P!GetControlValues
  <2>3. P!ReferenceHeld'
    BY <1>6 DEF PageInv, PageTypes, P!ReferenceHeld, PageConnected, P!Deactivate, P!GetControlValues
  <2> QED BY <2>1, <2>2, <2>3, <2>4 DEF PageInv
<1>7. CASE P!Apply
  <2>0. /\ P!Names \subseteq P!Texts
        /\ P!Narrow(text) \in P!Names
        /\ \A n \in P!Names : n \in P!Becomes(n)
    BY PageConstants DEF PageInv, PageTypes, PageConnected, PageRead
  <2>1. PageTypes'
    BY <1>7, <2>0 DEF PageInv, PageTypes, P!Apply, P!GetControlValues
  <2>5. PageConnected'
    BY <1>7 DEF PageInv, PageConnected, P!Apply, P!GetControlValues
  <2>2. PageRead'
    BY <1>7, <2>0 DEF PageInv, PageTypes, PageRead, PageConnected, P!Apply, P!GetControlValues
  <2>4. P!EditsKept'
    BY <1>7, <2>0 DEF PageInv, PageTypes, PageRead, P!EditsKept, PageConnected, P!Apply, P!GetControlValues
  <2>3. P!ReferenceHeld'
    BY <1>7 DEF PageInv, PageTypes, P!ReferenceHeld, PageConnected, P!Apply, P!GetControlValues
  <2> QED BY <2>1, <2>5, <2>2, <2>3, <2>4 DEF PageInv
<1>8. CASE P!Release
  <2>1. PageTypes' /\ PageConnected'
    BY <1>8, PageConstants DEF PageInv, PageTypes, PageConnected, P!Release
  <2>2. PageRead'
    BY <1>8, PageConstants DEF PageInv, PageTypes, PageRead, PageConnected, P!Release
  <2>4. P!EditsKept'
    BY <1>8, PageConstants DEF PageInv, PageTypes, PageRead, P!EditsKept, PageConnected, P!Release
  <2>3. P!ReferenceHeld'
    BY <1>8 DEF PageInv, PageTypes, P!ReferenceHeld, PageConnected, P!Release
  <2> QED BY <2>1, <2>2, <2>3, <2>4 DEF PageInv
<1>9. CASE P!Deleted
  <2>1. PageTypes' /\ PageConnected'
    BY <1>9, PageConstants DEF PageInv, PageTypes, PageConnected, P!Deleted, P!vars
  <2>2. PageRead'
    BY <1>9, PageConstants DEF PageInv, PageTypes, PageRead, PageConnected, P!Deleted, P!vars
  <2>4. P!EditsKept'
    BY <1>9, PageConstants DEF PageInv, PageTypes, PageRead, P!EditsKept, PageConnected, P!Deleted, P!vars
  <2>3. P!ReferenceHeld'
    BY <1>9 DEF PageInv, PageTypes, P!ReferenceHeld, PageConnected, P!Deleted, P!vars
  <2> QED BY <2>1, <2>2, <2>3, <2>4 DEF PageInv
<1>10. ASSUME NEW t \in FileNames \cup Foreign \cup {Empty}, P!Edit(t) PROVE PageInv'
  <2>0. t \in P!Texts
    BY DEF P!Texts, P!Names
  <2>1. PageTypes' /\ PageConnected'
    BY <1>10, <2>0 DEF PageInv, PageTypes, PageConnected, P!Edit, P!Command
  <2>2. PageRead'
    BY <1>10, <2>0, PageConstants DEF PageInv, PageTypes, PageRead, PageConnected, P!Edit, P!Command
  <2>4. P!EditsKept'
    BY <1>10, <2>0, PageConstants DEF PageInv, PageTypes, PageRead, P!EditsKept, PageConnected, P!Edit, P!Command
  <2>3. P!ReferenceHeld'
    BY <1>10, <2>0 DEF PageInv, PageTypes, P!ReferenceHeld, PageConnected, P!Edit, P!Command
  <2> QED BY <2>1, <2>2, <2>3, <2>4 DEF PageInv
<1>11. CASE P!Focus
  <2>1. PageTypes' /\ PageConnected'
    BY <1>11, PageConstants DEF PageInv, PageTypes, PageConnected, P!Focus, P!Command
  <2>2. PageRead'
    BY <1>11, PageConstants DEF PageInv, PageTypes, PageRead, PageConnected, P!Focus, P!Command
  <2>4. P!EditsKept'
    BY <1>11, PageConstants DEF PageInv, PageTypes, PageRead, P!EditsKept, PageConnected, P!Focus, P!Command
  <2>3. P!ReferenceHeld'
    BY <1>11 DEF PageInv, PageTypes, P!ReferenceHeld, PageConnected, P!Focus, P!Command
  <2> QED BY <2>1, <2>2, <2>3, <2>4 DEF PageInv
<1> QED BY <1>1, <1>2, <1>3, <1>4, <1>5, <1>6, <1>7, <1>8, <1>9, <1>10, <1>11 DEF P!Next

\* Only Apply changes the filter's name, to what the dialog shows.
LEMMA PageApplies ==
  ASSUME PageInv, P!Next \/ UNCHANGED page
  PROVE  filterName' # filterName /\ m_hwnd => filterName' \in P!Becomes(meant)
<1>1. P!Apply \/ UNCHANGED filterName
  BY DEF P!Next, P!SetPageSite, P!SetObjects, P!Disconnect, P!Activate, P!Deactivate, P!Release,
         P!Deleted, P!Edit, P!Focus, P!Command, P!vars, page
<1>2. ASSUME P!Apply PROVE filterName' # filterName /\ m_hwnd => filterName' \in P!Becomes(meant)
  BY <1>2 DEF P!Apply, P!GetControlValues, PageInv, PageConnected, PageRead
<1> QED BY <1>1, <1>2

\* The types of PageInv are those of the module.
LEMMA PageTyped == PageInv => P!TypeOK
<1> SUFFICES ASSUME PageInv PROVE P!TypeOK
  OBVIOUS
<1>1. {m_pPageSite, m_bObjectSet, mDMIFInterface, m_hwnd, m_bDirty, mIsInitialized, alive} \subseteq BOOLEAN
  BY DEF PageInv, PageTypes
<1>2. {mConfigFilename, filterName} \subseteq P!Names /\ {text, meant} \subseteq P!Texts
  BY DEF PageInv, PageTypes
<1>3. references \in Nat
  BY DEF PageInv, P!ReferenceHeld
<1> QED BY <1>1, <1>2, <1>3 DEF P!TypeOK

(***************************************************************************)
(* Quality messages                                                        *)
(***************************************************************************)
QualityTypes ==
  /\ now \in Nat /\ start \in Nat /\ m_trLastDraw \in Int /\ shownAt \in Int /\ planned \in Int
  /\ m_nNormal \in -1 .. 1

QualityKinds ==
  /\ last \in {"none", "drawn", "dropped"} /\ place \in {"idle", "waiting"}
  /\ m_pQSink \in V!Sinks \cup {"none"} /\ connected \in BOOLEAN /\ told \in BOOLEAN
  /\ refs \in [V!Sinks -> Int]

\* While no frame waits the last one was drawn no earlier than the renderer remembers; one
\* that waits will be.
Remembered ==
  /\ place = "idle" => m_trLastDraw <= shownAt
  /\ place = "waiting" => planned = m_trLastDraw

QualityInv == QualityTypes /\ QualityKinds /\ Remembered /\ V!UpstreamReleased

\* QualityInv holds at the start.
LEMMA QualityStart == V!Init => QualityInv
<1> SUFFICES ASSUME V!Init PROVE QualityInv
  OBVIOUS
<1> USE DEF V!Init
<1>1. QualityTypes
  BY DEF QualityTypes
<1>2. QualityKinds
  <2>1. refs \in [V!Sinks -> Int]
    BY DEF V!Sinks
  <2> QED BY <2>1 DEF QualityKinds
<1>3. Remembered
  BY DEF Remembered
<1>4. V!UpstreamReleased
  BY DEF V!UpstreamReleased, V!Sinks
<1> QED BY <1>1, <1>2, <1>3, <1>4 DEF QualityInv

\* A frame is scheduled in one of four ways.
LEMMA Scheduled ==
  ASSUME V!QualityAssumption, QualityInv, V!ScheduleSample
  PROVE  QualityTypes' /\ Remembered'
<1>1. PICK handles, plenty, gap, slow \in BOOLEAN, earlier \in -Duration .. 0 :
        LET late == now - start
        IN  /\ V!SendQuality(handles)
            /\ earlier # 0 => late < 0
            /\ IF V!Draws(late, handles, plenty)
               THEN IF V!AtOnce(late, handles, gap, slow) THEN V!DrawAtOnce ELSE V!Draw(late, earlier)
               ELSE V!Drop
  BY Zenon DEF V!ScheduleSample
<1>2. /\ place = "idle" /\ start' = start + Duration /\ now' = now /\ start' \in Nat /\ Duration \in Nat
      /\ earlier \in Int
  BY DEF V!ScheduleSample, V!QualityAssumption, QualityInv, QualityTypes
<1>3. V!DrawAtOnce \/ V!Draw(now - start, earlier) \/ V!Drop
  BY <1>1
<1>4. CASE V!DrawAtOnce
  BY <1>2, <1>4 DEF V!DrawAtOnce, QualityInv, QualityTypes, Remembered
<1>5. CASE V!Draw(now - start, earlier)
  <2>1. CASE now - start >= 0
    BY <1>2, <1>5, <2>1 DEF V!Draw, QualityInv, QualityTypes, Remembered
  <2>2. CASE ~(now - start >= 0)
    BY <1>2, <1>5, <2>2 DEF V!Draw, QualityInv, QualityTypes, Remembered
  <2> QED BY <2>1, <2>2
<1>6. CASE V!Drop
  BY <1>2, <1>6 DEF V!Drop, QualityInv, QualityTypes, Remembered
<1> QED BY <1>3, <1>4, <1>5, <1>6

\* Of the sink, a frame changes no more than SendQuality does.
LEMMA ScheduledSinks ==
  ASSUME V!QualityAssumption, QualityInv, V!ScheduleSample
  PROVE  QualityKinds' /\ V!UpstreamReleased'
<1>1. PICK handles \in BOOLEAN : V!SendQuality(handles)
  BY Zenon DEF V!ScheduleSample
<1>2. /\ connected' = connected /\ told' = told /\ connected
      /\ last' \in {"drawn", "dropped"} /\ place' \in {"idle", "waiting"}
  BY DEF V!ScheduleSample, V!DrawAtOnce, V!Draw, V!Drop, QualityInv, QualityKinds
<1>3. CASE UNCHANGED <<m_pQSink, refs>>
  BY <1>2, <1>3 DEF QualityInv, QualityKinds, V!UpstreamReleased
<1>4. CASE m_pQSink = "none" /\ m_pQSink' = "upstream" /\ refs' = [refs EXCEPT !["upstream"] = @ + 1]
  <2> "upstream" \in V!Sinks
    BY DEF V!Sinks
  <2>1. refs' \in [V!Sinks -> Int]
    BY <1>4 DEF QualityInv, QualityKinds
  <2>2. m_pQSink' \in V!Sinks \cup {"none"}
    BY <1>4 DEF V!Sinks
  <2>3. QualityKinds'
    BY <1>2, <2>1, <2>2 DEF QualityInv, QualityKinds, V!Sinks
  <2>4. ~told => refs' = [s \in V!Sinks |-> IF m_pQSink' = s THEN 1 ELSE 0]
    <3> SUFFICES ASSUME ~told PROVE refs' = [s \in V!Sinks |-> IF m_pQSink' = s THEN 1 ELSE 0]
      OBVIOUS
    <3>1. refs = [s \in V!Sinks |-> 0]
      BY <1>4 DEF QualityInv, V!UpstreamReleased, V!Sinks
    <3>2. \A s \in V!Sinks : refs'[s] = IF "upstream" = s THEN 1 ELSE 0
      BY <1>4, <3>1
    <3> QED BY <1>4, <2>1, <3>2
  <2> QED BY <1>2, <2>3, <2>4 DEF V!UpstreamReleased
<1> QED BY <1>1, <1>3, <1>4 DEF V!SendQuality

\* QualityInv is inductive.
LEMMA QualityStep ==
  ASSUME V!QualityAssumption, QualityInv, V!Next \/ UNCHANGED quality
  PROVE  QualityInv'
<1>1. CASE UNCHANGED quality
  <2>1. QualityTypes' /\ Remembered'
    BY <1>1 DEF QualityInv, QualityTypes, QualityKinds, Remembered, quality, V!scheduling, V!sinks
  <2>2. QualityKinds'
    BY <1>1 DEF QualityInv, QualityKinds, V!Sinks, quality, V!scheduling, V!sinks
  <2>3. V!UpstreamReleased'
    BY <1>1 DEF QualityInv, QualityKinds, V!UpstreamReleased, V!Sinks, quality, V!scheduling, V!sinks
  <2> QED BY <2>1, <2>2, <2>3 DEF QualityInv
<1>2. CASE V!Connect
  <2>1. QualityTypes' /\ Remembered'
    BY <1>2 DEF QualityInv, QualityTypes, QualityKinds, Remembered, V!Connect, V!scheduling, V!sinks
  <2>2. QualityKinds'
    BY <1>2 DEF QualityInv, QualityKinds, V!Sinks, V!Connect, V!scheduling, V!sinks
  <2>3. V!UpstreamReleased'
    BY <1>2 DEF QualityInv, QualityKinds, V!UpstreamReleased, V!Sinks, V!Connect, V!scheduling, V!sinks
  <2> QED BY <2>1, <2>2, <2>3 DEF QualityInv
<1>3. CASE V!SetSink
  <2>1. QualityTypes' /\ Remembered'
    BY <1>3 DEF QualityInv, QualityTypes, QualityKinds, Remembered, V!SetSink, V!scheduling, V!sinks
  <2>2. QualityKinds'
    BY <1>3 DEF QualityInv, QualityKinds, V!Sinks, V!SetSink, V!scheduling, V!sinks
  <2>3. V!UpstreamReleased'
    BY <1>3 DEF QualityInv, QualityKinds, V!UpstreamReleased, V!Sinks, V!SetSink, V!scheduling, V!sinks
  <2> QED BY <2>1, <2>2, <2>3 DEF QualityInv
<1>4. CASE V!BreakConnect
  <2>1. QualityTypes' /\ Remembered'
    BY <1>4 DEF QualityInv, QualityTypes, QualityKinds, Remembered, V!BreakConnect, V!scheduling, V!sinks
  <2>2. QualityKinds'
    <3>1. refs' \in [V!Sinks -> Int]
      BY <1>4 DEF QualityInv, QualityKinds, V!BreakConnect, V!scheduling, V!sinks
    <3> QED BY <1>4, <3>1 DEF QualityInv, QualityKinds, V!BreakConnect, V!scheduling, V!sinks
  <2>3. V!UpstreamReleased'
    <3> SUFFICES ASSUME ~told PROVE refs' = [s \in V!Sinks |-> 0]
      BY <1>4 DEF V!UpstreamReleased, V!Sinks, V!BreakConnect, V!scheduling, V!sinks
    <3>1. refs = [s \in V!Sinks |-> IF m_pQSink = s THEN 1 ELSE 0]
      BY DEF QualityInv, V!UpstreamReleased
    <3>2. m_pQSink \in V!Sinks \cup {"none"}
      BY DEF QualityInv, QualityKinds
    <3> QED BY <1>4, <3>1, <3>2 DEF V!Sinks, V!BreakConnect, V!scheduling, V!sinks
  <2> QED BY <2>1, <2>2, <2>3 DEF QualityInv
<1>5. CASE V!ScheduleSample
  BY <1>5, Scheduled, ScheduledSinks DEF QualityInv
<1>6. CASE V!WaitEnds
  <2>1. QualityTypes' /\ Remembered'
    BY <1>6 DEF QualityInv, QualityTypes, QualityKinds, Remembered, V!WaitEnds, V!scheduling, V!sinks
  <2>2. QualityKinds'
    BY <1>6 DEF QualityInv, QualityKinds, V!Sinks, V!WaitEnds, V!scheduling, V!sinks
  <2>3. V!UpstreamReleased'
    BY <1>6 DEF QualityInv, QualityKinds, V!UpstreamReleased, V!Sinks, V!WaitEnds, V!scheduling, V!sinks
  <2> QED BY <2>1, <2>2, <2>3 DEF QualityInv
<1>7. CASE V!Flush
  <2>1. QualityTypes' /\ Remembered'
    BY <1>7 DEF QualityInv, QualityTypes, QualityKinds, Remembered, V!Flush, V!scheduling, V!sinks
  <2>2. QualityKinds'
    BY <1>7 DEF QualityInv, QualityKinds, V!Sinks, V!Flush, V!scheduling, V!sinks
  <2>3. V!UpstreamReleased'
    BY <1>7 DEF QualityInv, QualityKinds, V!UpstreamReleased, V!Sinks, V!Flush, V!scheduling, V!sinks
  <2> QED BY <2>1, <2>2, <2>3 DEF QualityInv
<1>8. CASE V!Tick
  <2>1. QualityTypes' /\ Remembered'
    BY <1>8 DEF QualityInv, QualityTypes, QualityKinds, Remembered, V!Tick, V!scheduling, V!sinks
  <2>2. QualityKinds'
    BY <1>8 DEF QualityInv, QualityKinds, V!Sinks, V!Tick, V!scheduling, V!sinks
  <2>3. V!UpstreamReleased'
    BY <1>8 DEF QualityInv, QualityKinds, V!UpstreamReleased, V!Sinks, V!Tick, V!scheduling, V!sinks
  <2> QED BY <2>1, <2>2, <2>3 DEF QualityInv
<1>9. CASE V!OnStartStreaming
  <2>1. QualityTypes' /\ Remembered'
    BY <1>9 DEF QualityInv, QualityTypes, QualityKinds, Remembered, V!OnStartStreaming, V!scheduling, V!sinks
  <2>2. QualityKinds'
    BY <1>9 DEF QualityInv, QualityKinds, V!Sinks, V!OnStartStreaming, V!scheduling, V!sinks
  <2>3. V!UpstreamReleased'
    BY <1>9 DEF QualityInv, QualityKinds, V!UpstreamReleased, V!Sinks, V!OnStartStreaming, V!scheduling, V!sinks
  <2> QED BY <2>1, <2>2, <2>3 DEF QualityInv
<1> QED BY <1>1, <1>2, <1>3, <1>4, <1>5, <1>6, <1>7, <1>8, <1>9 DEF V!Next

\* A frame is dropped only within a second of what the renderer remembers.
LEMMA QualityDrops ==
  ASSUME V!QualityAssumption, QualityInv, V!Next \/ UNCHANGED quality
  PROVE  start' > start /\ last' = "dropped" => now - shownAt <= Second
<1> SUFFICES ASSUME start' > start, last' = "dropped" PROVE now - shownAt <= Second
  OBVIOUS
<1>1. V!ScheduleSample
  BY DEF V!Next, V!Connect, V!SetSink, V!BreakConnect, V!WaitEnds, V!Flush, V!Tick,
         V!OnStartStreaming, quality, V!scheduling, V!sinks, QualityInv, QualityTypes
<1>2. PICK handles, plenty, gap, slow \in BOOLEAN, earlier \in -Duration .. 0 :
        LET late == now - start
        IN  /\ V!SendQuality(handles)
            /\ earlier # 0 => late < 0
            /\ IF V!Draws(late, handles, plenty)
               THEN IF V!AtOnce(late, handles, gap, slow) THEN V!DrawAtOnce ELSE V!Draw(late, earlier)
               ELSE V!Drop
  BY <1>1, Zenon DEF V!ScheduleSample
<1>3. ~V!DrawAtOnce /\ ~V!Draw(now - start, earlier)
  BY DEF V!DrawAtOnce, V!Draw
<1>4. ~V!Draws(now - start, handles, plenty)
  BY <1>2, <1>3
<1>5. ~(now - m_trLastDraw > Second)
  BY <1>4 DEF V!Draws
<1>6. m_trLastDraw <= shownAt
  BY <1>1 DEF V!ScheduleSample, QualityInv, Remembered
<1> QED BY <1>5, <1>6 DEF QualityInv, QualityTypes, V!QualityAssumption

\* The types of QualityInv are those of the module.
LEMMA QualityTyped == QualityInv => V!TypeOK
<1> SUFFICES ASSUME QualityInv PROVE V!TypeOK
  OBVIOUS
<1>1. {now, start} \subseteq Nat /\ {m_trLastDraw, shownAt, planned} \subseteq Int /\ m_nNormal \in -1 .. 1
  BY DEF QualityInv, QualityTypes
<1>2. {connected, told} \subseteq BOOLEAN
  BY DEF QualityInv, QualityKinds
<1> QED BY <1>1, <1>2 DEF QualityInv, QualityKinds, V!TypeOK

(***************************************************************************)
(* The transform in place                                                  *)
(***************************************************************************)
Refd == Upstreams \cup Downstreams \cup Owns

\* The members of the two pins are one record with these fields.
Members ==
  [up : Upstreams \cup {None}, down : Downstreams \cup {None},
   inType : Types \cup {None}, outType : Types \cup {None},
   inAlloc : Refd \cup {None}, outAlloc : Refd \cup {None}, told : Refd \cup {None},
   readOnly : BOOLEAN, upManner : I!UpManners, downManner : I!DownManners,
   upAccepts : SUBSET Types, downAccepts : SUBSET Types, m_bModifiesData : BOOLEAN,
   m_bSampleSkipped : BOOLEAN, m_bQualityChanged : BOOLEAN, refs : [Refd -> Int]]

\* One reference for each pin whose allocator it is, and one that a caller holds to x.
Referred(s, x) ==
  \A a \in Refd : s.refs[a] = (IF s.inAlloc = a THEN 1 ELSE 0) + (IF s.outAlloc = a THEN 1 ELSE 0)
                              + (IF x = a THEN 1 ELSE 0)

\* A negotiation of allocators changes none of these members.
Kept(s, t) ==
  /\ t.up = s.up /\ t.down = s.down /\ t.inType = s.inType /\ t.outType = s.outType
  /\ t.upManner = s.upManner /\ t.downManner = s.downManner
  /\ t.upAccepts = s.upAccepts /\ t.downAccepts = s.downAccepts
  /\ t.m_bModifiesData = s.m_bModifiesData

\* The members between two calls.
InWhole(s) == (s.up # None <=> s.inAlloc # None) /\ (s.up # None => s.inType \in s.upAccepts)
OutWhole(s) ==
  /\ s.down # None <=> s.outAlloc # None
  /\ s.told = s.outAlloc
  /\ s.down # None => s.outType \in s.downAccepts
PinsWhole(s) == s \in Members /\ Referred(s, None) /\ InWhole(s) /\ OutWhole(s)

\* A filter that writes has no read-only allocator for both pins.
NotInPlace(s) ==
  s.up # None /\ s.down # None /\ s.m_bModifiesData /\ s.readOnly => s.inAlloc # s.outAlloc

\* At most one reconnection is asked for, and whatever is left to agree on is asked for.
Asked ==
  /\ pending \in [{"in", "out"} -> Types \cup {None}] /\ rounds \in Nat
  /\ pending["in"] # None =>
       pending["out"] = None /\ rounds <= 1 /\ f.down # None /\ pending["in"] = f.outType
  /\ pending["out"] # None => rounds = 0
  /\ rounds <= 2
  /\ f.up # None /\ f.down # None /\ f.inType # f.outType =>
       pending["in"] # None \/ pending["out"] # None
  /\ pending["in"] = None => NotInPlace(f)

Flowing ==
  /\ running \in BOOLEAN /\ buffer \in Refd \cup {None} /\ copies \in Int
  /\ running => pending = I!NoPending /\ f.up # None /\ f.down # None
  /\ buffer # None => running /\ buffer = f.outAlloc
  /\ copies = IF buffer # None /\ f.inAlloc # f.outAlloc THEN 1 ELSE 0

InPlaceInv == PinsWhole(f) /\ Asked /\ Flowing

LEMMA InPlaceConstants ==
  ASSUME I!InPlaceAssumption
  PROVE  /\ I!Allocators = Refd /\ None \notin Refd /\ None \notin Types
         /\ None \notin Upstreams /\ None \notin Downstreams /\ None \notin Owns
         /\ Upstreams \subseteq Refd /\ Downstreams \subseteq Refd /\ Owns \subseteq Refd
BY DEF I!InPlaceAssumption, I!Allocators, Refd

\* There is an allocator that none of the pins uses, nor the filter downstream.
LEMMA NewIsOwn ==
  ASSUME I!InPlaceAssumption, NEW s, s.told \in {s.outAlloc, None} \/ s.outAlloc = None
  PROVE  I!NewAllocator(s) \in Owns
<1>1. PICK o, p, q \in Owns : o # p /\ p # q /\ q # o
  BY DEF I!InPlaceAssumption
<1>2. None \notin Owns
  BY InPlaceConstants
<1>3. \E e \in Owns : e \notin {s.inAlloc, s.outAlloc, s.told}
  BY <1>1, <1>2
<1> QED BY <1>3 DEF I!NewAllocator

\* A reference more, and a reference less.
LEMMA ReferenceAdded ==
  ASSUME I!InPlaceAssumption, NEW s \in Members, NEW a \in Refd, Referred(s, None)
  PROVE  /\ I!AddRef(s, a) \in Members /\ Referred(I!AddRef(s, a), a)
         /\ Kept(s, I!AddRef(s, a)) /\ I!AddRef(s, a).inAlloc = s.inAlloc
         /\ I!AddRef(s, a).outAlloc = s.outAlloc /\ I!AddRef(s, a).told = s.told
         /\ I!AddRef(s, a).readOnly = s.readOnly
<1> DEFINE t == I!AddRef(s, a)
<1>1. t = [s EXCEPT !.refs = [s.refs EXCEPT ![a] = @ + 1]]
  BY DEF I!AddRef
<1>2. s.refs \in [Refd -> Int] /\ [s.refs EXCEPT ![a] = @ + 1] \in [Refd -> Int]
  BY DEF Members
<1>3. t \in Members
  BY <1>1, <1>2 DEF Members
<1>4. Kept(s, t) /\ t.inAlloc = s.inAlloc /\ t.outAlloc = s.outAlloc /\ t.told = s.told
      /\ t.readOnly = s.readOnly
  BY <1>1 DEF Members, Kept
<1>5. \A e \in Refd : t.refs[e] = IF e = a THEN s.refs[a] + 1 ELSE s.refs[e]
  BY <1>1, <1>2 DEF Members
<1>6. Referred(t, a)
  BY <1>2, <1>4, <1>5, InPlaceConstants DEF Referred
<1> QED BY <1>3, <1>4, <1>6

LEMMA ReferenceReleased ==
  ASSUME I!InPlaceAssumption, NEW s \in Members, NEW a \in Refd, Referred(s, a)
  PROVE  /\ I!Release(s, a) \in Members /\ Referred(I!Release(s, a), None)
         /\ Kept(s, I!Release(s, a)) /\ I!Release(s, a).inAlloc = s.inAlloc
         /\ I!Release(s, a).outAlloc = s.outAlloc /\ I!Release(s, a).told = s.told
         /\ I!Release(s, a).readOnly = s.readOnly
<1> DEFINE t == I!Release(s, a)
<1>1. t = [s EXCEPT !.refs = [s.refs EXCEPT ![a] = @ - 1]]
  BY InPlaceConstants DEF I!Release
<1>2. s.refs \in [Refd -> Int] /\ [s.refs EXCEPT ![a] = @ - 1] \in [Refd -> Int]
  BY DEF Members
<1>3. t \in Members
  BY <1>1, <1>2 DEF Members
<1>4. Kept(s, t) /\ t.inAlloc = s.inAlloc /\ t.outAlloc = s.outAlloc /\ t.told = s.told
      /\ t.readOnly = s.readOnly
  BY <1>1 DEF Members, Kept
<1>5. \A e \in Refd : t.refs[e] = IF e = a THEN s.refs[a] - 1 ELSE s.refs[e]
  BY <1>1, <1>2 DEF Members
<1>6. Referred(t, None)
  BY <1>2, <1>4, <1>5, InPlaceConstants DEF Referred
<1> QED BY <1>3, <1>4, <1>6

\* An allocator takes the place of another with its reference.
LEMMA OutputSet ==
  ASSUME I!InPlaceAssumption, NEW s \in Members, NEW a \in Refd, NEW x, Referred(s, x)
  PROVE  LET t == I!SetAllocator(s, a)
         IN  /\ t \in Members /\ Referred(t, x) /\ Kept(s, t)
             /\ t.inAlloc = s.inAlloc /\ t.outAlloc = a /\ t.told = s.told /\ t.readOnly = s.readOnly
<1> DEFINE more == [s.refs EXCEPT ![a] = @ + 1]
           after == IF s.outAlloc = None THEN more ELSE [more EXCEPT ![s.outAlloc] = @ - 1]
           t == I!SetAllocator(s, a)
<1>1. s.refs \in [Refd -> Int] /\ more \in [Refd -> Int] /\ s.outAlloc \in Refd \cup {None}
  BY DEF Members
<1>2. I!AddRef(s, a) = [s EXCEPT !.refs = more]
  BY DEF I!AddRef
<1>3. I!AddRef(s, a).refs = more
  BY <1>2 DEF Members
<1>4. t = [s EXCEPT !.refs = after, !.outAlloc = a]
  <2>1. CASE s.outAlloc = None
    BY <1>2, <2>1 DEF I!SetAllocator, I!Release, Members
  <2>2. CASE s.outAlloc # None
    <3>1. I!Release([s EXCEPT !.refs = more], s.outAlloc)
            = [[s EXCEPT !.refs = more] EXCEPT !.refs = [more EXCEPT ![s.outAlloc] = @ - 1]]
      BY <2>2 DEF I!Release, Members
    <3> QED BY <1>2, <2>2, <3>1 DEF I!SetAllocator, Members
  <2> QED BY <2>1, <2>2
<1>5. after \in [Refd -> Int]
  BY <1>1
<1>6. \A e \in Refd : after[e] = s.refs[e] + (IF e = a THEN 1 ELSE 0) - (IF e = s.outAlloc THEN 1 ELSE 0)
  <2>1. \A e \in Refd : more[e] = s.refs[e] + (IF e = a THEN 1 ELSE 0)
    BY <1>1
  <2> HIDE DEF more
  <2> QED BY <1>1, <2>1, InPlaceConstants
<1> HIDE DEF more, after
<1>7. /\ t \in Members /\ Kept(s, t) /\ t.refs = after
      /\ t.inAlloc = s.inAlloc /\ t.outAlloc = a /\ t.told = s.told /\ t.readOnly = s.readOnly
  BY <1>4, <1>5 DEF Members, Kept
<1>8. Referred(t, x)
  BY <1>1, <1>6, <1>7, InPlaceConstants DEF Referred
<1> QED BY <1>7, <1>8

LEMMA InputSet ==
  ASSUME I!InPlaceAssumption, NEW s \in Members, NEW a \in Refd, NEW x, Referred(s, x)
  PROVE  LET t == I!SetInput(s, a)
         IN  /\ t \in Members /\ Referred(t, x) /\ Kept(s, t)
             /\ t.inAlloc = a /\ t.outAlloc = s.outAlloc /\ t.told = s.told /\ t.readOnly = s.readOnly
<1> DEFINE more == [s.refs EXCEPT ![a] = @ + 1]
           after == IF s.inAlloc = None THEN more ELSE [more EXCEPT ![s.inAlloc] = @ - 1]
           t == I!SetInput(s, a)
<1>1. s.refs \in [Refd -> Int] /\ more \in [Refd -> Int] /\ s.inAlloc \in Refd \cup {None}
  BY DEF Members
<1>2. I!AddRef(s, a) = [s EXCEPT !.refs = more]
  BY DEF I!AddRef
<1>4. t = [s EXCEPT !.refs = after, !.inAlloc = a]
  <2>1. CASE s.inAlloc = None
    BY <1>2, <2>1 DEF I!SetInput, I!Release, Members
  <2>2. CASE s.inAlloc # None
    <3>1. I!Release([s EXCEPT !.refs = more], s.inAlloc)
            = [[s EXCEPT !.refs = more] EXCEPT !.refs = [more EXCEPT ![s.inAlloc] = @ - 1]]
      BY <2>2 DEF I!Release, Members
    <3> QED BY <1>2, <2>2, <3>1 DEF I!SetInput, Members
  <2> QED BY <2>1, <2>2
<1>5. after \in [Refd -> Int]
  BY <1>1
<1>6. \A e \in Refd : after[e] = s.refs[e] + (IF e = a THEN 1 ELSE 0) - (IF e = s.inAlloc THEN 1 ELSE 0)
  <2>1. \A e \in Refd : more[e] = s.refs[e] + (IF e = a THEN 1 ELSE 0)
    BY <1>1
  <2> HIDE DEF more
  <2> QED BY <1>1, <2>1, InPlaceConstants
<1> HIDE DEF more, after
<1>7. /\ t \in Members /\ Kept(s, t) /\ t.refs = after
      /\ t.inAlloc = a /\ t.outAlloc = s.outAlloc /\ t.told = s.told /\ t.readOnly = s.readOnly
  BY <1>4, <1>5 DEF Members, Kept
<1>8. Referred(t, x)
  BY <1>1, <1>6, <1>7, InPlaceConstants DEF Referred
<1> QED BY <1>7, <1>8

\* A pin that is broken gives its reference back.
LEMMA InputBroken ==
  ASSUME I!InPlaceAssumption, NEW s \in Members, Referred(s, None), OutWhole(s)
  PROVE  LET t == I!BreakInput(s)
         IN  /\ PinsWhole(t) /\ t.up = None /\ t.inType = None /\ t.down = s.down
             /\ t.outType = s.outType /\ t.outAlloc = s.outAlloc
             /\ t.upManner = s.upManner /\ t.downManner = s.downManner
             /\ t.upAccepts = s.upAccepts /\ t.downAccepts = s.downAccepts
             /\ t.m_bModifiesData = s.m_bModifiesData
<1> DEFINE after == IF s.inAlloc = None THEN s.refs ELSE [s.refs EXCEPT ![s.inAlloc] = @ - 1]
           t == I!BreakInput(s)
<1>1. s.refs \in [Refd -> Int] /\ s.inAlloc \in Refd \cup {None}
  BY DEF Members
<1>2. t = [s EXCEPT !.refs = after, !.inAlloc = None, !.up = None, !.inType = None]
  BY DEF I!BreakInput, I!Release, Members
<1>3. after \in [Refd -> Int]
  BY <1>1
<1>4. \A e \in Refd : after[e] = s.refs[e] - (IF e = s.inAlloc THEN 1 ELSE 0)
  BY <1>1, InPlaceConstants
<1> HIDE DEF after
<1>5. /\ t \in Members /\ t.refs = after /\ t.inAlloc = None
      /\ t.outAlloc = s.outAlloc /\ t.told = s.told /\ t.readOnly = s.readOnly
      /\ t.up = None /\ t.inType = None /\ t.down = s.down /\ t.outType = s.outType
      /\ t.upManner = s.upManner /\ t.downManner = s.downManner
      /\ t.upAccepts = s.upAccepts /\ t.downAccepts = s.downAccepts
      /\ t.m_bModifiesData = s.m_bModifiesData
  BY <1>2, <1>3 DEF Members
<1>6. Referred(t, None)
  BY <1>1, <1>4, <1>5, InPlaceConstants DEF Referred
<1> QED BY <1>5, <1>6 DEF PinsWhole, InWhole, OutWhole

LEMMA OutputBroken ==
  ASSUME I!InPlaceAssumption, NEW s \in Members, Referred(s, None), InWhole(s)
  PROVE  LET t == I!BreakOutput(s)
         IN  /\ PinsWhole(t) /\ t.down = None /\ t.outType = None /\ t.up = s.up
             /\ t.inType = s.inType /\ t.inAlloc = s.inAlloc
             /\ t.upManner = s.upManner /\ t.downManner = s.downManner
             /\ t.upAccepts = s.upAccepts /\ t.downAccepts = s.downAccepts
             /\ t.m_bModifiesData = s.m_bModifiesData
<1> DEFINE after == IF s.outAlloc = None THEN s.refs ELSE [s.refs EXCEPT ![s.outAlloc] = @ - 1]
           t == I!BreakOutput(s)
<1>1. s.refs \in [Refd -> Int] /\ s.outAlloc \in Refd \cup {None}
  BY DEF Members
<1>2. t = [s EXCEPT !.refs = after, !.outAlloc = None, !.down = None, !.outType = None, !.told = None]
  BY DEF I!BreakOutput, I!Release, Members
<1>3. after \in [Refd -> Int]
  BY <1>1
<1>4. \A e \in Refd : after[e] = s.refs[e] - (IF e = s.outAlloc THEN 1 ELSE 0)
  BY <1>1, InPlaceConstants
<1> HIDE DEF after
<1>5. /\ t \in Members /\ t.refs = after /\ t.outAlloc = None /\ t.told = None
      /\ t.inAlloc = s.inAlloc /\ t.readOnly = s.readOnly
      /\ t.down = None /\ t.outType = None /\ t.up = s.up /\ t.inType = s.inType
      /\ t.upManner = s.upManner /\ t.downManner = s.downManner
      /\ t.upAccepts = s.upAccepts /\ t.downAccepts = s.downAccepts
      /\ t.m_bModifiesData = s.m_bModifiesData
  BY <1>2, <1>3 DEF Members
<1>6. Referred(t, None)
  BY <1>1, <1>4, <1>5, InPlaceConstants DEF Referred
<1> QED BY <1>5, <1>6 DEF PinsWhole, InWhole, OutWhole

\* What the downstream filter is told.
LEMMA DownstreamTold ==
  ASSUME I!InPlaceAssumption, NEW s \in Members, NEW a \in Refd, NEW x, Referred(s, x)
  PROVE  LET n == I!NotifyDownstream(s, a)
         IN  /\ n.ok \in BOOLEAN /\ n.s \in Members /\ Referred(n.s, x) /\ Kept(s, n.s)
             /\ n.s.inAlloc = s.inAlloc /\ n.s.outAlloc = s.outAlloc /\ n.s.readOnly = s.readOnly
             /\ n.s.told = IF n.ok THEN a ELSE s.told
             /\ a = s.down => n.ok
<1> DEFINE n == I!NotifyDownstream(s, a)
<1>1. n.ok = (a = s.down \/ ~s.downManner.onlyOwn) /\ n.s = IF n.ok THEN [s EXCEPT !.told = a] ELSE s
  BY DEF I!NotifyDownstream
<1>2. n.s \in Members /\ Kept(s, n.s) /\ n.s.refs = s.refs
      /\ n.s.inAlloc = s.inAlloc /\ n.s.outAlloc = s.outAlloc /\ n.s.readOnly = s.readOnly
      /\ n.s.told = IF n.ok THEN a ELSE s.told
  BY <1>1 DEF Members, Kept
<1>3. n.ok \in BOOLEAN /\ (a = s.down => n.ok)
  BY <1>1
<1>4. Referred(n.s, x)
  BY <1>2 DEF Referred
<1> QED BY <1>2, <1>3, <1>4

\* What a notification leaves: n its result, a the allocator, x what its caller holds.
Notified(s, n, a, x, ro) ==
  /\ n.ok \in BOOLEAN /\ n.s \in Members /\ Referred(n.s, x) /\ Kept(s, n.s)
  /\ s.down # None <=> n.s.outAlloc # None
  /\ n.s.told = n.s.outAlloc
  /\ n.ok => n.s.inAlloc = a /\ n.s.readOnly = ro
  /\ n.ok /\ s.down # None /\ s.m_bModifiesData /\ ro => n.s.outAlloc # a
  /\ (s.down = a /\ ~ro) \/ s.down = None => n.ok

\* An allocator that the input is notified of is its own then, and of the output, if
\* there is one, unless both would write to what is read-only.
LEMMA InputNotified ==
  ASSUME I!InPlaceAssumption, NEW s \in Members, NEW a \in Refd, NEW x, Referred(s, x),
         NEW ro \in BOOLEAN, NEW fits,
         s.down # None <=> s.outAlloc # None,
         s.told = s.outAlloc \/ (s.down = a /\ ~ro)
  PROVE  Notified(s, I!NotifyAllocator(s, a, ro, fits), a, x, ro)
<1> DEFINE t == [s EXCEPT !.readOnly = ro]
           made == I!MakeOutput(t)
           copying == IF made.outAlloc = a \/ ~fits THEN [ok |-> FALSE, s |-> made]
                      ELSE I!NotifyDownstream(made, made.outAlloc)
           passed == I!NotifyDownstream(t, a)
           sharing == IF passed.ok THEN [ok |-> TRUE, s |-> I!SetAllocator(passed.s, a)] ELSE passed
           m == IF ro /\ s.m_bModifiesData THEN copying ELSE sharing
           n == I!NotifyAllocator(s, a, ro, fits)
<1>1. t \in Members /\ Kept(s, t) /\ t.readOnly = ro /\ t.inAlloc = s.inAlloc
      /\ t.outAlloc = s.outAlloc /\ t.told = s.told /\ t.refs = s.refs
  BY DEF Members, Kept
<1>2. Referred(t, x)
  BY <1>1 DEF Referred
<1>3. n = IF s.down = None THEN [ok |-> TRUE, s |-> I!SetInput(t, a)]
          ELSE IF m.ok THEN [ok |-> TRUE, s |-> I!SetInput(m.s, a)] ELSE m
  BY DEF I!NotifyAllocator, I!OutConnected
<1> HIDE DEF t, n
<1>4. CASE s.down = None
  <2>1. n.ok = TRUE /\ n.s = I!SetInput(t, a)
    BY <1>3, <1>4
  <2>2. /\ n.s \in Members /\ Referred(n.s, x) /\ Kept(t, n.s)
        /\ n.s.inAlloc = a /\ n.s.outAlloc = t.outAlloc /\ n.s.told = t.told /\ n.s.readOnly = t.readOnly
    BY <1>1, <1>2, <2>1, InputSet
  <2>3. s.outAlloc = None /\ s.told = None
    BY <1>4, InPlaceConstants
  <2>4. Kept(s, n.s)
    BY <1>1, <2>2 DEF Kept
  <2> QED BY <1>1, <1>4, <2>1, <2>2, <2>3, <2>4 DEF Notified, n
<1>5. CASE s.down # None
  <2>1. made = t /\ s.outAlloc \in Refd
    BY <1>1, <1>5 DEF I!MakeOutput, Members
  <2> HIDE DEF made
  <2>2. ASSUME ro, s.m_bModifiesData
        PROVE  /\ copying.ok \in BOOLEAN /\ copying.s \in Members /\ Referred(copying.s, x)
               /\ Kept(t, copying.s) /\ copying.s.readOnly = ro /\ copying.s.inAlloc = t.inAlloc
               /\ copying.s.outAlloc = t.outAlloc /\ copying.s.told = t.outAlloc
               /\ copying.ok => t.outAlloc # a
    <3>1. CASE made.outAlloc = a \/ ~fits
      <4>1. copying.ok = FALSE /\ copying.s = t
        BY <2>1, <3>1
      <4> QED BY <1>1, <1>2, <2>2, <4>1 DEF Kept
    <3>2. CASE ~(made.outAlloc = a \/ ~fits)
      <4>1. copying = I!NotifyDownstream(t, t.outAlloc)
        BY <2>1, <3>2
      <4>2. t.outAlloc \in Refd /\ t.outAlloc # a /\ t.told = t.outAlloc
        BY <1>1, <2>1, <2>2, <3>2
      <4>3. LET w == I!NotifyDownstream(t, t.outAlloc)
            IN  /\ w.ok \in BOOLEAN /\ w.s \in Members /\ Referred(w.s, x) /\ Kept(t, w.s)
                /\ w.s.inAlloc = t.inAlloc /\ w.s.outAlloc = t.outAlloc /\ w.s.readOnly = t.readOnly
                /\ w.s.told = IF w.ok THEN t.outAlloc ELSE t.told
        BY <1>1, <1>2, <4>2, DownstreamTold
      <4> HIDE DEF copying
      <4> QED BY <1>1, <4>1, <4>2, <4>3
    <3> QED BY <3>1, <3>2
  <2>3. ASSUME ~(ro /\ s.m_bModifiesData)
        PROVE  /\ sharing.ok \in BOOLEAN /\ sharing.s \in Members /\ Referred(sharing.s, x)
               /\ Kept(t, sharing.s) /\ sharing.s.readOnly = ro /\ sharing.s.inAlloc = t.inAlloc
               /\ sharing.s.outAlloc = IF sharing.ok THEN a ELSE t.outAlloc
               /\ sharing.s.told = sharing.s.outAlloc
               /\ s.down = a => sharing.ok
    <3>1. /\ passed.ok \in BOOLEAN /\ passed.s \in Members /\ Referred(passed.s, x) /\ Kept(t, passed.s)
          /\ passed.s.inAlloc = t.inAlloc /\ passed.s.outAlloc = t.outAlloc /\ passed.s.readOnly = t.readOnly
          /\ passed.s.told = IF passed.ok THEN a ELSE t.told
          /\ a = t.down => passed.ok
      BY <1>1, <1>2, DownstreamTold
    <3> HIDE DEF passed
    <3>2. CASE passed.ok
      <4>1. sharing.ok = TRUE /\ sharing.s = I!SetAllocator(passed.s, a)
        BY <3>2
      <4>2. LET w == I!SetAllocator(passed.s, a)
            IN  /\ w \in Members /\ Referred(w, x) /\ Kept(passed.s, w)
                /\ w.inAlloc = passed.s.inAlloc /\ w.outAlloc = a /\ w.told = passed.s.told
                /\ w.readOnly = passed.s.readOnly
        BY <3>1, OutputSet
      <4>3. Kept(t, sharing.s)
        BY <3>1, <4>1, <4>2 DEF Kept
      <4> HIDE DEF sharing
      <4> QED BY <1>1, <3>1, <3>2, <4>1, <4>2, <4>3
    <3>3. CASE ~passed.ok
      <4>1. sharing = passed
        BY <3>3
      <4>2. t.down = s.down
        BY <1>1 DEF Kept
      <4>3. s.told = s.outAlloc /\ s.down # a
        BY <1>1, <3>1, <3>3, <4>2
      <4> HIDE DEF sharing
      <4> QED BY <1>1, <3>1, <3>3, <4>1, <4>3
    <3> QED BY <3>1, <3>2, <3>3
  <2> HIDE DEF copying, sharing
  <2>4. /\ m.ok \in BOOLEAN /\ m.s \in Members /\ Referred(m.s, x) /\ Kept(t, m.s)
        /\ m.s.readOnly = ro /\ m.s.inAlloc = s.inAlloc /\ m.s.told = m.s.outAlloc
        /\ m.s.outAlloc # None
        /\ m.ok /\ s.m_bModifiesData /\ ro => m.s.outAlloc # a
        /\ s.down = a /\ ~ro => m.ok
    BY <1>1, <2>1, <2>2, <2>3, InPlaceConstants
  <2> HIDE DEF m
  <2>5. CASE m.ok
    <3>1. n.ok = TRUE /\ n.s = I!SetInput(m.s, a)
      BY <1>3, <1>5, <2>5
    <3>2. /\ n.s \in Members /\ Referred(n.s, x) /\ Kept(m.s, n.s)
          /\ n.s.inAlloc = a /\ n.s.outAlloc = m.s.outAlloc /\ n.s.told = m.s.told /\ n.s.readOnly = m.s.readOnly
      BY <2>4, <3>1, InputSet
    <3>3. Kept(s, n.s)
      BY <1>1, <2>4, <3>2 DEF Kept
    <3> QED BY <1>1, <1>5, <2>4, <2>5, <3>1, <3>2, <3>3 DEF Notified, n
  <2>6. CASE ~m.ok
    <3>1. n = m
      BY <1>3, <1>5, <2>6
    <3>2. Kept(s, n.s)
      BY <1>1, <2>4, <3>1 DEF Kept
    <3> QED BY <1>1, <1>5, <2>4, <2>6, <3>1, <3>2 DEF Notified, n
  <2> QED BY <2>4, <2>5, <2>6
<1> QED BY <1>4, <1>5

\* The allocator that the upstream filter gets, to which it has a reference.
LEMMA AllocatorGot ==
  ASSUME I!InPlaceAssumption, NEW s \in Members, Referred(s, None), OutWhole(s)
  PROVE  LET g == I!GetAllocator(s)
         IN  /\ g.ok \in BOOLEAN
             /\ ~g.ok => g.s = s
             /\ g.ok => /\ g.alloc \in Refd /\ g.s \in Members /\ Referred(g.s, g.alloc) /\ Kept(s, g.s)
                        /\ s.down # None <=> g.s.outAlloc # None
                        /\ s.down # None => g.alloc = s.down
                        /\ g.s.told = s.told
<1> DEFINE g == I!GetAllocator(s)
<1>1. CASE s.down # None
  <2>1. g.ok = s.downManner.offers /\ g.alloc = s.down
        /\ g.s = IF s.downManner.offers THEN I!SetAllocator(I!AddRef(s, s.down), s.down) ELSE s
    BY <1>1 DEF I!GetAllocator, I!OutConnected
  <2>2. s.down \in Refd /\ s.downManner.offers \in BOOLEAN
    BY <1>1, InPlaceConstants DEF Members, I!DownManners
  <2> DEFINE t == I!AddRef(s, s.down)
  <2>3. t \in Members /\ Referred(t, s.down) /\ Kept(s, t) /\ t.inAlloc = s.inAlloc
        /\ t.outAlloc = s.outAlloc /\ t.told = s.told
    BY <2>2, ReferenceAdded
  <2> HIDE DEF t, g
  <2>4. LET w == I!SetAllocator(t, s.down)
        IN  /\ w \in Members /\ Referred(w, s.down) /\ Kept(t, w)
            /\ w.outAlloc = s.down /\ w.told = t.told
    BY <2>2, <2>3, OutputSet
  <2> QED BY <1>1, <2>1, <2>2, <2>3, <2>4, InPlaceConstants DEF Kept, t, g
<1>2. CASE s.down = None
  <2> DEFINE o == I!NewAllocator(s)
             t == IF s.inAlloc = None THEN [I!AddRef(s, o) EXCEPT !.inAlloc = o] ELSE s
  <2>1. g.ok = TRUE /\ g.alloc = t.inAlloc /\ g.s = I!AddRef(t, t.inAlloc)
    BY <1>2 DEF I!GetAllocator, I!OutConnected
  <2>2. s.outAlloc = None /\ s.told = None
    BY <1>2 DEF OutWhole
  <2>3. o \in Refd
    BY <2>2, NewIsOwn, InPlaceConstants
  <2>4. /\ t \in Members /\ Referred(t, None) /\ Kept(s, t) /\ t.outAlloc = s.outAlloc /\ t.told = s.told
        /\ t.inAlloc \in Refd
    <3>1. CASE s.inAlloc = None
      <4> DEFINE w == I!AddRef(s, o)
      <4>1. w \in Members /\ Referred(w, o) /\ Kept(s, w) /\ w.inAlloc = s.inAlloc
            /\ w.outAlloc = s.outAlloc /\ w.told = s.told
        BY <2>3, ReferenceAdded
      <4>2. t = [w EXCEPT !.inAlloc = o]
        BY <3>1
      <4> HIDE DEF w, o, t
      <4>3. t \in Members /\ Kept(w, t) /\ t.inAlloc = o /\ t.outAlloc = w.outAlloc /\ t.told = w.told
            /\ t.refs = w.refs
        BY <2>3, <4>1, <4>2 DEF Members, Kept
      <4>4. Referred(t, None)
        BY <2>3, <3>1, <4>1, <4>3, InPlaceConstants DEF Referred
      <4> QED BY <2>3, <4>1, <4>3, <4>4 DEF Kept
    <3>2. CASE s.inAlloc # None
      <4>1. t = s
        BY <3>2
      <4>2. s.inAlloc \in Refd
        BY <3>2 DEF Members
      <4> HIDE DEF t
      <4> QED BY <4>1, <4>2 DEF Kept
    <3> QED BY <3>1, <3>2
  <2> HIDE DEF t, g
  <2>5. g.s \in Members /\ Referred(g.s, g.alloc) /\ Kept(t, g.s) /\ g.s.outAlloc = t.outAlloc
        /\ g.s.told = t.told
    BY <2>1, <2>4, ReferenceAdded
  <2> QED BY <1>2, <2>1, <2>2, <2>4, <2>5 DEF Kept, g
<1> QED BY <1>1, <1>2

\* The upstream filter decides on one of them.
LEMMA UpstreamDecides ==
  ASSUME I!InPlaceAssumption, NEW s \in Members, Referred(s, None), OutWhole(s),
         NEW u \in Upstreams, NEW fits \in BOOLEAN
  PROVE  LET n == I!Decide(s, u, fits)
         IN  /\ n.ok \in BOOLEAN /\ n.s \in Members /\ Referred(n.s, None) /\ Kept(s, n.s)
             /\ OutWhole(n.s)
             /\ n.ok => n.s.inAlloc # None /\ NotInPlace(n.s)
<1> DEFINE n == I!Decide(s, u, fits)
           g == I!GetAllocator(s)
           ro == s.upManner.readOnly
           taken == I!NotifyAllocator(g.s, g.alloc, FALSE, fits)
           left == I!Release(taken.s, g.alloc)
<1>1. u \in Refd /\ ro \in BOOLEAN /\ s.upManner.insists \in BOOLEAN
  BY InPlaceConstants DEF Members, I!UpManners
<1>2. /\ g.ok \in BOOLEAN
      /\ ~g.ok => g.s = s
      /\ g.ok => /\ g.alloc \in Refd /\ g.s \in Members /\ Referred(g.s, g.alloc) /\ Kept(s, g.s)
                 /\ s.down # None <=> g.s.outAlloc # None
                 /\ s.down # None => g.alloc = s.down
                 /\ g.s.told = s.told
  BY AllocatorGot
<1> HIDE DEF ro
<1>d. n = IF s.upManner.insists \/ ~g.ok THEN I!NotifyAllocator(s, u, ro, fits)
          ELSE IF taken.ok THEN [taken EXCEPT !.s = left]
          ELSE I!NotifyAllocator(left, u, ro, fits)
  BY DEF I!Decide, ro
<1> HIDE DEF g, n
<1>3. CASE s.upManner.insists \/ ~g.ok
  <2>1. n = I!NotifyAllocator(s, u, ro, fits)
    BY <1>3, <1>d
  <2>2. s.down # None <=> s.outAlloc # None
    BY DEF OutWhole
  <2>3. s.told = s.outAlloc
    BY DEF OutWhole
  <2> HIDE DEF n
  <2>4. Notified(s, n, u, None, ro)
    BY <1>1, <2>1, <2>2, <2>3, InputNotified
  <2> QED BY <1>1, <2>4, InPlaceConstants DEF Notified, Kept, OutWhole, NotInPlace, n
<1>4. CASE ~(s.upManner.insists \/ ~g.ok)
  <2>1. g.ok /\ g.alloc \in Refd /\ g.s \in Members /\ Referred(g.s, g.alloc) /\ Kept(s, g.s)
    BY <1>2, <1>4
  <2>2. g.s.down # None <=> g.s.outAlloc # None
    BY <1>2, <2>1 DEF Kept
  <2>3. (g.s.told = g.s.outAlloc \/ g.s.down = g.alloc) /\ (g.s.down = None \/ g.s.down = g.alloc)
    BY <1>2, <2>1, <2>2 DEF Kept, OutWhole
  <2>p. FALSE \in BOOLEAN /\ ~FALSE
    OBVIOUS
  <2>n. Notified(g.s, taken, g.alloc, g.alloc, FALSE)
    BY <2>1, <2>2, <2>3, <2>p, InputNotified
  <2>4. /\ taken.ok \in BOOLEAN /\ taken.s \in Members /\ Referred(taken.s, g.alloc) /\ Kept(g.s, taken.s)
        /\ g.s.down # None <=> taken.s.outAlloc # None
        /\ taken.s.told = taken.s.outAlloc
        /\ taken.ok => taken.s.inAlloc = g.alloc /\ taken.s.readOnly = FALSE
        /\ g.s.down = g.alloc \/ g.s.down = None => taken.ok
    BY <2>n DEF Notified
  <2> HIDE DEF taken
  <2>5. /\ left \in Members /\ Referred(left, None) /\ Kept(taken.s, left)
        /\ left.inAlloc = taken.s.inAlloc /\ left.outAlloc = taken.s.outAlloc
        /\ left.told = taken.s.told /\ left.readOnly = taken.s.readOnly
    BY <2>1, <2>4, ReferenceReleased
  <2> HIDE DEF left
  <2>6. taken.ok
    BY <2>3, <2>4
  <2>7. n = [taken EXCEPT !.s = left]
    BY <1>4, <1>d, <2>6 DEF taken, left
  <2>8. n.s = left /\ n.ok = taken.ok
    <3>1. taken = [ok |-> taken.ok, s |-> taken.s]
      BY DEF taken, I!NotifyAllocator, I!NotifyDownstream
    <3> QED BY <2>7, <3>1
  <2> HIDE DEF n
  <2>9. taken.s.down = s.down /\ Kept(s, left)
    BY <2>1, <2>4, <2>5 DEF Kept
  <2> QED BY <2>1, <2>2, <2>4, <2>5, <2>6, <2>8, <2>9, InPlaceConstants DEF Kept, OutWhole, NotInPlace, n
<1> QED BY <1>3, <1>4

\* The output pin decides on one that the downstream filter takes.
LEMMA OutputDecides ==
  ASSUME I!InPlaceAssumption, NEW s \in Members, Referred(s, None), s.outAlloc = None, s.told = None,
         s.down # None, NEW fits \in BOOLEAN
  PROVE  LET n == I!DecideAllocator(s, fits)
         IN  /\ n.ok \in BOOLEAN /\ n.s \in Members /\ Referred(n.s, None) /\ Kept(s, n.s)
             /\ n.s.inAlloc = s.inAlloc /\ n.s.outAlloc # None
             /\ n.ok => n.s.told = n.s.outAlloc
<1> DEFINE a == IF s.downManner.offers /\ fits THEN s.down ELSE I!NewAllocator(s)
           t == I!AddRef(s, a)
           w == [t EXCEPT !.outAlloc = a]
           n == I!DecideAllocator(s, fits)
<1>1. a \in Refd
  <2>1. I!NewAllocator(s) \in Refd
    BY NewIsOwn, InPlaceConstants
  <2>2. s.down \in Refd
    BY InPlaceConstants DEF Members
  <2> QED BY <2>1, <2>2
<1>2. n = I!NotifyDownstream(w, a)
  BY DEF I!DecideAllocator
<1> HIDE DEF a, n
<1>3. /\ t \in Members /\ Referred(t, a) /\ Kept(s, t) /\ t.inAlloc = s.inAlloc
      /\ t.outAlloc = s.outAlloc /\ t.told = s.told
  BY <1>1, ReferenceAdded
<1> HIDE DEF t
<1>4. w \in Members /\ Kept(t, w) /\ w.inAlloc = t.inAlloc /\ w.outAlloc = a /\ w.told = t.told
      /\ w.refs = t.refs
  BY <1>1, <1>3 DEF Members, Kept
<1> HIDE DEF w
<1>5. Referred(w, None)
  BY <1>1, <1>3, <1>4, InPlaceConstants DEF Referred
<1>6. /\ n.ok \in BOOLEAN /\ n.s \in Members /\ Referred(n.s, None) /\ Kept(w, n.s)
      /\ n.s.inAlloc = w.inAlloc /\ n.s.outAlloc = w.outAlloc
      /\ n.s.told = IF n.ok THEN a ELSE w.told
  BY <1>1, <1>2, <1>4, <1>5, DownstreamTold
<1>7. Kept(s, n.s)
  BY <1>3, <1>4, <1>6 DEF Kept
<1> QED BY <1>1, <1>3, <1>4, <1>6, <1>7, InPlaceConstants DEF n

\* An attempt to connect the input leaves the pins whole, and asks for the output when
\* its type is another.
LEMMA InputConnects ==
  ASSUME I!InPlaceAssumption, NEW s \in Members, PinsWhole(s), s.up = None,
         NEW u \in Upstreams, NEW y \in Types, NEW asked \in [{"in", "out"} -> Types \cup {None}],
         I!ConnectInput(s, u, y, asked)
  PROVE  /\ PinsWhole(f') /\ NotInPlace(f')
         /\ f'.down = s.down /\ f'.outType = s.outType
         /\ pending' \in [{"in", "out"} -> Types \cup {None}] /\ pending'["in"] = asked["in"]
         /\ pending'["out"] = asked["out"] \/ (s.down # None /\ s.outType # y)
         /\ f'.up # None /\ f'.down # None /\ f'.inType # f'.outType => pending'["out"] # None
<1>1. PICK fits \in BOOLEAN :
        LET joined == [s EXCEPT !.up = u, !.inType = y]
            d == I!Decide(joined, u, fits)
        IN  IF y \in s.upAccepts /\ I!CheckMediaType(s, "in", y)
            THEN /\ f' = IF d.ok THEN d.s ELSE I!BreakInput(d.s)
                 /\ pending' = I!AfterInput(joined, asked)
            ELSE f' = s /\ pending' = asked
  BY DEF I!ConnectInput
<1> DEFINE joined == [s EXCEPT !.up = u, !.inType = y]
           d == I!Decide(joined, u, fits)
<1>2. CASE ~(y \in s.upAccepts /\ I!CheckMediaType(s, "in", y))
  <2>1. f' = s /\ pending' = asked
    BY <1>1, <1>2
  <2> QED BY <2>1 DEF NotInPlace
<1>3. CASE y \in s.upAccepts /\ I!CheckMediaType(s, "in", y)
  <2>1. f' = (IF d.ok THEN d.s ELSE I!BreakInput(d.s)) /\ pending' = I!AfterInput(joined, asked)
    BY <1>1, <1>3
  <2>2. u # None /\ y # None
    BY InPlaceConstants
  <2>3. /\ joined \in Members /\ joined.up = u /\ joined.inType = y /\ joined.down = s.down
        /\ joined.outType = s.outType /\ joined.upAccepts = s.upAccepts /\ joined.downAccepts = s.downAccepts
        /\ joined.inAlloc = s.inAlloc /\ joined.outAlloc = s.outAlloc /\ joined.told = s.told
        /\ joined.refs = s.refs
    BY DEF Members
  <2>4. pending' = IF s.down # None /\ y # s.outType THEN [asked EXCEPT !["out"] = y] ELSE asked
    BY <2>1, <2>3 DEF I!AfterInput, I!OutConnected
  <2> HIDE DEF joined
  <2>5. Referred(joined, None) /\ OutWhole(joined)
    BY <2>3 DEF PinsWhole, Referred, OutWhole
  <2>6. /\ d.ok \in BOOLEAN /\ d.s \in Members /\ Referred(d.s, None) /\ Kept(joined, d.s)
        /\ OutWhole(d.s)
        /\ d.ok => d.s.inAlloc # None /\ NotInPlace(d.s)
    BY <2>3, <2>5, UpstreamDecides
  <2> HIDE DEF d
  <2>7. /\ pending' \in [{"in", "out"} -> Types \cup {None}] /\ pending'["in"] = asked["in"]
        /\ pending'["out"] = asked["out"] \/ (s.down # None /\ s.outType # y)
        /\ s.down # None /\ y # s.outType => pending'["out"] # None
    BY <2>2, <2>4
  <2>8. CASE d.ok
    <3>1. f' = d.s
      BY <2>1, <2>8
    <3>2. f'.up = u /\ f'.inType = y /\ f'.down = s.down /\ f'.outType = s.outType
          /\ f'.upAccepts = s.upAccepts
      BY <2>3, <2>6, <3>1 DEF Kept
    <3>3. PinsWhole(f') /\ NotInPlace(f')
      BY <1>3, <2>2, <2>6, <2>8, <3>1, <3>2 DEF PinsWhole, InWhole
    <3> QED BY <2>7, <3>2, <3>3
  <2>9. CASE ~d.ok
    <3>1. f' = I!BreakInput(d.s)
      BY <2>1, <2>9
    <3>2. PinsWhole(f') /\ f'.up = None /\ f'.down = d.s.down /\ f'.outType = d.s.outType
      BY <2>6, <3>1, InputBroken
    <3>3. d.s.down = s.down /\ d.s.outType = s.outType
      BY <2>3, <2>6 DEF Kept
    <3> QED BY <2>7, <3>2, <3>3 DEF NotInPlace
  <2> QED BY <2>6, <2>8, <2>9
<1> QED BY <1>2, <1>3

\* An attempt to connect the output leaves the pins whole, and asks for the input.
LEMMA OutputConnects ==
  ASSUME I!InPlaceAssumption, NEW s \in Members, PinsWhole(s), s.down = None,
         NEW d \in Downstreams, NEW y \in Types, NEW asked \in [{"in", "out"} -> Types \cup {None}],
         I!ConnectOutput(s, d, y, asked)
  PROVE  /\ PinsWhole(f') /\ f'.up = s.up
         /\ pending' \in [{"in", "out"} -> Types \cup {None}] /\ pending'["out"] = asked["out"]
         /\ \/ f'.down = None /\ pending'["in"] = asked["in"]
            \/ f'.down # None /\ pending'["in"] # None /\ pending'["in"] = f'.outType
<1>1. PICK fits \in BOOLEAN :
        LET joined == [s EXCEPT !.down = d, !.outType = y]
            n == I!DecideAllocator(joined, fits)
        IN  IF I!MayConnectOutput(s, y)
            THEN IF n.ok THEN f' = n.s /\ pending' = I!AfterOutput(n.s, asked)
                 ELSE f' = I!BreakOutput(n.s) /\ pending' = asked
            ELSE f' = s /\ pending' = asked
  BY DEF I!ConnectOutput
<1> DEFINE joined == [s EXCEPT !.down = d, !.outType = y]
           n == I!DecideAllocator(joined, fits)
<1>2. CASE ~I!MayConnectOutput(s, y)
  BY <1>1, <1>2
<1>3. CASE I!MayConnectOutput(s, y)
  <2>1. IF n.ok THEN f' = n.s /\ pending' = I!AfterOutput(n.s, asked)
        ELSE f' = I!BreakOutput(n.s) /\ pending' = asked
    BY <1>1, <1>3
  <2>2. d # None /\ y # None
    BY InPlaceConstants
  <2>3. y \in s.downAccepts /\ s.up # None
    BY <1>3 DEF I!MayConnectOutput, I!InConnected
  <2>4. /\ joined \in Members /\ joined.down = d /\ joined.outType = y /\ joined.up = s.up
        /\ joined.inType = s.inType /\ joined.upAccepts = s.upAccepts /\ joined.downAccepts = s.downAccepts
        /\ joined.inAlloc = s.inAlloc /\ joined.outAlloc = s.outAlloc /\ joined.told = s.told
        /\ joined.refs = s.refs
    BY DEF Members
  <2> HIDE DEF joined
  <2>5. Referred(joined, None) /\ joined.outAlloc = None /\ joined.told = None
    BY <2>4 DEF PinsWhole, Referred, OutWhole
  <2>6. /\ n.ok \in BOOLEAN /\ n.s \in Members /\ Referred(n.s, None) /\ Kept(joined, n.s)
        /\ n.s.inAlloc = joined.inAlloc /\ n.s.outAlloc # None
        /\ n.ok => n.s.told = n.s.outAlloc
    BY <2>2, <2>4, <2>5, OutputDecides
  <2> HIDE DEF n
  <2>7. /\ n.s.up = s.up /\ n.s.inType = s.inType /\ n.s.upAccepts = s.upAccepts /\ n.s.down = d
        /\ n.s.outType = y /\ n.s.downAccepts = s.downAccepts /\ n.s.inAlloc = s.inAlloc
    BY <2>4, <2>6 DEF Kept
  <2>8. InWhole(n.s)
    BY <2>7 DEF PinsWhole, InWhole
  <2>9. CASE n.ok
    <3>1. f' = n.s /\ pending' = I!AfterOutput(n.s, asked)
      BY <2>1, <2>9
    <3>2. pending' = [asked EXCEPT !["in"] = y]
      BY <2>3, <2>7, <3>1 DEF I!AfterOutput, I!InConnected
    <3>3. PinsWhole(f')
      BY <2>2, <2>3, <2>6, <2>7, <2>8, <2>9, <3>1 DEF PinsWhole, OutWhole
    <3> QED BY <2>2, <2>7, <3>1, <3>2, <3>3
  <2>10. CASE ~n.ok
    <3>1. f' = I!BreakOutput(n.s) /\ pending' = asked
      BY <2>1, <2>10
    <3>2. PinsWhole(f') /\ f'.down = None /\ f'.up = n.s.up
      BY <2>6, <2>8, <3>1, OutputBroken
    <3> QED BY <2>7, <3>1, <3>2
  <2> QED BY <2>6, <2>9, <2>10
<1> QED BY <1>2, <1>3

\* A call of the graph's owner, or of the graph, is made while nothing flows.
LEMMA NothingFlows ==
  ASSUME InPlaceInv, ~running \/ pending # I!NoPending, running' = running, buffer' = buffer,
         copies' = copies
  PROVE  Flowing'
<1>1. ~running /\ buffer = None /\ copies = 0
  BY DEF InPlaceInv, Flowing
<1>2. ~running' /\ buffer' = None /\ copies' = 0 /\ running' \in BOOLEAN /\ buffer' \in Refd \cup {None}
  BY <1>1 DEF InPlaceInv, Flowing
<1> QED BY <1>2 DEF Flowing

\* The flags of a sample are none of the agreement's business.
SamePins(s, t) ==
  /\ t \in Members /\ Kept(s, t) /\ t.inAlloc = s.inAlloc /\ t.outAlloc = s.outAlloc
  /\ t.told = s.told /\ t.readOnly = s.readOnly /\ t.refs = s.refs

LEMMA FlagsOnly ==
  ASSUME PinsWhole(f), Asked, SamePins(f, f'), pending' = pending, rounds' = rounds
  PROVE  PinsWhole(f') /\ Asked'
<1>1. PinsWhole(f')
  BY DEF PinsWhole, SamePins, Kept, Referred, InWhole, OutWhole
<1>2. NotInPlace(f) => NotInPlace(f')
  BY DEF NotInPlace, SamePins, Kept
<1>3. f'.up = f.up /\ f'.down = f.down /\ f'.inType = f.inType /\ f'.outType = f.outType
  BY DEF SamePins, Kept
<1> QED BY <1>1, <1>2, <1>3 DEF Asked

LEMMA OwnerInput ==
  ASSUME I!InPlaceAssumption, InPlaceInv, I!OwnerConnectsInput
  PROVE  InPlaceInv'
<1>1. /\ pending = I!NoPending /\ ~running /\ f.up = None
      /\ rounds' = 0 /\ running' = running /\ buffer' = buffer /\ copies' = copies
  BY DEF I!OwnerConnectsInput, I!Settled, I!InConnected
<1>2. PICK u \in Upstreams, y \in Types, m \in I!UpManners, A \in SUBSET Types \ {{}} :
        I!ConnectInput([f EXCEPT !.upManner = m, !.upAccepts = A], u, y, pending)
  BY DEF I!OwnerConnectsInput
<1> DEFINE s == [f EXCEPT !.upManner = m, !.upAccepts = A]
<1>3. /\ s \in Members /\ s.up = f.up /\ s.down = f.down /\ s.outType = f.outType
      /\ s.downAccepts = f.downAccepts /\ s.inAlloc = f.inAlloc /\ s.outAlloc = f.outAlloc
      /\ s.told = f.told /\ s.refs = f.refs
  BY DEF Members, InPlaceInv, PinsWhole
<1>4. I!ConnectInput(s, u, y, pending)
  BY <1>2
<1> HIDE DEF s
<1>5. PinsWhole(s) /\ s.up = None
  BY <1>1, <1>3 DEF InPlaceInv, PinsWhole, Referred, InWhole, OutWhole
<1>6. pending \in [{"in", "out"} -> Types \cup {None}] /\ pending["in"] = None /\ pending["out"] = None
  BY <1>1 DEF I!NoPending
<1>7. /\ PinsWhole(f') /\ NotInPlace(f')
      /\ pending' \in [{"in", "out"} -> Types \cup {None}] /\ pending'["in"] = None
      /\ f'.up # None /\ f'.down # None /\ f'.inType # f'.outType => pending'["out"] # None
  BY <1>3, <1>4, <1>5, <1>6, InputConnects
<1>8. Asked'
  BY <1>1, <1>7 DEF Asked
<1> QED BY <1>1, <1>7, <1>8, NothingFlows DEF InPlaceInv

LEMMA OwnerOutput ==
  ASSUME I!InPlaceAssumption, InPlaceInv, I!OwnerConnectsOutput
  PROVE  InPlaceInv'
<1>1. /\ pending = I!NoPending /\ ~running /\ f.down = None
      /\ rounds' = 0 /\ running' = running /\ buffer' = buffer /\ copies' = copies
  BY DEF I!OwnerConnectsOutput, I!Settled, I!OutConnected
<1>2. PICK d \in Downstreams, y \in Types, m \in I!DownManners, A \in SUBSET Types \ {{}} :
        I!ConnectOutput([f EXCEPT !.downManner = m, !.downAccepts = A], d, y, pending)
  BY DEF I!OwnerConnectsOutput
<1> DEFINE s == [f EXCEPT !.downManner = m, !.downAccepts = A]
<1>3. /\ s \in Members /\ s.up = f.up /\ s.down = f.down /\ s.inType = f.inType
      /\ s.upAccepts = f.upAccepts /\ s.inAlloc = f.inAlloc /\ s.outAlloc = f.outAlloc
      /\ s.told = f.told /\ s.refs = f.refs
  BY DEF Members, InPlaceInv, PinsWhole
<1>4. I!ConnectOutput(s, d, y, pending)
  BY <1>2
<1> HIDE DEF s
<1>5. PinsWhole(s) /\ s.down = None
  BY <1>1, <1>3 DEF InPlaceInv, PinsWhole, Referred, InWhole, OutWhole
<1>6. pending \in [{"in", "out"} -> Types \cup {None}] /\ pending["in"] = None /\ pending["out"] = None
  BY <1>1 DEF I!NoPending
<1>7. /\ PinsWhole(f')
      /\ pending' \in [{"in", "out"} -> Types \cup {None}] /\ pending'["out"] = None
      /\ \/ f'.down = None /\ pending'["in"] = None
         \/ f'.down # None /\ pending'["in"] # None /\ pending'["in"] = f'.outType
  BY <1>3, <1>4, <1>5, <1>6, OutputConnects
<1>8. f'.down = None => NotInPlace(f')
  BY DEF NotInPlace
<1>9. Asked'
  BY <1>1, <1>7, <1>8 DEF Asked
<1> QED BY <1>1, <1>7, <1>9, NothingFlows DEF InPlaceInv

LEMMA Disconnects ==
  ASSUME I!InPlaceAssumption, InPlaceInv, I!DisconnectInput \/ I!DisconnectOutput
  PROVE  InPlaceInv'
<1>1. /\ pending = I!NoPending /\ ~running
      /\ pending' = pending /\ rounds' = rounds /\ running' = running /\ buffer' = buffer /\ copies' = copies
      /\ f' = I!BreakInput(f) \/ f' = I!BreakOutput(f)
  BY DEF I!DisconnectInput, I!DisconnectOutput, I!Settled
<1>2. pending["in"] = None /\ pending["out"] = None
  BY <1>1 DEF I!NoPending
<1>3. PinsWhole(f') /\ (f'.up = None \/ f'.down = None)
  <2>1. CASE f' = I!BreakInput(f)
    BY <2>1, InputBroken DEF InPlaceInv, PinsWhole
  <2>2. CASE f' = I!BreakOutput(f)
    BY <2>2, OutputBroken DEF InPlaceInv, PinsWhole
  <2> QED BY <1>1, <2>1, <2>2
<1>4. NotInPlace(f')
  BY <1>3 DEF NotInPlace
<1>5. Asked'
  BY <1>1, <1>2, <1>3, <1>4 DEF Asked, InPlaceInv
<1> QED BY <1>1, <1>3, <1>5, NothingFlows DEF InPlaceInv

LEMMA InputReconnects ==
  ASSUME I!InPlaceAssumption, InPlaceInv, I!Reconnect("in")
  PROVE  InPlaceInv'
<1> DEFINE left == [pending EXCEPT !["in"] = None]
<1>1. /\ pending["in"] # None /\ rounds' = rounds + 1
      /\ running' = running /\ buffer' = buffer /\ copies' = copies
      /\ IF f.up # None THEN I!ConnectInput(I!BreakInput(f), f.up, pending["in"], left)
         ELSE f' = f /\ pending' = left
  BY DEF I!Reconnect, I!InConnected
<1>2. /\ pending["out"] = None /\ rounds \in Nat /\ rounds <= 1 /\ f.down # None
      /\ pending["in"] = f.outType /\ pending["in"] \in Types
  BY <1>1 DEF InPlaceInv, Asked
<1>3. /\ left \in [{"in", "out"} -> Types \cup {None}] /\ left["in"] = None /\ left["out"] = None
      /\ pending # I!NoPending
  BY <1>1, <1>2 DEF InPlaceInv, Asked, I!NoPending
<1> HIDE DEF left
<1>4. /\ PinsWhole(f') /\ NotInPlace(f')
      /\ pending' \in [{"in", "out"} -> Types \cup {None}] /\ pending'["in"] = None /\ pending'["out"] = None
      /\ f'.up # None /\ f'.down # None => f'.inType = f'.outType
  <2>1. CASE f.up = None
    BY <1>1, <1>3, <2>1 DEF InPlaceInv, NotInPlace
  <2>2. CASE f.up # None
    <3> DEFINE s == I!BreakInput(f)
    <3>1. I!ConnectInput(s, f.up, pending["in"], left)
      BY <1>1, <2>2
    <3>2. PinsWhole(s) /\ s.up = None /\ s.down = f.down /\ s.outType = f.outType
      BY InputBroken DEF InPlaceInv, PinsWhole
    <3>3. f.up \in Upstreams /\ s \in Members
      BY <2>2, <3>2 DEF InPlaceInv, PinsWhole, Members
    <3> HIDE DEF s
    <3>4. /\ PinsWhole(f') /\ NotInPlace(f')
          /\ pending' \in [{"in", "out"} -> Types \cup {None}] /\ pending'["in"] = left["in"]
          /\ pending'["out"] = left["out"] \/ (s.down # None /\ s.outType # pending["in"])
          /\ f'.up # None /\ f'.down # None /\ f'.inType # f'.outType => pending'["out"] # None
      BY <1>2, <1>3, <3>1, <3>2, <3>3, InputConnects
    <3> QED BY <1>2, <1>3, <3>2, <3>4
  <2> QED BY <2>1, <2>2
<1>5. rounds' \in Nat /\ rounds' <= 2
  BY <1>1, <1>2
<1>6. Asked'
  BY <1>4, <1>5 DEF Asked
<1> QED BY <1>1, <1>3, <1>4, <1>6, NothingFlows DEF InPlaceInv

LEMMA OutputReconnects ==
  ASSUME I!InPlaceAssumption, InPlaceInv, I!Reconnect("out")
  PROVE  InPlaceInv'
<1> DEFINE left == [pending EXCEPT !["out"] = None]
<1>1. /\ pending["out"] # None /\ rounds' = rounds + 1
      /\ running' = running /\ buffer' = buffer /\ copies' = copies
      /\ IF f.down # None THEN I!ConnectOutput(I!BreakOutput(f), f.down, pending["out"], left)
         ELSE f' = f /\ pending' = left
  BY DEF I!Reconnect, I!OutConnected
<1>2. pending["in"] = None /\ rounds = 0 /\ pending["out"] \in Types
  BY <1>1 DEF InPlaceInv, Asked
<1>3. /\ left \in [{"in", "out"} -> Types \cup {None}] /\ left["in"] = None /\ left["out"] = None
      /\ pending # I!NoPending
  BY <1>1, <1>2 DEF InPlaceInv, Asked, I!NoPending
<1> HIDE DEF left
<1>4. /\ PinsWhole(f')
      /\ pending' \in [{"in", "out"} -> Types \cup {None}] /\ pending'["out"] = None
      /\ \/ f'.down = None /\ pending'["in"] = None
         \/ f'.down # None /\ pending'["in"] # None /\ pending'["in"] = f'.outType
  <2>1. CASE f.down = None
    BY <1>1, <1>3, <2>1 DEF InPlaceInv
  <2>2. CASE f.down # None
    <3> DEFINE s == I!BreakOutput(f)
    <3>1. I!ConnectOutput(s, f.down, pending["out"], left)
      BY <1>1, <2>2
    <3>2. PinsWhole(s) /\ s.down = None
      BY OutputBroken DEF InPlaceInv, PinsWhole
    <3>3. f.down \in Downstreams /\ s \in Members
      BY <2>2, <3>2 DEF InPlaceInv, PinsWhole, Members
    <3> HIDE DEF s
    <3>4. /\ PinsWhole(f')
          /\ pending' \in [{"in", "out"} -> Types \cup {None}] /\ pending'["out"] = left["out"]
          /\ \/ f'.down = None /\ pending'["in"] = left["in"]
             \/ f'.down # None /\ pending'["in"] # None /\ pending'["in"] = f'.outType
      BY <1>2, <1>3, <3>1, <3>2, <3>3, OutputConnects
    <3> QED BY <1>3, <3>4
  <2> QED BY <2>1, <2>2
<1>5. rounds' = 1
  BY <1>1, <1>2
<1>6. f'.down = None => NotInPlace(f')
  BY DEF NotInPlace
<1>7. Asked'
  BY <1>4, <1>5, <1>6 DEF Asked
<1> QED BY <1>1, <1>3, <1>4, <1>7, NothingFlows DEF InPlaceInv

\* What happens while samples flow.
LEMMA SamplesFlow ==
  ASSUME I!InPlaceAssumption, InPlaceInv,
         I!Start \/ I!Stop \/ I!Receive \/ I!TransformFails \/ I!Transform
  PROVE  InPlaceInv'
<1>1. pending' = pending /\ rounds' = rounds
  BY DEF I!Start, I!Stop, I!Receive, I!TransformFails, I!Transform
<1>2. /\ f \in Members
      /\ \/ f' = f \/ f' = [f EXCEPT !.m_bSampleSkipped = FALSE]
         \/ f' = [f EXCEPT !.m_bSampleSkipped = FALSE, !.m_bQualityChanged = FALSE]
         \/ f' = [f EXCEPT !.m_bSampleSkipped = TRUE, !.m_bQualityChanged = TRUE]
  BY DEF I!Start, I!Stop, I!Receive, I!TransformFails, I!Transform, InPlaceInv, PinsWhole
<1>3. SamePins(f, f')
  <2>1. ASSUME NEW m_1 \in BOOLEAN, NEW m_2 \in BOOLEAN,
               f' = [f EXCEPT !.m_bSampleSkipped = m_1, !.m_bQualityChanged = m_2]
        PROVE  SamePins(f, f')
    <3>1. f \in Members
      BY <1>2
    <3>2. f' \in Members
      BY <2>1, <3>1 DEF Members
    <3>3. /\ f'.up = f.up /\ f'.down = f.down /\ f'.inType = f.inType /\ f'.outType = f.outType
          /\ f'.upManner = f.upManner /\ f'.downManner = f.downManner
          /\ f'.upAccepts = f.upAccepts /\ f'.downAccepts = f.downAccepts
          /\ f'.m_bModifiesData = f.m_bModifiesData
      BY <2>1, <3>1 DEF Members
    <3>4. /\ f'.inAlloc = f.inAlloc /\ f'.outAlloc = f.outAlloc
          /\ f'.told = f.told /\ f'.readOnly = f.readOnly /\ f'.refs = f.refs
      BY <2>1, <3>1 DEF Members
    <3> QED BY <3>2, <3>3, <3>4 DEF SamePins, Kept
  <2>2. CASE f' = f
    BY <1>2, <2>2 DEF SamePins, Kept
  <2>3. CASE f' = [f EXCEPT !.m_bSampleSkipped = FALSE]
    <3>1. f' = [f EXCEPT !.m_bSampleSkipped = FALSE, !.m_bQualityChanged = f.m_bQualityChanged]
          /\ f.m_bQualityChanged \in BOOLEAN
      BY <1>2, <2>3 DEF Members
    <3> QED BY <2>1, <3>1
  <2> QED BY <1>2, <2>1, <2>2, <2>3
<1>4. PinsWhole(f') /\ Asked'
  BY <1>1, <1>3, FlagsOnly DEF InPlaceInv
<1>5. f'.up = f.up /\ f'.down = f.down /\ f'.inAlloc = f.inAlloc /\ f'.outAlloc = f.outAlloc
  BY <1>3 DEF SamePins, Kept
<1>6. /\ running \in BOOLEAN /\ buffer \in Refd \cup {None} /\ copies \in Int
      /\ running => pending = I!NoPending /\ f.up # None /\ f.down # None
      /\ buffer # None => running /\ buffer = f.outAlloc
      /\ copies = IF buffer # None /\ f.inAlloc # f.outAlloc THEN 1 ELSE 0
  BY DEF InPlaceInv, Flowing
<1>7. Flowing'
  <2>1. CASE I!Start
    <3>1. /\ running' = TRUE /\ pending = I!NoPending /\ f.up # None /\ f.down # None /\ ~running
          /\ buffer' = buffer /\ copies' = copies
      BY <2>1 DEF I!Start, I!Settled, I!InConnected, I!OutConnected
    <3> QED BY <1>1, <1>5, <1>6, <3>1 DEF Flowing, I!NoPending
  <2>2. CASE I!Stop
    BY <1>1, <1>5, <1>6, <2>2 DEF Flowing, I!Stop
  <2>3. CASE I!Receive
    <3>1. f.outAlloc \in Refd /\ running' = running /\ running /\ buffer = None
      BY <1>2, <1>6, <2>3 DEF I!Receive, InPlaceInv, PinsWhole, OutWhole, Members
    <3>2. \/ f.inAlloc # f.outAlloc /\ buffer' = f.outAlloc /\ copies' = copies + 1
          \/ buffer' = buffer /\ copies' = copies
          \/ f.inAlloc = f.outAlloc /\ buffer' = f.inAlloc /\ copies' = copies
      BY <2>3 DEF I!Receive, I!UsingDifferentAllocators
    <3>3. f.outAlloc # None
      BY <3>1, InPlaceConstants
    <3>4. copies' = IF buffer' # None /\ f.inAlloc # f.outAlloc THEN 1 ELSE 0
      BY <1>6, <3>1, <3>2, <3>3
    <3>5. buffer' \in Refd \cup {None} /\ (buffer' # None => running' /\ buffer' = f.outAlloc)
      BY <1>6, <3>1, <3>2
    <3> QED BY <1>1, <1>5, <1>6, <3>1, <3>4, <3>5 DEF Flowing, I!NoPending
  <2>4. CASE I!TransformFails \/ I!Transform
    <3>1. /\ buffer' = None /\ buffer # None /\ running' = running
          /\ copies' = IF f.inAlloc # f.outAlloc THEN copies - 1 ELSE copies
      BY <2>4 DEF I!TransformFails, I!Transform, I!UsingDifferentAllocators
    <3>2. copies' = 0
      BY <1>6, <3>1
    <3> QED BY <1>1, <1>5, <1>6, <3>1, <3>2 DEF Flowing, I!NoPending
  <2> QED BY <2>1, <2>2, <2>3, <2>4
<1> QED BY <1>4, <1>7 DEF InPlaceInv

LEMMA InPlaceStep ==
  ASSUME I!InPlaceAssumption, InPlaceInv, I!Next \/ UNCHANGED inPlace
  PROVE  InPlaceInv'
<1>1. CASE I!Next
  <2>1. ASSUME NEW e \in {"in", "out"}, I!Reconnect(e) PROVE InPlaceInv'
    <3>1. e = "in" \/ e = "out"
      OBVIOUS
    <3> QED BY <2>1, <3>1, InputReconnects, OutputReconnects
  <2> QED BY <1>1, <2>1, OwnerInput, OwnerOutput, Disconnects, SamplesFlow DEF I!Next
<1>2. CASE UNCHANGED inPlace
  BY <1>2 DEF inPlace, InPlaceInv, PinsWhole, Referred, InWhole, OutWhole, NotInPlace, Asked, Flowing,
              I!NoPending
<1> QED BY <1>1, <1>2

LEMMA InPlaceStart == I!InPlaceAssumption /\ I!Init => InPlaceInv
<1> SUFFICES ASSUME I!InPlaceAssumption, I!Init PROVE InPlaceInv
  OBVIOUS
<1>1. PICK modifies \in BOOLEAN : f = [I!Fresh EXCEPT !.m_bModifiesData = modifies]
  BY DEF I!Init
<1>2. pending = I!NoPending /\ running = FALSE /\ buffer = None /\ copies = 0 /\ rounds = 0
  BY DEF I!Init
<1>3. I!Allocators = Refd
  BY InPlaceConstants
<1>4. I!Fresh.refs \in [Refd -> Int] /\ \A a \in Refd : I!Fresh.refs[a] = 0
  BY <1>3 DEF I!Fresh
<1>m. [insists |-> FALSE, readOnly |-> FALSE] \in I!UpManners
      /\ [offers |-> FALSE, onlyOwn |-> FALSE] \in I!DownManners
  BY DEF I!UpManners, I!DownManners
<1>5. I!Fresh \in Members
  BY <1>3, <1>4, <1>m DEF I!Fresh, Members
<1>6. /\ f \in Members /\ f.refs = I!Fresh.refs /\ f.up = None /\ f.down = None
      /\ f.inAlloc = None /\ f.outAlloc = None /\ f.told = None
  <2>1. f \in Members /\ f.refs = I!Fresh.refs
    BY <1>1, <1>5 DEF Members
  <2>2. /\ f.up = None /\ f.down = None
        /\ f.inAlloc = None /\ f.outAlloc = None /\ f.told = None
    BY <1>1 DEF I!Fresh
  <2> QED BY <2>1, <2>2
<1>7. Referred(f, None)
  BY <1>4, <1>6, InPlaceConstants DEF Referred
<1>8. PinsWhole(f) /\ NotInPlace(f)
  BY <1>6, <1>7 DEF PinsWhole, InWhole, OutWhole, NotInPlace
<1>9. pending \in [{"in", "out"} -> Types \cup {None}] /\ pending["in"] = None /\ pending["out"] = None
  BY <1>2 DEF I!NoPending
<1>10. Asked
  BY <1>2, <1>6, <1>8, <1>9 DEF Asked
<1>11. Flowing
  <2>1. running \in BOOLEAN /\ ~running
    BY <1>2
  <2>2. buffer = None /\ copies = 0
    BY <1>2
  <2> QED BY <2>1, <2>2 DEF Flowing
<1> QED BY <1>8, <1>10, <1>11 DEF InPlaceInv

\* What the invariant says of the pins.
LEMMA InPlaceHeld ==
  ASSUME I!InPlaceAssumption, InPlaceInv
  PROVE  /\ I!OneReferencePerPointer /\ I!CopiesReleased
         /\ I!Agreed /\ I!WritesWhereAgreed /\ I!ReconnectsSettle
<1>1. I!OneReferencePerPointer
  BY InPlaceConstants DEF I!OneReferencePerPointer, InPlaceInv, PinsWhole, Referred, Members
<1>2. I!CopiesReleased
  BY DEF I!CopiesReleased, I!UsingDifferentAllocators, InPlaceInv, Flowing
<1>3. pending = I!NoPending => pending["in"] = None /\ pending["out"] = None
  BY DEF I!NoPending
<1>4. I!Agreed
  BY <1>3 DEF I!Agreed, I!InConnected, I!OutConnected, InPlaceInv, PinsWhole, InWhole, OutWhole, Asked
<1>5. I!WritesWhereAgreed
  BY <1>3 DEF I!WritesWhereAgreed, InPlaceInv, PinsWhole, OutWhole, Asked, Flowing, NotInPlace
<1>6. I!ReconnectsSettle
  <2>1. rounds \in Nat /\ rounds <= 2 /\ (rounds = 2 => pending["in"] = None /\ pending["out"] = None)
    BY DEF InPlaceInv, Asked
  <2>2. pending["in"] = None /\ pending["out"] = None => pending = I!NoPending
    BY DEF InPlaceInv, Asked, I!NoPending
  <2> QED BY <2>1, <2>2 DEF I!ReconnectsSettle
<1> QED BY <1>1, <1>2, <1>4, <1>5, <1>6

LEMMA InPlaceTyped == ASSUME I!InPlaceAssumption, InPlaceInv PROVE I!TypeOK
<1>1. f \in Members /\ I!Allocators = Refd
  BY InPlaceConstants DEF InPlaceInv, PinsWhole
<1>2. f.up \in Upstreams \cup {None} /\ f.down \in Downstreams \cup {None}
      /\ {f.inType, f.outType} \subseteq Types \cup {None}
      /\ f.upManner \in I!UpManners /\ f.downManner \in I!DownManners
      /\ f.upAccepts \subseteq Types /\ f.downAccepts \subseteq Types /\ f.refs \in [Refd -> Int]
  BY <1>1 DEF Members
<1>3. {f.inAlloc, f.outAlloc, f.told, buffer} \subseteq Refd \cup {None}
  BY <1>1 DEF Members, InPlaceInv, Flowing
<1>4. f.readOnly \in BOOLEAN /\ f.m_bModifiesData \in BOOLEAN /\ f.m_bSampleSkipped \in BOOLEAN
      /\ f.m_bQualityChanged \in BOOLEAN /\ running \in BOOLEAN
  BY <1>1 DEF Members, InPlaceInv, Flowing
<1>5. {f.readOnly, f.m_bModifiesData, f.m_bSampleSkipped, f.m_bQualityChanged, running} \subseteq BOOLEAN
  BY <1>4, Zenon
<1>6. pending \in [{"in", "out"} -> Types \cup {None}] /\ copies \in Int /\ rounds \in Nat
  BY DEF InPlaceInv, Asked, Flowing
<1> QED BY <1>1, <1>2, <1>3, <1>5, <1>6, Zenon DEF I!TypeOK

(***************************************************************************)
(* Sequences and numbers                                                   *)
(***************************************************************************)
\* A sequence with an element at a place, and without the one there.
InsertedAt(s, i, e) == (SubSeq(s, 1, i - 1) \o <<e>>) \o SubSeq(s, i, Len(s))
RemovedAt(s, i) == SubSeq(s, 1, i - 1) \o SubSeq(s, i + 1, Len(s))

\* r is s with e at place i.
Inserted(r, s, i, e) ==
  \A j \in 1..(Len(s) + 1) :
    r[j] = IF j < i THEN s[j] ELSE IF j = i THEN e ELSE s[j - 1]

\* A set of numbers that has one has a least one.
LEMMA LeastNumber ==
  ASSUME NEW W \in SUBSET Nat, W # {}
  PROVE  \E x \in W : \A y \in W : x <= y
<1>1. PICK x \in W : \A y \in W : ~(<<y, x>> \in OpToRel(<, Nat))
  BY Zenon, NatLessThanWellFounded, WFMin
<1>2. ASSUME NEW y \in W PROVE x <= y
  <2>1. SUFFICES ASSUME y < x PROVE FALSE
    OBVIOUS
  <2>2. x \in Nat /\ y \in Nat
    OBVIOUS
  <2>3. <<y, x>> \in OpToRel(<, Nat)
    BY Zenon, <2>1, <2>2 DEF OpToRel
  <2> QED BY <1>1, <2>3
<1> QED BY <1>2

LEMMA InsertAtIs ==
  ASSUME NEW E, NEW s \in Seq(E), NEW e \in E, NEW i \in 1..(Len(s) + 1)
  PROVE  /\ InsertedAt(s, i, e) \in Seq(E)
         /\ Len(InsertedAt(s, i, e)) = Len(s) + 1
         /\ Inserted(InsertedAt(s, i, e), s, i, e)
<1> DEFINE before == SubSeq(s, 1, i - 1)
           after == SubSeq(s, i, Len(s))
<1>1. \A k \in 1..Len(s) : s[k] \in E
  BY ElementOfSeq
<1>2. /\ before \in Seq(E) /\ Len(before) = i - 1
      /\ \A k \in 1..(i - 1) : before[k] = s[k]
  <2>1. \A k \in 1..(i-1) : s[k] \in E
    BY <1>1, LenProperties
  <2> QED BY <2>1, LenProperties, SubSeqProperties
<1>3. /\ after \in Seq(E) /\ Len(after) = Len(s) - i + 1
      /\ \A k \in 1..(Len(s) - i + 1) : after[k] = s[i + k - 1]
  <2>1. \A k \in i..Len(s) : s[k] \in E
    BY <1>1, LenProperties
  <2> QED BY <2>1, LenProperties, SubSeqProperties
<1>4. <<e>> \in Seq(E) /\ Len(<<e>>) = 1 /\ <<e>>[1] = e
  OBVIOUS
<1> HIDE DEF before, after
<1>5. /\ before \o <<e>> \in Seq(E) /\ Len(before \o <<e>>) = i
      /\ \A k \in 1..i : (before \o <<e>>)[k] = IF k <= i - 1 THEN before[k]
                                                ELSE <<e>>[k - (i - 1)]
  BY <1>2, <1>4, ConcatProperties
<1>6. InsertedAt(s, i, e) = (before \o <<e>>) \o after
  BY DEF InsertedAt, before, after
<1>7. /\ InsertedAt(s, i, e) \in Seq(E)
      /\ Len(InsertedAt(s, i, e)) = Len(s) + 1
      /\ \A k \in 1..(Len(s) + 1) : InsertedAt(s, i, e)[k] =
           IF k <= i THEN (before \o <<e>>)[k] ELSE after[k - i]
  <2> DEFINE head == before \o <<e>>
  <2>1. head \in Seq(E) /\ Len(head) = i
    BY <1>5
  <2> HIDE DEF head
  <2>2. /\ head \o after \in Seq(E)
        /\ Len(head \o after) = Len(head) + Len(after)
        /\ \A k \in 1..(Len(head) + Len(after)) : (head \o after)[k] =
             IF k <= Len(head) THEN head[k] ELSE after[k - Len(head)]
    BY <1>3, <2>1, ConcatProperties
  <2>3. Len(head) + Len(after) = Len(s) + 1
    BY <1>3, <2>1, LenProperties
  <2> QED BY <1>6, <2>1, <2>2, <2>3 DEF head
<1>8. ASSUME NEW j \in 1..(Len(s) + 1)
      PROVE  InsertedAt(s, i, e)[j] = IF j < i THEN s[j] ELSE IF j = i THEN e
                                      ELSE s[j - 1]
  <2>1. CASE j < i
    BY <2>1, <1>2, <1>5, <1>7, LenProperties
  <2>2. CASE j = i
    BY <2>2, <1>4, <1>5, <1>7, LenProperties
  <2>3. CASE j > i
    <3>1. j - i \in 1..(Len(s) - i + 1) /\ i + (j - i) - 1 = j - 1
      BY <2>3, LenProperties
    <3>2. after[j - i] = s[j - 1]
      BY <1>3, <3>1
    <3>3. InsertedAt(s, i, e)[j] = after[j - i] /\ ~(j < i) /\ j # i
      BY <1>7, <2>3, LenProperties
    <3> QED BY <3>2, <3>3
  <2> QED BY <2>1, <2>2, <2>3, LenProperties
<1> QED BY <1>7, <1>8 DEF Inserted

LEMMA RemoveAtIs ==
  ASSUME NEW E, NEW s \in Seq(E), NEW i \in 1..Len(s)
  PROVE  /\ RemovedAt(s, i) \in Seq(E)
         /\ Len(RemovedAt(s, i)) = Len(s) - 1
         /\ \A j \in 1..(Len(s) - 1) :
              RemovedAt(s, i)[j] = IF j < i THEN s[j] ELSE s[j + 1]
<1> DEFINE before == SubSeq(s, 1, i - 1)
           after == SubSeq(s, i + 1, Len(s))
<1>1. \A k \in 1..Len(s) : s[k] \in E
  BY ElementOfSeq
<1>2. /\ before \in Seq(E) /\ Len(before) = i - 1
      /\ \A k \in 1..(i - 1) : before[k] = s[k]
  <2>1. \A k \in 1..(i-1) : s[k] \in E
    BY <1>1, LenProperties
  <2> QED BY <2>1, LenProperties, SubSeqProperties
<1>3. /\ after \in Seq(E) /\ Len(after) = Len(s) - i
      /\ \A k \in 1..(Len(s) - i) : after[k] = s[i + k]
  <2>1. \A k \in (i + 1)..Len(s) : s[k] \in E
    BY <1>1, LenProperties
  <2> QED BY <2>1, LenProperties, SubSeqProperties
<1> HIDE DEF before, after
<1>4. RemovedAt(s, i) = before \o after
  BY DEF RemovedAt, before, after
<1>5. /\ RemovedAt(s, i) \in Seq(E) /\ Len(RemovedAt(s, i)) = Len(s) - 1
      /\ \A k \in 1..(Len(s) - 1) : RemovedAt(s, i)[k] =
           IF k <= i - 1 THEN before[k] ELSE after[k - (i - 1)]
  <2>1. /\ before \o after \in Seq(E)
        /\ Len(before \o after) = Len(before) + Len(after)
        /\ \A k \in 1..(Len(before) + Len(after)) : (before \o after)[k] =
             IF k <= Len(before) THEN before[k] ELSE after[k - Len(before)]
    BY <1>2, <1>3, ConcatProperties
  <2>2. Len(before) + Len(after) = Len(s) - 1
    BY <1>2, <1>3, LenProperties
  <2> QED BY <1>2, <1>4, <2>1, <2>2
<1>6. ASSUME NEW j \in 1..(Len(s) - 1)
      PROVE  RemovedAt(s, i)[j] = IF j < i THEN s[j] ELSE s[j + 1]
  <2>1. CASE j < i
    BY <2>1, <1>2, <1>5, LenProperties
  <2>2. CASE j >= i
    <3>1. j - (i - 1) \in 1..(Len(s) - i) /\ i + (j - (i - 1)) = j + 1
      BY <2>2, LenProperties
    <3> QED BY <2>2, <3>1, <1>3, <1>5, LenProperties
  <2> QED BY <2>1, <2>2, LenProperties
<1> QED BY <1>5, <1>6

(***************************************************************************)
(* The deferred commands                                                   *)
(***************************************************************************)
\* What a command, a call of one and the thread that invokes them may hold.
CommandKind ==
  [list : Q!Lists, time : Q!Times \cup {0}, queued : BOOLEAN, refs : Int, invoked : Nat]
CallKind ==
  [at : {"none", "new", "adopt", "held", "cancel", "clear", "postpone", "insert"},
   time : Q!Times \cup {0}]
ServerKind ==
  [at : {"look", "wait", "check", "execute", "remove", "clear", "release"},
   cmd : Q!Ids \cup {0}, own : BOOLEAN]

CommandsTyped ==
  /\ time \in 0 .. MaxDue /\ calls \in 0 .. MaxCalls
  /\ lists \in [Q!Lists -> Seq(Q!Ids)]
  /\ command \in [Q!Ids -> CommandKind] /\ call \in [Q!Ids -> CallKind] /\ server \in ServerKind
  /\ m_pClock \in BOOLEAN /\ m_bRunning \in BOOLEAN /\ m_StreamTimeOffset \in Offsets \cup {0}
  /\ crashed \in BOOLEAN

AdviceTyped ==
  /\ m_dwAdvise \in BOOLEAN /\ m_evDue \in BOOLEAN /\ m_tCurrentAdvise \in Nat /\ advise \in Nat

\* A command is in the list that it names, once, and in the order of time.
InOrder ==
  \A l \in Q!Lists :
    /\ \A i \in 1 .. Len(lists[l]) : command[lists[l][i]].list = l
    /\ \A i, j \in 1 .. Len(lists[l]) :
         i < j => /\ lists[l][i] # lists[l][j]
                  /\ command[lists[l][i]].time <= command[lists[l][j]].time

\* A command that is not made is nowhere; one that is being moved is in no list.
Placed(c) ==
  /\ call[c].at \in {"none", "new"} => command[c] = Q!Unmade /\ server.cmd # c
  /\ call[c].at \in {"none", "new", "insert"} => ~Q!InList(c)

Tallied(c) ==
  command[c].refs = (IF Q!InList(c) THEN 1 ELSE 0)
                    + (IF call[c].at \in {"none", "new", "adopt"} THEN 0 ELSE 1)
                    + (IF server.cmd = c /\ server.own THEN 1 ELSE 0)

\* A command that has been invoked is no longer queued, but while its thread takes it off.
InvokedLast(c) ==
  /\ command[c].invoked <= 1
  /\ command[c].queued /\ command[c].invoked > 0 =>
       server.cmd = c /\ server.at \in {"remove", "clear"}
  /\ server.at = "execute" /\ server.cmd = c => command[c].invoked = 0

ServerWhole == IF server.at \in {"look", "wait"} THEN server.cmd = 0 /\ ~server.own ELSE server.cmd \in Q!Ids

CommandsInv ==
  /\ CommandsTyped /\ AdviceTyped /\ InOrder /\ ServerWhole
  /\ \A c \in Q!Ids : Placed(c) /\ Tallied(c) /\ InvokedLast(c)

-----------------------------------------------------------------------------
LEMMA CommandConstants ==
  /\ MaxCommands \in Nat \ {0} /\ MaxDue \in Nat \ {0} /\ MaxCalls \in Nat /\ Offsets \subseteq Nat
BY ServicesAssumption DEF Q!CommandAssumption

LEMMA CommandFields ==
  ASSUME CommandsTyped, NEW c \in Q!Ids
  PROVE  /\ command[c] \in CommandKind /\ call[c] \in CallKind
         /\ command[c].list \in Q!Lists /\ command[c].time \in Nat /\ command[c].time \in Q!Times \cup {0}
         /\ command[c].queued \in BOOLEAN /\ command[c].refs \in Int /\ command[c].invoked \in Nat
         /\ c \in Nat /\ c # 0
<1>1. command[c] \in CommandKind /\ call[c] \in CallKind
  BY DEF CommandsTyped
<1>2. /\ command[c].list \in Q!Lists /\ command[c].time \in Q!Times \cup {0}
      /\ command[c].queued \in BOOLEAN /\ command[c].refs \in Int /\ command[c].invoked \in Nat
  BY <1>1 DEF CommandKind
<1>3. command[c].time \in Nat
  BY <1>2, CommandConstants DEF Q!Times
<1>4. c \in Nat /\ c # 0
  BY CommandConstants DEF Q!Ids
<1> QED BY <1>1, <1>2, <1>3, <1>4

LEMMA ListFields ==
  ASSUME CommandsTyped, NEW l \in Q!Lists
  PROVE  /\ lists[l] \in Seq(Q!Ids) /\ Len(lists[l]) \in Nat
         /\ DOMAIN lists[l] = 1 .. Len(lists[l])
         /\ \A i \in 1 .. Len(lists[l]) : lists[l][i] \in Q!Ids
         /\ lists[l] # <<>> => 1 \in 1 .. Len(lists[l])
<1>1. lists[l] \in Seq(Q!Ids)
  BY DEF CommandsTyped
<1>2. Len(lists[l]) \in Nat /\ DOMAIN lists[l] = 1 .. Len(lists[l])
  BY <1>1
<1>3. \A i \in 1 .. Len(lists[l]) : lists[l][i] \in Q!Ids
  BY <1>1, ElementOfSeq
<1>4. lists[l] # <<>> => 1 \in 1 .. Len(lists[l])
  BY <1>1, <1>2, EmptySeq
<1> QED BY <1>1, <1>2, <1>3, <1>4

\* A command that is in a list is in the one that it names.
LEMMA InIts ==
  ASSUME CommandsTyped, InOrder, NEW c \in Q!Ids
  PROVE  /\ \A l \in Q!Lists : Q!In(c, l) => command[c].list = l
         /\ \A l \in Q!Lists : \A i \in 1 .. Len(lists[l]) : lists[l][i] = c => Q!InList(c)
<1>1. ASSUME NEW l \in Q!Lists, NEW i \in 1 .. Len(lists[l]), lists[l][i] = c
      PROVE  command[c].list = l /\ Q!InList(c)
  <2>1. command[c].list = l
    BY <1>1 DEF InOrder
  <2> QED BY <1>1, <2>1, ListFields DEF Q!InList, Q!In
<1>2. ASSUME NEW l \in Q!Lists, Q!In(c, l) PROVE command[c].list = l
  BY <1>1, <1>2, ListFields DEF Q!In
<1> QED BY <1>1, <1>2

\* A list that does not change, nor what its commands say of list and time.
LEMMA ListsSteady ==
  ASSUME CommandsTyped, InOrder, lists' = lists,
         \A c \in Q!Ids : command'[c].list = command[c].list /\ command'[c].time = command[c].time
  PROVE  InOrder' /\ \A c \in Q!Ids : Q!InList(c)' <=> Q!InList(c)
<1>1. InOrder'
  <2>1. \A l \in Q!Lists : \A i \in 1 .. Len(lists[l]) : lists[l][i] \in Q!Ids
    BY ListFields
  <2> QED BY <2>1 DEF InOrder
<1>2. \A c \in Q!Ids : Q!InList(c)' <=> Q!InList(c)
  BY DEF Q!InList, Q!In
<1> QED BY <1>1, <1>2

\* The place of a command is behind those of its time, and before the later ones.
LEMMA PlaceIs ==
  ASSUME CommandsTyped, InOrder, NEW l \in Q!Lists, NEW w \in Nat
  PROVE  /\ Q!Place(l, w) \in 1 .. (Len(lists[l]) + 1)
         /\ \A i \in 1 .. Len(lists[l]) :
              /\ i < Q!Place(l, w) => command[lists[l][i]].time <= w
              /\ i >= Q!Place(l, w) => command[lists[l][i]].time > w
<1> DEFINE s == lists[l]
           W == {n \in 1 .. (Len(s) + 1) : n <= Len(s) => command[s[n]].time > w}
           Fits(n) == /\ \A i \in 1..(n - 1) : command[s[i]].time <= w
                      /\ n <= Len(s) => command[s[n]].time > w
<1>1. Len(s) \in Nat /\ \A i \in 1 .. Len(s) : s[i] \in Q!Ids /\ command[s[i]].time \in Nat
  BY ListFields, CommandFields
<1>2. W \subseteq Nat /\ Len(s) + 1 \in W
  BY <1>1
<1>3. PICK m \in W : \A y \in W : m <= y
  BY <1>2, LeastNumber
<1>4. m \in 1 .. (Len(s) + 1) /\ Fits(m)
  <2>1. m \in 1 .. (Len(s) + 1) /\ (m <= Len(s) => command[s[m]].time > w)
    BY <1>3
  <2>2. ASSUME NEW i \in 1 .. (m - 1) PROVE command[s[i]].time <= w
    <3>1. i \in 1 .. Len(s) /\ ~(m <= i)
      BY <1>1, <2>1
    <3>2. i \notin W
      BY <1>3, <3>1
    <3> QED BY <1>1, <3>1, <3>2
  <2> QED BY <2>1, <2>2
<1> HIDE DEF W
<1> DEFINE n == Q!Place(l, w)
<1>5. n = CHOOSE k \in 1 .. (Len(s) + 1) : Fits(k)
  BY DEF Q!Place
<1>6. n \in 1 .. (Len(s) + 1) /\ Fits(n)
  <2> HIDE DEF n, Fits
  <2> QED BY <1>4, <1>5
<1> HIDE DEF n
<1>7. ASSUME NEW i \in 1 .. Len(s), i < n PROVE command[s[i]].time <= w
  <2>1. i \in 1 .. (n - 1)
    BY <1>1, <1>6, <1>7
  <2> QED BY <1>6, <2>1
<1>8. ASSUME NEW i \in 1 .. Len(s), i >= n PROVE command[s[i]].time > w
  <2>1. n \in 1 .. Len(s) /\ command[s[n]].time > w
    BY <1>1, <1>6, <1>8
  <2>2. i = n \/ n < i
    BY <1>1, <1>6, <1>8
  <2>3. n < i => command[s[n]].time <= command[s[i]].time
    BY <2>1 DEF InOrder
  <2> QED BY <1>1, <2>1, <2>2, <2>3
<1> QED BY <1>6, <1>7, <1>8 DEF n

\* A command that is inserted is in its list, at its place; the others are where they were.
LEMMA CommandInserted ==
  ASSUME CommandsTyped, InOrder, NEW c \in Q!Ids, NEW l \in Q!Lists, NEW w \in Q!Times \cup {0},
         ~Q!InList(c), Q!Insert(c, l, w)
  PROVE  /\ lists' \in [Q!Lists -> Seq(Q!Ids)] /\ command' \in [Q!Ids -> CommandKind] /\ InOrder'
         /\ Q!InList(c)' /\ command'[c].list = l
         /\ command'[c].refs = command[c].refs + 1 /\ command'[c].invoked = command[c].invoked
         /\ command'[c].queued <=> command[c].queued \/ call[c].at = "new"
         /\ \A d \in Q!Ids \ {c} : command'[d] = command[d] /\ (Q!InList(d)' <=> Q!InList(d))
<1> DEFINE n == Q!Place(l, w)
           s == lists[l]
           r == InsertedAt(s, n, c)
           now_queued == command[c].queued \/ call[c].at = "new"
<1>1. w \in Nat /\ s \in Seq(Q!Ids) /\ Len(s) \in Nat /\ \A i \in 1 .. Len(s) : s[i] \in Q!Ids
  BY ListFields, CommandConstants DEF Q!Times
<1>2. /\ n \in 1 .. (Len(s) + 1)
      /\ \A i \in 1 .. Len(s) :
           /\ i < n => command[s[i]].time <= w
           /\ i >= n => command[s[i]].time > w
  BY <1>1, PlaceIs
<1>3. r \in Seq(Q!Ids) /\ Len(r) = Len(s) + 1 /\ Inserted(r, s, n, c)
  BY <1>1, <1>2, InsertAtIs
<1>4. lists' = [lists EXCEPT ![l] = r]
  BY DEF Q!Insert, Q!Seqs!InsertAt, InsertedAt
<1>5. lists \in [Q!Lists -> Seq(Q!Ids)] /\ command \in [Q!Ids -> CommandKind] /\ command[c] \in CommandKind
  BY DEF CommandsTyped
<1>6. command' = [command EXCEPT ![c] = [command[c] EXCEPT !.list = l, !.time = w, !.queued = now_queued,
                                                      !.refs = command[c].refs + 1]]
  BY <1>5 DEF Q!Insert
<1> DEFINE q == [command[c] EXCEPT !.list = l, !.time = w, !.queued = now_queued, !.refs = command[c].refs + 1]
<1> HIDE DEF n, r
<1>7. now_queued \in BOOLEAN
  BY CommandFields
<1> HIDE DEF now_queued
<1>8. /\ q \in CommandKind /\ q.list = l /\ q.time = w /\ q.queued = now_queued
      /\ q.refs = command[c].refs + 1 /\ q.invoked = command[c].invoked
  <2>1. /\ q.list = l /\ q.time = w /\ q.queued = now_queued
        /\ q.refs = command[c].refs + 1 /\ q.invoked = command[c].invoked
    BY <1>5 DEF CommandKind
  <2>2. command[c].refs + 1 \in Int
    BY CommandFields
  <2>3. q \in CommandKind
    BY <1>5, <1>7, <2>2 DEF CommandKind
  <2> QED BY <2>1, <2>3
<1> HIDE DEF q
<1>9. /\ lists'[l] = r /\ \A k \in Q!Lists \ {l} : lists'[k] = lists[k]
      /\ command'[c] = q /\ \A d \in Q!Ids \ {c} : command'[d] = command[d]
  BY <1>4, <1>5, <1>6 DEF q
<1>10. lists' \in [Q!Lists -> Seq(Q!Ids)] /\ command' \in [Q!Ids -> CommandKind]
  BY <1>3, <1>4, <1>5, <1>6, <1>8 DEF q
<1>11. \A k \in Q!Lists : \A i \in 1 .. Len(lists[k]) : lists[k][i] \in Q!Ids /\ lists[k][i] # c
  BY InIts, ListFields
<1>12. \A i \in 1 .. (Len(s) + 1) :
         /\ i < n => i \in 1 .. Len(s) /\ r[i] = s[i]
         /\ i = n => r[i] = c
         /\ i > n => i - 1 \in 1 .. Len(s) /\ r[i] = s[i - 1]
  BY <1>1, <1>2, <1>3 DEF Inserted
<1>13. InOrder'
  <2>1. ASSUME NEW k \in Q!Lists, k # l
        PROVE  /\ \A i \in 1 .. Len(lists'[k]) : command'[lists'[k][i]].list = k
               /\ \A i, j \in 1 .. Len(lists'[k]) :
                    i < j => /\ lists'[k][i] # lists'[k][j]
                             /\ command'[lists'[k][i]].time <= command'[lists'[k][j]].time
    <3>1. lists'[k] = lists[k] /\ \A i \in 1 .. Len(lists[k]) : command'[lists[k][i]] = command[lists[k][i]]
      BY <1>9, <1>11, <2>1
    <3> QED BY <3>1 DEF InOrder
  <2>2. \A i \in 1 .. Len(s) : command'[s[i]] = command[s[i]]
    BY <1>9, <1>11
  <2>3. ASSUME NEW i \in 1 .. (Len(s) + 1) PROVE command'[r[i]].list = l
    BY <1>1, <1>2, <1>8, <1>9, <1>12, <2>2 DEF InOrder
  <2>4. ASSUME NEW i \in 1 .. (Len(s) + 1), NEW j \in 1 .. (Len(s) + 1), i < j
        PROVE  r[i] # r[j] /\ command'[r[i]].time <= command'[r[j]].time
    <3>0. \A i_1, j_1 \in 1 .. Len(s) : i_1 < j_1 => /\ s[i_1] # s[j_1]
                                                /\ command[s[i_1]].time <= command[s[j_1]].time
      BY DEF InOrder
    <3>1. CASE j < n
      <4>1. i \in 1 .. Len(s) /\ j \in 1 .. Len(s) /\ r[i] = s[i] /\ r[j] = s[j]
        BY <1>1, <1>2, <1>12, <2>4, <3>1
      <4> QED BY <2>2, <2>4, <3>0, <4>1
    <3>2. CASE j = n
      <4>1. i \in 1 .. Len(s) /\ i < n /\ r[i] = s[i] /\ r[j] = c
        BY <1>1, <1>2, <1>12, <2>4, <3>2
      <4>2. command'[r[i]] = command[s[i]] /\ command'[r[j]].time = w /\ command[s[i]].time <= w
        <5>1. command'[r[i]] = command[s[i]]
          BY <2>2, <4>1
        <5>3. command[s[i]].time <= w
          BY <1>2, <4>1
        <5>2. command'[c].time = w
          BY <1>8, <1>9
        <5> QED BY <4>1, <5>1, <5>2, <5>3
      <4>3. r[i] # r[j]
        BY <1>11, <4>1
      <4> QED BY <4>2, <4>3
    <3>3. CASE j > n /\ i = n
      <4>1. j - 1 \in 1 .. Len(s) /\ j - 1 >= n /\ r[j] = s[j - 1] /\ r[i] = c
        BY <1>1, <1>2, <1>12, <2>4, <3>3
      <4>2. command[s[j - 1]].time > w /\ command[s[j - 1]].time \in Nat
        BY <1>1, <1>2, <4>1, CommandFields
      <4> QED BY <1>1, <1>8, <1>9, <1>11, <2>2, <4>1, <4>2
    <3>4. CASE j > n /\ i < n
      <4>1. j - 1 \in 1 .. Len(s) /\ i \in 1 .. Len(s) /\ i < j - 1 /\ r[j] = s[j - 1] /\ r[i] = s[i]
        BY <1>1, <1>2, <1>12, <2>4, <3>4
      <4> QED BY <2>2, <3>0, <4>1
    <3>5. CASE j > n /\ i > n
      <4>1. j - 1 \in 1 .. Len(s) /\ i - 1 \in 1 .. Len(s) /\ i - 1 < j - 1 /\ r[j] = s[j - 1] /\ r[i] = s[i - 1]
        BY <1>1, <1>2, <1>12, <2>4, <3>5
      <4> QED BY <2>2, <3>0, <4>1
    <3> QED BY <1>1, <1>2, <2>4, <3>1, <3>2, <3>3, <3>4, <3>5
  <2> QED BY <1>3, <1>9, <2>1, <2>3, <2>4 DEF InOrder
<1>14. Q!InList(c)'
  <2>1. n \in DOMAIN r /\ r[n] = c
    BY <1>1, <1>2, <1>3, <1>12
  <2> QED BY <1>8, <1>9, <2>1 DEF Q!InList, Q!In
<1>15. ASSUME NEW d \in Q!Ids \ {c} PROVE Q!InList(d)' <=> Q!InList(d)
  <2>1. CASE command[d].list # l
    BY <1>9, <2>1, CommandFields DEF Q!InList, Q!In
  <2>2. CASE command[d].list = l
    <3>1. Q!InList(d)' <=> \E i \in 1 .. (Len(s) + 1) : r[i] = d
      BY <1>3, <1>9, <2>2 DEF Q!InList, Q!In
    <3>2. Q!InList(d) <=> \E i \in 1 .. Len(s) : s[i] = d
      BY <1>1, <2>2 DEF Q!InList, Q!In
    <3>3. ASSUME NEW i \in 1 .. (Len(s) + 1), r[i] = d PROVE \E j \in 1 .. Len(s) : s[j] = d
      <4>1. CASE i < n
        <5>1. i \in 1 .. Len(s) /\ s[i] = d
          BY <1>12, <3>3, <4>1
        <5> QED BY <5>1
      <4>2. CASE i > n
        <5>1. i - 1 \in 1 .. Len(s) /\ s[i - 1] = d
          BY <1>12, <3>3, <4>2
        <5> QED BY <5>1
      <4>3. i # n
        BY <1>12, <1>15, <3>3
      <4> QED BY <1>1, <1>2, <4>1, <4>2, <4>3
    <3>4. ASSUME NEW i \in 1 .. Len(s), s[i] = d PROVE \E j \in 1 .. (Len(s) + 1) : r[j] = d
      <4>1. CASE i < n
        BY <1>1, <1>2, <1>12, <3>4, <4>1
      <4>2. CASE i >= n
        <5>1. i + 1 \in 1 .. (Len(s) + 1) /\ i + 1 > n /\ (i + 1) - 1 = i
          BY <1>1, <1>2, <4>2
        <5> QED BY <1>12, <3>4, <5>1
      <4> QED BY <1>1, <1>2, <4>1, <4>2
    <3> QED BY <3>1, <3>2, <3>3, <3>4
  <2> QED BY <2>1, <2>2
<1> QED BY <1>8, <1>9, <1>10, <1>13, <1>14, <1>15 DEF now_queued

\* A command that is taken off its list is in none; the others are where they were.
LEMMA CommandRemoved ==
  ASSUME CommandsTyped, InOrder, NEW c \in Q!Ids, Q!InList(c), Q!Remove(c)
  PROVE  /\ lists' \in [Q!Lists -> Seq(Q!Ids)] /\ command' \in [Q!Ids -> CommandKind] /\ InOrder'
         /\ ~Q!InList(c)' /\ command'[c].list = command[c].list
         /\ command'[c].refs = command[c].refs - 1 /\ command'[c].invoked = command[c].invoked
         /\ command'[c].queued = command[c].queued
         /\ \A d \in Q!Ids \ {c} : command'[d] = command[d] /\ (Q!InList(d)' <=> Q!InList(d))
         /\ Q!SetTimeAdvise(m_dwAdvise)
<1> DEFINE l == command[c].list
           s == lists[l]
           n == CHOOSE i \in DOMAIN s : s[i] = c
           r == RemovedAt(s, n)
           q == [command[c] EXCEPT !.refs = command[c].refs - 1]
<1>0. l \in Q!Lists
  BY CommandFields
<1> HIDE DEF l
<1>1. s \in Seq(Q!Ids) /\ Len(s) \in Nat /\ DOMAIN s = 1 .. Len(s) /\ \A i \in 1 .. Len(s) : s[i] \in Q!Ids
  BY <1>0, ListFields
<1>2. n \in 1 .. Len(s) /\ s[n] = c
  BY <1>1 DEF Q!InList, Q!In, l
<1>4. lists' = [lists EXCEPT ![l] = r]
  BY DEF Q!Remove, Q!Seqs!RemoveAt, RemovedAt, l
<1> HIDE DEF n
<1>3. r \in Seq(Q!Ids) /\ Len(r) = Len(s) - 1
      /\ \A j \in 1..(Len(s) - 1) : r[j] = IF j < n THEN s[j] ELSE s[j + 1]
  BY <1>1, <1>2, RemoveAtIs
<1>5. lists \in [Q!Lists -> Seq(Q!Ids)] /\ command \in [Q!Ids -> CommandKind] /\ command[c] \in CommandKind
  BY DEF CommandsTyped
<1>6. command' = [command EXCEPT ![c] = q] /\ Q!SetTimeAdvise(m_dwAdvise)
  BY <1>5 DEF Q!Remove
<1> HIDE DEF r
<1>8. /\ q \in CommandKind /\ q.list = l /\ q.time = command[c].time /\ q.queued = command[c].queued
      /\ q.refs = command[c].refs - 1 /\ q.invoked = command[c].invoked
  <2>1. /\ q.list = l /\ q.time = command[c].time /\ q.queued = command[c].queued
        /\ q.refs = command[c].refs - 1 /\ q.invoked = command[c].invoked
    BY <1>5 DEF CommandKind, l
  <2>2. command[c].refs - 1 \in Int
    BY CommandFields
  <2>3. q \in CommandKind
    BY <1>5, <2>2 DEF CommandKind
  <2> QED BY <2>1, <2>3
<1> HIDE DEF q
<1>9. /\ lists'[l] = r /\ \A k \in Q!Lists \ {l} : lists'[k] = lists[k]
      /\ command'[c] = q /\ \A d \in Q!Ids \ {c} : command'[d] = command[d]
      /\ \A d \in Q!Ids : command'[d].list = command[d].list /\ command'[d].time = command[d].time
  BY <1>0, <1>4, <1>5, <1>6, <1>8 DEF l
<1>10. lists' \in [Q!Lists -> Seq(Q!Ids)] /\ command' \in [Q!Ids -> CommandKind]
  BY <1>0, <1>3, <1>4, <1>5, <1>6, <1>8
<1>11. \A i, j \in 1 .. Len(s) : i < j => s[i] # s[j] /\ command[s[i]].time <= command[s[j]].time
  BY <1>0 DEF InOrder
<1>12. \A j \in 1 .. (Len(s) - 1) :
         /\ j < n => j \in 1 .. Len(s) /\ r[j] = s[j]
         /\ j >= n => j + 1 \in 1 .. Len(s) /\ r[j] = s[j + 1]
         /\ r[j] \in Q!Ids
  BY <1>1, <1>2, <1>3
<1>13. InOrder'
  <2>1. ASSUME NEW k \in Q!Lists, k # l
        PROVE  /\ \A i \in 1 .. Len(lists'[k]) : command'[lists'[k][i]].list = k
               /\ \A i, j \in 1 .. Len(lists'[k]) :
                    i < j => /\ lists'[k][i] # lists'[k][j]
                             /\ command'[lists'[k][i]].time <= command'[lists'[k][j]].time
    <3>1. lists'[k] = lists[k] /\ \A i \in 1 .. Len(lists[k]) : lists[k][i] \in Q!Ids
      BY <1>9, <2>1, ListFields
    <3> QED BY <1>9, <3>1 DEF InOrder
  <2>3. ASSUME NEW i \in 1 .. (Len(s) - 1) PROVE command'[r[i]].list = l
    <3>1. \A j \in 1 .. Len(s) : command[s[j]].list = l
      BY <1>0 DEF InOrder
    <3> QED BY <1>1, <1>2, <1>9, <1>12, <3>1
  <2>4. ASSUME NEW i \in 1 .. (Len(s) - 1), NEW j \in 1 .. (Len(s) - 1), i < j
        PROVE  r[i] # r[j] /\ command'[r[i]].time <= command'[r[j]].time
    <3>0. \E i_1, j_1 \in 1 .. Len(s) : i_1 < j_1 /\ r[i] = s[i_1] /\ r[j] = s[j_1]
      <4>1. CASE j < n
        BY <1>1, <1>2, <1>12, <2>4, <4>1
      <4>2. CASE i < n /\ j >= n
        <5>1. i \in 1 .. Len(s) /\ j + 1 \in 1 .. Len(s) /\ i < j + 1 /\ r[i] = s[i] /\ r[j] = s[j + 1]
          BY <1>1, <1>2, <1>12, <2>4, <4>2
        <5> QED BY <5>1
      <4>3. CASE i >= n
        <5>1. i + 1 \in 1 .. Len(s) /\ j + 1 \in 1 .. Len(s) /\ i + 1 < j + 1 /\ r[i] = s[i + 1] /\ r[j] = s[j + 1]
          BY <1>1, <1>2, <1>12, <2>4, <4>3
        <5> QED BY <5>1
      <4> QED BY <1>1, <1>2, <2>4, <4>1, <4>2, <4>3
    <3>1. r[i] # r[j] /\ command[r[i]].time <= command[r[j]].time
      BY <1>11, <3>0
    <3>2. command'[r[i]].time = command[r[i]].time /\ command'[r[j]].time = command[r[j]].time
      BY <1>9, <1>12
    <3> QED BY <3>1, <3>2
  <2>5. Len(r) = Len(s) - 1 /\ lists'[l] = r
    BY <1>3, <1>9
  <2>6. /\ \A i \in 1 .. Len(lists'[l]) : command'[lists'[l][i]].list = l
        /\ \A i, j \in 1 .. Len(lists'[l]) :
             i < j => /\ lists'[l][i] # lists'[l][j]
                      /\ command'[lists'[l][i]].time <= command'[lists'[l][j]].time
    BY <2>3, <2>4, <2>5
  <2> QED BY <2>1, <2>6 DEF InOrder
<1>14. ~Q!InList(c)'
  <2>1. SUFFICES ASSUME NEW i \in 1 .. (Len(s) - 1), r[i] = c PROVE FALSE
    BY <1>3, <1>8, <1>9 DEF Q!InList, Q!In
  <2>2. CASE i < n
    BY <1>1, <1>2, <1>11, <1>12, <2>1, <2>2
  <2>3. CASE i >= n
    <3>1. i + 1 \in 1 .. Len(s) /\ n < i + 1 /\ s[i + 1] = c
      BY <1>1, <1>2, <1>12, <2>1, <2>3
    <3> QED BY <1>2, <1>11, <3>1
  <2> QED BY <1>1, <1>2, <2>2, <2>3
<1>15. ASSUME NEW d \in Q!Ids \ {c} PROVE Q!InList(d)' <=> Q!InList(d)
  <2>1. CASE command[d].list # l
    BY <1>9, <2>1, CommandFields DEF Q!InList, Q!In
  <2>2. CASE command[d].list = l
    <3>1. Q!InList(d)' <=> \E i \in 1 .. (Len(s) - 1) : r[i] = d
      BY <1>3, <1>9, <2>2 DEF Q!InList, Q!In
    <3>2. Q!InList(d) <=> \E i \in 1 .. Len(s) : s[i] = d
      BY <1>1, <2>2 DEF Q!InList, Q!In
    <3>3. ASSUME NEW i \in 1 .. (Len(s) - 1), r[i] = d PROVE \E j \in 1 .. Len(s) : s[j] = d
      BY <1>1, <1>2, <1>12, <1>15, <3>3
    <3>4. ASSUME NEW i \in 1 .. Len(s), s[i] = d PROVE \E j \in 1 .. (Len(s) - 1) : r[j] = d
      <4>0. i # n
        BY <1>2, <1>15, <3>4
      <4>1. CASE i < n
        BY <1>1, <1>2, <1>12, <3>4, <4>1
      <4>2. CASE i > n
        <5>1. i - 1 \in 1 .. (Len(s) - 1) /\ i - 1 >= n /\ (i - 1) + 1 = i
          BY <1>1, <1>2, <4>2
        <5> QED BY <1>12, <3>4, <5>1
      <4> QED BY <1>1, <1>2, <4>0, <4>1, <4>2
    <3> QED BY <3>1, <3>2, <3>3, <3>4
  <2> QED BY <2>1, <2>2
<1> QED BY <1>6, <1>8, <1>9, <1>10, <1>13, <1>14, <1>15 DEF l

\* Whatever the clock is asked for is a time.
LEMMA AdviceStep ==
  ASSUME AdviceTyped, CommandsTyped', NEW b \in BOOLEAN, Q!SetTimeAdvise(b)
  PROVE  AdviceTyped'
<1> DEFINE D == {Q!DueAt(c)' : c \in Q!Heads'}
           current == IF Q!Heads' = {} THEN 0
                      ELSE CHOOSE u \in D : \A c \in Q!Heads' : u <= Q!DueAt(c)'
<1>1. IF ~m_pClock'
      THEN UNCHANGED <<m_tCurrentAdvise, m_evDue>> /\ m_dwAdvise' = b
           /\ advise' = IF b THEN advise ELSE 0
      ELSE /\ m_evDue' = FALSE
           /\ IF current > 0 /\ current # m_tCurrentAdvise
              THEN m_dwAdvise' = TRUE /\ m_tCurrentAdvise' = current /\ advise' = current
              ELSE UNCHANGED m_tCurrentAdvise /\ m_dwAdvise' = b
                   /\ advise' = IF b THEN advise ELSE 0
  BY DEF Q!SetTimeAdvise
<1>2. ASSUME NEW c \in Q!Heads' PROVE Q!DueAt(c)' \in Nat
  <2>1. c \in Q!Ids
    <3>1. PICK l \in Q!Lists : lists'[l] # <<>> /\ c = lists'[l][1]
      BY <1>2 DEF Q!Heads
    <3>2. lists'[l] \in Seq(Q!Ids)
      BY DEF CommandsTyped
    <3>3. 1 \in 1 .. Len(lists'[l])
      BY <3>1, <3>2, EmptySeq
    <3> QED BY <3>1, <3>2, <3>3, ElementOfSeq
  <2>2. command'[c].time \in Nat /\ m_StreamTimeOffset' \in Nat
    <3>1. command'[c] \in CommandKind
      BY <2>1 DEF CommandsTyped
    <3>2. command'[c].time \in Nat
      BY <3>1, CommandConstants DEF CommandKind, Q!Times
    <3>3. m_StreamTimeOffset' \in Offsets \cup {0}
      BY DEF CommandsTyped
    <3>4. Offsets \cup {0} \subseteq Nat
      BY CommandConstants
    <3> QED BY <3>2, <3>3, <3>4
  <2> QED BY <2>2 DEF Q!DueAt
<1>3. current \in Nat
  <2>1. CASE Q!Heads' = {}
    BY <2>1
  <2>2. CASE Q!Heads' # {}
    <3>1. D \subseteq Nat /\ D # {}
      BY <1>2, <2>2
    <3>2. PICK m \in D : \A y \in D : m <= y
      BY <3>1, LeastNumber
    <3>3. \A c \in Q!Heads' : m <= Q!DueAt(c)'
      BY <3>2
    <3>4. current = CHOOSE u \in D : \A c \in Q!Heads' : u <= Q!DueAt(c)'
      BY <2>2
    <3>5. current \in D
      <4> HIDE DEF current, D
      <4> QED BY <3>2, <3>3, <3>4
    <3> QED BY <3>1, <3>5
  <2> QED BY <2>1, <2>2
<1> HIDE DEF current
<1>4. m_tCurrentAdvise' \in Nat /\ advise' \in Nat
  BY <1>1, <1>3 DEF AdviceTyped
<1>5. m_dwAdvise' \in BOOLEAN
  BY <1>1 DEF AdviceTyped
<1>6. m_evDue' \in BOOLEAN
  BY <1>1 DEF AdviceTyped
<1> QED BY <1>4, <1>5, <1>6 DEF AdviceTyped

\* A call that changes no command, nor how far another call is.
LEMMA CommandsQuiet ==
  ASSUME CommandsInv, lists' = lists, command' = command, call' = call, server' = server,
         CommandsTyped', AdviceTyped'
  PROVE  CommandsInv'
<1>1. InOrder' /\ \A c \in Q!Ids : Q!InList(c)' <=> Q!InList(c)
  BY ListsSteady DEF CommandsInv
<1>2. ASSUME NEW c \in Q!Ids PROVE Placed(c)' /\ Tallied(c)' /\ InvokedLast(c)'
  <2>1. Placed(c) /\ Tallied(c) /\ InvokedLast(c)
    BY DEF CommandsInv
  <2>2. Placed(c)'
    BY <1>1, <2>1 DEF Placed, Q!Unmade
  <2>3. Tallied(c)'
    BY <1>1, <2>1 DEF Tallied
  <2>4. InvokedLast(c)'
    BY <2>1 DEF InvokedLast
  <2> QED BY <2>2, <2>3, <2>4
<1>3. ServerWhole'
  BY DEF CommandsInv, ServerWhole
<1> QED BY <1>1, <1>2, <1>3 DEF CommandsInv

\* A call goes on without a change of the command.
LEMMA CallGoesOn ==
  ASSUME CommandsInv, lists' = lists, command' = command, server' = server,
         NEW c \in Q!Ids, NEW r \in CallKind, call' = [call EXCEPT ![c] = r],
         call[c].at \in {"none", "new", "adopt"} <=> r.at \in {"none", "new", "adopt"},
         r.at \in {"none", "new"} => call[c].at \in {"none", "new"},
         r.at = "insert" => ~Q!InList(c),
         calls' \in 0 .. MaxCalls, time' = time, m_pClock' = m_pClock, m_bRunning' = m_bRunning,
         m_StreamTimeOffset' = m_StreamTimeOffset, crashed' = crashed, AdviceTyped'
  PROVE  CommandsInv'
<1>1. InOrder' /\ \A d \in Q!Ids : Q!InList(d)' <=> Q!InList(d)
  BY ListsSteady DEF CommandsInv
<1>2. call \in [Q!Ids -> CallKind]
  BY DEF CommandsInv, CommandsTyped
<1>3. call' \in [Q!Ids -> CallKind] /\ call'[c] = r /\ \A d \in Q!Ids \ {c} : call'[d] = call[d]
  BY <1>2
<1>4. CommandsTyped'
  BY <1>3 DEF CommandsInv, CommandsTyped
<1>5. ASSUME NEW d \in Q!Ids PROVE Placed(d)' /\ Tallied(d)' /\ InvokedLast(d)'
  <2>1. Placed(d) /\ Tallied(d) /\ InvokedLast(d)
    BY DEF CommandsInv
  <2>2. Placed(d)'
    BY <1>1, <1>3, <2>1 DEF Placed, Q!Unmade
  <2>3. Tallied(d)'
    BY <1>1, <1>3, <2>1 DEF Tallied
  <2>4. InvokedLast(d)'
    BY <2>1 DEF InvokedLast
  <2> QED BY <2>2, <2>3, <2>4
<1>6. ServerWhole'
  BY DEF CommandsInv, ServerWhole
<1> QED BY <1>1, <1>4, <1>5, <1>6 DEF CommandsInv

\* The thread that invokes goes on without a change of the command.
LEMMA ServerGoesOn ==
  ASSUME CommandsInv, lists' = lists, command' = command, call' = call,
         NEW p \in {"look", "wait", "check", "execute", "remove", "clear", "release"},
         server' = [server EXCEPT !.at = p],
         server.at \in {"look", "wait"} <=> p \in {"look", "wait"},
         server.at # "look" /\ server.at # "wait" =>
           (/\ command[server.cmd].queued /\ command[server.cmd].invoked > 0 => p \in {"remove", "clear"}
            /\ p = "execute" => command[server.cmd].invoked = 0),
         calls' \in 0 .. MaxCalls, time' = time, m_pClock' = m_pClock, m_bRunning' = m_bRunning,
         m_StreamTimeOffset' = m_StreamTimeOffset, crashed' = crashed, AdviceTyped'
  PROVE  CommandsInv'
<1>1. InOrder' /\ \A d \in Q!Ids : Q!InList(d)' <=> Q!InList(d)
  BY ListsSteady DEF CommandsInv
<1>2. server \in ServerKind
  BY DEF CommandsInv, CommandsTyped
<1>3. server' \in ServerKind /\ server'.at = p /\ server'.cmd = server.cmd /\ server'.own = server.own
  BY <1>2 DEF ServerKind
<1>4. CommandsTyped'
  BY <1>3 DEF CommandsInv, CommandsTyped
<1>5. ServerWhole'
  BY <1>3 DEF CommandsInv, ServerWhole
<1>6. ASSUME NEW d \in Q!Ids PROVE Placed(d)' /\ Tallied(d)' /\ InvokedLast(d)'
  <2>1. Placed(d) /\ Tallied(d) /\ InvokedLast(d)
    BY DEF CommandsInv
  <2>2. Placed(d)'
    BY <1>1, <1>3, <2>1 DEF Placed, Q!Unmade
  <2>3. Tallied(d)'
    BY <1>1, <1>3, <2>1 DEF Tallied
  <2>4. InvokedLast(d)'
    <3>1. server.at \in {"look", "wait"} => server.cmd = 0
      BY DEF CommandsInv, ServerWhole
    <3>2. d # 0
      BY CommandFields DEF CommandsInv
    <3> QED BY <1>3, <2>1, <3>1, <3>2 DEF InvokedLast
  <2> QED BY <2>2, <2>3, <2>4
<1> QED BY <1>1, <1>4, <1>5, <1>6 DEF CommandsInv

\* What another command is part of is as before.
LEMMA OthersAsBefore ==
  ASSUME CommandsInv, NEW c \in Q!Ids,
         \A d \in Q!Ids \ {c} : /\ command'[d] = command[d] /\ call'[d] = call[d]
                                /\ (Q!InList(d)' <=> Q!InList(d)),
         server' = server \/ (server.cmd \in {0, c} /\ server'.cmd \in {0, c})
  PROVE  \A d \in Q!Ids \ {c} : Placed(d)' /\ Tallied(d)' /\ InvokedLast(d)'
<1> SUFFICES ASSUME NEW d \in Q!Ids \ {c} PROVE Placed(d)' /\ Tallied(d)' /\ InvokedLast(d)'
  OBVIOUS
<1>1. Placed(d) /\ Tallied(d) /\ InvokedLast(d)
  BY DEF CommandsInv
<1>2. /\ command'[d] = command[d] /\ call'[d] = call[d] /\ (Q!InList(d)' <=> Q!InList(d))
      /\ d # 0 /\ d # c
  BY CommandFields DEF CommandsInv
<1>3. Placed(d)'
  BY <1>1, <1>2 DEF Placed, Q!Unmade
<1>4. Tallied(d)'
  BY <1>1, <1>2 DEF Tallied
<1>5. InvokedLast(d)'
  BY <1>1, <1>2 DEF InvokedLast
<1> QED BY <1>3, <1>4, <1>5

\* The rest of the types.
RestSteady ==
  /\ calls' \in 0 .. MaxCalls /\ time' = time /\ m_pClock' = m_pClock /\ m_bRunning' = m_bRunning
  /\ m_StreamTimeOffset' = m_StreamTimeOffset /\ crashed' = crashed

\* A step of one command.
LEMMA OneCommand ==
  ASSUME CommandsInv, NEW c \in Q!Ids, RestSteady, AdviceTyped',
         lists' \in [Q!Lists -> Seq(Q!Ids)], command' \in [Q!Ids -> CommandKind],
         call' \in [Q!Ids -> CallKind], server' \in ServerKind, InOrder', ServerWhole',
         \A d \in Q!Ids \ {c} : /\ command'[d] = command[d] /\ call'[d] = call[d]
                                /\ (Q!InList(d)' <=> Q!InList(d)),
         server' = server \/ (server.cmd \in {0, c} /\ server'.cmd \in {0, c}),
         Placed(c)', Tallied(c)', InvokedLast(c)'
  PROVE  CommandsInv'
<1>1. CommandsTyped'
  BY DEF CommandsInv, CommandsTyped, RestSteady
<1>2. \A d \in Q!Ids \ {c} : Placed(d)' /\ Tallied(d)' /\ InvokedLast(d)'
  BY OthersAsBefore
<1>3. \A d \in Q!Ids : Placed(d)' /\ Tallied(d)' /\ InvokedLast(d)'
  BY <1>2
<1> QED BY <1>1, <1>3 DEF CommandsInv

\* A step that changes what a command says of itself, but neither its list nor its time.
LEMMA CommandChanged ==
  ASSUME CommandsInv, NEW c \in Q!Ids, NEW q \in CommandKind, command' = [command EXCEPT ![c] = q],
         q.list = command[c].list, q.time = command[c].time, lists' = lists
  PROVE  /\ command' \in [Q!Ids -> CommandKind] /\ lists' \in [Q!Lists -> Seq(Q!Ids)] /\ InOrder'
         /\ command'[c] = q /\ \A d \in Q!Ids \ {c} : command'[d] = command[d]
         /\ \A d \in Q!Ids : Q!InList(d)' <=> Q!InList(d)
<1>1. CommandsTyped /\ InOrder
  BY DEF CommandsInv
<1>2. command' \in [Q!Ids -> CommandKind] /\ lists' \in [Q!Lists -> Seq(Q!Ids)]
      /\ command'[c] = q /\ \A d \in Q!Ids \ {c} : command'[d] = command[d]
  BY <1>1 DEF CommandsTyped
<1>3. \A d \in Q!Ids : command'[d].list = command[d].list /\ command'[d].time = command[d].time
  BY <1>2
<1>4. InOrder' /\ \A d \in Q!Ids : Q!InList(d)' <=> Q!InList(d)
  BY <1>1, <1>3, ListsSteady
<1> QED BY <1>2, <1>4

LEMMA ServerFields ==
  ASSUME CommandsInv
  PROVE  /\ server \in ServerKind /\ server.own \in BOOLEAN
         /\ server.at \in {"look", "wait", "check", "execute", "remove", "clear", "release"}
         /\ server.at \in {"look", "wait"} => server.cmd = 0 /\ ~server.own
         /\ server.at \notin {"look", "wait"} =>
              /\ server.cmd \in Q!Ids /\ call[server.cmd].at \notin {"none", "new"}
              /\ Placed(server.cmd) /\ Tallied(server.cmd) /\ InvokedLast(server.cmd)
<1>1. server \in ServerKind
  BY DEF CommandsInv, CommandsTyped
<1>2. server.own \in BOOLEAN
      /\ server.at \in {"look", "wait", "check", "execute", "remove", "clear", "release"}
  BY <1>1 DEF ServerKind
<1>3. server.at \in {"look", "wait"} => server.cmd = 0 /\ ~server.own
  BY DEF CommandsInv, ServerWhole
<1>4. server.at \notin {"look", "wait"} => server.cmd \in Q!Ids
  BY DEF CommandsInv, ServerWhole
<1>5. ASSUME server.at \notin {"look", "wait"}
      PROVE  /\ call[server.cmd].at \notin {"none", "new"}
             /\ Placed(server.cmd) /\ Tallied(server.cmd) /\ InvokedLast(server.cmd)
  <2>1. Placed(server.cmd) /\ Tallied(server.cmd) /\ InvokedLast(server.cmd)
    BY <1>4, <1>5 DEF CommandsInv
  <2> QED BY <2>1 DEF Placed
<1> QED BY <1>1, <1>2, <1>3, <1>4, <1>5

\* A command's own view of a step of it.
LEMMA OneView ==
  ASSUME CommandsInv, NEW c \in Q!Ids
  PROVE  /\ Placed(c) /\ Tallied(c) /\ InvokedLast(c) /\ CommandsTyped /\ AdviceTyped /\ InOrder
         /\ command[c] \in CommandKind /\ call[c] \in CallKind /\ command[c].refs \in Int
         /\ command[c].invoked \in Nat /\ command[c].queued \in BOOLEAN
         /\ call \in [Q!Ids -> CallKind] /\ command \in [Q!Ids -> CommandKind] /\ c # 0
         /\ call[c].time \in Q!Times \cup {0}
         /\ calls \in 0 .. MaxCalls
<1>1. Placed(c) /\ Tallied(c) /\ InvokedLast(c) /\ CommandsTyped /\ AdviceTyped /\ InOrder
  BY DEF CommandsInv
<1>2. /\ command[c] \in CommandKind /\ call[c] \in CallKind /\ command[c].refs \in Int
      /\ command[c].invoked \in Nat /\ command[c].queued \in BOOLEAN /\ c # 0
  BY <1>1, CommandFields
<1>3. call[c].time \in Q!Times \cup {0}
  BY <1>2 DEF CallKind
<1>4. call \in [Q!Ids -> CallKind] /\ command \in [Q!Ids -> CommandKind] /\ calls \in 0 .. MaxCalls
  BY <1>1 DEF CommandsTyped
<1> QED BY <1>1, <1>2, <1>3, <1>4

\* SetSyncSource, Run, EndRun and the time: no command changes.
LEMMA QueueQuiet ==
  ASSUME CommandsInv, Q!SetSyncSource \/ Q!Run \/ Q!EndRun \/ Q!Tick \/ Q!ClockFires \/ Q!Crash
  PROVE  CommandsInv'
<1>1. CommandsTyped /\ AdviceTyped
  BY DEF CommandsInv
<1>2. calls \in Nat /\ time \in Nat
  BY <1>1, CommandConstants DEF CommandsTyped
<1>3. CASE Q!SetSyncSource
  <2>1. calls' = calls + 1 /\ calls < MaxCalls /\ m_pClock' \in BOOLEAN
        /\ Q!SetTimeAdvise(m_dwAdvise /\ ~m_pClock)
        /\ UNCHANGED <<time, lists, command, call, server, m_bRunning, m_StreamTimeOffset, crashed>>
    BY <1>3 DEF Q!SetSyncSource, Q!Counted
  <2>2. calls' \in 0 .. MaxCalls
    BY <1>2, <2>1, CommandConstants
  <2>3. CommandsTyped'
    BY <1>1, <2>1, <2>2 DEF CommandsTyped
  <2>4. AdviceTyped'
    BY <1>1, <2>1, <2>3, AdviceStep
  <2> QED BY <2>1, <2>3, <2>4, CommandsQuiet
<1>4. CASE Q!Run
  <2>1. calls' = calls + 1 /\ calls < MaxCalls /\ m_bRunning' = TRUE /\ m_StreamTimeOffset' \in Offsets
        /\ Q!SetTimeAdvise(m_dwAdvise)
        /\ UNCHANGED <<time, lists, command, call, server, m_pClock, crashed>>
    BY <1>4 DEF Q!Run, Q!Counted
  <2>2. calls' \in 0 .. MaxCalls
    BY <1>2, <2>1, CommandConstants
  <2>3. CommandsTyped'
    BY <1>1, <2>1, <2>2 DEF CommandsTyped
  <2>5. m_dwAdvise \in BOOLEAN
    BY <1>1 DEF AdviceTyped
  <2>4. AdviceTyped'
    BY <1>1, <2>1, <2>3, <2>5, AdviceStep
  <2> QED BY <2>1, <2>3, <2>4, CommandsQuiet
<1>5. CASE Q!EndRun
  <2>1. m_bRunning' = FALSE /\ Q!SetTimeAdvise(m_dwAdvise)
        /\ UNCHANGED <<time, calls, lists, command, call, server, m_pClock, m_StreamTimeOffset, crashed>>
    BY <1>5 DEF Q!EndRun
  <2>3. CommandsTyped'
    BY <1>1, <2>1 DEF CommandsTyped
  <2>5. m_dwAdvise \in BOOLEAN
    BY <1>1 DEF AdviceTyped
  <2>4. AdviceTyped'
    BY <1>1, <2>1, <2>3, <2>5, AdviceStep
  <2> QED BY <2>1, <2>3, <2>4, CommandsQuiet
<1>6. CASE Q!Tick
  <2>1. time < MaxDue /\ time' = time + 1
        /\ UNCHANGED <<calls, lists, command, call, server, Q!queue, Q!advice, crashed>>
    BY <1>6 DEF Q!Tick
  <2>2. time' \in 0 .. MaxDue
    BY <1>2, <2>1, CommandConstants
  <2>3. CommandsTyped' /\ AdviceTyped'
    BY <1>1, <2>1, <2>2 DEF CommandsTyped, AdviceTyped, Q!queue, Q!advice
  <2> QED BY <2>1, <2>3, CommandsQuiet
<1>7. CASE Q!ClockFires
  <2>1. m_evDue' = TRUE /\ advise' = 0
        /\ UNCHANGED <<time, calls, lists, command, call, server, Q!queue, m_dwAdvise, m_tCurrentAdvise, crashed>>
    BY <1>7 DEF Q!ClockFires
  <2>3. CommandsTyped' /\ AdviceTyped'
    BY <1>1, <2>1 DEF CommandsTyped, AdviceTyped, Q!queue
  <2> QED BY <2>1, <2>3, CommandsQuiet
<1>8. CASE Q!Crash
  <2>1. crashed' = TRUE
        /\ UNCHANGED <<time, calls, lists, command, call, server, Q!queue, Q!advice>>
    BY <1>8 DEF Q!Crash
  <2>3. CommandsTyped' /\ AdviceTyped'
    BY <1>1, <2>1 DEF CommandsTyped, AdviceTyped, Q!queue, Q!advice
  <2> QED BY <2>1, <2>3, CommandsQuiet
<1> QED BY <1>3, <1>4, <1>5, <1>6, <1>7, <1>8

\* The advice after a step that leaves the rest of the types alone.
LEMMA RestAdvised ==
  ASSUME CommandsInv, RestSteady, Q!SetTimeAdvise(m_dwAdvise) \/ UNCHANGED Q!advice,
         lists' \in [Q!Lists -> Seq(Q!Ids)], command' \in [Q!Ids -> CommandKind],
         call' \in [Q!Ids -> CallKind], server' \in ServerKind
  PROVE  AdviceTyped'
<1>1. CommandsTyped'
  BY DEF CommandsInv, CommandsTyped, RestSteady
<1>2. AdviceTyped /\ m_dwAdvise \in BOOLEAN
  BY DEF CommandsInv, AdviceTyped
<1>3. CASE UNCHANGED Q!advice
  BY <1>2, <1>3 DEF AdviceTyped, Q!advice
<1>4. CASE Q!SetTimeAdvise(m_dwAdvise)
  BY <1>1, <1>2, <1>4, AdviceStep
<1> QED BY <1>3, <1>4

\* A command that its constructor, or Postpone, puts in a list.
LEMMA InsertStep ==
  ASSUME CommandsInv, NEW c \in Q!Ids, NEW l \in Q!Lists, NEW w \in Q!Times \cup {0}, NEW r \in CallKind,
         Q!Insert(c, l, w), Q!SetTimeAdvise(m_dwAdvise), call' = [call EXCEPT ![c] = r],
         call[c].at \in {"new", "insert"},
         r.at = IF call[c].at = "new" THEN "adopt" ELSE "held",
         RestSteady, server' = server
  PROVE  CommandsInv'
<1>1. /\ Placed(c) /\ Tallied(c) /\ InvokedLast(c) /\ CommandsTyped /\ AdviceTyped /\ InOrder
      /\ call \in [Q!Ids -> CallKind]
  BY OneView
<1>2. ~Q!InList(c)
  BY <1>1 DEF Placed
<1>3. /\ lists' \in [Q!Lists -> Seq(Q!Ids)] /\ command' \in [Q!Ids -> CommandKind] /\ InOrder'
      /\ Q!InList(c)' /\ command'[c].list = l
      /\ command'[c].refs = command[c].refs + 1 /\ command'[c].invoked = command[c].invoked
      /\ (command'[c].queued <=> command[c].queued \/ call[c].at = "new")
      /\ \A d \in Q!Ids \ {c} : command'[d] = command[d] /\ (Q!InList(d)' <=> Q!InList(d))
  BY <1>1, <1>2, CommandInserted
<1>4. call' \in [Q!Ids -> CallKind] /\ call'[c] = r /\ \A d \in Q!Ids \ {c} : call'[d] = call[d]
  BY <1>1
<1>5. server' \in ServerKind /\ ServerWhole'
  BY DEF CommandsInv, CommandsTyped, ServerWhole
<1>6. AdviceTyped'
  BY <1>3, <1>4, <1>5, RestAdvised
<1>7. Placed(c)'
  BY <1>4 DEF Placed
<1>8. Tallied(c)'
  <2>1. call[c].at = "new" => command[c].refs = 0 /\ server.cmd # c
    BY <1>1 DEF Placed, Q!Unmade
  <2>2. command[c].refs = 0 + (IF call[c].at = "new" THEN 0 ELSE 1) + (IF server.cmd = c /\ server.own THEN 1 ELSE 0)
    BY <1>1, <1>2 DEF Tallied
  <2>3. command'[c].refs = 1 + (IF call[c].at = "new" THEN 0 ELSE 1) + (IF server.cmd = c /\ server.own THEN 1 ELSE 0)
    BY <1>3, <2>2
  <2>4. call'[c].at \in {"none", "new", "adopt"} <=> call[c].at = "new"
    BY <1>4
  <2> QED BY <1>3, <2>3, <2>4 DEF Tallied
<1>9. InvokedLast(c)'
  <2>1. call[c].at = "new" => command[c].invoked = 0
    BY <1>1 DEF Placed, Q!Unmade
  <2> QED BY <1>1, <1>3, <2>1 DEF InvokedLast
<1>10. \A d \in Q!Ids \ {c} : /\ command'[d] = command[d] /\ call'[d] = call[d]
                              /\ (Q!InList(d)' <=> Q!InList(d))
  BY <1>3, <1>4
<1> QED BY <1>3, <1>4, <1>5, <1>6, <1>7, <1>8, <1>9, <1>10, OneCommand

\* A command that Cancel, or Postpone, takes off its list.
LEMMA RemoveStep ==
  ASSUME CommandsInv, NEW c \in Q!Ids, NEW r \in CallKind,
         Q!InList(c), Q!Remove(c), call' = [call EXCEPT ![c] = r],
         call[c].at \in {"cancel", "postpone"}, r.at \in {"clear", "insert"},
         RestSteady, server' = server
  PROVE  CommandsInv'
<1>1. /\ Placed(c) /\ Tallied(c) /\ InvokedLast(c) /\ CommandsTyped /\ AdviceTyped /\ InOrder
      /\ call \in [Q!Ids -> CallKind]
  BY OneView
<1>3. /\ lists' \in [Q!Lists -> Seq(Q!Ids)] /\ command' \in [Q!Ids -> CommandKind] /\ InOrder'
      /\ ~Q!InList(c)' /\ command'[c].list = command[c].list
      /\ command'[c].refs = command[c].refs - 1 /\ command'[c].invoked = command[c].invoked
      /\ command'[c].queued = command[c].queued
      /\ \A d \in Q!Ids \ {c} : command'[d] = command[d] /\ (Q!InList(d)' <=> Q!InList(d))
      /\ Q!SetTimeAdvise(m_dwAdvise)
  BY <1>1, CommandRemoved
<1>4. call' \in [Q!Ids -> CallKind] /\ call'[c] = r /\ \A d \in Q!Ids \ {c} : call'[d] = call[d]
  BY <1>1
<1>5. server' \in ServerKind /\ ServerWhole'
  BY DEF CommandsInv, CommandsTyped, ServerWhole
<1>6. AdviceTyped'
  BY <1>3, <1>4, <1>5, RestAdvised
<1>7. Placed(c)'
  BY <1>3, <1>4 DEF Placed
<1>8. Tallied(c)'
  <2>2. command[c].refs = 1 + 1 + (IF server.cmd = c /\ server.own THEN 1 ELSE 0)
    BY <1>1 DEF Tallied
  <2>3. command'[c].refs = 0 + 1 + (IF server.cmd = c /\ server.own THEN 1 ELSE 0)
    BY <1>3, <2>2
  <2>4. call'[c].at \notin {"none", "new", "adopt"}
    BY <1>4
  <2> QED BY <1>3, <2>3, <2>4 DEF Tallied
<1>9. InvokedLast(c)'
  BY <1>1, <1>3 DEF InvokedLast
<1>10. \A d \in Q!Ids \ {c} : /\ command'[d] = command[d] /\ call'[d] = call[d]
                              /\ (Q!InList(d)' <=> Q!InList(d))
  BY <1>3, <1>4
<1> QED BY <1>3, <1>4, <1>5, <1>6, <1>7, <1>8, <1>9, <1>10, OneCommand

-----------------------------------------------------------------------------
\* The steps of an application.
LEMMA Making ==
  ASSUME CommandsInv, NEW c \in Q!Ids, Q!New(c) PROVE CommandsInv'
<1>1. CASE \E l \in Q!Lists, w \in Q!Times :
             Q!Insert(c, l, w) /\ Q!Go(c, "adopt") /\ UNCHANGED Q!queue /\ Q!SetTimeAdvise(m_dwAdvise)
  <2>1. PICK l \in Q!Lists, w \in Q!Times :
          Q!Insert(c, l, w) /\ Q!Go(c, "adopt") /\ UNCHANGED Q!queue /\ Q!SetTimeAdvise(m_dwAdvise)
    BY <1>1
  <2> DEFINE r == [call[c] EXCEPT !.at = "adopt"]
  <2>2. r \in CallKind /\ r.at = "adopt"
    BY OneView DEF CallKind
  <2>3. call' = [call EXCEPT ![c] = r]
    BY <2>1, OneView DEF Q!Go
  <2>4. RestSteady /\ server' = server /\ call[c].at = "new"
    BY <2>1, OneView DEF Q!New, Q!queue, RestSteady
  <2> HIDE DEF r
  <2> QED BY <2>1, <2>2, <2>3, <2>4, InsertStep
<1>2. CASE Q!Go(c, "none") /\ UNCHANGED <<lists, command, Q!queue, Q!advice>>
  <2> DEFINE r == [call[c] EXCEPT !.at = "none"]
  <2>2. r \in CallKind /\ r.at = "none"
    BY OneView DEF CallKind
  <2>3. call' = [call EXCEPT ![c] = r]
    BY <1>2, OneView DEF Q!Go
  <2>4. /\ RestSteady /\ lists' = lists /\ command' = command /\ server' = server
        /\ call[c].at = "new" /\ UNCHANGED Q!advice
    BY <1>2, OneView DEF Q!New, Q!queue, RestSteady
  <2>5. AdviceTyped'
    BY <2>4, OneView DEF AdviceTyped, Q!advice
  <2> HIDE DEF r
  <2> QED BY <2>2, <2>3, <2>4, <2>5, CallGoesOn DEF RestSteady
<1> QED BY <1>1, <1>2 DEF Q!New

\* A step of a call that changes what the command says of itself.
LEMMA CallChanges ==
  ASSUME CommandsInv, NEW c \in Q!Ids, NEW q \in CommandKind, command' = [command EXCEPT ![c] = q],
         q.list = command[c].list, q.time = command[c].time, q.invoked = command[c].invoked,
         q.queued => command[c].queued, call' = [call EXCEPT ![c].at = "held"],
         call[c].at \in {"adopt", "clear"},
         q.refs = command[c].refs + (IF call[c].at = "adopt" THEN 1 ELSE 0),
         UNCHANGED <<time, calls, lists, server, Q!queue, Q!advice, crashed>>
  PROVE  CommandsInv'
<1>1. /\ Placed(c) /\ Tallied(c) /\ InvokedLast(c) /\ call \in [Q!Ids -> CallKind]
      /\ call[c] \in CallKind /\ command[c].refs \in Int
  BY OneView
<1>2. /\ command' \in [Q!Ids -> CommandKind] /\ lists' \in [Q!Lists -> Seq(Q!Ids)] /\ InOrder'
      /\ command'[c] = q /\ \A d \in Q!Ids \ {c} : command'[d] = command[d]
      /\ \A d \in Q!Ids : Q!InList(d)' <=> Q!InList(d)
  BY CommandChanged
<1>3. [call[c] EXCEPT !.at = "held"] \in CallKind /\ [call[c] EXCEPT !.at = "held"].at = "held"
  BY <1>1 DEF CallKind
<1>4. call' \in [Q!Ids -> CallKind] /\ call'[c].at = "held" /\ \A d \in Q!Ids \ {c} : call'[d] = call[d]
  BY <1>1, <1>3
<1>5. server' \in ServerKind /\ ServerWhole' /\ server' = server
  BY DEF CommandsInv, CommandsTyped, ServerWhole
<1>6. RestSteady
  BY OneView DEF RestSteady, Q!queue
<1>7. AdviceTyped'
  BY OneView DEF AdviceTyped, Q!advice
<1>8. Placed(c)'
  BY <1>4 DEF Placed
<1>9. Tallied(c)'
  <2>1. command[c].refs = (IF Q!InList(c) THEN 1 ELSE 0) + (IF call[c].at = "adopt" THEN 0 ELSE 1)
                          + (IF server.cmd = c /\ server.own THEN 1 ELSE 0)
    BY <1>1 DEF Tallied
  <2>2. q.refs = (IF Q!InList(c) THEN 1 ELSE 0) + 1 + (IF server.cmd = c /\ server.own THEN 1 ELSE 0)
    BY <2>1
  <2>3. call'[c].at \notin {"none", "new", "adopt"}
    BY <1>4
  <2> QED BY <1>2, <1>5, <2>2, <2>3 DEF Tallied
<1>10. InvokedLast(c)'
  BY <1>1, <1>2, <1>5 DEF InvokedLast
<1>11. \A d \in Q!Ids \ {c} : /\ command'[d] = command[d] /\ call'[d] = call[d]
                              /\ (Q!InList(d)' <=> Q!InList(d))
  BY <1>2, <1>4
<1> QED BY <1>2, <1>4, <1>5, <1>6, <1>7, <1>8, <1>9, <1>10, <1>11, OneCommand

LEMMA Adopting ==
  ASSUME CommandsInv, NEW c \in Q!Ids, Q!Adopt(c) PROVE CommandsInv'
<1>1. CASE command[c].refs = 0
  BY <1>1, QueueQuiet DEF Q!Adopt
<1>2. CASE command[c].refs # 0
  <2> DEFINE q == [command[c] EXCEPT !.refs = command[c].refs + 1]
  <2>1. command[c] \in CommandKind /\ command[c].refs + 1 \in Int /\ command \in [Q!Ids -> CommandKind]
    BY OneView
  <2>2. /\ q \in CommandKind /\ q.list = command[c].list /\ q.time = command[c].time
        /\ q.invoked = command[c].invoked /\ q.queued = command[c].queued /\ q.refs = command[c].refs + 1
    BY <2>1 DEF CommandKind
  <2>3. command' = [command EXCEPT ![c] = q] /\ call' = [call EXCEPT ![c].at = "held"]
    BY <1>2, <2>1, OneView DEF Q!Adopt, Q!Go
  <2>4. call[c].at = "adopt" /\ UNCHANGED <<time, calls, lists, server, Q!queue, Q!advice, crashed>>
    BY <1>2 DEF Q!Adopt
  <2> HIDE DEF q
  <2> QED BY <2>2, <2>3, <2>4, CallChanges
<1> QED BY <1>1, <1>2

LEMMA CancelClearing ==
  ASSUME CommandsInv, NEW c \in Q!Ids, Q!CancelClear(c) PROVE CommandsInv'
<1> DEFINE q == [command[c] EXCEPT !.queued = FALSE]
<1>1. command[c] \in CommandKind /\ command \in [Q!Ids -> CommandKind] /\ command[c].refs \in Int
  BY OneView
<1>2. /\ q \in CommandKind /\ q.list = command[c].list /\ q.time = command[c].time
      /\ q.invoked = command[c].invoked /\ q.queued = FALSE /\ q.refs = command[c].refs
  BY <1>1 DEF CommandKind
<1>3. command' = [command EXCEPT ![c] = q] /\ call' = [call EXCEPT ![c].at = "held"]
  BY <1>1, OneView DEF Q!CancelClear, Q!Go
<1>4. call[c].at = "clear" /\ UNCHANGED <<time, calls, lists, server, Q!queue, Q!advice, crashed>>
  BY DEF Q!CancelClear
<1> HIDE DEF q
<1>5. q.refs = command[c].refs + (IF call[c].at = "adopt" THEN 1 ELSE 0)
  BY <1>1, <1>2, <1>4
<1> QED BY <1>2, <1>3, <1>4, <1>5, CallChanges

\* A call that goes on with the queue left alone.
LEMMA CallQuiet ==
  ASSUME CommandsInv, NEW c \in Q!Ids, NEW r \in CallKind, call' = [call EXCEPT ![c] = r],
         call[c].at \in {"held", "cancel", "postpone"},
         r.at \in {"held", "cancel", "postpone"}, calls' \in 0 .. MaxCalls,
         UNCHANGED <<time, lists, command, server, Q!queue, Q!advice, crashed>>
  PROVE  CommandsInv'
<1>1. AdviceTyped'
  BY OneView DEF AdviceTyped, Q!advice
<1>2. /\ call[c].at \in {"none", "new", "adopt"} <=> r.at \in {"none", "new", "adopt"}
      /\ r.at \in {"none", "new"} => call[c].at \in {"none", "new"}
      /\ r.at = "insert" => ~Q!InList(c)
  OBVIOUS
<1> QED BY <1>1, <1>2, CallGoesOn DEF Q!queue

LEMMA Cancelling ==
  ASSUME CommandsInv, NEW c \in Q!Ids, Q!Cancel(c) PROVE CommandsInv'
<1> DEFINE r == [call[c] EXCEPT !.at = "cancel"]
<1>1. r \in CallKind /\ r.at = "cancel"
  BY OneView DEF CallKind
<1>2. call' = [call EXCEPT ![c] = r]
  BY OneView DEF Q!Cancel, Q!Go
<1>3. /\ call[c].at = "held" /\ UNCHANGED <<time, lists, command, server, Q!queue, Q!advice, crashed>>
      /\ calls < MaxCalls /\ calls' = calls + 1
  BY DEF Q!Cancel, Q!Counted
<1>4. calls' \in 0 .. MaxCalls
  BY <1>3, OneView, CommandConstants
<1> HIDE DEF r
<1> QED BY <1>1, <1>2, <1>3, <1>4, CallQuiet

LEMMA CancelRemoving ==
  ASSUME CommandsInv, NEW c \in Q!Ids, Q!CancelRemove(c) PROVE CommandsInv'
<1>1. CASE ~command[c].queued
  BY <1>1, QueueQuiet DEF Q!CancelRemove
<1>2. CASE command[c].queued
  <2> DEFINE r == [call[c] EXCEPT !.at = IF Q!InList(c) THEN "clear" ELSE "held"]
  <2>1. r \in CallKind /\ r.at = IF Q!InList(c) THEN "clear" ELSE "held"
    BY OneView DEF CallKind
  <2>2. call' = [call EXCEPT ![c] = r]
    BY <1>2, OneView DEF Q!CancelRemove, Q!Go
  <2>3. /\ call[c].at = "cancel" /\ UNCHANGED <<time, calls, server, Q!queue, crashed>> /\ Q!Remove(c)
    BY <1>2 DEF Q!CancelRemove
  <2> HIDE DEF r
  <2>4. CASE Q!InList(c)
    <3>1. RestSteady
      BY <2>3, OneView DEF RestSteady, Q!queue
    <3> QED BY <2>1, <2>2, <2>3, <2>4, <3>1, RemoveStep
  <2>5. CASE ~Q!InList(c)
    <3>1. UNCHANGED <<lists, command, Q!advice>> /\ calls' \in 0 .. MaxCalls
      BY <2>3, <2>5, OneView DEF Q!Remove
    <3> QED BY <2>1, <2>2, <2>3, <2>5, <3>1, CallQuiet
  <2> QED BY <2>4, <2>5
<1> QED BY <1>1, <1>2

LEMMA Postponing ==
  ASSUME CommandsInv, NEW c \in Q!Ids, NEW w \in Q!Times, Q!Postpone(c, w) PROVE CommandsInv'
<1>1. CASE ~command[c].queued
  BY <1>1, QueueQuiet DEF Q!Postpone
<1>2. CASE command[c].queued
  <2> DEFINE r == [at |-> "postpone", time |-> w]
  <2>1. r \in CallKind /\ r.at = "postpone"
    BY DEF CallKind
  <2>2. /\ call' = [call EXCEPT ![c] = r] /\ calls < MaxCalls /\ calls' = calls + 1
        /\ call[c].at = "held" /\ UNCHANGED <<time, lists, command, server, Q!queue, Q!advice, crashed>>
    BY <1>2 DEF Q!Postpone, Q!Counted
  <2>3. calls' \in 0 .. MaxCalls
    BY <2>2, OneView, CommandConstants
  <2> HIDE DEF r
  <2> QED BY <2>1, <2>2, <2>3, CallQuiet
<1> QED BY <1>1, <1>2

LEMMA PostponeRemoving ==
  ASSUME CommandsInv, NEW c \in Q!Ids, Q!PostponeRemove(c) PROVE CommandsInv'
<1>1. CASE ~command[c].queued
  BY <1>1, QueueQuiet DEF Q!PostponeRemove
<1>2. CASE command[c].queued
  <2>3. /\ call[c].at = "postpone" /\ UNCHANGED <<time, calls, server, Q!queue, crashed>> /\ Q!Remove(c)
    BY <1>2 DEF Q!PostponeRemove
  <2>4. CASE Q!InList(c)
    <3> DEFINE r == [call[c] EXCEPT !.at = "insert"]
    <3>1. r \in CallKind /\ r.at = "insert"
      BY OneView DEF CallKind
    <3>2. call' = [call EXCEPT ![c] = r]
      BY <1>2, <2>4, OneView DEF Q!PostponeRemove
    <3>3. RestSteady
      BY <2>3, OneView DEF RestSteady, Q!queue
    <3> HIDE DEF r
    <3> QED BY <2>3, <2>4, <3>1, <3>2, <3>3, RemoveStep
  <2>5. CASE ~Q!InList(c)
    <3> DEFINE r == [at |-> "held", time |-> 0]
    <3>1. r \in CallKind /\ r.at = "held"
      BY DEF CallKind
    <3>2. call' = [call EXCEPT ![c] = r]
      BY <1>2, <2>5, OneView DEF Q!PostponeRemove
    <3>3. UNCHANGED <<lists, command, Q!advice>> /\ calls' \in 0 .. MaxCalls
      BY <2>3, <2>5, OneView DEF Q!Remove
    <3> HIDE DEF r
    <3> QED BY <2>3, <3>1, <3>2, <3>3, CallQuiet
  <2> QED BY <2>4, <2>5
<1> QED BY <1>1, <1>2

LEMMA PostponeInserting ==
  ASSUME CommandsInv, NEW c \in Q!Ids, Q!PostponeInsert(c) PROVE CommandsInv'
<1>1. CASE ~command[c].queued
  BY <1>1, QueueQuiet DEF Q!PostponeInsert
<1>2. CASE command[c].queued
  <2> DEFINE r == [at |-> "held", time |-> 0]
  <2>1. r \in CallKind /\ r.at = "held"
    BY DEF CallKind
  <2>2. call' = [call EXCEPT ![c] = r]
    BY <1>2 DEF Q!PostponeInsert
  <2>3. /\ call[c].at = "insert" /\ UNCHANGED <<time, calls, server, Q!queue, crashed>>
        /\ Q!Insert(c, command[c].list, call[c].time) /\ Q!SetTimeAdvise(m_dwAdvise)
    BY <1>2 DEF Q!PostponeInsert
  <2>4. command[c].list \in Q!Lists /\ call[c].time \in Q!Times \cup {0}
    BY OneView, CommandFields
  <2>5. RestSteady
    BY <2>3, OneView DEF RestSteady, Q!queue
  <2> HIDE DEF r
  <2> QED BY <2>1, <2>2, <2>3, <2>4, <2>5, InsertStep
<1> QED BY <1>1, <1>2

-----------------------------------------------------------------------------
\* The steps of the thread that invokes commands.

\* A command of a list is taken.
LEMMA Taking ==
  ASSUME CommandsInv, NEW c \in Q!Ids, Q!InList(c), server.at = "look", NEW o \in BOOLEAN,
         server' = [at |-> "check", cmd |-> c, own |-> o],
         command' = IF o THEN [command EXCEPT ![c].refs = @ + 1] ELSE command,
         UNCHANGED <<time, calls, lists, call, Q!queue, Q!advice, crashed>>
  PROVE  CommandsInv'
<1>1. /\ Placed(c) /\ Tallied(c) /\ InvokedLast(c) /\ call \in [Q!Ids -> CallKind]
      /\ command[c] \in CommandKind /\ command[c].refs \in Int /\ command \in [Q!Ids -> CommandKind]
      /\ c # 0
  BY OneView
<1>2. server.cmd = 0 /\ ~server.own
  BY ServerFields
<1> DEFINE q == [command[c] EXCEPT !.refs = command[c].refs + (IF o THEN 1 ELSE 0)]
<1>3. /\ q.list = command[c].list /\ q.time = command[c].time
      /\ q.invoked = command[c].invoked /\ q.queued = command[c].queued
      /\ q.refs = command[c].refs + (IF o THEN 1 ELSE 0)
  BY <1>1 DEF CommandKind
<1>4. q \in CommandKind
  <2>1. command[c].refs + (IF o THEN 1 ELSE 0) \in Int
    BY <1>1
  <2> QED BY <1>1, <2>1 DEF CommandKind
<1>5. command' = [command EXCEPT ![c] = q]
  <2>1. CASE o
    <3>1. q = [command[c] EXCEPT !.refs = command[c].refs + 1]
      BY <2>1
    <3> QED BY <1>1, <2>1, <3>1
  <2>2. CASE ~o
    <3>1. q = command[c]
      BY <1>1, <2>2 DEF CommandKind
    <3> HIDE DEF q
    <3> QED BY <1>1, <2>2, <3>1
  <2> QED BY <2>1, <2>2
<1> HIDE DEF q
<1>6. /\ command' \in [Q!Ids -> CommandKind] /\ lists' \in [Q!Lists -> Seq(Q!Ids)] /\ InOrder'
      /\ command'[c] = q /\ \A d \in Q!Ids \ {c} : command'[d] = command[d]
      /\ \A d \in Q!Ids : Q!InList(d)' <=> Q!InList(d)
  BY <1>3, <1>4, <1>5, CommandChanged
<1>7. /\ server' \in ServerKind /\ server'.cmd = c /\ server'.at = "check" /\ server'.own = o
  BY DEF ServerKind
<1>8. ServerWhole'
  BY <1>7 DEF ServerWhole
<1>9. RestSteady
  BY OneView DEF RestSteady, Q!queue
<1>10. AdviceTyped'
  BY OneView DEF AdviceTyped, Q!advice
<1>11. call[c].at \notin {"none", "new", "insert"}
  BY <1>1 DEF Placed
<1>12. Placed(c)'
  BY <1>11 DEF Placed
<1>13. Tallied(c)'
  <2>1. command[c].refs = 1 + (IF call[c].at = "adopt" THEN 0 ELSE 1)
    BY <1>1, <1>2, <1>11 DEF Tallied
  <2>2. q.refs = 1 + (IF call[c].at = "adopt" THEN 0 ELSE 1) + (IF o THEN 1 ELSE 0)
    BY <1>3, <2>1
  <2> QED BY <1>6, <1>7, <1>11, <2>2 DEF Tallied
<1>14. InvokedLast(c)'
  BY <1>1, <1>2, <1>3, <1>6, <1>7 DEF InvokedLast
<1>15. \A d \in Q!Ids \ {c} : /\ command'[d] = command[d] /\ call'[d] = call[d]
                              /\ (Q!InList(d)' <=> Q!InList(d))
  BY <1>6
<1> QED BY <1>1, <1>2, <1>6, <1>7, <1>8, <1>9, <1>10, <1>12, <1>13, <1>14, <1>15, OneCommand

\* The first of a list is in it.
LEMMA HeadInList ==
  ASSUME CommandsTyped, InOrder, NEW l \in Q!Lists, lists[l] # <<>>
  PROVE  lists[l][1] \in Q!Ids /\ Q!InList(lists[l][1]) /\ command[lists[l][1]].list = l
<1>1. 1 \in 1 .. Len(lists[l]) /\ lists[l][1] \in Q!Ids
  BY ListFields
<1> QED BY <1>1, InIts DEF InOrder

LEMMA HeadsInList ==
  ASSUME CommandsTyped, InOrder, NEW c \in Q!Heads
  PROVE  c \in Q!Ids /\ Q!InList(c)
<1>1. PICK l \in Q!Lists : lists[l] # <<>> /\ c = lists[l][1]
  BY DEF Q!Heads
<1> QED BY <1>1, HeadInList

LEMMA GettingDue ==
  ASSUME CommandsInv, Q!GetDueCommand PROVE CommandsInv'
<1>1. CommandsTyped /\ InOrder /\ calls \in 0 .. MaxCalls
  BY DEF CommandsInv, CommandsTyped
<1>2. server.at = "look" /\ UNCHANGED <<time, calls, lists, call, Q!queue, Q!advice, crashed>>
  BY DEF Q!GetDueCommand
<1>3. ASSUME NEW c \in Q!Ids, Q!Earliest(c), Q!Take(c) PROVE CommandsInv'
  <2>1. Q!InList(c)
    BY <1>1, <1>3, HeadsInList DEF Q!Earliest
  <2>2. /\ server' = [at |-> "check", cmd |-> c, own |-> TRUE]
        /\ command' = [command EXCEPT ![c].refs = @ + 1]
    BY <1>3 DEF Q!Take
  <2> QED BY <1>2, <2>1, <2>2, Taking
<1>4. ASSUME Q!Serve("wait"), UNCHANGED command PROVE CommandsInv'
  <2>1. server' = [server EXCEPT !.at = "wait"]
    BY <1>4 DEF Q!Serve
  <2>2. AdviceTyped'
    BY <1>2 DEF CommandsInv, AdviceTyped, Q!advice
  <2> QED BY <1>1, <1>2, <1>4, <2>1, <2>2, ServerGoesOn DEF Q!queue
<1> QED BY <1>3, <1>4 DEF Q!GetDueCommand

LEMMA GettingDueFor ==
  ASSUME CommandsInv, NEW w \in Q!Times, Q!GetCommandDueFor(w) PROVE CommandsInv'
<1>1. CommandsTyped /\ InOrder
  BY DEF CommandsInv
<1>2. server.at = "look" /\ UNCHANGED <<time, calls, lists, call, Q!queue, Q!advice, crashed>>
  BY DEF Q!GetCommandDueFor
<1> DEFINE first(l) == IF lists[l] = <<>> THEN {} ELSE {lists[l][1]}
           Takes(c) == Q!Take(c) \/ (server' = [at |-> "check", cmd |-> c, own |-> FALSE] /\ command' = command)
<1>3. \E l \in Q!Lists : \E c \in first(l) : Takes(c)
  <2>1. {"presentation", "stream"} = Q!Lists
    BY DEF Q!Lists
  <2> HIDE DEF Takes
  <2>2. \/ \E c \in first("presentation") : Takes(c)
        \/ \E c \in first("stream") : Takes(c)
    <3> USE DEF Takes
    <3> QED BY DEF Q!GetCommandDueFor
  <2> QED BY <2>1, <2>2
<1>4. PICK l \in Q!Lists : \E c \in first(l) : Takes(c)
  BY <1>3
<1>5. PICK c \in first(l) : Takes(c)
  BY <1>4
<1>6. lists[l] # <<>> /\ c = lists[l][1]
  BY <1>5
<1>7. c \in Q!Ids /\ Q!InList(c)
  BY <1>1, <1>6, HeadInList
<1>8. CASE Q!Take(c)
  <2>2. /\ server' = [at |-> "check", cmd |-> c, own |-> TRUE]
        /\ command' = [command EXCEPT ![c].refs = @ + 1]
    BY <1>8 DEF Q!Take
  <2> QED BY <1>2, <1>7, <2>2, Taking
<1>9. CASE server' = [at |-> "check", cmd |-> c, own |-> FALSE] /\ command' = command
  BY <1>2, <1>7, <1>9, Taking
<1> QED BY <1>5, <1>8, <1>9

\* The waits of the thread, its look at m_pQueue and a failure of Invoke.
LEMMA Serving ==
  ASSUME CommandsInv, Q!WaitDue \/ Q!TimedOut \/ Q!InvokeCheck \/ Q!InvokeFails PROVE CommandsInv'
<1>1. AdviceTyped /\ calls \in 0 .. MaxCalls
  BY DEF CommandsInv, CommandsTyped
<1>2. UNCHANGED <<time, lists, command, call, Q!queue, Q!advice, crashed>>
  BY DEF Q!WaitDue, Q!TimedOut, Q!InvokeCheck, Q!InvokeFails
<1>3. AdviceTyped'
  BY <1>1, <1>2 DEF AdviceTyped, Q!advice
<1>4. CASE Q!WaitDue \/ Q!TimedOut
  <2>1. server' = [server EXCEPT !.at = "look"] /\ server.at = "wait" /\ calls' = calls
    BY <1>4 DEF Q!WaitDue, Q!TimedOut, Q!Serve
  <2> QED BY <1>1, <1>2, <1>3, <2>1, ServerGoesOn DEF Q!queue
<1>5. CASE Q!InvokeCheck
  <2> DEFINE p == IF command[server.cmd].queued THEN "execute" ELSE "release"
  <2>1. server' = [server EXCEPT !.at = p] /\ server.at = "check" /\ calls' = calls
    BY <1>5 DEF Q!InvokeCheck, Q!Serve
  <2>2. InvokedLast(server.cmd) /\ server.cmd \in Q!Ids
    BY <2>1, ServerFields
  <2>3. command[server.cmd].invoked \in Nat /\ command[server.cmd].queued \in BOOLEAN
    BY <2>2, OneView
  <2>4. /\ command[server.cmd].queued /\ command[server.cmd].invoked > 0 => p \in {"remove", "clear"}
        /\ p = "execute" => command[server.cmd].invoked = 0
    BY <2>1, <2>2, <2>3 DEF InvokedLast
  <2>5. p \in {"look", "wait", "check", "execute", "remove", "clear", "release"}
        /\ p \notin {"look", "wait"}
    OBVIOUS
  <2> HIDE DEF p
  <2> QED BY <1>1, <1>2, <1>3, <2>1, <2>4, <2>5, ServerGoesOn DEF Q!queue
<1>6. CASE Q!InvokeFails
  <2>1. server' = [server EXCEPT !.at = "release"] /\ server.at = "execute"
        /\ calls < MaxCalls /\ calls' = calls + 1
    BY <1>6 DEF Q!InvokeFails, Q!Serve, Q!Counted
  <2>2. InvokedLast(server.cmd)
    BY <2>1, ServerFields
  <2>3. command[server.cmd].invoked = 0
    BY <2>1, <2>2 DEF InvokedLast
  <2>4. calls' \in 0 .. MaxCalls
    BY <1>1, <2>1, CommandConstants
  <2> QED BY <1>1, <1>2, <1>3, <2>1, <2>3, <2>4, ServerGoesOn DEF Q!queue
<1> QED BY <1>4, <1>5, <1>6

\* A step of the thread that changes what its command says of itself.
LEMMA ServerChanges ==
  ASSUME CommandsInv, NEW c, c = server.cmd, server.at \in {"execute", "clear", "release"},
         NEW q \in CommandKind, command' = [command EXCEPT ![c] = q],
         q.list = command[c].list, q.time = command[c].time,
         server' = IF server.at = "release" THEN Q!Idle
                   ELSE [server EXCEPT !.at = IF server.at = "execute" THEN "remove" ELSE "release"],
         q.queued = (command[c].queued /\ server.at # "clear"),
         q.invoked = command[c].invoked + (IF server.at = "execute" THEN 1 ELSE 0),
         q.refs = command[c].refs - (IF server.at = "release" THEN 1 ELSE 0),
         server.at = "release" => server.own,
         UNCHANGED <<time, calls, lists, call, Q!queue, Q!advice, crashed>>
  PROVE  CommandsInv'
<1>0. /\ c \in Q!Ids /\ call[c].at \notin {"none", "new"} /\ server \in ServerKind
  BY ServerFields
<1>1. /\ Placed(c) /\ Tallied(c) /\ InvokedLast(c) /\ call \in [Q!Ids -> CallKind]
      /\ command[c].refs \in Int /\ command[c].invoked \in Nat /\ command[c].queued \in BOOLEAN /\ c # 0
  BY <1>0, OneView
<1>2. /\ command' \in [Q!Ids -> CommandKind] /\ lists' \in [Q!Lists -> Seq(Q!Ids)] /\ InOrder'
      /\ command'[c] = q /\ \A d \in Q!Ids \ {c} : command'[d] = command[d]
      /\ \A d \in Q!Ids : Q!InList(d)' <=> Q!InList(d)
  BY <1>0, CommandChanged
<1>3. /\ server' \in ServerKind
      /\ server.at = "release" => server'.at = "look" /\ server'.cmd = 0 /\ ~server'.own
      /\ server.at # "release" => /\ server'.cmd = c /\ (server'.own <=> server.own)
                                  /\ server'.at = IF server.at = "execute" THEN "remove" ELSE "release"
  BY <1>0 DEF ServerKind, Q!Idle
<1>4. ServerWhole'
  BY <1>0, <1>3 DEF ServerWhole
<1>5. RestSteady
  BY <1>0, OneView DEF RestSteady, Q!queue
<1>6. AdviceTyped'
  BY <1>0, OneView DEF AdviceTyped, Q!advice
<1>7. Placed(c)'
  BY <1>0, <1>1, <1>2 DEF Placed
<1>8. Tallied(c)'
  <2>1. command[c].refs = (IF Q!InList(c) THEN 1 ELSE 0) + (IF call[c].at \in {"none", "new", "adopt"} THEN 0 ELSE 1)
                          + (IF server.own THEN 1 ELSE 0)
    BY <1>1 DEF Tallied
  <2>2. q.refs = (IF Q!InList(c) THEN 1 ELSE 0) + (IF call[c].at \in {"none", "new", "adopt"} THEN 0 ELSE 1)
                 + (IF server'.cmd = c /\ server'.own THEN 1 ELSE 0)
    <3>1. CASE server.at = "release"
      BY <1>1, <1>3, <2>1, <3>1
    <3>2. CASE server.at # "release"
      BY <1>1, <1>3, <2>1, <3>2
    <3> QED BY <3>1, <3>2
  <2> QED BY <1>2, <2>2 DEF Tallied
<1>9. InvokedLast(c)'
  <2>1. CASE server.at = "execute"
    <3>1. command[c].invoked = 0
      BY <1>1, <2>1 DEF InvokedLast
    <3> QED BY <1>2, <1>3, <2>1, <3>1 DEF InvokedLast
  <2>2. CASE server.at = "clear"
    <3>1. ~q.queued
      BY Zenon, <2>2
    <3>2. q.invoked <= 1
      BY <1>1, <2>2 DEF InvokedLast
    <3> QED BY <1>2, <1>3, <2>2, <3>1, <3>2 DEF InvokedLast
  <2>3. CASE server.at = "release"
    BY <1>1, <1>2, <1>3, <2>3 DEF InvokedLast
  <2> QED BY <2>1, <2>2, <2>3
<1>10. server.cmd \in {0, c} /\ server'.cmd \in {0, c}
  BY <1>3
<1>11. \A d \in Q!Ids \ {c} : /\ command'[d] = command[d] /\ call'[d] = call[d]
                              /\ (Q!InList(d)' <=> Q!InList(d))
  BY <1>2
<1> QED BY <1>0, <1>1, <1>2, <1>3, <1>4, <1>5, <1>6, <1>7, <1>8, <1>9, <1>10, <1>11, OneCommand

LEMMA Executing ==
  ASSUME CommandsInv, Q!InvokeExecute \/ Q!InvokeClear \/ Q!ServerRelease PROVE CommandsInv'
<1> DEFINE c == server.cmd
<1>1. server.at \in {"execute", "clear", "release"}
  BY DEF Q!InvokeExecute, Q!InvokeClear, Q!ServerRelease
<1>2. c \in Q!Ids
  BY <1>1, ServerFields
<1>3. /\ command[c] \in CommandKind /\ command[c].refs \in Int /\ command[c].invoked \in Nat
      /\ command[c].queued \in BOOLEAN /\ command \in [Q!Ids -> CommandKind]
  BY <1>2, OneView
<1>4. CASE Q!InvokeExecute
  <2> DEFINE q == [command[c] EXCEPT !.invoked = command[c].invoked + 1]
  <2>1. /\ q \in CommandKind /\ q.list = command[c].list /\ q.time = command[c].time
        /\ q.invoked = command[c].invoked + 1 /\ q.queued = command[c].queued /\ q.refs = command[c].refs
    BY <1>3 DEF CommandKind
  <2>2. /\ server' = [server EXCEPT !.at = "remove"] /\ server.at = "execute"
        /\ UNCHANGED <<time, calls, lists, call, Q!queue, Q!advice, crashed>>
    BY <1>4 DEF Q!InvokeExecute, Q!Serve
  <2>3. command' = [command EXCEPT ![c] = q]
    BY <1>2, <1>3, <1>4 DEF Q!InvokeExecute
  <2> HIDE DEF q
  <2>4. /\ q.refs = command[c].refs - (IF server.at = "release" THEN 1 ELSE 0)
        /\ q.invoked = command[c].invoked + (IF server.at = "execute" THEN 1 ELSE 0)
    BY <1>3, <2>1, <2>2
  <2>5. q.queued = (command[c].queued /\ server.at # "clear")
    BY Zenon, <1>3, <2>1, <2>2, <1>1
  <2>6. server' = IF server.at = "release" THEN Q!Idle
                  ELSE [server EXCEPT !.at = IF server.at = "execute" THEN "remove" ELSE "release"]
    BY <2>2
  <2> QED BY <1>1, <2>1, <2>2, <2>3, <2>4, <2>5, <2>6, ServerChanges
<1>5. CASE Q!InvokeClear
  <2> DEFINE q == [command[c] EXCEPT !.queued = FALSE]
  <2>1. /\ q \in CommandKind /\ q.list = command[c].list /\ q.time = command[c].time
        /\ q.invoked = command[c].invoked /\ q.queued = FALSE /\ q.refs = command[c].refs
    BY <1>3 DEF CommandKind
  <2>2. /\ server' = [server EXCEPT !.at = "release"] /\ server.at = "clear"
        /\ UNCHANGED <<time, calls, lists, call, Q!queue, Q!advice, crashed>>
    BY <1>5 DEF Q!InvokeClear, Q!Serve
  <2>3. command' = [command EXCEPT ![c] = q]
    BY <1>2, <1>3, <1>5 DEF Q!InvokeClear
  <2> HIDE DEF q
  <2>4. /\ q.refs = command[c].refs - (IF server.at = "release" THEN 1 ELSE 0)
        /\ q.invoked = command[c].invoked + (IF server.at = "execute" THEN 1 ELSE 0)
    BY <1>3, <2>1, <2>2
  <2>5. q.queued = (command[c].queued /\ server.at # "clear")
    BY <2>1, <2>2
  <2>6. server' = IF server.at = "release" THEN Q!Idle
                  ELSE [server EXCEPT !.at = IF server.at = "execute" THEN "remove" ELSE "release"]
    BY <2>2
  <2> QED BY <1>1, <2>1, <2>2, <2>3, <2>4, <2>5, <2>6, ServerChanges
<1>6. CASE Q!ServerRelease /\ server.own
  <2> DEFINE q == [command[c] EXCEPT !.refs = command[c].refs - 1]
  <2>0. command[c].refs - 1 \in Int
    BY <1>3
  <2>1. /\ q \in CommandKind /\ q.list = command[c].list /\ q.time = command[c].time
        /\ q.invoked = command[c].invoked /\ q.queued = command[c].queued /\ q.refs = command[c].refs - 1
    BY <1>3, <2>0 DEF CommandKind
  <2>2. /\ server' = Q!Idle /\ server.at = "release"
        /\ UNCHANGED <<time, calls, lists, call, Q!queue, Q!advice, crashed>>
    BY <1>6 DEF Q!ServerRelease
  <2>3. command' = [command EXCEPT ![c] = q]
    BY <1>2, <1>3, <1>6 DEF Q!ServerRelease
  <2> HIDE DEF q
  <2>4. /\ q.refs = command[c].refs - (IF server.at = "release" THEN 1 ELSE 0)
        /\ q.invoked = command[c].invoked + (IF server.at = "execute" THEN 1 ELSE 0)
    BY <1>3, <2>1, <2>2
  <2>5. q.queued = (command[c].queued /\ server.at # "clear")
    BY Zenon, <1>3, <2>1, <2>2, <1>1
  <2>6. server' = IF server.at = "release" THEN Q!Idle
                  ELSE [server EXCEPT !.at = IF server.at = "execute" THEN "remove" ELSE "release"]
    BY <2>2
  <2> QED BY <1>1, <1>6, <2>1, <2>2, <2>3, <2>4, <2>5, <2>6, ServerChanges
<1>7. CASE Q!ServerRelease /\ ~server.own
  BY <1>7, QueueQuiet DEF Q!ServerRelease
<1> QED BY <1>4, <1>5, <1>6, <1>7

LEMMA InvokeRemoving ==
  ASSUME CommandsInv, Q!InvokeRemove PROVE CommandsInv'
<1> SUFFICES ASSUME NEW c, c = server.cmd PROVE CommandsInv'
  OBVIOUS
<1>0. server.at = "remove" /\ c \in Q!Ids /\ call[c].at \notin {"none", "new"} /\ server \in ServerKind
  BY ServerFields DEF Q!InvokeRemove
<1>1. CASE ~command[c].queued
  BY <1>1, QueueQuiet DEF Q!InvokeRemove
<1>2. CASE command[c].queued
  <2>1. /\ server' = [server EXCEPT !.at = "clear"] /\ UNCHANGED <<time, calls, call, Q!queue, crashed>>
        /\ Q!Remove(c)
    BY <1>2 DEF Q!InvokeRemove, Q!Serve
  <2>2. /\ Placed(c) /\ Tallied(c) /\ InvokedLast(c) /\ CommandsTyped /\ InOrder /\ AdviceTyped
        /\ calls \in 0 .. MaxCalls /\ call \in [Q!Ids -> CallKind]
        /\ command[c].invoked \in Nat
    BY <1>0, OneView
  <2>3. CASE ~Q!InList(c)
    <3>1. UNCHANGED <<lists, command, Q!advice>>
      BY <2>1, <2>3 DEF Q!Remove
    <3>2. AdviceTyped'
      BY <2>2, <3>1 DEF AdviceTyped, Q!advice
    <3> QED BY <1>0, <2>1, <2>2, <3>1, <3>2, ServerGoesOn DEF Q!queue
  <2>4. CASE Q!InList(c)
    <3>1. /\ lists' \in [Q!Lists -> Seq(Q!Ids)] /\ command' \in [Q!Ids -> CommandKind] /\ InOrder'
          /\ ~Q!InList(c)' /\ command'[c].list = command[c].list
          /\ command'[c].refs = command[c].refs - 1 /\ command'[c].invoked = command[c].invoked
          /\ command'[c].queued = command[c].queued
          /\ \A d \in Q!Ids \ {c} : command'[d] = command[d] /\ (Q!InList(d)' <=> Q!InList(d))
          /\ Q!SetTimeAdvise(m_dwAdvise)
      BY <1>0, <2>1, <2>2, <2>4, CommandRemoved
    <3>2. server' \in ServerKind /\ server'.at = "clear" /\ server'.cmd = c /\ server'.own = server.own
      BY <1>0, <2>1 DEF ServerKind
    <3>3. ServerWhole'
      BY <1>0, <3>2 DEF ServerWhole
    <3>4. RestSteady
      BY <2>1, <2>2 DEF RestSteady, Q!queue
    <3>5. call' \in [Q!Ids -> CallKind]
      BY <2>1, <2>2
    <3>6. AdviceTyped'
      BY <3>1, <3>2, <3>4, <3>5, RestAdvised
    <3>7. Placed(c)'
      BY <1>0, <2>1, <3>1 DEF Placed
    <3>8. Tallied(c)'
      <4>1. command[c].refs = 1 + (IF call[c].at \in {"none", "new", "adopt"} THEN 0 ELSE 1)
                              + (IF server.own THEN 1 ELSE 0)
        BY <2>2, <2>4 DEF Tallied
      <4>2. command'[c].refs = 0 + (IF call[c].at \in {"none", "new", "adopt"} THEN 0 ELSE 1)
                               + (IF server.own THEN 1 ELSE 0)
        BY <3>1, <4>1
      <4> QED BY <2>1, <3>1, <3>2, <4>2 DEF Tallied
    <3>9. InvokedLast(c)'
      BY <1>0, <2>2, <3>1, <3>2 DEF InvokedLast
    <3>10. \A d \in Q!Ids \ {c} : /\ command'[d] = command[d] /\ call'[d] = call[d]
                                  /\ (Q!InList(d)' <=> Q!InList(d))
      BY <2>1, <3>1
    <3>11. server.cmd \in {0, c} /\ server'.cmd \in {0, c}
      BY <3>2
    <3> QED BY <1>0, <3>1, <3>2, <3>3, <3>4, <3>5, <3>6, <3>7, <3>8, <3>9, <3>10, <3>11, OneCommand
  <2> QED BY <2>3, <2>4
<1> QED BY <1>1, <1>2

-----------------------------------------------------------------------------
LEMMA CommandsStart ==
  ASSUME Q!Init PROVE CommandsInv
<1>1. CommandsTyped
  <2>1. Q!Unmade \in CommandKind
    BY DEF Q!Unmade, CommandKind, Q!Lists
  <2>2. [Q!NoCall EXCEPT !.at = "new"] \in CallKind
    BY DEF Q!NoCall, CallKind
  <2>3. server \in ServerKind
    BY DEF Q!Init, Q!Idle, ServerKind
  <2>4. time \in 0 .. MaxDue /\ calls \in 0 .. MaxCalls
    BY CommandConstants DEF Q!Init
  <2>5. lists \in [Q!Lists -> Seq(Q!Ids)]
    BY DEF Q!Init
  <2>6. command \in [Q!Ids -> CommandKind] /\ call \in [Q!Ids -> CallKind]
    BY <2>1, <2>2 DEF Q!Init
  <2>7. m_pClock \in BOOLEAN /\ m_bRunning \in BOOLEAN /\ m_StreamTimeOffset \in Offsets \cup {0}
        /\ crashed \in BOOLEAN
    BY DEF Q!Init
  <2> QED BY <2>3, <2>4, <2>5, <2>6, <2>7 DEF CommandsTyped
<1>2. AdviceTyped /\ ServerWhole
  BY DEF Q!Init, AdviceTyped, ServerWhole, Q!Idle
<1>3. \A l \in Q!Lists : lists[l] = <<>> /\ Len(lists[l]) = 0
  BY DEF Q!Init
<1>4. InOrder
  BY <1>3 DEF InOrder
<1>5. ASSUME NEW c \in Q!Ids PROVE Placed(c) /\ Tallied(c) /\ InvokedLast(c)
  <2>1. command[c] = Q!Unmade /\ call[c].at = "new" /\ server.cmd = 0 /\ ~server.own /\ server.at = "look"
    BY DEF Q!Init, Q!NoCall, Q!Idle
  <2>2. c # 0
    BY CommandConstants DEF Q!Ids
  <2>3. command[c].list \in Q!Lists /\ command[c].refs = 0 /\ command[c].invoked = 0
    BY <2>1 DEF Q!Unmade, Q!Lists
  <2>4. ~Q!InList(c)
    BY <1>3, <2>3 DEF Q!InList, Q!In
  <2>5. Placed(c)
    BY <2>1, <2>2, <2>4 DEF Placed
  <2>6. Tallied(c)
    BY <2>1, <2>2, <2>3, <2>4 DEF Tallied
  <2>7. InvokedLast(c)
    BY <2>1, <2>3 DEF InvokedLast
  <2> QED BY <2>5, <2>6, <2>7
<1> QED BY <1>1, <1>2, <1>4, <1>5 DEF CommandsInv

LEMMA CommandsStep ==
  ASSUME CommandsInv, Q!Next \/ UNCHANGED commands PROVE CommandsInv'
<1>1. CASE UNCHANGED commands
  <2>1. CommandsTyped' /\ AdviceTyped'
    BY <1>1 DEF CommandsInv, CommandsTyped, AdviceTyped, commands
  <2> QED BY <1>1, <2>1, CommandsQuiet DEF commands
<1>2. CASE UNCHANGED Q!vars
  BY <1>1, <1>2 DEF Q!vars, Q!queue, Q!advice, commands
<1>3. CASE Q!Application
  <2>1. PICK c \in Q!Ids :
          \/ Q!New(c) \/ Q!Adopt(c) \/ Q!Cancel(c) \/ Q!CancelRemove(c) \/ Q!CancelClear(c)
          \/ (\E w \in Q!Times : Q!Postpone(c, w)) \/ Q!PostponeRemove(c) \/ Q!PostponeInsert(c)
    BY <1>3 DEF Q!Application
  <2> QED BY <2>1, Making, Adopting, Cancelling, CancelRemoving, CancelClearing, Postponing,
             PostponeRemoving, PostponeInserting
<1>4. CASE Q!Server \/ Q!InvokeFails \/ (\E w \in Q!Times : Q!GetCommandDueFor(w))
  BY <1>4, GettingDue, GettingDueFor, Serving, Executing, InvokeRemoving DEF Q!Server, Q!Invoke
<1>5. CASE Q!SetSyncSource \/ Q!Run \/ Q!EndRun \/ Q!Tick \/ Q!ClockFires
  BY <1>5, QueueQuiet
<1> QED BY <1>1, <1>2, <1>3, <1>4, <1>5 DEF Q!Next

\* What the invariant says of the references, the order and the invocations.
LEMMA CommandsHeld ==
  ASSUME CommandsInv PROVE Q!References /\ Q!Sorted /\ Q!InvokedOnce
<1>1. CommandsTyped /\ InOrder
  BY DEF CommandsInv
<1>2. ASSUME NEW c \in Q!Ids
      PROVE command[c].refs = (IF Q!In(c, "presentation") THEN 1 ELSE 0) + (IF Q!In(c, "stream") THEN 1 ELSE 0)
                      + (IF call[c].at \in {"none", "new", "adopt"} THEN 0 ELSE 1)
                      + (IF server.cmd = c /\ server.own THEN 1 ELSE 0)
  <2>1. Tallied(c) /\ command[c].list \in Q!Lists
    BY <1>1, CommandFields DEF CommandsInv
  <2>2. \A l \in Q!Lists : Q!In(c, l) => command[c].list = l
    BY <1>1, InIts
  <2>3. command[c].list \in {"presentation", "stream"}
        /\ (Q!In(c, "presentation") => command[c].list = "presentation")
        /\ (Q!In(c, "stream") => command[c].list = "stream")
    BY <2>1, <2>2 DEF Q!Lists
  <2>4. (IF Q!In(c, "presentation") THEN 1 ELSE 0) + (IF Q!In(c, "stream") THEN 1 ELSE 0)
        = IF Q!InList(c) THEN 1 ELSE 0
    BY <2>3 DEF Q!InList
  <2> QED BY <2>1, <2>4 DEF Tallied
<1>3. Q!References
  BY <1>2 DEF Q!References
<1>4. Q!Sorted
  BY <1>1, ListFields DEF Q!Sorted, InOrder
<1>5. Q!InvokedOnce
  BY DEF CommandsInv, InvokedLast, Q!InvokedOnce
<1> QED BY <1>3, <1>4, <1>5

LEMMA CommandsTypesOK ==
  ASSUME CommandsInv PROVE Q!TypeOK
<1>1. CommandsTyped /\ AdviceTyped
  BY DEF CommandsInv
<1>2. \A l \in Q!Lists : \A i \in DOMAIN lists[l] : lists[l][i] \in Q!Ids
  BY <1>1, ListFields
<1>3. ASSUME NEW c \in Q!Ids
      PROVE  /\ command[c].list \in Q!Lists /\ command[c].time \in Q!Times \cup {0}
             /\ command[c].queued \in BOOLEAN
             /\ command[c].refs \in 0..3 /\ command[c].invoked \in Nat
             /\ call[c].at \in {"none", "new", "adopt", "held", "cancel", "clear", "postpone", "insert"}
             /\ call[c].time \in Q!Times \cup {0}
  <2>1. /\ command[c].list \in Q!Lists /\ command[c].time \in Q!Times \cup {0}
        /\ command[c].queued \in BOOLEAN /\ command[c].refs \in Int /\ command[c].invoked \in Nat
        /\ call[c] \in CallKind
    BY <1>1, CommandFields
  <2>2. Tallied(c)
    BY DEF CommandsInv
  <2>3. command[c].refs \in 0..3
    BY <2>2 DEF Tallied
  <2>4. call[c].at \in {"none", "new", "adopt", "held", "cancel", "clear", "postpone", "insert"}
        /\ call[c].time \in Q!Times \cup {0}
    BY <2>1 DEF CallKind
  <2> QED BY <2>1, <2>3, <2>4
<1>4. /\ server.at \in {"look", "wait", "check", "execute", "remove", "clear", "release"}
      /\ server.cmd \in Q!Ids \cup {0} /\ server.own \in BOOLEAN
  BY <1>1 DEF CommandsTyped, ServerKind
<1>5. /\ time \in 0 .. MaxDue /\ calls \in 0 .. MaxCalls
      /\ m_pClock \in BOOLEAN /\ m_bRunning \in BOOLEAN /\ m_StreamTimeOffset \in Offsets \cup {0}
      /\ m_dwAdvise \in BOOLEAN /\ m_evDue \in BOOLEAN
      /\ m_tCurrentAdvise \in Nat /\ advise \in Nat /\ crashed \in BOOLEAN
  BY <1>1 DEF CommandsTyped, AdviceTyped
<1> QED BY <1>2, <1>3, <1>4, <1>5 DEF Q!TypeOK

\* The command that is handed out is due, and none that is due comes before it.
LEMMA CommandsInTime ==
  ASSUME CommandsInv
  PROVE  \A c \in Q!Ids : server.at = "look" /\ server'.cmd = c /\ server'.own /\ Q!GetDueCommand =>
           \A d \in Q!Ids : Q!InList(d) /\ Q!CheckTime(d) => Q!CheckTime(c) /\ Q!DueAt(c) <= Q!DueAt(d)
<1> SUFFICES ASSUME NEW c \in Q!Ids, server.at = "look", server'.cmd = c, server'.own, Q!GetDueCommand,
                    NEW d \in Q!Ids, Q!InList(d), Q!CheckTime(d)
             PROVE  Q!CheckTime(c) /\ Q!DueAt(c) <= Q!DueAt(d)
  OBVIOUS
<1>1. CommandsTyped /\ InOrder
  BY DEF CommandsInv
<1>2. Q!Earliest(c) /\ Q!CheckTime(c)
  <2>1. ASSUME NEW e \in Q!Ids, Q!Earliest(e), Q!CheckTime(e), Q!Take(e) PROVE e = c
    BY <2>1 DEF Q!Take
  <2>2. server \in ServerKind /\ server.cmd = 0 /\ c # 0
    BY <1>1, ServerFields, CommandFields
  <2>3. Q!Serve("wait") => server'.cmd = 0
    BY <2>2 DEF Q!Serve, ServerKind
  <2> QED BY <2>1, <2>2, <2>3 DEF Q!GetDueCommand
<1> DEFINE l == command[d].list
           e == lists[l][1]
<1>3. l \in Q!Lists /\ \E i \in 1 .. Len(lists[l]) : lists[l][i] = d
  BY <1>1, CommandFields, ListFields DEF Q!InList, Q!In
<1>4. PICK i \in 1 .. Len(lists[l]) : lists[l][i] = d
  BY <1>3
<1>5. lists[l] # <<>> /\ 1 \in 1 .. Len(lists[l]) /\ Len(lists[l]) \in Nat
  BY <1>1, <1>3, <1>4, ListFields
<1>6. e \in Q!Ids /\ command[e].list = l
  BY <1>1, <1>3, <1>5, HeadInList
<1>7. (l = "stream" => m_bRunning)
  BY DEF Q!CheckTime
<1>8. e \in Q!Heads
  BY <1>3, <1>5, <1>7 DEF Q!Heads
<1>9. command[e].time <= command[d].time
  <2>1. command[d].time \in Nat
    BY <1>1, CommandFields
  <2>2. CASE i = 1
    BY <1>4, <2>1, <2>2
  <2>3. CASE i # 1
    <3>1. 1 < i
      BY <1>4, <1>5, <2>3
    <3> QED BY <1>1, <1>3, <1>4, <1>5, <3>1 DEF InOrder
  <2> QED BY <2>2, <2>3
<1>10. /\ command[e].time \in Nat /\ command[d].time \in Nat /\ command[c].time \in Nat
       /\ m_StreamTimeOffset \in Nat
  <2>1. m_StreamTimeOffset \in Offsets \cup {0}
    BY <1>1 DEF CommandsTyped
  <2>2. Offsets \cup {0} \subseteq Nat
    BY CommandConstants
  <2> QED BY <1>1, <1>6, <2>1, <2>2, CommandFields
<1> HIDE DEF e
<1>11. Q!DueAt(e) <= Q!DueAt(d)
  BY <1>6, <1>9, <1>10 DEF Q!DueAt
<1>12. Q!DueAt(c) <= Q!DueAt(e)
  <2>1. Q!DueAt(c) \in Nat /\ Q!DueAt(e) \in Nat
    BY <1>10 DEF Q!DueAt
  <2> QED BY <1>2, <1>8, <2>1 DEF Q!Earliest
<1>13. Q!DueAt(c) \in Nat /\ Q!DueAt(e) \in Nat /\ Q!DueAt(d) \in Nat
  BY <1>10 DEF Q!DueAt
<1> QED BY <1>2, <1>11, <1>12, <1>13

(***************************************************************************)
(* The enumerator of pins                                                  *)
(***************************************************************************)
PinEnumKind ==
  [at : {"none", "idle", "version", "count", "loop", "outOfSync"}, m_Position : Nat,
   m_PinCount : 0 .. MaxPins, m_Version : 0 .. MaxPinVersion, m_PinCache : SUBSET Addresses,
   want : 0 .. MaxBatch, fetched : Seq(Addresses), got : Seq(Addresses), done : BOOLEAN,
   skipped : BOOLEAN]

\* The pins that have been told of, those of the call in progress last.
Told(r) == r.got \o r.fetched

PinPlaces(r) ==
  /\ r.m_Position <= r.m_PinCount /\ Len(r.fetched) <= r.want /\ r.m_Version <= pinVersion
  /\ r.at # "loop" => r.fetched = <<>>
  /\ r.done => r.at = "idle" /\ r.m_PinCount <= r.m_Position

\* They differ, and are those of the cache.
PinOnce(r) ==
  /\ \A i, j \in 1 .. Len(Told(r)) : Told(r)[i] = Told(r)[j] => i = j
  /\ \A i \in 1 .. Len(Told(r)) : Told(r)[i] \in r.m_PinCache
  /\ r.at # "outOfSync" => \A x \in r.m_PinCache : \E i \in 1 .. Len(Told(r)) : Told(r)[i] = x

\* In sync, the pins up to the position are among them.
PinSeen(r) ==
  r.m_Version = pinVersion /\ ~pinPending /\ r.at \in {"idle", "loop"} =>
    /\ r.m_PinCount = Len(pins)
    /\ ~r.skipped => \A n \in 1 .. r.m_Position : pins[n] \in r.m_PinCache

PinListed ==
  /\ pins \in Seq(Addresses) /\ Len(pins) <= MaxPins
  /\ pinVersion \in 1 .. MaxPinVersion /\ pinPending \in BOOLEAN
  /\ pinPending => pinVersion < MaxPinVersion

PinGood(r) == r \in PinEnumKind /\ PinPlaces(r) /\ PinOnce(r) /\ PinSeen(r)

PinsInv ==
  /\ PinListed /\ DOMAIN pe = N!Enums /\ pe = [e \in N!Enums |-> pe[e]]
  /\ \A e \in N!Enums : PinGood(pe[e])

-----------------------------------------------------------------------------
LEMMA PinConstants ==
  /\ MaxPins \in Nat /\ MaxPinVersion \in Nat \ {0} /\ MaxBatch \in Nat
  /\ \A s \in FirstPins : s \in Seq(Addresses) /\ Len(s) <= MaxPins
BY ServicesAssumption DEF N!PinEnumeratorAssumption

LEMMA PinFields ==
  ASSUME NEW r \in PinEnumKind
  PROVE  /\ r.at \in {"none", "idle", "version", "count", "loop", "outOfSync"}
         /\ r.m_Position \in Nat /\ r.m_PinCount \in 0 .. MaxPins /\ r.m_PinCount \in Nat
         /\ r.m_Version \in Nat
         /\ r.m_PinCache \subseteq Addresses /\ r.want \in 0 .. MaxBatch /\ r.want \in Nat
         /\ r.fetched \in Seq(Addresses) /\ r.got \in Seq(Addresses)
         /\ r.done \in BOOLEAN /\ r.skipped \in BOOLEAN
         /\ Len(r.fetched) \in Nat /\ Len(r.got) \in Nat
<1>1. /\ r.at \in {"none", "idle", "version", "count", "loop", "outOfSync"}
      /\ r.m_Position \in Nat /\ r.m_PinCount \in 0 .. MaxPins
      /\ r.m_Version \in 0 .. MaxPinVersion
      /\ r.m_PinCache \subseteq Addresses /\ r.want \in 0 .. MaxBatch
      /\ r.fetched \in Seq(Addresses) /\ r.got \in Seq(Addresses)
      /\ r.done \in BOOLEAN /\ r.skipped \in BOOLEAN
  BY DEF PinEnumKind
<1>2. r.m_PinCount \in Nat /\ r.m_Version \in Nat /\ r.want \in Nat
  BY <1>1, PinConstants
<1>3. Len(r.fetched) \in Nat /\ Len(r.got) \in Nat
  BY <1>1
<1> QED BY <1>1, <1>2, <1>3

LEMMA PinTold ==
  ASSUME NEW r \in PinEnumKind
  PROVE  /\ Told(r) \in Seq(Addresses) /\ Len(Told(r)) = Len(r.got) + Len(r.fetched)
         /\ Len(Told(r)) \in Nat
         /\ \A i \in 1 .. Len(r.got) : i \in 1 .. Len(Told(r)) /\ Told(r)[i] = r.got[i]
         /\ r.fetched = <<>> => Told(r) = r.got
<1>1. r.fetched \in Seq(Addresses) /\ r.got \in Seq(Addresses)
      /\ Len(r.fetched) \in Nat /\ Len(r.got) \in Nat
  BY PinFields
<1> DEFINE g == r.got
           x == r.fetched
<1> HIDE DEF g, x
<1>2. /\ g \o x \in Seq(Addresses) /\ Len(g \o x) = Len(g) + Len(x)
      /\ \A i \in 1 .. Len(g) + Len(x) : (g \o x)[i] = IF i <= Len(g) THEN g[i] ELSE x[i - Len(g)]
  BY <1>1, ConcatProperties DEF g, x
<1>3. Len(g \o x) \in Nat /\ \A i \in 1 .. Len(g) : i \in 1 .. Len(g \o x) /\ (g \o x)[i] = g[i]
  <2>1. Len(g) \in Nat /\ Len(x) \in Nat
    BY <1>1 DEF g, x
  <2> QED BY <1>2, <2>1
<1>4. x = <<>> => g \o x = g
  BY <1>1, ConcatEmptySeq DEF g, x
<1> QED BY <1>2, <1>3, <1>4 DEF Told, g, x

\* A step of an enumerator that keeps what is asked of it.
LEMMA PinStepped ==
  ASSUME PinsInv, NEW e \in N!Enums, NEW r, N!PinStep(e, r), PinGood(r)
  PROVE  PinsInv'
<1>1. /\ pe' = [pe EXCEPT ![e] = r]
      /\ UNCHANGED <<pins, pinVersion, pinPending>>
  BY DEF N!PinStep
<1>2. DOMAIN pe' = N!Enums /\ pe' = [d \in N!Enums |-> pe'[d]]
  BY <1>1 DEF PinsInv
<1>3. PinListed'
  BY <1>1 DEF PinsInv, PinListed
<1>4. ASSUME NEW d \in N!Enums PROVE PinGood(pe[d])'
  <2>1. pe'[d] = IF d = e THEN r ELSE pe[d]
    BY <1>1 DEF PinsInv
  <2>2. PinGood(pe'[d])
    BY <2>1 DEF PinsInv
  <2> QED BY <1>1, <2>2 DEF PinGood, PinPlaces, PinOnce, PinSeen
<1> QED BY <1>2, <1>3, <1>4 DEF PinsInv

\* A change of the list, or of its version.
LEMMA PinsListed ==
  ASSUME PinsInv, pe' = pe, PinListed', pinVersion' >= pinVersion,
         pinPending' \/ pinVersion' > pinVersion
         \/ (pins' = pins /\ pinVersion' = pinVersion /\ pinPending' = pinPending)
  PROVE  PinsInv'
<1>1. ASSUME NEW e \in N!Enums PROVE PinGood(pe[e])'
  <2>1. PinGood(pe[e]) /\ pe'[e] = pe[e]
    BY DEF PinsInv
  <2>2. pe[e].m_Version \in Nat /\ pinVersion \in Nat /\ pinVersion' \in Nat
    <3>1. pe[e] \in PinEnumKind
      BY <2>1 DEF PinGood
    <3>2. pinVersion \in Nat
      BY PinConstants DEF PinsInv, PinListed
    <3>3. pinVersion' \in Nat
      BY PinConstants DEF PinListed
    <3> QED BY <3>1, <3>2, <3>3, PinFields
  <2>3. PinPlaces(pe[e])'
    BY <2>1, <2>2 DEF PinGood, PinPlaces
  <2>4. PinOnce(pe[e])'
    BY <2>1 DEF PinGood, PinOnce
  <2>5. PinSeen(pe[e])'
    BY <2>1, <2>2 DEF PinGood, PinPlaces, PinSeen
  <2> QED BY <2>1, <2>3, <2>4, <2>5 DEF PinGood
<1> QED BY <1>1 DEF PinsInv

LEMMA PinsChange ==
  ASSUME PinsInv, N!AddPin \/ N!RemovePin \/ N!IncrementPinVersion PROVE PinsInv'
<1>0. PinListed /\ pinVersion \in Nat /\ Len(pins) \in Nat
  BY PinConstants DEF PinsInv, PinListed
<1>1. CASE N!AddPin
  <2>1. PICK x \in Addresses : pins' = Append(pins, x)
    BY <1>1 DEF N!AddPin
  <2>2. /\ ~pinPending /\ pinVersion < MaxPinVersion /\ Len(pins) < MaxPins /\ pinPending' = TRUE
        /\ UNCHANGED <<pinVersion, pe>>
    BY <1>1 DEF N!AddPin
  <2>3. pins' \in Seq(Addresses) /\ Len(pins') = Len(pins) + 1
    BY <1>0, <2>1 DEF PinListed
  <2>4. PinListed'
    <3>1. Len(pins') <= MaxPins
      BY <1>0, <2>2, <2>3, PinConstants
    <3> QED BY <1>0, <2>1, <2>2, <2>3, <3>1 DEF PinListed
  <2> QED BY <1>0, <2>2, <2>4, PinsListed
<1>2. CASE N!RemovePin
  <2>1. PICK n \in DOMAIN pins : pins' = N!RemoveAt(pins, n)
    BY <1>2 DEF N!RemovePin
  <2>2. /\ ~pinPending /\ pinVersion < MaxPinVersion /\ pinPending' = TRUE
        /\ UNCHANGED <<pinVersion, pe>>
    BY <1>2 DEF N!RemovePin
  <2>3. n \in 1 .. Len(pins) /\ pins[n] \in Addresses
    BY <1>0, <2>1, ElementOfSeq DEF PinListed
  <2>4. pins' = RemovedAt(pins, n)
    BY <2>1 DEF N!RemoveAt, RemovedAt
  <2>5. pins' \in Seq(Addresses) /\ Len(pins') = Len(pins) - 1
    BY <1>0, <2>3, <2>4, RemoveAtIs DEF PinListed
  <2>6. PinListed'
    <3>1. Len(pins') <= MaxPins
      BY <1>0, <2>5, PinConstants DEF PinListed
    <3> QED BY <1>0, <2>1, <2>2, <2>3, <2>5, <3>1 DEF PinListed
  <2> QED BY <1>0, <2>2, <2>6, PinsListed
<1>3. CASE N!IncrementPinVersion
  <2>1. pinPending /\ pinVersion' = pinVersion + 1 /\ pinPending' = FALSE /\ UNCHANGED <<pins, pe>>
    BY <1>3 DEF N!IncrementPinVersion
  <2>2. PinListed'
    <3>1. pinVersion' \in 1 .. MaxPinVersion
      BY <1>0, <2>1, PinConstants DEF PinListed
    <3> QED BY <1>0, <2>1, <3>1 DEF PinListed
  <2>3. pinVersion' > pinVersion /\ pinVersion' >= pinVersion
    BY <1>0, <2>1
  <2> QED BY <2>1, <2>2, <2>3, PinsListed
<1> QED BY <1>1, <1>2, <1>3

\* An enumerator that begins again, and one that is released.
LEMMA PinNone ==
  ASSUME PinListed, NEW r, r = N!NoEnum \/ r = [N!NoEnum EXCEPT !.at = "version"]
  PROVE  PinGood(r)
<1>1. /\ r.at \in {"none", "version"} /\ r.m_Position = 0 /\ r.m_PinCount = 0 /\ r.m_Version = 0
      /\ r.m_PinCache = {} /\ r.want = 0 /\ r.fetched = <<>> /\ r.got = <<>> /\ r.done = FALSE
      /\ r \in PinEnumKind
  <2>1. 0 \in 0 .. MaxPins /\ 0 \in 0 .. MaxPinVersion /\ 0 \in 0 .. MaxBatch
    BY PinConstants
  <2>2. <<>> \in Seq(Addresses) /\ {} \in SUBSET Addresses
    OBVIOUS
  <2>3. CASE r = N!NoEnum
    BY <2>1, <2>2, <2>3 DEF N!NoEnum, PinEnumKind
  <2>4. CASE r = [N!NoEnum EXCEPT !.at = "version"]
    BY <2>1, <2>2, <2>4 DEF N!NoEnum, PinEnumKind
  <2> QED BY <2>3, <2>4
<1>2. Told(r) = <<>> /\ Len(Told(r)) = 0
  BY <1>1 DEF Told
<1>3. PinPlaces(r)
  BY <1>1, PinConstants DEF PinPlaces, PinListed
<1>4. PinOnce(r)
  BY <1>1, <1>2 DEF PinOnce
<1>5. PinSeen(r)
  BY <1>1 DEF PinSeen
<1> QED BY <1>1, <1>3, <1>4, <1>5 DEF PinGood

LEMMA PinsBegin ==
  ASSUME PinsInv, NEW e \in N!Enums, N!NewPins(e) \/ N!ResetPins(e) \/ N!ReleasePins(e)
  PROVE  PinsInv'
<1>1. CASE N!PinStep(e, N!NoEnum)
  BY <1>1, PinNone, PinStepped DEF PinsInv
<1>2. CASE N!PinStep(e, [N!NoEnum EXCEPT !.at = "version"])
  BY <1>2, PinNone, PinStepped DEF PinsInv
<1> QED BY <1>1, <1>2 DEF N!NewPins, N!ResetPins, N!ReleasePins

LEMMA PinsClone ==
  ASSUME PinsInv, NEW e \in N!Enums, NEW d \in N!Enums, N!ClonePins(e, d) PROVE PinsInv'
BY PinStepped DEF N!ClonePins, PinsInv

LEMMA PinsRefresh ==
  ASSUME PinsInv, NEW e \in N!Enums, N!Refresh(e) PROVE PinsInv'
<1> DEFINE r == pe[e]
<1>0. PinGood(r) /\ PinListed /\ pinVersion \in 0 .. MaxPinVersion /\ Len(pins) \in 0 .. MaxPins
  BY PinConstants DEF PinsInv, PinListed
<1>1. CASE r.at = "version" /\ N!PinStep(e, [r EXCEPT !.m_Version = pinVersion, !.at = "count"])
  <2> DEFINE q == [r EXCEPT !.m_Version = pinVersion, !.at = "count"]
  <2>1. /\ q \in PinEnumKind /\ q.at = "count" /\ q.m_Version = pinVersion
        /\ q.m_Position = r.m_Position /\ q.m_PinCount = r.m_PinCount /\ q.want = r.want
        /\ q.m_PinCache = r.m_PinCache /\ q.fetched = r.fetched /\ q.got = r.got /\ q.done = r.done
    BY <1>0 DEF PinGood, PinEnumKind
  <2> HIDE DEF q
  <2>2. PinPlaces(q)
    BY <1>0, <1>1, <2>1 DEF PinGood, PinPlaces
  <2>3. PinOnce(q)
    <3>1. Told(q) = Told(r)
      BY <2>1 DEF Told
    <3> QED BY <1>0, <1>1, <2>1, <3>1 DEF PinGood, PinOnce
  <2>4. PinSeen(q)
    BY <2>1 DEF PinSeen
  <2> QED BY <1>1, <2>1, <2>2, <2>3, <2>4, PinStepped DEF PinGood, q
<1>2. CASE /\ r.at = "count"
           /\ N!PinStep(e, [r EXCEPT !.m_PinCount = Len(pins), !.m_Position = 0,
                                     !.at = IF r.want = 0 THEN "idle" ELSE "loop"])
  <2> DEFINE q == [r EXCEPT !.m_PinCount = Len(pins), !.m_Position = 0,
                            !.at = IF r.want = 0 THEN "idle" ELSE "loop"]
  <2>1. /\ q \in PinEnumKind /\ q.at = (IF r.want = 0 THEN "idle" ELSE "loop") /\ q.m_Version = r.m_Version
        /\ q.m_Position = 0 /\ q.m_PinCount = Len(pins) /\ q.want = r.want
        /\ q.m_PinCache = r.m_PinCache /\ q.fetched = r.fetched /\ q.got = r.got /\ q.done = r.done
    BY <1>0 DEF PinGood, PinEnumKind
  <2> HIDE DEF q
  <2>2. PinPlaces(q)
    BY <1>0, <1>2, <2>1 DEF PinGood, PinPlaces
  <2>3. PinOnce(q)
    <3>1. Told(q) = Told(r)
      BY <2>1 DEF Told
    <3> QED BY <1>0, <1>2, <2>1, <3>1 DEF PinGood, PinOnce
  <2>4. PinSeen(q)
    BY <2>1 DEF PinSeen
  <2> QED BY <1>2, <2>1, <2>2, <2>3, <2>4, PinStepped DEF PinGood, q
<1> QED BY <1>1, <1>2 DEF N!Refresh

LEMMA PinsNext ==
  ASSUME PinsInv, NEW e \in N!Enums, NEW n \in 1 .. MaxBatch, N!NextPins(e, n) \/ N!SkipPins(e, n)
  PROVE  PinsInv'
<1> DEFINE r == pe[e]
<1>0. PinGood(r) /\ PinListed /\ n \in 0 .. MaxBatch /\ n \in Nat /\ r.at = "idle"
  BY PinConstants DEF PinsInv, N!NextPins, N!SkipPins
<1>f. r.m_Position \in Nat /\ r.m_PinCount \in Nat /\ r.skipped \in BOOLEAN /\ r.fetched = <<>>
  BY <1>0, PinFields DEF PinGood, PinPlaces
<1>1. CASE N!NextPins(e, n)
  <2> DEFINE q == [r EXCEPT !.want = n, !.done = FALSE,
                            !.at = IF N!AreWeOutOfSync(r) THEN "version" ELSE "loop"]
  <2>1. /\ q \in PinEnumKind /\ q.at = (IF N!AreWeOutOfSync(r) THEN "version" ELSE "loop")
        /\ q.m_Version = r.m_Version /\ q.skipped = r.skipped
        /\ q.m_Position = r.m_Position /\ q.m_PinCount = r.m_PinCount /\ q.want = n
        /\ q.m_PinCache = r.m_PinCache /\ q.fetched = r.fetched /\ q.got = r.got /\ q.done = FALSE
    BY <1>0 DEF PinGood, PinEnumKind
  <2>5. N!PinStep(e, q)
    BY <1>1 DEF N!NextPins
  <2> HIDE DEF q
  <2>6. Len(<<>>) = 0
    OBVIOUS
  <2>2. PinPlaces(q)
    BY <1>0, <1>f, <2>1, <2>6 DEF PinGood, PinPlaces
  <2>3. PinOnce(q)
    <3>1. Told(q) = Told(r)
      BY <2>1 DEF Told
    <3> QED BY <1>0, <2>1, <3>1 DEF PinGood, PinOnce
  <2>4. PinSeen(q)
    BY <1>0, <2>1 DEF PinGood, PinSeen
  <2> QED BY <2>1, <2>2, <2>3, <2>4, <2>5, PinStepped DEF PinGood
<1>2. CASE N!SkipPins(e, n)
  <2> DEFINE q == [r EXCEPT !.m_Position = r.m_Position + n, !.skipped = TRUE]
  <2>0. r.m_Position + n \in Nat /\ r.m_Position + n <= r.m_PinCount
    BY <1>0, <1>f, <1>2 DEF N!SkipPins
  <2>1. /\ q \in PinEnumKind /\ q.at = r.at
        /\ q.m_Version = r.m_Version /\ q.skipped = TRUE
        /\ q.m_Position = r.m_Position + n /\ q.m_PinCount = r.m_PinCount /\ q.want = r.want
        /\ q.m_PinCache = r.m_PinCache /\ q.fetched = r.fetched /\ q.got = r.got /\ q.done = r.done
    BY <1>0, <2>0 DEF PinGood, PinEnumKind
  <2>5. N!PinStep(e, q)
    BY <1>0, <1>2 DEF N!SkipPins, PinGood, PinEnumKind
  <2> HIDE DEF q
  <2>2. PinPlaces(q)
    BY <1>0, <1>f, <2>0, <2>1 DEF PinGood, PinPlaces
  <2>3. PinOnce(q)
    <3>1. Told(q) = Told(r)
      BY <2>1 DEF Told
    <3> QED BY <1>0, <2>1, <3>1 DEF PinGood, PinOnce
  <2>4. PinSeen(q)
    BY <1>0, <2>1 DEF PinGood, PinSeen
  <2> QED BY <2>1, <2>2, <2>3, <2>4, <2>5, PinStepped DEF PinGood
<1> QED BY <1>1, <1>2

\* The rest of the list is met one pin after the other.
LEMMA PinsFetch ==
  ASSUME PinsInv, NEW e \in N!Enums, N!FetchPin(e) PROVE PinsInv'
<1> DEFINE r == pe[e]
           n == r.m_Position + 1
<1>0. PinGood(r) /\ PinListed /\ Len(pins) \in Nat /\ Len(pins) <= MaxPins /\ pins \in Seq(Addresses)
      /\ pinVersion \in Nat
  BY PinConstants DEF PinsInv, PinListed
<1>1. r.at = "loop" /\ Len(r.fetched) < r.want /\ r.m_Position < r.m_PinCount
  BY DEF N!FetchPin, N!More
<1>f. /\ r.m_Position \in Nat /\ r.m_PinCount \in Nat /\ r.skipped \in BOOLEAN /\ n \in Nat /\ n # 0
      /\ n <= r.m_PinCount /\ r.want \in Nat /\ Len(r.fetched) \in Nat /\ Len(r.got) \in Nat
      /\ r.fetched \in Seq(Addresses) /\ r.got \in Seq(Addresses) /\ r.m_PinCache \subseteq Addresses
      /\ Told(r) \in Seq(Addresses) /\ Len(Told(r)) = Len(r.got) + Len(r.fetched)
      /\ r.done = FALSE /\ PinPlaces(r) /\ PinOnce(r)
  <2>1. r \in PinEnumKind /\ PinPlaces(r) /\ PinOnce(r)
    BY <1>0 DEF PinGood
  <2>2. /\ r.m_Position \in Nat /\ r.m_PinCount \in Nat /\ r.skipped \in BOOLEAN
        /\ r.want \in Nat /\ Len(r.fetched) \in Nat /\ Len(r.got) \in Nat
        /\ r.fetched \in Seq(Addresses) /\ r.got \in Seq(Addresses) /\ r.m_PinCache \subseteq Addresses
        /\ r.done \in BOOLEAN
    BY <2>1, PinFields
  <2>3. Told(r) \in Seq(Addresses) /\ Len(Told(r)) = Len(r.got) + Len(r.fetched)
    BY <2>1, PinTold
  <2>4. n \in Nat /\ n # 0 /\ n <= r.m_PinCount
    BY <1>1, <2>2
  <2>5. r.done = FALSE
    BY <1>1, <2>1, <2>2 DEF PinPlaces
  <2> QED BY <2>1, <2>2, <2>3, <2>4, <2>5
<1>2. CASE n > Len(pins)
  <2> DEFINE q == [r EXCEPT !.m_Position = n, !.at = "outOfSync", !.want = 0, !.fetched = <<>>]
  <2>0. 0 \in 0 .. MaxBatch /\ <<>> \in Seq(Addresses) /\ Len(<<>>) = 0
    BY PinConstants
  <2>1. /\ q \in PinEnumKind /\ q.at = "outOfSync" /\ q.m_Version = r.m_Version
        /\ q.m_Position = n /\ q.m_PinCount = r.m_PinCount /\ q.want = 0
        /\ q.m_PinCache = r.m_PinCache /\ q.fetched = <<>> /\ q.got = r.got /\ q.done = r.done
    BY <1>0, <1>f, <2>0 DEF PinGood, PinEnumKind
  <2>5. N!PinStep(e, q)
    BY <1>2 DEF N!FetchPin
  <2> HIDE DEF q
  <2>2. PinPlaces(q)
    BY <1>f, <2>0, <2>1 DEF PinPlaces
  <2>3. PinOnce(q)
    <3>1. Told(q) = r.got
      BY <1>f, <2>1, ConcatEmptySeq DEF Told
    <3>2. \A i \in 1 .. Len(r.got) : i \in 1 .. Len(Told(r)) /\ Told(r)[i] = r.got[i]
      BY <1>0, PinTold DEF PinGood
    <3>3. \A i, j \in 1 .. Len(r.got) : r.got[i] = r.got[j] => i = j
      BY <1>f, <3>2 DEF PinOnce
    <3>4. \A i \in 1 .. Len(r.got) : r.got[i] \in r.m_PinCache
      BY <1>f, <3>2 DEF PinOnce
    <3> QED BY <2>1, <3>1, <3>3, <3>4 DEF PinOnce
  <2>4. PinSeen(q)
    BY <2>1 DEF PinSeen
  <2> QED BY <2>1, <2>2, <2>3, <2>4, <2>5, PinStepped DEF PinGood
<1>3. CASE ~(n > Len(pins))
  <2> DEFINE x == pins[n]
             more == IF x \in r.m_PinCache THEN r.fetched ELSE Append(r.fetched, x)
             q == [r EXCEPT !.m_Position = n, !.fetched = more, !.m_PinCache = r.m_PinCache \cup {x}]
  <2>0. x \in Addresses /\ n \in 1 .. Len(pins)
    BY <1>0, <1>f, <1>3, ElementOfSeq
  <2>m. more \in Seq(Addresses) /\ Len(more) <= r.want
        /\ (x \notin r.m_PinCache => more = Append(r.fetched, x))
        /\ (x \in r.m_PinCache => more = r.fetched)
    <3>1. Append(r.fetched, x) \in Seq(Addresses) /\ Len(Append(r.fetched, x)) = Len(r.fetched) + 1
      BY <1>f, <2>0
    <3>2. Len(Append(r.fetched, x)) <= r.want /\ Len(r.fetched) <= r.want
      BY <1>1, <1>f, <3>1
    <3> QED BY <1>f, <3>1, <3>2
  <2>p. N!PinStep(e, q)
    <3>1. N!PinStep(e, [r EXCEPT !.m_Position = n,
               !.fetched = IF pins[n] \in r.m_PinCache THEN @ ELSE Append(@, pins[n]),
               !.m_PinCache = @ \cup {pins[n]}])
      BY <1>3 DEF N!FetchPin
    <3> QED BY <3>1, <1>0 DEF PinGood, PinEnumKind
  <2> HIDE DEF more
  <2>1. /\ q \in PinEnumKind /\ q.at = "loop" /\ q.m_Version = r.m_Version
        /\ q.m_Position = n /\ q.m_PinCount = r.m_PinCount /\ q.want = r.want /\ q.skipped = r.skipped
        /\ q.m_PinCache = r.m_PinCache \cup {x} /\ q.fetched = more /\ q.got = r.got /\ q.done = r.done
    BY <1>0, <1>1, <1>f, <2>0, <2>m DEF PinGood, PinEnumKind
  <2> HIDE DEF q
  <2>2. PinPlaces(q)
    BY <1>f, <2>m, <2>1 DEF PinPlaces
  <2>3. PinOnce(q)
    <3>1. CASE x \in r.m_PinCache
      <4>1. q.m_PinCache = r.m_PinCache /\ Told(q) = Told(r)
        BY <2>1, <2>m, <3>1 DEF Told
      <4>2. PinOnce(r) /\ q.at = "loop" /\ r.at = "loop"
        BY <1>f, <1>1, <2>1
      <4> QED BY <4>1, <4>2 DEF PinOnce
    <3>2. CASE x \notin r.m_PinCache
      <4>1. /\ Len(Told(q)) = Len(Told(r)) + 1 /\ Told(q)[Len(Told(r)) + 1] = x
            /\ \A i \in 1 .. Len(Told(r)) : Told(q)[i] = Told(r)[i]
        <5> DEFINE g == r.got
                   y == r.fetched
        <5> HIDE DEF g, y, x
        <5>1. Told(q) = g \o Append(y, x) /\ Told(r) = g \o y
          BY <2>1, <2>m, <3>2 DEF Told, g, y
        <5>2. g \in Seq(Addresses) /\ y \in Seq(Addresses) /\ x \in Addresses
          BY <1>f, <2>0 DEF g, y
        <5>3. g \o Append(y, x) = Append(g \o y, x)
          BY <5>2
        <5>4. g \o y \in Seq(Addresses)
          BY <5>2
        <5> DEFINE t == g \o y
        <5> HIDE DEF t
        <5>5. /\ Len(Append(t, x)) = Len(t) + 1 /\ Append(t, x)[Len(t) + 1] = x
              /\ \A i \in 1 .. Len(t) : Append(t, x)[i] = t[i]
          BY <5>2, <5>4 DEF t
        <5> QED BY <5>1, <5>3, <5>5 DEF t
      <4>2. \A i \in 1 .. Len(Told(r)) : Told(r)[i] \in r.m_PinCache /\ Told(r)[i] # x
        BY <1>f, <3>2 DEF PinOnce
      <4> DEFINE m == Len(Told(r))
      <4>3. m \in Nat /\ Len(Told(q)) = m + 1 /\ \A i \in 1 .. (m + 1) : i \in 1 .. m \/ i = m + 1
        <5>1. m \in Nat
          BY <1>0, PinTold DEF PinGood
        <5>2. Len(Told(q)) = m + 1
          BY <4>1
        <5> HIDE DEF m
        <5> QED BY <5>1, <5>2
      <4>4. \A i, j \in 1 .. m : Told(r)[i] = Told(r)[j] => i = j
        BY <1>f DEF PinOnce
      <4>5. r.at # "outOfSync"
        BY <1>1
      <4>6. \A y \in r.m_PinCache : \E i \in 1 .. m : Told(r)[i] = y
        BY <1>f, <4>5 DEF PinOnce
      <4>10. \A i \in 1 .. m : i \in 1 .. (m + 1)
        BY <4>3
      <4>11. m + 1 \in 1 .. (m + 1)
        BY <4>3
      <4>12. Told(q)[m + 1] = x /\ \A i \in 1 .. m : Told(q)[i] = Told(r)[i]
        BY <4>1
      <4> HIDE DEF m, x
      <4>7. \A i, j \in 1 .. Len(Told(q)) : Told(q)[i] = Told(q)[j] => i = j
        BY <4>2, <4>3, <4>4, <4>12 DEF m
      <4>8. \A i \in 1 .. Len(Told(q)) : Told(q)[i] \in q.m_PinCache
        BY <2>1, <4>2, <4>3, <4>12 DEF m
      <4>9. \A y \in q.m_PinCache : \E i \in 1 .. Len(Told(q)) : Told(q)[i] = y
        <5> SUFFICES ASSUME NEW y \in q.m_PinCache PROVE \E i \in 1 .. (m + 1) : Told(q)[i] = y
          BY <4>3
        <5>1. CASE y = x
          BY <4>11, <4>12, <5>1
        <5>2. CASE y \in r.m_PinCache
          <6>1. PICK i \in 1 .. m : Told(r)[i] = y
            BY <4>6, <5>2
          <6>2. i \in 1 .. (m + 1) /\ Told(q)[i] = y
            BY <4>10, <4>12, <6>1
          <6> QED BY <6>2
        <5> QED BY <2>1, <5>1, <5>2
      <4> QED BY <4>7, <4>8, <4>9 DEF PinOnce
    <3> QED BY <3>1, <3>2
  <2>4. PinSeen(q)
    <3> SUFFICES ASSUME q.m_Version = pinVersion, ~pinPending
                 PROVE  /\ q.m_PinCount = Len(pins)
                        /\ ~q.skipped => \A k \in 1 .. q.m_Position : pins[k] \in q.m_PinCache
      BY DEF PinSeen
    <3>1. /\ r.m_PinCount = Len(pins)
          /\ ~r.skipped => \A k \in 1 .. r.m_Position : pins[k] \in r.m_PinCache
      BY <1>0, <1>1, <2>1 DEF PinGood, PinSeen
    <3>2. \A k \in 1 .. n : k \in 1 .. r.m_Position \/ k = n
      BY <1>f
    <3> QED BY <2>1, <3>1, <3>2
  <2> QED BY <2>1, <2>2, <2>3, <2>4, <2>p, PinStepped DEF PinGood
<1> QED BY <1>2, <1>3

LEMMA PinsReturn ==
  ASSUME PinsInv, NEW e \in N!Enums, N!ReturnPins(e) PROVE PinsInv'
<1> DEFINE r == pe[e]
           end == Len(r.fetched) < r.want
           q == [r EXCEPT !.at = "idle", !.want = 0, !.fetched = <<>>, !.got = Told(r), !.done = end]
<1>0. PinGood(r) /\ PinListed
  BY DEF PinsInv
<1>1. r.at = "loop" /\ (end => r.m_PinCount <= r.m_Position)
  <2>1. r \in PinEnumKind
    BY <1>0 DEF PinGood
  <2>2. r.m_Position \in Nat /\ r.m_PinCount \in Nat
    BY <2>1, PinFields
  <2>3. r.at = "loop" /\ ~(end /\ r.m_Position < r.m_PinCount)
    BY DEF N!ReturnPins, N!More
  <2> QED BY <2>2, <2>3
<1>f. /\ Told(r) \in Seq(Addresses) /\ PinPlaces(r) /\ PinOnce(r) /\ end \in BOOLEAN
  <2>1. r \in PinEnumKind /\ PinPlaces(r) /\ PinOnce(r)
    BY <1>0 DEF PinGood
  <2>2. Told(r) \in Seq(Addresses)
    BY <2>1, PinTold
  <2> QED BY <2>1, <2>2
<1>2. N!PinStep(e, q)
  BY <1>0 DEF N!ReturnPins, Told, PinGood, PinEnumKind
<1> HIDE DEF end
<1>3. 0 \in 0 .. MaxBatch /\ <<>> \in Seq(Addresses) /\ Len(<<>>) = 0
  BY PinConstants
<1>4. /\ q \in PinEnumKind /\ q.at = "idle" /\ q.m_Version = r.m_Version
      /\ q.m_Position = r.m_Position /\ q.m_PinCount = r.m_PinCount /\ q.want = 0 /\ q.skipped = r.skipped
      /\ q.m_PinCache = r.m_PinCache /\ q.fetched = <<>> /\ q.got = Told(r) /\ q.done = end
  BY <1>0, <1>f, <1>3 DEF PinGood, PinEnumKind
<1> HIDE DEF q
<1>5. Told(q) = Told(r)
  <2>1. Told(q) = Told(r) \o <<>>
    BY <1>4 DEF Told
  <2> QED BY <1>f, <2>1, ConcatEmptySeq
<1>6. PinPlaces(q)
  BY <1>1, <1>3, <1>4, <1>f DEF PinPlaces
<1>7. PinOnce(q)
  BY <1>1, <1>4, <1>5, <1>f DEF PinOnce
<1>8. PinSeen(q)
  BY <1>0, <1>1, <1>4 DEF PinSeen, PinGood
<1> QED BY <1>2, <1>4, <1>6, <1>7, <1>8, PinStepped DEF PinGood

LEMMA PinsStart ==
  ASSUME N!Init PROVE PinsInv
<1>1. PinListed
  <2>1. pins \in Seq(Addresses) /\ Len(pins) <= MaxPins
    BY PinConstants DEF N!Init
  <2>2. pinVersion \in 1 .. MaxPinVersion
    BY PinConstants DEF N!Init
  <2> QED BY <2>1, <2>2 DEF N!Init, PinListed
<1>2. pe = [e \in N!Enums |-> N!NoEnum]
  BY DEF N!Init
<1> QED BY <1>1, <1>2, PinNone DEF PinsInv

LEMMA PinsStep ==
  ASSUME PinsInv, N!Next \/ UNCHANGED pinEnums PROVE PinsInv'
<1>1. CASE UNCHANGED pinEnums
  <2>1. PinListed' /\ pe' = pe /\ pins' = pins /\ pinVersion' = pinVersion /\ pinPending' = pinPending
    BY <1>1 DEF pinEnums, PinsInv, PinListed
  <2>2. pinVersion \in Nat
    BY PinConstants DEF PinsInv, PinListed
  <2> QED BY <2>1, <2>2, PinsListed
<1>2. CASE N!NewPins(1) \/ N!ClonePins(1, 2)
  <2>1. 1 \in N!Enums /\ 2 \in N!Enums
    BY DEF N!Enums
  <2> QED BY <1>2, <2>1, PinsBegin, PinsClone
<1>3. ASSUME NEW e \in N!Enums,
             \/ N!ResetPins(e) \/ N!ReleasePins(e) \/ N!Refresh(e)
             \/ N!FetchPin(e) \/ N!ReturnPins(e)
             \/ \E n \in 1 .. MaxBatch : N!NextPins(e, n) \/ N!SkipPins(e, n)
      PROVE  PinsInv'
  BY <1>3, PinsBegin, PinsRefresh, PinsFetch, PinsReturn, PinsNext
<1> QED BY <1>1, <1>2, <1>3, PinsChange DEF N!Next

\* No pin is told of twice, and none is missed.
LEMMA PinsOnce ==
  ASSUME PinsInv PROVE N!NoPinTwice /\ N!NoPinMissed
<1>1. ASSUME NEW e \in N!Enums
      PROVE  /\ \A i, j \in DOMAIN pe[e].got : pe[e].got[i] = pe[e].got[j] => i = j
             /\ pe[e].done => \A x \in pe[e].m_PinCache : \E i \in DOMAIN pe[e].got : pe[e].got[i] = x
  <2> DEFINE r == pe[e]
  <2>1. PinGood(r)
    BY DEF PinsInv
  <2>2. /\ r.got \in Seq(Addresses) /\ r.fetched \in Seq(Addresses) /\ Len(r.got) \in Nat
        /\ Len(r.fetched) \in Nat /\ Len(Told(r)) = Len(r.got) + Len(r.fetched)
        /\ DOMAIN r.got = 1 .. Len(r.got)
    <3>1. r \in PinEnumKind
      BY <2>1 DEF PinGood
    <3>2. r.got \in Seq(Addresses) /\ r.fetched \in Seq(Addresses) /\ Len(r.got) \in Nat
          /\ Len(r.fetched) \in Nat /\ Len(Told(r)) = Len(r.got) + Len(r.fetched)
      BY <3>1, PinFields, PinTold
    <3> QED BY <3>2
  <2>3. \A i \in 1 .. Len(r.got) : i \in 1 .. Len(Told(r)) /\ Told(r)[i] = r.got[i]
    BY <2>1, PinTold DEF PinGood
  <2>4. \A i, j \in DOMAIN r.got : r.got[i] = r.got[j] => i = j
    BY <2>1, <2>2, <2>3 DEF PinGood, PinOnce
  <2>5. r.done => r.at = "idle" /\ r.fetched = <<>>
    BY <2>1 DEF PinGood, PinPlaces
  <2>6. r.done => Told(r) = r.got
    BY <2>1, <2>5, PinTold DEF PinGood
  <2> QED BY <2>1, <2>2, <2>4, <2>5, <2>6 DEF PinGood, PinOnce
<1>2. N!NoPinTwice
  BY <1>1 DEF N!NoPinTwice, N!IsInjective
<1>3. ASSUME NEW e \in N!Enums, pe[e].done, ~pe[e].skipped, ~N!AreWeOutOfSync(pe[e]), ~pinPending
      PROVE  N!ToSet(pins) \subseteq N!ToSet(pe[e].got)
  <2> DEFINE r == pe[e]
  <2>1. PinGood(r) /\ pins \in Seq(Addresses) /\ DOMAIN pins = 1 .. Len(pins) /\ Len(pins) \in Nat
    BY DEF PinsInv, PinListed
  <2>2. r.m_Position \in Nat /\ r.m_PinCount \in Nat
    BY <2>1, PinFields DEF PinGood
  <2>3. r.at = "idle" /\ r.m_PinCount <= r.m_Position /\ r.m_Position <= r.m_PinCount
    BY <1>3, <2>1 DEF PinGood, PinPlaces
  <2>4. r.m_PinCount = Len(pins) /\ \A n \in 1 .. r.m_Position : pins[n] \in r.m_PinCache
    BY <1>3, <2>1, <2>3 DEF PinGood, PinSeen, N!AreWeOutOfSync
  <2>5. \A n \in DOMAIN pins : pins[n] \in r.m_PinCache
    BY <2>1, <2>2, <2>3, <2>4
  <2> QED BY <1>1, <1>3, <2>5 DEF N!ToSet
<1>4. N!NoPinMissed
  BY <1>3 DEF N!NoPinMissed
<1> QED BY <1>2, <1>4

LEMMA PinsTyped ==
  ASSUME PinsInv PROVE N!TypeOK
<1>1. ASSUME NEW e \in N!Enums
      PROVE  /\ pe[e].at \in {"none", "idle", "version", "count", "loop", "outOfSync"}
             /\ pe[e].m_Position \in 0 .. MaxPins /\ pe[e].m_PinCount \in 0 .. MaxPins
             /\ pe[e].m_Version \in 0 .. MaxPinVersion /\ pe[e].m_PinCache \subseteq Addresses
             /\ pe[e].want \in 0 .. MaxBatch /\ Len(pe[e].fetched) <= pe[e].want
  <2>1. pe[e] \in PinEnumKind /\ PinPlaces(pe[e])
    BY DEF PinsInv, PinGood
  <2>2. pe[e].m_Position \in Nat /\ pe[e].m_PinCount \in 0 .. MaxPins
    BY <2>1, PinFields
  <2>3. pe[e].m_Position \in 0 .. MaxPins
    BY <2>1, <2>2, PinConstants DEF PinPlaces
  <2> QED BY <2>1, <2>3 DEF PinEnumKind, PinPlaces
<1> QED BY <1>1 DEF N!TypeOK, PinsInv, PinListed

(***************************************************************************)
(* The enumerator of media types                                           *)
(***************************************************************************)
TypeEntry == [at : Nat, type : Kinds]
TypeEnumKind ==
  [at : {"none", "idle", "loop"}, m_Position : Nat, m_Version : 0 .. MaxTypeVersion,
   want : 0 .. MaxBatch, fetched : Seq(TypeEntry), got : Seq(TypeEntry), skipped : BOOLEAN]

\* The types that have been passed out, those of the call in progress last.
Passed(r) == r.got \o r.fetched

TypePlaces(r) ==
  /\ Len(r.fetched) <= r.want /\ r.m_Version <= typeVersion
  /\ r.at # "loop" => r.fetched = <<>>
  /\ r.at = "none" => r.got = <<>>

\* In sync, they are those of the list before the position, in its order.
TypeOrder(r) ==
  r.m_Version = typeVersion /\ ~typePending /\ r.at # "none" =>
    /\ \A k \in 1 .. Len(Passed(r)) :
         /\ Passed(r)[k].at \in 1 .. Len(types) /\ Passed(r)[k].at <= r.m_Position
         /\ Passed(r)[k].type = types[Passed(r)[k].at]
         /\ k > 1 => Passed(r)[k - 1].at < Passed(r)[k].at
         /\ ~r.skipped => Passed(r)[k].at = k
    /\ ~r.skipped =>
         Len(Passed(r)) = IF r.m_Position <= Len(types) THEN r.m_Position ELSE Len(types)

TypeGood(r) == r \in TypeEnumKind /\ TypePlaces(r) /\ TypeOrder(r)

TypesListed ==
  /\ types \in Seq(Kinds) /\ Len(types) <= MaxTypes
  /\ typeVersion \in 1 .. MaxTypeVersion /\ typePending \in BOOLEAN
  /\ typePending => typeVersion < MaxTypeVersion

TypesInv ==
  /\ TypesListed /\ te = [e \in T!Enums |-> te[e]]
  /\ \A e \in T!Enums : TypeGood(te[e])

-----------------------------------------------------------------------------
LEMMA TypeConstants ==
  /\ MaxTypes \in Nat /\ MaxTypeVersion \in Nat \ {0} /\ MaxBatch \in Nat
BY ServicesAssumption DEF T!TypeEnumeratorAssumption

LEMMA TypeFields ==
  ASSUME NEW r \in TypeEnumKind
  PROVE  /\ r.at \in {"none", "idle", "loop"} /\ r.m_Position \in Nat
         /\ r.m_Version \in 0 .. MaxTypeVersion /\ r.m_Version \in Nat
         /\ r.want \in 0 .. MaxBatch /\ r.want \in Nat /\ r.skipped \in BOOLEAN
         /\ r.fetched \in Seq(TypeEntry) /\ r.got \in Seq(TypeEntry)
         /\ Len(r.fetched) \in Nat /\ Len(r.got) \in Nat
<1>1. /\ r.at \in {"none", "idle", "loop"} /\ r.m_Position \in Nat
      /\ r.m_Version \in 0 .. MaxTypeVersion
      /\ r.want \in 0 .. MaxBatch /\ r.skipped \in BOOLEAN
      /\ r.fetched \in Seq(TypeEntry) /\ r.got \in Seq(TypeEntry)
  BY DEF TypeEnumKind
<1>2. r.m_Version \in Nat /\ r.want \in Nat
  BY <1>1, TypeConstants
<1>3. Len(r.fetched) \in Nat /\ Len(r.got) \in Nat
  BY <1>1
<1> QED BY <1>1, <1>2, <1>3

LEMMA TypePassed ==
  ASSUME NEW r \in TypeEnumKind
  PROVE  /\ Passed(r) \in Seq(TypeEntry) /\ Len(Passed(r)) = Len(r.got) + Len(r.fetched)
         /\ Len(Passed(r)) \in Nat
         /\ \A k \in 1 .. Len(Passed(r)) : Passed(r)[k] \in TypeEntry /\ Passed(r)[k].at \in Nat
         /\ \A k \in 1 .. Len(r.got) : k \in 1 .. Len(Passed(r)) /\ Passed(r)[k] = r.got[k]
<1>1. r.fetched \in Seq(TypeEntry) /\ r.got \in Seq(TypeEntry)
      /\ Len(r.fetched) \in Nat /\ Len(r.got) \in Nat
  BY TypeFields
<1> DEFINE g == r.got
           x == r.fetched
<1> HIDE DEF g, x
<1>2. /\ g \o x \in Seq(TypeEntry) /\ Len(g \o x) = Len(g) + Len(x)
      /\ \A i \in 1 .. Len(g) + Len(x) : (g \o x)[i] = IF i <= Len(g) THEN g[i] ELSE x[i - Len(g)]
  BY <1>1, ConcatProperties DEF g, x
<1>3. Len(g \o x) \in Nat /\ \A i \in 1 .. Len(g) : i \in 1 .. Len(g \o x) /\ (g \o x)[i] = g[i]
  <2>1. Len(g) \in Nat /\ Len(x) \in Nat
    BY <1>1 DEF g, x
  <2> QED BY <1>2, <2>1
<1>4. \A k \in 1 .. Len(g \o x) : (g \o x)[k] \in TypeEntry
  BY <1>2, ElementOfSeq
<1>5. \A y \in TypeEntry : y.at \in Nat
  BY DEF TypeEntry
<1> QED BY <1>2, <1>3, <1>4, <1>5 DEF Passed, g, x

\* A step of an enumerator that keeps what is asked of it.
LEMMA TypeStepped ==
  ASSUME TypesInv, NEW e \in T!Enums, NEW r, T!TypeStep(e, r), TypeGood(r)
  PROVE  TypesInv'
<1>1. /\ te' = [te EXCEPT ![e] = r]
      /\ UNCHANGED <<types, typeVersion, typePending>>
  BY DEF T!TypeStep
<1>2. te' = [d \in T!Enums |-> te'[d]]
  BY <1>1 DEF TypesInv
<1>3. TypesListed'
  BY <1>1 DEF TypesInv, TypesListed
<1>4. ASSUME NEW d \in T!Enums PROVE TypeGood(te[d])'
  <2>1. te'[d] = IF d = e THEN r ELSE te[d]
    BY <1>1 DEF TypesInv
  <2>2. TypeGood(te'[d])
    BY <2>1 DEF TypesInv
  <2> QED BY <1>1, <2>2 DEF TypeGood, TypePlaces, TypeOrder
<1> QED BY <1>2, <1>3, <1>4 DEF TypesInv

\* A change of the list, or of its version.
LEMMA TypesListedStep ==
  ASSUME TypesInv, te' = te, TypesListed', typeVersion' >= typeVersion,
         typePending' \/ typeVersion' > typeVersion
         \/ (types' = types /\ typeVersion' = typeVersion /\ typePending' = typePending)
  PROVE  TypesInv'
<1>1. ASSUME NEW e \in T!Enums PROVE TypeGood(te[e])'
  <2>1. TypeGood(te[e]) /\ te'[e] = te[e]
    BY DEF TypesInv
  <2>2. te[e].m_Version \in Nat /\ typeVersion \in Nat /\ typeVersion' \in Nat
    <3>1. te[e] \in TypeEnumKind
      BY <2>1 DEF TypeGood
    <3>2. typeVersion \in Nat
      BY TypeConstants DEF TypesInv, TypesListed
    <3>3. typeVersion' \in Nat
      BY TypeConstants DEF TypesListed
    <3> QED BY <3>1, <3>2, <3>3, TypeFields
  <2>3. TypePlaces(te[e])'
    BY <2>1, <2>2 DEF TypeGood, TypePlaces
  <2>5. TypeOrder(te[e])'
    BY <2>1, <2>2 DEF TypeGood, TypePlaces, TypeOrder
  <2> QED BY <2>1, <2>3, <2>5 DEF TypeGood
<1> QED BY <1>1 DEF TypesInv

LEMMA TypesChange ==
  ASSUME TypesInv, T!ChangeTypes \/ T!IncrementTypeVersion PROVE TypesInv'
<1>0. TypesListed /\ typeVersion \in Nat
  BY TypeConstants DEF TypesInv, TypesListed
<1>1. CASE T!ChangeTypes
  <2>2. /\ ~typePending /\ typeVersion < MaxTypeVersion /\ typePending' = TRUE
        /\ UNCHANGED <<typeVersion, te>>
    BY <1>1 DEF T!ChangeTypes
  <2>3. PICK m \in 0 .. MaxTypes : types' \in [1 .. m -> Kinds]
    BY <1>1 DEF T!ChangeTypes, T!BoundedSeq, T!SeqOf
  <2>4. types' \in Seq(Kinds) /\ Len(types') = m
    BY <2>3, TypeConstants
  <2>5. TypesListed'
    <3>1. Len(types') <= MaxTypes
      BY <2>3, <2>4, TypeConstants
    <3> QED BY <1>0, <2>2, <2>4, <3>1 DEF TypesListed
  <2> QED BY <1>0, <2>2, <2>5, TypesListedStep
<1>3. CASE T!IncrementTypeVersion
  <2>1. typePending /\ typeVersion' = typeVersion + 1 /\ typePending' = FALSE /\ UNCHANGED <<types, te>>
    BY <1>3 DEF T!IncrementTypeVersion
  <2>2. TypesListed'
    <3>1. typeVersion' \in 1 .. MaxTypeVersion
      BY <1>0, <2>1, TypeConstants DEF TypesListed
    <3> QED BY <1>0, <2>1, <3>1 DEF TypesListed
  <2>3. typeVersion' > typeVersion /\ typeVersion' >= typeVersion
    BY <1>0, <2>1
  <2> QED BY <2>1, <2>2, <2>3, TypesListedStep
<1> QED BY <1>1, <1>3

\* An enumerator that begins, and one that is released.
LEMMA TypeNone ==
  ASSUME TypesListed, NEW r,
         r = T!NoEnum \/ r = [T!NoEnum EXCEPT !.at = "idle", !.m_Version = typeVersion]
  PROVE  TypeGood(r)
<1>0. typeVersion \in 0 .. MaxTypeVersion /\ typeVersion \in Nat /\ Len(types) \in Nat
  BY TypeConstants DEF TypesListed
<1>1. /\ r.at \in {"none", "idle"} /\ r.m_Position = 0 /\ r.m_Version \in 0 .. typeVersion
      /\ r.want = 0 /\ r.fetched = <<>> /\ r.got = <<>>
      /\ r \in TypeEnumKind
  <2>1. 0 \in 0 .. MaxTypeVersion /\ 0 \in 0 .. MaxBatch /\ typeVersion \in 0 .. typeVersion
        /\ 0 \in 0 .. typeVersion
    BY <1>0, TypeConstants
  <2>2. <<>> \in Seq(TypeEntry)
    OBVIOUS
  <2>3. CASE r = T!NoEnum
    BY <2>1, <2>2, <2>3 DEF T!NoEnum, TypeEnumKind
  <2>4. CASE r = [T!NoEnum EXCEPT !.at = "idle", !.m_Version = typeVersion]
    BY <1>0, <2>1, <2>2, <2>4 DEF T!NoEnum, TypeEnumKind
  <2> QED BY <2>3, <2>4
<1>2. Passed(r) = <<>> /\ Len(Passed(r)) = 0
  BY <1>1 DEF Passed
<1>3. TypePlaces(r)
  BY <1>0, <1>1 DEF TypePlaces
<1>4. TypeOrder(r)
  BY <1>0, <1>1, <1>2 DEF TypeOrder
<1> QED BY <1>1, <1>3, <1>4 DEF TypeGood

LEMMA TypesBegin ==
  ASSUME TypesInv, NEW e \in T!Enums, T!NewTypes(e) \/ T!ResetTypes(e) \/ T!ReleaseTypes(e)
  PROVE  TypesInv'
<1>1. CASE T!TypeStep(e, T!NoEnum)
  BY <1>1, TypeNone, TypeStepped DEF TypesInv
<1>2. CASE T!TypeStep(e, [T!NoEnum EXCEPT !.at = "idle", !.m_Version = typeVersion])
  BY <1>2, TypeNone, TypeStepped DEF TypesInv
<1> QED BY <1>1, <1>2 DEF T!NewTypes, T!ResetTypes, T!ReleaseTypes

LEMMA TypesClone ==
  ASSUME TypesInv, NEW e \in T!Enums, NEW d \in T!Enums, T!CloneTypes(e, d) PROVE TypesInv'
BY TypeStepped DEF T!CloneTypes, TypesInv

LEMMA TypesNext ==
  ASSUME TypesInv, NEW e \in T!Enums, NEW n \in 1 .. MaxBatch, T!NextTypes(e, n) \/ T!SkipTypes(e, n)
  PROVE  TypesInv'
<1> DEFINE r == te[e]
<1>0. /\ TypeGood(r) /\ TypesListed /\ n \in 0 .. MaxBatch /\ n \in Nat /\ r.at = "idle"
      /\ Len(types) \in Nat
  BY TypeConstants DEF TypesInv, T!NextTypes, T!SkipTypes, TypesListed
<1>f. /\ r \in TypeEnumKind /\ r.m_Position \in Nat /\ r.skipped \in BOOLEAN /\ r.fetched = <<>>
      /\ TypePlaces(r) /\ TypeOrder(r)
  <2>1. r \in TypeEnumKind /\ TypePlaces(r) /\ TypeOrder(r)
    BY <1>0 DEF TypeGood
  <2>2. r.m_Position \in Nat /\ r.skipped \in BOOLEAN
    BY <2>1, TypeFields
  <2> QED BY <1>0, <2>1, <2>2 DEF TypePlaces
<1>p. \A k \in 1 .. Len(Passed(r)) : Passed(r)[k].at \in Nat
  BY <1>f, TypePassed
<1>1. CASE T!NextTypes(e, n)
  <2> DEFINE q == [r EXCEPT !.at = "loop", !.want = n]
  <2>1. /\ q \in TypeEnumKind /\ q.at = "loop"
        /\ q.m_Version = r.m_Version /\ q.skipped = r.skipped
        /\ q.m_Position = r.m_Position /\ q.want = n
        /\ q.fetched = r.fetched /\ q.got = r.got
    BY <1>0, <1>f DEF TypeEnumKind
  <2>5. T!TypeStep(e, q)
    BY <1>1 DEF T!NextTypes
  <2> HIDE DEF q
  <2>2. TypePlaces(q)
    <3>1. Len(<<>>) <= n
      BY <1>0
    <3> QED BY <1>f, <2>1, <3>1 DEF TypePlaces
  <2>3. Passed(q) = Passed(r)
    BY <2>1 DEF Passed
  <2>4. TypeOrder(q)
    BY <1>0, <1>f, <2>1, <2>3 DEF TypeOrder
  <2> QED BY <2>1, <2>2, <2>4, <2>5, TypeStepped DEF TypeGood
<1>2. CASE T!SkipTypes(e, n)
  <2> DEFINE q == [r EXCEPT !.m_Position = r.m_Position + n, !.skipped = TRUE]
  <2>0. r.m_Position + n \in Nat /\ r.m_Position <= r.m_Position + n
    BY <1>0, <1>f
  <2>1. /\ q \in TypeEnumKind /\ q.at = r.at
        /\ q.m_Version = r.m_Version /\ q.skipped = TRUE
        /\ q.m_Position = r.m_Position + n /\ q.want = r.want
        /\ q.fetched = r.fetched /\ q.got = r.got
    BY <1>f, <2>0 DEF TypeEnumKind
  <2>5. T!TypeStep(e, q)
    BY <1>2, <1>f DEF T!SkipTypes, TypeEnumKind
  <2> HIDE DEF q
  <2>2. TypePlaces(q)
    BY <1>0, <1>f, <2>1 DEF TypePlaces
  <2>3. Passed(q) = Passed(r)
    BY <2>1 DEF Passed
  <2>4. TypeOrder(q)
    <3> SUFFICES ASSUME q.m_Version = typeVersion, ~typePending
                 PROVE  \A k \in 1 .. Len(Passed(q)) :
                          /\ Passed(q)[k].at \in 1 .. Len(types) /\ Passed(q)[k].at <= q.m_Position
                          /\ Passed(q)[k].type = types[Passed(q)[k].at]
                          /\ k > 1 => Passed(q)[k - 1].at < Passed(q)[k].at
      BY <2>1 DEF TypeOrder
    <3>1. \A k \in 1 .. Len(Passed(r)) :
             /\ Passed(r)[k].at \in 1 .. Len(types) /\ Passed(r)[k].at <= r.m_Position
             /\ Passed(r)[k].type = types[Passed(r)[k].at]
             /\ k > 1 => Passed(r)[k - 1].at < Passed(r)[k].at
      BY <1>0, <1>f, <2>1 DEF TypeOrder
    <3>2. \A k \in 1 .. Len(Passed(r)) : Passed(r)[k].at <= r.m_Position + n
      BY <1>0, <1>f, <1>p, <3>1
    <3> QED BY <2>1, <2>3, <3>1, <3>2
  <2> QED BY <2>1, <2>2, <2>4, <2>5, TypeStepped DEF TypeGood
<1> QED BY <1>1, <1>2

\* The call ends: what it has fetched is passed out.
LEMMA TypesEnd ==
  ASSUME TypesInv, NEW e \in T!Enums, NEW r, r = te[e], r.at = "loop",
         NEW n \in Nat, NEW w \in BOOLEAN, r.skipped => w, n >= r.m_Position,
         ~w => n = r.m_Position \/ r.m_Position >= Len(types),
         T!TypeStep(e, [r EXCEPT !.m_Position = n, !.at = "idle", !.want = 0, !.fetched = <<>>,
                                 !.got = Passed(r), !.skipped = w])
  PROVE  TypesInv'
<1> DEFINE q == [r EXCEPT !.m_Position = n, !.at = "idle", !.want = 0, !.fetched = <<>>,
                          !.got = Passed(r), !.skipped = w]
<1>0. TypeGood(r) /\ TypesListed /\ Len(types) \in Nat /\ Len(<<>>) = 0
  BY DEF TypesInv, TypesListed
<1>f. /\ r \in TypeEnumKind /\ r.m_Position \in Nat /\ r.skipped \in BOOLEAN
      /\ TypePlaces(r) /\ TypeOrder(r)
  <2>1. r \in TypeEnumKind /\ TypePlaces(r) /\ TypeOrder(r)
    BY <1>0 DEF TypeGood
  <2> QED BY <2>1, TypeFields
<1>p. /\ Passed(r) \in Seq(TypeEntry) /\ Len(Passed(r)) \in Nat
      /\ \A k \in 1 .. Len(Passed(r)) : Passed(r)[k].at \in Nat
  BY <1>f, TypePassed
<1>1. /\ q \in TypeEnumKind /\ q.at = "idle" /\ q.m_Version = r.m_Version /\ q.skipped = w
      /\ q.m_Position = n /\ q.want = 0 /\ q.fetched = <<>> /\ q.got = Passed(r)
  <2>1. 0 \in 0 .. MaxBatch /\ <<>> \in Seq(TypeEntry)
    BY TypeConstants
  <2> QED BY <1>f, <1>p, <2>1 DEF TypeEnumKind
<1>2. T!TypeStep(e, q)
  OBVIOUS
<1> HIDE DEF q
<1>3. Passed(q) = Passed(r)
  <2>1. Passed(q) = Passed(r) \o <<>>
    BY <1>1 DEF Passed
  <2> QED BY <1>p, <2>1, ConcatEmptySeq
<1>4. TypePlaces(q)
  BY <1>0, <1>1, <1>f DEF TypePlaces
<1>5. TypeOrder(q)
  <2> SUFFICES ASSUME q.m_Version = typeVersion, ~typePending
               PROVE  /\ \A k \in 1 .. Len(Passed(q)) :
                           /\ Passed(q)[k].at \in 1 .. Len(types) /\ Passed(q)[k].at <= q.m_Position
                           /\ Passed(q)[k].type = types[Passed(q)[k].at]
                           /\ k > 1 => Passed(q)[k - 1].at < Passed(q)[k].at
                           /\ ~q.skipped => Passed(q)[k].at = k
                      /\ ~q.skipped =>
                           Len(Passed(q)) = IF q.m_Position <= Len(types) THEN q.m_Position ELSE Len(types)
    BY DEF TypeOrder
  <2>1. /\ \A k \in 1 .. Len(Passed(r)) :
             /\ Passed(r)[k].at \in 1 .. Len(types) /\ Passed(r)[k].at <= r.m_Position
             /\ Passed(r)[k].type = types[Passed(r)[k].at]
             /\ k > 1 => Passed(r)[k - 1].at < Passed(r)[k].at
             /\ ~r.skipped => Passed(r)[k].at = k
        /\ ~r.skipped =>
             Len(Passed(r)) = IF r.m_Position <= Len(types) THEN r.m_Position ELSE Len(types)
    BY <1>1, <1>f DEF TypeOrder
  <2>2. \A k \in 1 .. Len(Passed(r)) : Passed(r)[k].at <= n
    BY <1>f, <1>p, <2>1
  <2>3. ~w => ~r.skipped
    OBVIOUS
  <2>4. ~w => Len(Passed(r)) = IF n <= Len(types) THEN n ELSE Len(types)
    BY <1>0, <1>f, <2>1, <2>3
  <2> QED BY <1>1, <1>3, <2>1, <2>2, <2>3, <2>4
<1> QED BY <1>1, <1>2, <1>4, <1>5, TypeStepped DEF TypeGood

LEMMA TypesFetch ==
  ASSUME TypesInv, NEW e \in T!Enums, T!FetchType(e) \/ T!ReturnTypes(e) PROVE TypesInv'
<1> SUFFICES ASSUME NEW r, r = te[e] PROVE TypesInv'
  OBVIOUS
<1>0. /\ TypeGood(r) /\ TypesListed /\ Len(types) \in Nat /\ r.at = "loop" /\ types \in Seq(Kinds)
      /\ DOMAIN types = 1 .. Len(types)
  BY DEF TypesInv, TypesListed, T!FetchType, T!ReturnTypes
<1>f. /\ r \in TypeEnumKind /\ r.m_Position \in Nat /\ r.skipped \in BOOLEAN
      /\ TypePlaces(r) /\ TypeOrder(r) /\ r.fetched \in Seq(TypeEntry) /\ r.got \in Seq(TypeEntry)
      /\ Len(r.fetched) \in Nat /\ r.want \in Nat
  <2>1. r \in TypeEnumKind /\ TypePlaces(r) /\ TypeOrder(r)
    BY <1>0 DEF TypeGood
  <2> QED BY <2>1, TypeFields
<1> DEFINE n == r.m_Position + 1
<1>n. n \in Nat /\ n >= r.m_Position /\ n # 0
  BY <1>f
<1>1. CASE T!ReturnTypes(e)
  <2>1. T!TypeStep(e, [r EXCEPT !.at = "idle", !.want = 0, !.fetched = <<>>, !.got = Passed(r)])
    BY <1>1, <1>f DEF T!ReturnTypes, Passed, TypeEnumKind
  <2>2. [r EXCEPT !.at = "idle", !.want = 0, !.fetched = <<>>, !.got = Passed(r)]
        = [r EXCEPT !.m_Position = r.m_Position, !.at = "idle", !.want = 0, !.fetched = <<>>,
                    !.got = Passed(r), !.skipped = r.skipped]
    BY <1>f DEF TypeEnumKind
  <2>3. r.m_Position >= r.m_Position
    BY <1>f
  <2> QED BY <1>0, <1>f, <2>1, <2>2, <2>3, TypesEnd
<1>2. CASE /\ n \notin DOMAIN types
           /\ T!TypeStep(e, [r EXCEPT !.m_Position = n, !.at = "idle", !.want = 0,
                                      !.fetched = <<>>, !.got = @ \o r.fetched])
  <2>1. T!TypeStep(e, [r EXCEPT !.m_Position = n, !.at = "idle", !.want = 0, !.fetched = <<>>, !.got = Passed(r)])
    BY <1>2, <1>f DEF Passed, TypeEnumKind
  <2>2. [r EXCEPT !.m_Position = n, !.at = "idle", !.want = 0, !.fetched = <<>>, !.got = Passed(r)]
        = [r EXCEPT !.m_Position = n, !.at = "idle", !.want = 0, !.fetched = <<>>,
                    !.got = Passed(r), !.skipped = r.skipped]
    BY <1>f DEF TypeEnumKind
  <2>3. r.m_Position >= Len(types)
    BY <1>0, <1>f, <1>2
  <2> HIDE DEF n
  <2> QED BY <1>0, <1>n, <1>f, <2>1, <2>2, <2>3, TypesEnd
<1>3. CASE /\ n \in DOMAIN types
           /\ T!TypeStep(e, [[r EXCEPT !.m_Position = n, !.at = "idle", !.want = 0,
                                      !.fetched = <<>>, !.got = @ \o r.fetched] EXCEPT !.skipped = TRUE])
  <2>1. T!TypeStep(e, [r EXCEPT !.m_Position = n, !.at = "idle", !.want = 0, !.fetched = <<>>,
                                !.got = Passed(r), !.skipped = TRUE])
    BY <1>3, <1>f DEF Passed, TypeEnumKind
  <2> HIDE DEF n
  <2> QED BY <1>0, <1>n, <1>f, <2>1, TypesEnd
<1>4. CASE /\ n \in DOMAIN types /\ Len(r.fetched) < r.want
           /\ T!TypeStep(e, [r EXCEPT !.m_Position = n,
                                      !.fetched = Append(@, [at |-> n, type |-> types[n]])])
  <2> DEFINE x == [at |-> n, type |-> types[n]]
             more == Append(r.fetched, x)
             q == [r EXCEPT !.m_Position = n, !.fetched = more]
  <2>0. n \in 1 .. Len(types) /\ types[n] \in Kinds
    BY <1>0, <1>4, ElementOfSeq
  <2>1. x \in TypeEntry /\ x.at = n /\ x.type = types[n]
    BY <1>n, <2>0 DEF TypeEntry
  <2>2. T!TypeStep(e, q)
    BY <1>4, <1>f DEF TypeEnumKind
  <2> HIDE DEF x
  <2>3. more \in Seq(TypeEntry) /\ Len(more) <= r.want
    <3>1. more \in Seq(TypeEntry) /\ Len(more) = Len(r.fetched) + 1
      BY <1>f, <2>1
    <3> HIDE DEF more
    <3> QED BY <1>4, <1>f, <3>1
  <2> HIDE DEF more, n
  <2>4. /\ q \in TypeEnumKind /\ q.at = "loop" /\ q.m_Version = r.m_Version /\ q.skipped = r.skipped
        /\ q.m_Position = n /\ q.want = r.want /\ q.fetched = more /\ q.got = r.got
    BY <1>0, <1>n, <1>f, <2>3 DEF TypeEnumKind
  <2> HIDE DEF q
  <2>5. TypePlaces(q)
    BY <1>f, <2>3, <2>4 DEF TypePlaces
  <2> DEFINE m == Len(Passed(r))
  <2>p. m \in Nat /\ \A k \in 1 .. m : Passed(r)[k].at \in Nat
    BY <1>f, TypePassed
  <2>6. /\ Len(Passed(q)) = m + 1 /\ Passed(q)[m + 1] = x
        /\ \A k \in 1 .. m : Passed(q)[k] = Passed(r)[k]
    <3> DEFINE g == r.got
               y == r.fetched
    <3> HIDE DEF g, y
    <3>1. Passed(q) = g \o Append(y, x) /\ Passed(r) = g \o y
      BY <2>4 DEF Passed, g, y, more
    <3>2. g \in Seq(TypeEntry) /\ y \in Seq(TypeEntry)
      BY <1>f DEF g, y
    <3>3. g \o Append(y, x) = Append(g \o y, x)
      BY <2>1, <3>2
    <3>4. g \o y \in Seq(TypeEntry)
      BY <3>2
    <3> DEFINE t == g \o y
    <3> HIDE DEF t
    <3>5. /\ Len(Append(t, x)) = Len(t) + 1 /\ Append(t, x)[Len(t) + 1] = x
          /\ \A i \in 1 .. Len(t) : Append(t, x)[i] = t[i]
      BY <2>1, <3>4 DEF t
    <3> QED BY <3>1, <3>3, <3>5 DEF t
  <2> HIDE DEF m
  <2>7. TypeOrder(q)
    <3> SUFFICES ASSUME q.m_Version = typeVersion, ~typePending
                 PROVE  /\ \A k \in 1 .. Len(Passed(q)) :
                             /\ Passed(q)[k].at \in 1 .. Len(types) /\ Passed(q)[k].at <= q.m_Position
                             /\ Passed(q)[k].type = types[Passed(q)[k].at]
                             /\ k > 1 => Passed(q)[k - 1].at < Passed(q)[k].at
                             /\ ~q.skipped => Passed(q)[k].at = k
                        /\ ~q.skipped =>
                             Len(Passed(q)) = IF q.m_Position <= Len(types) THEN q.m_Position ELSE Len(types)
      BY DEF TypeOrder
    <3>1. /\ \A k \in 1 .. m :
               /\ Passed(r)[k].at \in 1 .. Len(types) /\ Passed(r)[k].at <= r.m_Position
               /\ Passed(r)[k].type = types[Passed(r)[k].at]
               /\ k > 1 => Passed(r)[k - 1].at < Passed(r)[k].at
               /\ ~r.skipped => Passed(r)[k].at = k
          /\ ~r.skipped => m = IF r.m_Position <= Len(types) THEN r.m_Position ELSE Len(types)
      BY <1>0, <1>f, <2>4 DEF TypeOrder, m
    <3>2. r.m_Position < n /\ n = r.m_Position + 1
      BY <1>f DEF n
    <3>3. ~r.skipped => m + 1 = n
      <4>1. r.m_Position \in Nat /\ Len(types) \in Nat
        BY <1>0, <1>f
      <4>2. r.m_Position <= Len(types)
        BY <2>0, <3>2, <4>1
      <4>3. ~r.skipped => m = r.m_Position
        BY <3>1, <4>2
      <4> QED BY <3>2, <4>3
    <3>4. ASSUME NEW k \in 1 .. m
          PROVE  /\ Passed(q)[k].at \in 1 .. Len(types) /\ Passed(q)[k].at <= n
                 /\ Passed(q)[k].type = types[Passed(q)[k].at]
                 /\ k > 1 => Passed(q)[k - 1].at < Passed(q)[k].at
                 /\ ~r.skipped => Passed(q)[k].at = k
      <4>1. Passed(q)[k] = Passed(r)[k]
        BY <2>6
      <4>2. k > 1 => k - 1 \in 1 .. m /\ Passed(q)[k - 1] = Passed(r)[k - 1]
        BY <2>6, <2>p
      <4>3. Passed(r)[k].at <= n
        BY <1>f, <1>n, <2>p, <3>1, <3>2
      <4> QED BY <3>1, <4>1, <4>2, <4>3
    <3>5. /\ Passed(q)[m + 1].at \in 1 .. Len(types) /\ Passed(q)[m + 1].at <= n
          /\ Passed(q)[m + 1].type = types[Passed(q)[m + 1].at]
          /\ m + 1 > 1 => Passed(q)[(m + 1) - 1].at < Passed(q)[m + 1].at
          /\ ~r.skipped => Passed(q)[m + 1].at = m + 1
      <4>1. Passed(q)[m + 1] = x /\ x.at = n /\ x.type = types[n]
        BY <2>1, <2>6
      <4>2. m + 1 > 1 => m \in 1 .. m /\ (m + 1) - 1 = m /\ Passed(q)[m] = Passed(r)[m]
        BY <2>6, <2>p
      <4>3. m + 1 > 1 => Passed(r)[m].at < n
        BY <1>f, <1>n, <2>p, <3>1, <3>2, <4>2
      <4>4. n <= n
        BY <1>n
      <4> QED BY <2>0, <3>3, <4>1, <4>2, <4>3, <4>4
    <3>6. \A k \in 1 .. Len(Passed(q)) : k \in 1 .. m \/ k = m + 1
      BY <2>6, <2>p
    <3>7. ~r.skipped => Len(Passed(q)) = IF n <= Len(types) THEN n ELSE Len(types)
      BY <2>0, <2>6, <3>3
    <3> QED BY <2>4, <3>4, <3>5, <3>6, <3>7
  <2> QED BY <2>2, <2>4, <2>5, <2>7, TypeStepped DEF TypeGood
<1> QED BY <1>1, <1>2, <1>3, <1>4 DEF T!FetchType

LEMMA TypesStart ==
  ASSUME T!Init PROVE TypesInv
<1>1. TypesListed
  <2>1. types = <<>> /\ types \in Seq(Kinds) /\ Len(types) = 0
    BY DEF T!Init
  <2>2. Len(types) <= MaxTypes
    BY <2>1, TypeConstants
  <2>3. typeVersion \in 1 .. MaxTypeVersion
    BY TypeConstants DEF T!Init
  <2> QED BY <2>1, <2>2, <2>3 DEF T!Init, TypesListed
<1>2. te = [e \in T!Enums |-> T!NoEnum]
  BY DEF T!Init
<1> QED BY <1>1, <1>2, TypeNone DEF TypesInv

LEMMA TypesStep ==
  ASSUME TypesInv, T!Next \/ UNCHANGED typeEnums PROVE TypesInv'
<1>1. CASE UNCHANGED typeEnums
  <2>1. TypesListed' /\ te' = te /\ types' = types /\ typeVersion' = typeVersion /\ typePending' = typePending
    BY <1>1 DEF typeEnums, TypesInv, TypesListed
  <2>2. typeVersion \in Nat
    BY TypeConstants DEF TypesInv, TypesListed
  <2> QED BY <2>1, <2>2, TypesListedStep
<1>2. CASE T!NewTypes(1) \/ T!CloneTypes(1, 2)
  <2>1. 1 \in T!Enums /\ 2 \in T!Enums
    BY DEF T!Enums
  <2> QED BY <1>2, <2>1, TypesBegin, TypesClone
<1>3. ASSUME NEW e \in T!Enums,
             \/ T!ResetTypes(e) \/ T!ReleaseTypes(e) \/ T!FetchType(e) \/ T!ReturnTypes(e)
             \/ \E n \in 1 .. MaxBatch : T!NextTypes(e, n) \/ T!SkipTypes(e, n)
      PROVE  TypesInv'
  BY <1>3, TypesBegin, TypesFetch, TypesNext
<1> QED BY <1>1, <1>2, <1>3, TypesChange DEF T!Next

\* The types that are passed out are those of the list, in its order.
LEMMA TypesOrdered ==
  ASSUME TypesInv PROVE T!TypesInOrder
<1>1. ASSUME NEW e \in T!Enums, T!InSync(te[e]), ~typePending, NEW k \in DOMAIN te[e].got
      PROVE  /\ te[e].got[k].at \in DOMAIN types
             /\ te[e].got[k].type = types[te[e].got[k].at]
             /\ k > 1 => te[e].got[k - 1].at < te[e].got[k].at
             /\ ~te[e].skipped => te[e].got[k].at = k
  <2> DEFINE r == te[e]
  <2>1. r \in TypeEnumKind /\ TypeOrder(r) /\ types \in Seq(Kinds)
    BY DEF TypesInv, TypeGood, TypesListed
  <2>2. DOMAIN types = 1 .. Len(types) /\ r.got \in Seq(TypeEntry) /\ Len(r.got) \in Nat
    BY <2>1, TypeFields
  <2>3. k \in 1 .. Len(r.got)
    BY <2>2
  <2>4. \A i \in 1 .. Len(r.got) : i \in 1 .. Len(Passed(r)) /\ Passed(r)[i] = r.got[i]
    BY <2>1, TypePassed
  <2>5. r.at # "none"
    <3>1. Len(r.got) # 0
      BY <2>2, <2>3
    <3>2. Len(<<>>) = 0
      OBVIOUS
    <3>3. r.at = "none" => r.got = <<>>
      BY DEF TypesInv, TypeGood, TypePlaces
    <3> QED BY <3>1, <3>2, <3>3
  <2>6. \A i \in 1 .. Len(Passed(r)) :
           /\ Passed(r)[i].at \in 1 .. Len(types) /\ Passed(r)[i].type = types[Passed(r)[i].at]
           /\ i > 1 => Passed(r)[i - 1].at < Passed(r)[i].at
           /\ ~r.skipped => Passed(r)[i].at = i
    BY <1>1, <2>1, <2>5 DEF TypeOrder, T!InSync
  <2>7. k > 1 => k - 1 \in 1 .. Len(r.got)
    BY <2>2, <2>3
  <2> QED BY <2>2, <2>3, <2>4, <2>6, <2>7
<1> QED BY <1>1 DEF T!TypesInOrder

LEMMA TypesTyped ==
  ASSUME TypesInv PROVE T!TypeOK
<1>1. ASSUME NEW e \in T!Enums
      PROVE  /\ te[e].at \in {"none", "idle", "loop"} /\ te[e].m_Position \in Nat
             /\ te[e].m_Version \in 0 .. MaxTypeVersion /\ te[e].want \in 0 .. MaxBatch
             /\ Len(te[e].fetched) <= te[e].want
  <2>1. te[e] \in TypeEnumKind /\ TypePlaces(te[e])
    BY DEF TypesInv, TypeGood
  <2> QED BY <2>1, TypeFields DEF TypePlaces
<1> QED BY <1>1 DEF T!TypeOK, TypesInv, TypesListed

(***************************************************************************)
(* The parts side by side                                                  *)
(***************************************************************************)
PartsInv == PageInv /\ InPlaceInv /\ QualityInv /\ PinsInv /\ TypesInv /\ CommandsInv

allVars == <<part, page, inPlace, quality, pinEnums, typeEnums, commands>>

\* The assumption on the constants is that of each part.
LEMMA Assumed ==
  /\ I!InPlaceAssumption /\ V!QualityAssumption
BY ServicesAssumption DEF ServicesAssumption

\* Each part starts as it does by itself.
LEMMA PartsStart == MCInit => PartsInv
<1> SUFFICES ASSUME MCInit PROVE PartsInv
  OBVIOUS
<1> USE Assumed DEF MCInit
<1>1. PageInv
  BY PageStart
<1>2. InPlaceInv
  BY InPlaceStart
<1>3. QualityInv
  BY QualityStart
<1>4. PinsInv
  BY PinsStart
<1>5. TypesInv
  BY TypesStart
<1>6. CommandsInv
  BY CommandsStart
<1> QED BY <1>1, <1>2, <1>3, <1>4, <1>5, <1>6 DEF PartsInv

\* In a step of the whole each part takes a step of its own, or none.
LEMMA PartsMove ==
  ASSUME [MCNext]_allVars
  PROVE  /\ P!Next \/ UNCHANGED page
         /\ I!Next \/ UNCHANGED inPlace
         /\ V!Next \/ UNCHANGED quality
         /\ N!Next \/ UNCHANGED pinEnums
         /\ T!Next \/ UNCHANGED typeEnums
         /\ Q!Next \/ UNCHANGED commands
         /\ part' = part
<1>1. CASE UNCHANGED allVars
  BY <1>1 DEF allVars
<1>2. CASE MCNext
  <2>1. /\ part # "page" => UNCHANGED page
        /\ part # "inPlace" => UNCHANGED inPlace
        /\ part # "quality" => UNCHANGED quality
        /\ part # "pins" => UNCHANGED pinEnums
        /\ part # "types" => UNCHANGED typeEnums
        /\ part # "commands" => UNCHANGED commands
    BY <1>2 DEF MCNext, Others
  <2>2. /\ part' = part
        /\ \/ part = "page" /\ P!Next
           \/ part = "inPlace" /\ I!Next
           \/ part = "quality" /\ V!Next
           \/ part = "pins" /\ N!Next
           \/ part = "types" /\ T!Next
           \/ part = "commands" /\ Q!Next
    BY <1>2 DEF MCNext
  <2> QED BY <2>1, <2>2
<1> QED BY <1>1, <1>2

LEMMA PartsStep ==
  ASSUME PartsInv, [MCNext]_allVars
  PROVE  PartsInv'
<1> USE PartsMove, Assumed DEF PartsInv
<1>1. PageInv'
  BY PageStep
<1>2. InPlaceInv'
  BY InPlaceStep
<1>3. QualityInv'
  BY QualityStep
<1>4. PinsInv'
  BY PinsStep
<1>5. TypesInv'
  BY TypesStep
<1>6. CommandsInv'
  BY CommandsStep
<1> QED BY <1>1, <1>2, <1>3, <1>4, <1>5, <1>6

LEMMA PartsKept == MCSpec => []PartsInv
<1>1. PartsInv /\ [MCNext]_allVars => PartsInv'
  BY PartsStep
<1> QED BY <1>1, PartsStart, PTL DEF MCSpec, allVars

\* A reference is held exactly as long as the pointer is, by pages, renderers and commands;
\* and the pins of an in-place transform agree once their reconnections are done.
THEOREM ReferencesAreHeld == MCSpec => []ReferencesHeld
<1>1. PartsInv => ReferencesHeld
  <2> SUFFICES ASSUME PartsInv PROVE ReferencesHeld
    OBVIOUS
  <2>1. P!ReferenceHeld
    BY DEF PartsInv, PageInv
  <2>2. /\ I!OneReferencePerPointer /\ I!CopiesReleased
        /\ I!Agreed /\ I!WritesWhereAgreed /\ I!ReconnectsSettle
    BY InPlaceHeld, Assumed DEF PartsInv
  <2>3. V!UpstreamReleased
    BY DEF PartsInv, QualityInv
  <2>4. Q!References
    BY CommandsHeld DEF PartsInv
  <2> QED BY <2>1, <2>2, <2>3, <2>4 DEF ReferencesHeld
<1> QED BY <1>1, PartsKept, PTL

\* A page that is shown changes the name of the filter only to what was typed, or to its
\* question marks if the code page has not got it, a frame is dropped only
\* while the one displayed is less than a second old, and of the commands that are due
\* the earliest is handed out, none before its time.
THEOREM StepsStayRight == MCSpec => StepsAreRight
<1>1. PartsInv /\ [MCNext]_allVars => 
        [filterName' # filterName /\ m_hwnd => filterName' \in P!Becomes(meant)]_(P!vars)
  BY PageApplies, PartsMove DEF PartsInv
<1>2. PartsInv /\ [MCNext]_allVars =>
        [start' > start /\ last' = "dropped" => now - shownAt <= Second]_(V!vars)
  BY QualityDrops, PartsMove, Assumed DEF PartsInv
<1>3. PartsInv /\ [MCNext]_allVars =>
        [\A c \in Q!Ids : server.at = "look" /\ server'.cmd = c /\ server'.own /\ Q!GetDueCommand =>
           \A d \in Q!Ids : Q!InList(d) /\ Q!CheckTime(d) => Q!CheckTime(c) /\ Q!DueAt(c) <= Q!DueAt(d)]_(Q!vars)
  BY CommandsInTime DEF PartsInv
<1>4. MCSpec => P!OnlyWhatWasTyped
  BY <1>1, PartsKept, PTL DEF MCSpec, allVars, P!OnlyWhatWasTyped
<1>5. MCSpec => V!NeverBlank
  BY <1>2, PartsKept, PTL DEF MCSpec, allVars, V!NeverBlank
<1>6. MCSpec => Q!EarliestFirst
  BY <1>3, PartsKept, PTL DEF MCSpec, allVars, Q!EarliestFirst
<1> QED BY <1>4, <1>5, <1>6 DEF StepsAreRight

\* Every variable has a value of its kind, whichever part takes steps.
THEOREM ServicesTypes == MCSpec => []TypesOK
<1>1. PartsInv => TypesOK
  <2> SUFFICES ASSUME PartsInv PROVE TypesOK
    OBVIOUS
  <2>1. P!TypeOK /\ V!TypeOK
    BY PageTyped, QualityTyped DEF PartsInv
  <2>2. I!TypeOK
    BY InPlaceTyped, Assumed DEF PartsInv
  <2>3. N!TypeOK
    BY PinsTyped DEF PartsInv
  <2>4. T!TypeOK
    BY TypesTyped DEF PartsInv
  <2>5. Q!TypeOK
    BY CommandsTypesOK DEF PartsInv
  <2> QED BY <2>1, <2>2, <2>3, <2>4, <2>5 DEF TypesOK
<1> QED BY <1>1, PartsKept, PTL

\* Neither lost nor met twice, however the pins and types change under an enumerator,
\* pages are shown and hidden and commands cancelled and postponed: the enumerators tell
\* of each pin's address once and of the types in order, the page has the last edit of
\* ASCII characters and knows that it is to be applied, the commands
\* stay in order of time and each is invoked at most once.
THEOREM NothingIsLost == MCSpec => []NothingLost
<1>1. PartsInv => NothingLost
  <2> SUFFICES ASSUME PartsInv PROVE NothingLost
    OBVIOUS
  <2>1. N!NoPinTwice /\ N!NoPinMissed
    BY PinsOnce DEF PartsInv
  <2>2. T!TypesInOrder
    BY TypesOrdered DEF PartsInv
  <2>3. P!EditsKept
    BY DEF PartsInv, PageInv
  <2>4. Q!Sorted /\ Q!InvokedOnce
    BY CommandsHeld DEF PartsInv
  <2> QED BY <2>1, <2>2, <2>3, <2>4 DEF NothingLost
<1> QED BY <1>1, PartsKept, PTL

=============================================================================
