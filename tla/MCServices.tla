----------------------------- MODULE MCServices -----------------------------
(* An instance for TLC of what applications, the graph and neighbouring      *)
(* filters ask of a filter besides samples, each with an environment of its  *)
(* own; "part" is the one that takes steps.                                  *)
EXTENDS Integers, Sequences

CONSTANTS
  None,
  FileNames, Ascii, Foreign, Empty, Lost, Mojibake,       \* of PropertyPage
  Upstreams, Downstreams, Owns, Types,            \* of TransInPlace
  Duration, Second, MaxTime,                      \* of VideoQuality
  Addresses, FirstPins, MaxPins, MaxPinVersion, MaxBatch,    \* of PinEnumerator
  Kinds, MaxTypes, MaxTypeVersion,                \* of TypeEnumerator
  MaxCommands, MaxDue, MaxCalls, Offsets          \* of CommandQueue

VARIABLES
  part,
  m_pPageSite, m_bObjectSet, mDMIFInterface, m_hwnd, m_bDirty, mIsInitialized,
  mConfigFilename, text, filterName, references, alive, meant,
  f, pending, running, buffer, copies, rounds,
  now, start, place, m_trLastDraw, m_nNormal, planned, m_pQSink, refs, connected, last,
  shownAt, told,
  pins, pinVersion, pinPending, pe,
  types, typeVersion, typePending, te,
  time, calls, lists, command, call, server, m_pClock, m_bRunning, m_StreamTimeOffset,
  m_dwAdvise, m_tCurrentAdvise, m_evDue, advise, crashed

page == <<m_pPageSite, m_bObjectSet, mDMIFInterface, m_hwnd, m_bDirty, mIsInitialized,
          mConfigFilename, text, filterName, references, alive, meant>>
inPlace == <<f, pending, running, buffer, copies, rounds>>
quality == <<now, start, place, m_trLastDraw, m_nNormal, planned, m_pQSink, refs, connected,
             last, shownAt, told>>
pinEnums == <<pins, pinVersion, pinPending, pe>>
typeEnums == <<types, typeVersion, typePending, te>>
commands == <<time, calls, lists, command, call, server, m_pClock, m_bRunning,
              m_StreamTimeOffset, m_dwAdvise, m_tCurrentAdvise, m_evDue, advise, crashed>>

P == INSTANCE PropertyPage
I == INSTANCE TransInPlace
V == INSTANCE VideoQuality
N == INSTANCE PinEnumerator WITH MaxVersion <- MaxPinVersion
T == INSTANCE TypeEnumerator WITH MaxVersion <- MaxTypeVersion
Q == INSTANCE CommandQueue WITH now <- time, MaxTime <- MaxDue

ASSUME ServicesAssumption ==
  /\ P!PageAssumption /\ I!InPlaceAssumption /\ V!QualityAssumption
  /\ N!PinEnumeratorAssumption /\ T!TypeEnumeratorAssumption /\ Q!CommandAssumption

Parts == {"page", "inPlace", "quality", "pins", "types", "commands"}

\* A filter has two pins to begin with, or none.
NoneOrTwo == {<<>>, <<1, 2>>}

\* The choices of the other parts are made.
OneStart ==
  /\ part # "page" => filterName = CHOOSE n \in FileNames : TRUE
  /\ part # "inPlace" => ~f.m_bModifiesData
  /\ part # "pins" => pins = <<>>
  /\ part # "commands" => ~m_pClock

\* Only the variables of one part change.
Others(p) ==
  /\ p # "page" => UNCHANGED page
  /\ p # "inPlace" => UNCHANGED inPlace
  /\ p # "quality" => UNCHANGED quality
  /\ p # "pins" => UNCHANGED pinEnums
  /\ p # "types" => UNCHANGED typeEnums
  /\ p # "commands" => UNCHANGED commands

MCNext ==
  /\ UNCHANGED part /\ Others(part)
  /\ \/ part = "page" /\ P!Next
     \/ part = "inPlace" /\ I!Next
     \/ part = "quality" /\ V!Next
     \/ part = "pins" /\ N!Next
     \/ part = "types" /\ T!Next
     \/ part = "commands" /\ Q!Next

MCInit ==
  /\ part \in Parts /\ P!Init /\ I!Init /\ V!Init /\ N!Init /\ T!Init
  /\ Q!Init /\ OneStart

MCSpec ==
  /\ MCInit
  /\ [][MCNext]_<<part, page, inPlace, quality, pinEnums, typeEnums, commands>>

-----------------------------------------------------------------------------
(* The properties of the parts, whose comments are there, by theme.          *)

\* Every variable has a value of its kind.
TypesOK ==
  /\ P!TypeOK /\ I!TypeOK /\ V!TypeOK
  /\ N!TypeOK /\ T!TypeOK /\ Q!TypeOK

\* A reference is held as long as the pointer is, and no longer: by a page, by the
\* pins of an in-place transform, by a renderer that sends quality messages and by the
\* queue of commands.  The pins of an in-place transform agree on type and allocator
\* once the few reconnections they ask for are done, and write only where that was
\* agreed.
ReferencesHeld ==
  /\ part = "page" => P!ReferenceHeld
  /\ part = "inPlace" =>
       /\ I!OneReferencePerPointer /\ I!CopiesReleased
       /\ I!Agreed /\ I!WritesWhereAgreed /\ I!ReconnectsSettle
  /\ part = "quality" => V!UpstreamReleased
  /\ part = "commands" => Q!References

\* What changes meanwhile is neither lost nor met twice: a pin or a type that an
\* enumerator tells of, an edit of the page, a deferred command.
NothingLost ==
  /\ part = "pins" => N!NoPinTwice /\ N!NoPinMissed
  /\ part = "types" => T!TypesInOrder
  /\ part = "page" => P!EditsKept
  /\ part = "commands" => Q!Sorted /\ Q!InvokedOnce

\* What a step may never do: change the name of the filter to one nobody typed, drop a
\* frame with the display more than a second old, hand out a command too early or late.
StepsAreRight == P!OnlyWhatWasTyped /\ V!NeverBlank /\ Q!EarliestFirst

=============================================================================
