------------------------------ MODULE Injector ------------------------------
(***************************************************************************)
(* MetadataInjectorFilter: the frames it copies, the HDR metadata it       *)
(* attaches "once per second" by counting them, and the media type it      *)
(* fakes for the renderer (metadata_injector_filter.cpp).                  *)
(*                                                                         *)
(* A step is one call into the filter: a connection or disconnection of a  *)
(* pin, an enumeration of the output pin's types (which takes no lock and  *)
(* may come at any time), or one sample through CTransformFilter::Receive, *)
(* from Transform to the renderer's answer.  Locks, flushes and the        *)
(* buffers themselves are the subject of Streaming and MemAllocator.       *)
(*                                                                         *)
(* A media type is its frame duration, its sample size and whether it      *)
(* declares the colour information; a duration is in ticks of which        *)
(* TicksPerSecond make a second (10,000,000 in the code).                  *)
(***************************************************************************)
EXTENDS Integers

CONSTANTS
  TicksPerSecond,  \* AvgTimePerFrame is measured in these
  Durations,       \* The values of AvgTimePerFrame of the source's types
  Sizes,           \* Their sample sizes
  CounterModulus,  \* mFrameCounter wraps at this value (2^32 in the code)
  Offers,          \* TRUE if the application or the renderer may propose a
                   \* complete output type, so that ours are not enumerated
  Reconnects,      \* TRUE if the input may be reconnected while the output
                   \* pin stays connected
  FormatChanges,   \* TRUE if the source may change its format while streaming
  MaxLost          \* Bound: metadata frames the renderer refuses in a row

ASSUME InjectorAssumption ==
  /\ TicksPerSecond \in Nat \ {0}
  /\ Durations \subseteq Nat
  /\ Sizes \subseteq Nat \ {0}
  /\ CounterModulus \in Nat \ {0}
  /\ Offers \in BOOLEAN
  /\ Reconnects \in BOOLEAN
  /\ FormatChanges \in BOOLEAN
  /\ MaxLost \in Nat

VARIABLES
  active,            \* The filter is paused or running
  inConnected,       \* The input pin is connected
  inType,            \* m_mt of the input pin
  srcType,           \* The type of the samples the source sends
  outConnected,      \* The output pin is connected
  outSize,           \* cbBuffer of the output allocator
  sideData,          \* Its samples support IMediaSideData
  rType,             \* The type the renderer was last told
  mFramesPerSecond,
  mFrameCounter,
  trapped,           \* The modulo has divided by zero
  \* What the properties are about:
  since,             \* Ticks of video since a frame carried the metadata
  streak,            \* Frames transformed since then
  rStreak,           \* Frames the renderer accepted since one carried it
  lost,              \* Metadata frames it has refused since then
  shown              \* Frames it has accepted of an output that does not
                     \* support IMediaSideData
  \* The counts restart when mFramesPerSecond changes, since and shown when the
  \* output is connected.

typeVars  == <<inConnected, inType, srcType, outConnected, outSize, sideData,
               rType>>
countVars == <<streak, rStreak, lost, shown>>
ghostVars == <<since, countVars>>
vars == <<active, typeVars, mFramesPerSecond, mFrameCounter, trapped,
          ghostVars>>

InputTypes == [avg : Durations, size : Sizes, colour : {FALSE}]
MediaTypes == [avg : Durations, size : Sizes, colour : BOOLEAN]

Init ==
  /\ active = FALSE
  /\ inConnected = FALSE
  /\ inType \in InputTypes
  /\ srcType = inType
  /\ outConnected = FALSE
  /\ outSize = 0
  /\ sideData = FALSE
  /\ rType = inType
  /\ mFramesPerSecond = 0
  /\ mFrameCounter = 0
  /\ trapped = FALSE
  /\ since = 0 /\ streak = 0 /\ rStreak = 0 /\ lost = 0 /\ shown = 0

-----------------------------------------------------------------------------
(* The media types.                                                        *)

\* BuildFakeMediaType: the input's type with the colour information added.
BuildFakeMediaType(t) == [t EXCEPT !.colour = TRUE]

\* 1.0 / (AvgTimePerFrame / 10000000.0), truncated; a duration of zero makes
\* the conversion of infinity to unsigned int undefined.
RatesOf(avg) == IF avg = 0 THEN 0..TicksPerSecond ELSE {TicksPerSecond \div avg}

\* Fault: only the type is built.
RateForgotten == UNCHANGED mFramesPerSecond

\* GetMediaType: whoever enumerates the types of the output pin sets the rate.
SetRate == mFramesPerSecond' \in RatesOf(inType.avg)

RestartCounts ==
  IF mFramesPerSecond' # mFramesPerSecond
  THEN streak' = 0 /\ rStreak' = 0 /\ lost' = 0 /\ shown' = 0
  ELSE UNCHANGED countVars

EnumOutputTypes ==
  /\ inConnected /\ ~trapped
  /\ SetRate
  /\ RestartCounts
  /\ UNCHANGED <<active, typeVars, mFrameCounter, trapped, since>>

-----------------------------------------------------------------------------
(* The pins: connected and disconnected only while the filter is stopped.  *)

\* CheckInputType and CheckTransform accept every VIDEOINFOHEADER type, also
\* while the output pin is connected with another one.
ConnectInput ==
  /\ ~active /\ ~inConnected
  /\ outConnected => Reconnects
  /\ inConnected' = TRUE
  /\ inType' \in InputTypes
  /\ srcType' = inType'
  /\ UNCHANGED <<active, outConnected, outSize, sideData, rType,
                 mFramesPerSecond, mFrameCounter, trapped, ghostVars>>

DisconnectInput ==
  /\ ~active /\ inConnected
  /\ inConnected' = FALSE
  /\ UNCHANGED <<active, inType, srcType, outConnected, outSize, sideData,
                 rType, mFramesPerSecond, mFrameCounter, trapped, ghostVars>>

\* Fault: the size is not the input's.
SizeKept == outSize' \in (Sizes \cup {outSize}) /\ outSize' >= outSize

\* The allocator is asked for samples of the input's size.
DecideBufferSize == outSize' = inType.size

\* Agreement with the renderer on our own type, or on the one it is offered.
Agree(type) ==
  /\ ~active /\ ~outConnected /\ inConnected
  /\ outConnected' = TRUE
  /\ rType' = type
  /\ DecideBufferSize
  /\ sideData' \in BOOLEAN

ConnectOutput ==
  /\ Agree(BuildFakeMediaType(inType))
  /\ SetRate
  /\ IF mFramesPerSecond' # mFramesPerSecond
     THEN streak' = 0 /\ rStreak' = 0 /\ lost' = 0
     ELSE UNCHANGED <<streak, rStreak, lost>>
  /\ since' = 0 /\ shown' = 0
  /\ UNCHANGED <<active, inConnected, inType, srcType, mFrameCounter, trapped>>

\* AgreeMediaType tries a complete type of the application, and the renderer's
\* types, before the filter's own: CheckTransform accepts them all.
ConnectOutputOffered ==
  /\ Offers
  /\ \E type \in MediaTypes : Agree(type)
  /\ since' = 0 /\ shown' = 0
  /\ UNCHANGED <<active, inConnected, inType, srcType, mFramesPerSecond,
                 mFrameCounter, trapped, streak, rStreak, lost>>

DisconnectOutput ==
  /\ ~active /\ outConnected
  /\ outConnected' = FALSE
  /\ UNCHANGED <<active, inConnected, inType, srcType, outSize, sideData,
                 rType, mFramesPerSecond, mFrameCounter, trapped, ghostVars>>

Pause ==
  /\ ~active /\ inConnected /\ outConnected /\ ~trapped
  /\ active' = TRUE
  /\ UNCHANGED <<typeVars, mFramesPerSecond, mFrameCounter, trapped, ghostVars>>

\* Nothing is reset: neither the counter nor the rate.
Stop ==
  /\ active /\ ~trapped
  /\ active' = FALSE
  /\ UNCHANGED <<typeVars, mFramesPerSecond, mFrameCounter, trapped, ghostVars>>

-----------------------------------------------------------------------------
(* The samples.                                                            *)

\* A sample arrives; after a format change it carries its new type, which
\* CBaseInputPin::Receive checks but does not make the input pin's.
Arrives ==
  /\ active /\ ~trapped
  /\ srcType' \in IF FormatChanges THEN InputTypes ELSE {srcType}
  /\ UNCHANGED <<active, inConnected, inType, outConnected, outSize, sideData>>

\* Copy returns E_UNEXPECTED when the source's sample fails a query.
CopyFails ==
  /\ Arrives
  /\ UNCHANGED <<rType, mFramesPerSecond, mFrameCounter, trapped, ghostVars>>

\* Division by zero.
Trap ==
  /\ Arrives
  /\ mFramesPerSecond = 0
  /\ trapped' = TRUE
  /\ UNCHANGED <<rType, mFramesPerSecond, mFrameCounter, ghostVars>>

\* Fault: the metadata is attached to the first frame only.
DueOnce == mFrameCounter = 0

\* "Update once per second".
Due == mFrameCounter % mFramesPerSecond = 0

\* QueryInterface for IMediaSideData fails: so does Transform, before it has
\* counted the frame.
SideDataMissing == ~sideData

MetadataFails ==
  /\ Arrives
  /\ mFramesPerSecond > 0 /\ Due /\ SideDataMissing
  /\ UNCHANGED <<rType, mFramesPerSecond, mFrameCounter, trapped, ghostVars>>

\* Fault: the counter does not wrap.
CountUp == mFrameCounter + 1

\* ++mFrameCounter, an unsigned int.
NextCount == (mFrameCounter + 1) % CounterModulus

\* Transform succeeds; the type is copied from the source's sample, if that
\* carries one.  The renderer accepts the frame or refuses it (it is flushing,
\* or stopped).
Transform(accepted) ==
  /\ Arrives
  /\ mFramesPerSecond > 0
  /\ Due => ~SideDataMissing
  /\ mFrameCounter' = NextCount
  /\ rType' = IF accepted /\ srcType' # srcType THEN srcType' ELSE rType
  /\ since' = IF Due THEN srcType'.avg ELSE since + srcType'.avg
  /\ streak' = IF Due THEN 0 ELSE streak + 1
  /\ shown' = IF accepted /\ ~sideData THEN shown + 1 ELSE shown
  /\ UNCHANGED <<mFramesPerSecond, trapped>>

Accepted ==
  /\ Transform(TRUE)
  /\ rStreak' = IF Due THEN 0 ELSE rStreak + 1
  /\ lost' = IF Due THEN 0 ELSE lost

Refused ==
  /\ Transform(FALSE)
  /\ Due => lost < MaxLost
  /\ rStreak' = rStreak
  /\ lost' = IF Due THEN lost + 1 ELSE lost

\* The process is gone.
Terminated == trapped /\ UNCHANGED vars

Next ==
  \/ EnumOutputTypes
  \/ ConnectInput \/ DisconnectInput
  \/ ConnectOutput \/ ConnectOutputOffered \/ DisconnectOutput
  \/ Pause \/ Stop
  \/ CopyFails \/ Trap \/ MetadataFails \/ Accepted \/ Refused
  \/ Terminated

Spec == Init /\ [][Next]_vars

-----------------------------------------------------------------------------
\* The types of the variables; the frame counter keeps its width.
TypeOK ==
  /\ active \in BOOLEAN
  /\ inConnected \in BOOLEAN
  /\ inType \in InputTypes
  /\ srcType \in InputTypes
  /\ outConnected \in BOOLEAN
  /\ outSize \in Nat
  /\ sideData \in BOOLEAN
  /\ rType \in MediaTypes
  /\ mFramesPerSecond \in Nat
  /\ mFrameCounter \in 0..(CounterModulus - 1)
  /\ trapped \in BOOLEAN
  /\ since \in Nat /\ streak \in Nat /\ rStreak \in Nat /\ lost \in Nat /\ shown \in Nat

\* Fewer than mFramesPerSecond frames in a row are transformed without the
\* metadata: through restarts, failed copies, changes of the rate and the wrap
\* of the 32-bit counter, whose period is no multiple of the rate.
MetadataCadence == mFramesPerSecond > 0 => streak < mFramesPerSecond

\* What the renderer gets: every metadata frame it refuses, in a flush or while
\* it is stopped, delays the next by less than one more second, no longer.
RendererCadence ==
  mFramesPerSecond > 0 => rStreak < (lost + 1) * mFramesPerSecond

\* If the output's samples do not support IMediaSideData, less than a second of
\* video is shown before every frame fails.
LessThanASecondShown ==
  mFramesPerSecond > 0 /\ ~sideData => shown < mFramesPerSecond

\* The three together: whatever is reconnected, refused or renegotiated, neither
\* the transform, the renderer nor the viewer waits longer than the rate allows.
CadenceKept == MetadataCadence /\ RendererCadence /\ LessThanASecondShown

\* Transform never divides by zero: an active filter has enumerated its types.
NoTrap == ~trapped

\* The comment at metadata_injector_filter.cpp:123, "Update once per second",
\* by the durations of the frames the source sends.
OncePerSecond == since <= TicksPerSecond

\* README.md:3: the renderer is told of the colour information.
RendererColour == outConnected => rType.colour

\* metadata_injector_filter.cpp:247, ASSERT(lDestSize >= lSourceSize).
LargeEnough == active => outSize >= srcType.size

\* The rate is that of the samples that arrive.
RateIsCurrent == active => mFramesPerSecond \in RatesOf(srcType.avg)

\* What the connection has agreed on is still true of the samples: the buffers,
\* the rate and the colour information are those of the source's type.
AgreementKept == RendererColour /\ LargeEnough /\ RateIsCurrent

=============================================================================
