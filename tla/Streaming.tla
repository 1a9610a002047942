------------------------------ MODULE Streaming ------------------------------
(***************************************************************************)
(* CTransformFilter between its two neighbours: the streaming thread in    *)
(* CTransformInputPin::Receive and EndOfStream, the graph's thread in      *)
(* Pause, Run and Stop, and a seeking thread in BeginFlush and EndFlush,   *)
(* with the two critical sections m_csFilter and m_csReceive               *)
(* (transfrm.cpp, transfrm.h, amfilter.cpp).                               *)
(*                                                                         *)
(* A step is what a thread does between two points where another can       *)
(* interfere: taking a lock, reading the flags in CheckStreaming, setting  *)
(* one of them outside m_csReceive, GetBuffer on the output pin's          *)
(* allocator, the call into the renderer.  The source and the renderer are *)
(* modelled from how the filter uses them: the source's thread pushes      *)
(* samples while it is active and its allocator is committed, the renderer *)
(* keeps a sample until it is presented, flushed or stopped.  The graph    *)
(* stops the renderer first, then this filter, then the source.            *)
(***************************************************************************)
EXTENDS Naturals, FiniteSets

CONSTANTS
  Buffers,   \* The samples of the output pin's allocator
  NoBuffer   \* Not a sample

ASSUME StreamingAssumption ==
  IsFiniteSet(Buffers) /\ Buffers # {} /\ NoBuffer \notin Buffers

VARIABLES
  \* the filter
  m_State,          \* "stopped", "paused" or "running"
  m_bFlushing,      \* of the input pin
  m_bRunTimeError,  \* of the input pin
  m_bEOSDelivered,  \* Pause has sent the EndOfStream of an unconnected input
  m_csFilter,       \* The thread that owns it, or "none"
  m_csReceive,      \* The thread that owns it, or "none"
  inputConnected, outputConnected,  \* IsConnected() of the two pins
  \* the two allocators
  inCommitted,      \* The source can get a sample to push
  outCommitted,     \* The output pin's allocator is committed
  outSample,        \* pOutSample in CTransformFilter::Receive
  \* the threads
  stream,           \* Where the streaming thread is
  item,             \* What it is pushing: a "sample" of the media stream, one
                    \* of a "badType", one of an "otherStream", or "eos"
  graph,            \* Where the graph's thread is
  goal,             \* The state Pause was called for
  seek,             \* Where the seeking thread is
  \* the neighbours
  srcActive,        \* The source has been started by the graph
  srcEnded,         \* It has sent EndOfStream since the last flush or stop
  srcHalted,        \* The source has been told to stop pushing for a flush
  rBlocks,          \* The renderer's Receive waits for the presentation; or it
                    \* queues the sample and returns
  rState,           \* The renderer's state
  rFlushing,        \* The renderer is in a flush
  rHeld,            \* The samples the renderer holds
  rEOS              \* EndOfStreams it has accepted since its last flush or stop

filterVars == <<m_State, m_bFlushing, m_bRunTimeError, m_bEOSDelivered>>
lockVars   == <<m_csFilter, m_csReceive>>
linkVars   == <<inputConnected, outputConnected>>
allocVars  == <<inCommitted, outCommitted>>
streamVars == <<stream, item, outSample>>
graphVars  == <<graph, goal>>
srcVars    == <<srcActive, srcEnded, srcHalted>>
rVars      == <<rBlocks, rState, rFlushing, rHeld, rEOS>>

\* What the steps of the streaming thread change besides its place.
receiveVars == <<m_bRunTimeError, m_csReceive, outSample, rHeld, rEOS>>

transformVars == <<filterVars, lockVars, linkVars, allocVars, streamVars, graphVars,
                   seek, srcVars, rVars>>

StreamInit ==
  /\ m_State = "stopped"
  /\ m_bFlushing = FALSE
  /\ m_bRunTimeError = FALSE
  /\ m_bEOSDelivered = FALSE
  /\ m_csFilter = "none"
  /\ m_csReceive = "none"
  /\ inputConnected \in BOOLEAN
  /\ outputConnected \in BOOLEAN
  /\ inCommitted = FALSE
  /\ outCommitted = FALSE
  /\ outSample = NoBuffer
  /\ stream = "idle"
  /\ item = "sample"
  /\ graph = "idle"
  /\ goal = "paused"
  /\ seek = "idle"
  /\ srcActive = FALSE
  /\ srcEnded = FALSE
  /\ srcHalted = FALSE
  /\ rBlocks \in BOOLEAN
  /\ rState = "stopped"
  /\ rFlushing = FALSE
  /\ rHeld = {}
  /\ rEOS = 0

\* The renderer accepts data only while it is active and not flushing; an
\* accepted EndOfStream is counted up to two, enough to see a second one.
RendererAccepts == rState # "stopped" /\ ~rFlushing
CountedEOS      == IF RendererAccepts /\ rEOS < 2 THEN rEOS + 1 ELSE rEOS

-----------------------------------------------------------------------------
(* The streaming thread.                                                   *)

StreamGoto(from, to) == stream = from /\ stream' = to

\* The source's thread calls Receive with a sample of the input allocator, or
\* EndOfStream, and waits for m_csReceive.
Push ==
  /\ srcActive /\ ~srcHalted /\ ~srcEnded
  /\ StreamGoto("idle", "enter")
  /\ item' \in {"sample", "badType", "otherStream", "eos"}
  /\ inCommitted \/ item' = "eos"
  /\ srcEnded' = (item' = "eos")
  /\ UNCHANGED <<filterVars, lockVars, linkVars, allocVars, outSample,
                 graphVars, seek, srcActive, srcHalted, rVars>>

\* CAutoLock lck(&m_csReceive).
ReceiveEnter ==
  /\ m_csReceive = "none"
  /\ m_csReceive' = "stream"
  /\ StreamGoto("enter", "check")
  /\ UNCHANGED <<m_bRunTimeError, rHeld, rEOS, outSample>>

\* CTransformInputPin::CheckStreaming returns S_OK.
CheckStreaming ==
  outputConnected /\ ~m_bFlushing /\ m_State # "stopped" /\ ~m_bRunTimeError

ReceiveRefused ==
  /\ ~CheckStreaming
  /\ StreamGoto("check", "leave")
  /\ UNCHANGED receiveVars

\* CBaseInputPin::Receive: the format is unchanged, or a new one is accepted.
ReceiveAccepted ==
  /\ CheckStreaming /\ item = "sample"
  /\ StreamGoto("check", "getBuffer")
  /\ UNCHANGED receiveVars

\* CBaseInputPin::Receive: CheckMediaType fails on the sample's new format.
ReceiveBadType ==
  /\ CheckStreaming /\ item = "badType"
  /\ StreamGoto("check", "raise")
  /\ UNCHANGED receiveVars

\* m_bRunTimeError = TRUE, under m_csReceive only.
RaiseRunTimeError ==
  /\ StreamGoto("raise", "raiseEOS")
  /\ m_bRunTimeError' = TRUE
  /\ UNCHANGED <<m_csReceive, outSample, rHeld, rEOS>>

\* CTransformInputPin::EndOfStream: CheckStreaming, then straight downstream.
\* Called by the source, and by Receive itself after a run-time error.
EndOfStream(from, to) ==
  /\ StreamGoto(from, to)
  /\ rEOS' = IF CheckStreaming THEN CountedEOS ELSE rEOS
  /\ UNCHANGED <<m_bRunTimeError, m_csReceive, outSample, rHeld>>

ReceiveEndOfStream == item = "eos" /\ CheckStreaming /\ EndOfStream("check", "leave")
RaiseEndOfStream   == EndOfStream("raiseEOS", "abort")

\* NotifyEvent(EC_ERRORABORT), then VFW_E_INVALIDMEDIATYPE.
NotifyErrorAbort ==
  /\ StreamGoto("abort", "leave")
  /\ UNCHANGED receiveVars

\* CTransformFilter::Receive: a sample of another stream than AM_STREAM_MEDIA
\* is handed to the renderer as it is.
PassOtherStream ==
  /\ CheckStreaming /\ item = "otherStream"
  /\ StreamGoto("check", "passOn")
  /\ UNCHANGED receiveVars

OtherStreamReturns ==
  /\ rBlocks => rState = "running" \/ ~RendererAccepts
  /\ StreamGoto("passOn", "leave")
  /\ UNCHANGED receiveVars

\* InitializeOutputSample: GetBuffer is refused, or takes a free sample; while
\* there is none it waits.
FreeSamples == Buffers \ (rHeld \cup {outSample})

\* Fault: a thread that waits is not told of a Decommit.
GetBufferWaits == FALSE
GetBufferFails == ~outCommitted

GetBufferRefused ==
  /\ GetBufferFails
  /\ StreamGoto("getBuffer", "leave")
  /\ UNCHANGED receiveVars

GetBuffer ==
  /\ outCommitted
  /\ outSample' \in FreeSamples
  /\ StreamGoto("getBuffer", "transform")
  /\ UNCHANGED <<m_bRunTimeError, rHeld, rEOS, m_csReceive>>

\* Transform() may fail (the sample is not delivered) or succeed.
TransformSample ==
  /\ stream = "transform"
  /\ stream' \in {"deliver", "release"}
  /\ UNCHANGED receiveVars

\* m_pInputPin->Receive(pOutSample): the renderer keeps the sample or refuses.
Deliver ==
  /\ StreamGoto("deliver", IF RendererAccepts THEN "downstream" ELSE "release")
  /\ rHeld' = IF RendererAccepts THEN rHeld \cup {outSample} ELSE rHeld
  /\ UNCHANGED <<m_bRunTimeError, m_csReceive, outSample, rEOS>>

DownstreamReturns ==
  /\ rBlocks => outSample \notin rHeld
  /\ StreamGoto("downstream", "release")
  /\ UNCHANGED receiveVars

\* pOutSample->Release() on every path out of CTransformFilter::Receive.
ReleaseForgotten == UNCHANGED outSample  \* Fault: the sample is kept
ReleaseSample    == outSample' = NoBuffer

ReleaseOutSample ==
  /\ StreamGoto("release", "leave")
  /\ ReleaseSample
  /\ UNCHANGED <<m_bRunTimeError, rHeld, rEOS, m_csReceive>>

ReceiveLeave ==
  /\ StreamGoto("leave", "idle")
  /\ m_csReceive' = "none"
  /\ UNCHANGED <<m_bRunTimeError, rHeld, rEOS, outSample>>

StreamStep ==
  /\ \/ ReceiveEnter \/ ReceiveRefused \/ ReceiveAccepted \/ ReceiveBadType
     \/ RaiseRunTimeError \/ ReceiveEndOfStream \/ RaiseEndOfStream
     \/ NotifyErrorAbort \/ PassOtherStream \/ OtherStreamReturns
     \/ GetBufferRefused \/ GetBuffer \/ TransformSample \/ Deliver
     \/ DownstreamReturns \/ ReleaseOutSample \/ ReceiveLeave
  /\ UNCHANGED <<m_State, m_bFlushing, m_bEOSDelivered, m_csFilter,
                 linkVars, allocVars, item, graphVars, srcVars, rBlocks,
                 rState, rFlushing, seek>>

-----------------------------------------------------------------------------
(* The graph's thread.                                                     *)

GraphGoto(from, to) == graph = from /\ graph' = to
FullyConnected == inputConnected /\ outputConnected

\* The graph pauses or runs the renderer first, then this filter.
GraphActivate ==
  /\ \/ rState = "stopped" /\ rState' = "paused"
     \/ rState \in {"paused", "running"} /\ rState' \in {"paused", "running"}
  /\ goal' = rState'
  /\ GraphGoto("idle", IF goal' = "paused" THEN "pause" ELSE "run")
  /\ UNCHANGED <<filterVars, lockVars, linkVars, allocVars, streamVars, seek,
                 srcVars, rBlocks, rFlushing, rHeld, rEOS>>

\* CBaseFilter::Run on an active filter; on a stopped one it calls Pause, still
\* holding m_csFilter, before it makes the filter running.
RunActive ==
  /\ m_csFilter = "none"
  /\ m_State # "stopped"
  /\ GraphGoto("run", "start")
  /\ m_State' = "running"
  /\ UNCHANGED <<m_bFlushing, m_bRunTimeError, m_bEOSDelivered, m_csFilter,
                 inCommitted, outCommitted, srcActive, srcEnded, rEOS>>

InPause == graph = "pause" \/ (graph = "run" /\ m_State = "stopped")

\* Pause tells the renderer once that an unconnected input delivers nothing.
EndOfStreamDue == m_State # "paused" /\ ~inputConnected /\ ~m_bEOSDelivered

\* CTransformFilter::Pause under m_csFilter when there is nothing to start:
\* already active, or a pin is not connected.
PauseSimple ==
  /\ m_csFilter = "none"
  /\ m_State # "stopped" \/ ~FullyConnected
  /\ InPause /\ graph' = "start"
  /\ m_State' = goal
  /\ IF EndOfStreamDue
     THEN /\ m_bEOSDelivered' = TRUE
          /\ rEOS' = IF outputConnected THEN CountedEOS ELSE rEOS
     ELSE UNCHANGED <<m_bEOSDelivered, rEOS>>
  /\ UNCHANGED <<m_bFlushing, m_bRunTimeError, m_csFilter, inCommitted,
                 outCommitted, srcActive, srcEnded>>

\* CTransformFilter::Pause on a stopped filter takes m_csReceive for
\* StartStreaming while it holds m_csFilter.
PauseEnter ==
  /\ m_csFilter = "none"
  /\ m_State = "stopped" /\ FullyConnected
  /\ m_csFilter' = "graph"
  /\ InPause /\ graph' = "startStreaming"
  /\ UNCHANGED <<m_State, m_bFlushing, m_bRunTimeError, m_bEOSDelivered,
                 inCommitted, outCommitted, srcActive, srcEnded, rEOS>>

StartStreaming ==
  /\ m_csReceive = "none"
  /\ GraphGoto("startStreaming", "activate")
  /\ UNCHANGED <<m_State, m_bFlushing, m_bRunTimeError, m_bEOSDelivered,
                 m_csFilter, inCommitted, outCommitted, srcActive, srcEnded,
                 rEOS>>

CommitFails == ~outCommitted /\ UNCHANGED <<outCommitted, m_State>>

\* CBaseFilter::Pause: the output pin commits its allocator; if that fails the
\* filter stays stopped.
Activate ==
  /\ GraphGoto("activate", "start")
  /\ \/ outCommitted' = TRUE /\ m_State' = goal
     \/ CommitFails
  /\ m_csFilter' = "none"
  /\ UNCHANGED <<m_bFlushing, m_bRunTimeError, m_bEOSDelivered, inCommitted,
                 srcActive, srcEnded, rEOS>>

\* The graph starts the source, unless the filter has failed to start.
StartSource ==
  /\ GraphGoto("start", "idle")
  /\ srcActive' = (m_State # "stopped" /\ inputConnected)
  /\ inCommitted' = srcActive'
  /\ UNCHANGED <<m_State, m_bFlushing, m_bRunTimeError, m_bEOSDelivered,
                 m_csFilter, outCommitted, srcEnded, rEOS>>

\* The graph stops the renderer, whose pin decommits the shared allocator.
GraphStop ==
  /\ GraphGoto("idle", "stop")
  /\ rState # "stopped"
  /\ rState' = "stopped"
  /\ rHeld' = {}
  /\ rEOS' = 0
  /\ outCommitted' = FALSE
  /\ UNCHANGED <<filterVars, lockVars, linkVars, inCommitted, streamVars,
                 goal, seek, srcVars, rBlocks, rFlushing>>

\* CTransformFilter::Stop on a stopped or not completely connected filter.
StopSimple ==
  /\ m_csFilter = "none"
  /\ m_State = "stopped" \/ ~FullyConnected
  /\ GraphGoto("stop", "stopSource")
  /\ m_State' = "stopped"
  /\ m_bEOSDelivered' = (m_bEOSDelivered /\ m_State = "stopped")
  /\ UNCHANGED <<m_bFlushing, m_bRunTimeError, m_csFilter, inCommitted,
                 outCommitted, srcActive, srcEnded, rEOS>>

StopEnter ==
  /\ m_csFilter = "none"
  /\ m_State # "stopped" /\ FullyConnected
  /\ m_csFilter' = "graph"
  /\ GraphGoto("stop", "inactive")
  /\ UNCHANGED <<m_State, m_bFlushing, m_bRunTimeError, m_bEOSDelivered,
                 inCommitted, outCommitted, srcActive, srcEnded, rEOS>>

\* m_pInput->Inactive(), "before locking or we can deadlock".
StopInput ==
  /\ GraphGoto("inactive", "synchronize")
  /\ m_bRunTimeError' = FALSE
  /\ m_bFlushing' = FALSE
  /\ inCommitted' = FALSE
  /\ UNCHANGED <<m_State, m_bEOSDelivered, m_csFilter, outCommitted,
                 srcActive, srcEnded, rEOS>>

\* CAutoLock lck2(&m_csReceive): Stop synchronizes with Receive.
ReceiveIgnored == TRUE  \* Fault: Stop does not take m_csReceive
ReceiveFree    == m_csReceive = "none"

\* m_pOutput->Inactive(), StopStreaming() and the transition.
StopOutput ==
  /\ ReceiveFree
  /\ GraphGoto("synchronize", "stopSource")
  /\ outCommitted' = FALSE
  /\ m_State' = "stopped"
  /\ m_bEOSDelivered' = FALSE
  /\ m_csFilter' = "none"
  /\ UNCHANGED <<m_bFlushing, m_bRunTimeError, inCommitted, srcActive,
                 srcEnded, rEOS>>

\* The graph stops the source: its thread is told to stop, then waited for.
StopSource ==
  /\ GraphGoto("stopSource", "joinSource")
  /\ srcActive' = FALSE
  /\ srcEnded' = FALSE
  /\ inCommitted' = FALSE
  /\ UNCHANGED <<m_State, m_bFlushing, m_bRunTimeError, m_bEOSDelivered,
                 m_csFilter, outCommitted, rEOS>>

JoinSource ==
  /\ stream = "idle"
  /\ GraphGoto("joinSource", "idle")
  /\ UNCHANGED <<m_State, m_bFlushing, m_bRunTimeError, m_bEOSDelivered,
                 m_csFilter, inCommitted, outCommitted, srcActive, srcEnded,
                 rEOS>>

GraphStep ==
  /\ \/ RunActive \/ PauseSimple \/ PauseEnter \/ StartStreaming \/ Activate
     \/ StartSource \/ StopSimple \/ StopEnter \/ StopInput \/ StopOutput
     \/ StopSource \/ JoinSource
  /\ UNCHANGED <<m_csReceive, linkVars, streamVars, goal, srcHalted,
                 rBlocks, rState, rFlushing, rHeld, seek>>

-----------------------------------------------------------------------------
(* The seeking thread.                                                     *)

SeekGoto(from, to) == seek = from /\ seek' = to

\* The source flushes downstream before it restarts at a new position.
CallBeginFlush ==
  /\ FullyConnected
  /\ SeekGoto("idle", "begin")
  /\ UNCHANGED <<filterVars, lockVars, linkVars, allocVars, streamVars,
                 graphVars, srcVars, rVars>>

\* Faults: BeginFlush synchronizes with Receive, as Stop does; it takes no lock.
FilterIgnored        == TRUE
FilterAndReceiveFree == m_csFilter = "none" /\ m_csReceive = "none"

\* BeginFlush takes m_csFilter only.
FilterFree == m_csFilter = "none"

\* CBaseInputPin::BeginFlush sets the flag first, so that Receives are refused.
BeginFlush ==
  /\ FilterFree
  /\ m_csFilter' = "seek"
  /\ SeekGoto("begin", "beginDownstream")
  /\ m_bFlushing' = TRUE
  /\ UNCHANGED <<m_bRunTimeError, srcEnded, srcHalted, rFlushing, rHeld, rEOS>>

\* DeliverBeginFlush: the renderer gives up what it holds.
DeliverBeginFlush ==
  /\ SeekGoto("beginDownstream", "halt")
  /\ rFlushing' = TRUE
  /\ rHeld' = {}
  /\ m_csFilter' = "none"
  /\ UNCHANGED <<m_bFlushing, m_bRunTimeError, srcEnded, srcHalted, rEOS>>

\* The source tells its thread to stop pushing and waits until it has.
HaltSource ==
  /\ SeekGoto("halt", "sync")
  /\ srcHalted' = TRUE
  /\ UNCHANGED <<m_bFlushing, m_bRunTimeError, m_csFilter, srcEnded,
                 rFlushing, rHeld, rEOS>>

SyncSource ==
  /\ stream = "idle"
  /\ SeekGoto("sync", "end")
  /\ UNCHANGED <<m_bFlushing, m_bRunTimeError, m_csFilter, srcEnded,
                 srcHalted, rFlushing, rHeld, rEOS>>

\* EndFlush under m_csFilter: DeliverEndFlush first.
DeliverEndFlush ==
  /\ m_csFilter = "none"
  /\ m_csFilter' = "seek"
  /\ SeekGoto("end", "endFlush")
  /\ rFlushing' = FALSE
  /\ rEOS' = 0
  /\ UNCHANGED <<m_bFlushing, m_bRunTimeError, srcEnded, srcHalted, rHeld>>

\* Then CBaseInputPin::EndFlush re-enables Receives, and the source restarts.
EndFlush ==
  /\ SeekGoto("endFlush", "idle")
  /\ m_bFlushing' = FALSE
  /\ m_bRunTimeError' = FALSE
  /\ m_csFilter' = "none"
  /\ srcHalted' = FALSE
  /\ srcEnded' = FALSE
  /\ UNCHANGED <<rFlushing, rHeld, rEOS>>

SeekStep ==
  /\ \/ BeginFlush \/ DeliverBeginFlush \/ HaltSource \/ SyncSource
     \/ DeliverEndFlush \/ EndFlush
  /\ UNCHANGED <<m_State, m_bEOSDelivered, m_csReceive, linkVars,
                 allocVars, streamVars, graphVars, srcActive, rBlocks,
                 rState>>

\* A running renderer presents a sample and lets it go.
Present ==
  /\ rState = "running"
  /\ \E b \in rHeld : rHeld' = rHeld \ {b}
  /\ UNCHANGED <<filterVars, lockVars, linkVars, allocVars, streamVars,
                 graphVars, seek, srcVars, rBlocks, rState, rFlushing, rEOS>>

-----------------------------------------------------------------------------
StreamNext ==
  \/ Push \/ StreamStep
  \/ GraphActivate \/ GraphStop \/ GraphStep
  \/ CallBeginFlush \/ SeekStep
  \/ Present

StreamSpec == StreamInit /\ [][StreamNext]_transformVars

\* Threads that can run do; the application's commands do not keep each other
\* out of m_csFilter for ever.  Nothing is assumed of the race for m_csReceive.
Fairness ==
  /\ WF_transformVars(StreamStep)
  /\ WF_transformVars(GraphStep)
  /\ WF_transformVars(SeekStep)
  /\ SF_transformVars(graph = "stop" /\ GraphStep)
  /\ SF_transformVars(seek \in {"begin", "end"} /\ SeekStep)
  /\ WF_transformVars(Present)

FairStreamSpec == StreamSpec /\ Fairness

-----------------------------------------------------------------------------
\* The types of the variables, and who owns the two critical sections.
StreamTypeOK ==
  /\ m_State \in {"stopped", "paused", "running"}
  /\ m_bFlushing \in BOOLEAN
  /\ m_bRunTimeError \in BOOLEAN
  /\ m_bEOSDelivered \in BOOLEAN
  /\ m_csFilter \in {"none", "graph", "seek"}
  /\ m_csReceive \in {"none", "stream"}
  /\ inputConnected \in BOOLEAN /\ outputConnected \in BOOLEAN
  /\ inCommitted \in BOOLEAN /\ outCommitted \in BOOLEAN
  /\ outSample \in Buffers \cup {NoBuffer}
  /\ stream \in {"idle", "enter", "check", "raise", "raiseEOS", "abort",
                 "passOn", "getBuffer", "transform", "deliver", "downstream",
                 "release", "leave"}
  /\ item \in {"sample", "badType", "otherStream", "eos"}
  /\ graph \in {"idle", "pause", "run", "startStreaming", "activate", "start",
                "stop", "inactive", "synchronize", "stopSource", "joinSource"}
  /\ goal \in {"paused", "running"}
  /\ seek \in {"idle", "begin", "beginDownstream", "halt", "sync", "end",
               "endFlush"}
  /\ srcActive \in BOOLEAN /\ srcEnded \in BOOLEAN /\ srcHalted \in BOOLEAN
  /\ rBlocks \in BOOLEAN
  /\ rState \in {"stopped", "paused", "running"}
  /\ rFlushing \in BOOLEAN
  /\ rHeld \subseteq Buffers
  /\ rEOS \in 0..2
  /\ m_csReceive = "stream" <=> stream \notin {"idle", "enter"}
  /\ m_csFilter = "graph" <=>
       graph \in {"startStreaming", "activate", "inactive", "synchronize"}
  /\ m_csFilter = "seek" <=> seek \in {"beginDownstream", "endFlush"}

\* The streaming thread is processing a sample: past CheckStreaming.
Processing == stream \in {"raise", "raiseEOS", "abort", "passOn",
                          "getBuffer", "transform", "deliver", "downstream", "release"}

\* transfrm.h:283: m_csReceive stops state changes while a sample is processed:
\* the filter never becomes stopped under the streaming thread.
NoStopWhileProcessing ==
  [][Processing /\ m_State # "stopped" => m_State' # "stopped"]_transformVars

\* Once Stop has returned, no sample of the output allocator is outstanding on
\* any path through Receive: refused, failed, delivered or flushed.
StoppedHoldsNothing ==
  m_State = "stopped" /\ rState = "stopped" => outSample = NoBuffer /\ rHeld = {}

\* A failed Pause leaves the filter stopped: an active filter between an active
\* source and renderer always has a committed output allocator.
ActiveIsCommitted ==
  m_State # "stopped" /\ rState # "stopped" /\ FullyConnected => outCommitted

\* Without an input connection the renderer gets exactly one EndOfStream every
\* time the filter is activated, however often it is paused and run.
UnconnectedEndsOnce ==
  ~inputConnected /\ outputConnected /\ m_State # "stopped" /\ rState # "stopped"
    => rEOS = 1

\* What each change of state leaves behind, whatever the streaming thread was
\* doing: no sample is leaked, the allocator is committed exactly while it may
\* be used, and a renderer without a source has had its one EndOfStream.
StatesAreClean == StoppedHoldsNothing /\ ActiveIsCommitted /\ UnconnectedEndsOnce

\* transfrm.cpp:691: EndOfStream passes straight downstream; so the renderer
\* that is told of a run-time error has had the EndOfStream sent before it.
ErrorAbortAfterEndOfStream ==
  stream = "abort" /\ RendererAccepts /\ ~m_bFlushing => rEOS > 0

\* Stop returns: neither the locks nor a streaming thread blocked in GetBuffer
\* or in the renderer hold it up.
StopReturns == graph = "stop" ~> graph = "idle"

\* BeginFlush returns even if the streaming thread is blocked in Receive, and
\* the flush is completed.
FlushReturns == seek = "begin" ~> seek = "idle"

\* The locks that keep a stop away from a sample in process never keep a stop or
\* a flush from returning.
ControlReturns == NoStopWhileProcessing /\ StopReturns /\ FlushReturns

=============================================================================
