# TLA+ models of the DirectShow Metadata Injector Filter

The filter sits between a video source and a renderer in a DirectShow graph. It
copies every frame, attaches HDR metadata to one frame per second, and tells the
renderer of a media type with the colour information the source leaves out. Its
threads, locks and buffers come from the DirectShow base classes that are
compiled into it. These modules model both: the filter's own logic, and the part
of the base classes it runs on. All paths below are relative to
`src/cpp/directshow_baseclasses/` (base classes) or
`src/cpp/directshow_metadata_injector_filter/` (the filter).

## Inventory

| Part | State | Operations | Talks to | What makes it correct |
|---|---|---|---|---|
| Sample allocator: `CBaseAllocator`, `CMemAllocator`, `CMediaSample` (`amfilter.cpp`) | free list, number of samples agreed and allocated, committed / decommit in progress, waiters, semaphore, reference counts | `SetProperties`, `Commit`, `Decommit`, `GetBuffer`, `ReleaseBuffer`, `AddRef`/`Release` of samples and allocator | both pins of a connection, the streaming thread, the renderer's threads | no wakeup, sample or reference is lost; nothing is deleted while in use |
| Streaming and state: `CTransformFilter`, its pins (`transfrm.cpp`) | `m_State`, `m_bFlushing`, `m_bRunTimeError`, `m_bEOSDelivered`, locks `m_csFilter` and `m_csReceive` | `Receive`, `EndOfStream`, `Pause`, `Run`, `Stop`, `BeginFlush`, `EndFlush` | source thread, graph thread, seeking thread, renderer | no state change under a sample; no deadlock; every sample released; each activation ends once |
| The injector: `MetadataInjectorFilter` (`metadata_injector_filter.cpp`) | `mFrameCounter`, `mFramesPerSecond`, the configured metadata, types of the pins | `Transform`, `Copy`, `GetMediaType`, `BuildFakeMediaType`, `CheckInputType`, `CheckTransform`, `DecideBufferSize` | the two above, the renderer's samples (`IMediaSideData`) | metadata at least once per second; the renderer knows the colours; buffers large enough |
| Connection: `CBasePin`, `CBaseInputPin`, `CBaseOutputPin` (`amfilter.cpp`) | connected pin, media type, allocator | `Connect`, `ReceiveConnection`, `AgreeMediaType`, `Disconnect` | the peer's pin | both ends agree, a failed attempt leaves nothing behind |
| Configuration file: `LoadConfig`, `utils.cpp`, `example_config.ini` | the values read | read once, in the constructor | the generator, through the file | the values are those configured, or the documented defaults |
| Generator (Python, `src/python/`) | none but the file | poll the device, decode, rewrite the file | the device, the file | complete, current values |
| Property page: `MetadataInjectorProperties`, `CBasePropertyPage` (`cprop.cpp`) | file name, dirty, active, object, site | `SetObjects`, `Activate`, `Deactivate`, `Apply` | the filter | what was entered reaches the filter, nothing else does |
| Enumerators: `CEnumPins`, `CEnumMediaTypes` (`amfilter.cpp`) | position, version, cache of pins told | `Next`, `Skip`, `Reset`, `Clone` | the filter, which changes its lists without a lock | each pin told once, each type in order |
| Dynamic pin: `CDynamicOutputPin` (`amfilter.cpp`) | state of the block, its caller, number of users, events | `Block`, `StartUsingOutputPin`, `StopUsingOutputPin`, `ChangeMediaType` | applications, the streaming thread | nobody uses the pin while it is reconnected; every call returns |
| Renderer: `CBaseRenderer`, `CBaseVideoRenderer` (`renbase.cpp`) | state, sample held, end of stream, cookie of the clock, timer, quality sink | `Receive`, `Stop`, `Pause`, `Run`, flushes, `EndOfStream`, `OnDisplayChange`, `ShouldDrawSampleNow` | streaming thread, graph, clock, timer, window, filter upstream | nothing shown early or after a stop; the end told once; no deadlock |
| Clock: `CBaseReferenceClock`, `CAMSchedule` | time, last reading of the counter, list of requests | `GetTime`, `SetTimeDelta`, `AdviseTime`, `Unadvise`, its thread | every renderer | time true and never back; no request lost, late or after its withdrawal |
| Queues between threads: `COutputQueue`, `CQueue`, `CMsgThread` | what is queued and batched, waiters, semaphores | put, get, flush, end, reset, delete | producer, control thread, the queue's thread | a channel: once, in order, nothing of before a flush after it |
| Workers: `CAMThread`, `CSourceStream`, `CPullPin` | request and answer, state of the worker, requests to the reader | the commands, deliver, seek, stop | the control thread, the reader, the filter | each call gets its answer; nothing outstanding after a stop |
| Stream control: `CBaseStreamControl` (`strmctl.cpp`) | start and stop requests, state | `StartAt`, `StopAt`, `CheckStreamState`, flushes, state changes | application, streaming thread | each request served once; no sample held for ever |
| Deferred commands: `CCmdQueue`, `CDeferredCommand` (`ctlutil.cpp`) | two lists in order of time, the advice asked of the clock | insert, remove, `GetDueCommand`, `Invoke`, `Cancel`, `Postpone` | application, the thread that serves, the clock | earliest first, each invoked once, references held |
| Seeking: `CSourceSeeking`, `CRendererPosPassThru` | start and stop, position rendered, its reset | `SetPositions`, `RegisterMediaTime`, `EOS` | source, renderer, timer | the position told is of the current segment |
| Transforms: `CTransInPlaceFilter`, `CVideoTransformFilter` | allocators of both pins, lateness, wait for a key frame | `GetAllocator`, `NotifyAllocator`, `CheckMediaType`, `Receive`; `ShouldSkipFrame`, `AlterQuality` | neighbours on both sides | one agreement; what is shown can be decoded |
| Lists: `CBaseList` (`wxlist.cpp`) | nodes, links, count, cache | add, remove, move, copy, split | all of the above | a sequence of positions |
| DLL: `CUnknown`, `CClassFactory`, registration (`combase.cpp`, `dllentry.cpp`, `dllsetup.cpp`) | counts of references, objects and locks; the registry | `AddRef`, `Release`, `CreateInstance`, `LockServer`, `DllCanUnloadNow`, register and unregister | clients, COM | no object dies or loses its code in use; no half registration |
| Persistence: `CPersistStream` (`pstream.cpp`) | file name | `Save`, `Load` | nobody: the interface is never handed out (`metadata_injector_filter.cpp:94`) | not modelled |
| Windows, drawing, logging, arithmetic | - | - | - | not modelled |

Hard behaviour: three threads (streaming, graph, seeking) and two locks, one of
which is held across calls that block; an allocator that is decommitted while its
samples are out and destroyed by whoever lets go last; lazily signalled waits;
samples, format changes and connections that arrive in orders nobody tests; a
counter that wraps and a rate that is computed elsewhere, at another time.
`PROJECT.json` lists each hazard at its line.

## Modules

| Module | Models | Variables and code |
|---|---|---|
| `MemAllocator` | the allocator and the life of its samples | named as the members; `holds`, `pc`, `cur`: who holds counted pointers to which samples, where each thread is in `GetBuffer` or `Release`; `pin`: where each pin is in `Decommit` or `BreakConnect` |
| `Streaming` | `CTransformFilter` between a source and a renderer | members by name; `stream`, `graph`, `seek`: where the three threads are; `outSample`: `pOutSample`; `src*`, `r*`: the neighbours |
| `Injector` | frames, metadata, media types, connections | members by name; `inType`, `srcType`, `rType`: the type of the input pin, of the arriving samples, and the one the renderer was last told; `since`, `streak`, `rStreak`, `lost`, `shown`: what the properties are about |
| `ConfigFile` | the generator, the .ini file, `LoadConfig` | `doing`, `reply`, `output`: the generator's loop and its `data` and `output`; `file`: what a reader finds; `next`, `config`: the next key of `LoadConfig` and the filter's members; `device`: what the HDFury would reply. A value is the number of the device's state it comes from |
| `Connection` | `Connect` to `Disconnect` between the pins of a source, the injector and a renderer | `g`: the members of pins and filters; `call`, `place`: where `Connect` is, with its locals; `offers`, `accepts`: what the neighbours enumerate and take |
| `TypeEnumerator`, `PinEnumerator` | `CEnumMediaTypes`, `CEnumPins` and the lists they tell of | `te`, `pe`: the enumerators; `types`, `pins` and their versions: the filter's |
| `DynamicPin` | `CDynamicOutputPin` with application threads and a streaming thread | members by name; `at`, `stream`: where the threads are |
| `Renderer` | `CBaseRenderer` with its six kinds of callers | members by name; `holder`: the call that waits with its locks held |
| `VideoQuality` | what `CBaseVideoRenderer` draws and drops | `planned`: the sample's fate; running averages are choices |
| `Clock` | `CBaseReferenceClock`, `CAMSchedule` | `ticks`, `truth`: the system's counter, and the time without its wrap |
| `Channel` | the promise of a queue: abstract | `accepted`, `out` |
| `OutputQueue`, `SlotQueue`, `MsgThread` | `COutputQueue`, `CQueue`, `CMsgThread`, each an implementation of `Channel` | members by name; what has gone in and come out |
| `AMThread`, `SourceStream`, `PullPin` | `CAMThread` and two classes derived from it, as modules that extend it | `worker`, `control`: where the two threads are |
| `StreamControl` | `CBaseStreamControl` | members by name; `thread`: the sample being decided |
| `CommandQueue` | `CCmdQueue`, `CDeferredCommand` | `lists`; `call`: where each `Cancel` or `Postpone` is; `server`: the thread that invokes |
| `Seeking` | a seek from `CRendererPosPassThru` to `CSourceSeeking` | members by name; `seek`, `stream`, `timer`: the threads |
| `TransInPlace`, `VideoTransform` | the agreement of the in-place filter; the frames a decoder skips | `f`: members of both pins; `q`: lateness and what has been skipped |
| `Lists`, `GenericList` | the promise of a list, and `CBaseList`, which implements it | `h`: nodes, links, counts, caches |
| `PropertyPage` | the page and its frame | members by name; `text`: the edit control |
| `Server`, `Registration` | the DLL's counts; its registration | counts by name; `todo`: the changes of the registry a call still has to make |
| `MC*` | instances for TLC. `MCFilter`, `MCRendering`, `MCQueues`, `MCThreads` and `MCServices` hold several independent modules; `part` names the one that moves, so that the sum of the instances is checked, not their product | |
| `MemAllocator_proofs`, `Connection_proofs`, `Lists_proofs`, `Rendering_proofs`, `Queues_proofs`, `Threads_proofs`, `Filter_proofs`, `Services_proofs` | theorems about the module or, of the last five, the instance of that name; `Lists_proofs` is about `GenericList`, `Filter_proofs` also about `ConfigFile` | |

`SourceStream` and `PullPin` compose with `AMThread` by extending it: a call of the
control thread, its answer and the worker's step are joint actions. `Injector`
composes what `Connection`, `Streaming` and `MemAllocator` do in detail, one call
per step.

**Refinement.** `Channel` says what a queue promises: what has come out is, in
order, a part of what went in; anything may be lost from the front, which is how a flush
looks from outside.
`OutputQueue`, `SlotQueue` and `MsgThread` instantiate it with the sequences of
what was put and what came out (`IsChannel`), and `QueuesAreChannels` is checked as
a property of each. `Lists` says what a list promises, position by position, and
`GenericList` maps its nodes and links to it by following the links
(`IsLists`). Both mappings are total: what is batched, cached or in a thread's
hands is computed, not remembered.

**Granularity.** In `MemAllocator` each critical section is a step and so is each
piece of code between two of them: the unlocked store of a sample's count in
`GetBuffer`, the test and the store of `CMediaSample::Release`, the wait on the
semaphore, the read of `m_pNotify` after the lock of `ReleaseBuffer`, and the
`Release()` that may destroy the allocator. In `Streaming` a step is what a
thread does between two points at which another can interfere: taking a lock,
reading the flags in `CheckStreaming`, setting one of them outside `m_csReceive`,
`GetBuffer`, the call into the renderer. In `Injector` one call is one step: the
locks are the subject of `Streaming`, the buffers that of `MemAllocator`. In
`ConfigFile` every access to the file is a step: emptying it when it is opened,
filling it when it is closed (the few lines stay in Python's buffer until then),
and each read of a key. Keys that are read one after the other, by the same
function, and come from the same half of the reply, are one.

**Neighbours.** Source, renderer and graph are not in the repository; they are
modelled from how the filter uses them and marked external in the map. The source
pushes while it is active and its allocator is committed, stops pushing when it
is told to and waits for its thread. The renderer keeps a sample until it is
presented, flushed or stopped, and either waits for the presentation in its
`Receive` or queues. The graph starts and stops from the renderer upstream, and
may do so in the middle of a flush.

## Runs

Each property of a run joins the properties of one theme, which the modules state
and comment one by one.

| Run | Shows | Bounds and why they are enough |
|---|---|---|
| `alloc_safety` | three threads that all get, share and release; two pins that commit, decommit, renegotiate and disconnect | 2 samples: one free and one out, or both out; 3 threads: a holder, a waiter and a releaser. One pending `AM_GBF_NOWAIT`. Threads are interchangeable (symmetry) |
| `alloc_liveness` | with the filter's roles, a blocked `GetBuffer` returns, and the documented wait count is exact | one getter, one renderer thread, 2 samples |
| `filter` | in an orderly graph all agrees: colours, sizes, rate, once per second, no division by zero; every interleaving of `Receive`, `Pause`, `Run`, `Stop` and flushes, both kinds of renderer; clients that create, refer to and release objects while COM asks to unload the DLL, none of them preempted within a `++` or `--` | 6 ticks: rates 6, 3 and 2; two sizes; modulus 8. 2 output samples: the code asks for 1, but the renderer may insist on more; with both queued the streaming thread blocks in `GetBuffer`, with a blocking renderer in `Receive`. 2 clients with 2 references each |
| `injector_cadence` | the cadence, the renderer's cadence and the side-data failure in every environment: changed formats, offered types, reconnected inputs, unknown frame durations | durations 0, 1 and 2 of 4 ticks (unknown, 4 and 2 frames per second, and every rate up to 4 from an unknown one); a counter of modulus 6, no multiple of 4, as 2^32 is no multiple of most rates; at most 2 metadata frames refused in a row |
| `injector_rate` (violation) | after a change of format in mid-stream the metadata is not updated once per second | as above |
| `config_load` | the generator, started, failing and interrupted at any place, against a filter that is created and loads at any time | a hand-written file and two states of the device: a load can meet three contents and the empty file between any two keys |
| `connection` | every way a connection is made, refused, broken at one end and undone, with filters started and types changed meanwhile | three filters, two kinds of types, one type and one partially specified one to ask for, one change of the list: a pin has a neighbour on each side, and each enumeration can meet a change once |
| `rendering` | the renderer with all its callers; the clock | two cookies and two timers pending: the one in force and the stale one; a counter of 4 ticks that wraps; one correction of the clock, small or large, either way |
| `queues` | the output queue in all its modes, the ring, the message thread as channels; a seek with samples, end of stream and timer; registration with steps that fail | 2 samples and 2 flushes or resets: something before, between and after; batches of 1 and 2; 2 slots, 2 putters and 2 getters; 4 messages; 2 seeks; 2 templates, one a filter; at each step the process may end or the call fail, except that clearing a filter and deleting keys never fail: what a caller may not open or delete, any set of three rights, stays without an error |
| `threads` | source and pull pin under their commands, the dynamic pin, stream control, skipped frames | 2 application threads and 2 users; 2 samples; a range of 2 with 1 seek; 2 calls of `StartAt` and `StopAt`; groups of at most 4 frames, all with time stamps (`Untimed = FALSE`) |
| `services` | property page, in-place transform, enumerators, deferred commands, quality messages | 2 names of ASCII characters, 1 other and 1 that the code page has not; 2 upstream allocators, 1 downstream, 3 own; lists of at most 2 pins at 3 addresses, 3 versions of them, so that a pin goes and another comes to its address; lists of at most 2 types and 2 versions of them; 2 commands and 2 calls, so that a command is postponed, or postponed and cancelled, by one application thread while the thread that invokes takes it |
| `lists` | the list and its cache of nodes implement the abstract list | 4 nodes in 2 lists with a cache of 1, so that each is full and empty |

`CHECK_DEADLOCK FALSE` is said of `queues`, `threads` and `services` because their
bounded environments come to an end: all that was to be put has been put, the
process of a registration has ended, the object is deleted.

**Disagreements between code and comments.** `injector_rate` is the one with a run.
The others were found in the same way; each names the instance and the property,
which is defined in the module, that TLC refutes there.

- `MemAllocator`, one getter, `HoldAndWait = FALSE`: `AliveUntilReleaseReturns`.
  `ReleaseBuffer` reads `m_pNotify` after it has left the lock, with no reference of
  its own (`amfilter.cpp:4821`), against the comment at `amfilter.cpp:3358`.
- `Streaming`, one buffer: `ErrorAbortAfterEndOfStream`. The EndOfStream of a
  run-time error is refused by the flag set just before it (`amfilter.cpp:3021`,
  `transfrm.cpp:565`).
- `Injector`, `Reconnects = TRUE`: `LargeEnough`. An input reconnected with larger
  samples under a connected output overruns what `DecideBufferSize` agreed on
  (`metadata_injector_filter.cpp:343`; the ASSERT at line 247).
- `Injector`, `0 \in Durations`: `NoTrap`. `mFramesPerSecond` is 0 and Transform
  divides by it (`metadata_injector_filter.cpp:124`).
- `ConfigFile`: `MissingIsDefault`. `GetPrivateProfileDouble` ignores its default
  (`utils.cpp:17`), so the P3-D65 of `metadata_injector_filter.cpp:205` is never used.
- `Renderer`: `FlushedIsIntermediate`. `Receive` calls `Ready` after a flush has
  called `NotReady` (`renbase.cpp:1157`, against line 700).
- `Injector`, `Offers`, `Reconnects` or `FormatChanges = TRUE`: `AgreementKept`. A type
  the renderer offers has no colour information, an input reconnected or a source that
  changes its format has other buffers and another rate than were agreed on
  (`metadata_injector_filter.cpp:285`, `343`, `399`).
- `Server`, `Preempted = TRUE`: `NeverUnloadedInUse`. The counts are plain `++` and
  `--` (`dllentry.cpp:97`, `178`): two clients lose an update, and `DllCanUnloadNow`
  (`dllentry.cpp:239-253`) says yes with an object or a lock outstanding.
- `CommandQueue`: `DueIsSignalled`. `SetSyncSource` (`ctlutil.cpp:2313`) withdraws the
  advice and clears `m_dwAdvise` but keeps `m_tCurrentAdvise`, so `SetTimeAdvise`
  (`ctlutil.cpp:2366`) does not ask the new clock for the same time, against the
  promise at `ctlutil.h:850`.
- `StreamControl`, `MaxCalls = 3`: `BeginsAsScheduled`. After StartAt(0), StopAt(0),
  StartAt(1) while stopped the graph begins discarding although the stop comes
  before the start: `StartAt` (`strmctl.cpp:103`) sets the state only when the stop is
  not before it, and never back to flowing (comment at `strmctl.cpp:56`).
- `OutputQueue`: `ResetIsDone` and, with `MaxFlushes = 3`, `SendsNothingFlushed`.
  `Reset` (`outputq.cpp:700-711`) waits on `m_evFlushComplete`, which an earlier flush
  with the optimisation may have left set (`outputq.cpp:484`). It then returns before
  its packet is dealt with, and the packet may end the wait of the next flush
  (`outputq.cpp:361-363`): the thread has thrown nothing away, and delivers samples of
  before the flush after it, against the ASSERT at `outputq.cpp:316`. `NothingStale`
  is therefore stated for a queue none of whose Resets returned early.
- `TransInPlace`: `RestingStates`. After the input disconnects the output keeps the
  upstream filter's allocator, and after the output disconnects the input keeps the
  downstream one's; neither is among the states listed at `transip.cpp:52-100`.

**What the properties let through.** Where the code does what it should not, the model
does it too, and the property that would forbid it excepts exactly that case, by a guard
or by an auxiliary variable of the module. With the exception taken out TLC refutes it.

- `Renderer`, `overtaken` and `orphans`. Between the end of its wait and
  `SignalTimerFired` (`renbase.cpp:278-283`) `Receive` has no lock. After a Pause and a
  Run in between, the sample is shown before its time, although the comments and
  ASSERTs (`renbase.cpp:435`, `562`, `946`) say otherwise; and the cookie of the new request
  is overwritten with 0, so that nobody can withdraw that request and it may end the
  wait for a later sample. A flush, a Pause or a Run between the parts of a Receive may leave
  a renderer ready with nothing to show, or its flush unsignalled. `overtaken`
  is reset by the next Receive; `NotEarly`, `ReadyMeansCued`, `SampleIsShown` and `AdviseOwned`
  hold of all others.
- `DynamicPin`, `missed`. `CBaseFilter::Stop` calls `Inactive` for connected pins only
  (`amfilter.cpp:533`). One that comes while another thread reconnects the pin passes it
  over: `m_hStopEvent` is not set, and the streaming thread stays in
  `StartUsingOutputPin` until somebody unblocks the pin (`StopReleases`).
- `DynamicPin`, `torn`. A change of format that fails between the decommit and the commit,
  or meets `Inactive`, or a pin reconnected under a block that another thread has lifted,
  leaves the allocator other than the filter's state says (`CommittedWhileActive`).
- `SourceStream`, `Abandoned`. When the `Active` of another pin fails,
  `CBaseFilter::Pause` (`amfilter.cpp:573`) returns and leaves this one active in a filter
  that is not. Its destructor waits for a worker that nobody told to exit
  (`CloseAfterExit`, `ControlReturns`).
- `Registration`, `Endless` and `denied`. `EliminateSubKey` (`dllsetup.cpp:63-89`) does not look at
  what its deletions return: with a subkey that may not be deleted it enumerates the same
  first key forever (`CallEnds`), and with a key that may not be opened or deleted it returns
  success and the key stays (`SuccessIsWhole`).
- `Seeking`, `PositionIsCurrent`. `RegisterMediaTime` stores the time of the sample, which counts
  from the start of the segment (`ctlutil.cpp:1008`), and `GetMediaTime` converts only its
  format (`ctlutil.cpp:1049`), while `EOS` stores the stop position. After a seek to a start
  above 0 what is told is a time of the range and not a position in it.
- `PropertyPage`, `Becomes` and `m_hwnd`. The page widens the bytes of the name one by one
  (`metadata_injector_properties.cpp:101`) and narrows the text by the code page
  (`:137`): a name that is not ASCII is shown garbled, and the garbled text is written back
  as question marks by an Apply after no more than a focus, which counts as a change
  (`:47-51`). A page applied while hidden (`cprop.cpp:322`) reads a control that is gone and
  gives the filter what was in its buffer (`OnlyWhatWasTyped`, `EditsKept`).
- `PinEnumerator`: a pin is its address, since `m_PinCache` keeps no reference
  (`amfilter.cpp:1134`). A new pin at the address of one told before and deleted is not told
  of (`NoPinMissed`).
- `OutputQueue`, `early`, as above; and `IdleMeansDone` leaves out exact batches, where the
  ASSERT of `IsIdle` (`outputq.cpp:792`) fails: less than a batch waits in an idle queue.
- `ConfigFile`: a load in the middle of a rewriting mixes two replies, where
  `README.md:69` promises the right ones: `LoadGoesForward` asks only that no key goes back to
  an older reply than one read before; and a file that an interrupted writing has cut short
  has not whole halves (`interrupted`).

Smaller ones: `GetBuffer` with `AM_GBF_NOWAIT` announces a waiter that never waits, so
the equality `m_lWaiting + Semaphore count == nWaiting` of `amfilter.h:1415` is only
an inequality there (`NoLostWakeup` holds nevertheless, and `WaitCountExact`
without `AM_GBF_NOWAIT`); the FAQ's black screen with a renderer that knows
no side data (`README.md:93-94`) may come only after up to a second of frames,
because the counter is not reset (`LessThanASecondShown` is what holds);
`example_config.ini` misspells `mastering_luminance_min` and `_max`, which
therefore read as 0; a flush or a stop between the two tests of `CheckStreamState` fails the
ASSERT of `strmctl.cpp:239`, and the sample is decided again; a Stop in the middle of a flush clears
`m_bFlushing` (`amfilter.cpp:3173`), so that the ASSERT of `EndFlush`
(`amfilter.cpp:3136`) may fail in a debug build; an output queue without a thread
whose batches are not exact keeps samples past the end of the stream
(`outputq.cpp:636`), which is why `UsualSettings` leaves that setting out.

## Fairness

`MemAllocator`: threads run, and a thread that holds a sample eventually releases
it, as the renderer does after presenting and `Receive` does on every path. Pins
are under no obligation. `Streaming`: each thread that can take a step
eventually does (weak fairness), a running renderer presents; `Stop` and the
flush are strongly fair when they compete for `m_csFilter`, because the
application issues a bounded number of commands between them. Nothing is assumed
of the race for `m_csReceive`. A critical section of Windows wakes its waiters;
the code relies on the same. `ConfigFile`: the loop of the generator goes on while
it runs, that is, requests and the sleep return; the device, the user and the
filter are under no obligation.

`Connection`: a call that has begun goes on. `Renderer`: the streaming thread and
the timer get the locks they compete for (strong fairness: stops and flushes are
finitely many between two of its steps), the clock fires, and calls that wait with
a lock return once what they wait for has come. `Clock`: its thread runs. The queues:
every thread that can take a step does; the pin downstream returns from `Receive`
once it is flushed or the queue is being deleted, and is free to keep it until
then. `SourceStream`, `PullPin`: both threads run; a decommitted allocator and a
flushing reader let the worker go, and nothing else is asked of them. `DynamicPin`:
the streaming thread goes on, and a thread that has been told so returns from
`Block`; nobody need ever unblock. `StreamControl`: time goes on. `Registration`,
`Seeking`: the call goes on; the stream comes to its end. No fairness is assumed of
applications, graphs, devices or users anywhere.

## Proofs

The invariants, the action properties and both refinements of the passing runs are theorems,
by inductive invariants, for every value of the constants but those named below; all but
`FilterKept`, of which some parts are. What the invariants are, and why the properties are not inductive by
themselves:

`MemAllocator_proofs`: any finite set of threads and pins, any number of samples.

- `WakeupsKept`. The invariant that is checked says that while a sample is free, or
  `GetBuffer` would be refused, each waiting thread has a count of the semaphore.
  Between the two, when the list is empty, waiters are only announced: `WakeInv` says
  that announced and signalled together are always at least as many as the waiters.
- `SamplesNeverLost`, `AllocatorIsKept`, `TypesKept` share `Inv`. A sample is in one
  place (`OnePlaceInv`), so the sizes of the places add up (`SampleCountMatches`) and a
  thread whose `Release` finds the count 1 is the last holder. The allocator is alive
  while a sample is out, because the count of its references includes its own from the
  first `Commit` to the end of the decommit (`SelfReference`, `CommitInv`). A thread
  inside `GetBuffer` implies a pin that has not yet let the allocator go
  (`GettingInv`), so whoever drops the last reference finds every sample free.

`Filter_proofs`, of the samples: any set of durations and sizes and any width of the
counter. The number of frames since the last metadata frame is related to the counter:
the frames since then are `mFrameCounter % mFramesPerSecond` at least, so the next
multiple comes in time, and a wrap to 0 can only bring it earlier. From it follow
`Cadence`, `Renderer` and `Shown`, which `CadenceIsKept` joins. `OncePerSecondKept` needs
the same in time rather than in frames: while the output is connected, the time since
the last metadata frame is at most the length of the streak, and one frame more, times
the duration (`SinceInv`), and a second has room for as many frames as its rate says.
It assumes that nobody offers a complete output type, that the input is not reconnected
behind a connected output and that the source keeps its format, without which it fails, as
above. That the types agree and nothing is divided by zero in an orderly graph is left to TLC:
with such assumptions it says little.

Of the threads: any set of samples. `TypeInv` says which thread owns which lock at
which place, and that `pOutSample` is there exactly between `GetBuffer` and `Release`.
`CleanInv` says what the others may rely on meanwhile: who processes a sample is between
connected pins of a filter that is not stopped (`ProcessInv`), a stopped renderer is one
whose filter is about to stop and holds nothing (`RendererHeldInv`), and without a source
the end of the stream has been sent once (`EndsInv`). `NeverStoppedWhileProcessing` is
an action property: `Stop` needs the lock that `Receive` has.

Of the DLL: any finite sets of clients and objects, any number of references, and clients
that are preempted anywhere. The count of an object other than a factory is interlocked
(`combase.cpp:175-207`), so `m_cRef` is the number of references that clients hold, and that of
its creator while it is being made (`ObjectInv`); `FiltersStayAlive` says that such an object is
alive while it is referred to and destroyed once. The plain counts of factories, objects
and locks race, as above; that the DLL stays loaded when nobody is preempted
(`NothingLeft`, `NeverUnloadedInUse`) is left to TLC. `FilterTypes` puts the three parts side
by side.

Of the configuration: any number of states of the device. The invariant orders the
versions along the way: what the filter has read is no newer than what the file says,
the file no newer than the last reply (`Chain`); `OneReplyInFile`, `LoadNeverGoesBack`
and `BadReplyHarmless` follow.

`Connection_proofs`: any types, any lists of offers, any renderer. A handler is a
function on one record, so what each function does is a lemma of its own: it keeps
`Whole`, that is, that the count of a pin or an allocator is the number of members that
remember it, and touches one pin only (`OnlyPair`). In a call to `Connect` the two pins
pass through states that are none of connected and disconnected (`CallInv`); all other
pairs are one or the other (`PairsInv`), so a pin can be torn down without its peer's help.
`NegotiationFinds` proves the action property `Negotiated`: `TriedInv` says that, as long as
the call has met nothing but refused types, every type of the rounds before and up to the
enumerator's position has been refused, and that the lists and what the two ends accept
are still what they were (`SameView`).

`Rendering_proofs`: any number of timers and of requests, any width of the counter and
any set of times. The header of the module names the parts of both invariants. Of the
clock the part that is not obvious is `TimeInv`: a 32 bit difference of two readings is
the time that went by if less than a whole wrap did, which is what the thread's limited
sleep provides (`SleepInv`). `PartsAreThemselves` carries the results of the two modules
over to the two side by side.

`Queues_proofs`: any batch size, any number of samples, flushes, slots, threads and
templates.

- `OutputInv`: who holds what (`ThreadInv`, `NoThreadInv`), why the thread may sleep
  (`WakeInv`) and what is left of before a flush (`StaleInv`). `Held(S)` says that all
  that the queue holds, wherever it is, is in `S`; a step only takes from it or adds
  what its call gives (`HeldStep`). Once the thread has done its part of the flush
  nothing that is held is a sample (`Calm`), from then on all that is held is new (`Fresh`), and
  what comes out was held (`OutStep`): so nothing stale comes out (`OutputFresh`).
- `SlotInv`: threads between a semaphore and the ring are counted, so the ring is never
  overrun, and less than a ring apart two places have different slots (`OtherSlot`).
- `MsgInv`: a message in the queue of a waiting worker has a count of the semaphore.
- `QueuesKeepOrder`, the refinement of `Channel` by all three: `OutOf` says that a
  sequence is some of another in order, `Moves` that a step in which some of the front
  comes out and the rest stays is one of the channel. What is still to come out of the
  output queue is a function of five of its variables; of each step the proof computes it anew.
- `SetupInv`: what is missing in the registry is still among the changes that the call
  has to make, a server before its filter, or the other way round when both go
  (`Has`, `Before`, `After`); a call that fails has stopped after a part of them that
  is in order.
- `SeekingInv`: which samples, ends and timers of before a seek may still arrive, and
  that the position told is of before it only as long as the seek has not set it.

The properties of `Queues_proofs` assume `UsualSettings` of the output queue: a thread, single
samples or exact batches.

`Threads_proofs`: any number of application threads, users, samples, seeks, requests to
start and to stop, and any stream and group of frames. Each part has an invariant of its
own, and a step is a step of one part (`ThreadsParts`).

- `AnswerInv`, of `CSourceStream` and `CPullPin` alike: somebody waits for an answer
  exactly from the request to the answer, in one of three ways (the request is set, the
  worker is within `Reply`, the answer is set), and the answer is to the request that
  `m_dwParam` still holds. `NothingLeftBehind` needs to know what is true *between* the
  calls: where the worker is when its caller goes on (`PlaceInv`, `CommandInv`), which
  for the pull pin depends on what its caller has still to do (`TodoInv`, `SentInv`,
  over the finitely many rests of a call).
- `ProcessInv`, `RequestsInv`: what the filter has received, then what the reader has been
  asked for, then `tCurrent`, without a gap, but for the last sample of a pair, whose
  refusal `CPullPin` does not heed (`Position`).
- `Scheduled`: a request still to come has a cookie that was never told, no two the same,
  and `StopAt` leaves `m_StreamStateOnStop` discarding exactly while a stop is to come.
  `HeldInv`: a thread about to wait has been woken if there is already a reason not to.
- `PinInv`: the pin has users exactly while the streaming thread is downstream, none while
  it is blocked, and the block's caller and events are what its state says.
- `DecodableInv`: in the middle of a group a decoder that waits for no key frame has what
  the next frame needs, or skips to the next key frame.

`EachIsServedOnce` assumes that frames have time stamps, for a
frame without them is never skipped (`vtrans.cpp:324`), not even when the frame it needs
was (`ShownIsDecodable`).

`Services_proofs`: any sets of names, allocators, pins, types and commands. Each part has
an invariant of its own, and `PartsInv` joins them.

- `InPlaceInv`. That the pins agree once the reconnections are done is not
  inductive: a `NotifyAllocator` or a `CheckMediaType` may just have asked for one.
  The invariant lists what may differ, and for which reason, while a reconnection
  is pending; each function of the filter is a lemma on what it does to the record.
- `CommandsInv`: the lists are sorted and hold each command at most once (`Place` is
  where `CCmdQueue::Insert` stops looking), a command's references are one for each list
  it is in and one for each thread that holds it, also in the middle of `Postpone`.
- `PinsInv`, `TypesInv`: the pins told differ, and are those of the cache; as long as the
  version is the one the enumerator has seen, its position and its count are in the
  list as it is (`PinSeen`).
- `QualityInv`, `PageInv`: what was decided of the sample in hand, and what was typed
  since the last `Apply`.

`Lists_proofs`: any finite sets of lists and nodes, any size of the cache. The members
stand for sequences of nodes (`HeapOf`): one for each list, linked both ways and as long
as `m_Count`, one for each cache, no node in two places. Each operation has a lemma that
says where the nodes are afterwards. A walk of at most as many steps as there are nodes
meets exactly the sequence (`WalkMeets`), which gives the properties and, position by
position, the refinement of `Lists` (`ImplementsLists`).

Induction. The library's induction theorems take an operator, which no prover here
can instantiate. `NumberInduction` and `SequenceInduction` in `Queues_proofs`, and
`NumberInduction` in `Lists_proofs`, say it of sets instead, from the least
counterexample (`WFMin`); with them `FlattenSeq` and `OfKinds`, recursive functions of
the library and of the model, get their laws (`FlattenAppend`, `OfKindsCat`,
`AllFlat`), and so does the walk along the links.

Only checked by TLC: liveness, which the prover cannot do under fairness or ENABLED
(`WaitingEnds`, `ControlReturns`, `FileCatchesUp`, `ConnectEnds` but for its part
`Negotiated`, `ThingsEnd`, `CallsReturn`).

## Plan

Done: the filter, its generator and its page; allocator, streaming and connection;
the base classes with threads, queues, clocks or counts of their own; the theorems
about every instance. Left:

1. `ColorControl`: the bit fields of `dwControlFlags` over all values.
2. A renderer that reads the `Clock` in place of the external one it has now.

## Not modelled

The pixels, times and flags of a frame; quality messages and segments as the filter
passes them through; names of files longer than the page's buffers; the metadata values themselves and the bit fields they are
stored in (`metadata_injector_filter.cpp:503`); that a configuration regenerated, or
named anew on the page, is never read by a filter that exists (the constructor is
the only caller of `LoadConfig`: `ConfigFile` has it so, and `PropertyPage` changes a
name nobody reads); the release callback of the allocator, which `CMemAllocator`
never enables; lack of memory, except where a component answers it with a failure
that its callers handle; windows, palettes and drawing (`winutil.cpp`, `winctrl.cpp`,
`videoctl.cpp`, `ddmm.cpp`), which are calls of the operating system; logging and
arithmetic (`wxdebug.cpp`, `perflog.cpp`, `arithutil.cpp`); `CPersistStream`, which
nobody can reach; and the video renderer's allocators and images.
