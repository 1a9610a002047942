---------------------------- MODULE VideoQuality -----------------------------
(***************************************************************************)
(* How a video renderer decides which frames to draw and tells the filter  *)
(* upstream of its lateness (CBaseVideoRenderer in renbase.cpp): frames    *)
(* arrive one at a time while the clock goes on, each is dropped, drawn at *)
(* once or drawn when its time has come.  The running averages of drawing  *)
(* and waiting times are choices; times are counted in parts of a frame.   *)
(***************************************************************************)
EXTENDS Integers

CONSTANTS
  Duration,   \* m_trDuration: the time between the stamps of two frames
  Second,     \* UNITS: "we haven't drawn an image for over a second"
  MaxTime     \* bound on the clock

QualityAssumption == {Duration, Second, MaxTime} \subseteq Nat \ {0}

VARIABLES
  now,         \* stream time
  start,       \* time stamp of the next frame
  place,       \* "idle", or "waiting" for the time of the frame scheduled
  m_trLastDraw,
  m_nNormal,   \* frames drawn in time since the last drop (-1), counted no further than 1
  planned,     \* *ptrStart, when the frame waiting is to be drawn
  m_pQSink, refs, connected,  \* where quality messages go, and the references held
  last,        \* what became of the last frame
  shownAt,     \* auxiliary: when the last frame was drawn
  told         \* auxiliary: SetSink was called

scheduling == <<m_trLastDraw, m_nNormal, planned>>
sinks == <<m_pQSink, refs, connected, told>>
vars == <<now, start, place, scheduling, sinks, last, shownAt>>

Sinks == {"upstream", "app"}

Init ==
  /\ now = 0 /\ start = 0 /\ place = "idle"
  /\ m_trLastDraw = -1 /\ m_nNormal = 0
  /\ planned = 0 /\ m_pQSink = "none" /\ refs = [s \in Sinks |-> 0]
  /\ connected = FALSE /\ last = "none" /\ shownAt = -1 /\ told = FALSE

-----------------------------------------------------------------------------
(* The quality sink.                                                       *)

\* Between streams, ResetStreamingTimes sets the members back.
Connect ==
  /\ ~connected /\ connected' = TRUE
  /\ UNCHANGED <<now, start, place, scheduling, m_pQSink, refs, told, last, shownAt>>

\* CBaseVideoRenderer::SetSink neither takes a reference nor releases the one it holds.
\* An application calls it once at most.
SetSink ==
  /\ ~told /\ m_pQSink' = "app" /\ told' = TRUE
  /\ UNCHANGED <<now, start, place, scheduling, refs, connected, last, shownAt>>

BreakConnect ==
  /\ connected /\ place = "idle" /\ connected' = FALSE
  /\ refs' = IF m_pQSink = "none" THEN refs ELSE [refs EXCEPT ![m_pQSink] = @ - 1]
  /\ m_pQSink' = "none"
  /\ UNCHANGED <<now, start, place, scheduling, told, last, shownAt>>

\* SendQuality: the upstream pin is asked for its interface the first time; handles
\* says that the message was taken.
SendQuality(handles) ==
  IF m_pQSink # "none" THEN UNCHANGED <<m_pQSink, refs>>
  ELSE \/ handles /\ m_pQSink' = "upstream" /\ refs' = [refs EXCEPT !["upstream"] = @ + 1]
       \/ ~handles /\ UNCHANGED <<m_pQSink, refs>>

-----------------------------------------------------------------------------
(* ShouldDrawSampleNow and ScheduleSample                                  *)

\* Fault: lateness decides alone, however long the picture stands still.
DrawsInTime(late, handles, plenty) ==
  plenty \/ (IF handles THEN late <= 4 * Duration ELSE 2 * late < Duration)

\* plenty: drawing takes little of a frame's time, or the renderer waits long.
Draws(late, handles, plenty) ==
  \/ plenty
  \/ IF handles THEN late <= 4 * Duration ELSE 2 * late < Duration
  \/ now - m_trLastDraw > Second

\* A frame is drawn at once after a drop, or on a machine known to be slow, unless it
\* is more than nine tenths of a second early.
AtOnce(late, handles, gap, slow) ==
  /\ (handles /\ gap) \/ m_nNormal = -1 \/ (slow /\ late > -10 * Duration)
  /\ 10 * late >= -9 * Second

\* A frame to be drawn later is advised for up to a frame earlier than its stamp, so
\* that the return from drawing early is gradual; one whose time has come is signalled.
Draw(late, earlier) ==
  /\ m_nNormal' = IF m_nNormal = 1 THEN 1 ELSE m_nNormal + 1
  /\ last' = "drawn"
  /\ IF late >= 0
     THEN m_trLastDraw' = now /\ shownAt' = now /\ UNCHANGED <<planned, place>>
     ELSE /\ m_trLastDraw' = start + earlier /\ planned' = start + earlier
          /\ place' = "waiting" /\ UNCHANGED shownAt

DrawAtOnce ==
  /\ m_nNormal' = 0 /\ last' = "drawn"
  /\ m_trLastDraw' = now /\ shownAt' = now /\ UNCHANGED <<planned, place>>

Drop ==
  /\ m_nNormal' = -1 /\ last' = "dropped"
  /\ UNCHANGED <<m_trLastDraw, planned, place, shownAt>>

ScheduleSample ==
  /\ connected /\ place = "idle" /\ start < MaxTime
  /\ start' = start + Duration
  /\ \E handles, plenty, gap, slow \in BOOLEAN, earlier \in -Duration .. 0 :
       LET late == now - start
       IN  /\ SendQuality(handles)
           /\ earlier # 0 => late < 0
           /\ IF Draws(late, handles, plenty)
              THEN IF AtOnce(late, handles, gap, slow) THEN DrawAtOnce ELSE Draw(late, earlier)
              ELSE Drop
  /\ UNCHANGED <<now, connected, told>>

\* The clock wakes the waiting thread, and the frame is drawn, however late.
WaitEnds ==
  /\ place = "waiting" /\ now >= planned
  /\ place' = "idle" /\ shownAt' = now /\ planned' = 0
  /\ UNCHANGED <<now, start, m_trLastDraw, m_nNormal, sinks, last>>

\* A flush cancels the advise: m_trLastDraw stays at a time when nothing was drawn.
\* What NeverBlank says is about the stretches between flushes.
Flush ==
  /\ place = "waiting" /\ place' = "idle" /\ planned' = 0
  /\ shownAt' = m_trLastDraw
  /\ UNCHANGED <<now, start, m_trLastDraw, m_nNormal, sinks, last>>

Tick ==
  /\ connected /\ now < MaxTime
  /\ now' = now + 1
  /\ UNCHANGED <<start, place, scheduling, sinks, last, shownAt>>

\* The stream is stopped and started: ResetStreamingTimes.
OnStartStreaming ==
  /\ connected /\ place = "idle" /\ now > 0
  /\ now' = 0 /\ start' = 0 /\ m_trLastDraw' = -1 /\ m_nNormal' = 0
  /\ shownAt' = -1 /\ last' = "none" /\ planned' = 0
  /\ UNCHANGED <<place, sinks>>

Next ==
  \/ Connect \/ SetSink \/ BreakConnect
  \/ ScheduleSample \/ WaitEnds \/ Flush \/ Tick \/ OnStartStreaming

Spec == Init /\ [][Next]_vars

-----------------------------------------------------------------------------
(* Properties.                                                             *)

\* Every variable has a value of its kind.
TypeOK ==
  /\ {now, start} \subseteq Nat /\ {m_trLastDraw, shownAt, planned} \subseteq Int
  /\ m_nNormal \in -1 .. 1 /\ last \in {"none", "drawn", "dropped"}
  /\ place \in {"idle", "waiting"} /\ m_pQSink \in Sinks \cup {"none"}
  /\ refs \in [Sinks -> Int] /\ {connected, told} \subseteq BOOLEAN

\* "we haven't drawn an image for over a second.  We will update the display": a frame
\* is dropped only if the display was really drawn to within the last second, although
\* what the renderer remembers is when it planned to draw.
NeverBlank ==
  [][start' > start /\ last' = "dropped" => now - shownAt <= Second]_vars

\* The renderer holds one reference on the filter upstream while it sends it quality
\* messages, and none once it is disconnected, whatever is connected next.  An
\* application that calls SetSink breaks this: BreakConnect releases what SetSink did
\* not add, and what SendQuality had added is lost.
UpstreamReleased ==
  ~told => refs = [s \in Sinks |-> IF m_pQSink = s THEN 1 ELSE 0]
           /\ (~connected => m_pQSink = "none")

=============================================================================
