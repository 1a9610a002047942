------------------------------- MODULE Seeking -------------------------------
(***************************************************************************)
(* Seeking, from a renderer (CPosPassThru, CRendererPosPassThru) upstream  *)
(* to a source (CSourceSeeking), all in ctlutil.cpp, while the source      *)
(* streams to the renderer (renbase.cpp), which tells the position and, at *)
(* the end of the stream, asks the source for the stop position.           *)
(*                                                                         *)
(* External: the filter graph lets in one call of SetPositions at a time;  *)
(* ChangeStart, ChangeStop and ChangeRate, pure here, flush the stream and *)
(* have the source start a segment at m_rtStart, or fail.  The times of its *)
(* samples count from the start of the segment.  Positions and times are in *)
(* the one format that CSourceSeeking has, so they need no conversion.      *)
(***************************************************************************)
EXTENDS Integers

CONSTANTS
  Length,   \* of the stream
  MaxSeeks  \* bound on the seeks

SeekingAssumption == Length \in Nat \ {0} /\ MaxSeeks \in Nat

VARIABLES
  m_rtStart, m_rtStop,
  sourceLock,      \* CSourceSeeking::m_pLock: who holds it
  rendererLock,    \* m_RendererLock: who holds it
  m_StartMedia, m_bReset,
  m_bEOS, m_EndOfStreamTimer,
  flushing,        \* the renderer's input pin is flushing
  from, segment,   \* the position of the source's next sample, and of the segment's start
  seek,            \* where SetPositions is
  changes,         \* what it has still to change
  seeks,           \* auxiliary: bounds the seeks
  refused,         \* auxiliary: a change of the last seek has failed
  stream, timer,   \* where the streaming thread and the timer's thread are
  m_Connected      \* the renderer's pin has a peer, by which the calls go

vars == <<m_rtStart, m_rtStop, sourceLock, rendererLock, m_StartMedia, m_bReset, m_bEOS,
          m_EndOfStreamTimer, flushing, from, segment, seek, changes, seeks, refused,
          stream, timer, m_Connected>>

Nobody == "nobody"
Callers == {"seek", "stream", "timer"}
positions == <<m_rtStart, m_rtStop>>
source == <<from, segment>>
media == <<m_StartMedia, m_bReset>>
eos == <<m_bEOS, m_EndOfStreamTimer>>
locks == <<sourceLock, rendererLock>>
pending == <<changes, seeks, refused>>
seekVars == <<seek, pending>>
threads == <<stream, timer, m_Connected>>

SeekingTypeOK ==
  /\ m_rtStart \in 0..Length /\ m_rtStop \in 0..Length
  /\ sourceLock \in Callers \cup {Nobody} /\ rendererLock \in Callers \cup {Nobody}
  /\ m_StartMedia \in 0..Length /\ m_bReset \in BOOLEAN
  /\ m_bEOS \in BOOLEAN /\ m_EndOfStreamTimer \in BOOLEAN
  /\ flushing \in BOOLEAN /\ from \in 0..Length /\ segment \in 0..Length
  /\ seek \in {"idle", "set", "change", "begin flush", "reset", "stop", "end flush",
               "run", "release"}
  /\ changes \subseteq {"stop", "start"} /\ seeks \in 0..MaxSeeks /\ refused \in BOOLEAN
  /\ stream \in {"stopped", "fill", "notify", "ask", "done"}
  /\ timer \in {"idle", "notify", "ask"}
  /\ m_Connected \in BOOLEAN

Init ==
  /\ m_rtStart = 0 /\ m_rtStop = Length
  /\ sourceLock = Nobody /\ rendererLock = Nobody
  /\ m_StartMedia = 0 /\ m_bReset = TRUE
  /\ m_bEOS = FALSE /\ m_EndOfStreamTimer = FALSE
  /\ flushing = FALSE /\ from = 0 /\ segment = 0
  /\ seek = "idle" /\ changes = {} /\ seeks = 0 /\ refused = FALSE
  /\ stream = "fill" /\ timer = "idle"
  /\ m_Connected = TRUE

-----------------------------------------------------------------------------
(* CPosPassThru passes every call on to the peer, whose interface it keeps  *)
(* for the time of the call; without a peer the call fails.                *)

Free(lock) == lock = Nobody

GetPeerSeeking == m_Connected

\* The graph disconnects the renderer when its source does not stream.
Disconnect ==
  /\ m_Connected /\ stream = "stopped" /\ seek \in {"idle", "release"}
  /\ m_Connected' = FALSE
  /\ UNCHANGED <<positions, locks, media, eos, flushing, source, seekVars, stream, timer>>

-----------------------------------------------------------------------------
(* CSourceSeeking::SetPositions, asked for by an application.              *)

SetPositions ==
  /\ seek = "idle" /\ seeks < MaxSeeks
  /\ seeks' = seeks + 1
  /\ GetPeerSeeking
  /\ seek' = "set"
  /\ UNCHANGED <<positions, locks, media, eos, flushing, source, changes, refused, threads>>

\* Fault: the lock is kept for the changes.
AssignLocked ==
  /\ seek = "set" /\ Free(sourceLock)
  /\ m_rtStart' \in 0..Length /\ m_rtStop' \in 0..Length
  /\ changes' = {"stop", "start"}
  /\ sourceLock' = "seek"
  /\ seek' = "change" /\ refused' = FALSE
  /\ UNCHANGED <<rendererLock, media, eos, flushing, source, seeks, threads>>

\* The positions are assigned with the lock, either or both.
Assign ==
  /\ seek = "set" /\ Free(sourceLock)
  /\ m_rtStart' \in 0..Length /\ m_rtStop' \in 0..Length
  /\ changes' \in (SUBSET {"stop", "start"}) \ {{}}
  /\ "stop" \notin changes' => m_rtStop' = m_rtStop
  /\ "start" \notin changes' => m_rtStart' = m_rtStart
  /\ seek' = "change" /\ refused' = FALSE
  /\ UNCHANGED <<locks, media, eos, flushing, source, seeks, threads>>

\* ChangeStop, then ChangeStart, without it.  A failure of the first does not
\* keep the second from being called.
Change ==
  /\ seek = "change"
  /\ IF changes = {} THEN seek' = "release" /\ UNCHANGED <<changes, refused>>
     ELSE /\ changes' = changes \ {IF "stop" \in changes THEN "stop" ELSE "start"}
          /\ \/ seek' = "begin flush" /\ UNCHANGED refused
             \/ refused' = TRUE /\ UNCHANGED seek
  /\ UNCHANGED <<positions, locks, media, eos, flushing, source, seeks, threads>>

\* The renderer's BeginFlush, with its lock ...
BeginFlush ==
  /\ seek = "begin flush" /\ Free(rendererLock)
  /\ flushing' = TRUE
  /\ seek' = "reset"
  /\ UNCHANGED <<positions, locks, media, eos, source, pending, threads>>

\* ... and ResetEndOfStream, after it.
ResetEndOfStream ==
  /\ seek = "reset" /\ Free(rendererLock)
  /\ m_bEOS' = FALSE /\ m_EndOfStreamTimer' = FALSE
  /\ seek' = "stop"
  /\ UNCHANGED <<positions, locks, media, flushing, source, pending, threads>>

StopStream ==
  /\ seek = "stop" /\ stream \in {"fill", "done", "stopped"}
  /\ stream' = "stopped"
  /\ seek' = "end flush"
  /\ UNCHANGED <<positions, locks, media, eos, flushing, source, pending, timer, m_Connected>>

\* Fault: the position of what was rendered before stays.
EndFlushOnly ==
  /\ seek = "end flush" /\ Free(rendererLock)
  /\ flushing' = FALSE
  /\ seek' = "run"
  /\ UNCHANGED <<positions, locks, media, eos, source, pending, threads>>

EndFlush ==
  /\ seek = "end flush" /\ Free(rendererLock)
  /\ flushing' = FALSE
  /\ m_StartMedia' = 0 /\ m_bReset' = TRUE
  /\ seek' = "run"
  /\ UNCHANGED <<positions, locks, eos, source, pending, threads>>

\* The source starts again, unless the graph has been stopped meanwhile.
RunStream ==
  /\ seek = "run" /\ sourceLock \in {Nobody, "seek"}
  /\ from' = m_rtStart /\ segment' = m_rtStart
  /\ stream' \in {"fill", IF changes = {} THEN "stopped" ELSE "fill"}
  /\ seek' = "change"
  /\ UNCHANGED <<positions, locks, media, eos, flushing, pending, timer, m_Connected>>

Return ==
  /\ seek = "release"
  /\ sourceLock' = IF sourceLock = "seek" THEN Nobody ELSE sourceLock
  /\ seek' = "idle"
  /\ UNCHANGED <<positions, rendererLock, media, eos, flushing, source, pending, threads>>

-----------------------------------------------------------------------------
(* The stream.                                                             *)

\* CBaseRenderer::PrepareReceive registers the time of the sample, which tells how
\* far it is into the segment.
Receive ==
  /\ stream = "fill" /\ Free(rendererLock) /\ Free(sourceLock) /\ from < m_rtStop
  /\ IF flushing THEN UNCHANGED media /\ stream' = "done"
     ELSE m_StartMedia' = from - segment /\ m_bReset' = FALSE /\ UNCHANGED stream
  /\ from' = from + 1
  /\ UNCHANGED <<segment, positions, locks, eos, flushing, seekVars, timer, m_Connected>>

\* The renderer, unless it is flushing, notifies the end of the stream at once,
\* keeping its lock, or has a timer do so.
EndOfStream ==
  /\ stream = "fill" /\ Free(rendererLock) /\ Free(sourceLock) /\ from >= m_rtStop
  /\ IF flushing THEN UNCHANGED <<m_bEOS, m_EndOfStreamTimer, rendererLock>> /\ stream' = "done"
     ELSE /\ m_bEOS' = TRUE
          /\ \/ m_EndOfStreamTimer' = TRUE /\ stream' = "done" /\ UNCHANGED rendererLock
             \/ stream' = "notify" /\ rendererLock' = "stream" /\ UNCHANGED m_EndOfStreamTimer
  /\ UNCHANGED <<positions, sourceLock, media, flushing, source, seekVars, timer, m_Connected>>

EndOfStreamTimer ==
  /\ timer = "idle" /\ m_EndOfStreamTimer /\ Free(rendererLock)
  /\ m_EndOfStreamTimer' = FALSE
  /\ timer' = "notify" /\ rendererLock' = "timer"
  /\ UNCHANGED <<positions, sourceLock, media, m_bEOS, flushing, source, seekVars, stream,
                 m_Connected>>

At(who, place) == IF who = "stream" THEN stream = place ELSE timer = place
Go(who, place) ==
  IF who = "stream" THEN stream' = (IF place = "idle" THEN "done" ELSE place) /\ UNCHANGED timer
  ELSE timer' = place /\ UNCHANGED stream

\* CRendererPosPassThru::EOS, by the streaming thread or by the timer's: there is
\* nothing to adjust when no time is registered, and no one to ask when the pin
\* is not connected.
EOS(who) ==
  /\ At(who, "notify")
  /\ IF m_bReset \/ ~GetPeerSeeking
     THEN Go(who, "idle") /\ rendererLock' = Nobody
     ELSE Go(who, "ask") /\ UNCHANGED rendererLock
  /\ UNCHANGED <<positions, sourceLock, media, eos, flushing, source, seekVars, m_Connected>>

GetStopPosition(who) ==
  /\ At(who, "ask") /\ Free(sourceLock)
  /\ m_StartMedia' = m_rtStop
  /\ Go(who, "idle") /\ rendererLock' = Nobody
  /\ UNCHANGED <<positions, sourceLock, m_bReset, eos, flushing, source, seekVars, m_Connected>>

-----------------------------------------------------------------------------
Seek ==
  \/ Assign \/ Change \/ BeginFlush \/ ResetEndOfStream \/ StopStream \/ EndFlush
  \/ RunStream \/ Return
Notify == \E who \in {"stream", "timer"} : EOS(who) \/ GetStopPosition(who)
Next ==
  \/ Disconnect \/ SetPositions \/ Seek \/ Receive \/ EndOfStream \/ EndOfStreamTimer \/ Notify

Spec == Init /\ [][Next]_vars /\ WF_vars(Seek) /\ WF_vars(Notify)
        /\ WF_vars(Receive) /\ WF_vars(EndOfStream)

-----------------------------------------------------------------------------
(* Properties.                                                             *)

\* When no seek is under way, what the renderer tells for a position belongs to the
\* range that was asked for last, unless the source has refused a change: it is a time
\* from the start of the range, and less than its length, or, at the end of the stream,
\* the stop position.  Nothing that was registered before the seek is left.  (It is not a
\* position in the stream: GetMediaTime does not add the start, ctlutil.cpp:1049.)
PositionIsCurrent ==
  seek = "idle" /\ ~refused /\ ~m_bReset =>
    m_StartMedia = m_rtStop \/ (0 <= m_StartMedia /\ m_StartMedia < m_rtStop - m_rtStart)

\* SetPositions returns, though it waits for a streaming thread that may be
\* asking the same source for its stop position with the renderer's lock held.
SetPositionsReturns == seek # "idle" ~> seek = "idle"

=============================================================================
