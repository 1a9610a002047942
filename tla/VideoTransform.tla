---------------------------- MODULE VideoTransform ---------------------------
(***************************************************************************)
(* How a video decoder built on CVideoTransformFilter (vtrans.cpp) drops   *)
(* frames when it is late: whole ends of groups, from some frame to the    *)
(* next key frame, and how it waits for a key frame after a discontinuity. *)
(* Times are counted in frames; whether decoding takes a large part of a   *)
(* frame's duration (m_itrAvgDecode) is a choice at each frame.            *)
(***************************************************************************)
EXTENDS Integers

CONSTANTS
  MaxGroup,   \* bound on the frames of a group
  Wait,       \* frames to wait for a key frame, 30 in the code
  Silly,      \* "more than 30 secs late is already silly"
  Lates,      \* lateness that a quality message may report
  Untimed     \* whether frames may come without a time stamp

VideoAssumption ==
  /\ {MaxGroup, Wait, Silly} \subseteq Nat \ {0} /\ Lates \subseteq Int /\ Untimed \in BOOLEAN

VARIABLES
  q,        \* m_itrLate, m_nKeyFramePeriod, m_nFramesSinceKeyFrame, m_bSkipping
  m_nWaitForKey,
  position, \* frames of the current group that have arrived
  last,     \* what became of the last frame
  clean     \* auxiliary: the frame and all it refers to were decoded, or the filter
            \* has given up waiting for a key frame

vars == <<q, m_nWaitForKey, position, last, clean>>

Outcomes == {"none", "skipped", "shown", "hidden", "failed"}

\* StartStreaming
Started == [late |-> 0, period |-> 0, since |-> 0, skipping |-> FALSE]

\* The constructor leaves m_nWaitForKey as it finds it.
Init ==
  /\ q = Started /\ m_nWaitForKey \in {0, Wait}
  /\ position = 0 /\ last = "none" /\ clean = FALSE

-----------------------------------------------------------------------------
(* ShouldSkipFrame: what the members become, and whether to skip.          *)

\* The longest group seen; one that grows longer counts before it ends.
Period(s, key) ==
  IF s.since > s.period /\ (~key => s.period > 0) THEN s.since ELSE s.period

Since(s, key) == IF key THEN 0 ELSE s.since

\* Fault: each frame is judged alone.
SkipsAlone(s, key, slow) ==
  /\ slow /\ s.late > 1 /\ Period(s, key) > 0
  /\ s.late > Period(s, key) - Since(s, key) - 1

\* Skipping goes on to the next key frame; it begins when the filter is later than the
\* time that is left until then.
Skips(s, key, slow) ==
  \/ s.skipping /\ ~key
  \/ /\ slow /\ s.late > 1 /\ Period(s, key) > 0
     /\ s.late > Period(s, key) - Since(s, key) - 1

LateAfter(s, skip) == IF skip THEN s.late - 1 ELSE s.late

Judged(s, key, slow) ==
  LET skip == Skips(s, key, slow)
  IN  [late |-> LateAfter(s, skip), period |-> Period(s, key),
       since |-> Since(s, key) + 1, skipping |-> skip]

-----------------------------------------------------------------------------
(* Receive                                                                 *)

\* A discontinuity or a new output type starts the wait.
WaitStarts(start) == IF start THEN Wait ELSE m_nWaitForKey

WaitAfter(key, start) ==
  LET n == WaitStarts(start) IN IF key \/ n = 0 THEN 0 ELSE n - 1

\* The members once a frame was decoded: they start anew with a new output type.
AfterDecode(s, newOutput) == IF newOutput THEN Started ELSE s

Decode(s, key, start, newOutput) ==
  LET wait == WaitAfter(key, start \/ newOutput)
      gaveUp == wait = 0 /\ WaitStarts(start \/ newOutput) = 1
  IN  \E hr \in {"shown", "hidden", "failed"} :
        /\ q' = AfterDecode(s, newOutput)
        /\ m_nWaitForKey' = wait
        /\ clean' = (hr # "failed" /\ (key \/ gaveUp \/ (clean /\ ~start /\ ~newOutput)))
        /\ last' = IF hr = "shown" /\ wait > 0 THEN "hidden" ELSE hr

\* A frame is skipped, decoded, or lost because no buffer can be had for it.  A frame
\* without time stamps is never skipped and leaves the members as they are.
Handle(s, key, timed, slow, start, newOutput) ==
  LET t == IF timed THEN Judged(s, key, slow) ELSE s
  IN  \/ /\ timed /\ t.skipping
         /\ q' = t /\ last' = "skipped" /\ clean' = FALSE /\ UNCHANGED m_nWaitForKey
      \/ /\ timed => ~t.skipping
         /\ Decode(t, key, start, newOutput)
      \/ /\ timed => ~t.skipping
         /\ q' = t /\ last' = "failed" /\ clean' = FALSE /\ UNCHANGED m_nWaitForKey

\* A group begins with a key frame and so does a new input type.  The stream has a
\* discontinuity where its source says so, and after a flush.
Receive ==
  \E key, slow, start, newInput, newOutput \in BOOLEAN,
     timed \in {t \in BOOLEAN : ~t => Untimed} :
    /\ last # "failed"
    /\ ~key => position \in 0 .. MaxGroup - 1
    /\ newInput => key
    /\ position = 0 => start
    /\ position' = IF key THEN 1 ELSE position + 1
    /\ Handle(IF newInput THEN Started ELSE q, key, timed, slow, start, newOutput)

EndFlush ==
  /\ q' = Started /\ position' = 0 /\ last' = "none"
  /\ UNCHANGED <<m_nWaitForKey, clean>>

\* AlterQuality, called by the renderer with a frame in its hands; the clamp looks at
\* the lateness that was known before.
AlterQuality(late) ==
  /\ last = "shown"
  /\ q' = [q EXCEPT !.late = IF @ > Silly THEN Silly ELSE late]
  /\ UNCHANGED <<m_nWaitForKey, position, last, clean>>

Next == Receive \/ EndFlush \/ \E late \in Lates : AlterQuality(late)

\* Frames keep coming.
Spec == Init /\ [][Next]_vars /\ WF_vars(Receive)

-----------------------------------------------------------------------------
(* Properties.                                                             *)

\* Every variable has a value of its kind; frames without time stamps are not counted,
\* and neither is a key frame without one.
TypeOK ==
  /\ q.late \in Int /\ {q.period, q.since} \subseteq Nat /\ q.skipping \in BOOLEAN
  /\ ~Untimed => {q.period, q.since} \subseteq 0 .. MaxGroup + 1
  /\ m_nWaitForKey \in 0 .. Wait /\ position \in 0 .. MaxGroup
  /\ last \in Outcomes /\ clean \in BOOLEAN

\* "This frame cannot be decoded unless the previous type 1 frame was decoded and all
\* type 2 frames since have been decoded": the renderer is never given a frame whose
\* reference was skipped, lost or is of before a discontinuity, until the filter gives
\* up waiting for a key frame.
ShownIsDecodable == last = "shown" => clean

\* A filter that skips frames makes up for what it was late: as long as the renderer
\* gets nothing, it cannot report lateness, and frames are decoded again.
SkippingEnds == []<>(last # "skipped")

=============================================================================
