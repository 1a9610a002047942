--------------------------- MODULE Filter_proofs ----------------------------
(***************************************************************************)
(* Proofs about the filter, for every value of the constants but those a   *)
(* theorem names: what it does to the samples (Injector), the threads that *)
(* take them through it (Streaming), the DLL that makes it (Server) and    *)
(* how it reads its configuration (ConfigFile).  The last section puts the *)
(* first three side by side, as MCFilter does.                             *)
(***************************************************************************)
EXTENDS MCFilter, ConfigFile, FiniteSetTheorems, TLAPS

(***************************************************************************)
(* What the filter does to the samples                                     *)
(*                                                                         *)
(* For every rate, counter width, sample size and bound.  The counts of    *)
(* frames are bounded through the remainder of the frame counter: a streak *)
(* of n frames without the metadata ends at a remainder of at least n      *)
(* (CadenceInv), whatever the counter was when the rate was set; the       *)
(* renderer's counts follow from it.                                       *)
(***************************************************************************)
-----------------------------------------------------------------------------
(* Remainders.                                                             *)

\* The quotient and the remainder of a division.
LEMMA Division ==
  ASSUME NEW c \in Nat, NEW rate \in Nat \ {0}
  PROVE  \E q \in Nat : c = rate * q + (c % rate) /\ c % rate \in 0..(rate - 1)
<1>1. c \div rate \in Nat /\ c = rate * (c \div rate) + (c % rate) /\ c % rate \in 0..(rate - 1)
  OBVIOUS
<1> QED BY <1>1

\* Two different multiples are at least one period apart.
LEMMA Period ==
  ASSUME NEW a \in Int, NEW b \in Int, NEW rate \in Nat \ {0}, a > b
  PROVE  rate * a >= rate * b + rate
<1>1. \A d \in Nat \ {0} : rate * d >= rate
  OBVIOUS
<1>2. rate * (a - b) >= rate
  BY <1>1, a - b \in Nat \ {0}
<1>3. rate * (a - b) = rate * a - rate * b
  OBVIOUS
<1> QED BY <1>2, <1>3

\* A number has one remainder.
LEMMA OneRemainder ==
  ASSUME NEW rate \in Nat \ {0}, NEW q \in Nat, NEW r \in 0..(rate - 1),
         NEW p \in Nat, NEW s \in 0..(rate - 1), rate * q + r = rate * p + s
  PROVE  r = s
<1>1. CASE q = p
  BY <1>1
<1>2. CASE q > p
  BY <1>2, Period
<1>3. CASE q < p
  BY <1>3, Period
<1> QED BY <1>1, <1>2, <1>3

\* The remainder of a counter that is no multiple of the rate is one more than
\* that of the count before it.
LEMMA NextRemainder ==
  ASSUME NEW c \in Nat, NEW rate \in Nat \ {0}, c % rate # 0
  PROVE  c > 0 /\ c % rate = ((c - 1) % rate) + 1
<1> DEFINE d == c - 1
<1>1. c > 0 /\ d \in Nat
  OBVIOUS
<1>2. PICK q \in Nat : d = rate * q + (d % rate) /\ d % rate \in 0..(rate - 1)
  <2> HIDE DEF d
  <2> QED BY <1>1, Division
<1>3. PICK p \in Nat : c = rate * p + (c % rate) /\ c % rate \in 0..(rate - 1)
  BY Division
<1>4. CASE d % rate = rate - 1
  <2>1. c = rate * (q + 1) + 0
    BY <1>2, <1>4
  <2> QED BY <2>1, <1>3, OneRemainder
<1>5. CASE d % rate # rate - 1
  <2>1. (d % rate) + 1 \in 0..(rate - 1) /\ c = rate * q + ((d % rate) + 1)
    BY <1>2, <1>5
  <2> QED BY <2>1, <1>1, <1>3, OneRemainder
<1> QED BY <1>4, <1>5

\* A remainder lies below the modulus.
LEMMA RemainderRange ==
  ASSUME NEW c \in Nat, NEW rate \in Nat \ {0}
  PROVE  c % rate \in 0..(rate - 1)
  BY Division

-----------------------------------------------------------------------------
(* Type correctness.                                                       *)

\* Every enumeration computes a natural number.
LEMMA RatesAreNat ==
  ASSUME NEW avg \in Durations
  PROVE  RatesOf(avg) \subseteq Nat
<1>1. avg \in Nat /\ TicksPerSecond \in Nat
  BY InjectorAssumption
<1>2. CASE avg = 0
  BY <1>1, <1>2 DEF RatesOf
<1>3. CASE avg # 0
  <2>1. TicksPerSecond \div avg \in Nat
    BY <1>1, <1>3
  <2> QED BY <2>1, <1>3 DEF RatesOf
<1> QED BY <1>2, <1>3

\* The variables keep their types, and the frame counter its width.
THEOREM TypeCorrect == Spec => []TypeOK
<1>1. Init => TypeOK
  <2>1. InputTypes \subseteq MediaTypes
    BY DEF InputTypes, MediaTypes
  <2>2. 0 \in 0..(CounterModulus - 1)
    BY InjectorAssumption
  <2> SUFFICES ASSUME Init PROVE TypeOK
    OBVIOUS
  <2>3. inType \in MediaTypes
    BY <2>1 DEF Init
  <2> QED BY <2>2, <2>3 DEF Init, TypeOK
<1>2. TypeOK /\ [Next]_vars => TypeOK'
  <2> SUFFICES ASSUME TypeOK, [Next]_vars PROVE TypeOK'
    OBVIOUS
  <2> USE InjectorAssumption DEF TypeOK
  <2>1. SetRate => mFramesPerSecond' \in Nat
    <3>1. inType.avg \in Durations
      BY DEF InputTypes
    <3> QED BY <3>1, RatesAreNat DEF SetRate
  <2>2. BuildFakeMediaType(inType) \in MediaTypes /\ inType.size \in Nat
    BY DEF BuildFakeMediaType, InputTypes, MediaTypes
  <2>3. Arrives => srcType' \in InputTypes /\ srcType'.avg \in Nat
                     /\ srcType' \in MediaTypes
    BY DEF Arrives, InputTypes, MediaTypes
  <2>4. NextCount \in 0..(CounterModulus - 1)
    BY RemainderRange DEF NextCount
  <2>5. CASE EnumOutputTypes
    BY <2>1, <2>5 DEF EnumOutputTypes, RestartCounts, typeVars, countVars
  <2>6. CASE ConnectInput \/ DisconnectInput \/ DisconnectOutput
    BY <2>6 DEF ConnectInput, DisconnectInput, DisconnectOutput, ghostVars,
                countVars
  <2>7. CASE ConnectOutput
    BY <2>1, <2>2, <2>7 DEF ConnectOutput, Agree, DecideBufferSize
  <2>8. CASE ConnectOutputOffered
    BY <2>2, <2>8 DEF ConnectOutputOffered, Agree, DecideBufferSize
  <2>9. CASE Pause \/ Stop
    BY <2>9 DEF Pause, Stop, typeVars, ghostVars, countVars
  <2>10. CASE CopyFails \/ Trap \/ MetadataFails
    BY <2>3, <2>10 DEF CopyFails, Trap, MetadataFails, Arrives, ghostVars,
                       countVars
  <2>11. CASE Accepted
    BY <2>3, <2>4, <2>11 DEF Accepted, Transform, Arrives
  <2>12. CASE Refused
    BY <2>3, <2>4, <2>12 DEF Refused, Transform, Arrives
  <2>13. CASE Terminated \/ UNCHANGED vars
    BY <2>13 DEF Terminated, vars, typeVars, ghostVars, countVars
  <2> QED
    BY <2>5, <2>6, <2>7, <2>8, <2>9, <2>10, <2>11, <2>12, <2>13 DEF Next
<1> QED BY <1>1, <1>2, PTL DEF Spec

-----------------------------------------------------------------------------
(* The cadence of the metadata.                                            *)

\* A streak of frames without the metadata is no longer than the remainder of
\* the last counter value allows.
CadenceInv ==
  mFramesPerSecond > 0 =>
    /\ streak < mFramesPerSecond
    /\ mFrameCounter > 0 => streak <= (mFrameCounter - 1) % mFramesPerSecond

\* Each lost metadata frame stands for at most one full streak.
RendererInv ==
  mFramesPerSecond > 0 => rStreak <= lost * (mFramesPerSecond - 1) + streak

\* What is shown without side data is part of the streak.
ShownInv == mFramesPerSecond > 0 /\ ~sideData => shown <= streak

CountsInv == CadenceInv /\ RendererInv /\ ShownInv

\* What the inductive step reads and may change.
rateVars == <<mFramesPerSecond, mFrameCounter, sideData, countVars>>

\* A step that touches none of it preserves the invariant.
LEMMA Quiet ==
  ASSUME CountsInv, UNCHANGED rateVars
  PROVE  CountsInv'
  BY DEF CountsInv, CadenceInv, RendererInv, ShownInv, rateVars, countVars

\* An empty streak is within every bound.
LEMMA ZeroStreak ==
  ASSUME NEW rate \in Nat \ {0}, NEW c \in Nat
  PROVE  0 * (rate - 1) = 0 /\ (c > 0 => 0 <= (c - 1) % rate)
<1>1. ASSUME c > 0
      PROVE  (c - 1) % rate \in 0..(rate - 1)
  <2> DEFINE d == c - 1
  <2>1. d \in Nat
    BY <1>1
  <2> HIDE DEF d
  <2>2. d % rate \in 0..(rate - 1)
    BY <2>1, RemainderRange
  <2> QED BY <2>2 DEF d
<1> QED BY <1>1

\* The counts restart with the rate.
LEMMA Restarted ==
  ASSUME TypeOK, TypeOK', streak' = 0, rStreak' = 0, lost' = 0, shown' = 0
  PROVE  CountsInv'
<1> SUFFICES ASSUME mFramesPerSecond' > 0
             PROVE  CountsInv'
  BY DEF CountsInv, CadenceInv, RendererInv, ShownInv
<1>1. mFramesPerSecond' \in Nat \ {0} /\ mFrameCounter' \in Nat
  BY InjectorAssumption DEF TypeOK
<1>2. /\ 0 * (mFramesPerSecond' - 1) = 0
      /\ mFrameCounter' > 0 => 0 <= (mFrameCounter' - 1) % mFramesPerSecond'
  BY <1>1, ZeroStreak
<1>3. CadenceInv'
  BY <1>1, <1>2 DEF CadenceInv
<1>4. RendererInv'
  <2>1. lost' * (mFramesPerSecond' - 1) = 0
    BY <1>2, Zenon
  <2>2. lost' * (mFramesPerSecond' - 1) + streak' = 0
    BY <2>1
  <2>3. rStreak' <= 0
    OBVIOUS
  <2> QED BY <2>2, <2>3, Zenon DEF RendererInv
<1>5. ShownInv'
  BY DEF ShownInv
<1> QED BY <1>3, <1>4, <1>5 DEF CountsInv

\* The remainder of the counter bounds the streak, before and after a frame.
LEMMA FrameStreak ==
  ASSUME TypeOK, CadenceInv, mFramesPerSecond > 0,
         mFrameCounter' = NextCount, mFramesPerSecond' = mFramesPerSecond,
         streak' = IF Due THEN 0 ELSE streak + 1
  PROVE  CadenceInv'
<1> DEFINE rate == mFramesPerSecond
           c == mFrameCounter
<1>1. /\ rate \in Nat \ {0} /\ c \in Nat /\ streak \in Nat
      /\ CounterModulus \in Nat \ {0} /\ c < CounterModulus
  BY InjectorAssumption DEF TypeOK
<1>2. c % rate \in 0..(rate - 1)
  BY <1>1, RemainderRange
<1>3. streak' <= c % rate /\ streak' < rate
  <2>1. CASE Due
    BY <2>1, <1>1, <1>2
  <2>2. CASE ~Due
    <3>1. c > 0 /\ c % rate = ((c - 1) % rate) + 1
      <4>1. c % rate # 0
        BY <2>2 DEF Due
      <4> HIDE DEF c, rate
      <4> QED BY <4>1, <1>1, NextRemainder
    <3>2. streak <= (c - 1) % rate
      BY <3>1, <1>1 DEF CadenceInv
    <3>3. (c - 1) % rate \in Int
      BY <3>1, <1>1
    <3> HIDE DEF c, rate
    <3> QED BY <2>2, <3>1, <3>2, <3>3, <1>1, <1>2
  <2> QED BY <2>1, <2>2
<1>4. mFrameCounter' = 0 \/ mFrameCounter' = c + 1
  <2>1. CASE c + 1 < CounterModulus
    BY <2>1, <1>1 DEF NextCount
  <2>2. CASE c + 1 = CounterModulus
    <3>1. CounterModulus % CounterModulus = 0
      BY <1>1
    <3> QED BY <2>2, <3>1 DEF NextCount
  <2> QED BY <2>1, <2>2, <1>1
<1>5. mFrameCounter' > 0 => streak' <= (mFrameCounter' - 1) % rate
  BY <1>1, <1>3, <1>4
<1> QED BY <1>3, <1>5 DEF CadenceInv

\* A transformed frame preserves the invariant, accepted or refused.
LEMMA Frame ==
  ASSUME TypeOK, CountsInv, Accepted \/ Refused
  PROVE  CountsInv'
<1> DEFINE rate == mFramesPerSecond
<1>1. /\ rate \in Nat \ {0} /\ mFramesPerSecond' = rate
      /\ mFrameCounter' = NextCount
      /\ streak' = IF Due THEN 0 ELSE streak + 1
      /\ sideData' = sideData
      /\ Due => sideData
      /\ shown' \in {shown, shown + 1}
      /\ streak \in Nat /\ shown \in Nat /\ rStreak \in Nat /\ lost \in Nat
  BY DEF Accepted, Refused, Transform, Arrives, TypeOK, SideDataMissing
<1>2. CadenceInv'
  BY <1>1, FrameStreak DEF CountsInv
<1>3. RendererInv'
  <2>1. streak <= rate - 1 /\ rStreak <= lost * (rate - 1) + streak
    BY <1>1 DEF CountsInv, CadenceInv, RendererInv
  <2>2. rate - 1 \in Nat /\ lost * (rate - 1) \in Nat
    BY <1>1
  <2>3. CASE Accepted
    <3>1. CASE Due
      <4>1. rStreak' = 0 /\ lost' = 0 /\ streak' = 0
        BY <2>3, <3>1, <1>1 DEF Accepted
      <4>2. 0 * (rate - 1) = 0
        BY <1>1
      <4> QED BY <4>1, <4>2, <1>1 DEF RendererInv
    <3>2. CASE ~Due
      <4>1. rStreak' = rStreak + 1 /\ lost' = lost /\ streak' = streak + 1
        BY <2>3, <3>2, <1>1 DEF Accepted
      <4> QED BY <4>1, <2>1, <2>2, <1>1 DEF RendererInv
    <3> QED BY <3>1, <3>2
  <2>4. CASE Refused
    <3>1. CASE Due
      <4>1. rStreak' = rStreak /\ lost' = lost + 1 /\ streak' = 0
        BY <2>4, <3>1, <1>1 DEF Refused
      <4>2. (lost + 1) * (rate - 1) = lost * (rate - 1) + (rate - 1)
        BY <1>1
      <4> QED BY <4>1, <4>2, <2>1, <2>2, <1>1 DEF RendererInv
    <3>2. CASE ~Due
      <4>1. rStreak' = rStreak /\ lost' = lost /\ streak' = streak + 1
        BY <2>4, <3>2, <1>1 DEF Refused
      <4> QED BY <4>1, <2>1, <2>2, <1>1 DEF RendererInv
    <3> QED BY <3>1, <3>2
  <2> QED BY <2>3, <2>4
<1>4. ShownInv'
  BY <1>1 DEF CountsInv, ShownInv
<1> QED BY <1>2, <1>3, <1>4 DEF CountsInv

\* The counts of frames stay within their bounds.
LEMMA CountsInductive == Spec => []CountsInv
<1>1. Init => CountsInv
  BY DEF Init, CountsInv, CadenceInv, RendererInv, ShownInv
<1>2. TypeOK /\ TypeOK' /\ CountsInv /\ [Next]_vars => CountsInv'
  <2> SUFFICES ASSUME TypeOK, TypeOK', CountsInv, [Next]_vars
               PROVE  CountsInv'
    OBVIOUS
  <2>1. CASE EnumOutputTypes
    <3>1. CASE mFramesPerSecond' # mFramesPerSecond
      BY <2>1, <3>1, Restarted DEF EnumOutputTypes, RestartCounts
    <3>2. CASE mFramesPerSecond' = mFramesPerSecond
      <4>1. UNCHANGED rateVars
        BY <2>1, <3>2 DEF EnumOutputTypes, RestartCounts, typeVars, rateVars
      <4> QED BY <4>1, Quiet
    <3> QED BY <3>1, <3>2
  <2>2. CASE ConnectOutput
    <3>1. CASE mFramesPerSecond' # mFramesPerSecond
      BY <2>2, <3>1, Restarted DEF ConnectOutput
    <3>2. CASE mFramesPerSecond' = mFramesPerSecond
      <4>1. /\ UNCHANGED <<mFramesPerSecond, mFrameCounter, streak, rStreak, lost>>
            /\ shown' = 0
        BY <2>2, <3>2 DEF ConnectOutput
      <4> QED BY <4>1 DEF CountsInv, CadenceInv, RendererInv, ShownInv, TypeOK
    <3> QED BY <3>1, <3>2
  <2>3. CASE ConnectOutputOffered
    <3>1. /\ UNCHANGED <<mFramesPerSecond, mFrameCounter, streak, rStreak, lost>>
          /\ shown' = 0
      BY <2>3 DEF ConnectOutputOffered
    <3> QED BY <3>1 DEF CountsInv, CadenceInv, RendererInv, ShownInv, TypeOK
  <2>4. CASE Accepted \/ Refused
    BY <2>4, Frame
  <2>5. CASE \/ ConnectInput \/ DisconnectInput \/ DisconnectOutput
             \/ Pause \/ Stop
    <3>1. UNCHANGED rateVars
      BY <2>5 DEF ConnectInput, DisconnectInput, DisconnectOutput, Pause, Stop,
                  typeVars, ghostVars, rateVars
    <3> QED BY <3>1, Quiet
  <2>6. CASE \/ CopyFails \/ Trap \/ MetadataFails \/ Terminated
             \/ UNCHANGED vars
    <3>1. UNCHANGED rateVars
      BY <2>6 DEF CopyFails, Trap, MetadataFails, Terminated, Arrives, vars,
                  typeVars, ghostVars, rateVars
    <3> QED BY <3>1, Quiet
  <2> QED BY <2>1, <2>2, <2>3, <2>4, <2>5, <2>6 DEF Next
<1> QED BY <1>1, <1>2, TypeCorrect, PTL DEF Spec

\* Fewer than mFramesPerSecond frames in a row go without the metadata.
THEOREM Cadence == Spec => []MetadataCadence
<1>1. CountsInv => MetadataCadence
  BY DEF CountsInv, CadenceInv, MetadataCadence
<1> QED BY <1>1, CountsInductive, PTL

\* A refused metadata frame delays the next by less than one more second.
THEOREM Renderer == Spec => []RendererCadence
<1>1. TypeOK /\ CountsInv => RendererCadence
  <2> SUFFICES ASSUME TypeOK, CountsInv, mFramesPerSecond > 0
               PROVE  rStreak < (lost + 1) * mFramesPerSecond
    BY DEF RendererCadence
  <2>1. /\ mFramesPerSecond \in Nat \ {0} /\ lost \in Nat /\ rStreak \in Nat
        /\ streak \in Nat
    BY DEF TypeOK
  <2>2. /\ rStreak <= lost * (mFramesPerSecond - 1) + streak
        /\ streak <= mFramesPerSecond - 1
    BY <2>1 DEF CountsInv, CadenceInv, RendererInv
  <2>3. /\ lost * (mFramesPerSecond - 1) = lost * mFramesPerSecond - lost
        /\ (lost + 1) * mFramesPerSecond
             = lost * mFramesPerSecond + mFramesPerSecond
        /\ lost * mFramesPerSecond \in Nat
    BY <2>1
  <2> QED BY <2>1, <2>2, <2>3
<1> QED BY <1>1, TypeCorrect, CountsInductive, PTL

\* Without side data less than a second of video is shown.
THEOREM Shown == Spec => []LessThanASecondShown
<1>1. TypeOK /\ CountsInv => LessThanASecondShown
  BY DEF TypeOK, CountsInv, CadenceInv, ShownInv, LessThanASecondShown
<1> QED BY <1>1, TypeCorrect, CountsInductive, PTL

\* For every rate, width of the counter and list of durations, nobody behind the
\* transform waits longer for metadata than the rate allows.
THEOREM CadenceIsKept == Spec => []CadenceKept
<1>1. MetadataCadence /\ RendererCadence /\ LessThanASecondShown => CadenceKept
  BY DEF CadenceKept
<1> QED BY <1>1, Cadence, Renderer, Shown, PTL

-----------------------------------------------------------------------------
(* What agreeing on the filter's own types ensures.                        *)

\* The output connection describes the input's type, and the source sends it.
AgreedInv ==
  /\ srcType = inType
  /\ active => outConnected
  /\ outConnected => /\ rType.colour
                     /\ outSize = inType.size
                     /\ mFramesPerSecond \in RatesOf(inType.avg)

\* It does as long as the output is always connected with the filter's own type,
\* the input is never reconnected under it and the source keeps its format.
LEMMA AgreedInductive ==
  ASSUME ~Offers, ~Reconnects, ~FormatChanges
  PROVE  Spec => []AgreedInv
<1>1. Init => AgreedInv
  BY DEF Init, AgreedInv
<1>2. TypeOK /\ AgreedInv /\ [Next]_vars => AgreedInv'
  <2> SUFFICES ASSUME TypeOK, AgreedInv, [Next]_vars PROVE AgreedInv'
    OBVIOUS
  <2>1. CASE EnumOutputTypes
    BY <2>1 DEF EnumOutputTypes, SetRate, AgreedInv, typeVars
  <2>2. CASE ConnectInput \/ DisconnectInput \/ DisconnectOutput
    BY <2>2 DEF ConnectInput, DisconnectInput, DisconnectOutput, AgreedInv
  <2>3. CASE ConnectOutput
    <3>1. rType'.colour
      BY <2>3 DEF ConnectOutput, Agree, BuildFakeMediaType, TypeOK, InputTypes
    <3> QED
      BY <2>3, <3>1 DEF ConnectOutput, Agree, DecideBufferSize, SetRate,
                        AgreedInv
  <2>4. CASE ConnectOutputOffered
    BY <2>4 DEF ConnectOutputOffered
  <2>5. CASE Pause \/ Stop
    BY <2>5 DEF Pause, Stop, AgreedInv, typeVars
  <2>6. CASE CopyFails \/ Trap \/ MetadataFails
    BY <2>6 DEF CopyFails, Trap, MetadataFails, Arrives, AgreedInv
  <2>7. CASE Accepted \/ Refused
    BY <2>7 DEF Accepted, Refused, Transform, Arrives, AgreedInv
  <2>8. CASE Terminated \/ UNCHANGED vars
    BY <2>8 DEF Terminated, AgreedInv, vars, typeVars
  <2> QED BY <2>1, <2>2, <2>3, <2>4, <2>5, <2>6, <2>7, <2>8 DEF Next
<1> QED BY <1>1, <1>2, TypeCorrect, PTL DEF Spec

-----------------------------------------------------------------------------
(* The metadata by the clock of the video.                                 *)

\* While the output is connected, a streak is no longer than its frames.
SinceInv ==
  /\ since <= TicksPerSecond
  /\ outConnected => since <= (streak + 1) * inType.avg

\* A second has room for as many frames as its rate says.
LEMMA SecondHasRoom ==
  ASSUME NEW a \in Nat \ {0}, NEW t \in Nat, NEW n \in Nat, n <= t \div a
  PROVE  n * a <= t
<1> DEFINE q == t \div a
<1>1. q \in Nat /\ t = a * q + (t % a) /\ t % a \in 0..(a - 1)
  OBVIOUS
<1>2. \A d \in Nat : a * d >= 0
  OBVIOUS
<1> HIDE DEF q
<1>3. q - n \in Nat
  BY <1>1 DEF q
<1>4. a * (q - n) >= 0
  BY <1>2, <1>3
<1>5. a * (q - n) = a * q - n * a
  BY <1>1
<1> QED BY <1>1, <1>4, <1>5

\* A frame is transformed within the second.
LEMMA FrameInSecond ==
  ASSUME TypeOK, CountsInv, CountsInv', AgreedInv, SinceInv, ~FormatChanges,
         Accepted \/ Refused
  PROVE  SinceInv'
<1> DEFINE a == inType.avg
<1>1. /\ srcType' = inType /\ inType' = inType /\ outConnected
      /\ mFramesPerSecond > 0 /\ mFramesPerSecond' = mFramesPerSecond
      /\ IF Due THEN since' = a /\ streak' = 0
                ELSE since' = since + a /\ streak' = streak + 1
  BY DEF Accepted, Refused, Transform, Arrives, AgreedInv
<1>2. /\ a \in Nat /\ since \in Nat /\ streak \in Nat /\ mFramesPerSecond \in Nat
      /\ TicksPerSecond \in Nat
  BY InjectorAssumption DEF TypeOK, InputTypes
<1>3. since <= (streak + 1) * a
  BY <1>1 DEF SinceInv
<1>4. mFramesPerSecond \in RatesOf(a)
  BY <1>1 DEF AgreedInv
<1>5. streak' + 1 <= mFramesPerSecond
  BY <1>1, <1>2 DEF CountsInv, CadenceInv
<1> HIDE DEF a
<1>6. since' <= (streak' + 1) * a
  <2>1. (streak + 2) * a = (streak + 1) * a + a /\ (0 + 1) * a = a
        /\ streak + 2 = (streak + 1) + 1
    BY <1>2
  <2>2. (streak + 1) * a \in Nat
    BY <1>2
  <2>3. CASE Due
    BY <1>1, <1>2, <2>1, <2>3
  <2>4. CASE ~Due
    BY <1>1, <1>2, <1>3, <2>1, <2>2, <2>4
  <2> QED BY <2>3, <2>4
<1>7. streak' + 1 \in Nat /\ since' \in Nat
  BY <1>1, <1>2
<1>8. (streak' + 1) * a <= TicksPerSecond
  <2>1. CASE a = 0
    <3>1. (streak' + 1) * 0 = 0
      BY <1>7
    <3> QED BY <2>1, <3>1, <1>2
  <2>2. CASE a # 0
    <3>1. streak' + 1 <= TicksPerSecond \div a
      BY <1>4, <1>5, <2>2 DEF RatesOf
    <3> QED BY <3>1, <1>2, <1>7, <2>2, SecondHasRoom
  <2> QED BY <2>1, <2>2
<1>9. (streak' + 1) * a \in Int
  BY <1>2, <1>7
<1>10. since' <= TicksPerSecond
  BY <1>2, <1>6, <1>7, <1>8, <1>9
<1> QED BY <1>1, <1>6, <1>10 DEF SinceInv, a

\* Under the same conditions the metadata really is "updated once per second":
\* of the video the source sends, whatever the durations of its frames are.
THEOREM OncePerSecondKept ==
  ASSUME ~Offers, ~Reconnects, ~FormatChanges
  PROVE  Spec => []OncePerSecond
<1>1. Init => SinceInv
  BY InjectorAssumption DEF Init, SinceInv
<1>2. TypeOK /\ CountsInv /\ CountsInv' /\ AgreedInv /\ SinceInv /\ [Next]_vars
        => SinceInv'
  <2> SUFFICES ASSUME TypeOK, CountsInv, CountsInv', AgreedInv, SinceInv, [Next]_vars
               PROVE  SinceInv'
    OBVIOUS
  <2>1. CASE EnumOutputTypes
    <3>1. UNCHANGED <<since, inType, outConnected>>
      BY <2>1 DEF EnumOutputTypes, typeVars
    <3>2. CASE outConnected /\ mFramesPerSecond' # mFramesPerSecond
      <4>1. inType.avg = 0
        BY <2>1, <3>2 DEF EnumOutputTypes, SetRate, AgreedInv, RatesOf
      <4>2. streak' = 0 /\ streak \in Nat
        BY <2>1, <3>2 DEF EnumOutputTypes, RestartCounts, TypeOK
      <4>3. (streak + 1) * 0 = 0 /\ (0 + 1) * 0 = 0
        BY <4>2
      <4> QED BY <3>1, <3>2, <4>1, <4>2, <4>3 DEF SinceInv
    <3>3. CASE mFramesPerSecond' = mFramesPerSecond
      BY <2>1, <3>1, <3>3 DEF EnumOutputTypes, RestartCounts, countVars, SinceInv
    <3> QED BY <3>1, <3>2, <3>3 DEF SinceInv
  <2>2. CASE ConnectInput
    BY <2>2 DEF ConnectInput, ghostVars, countVars, SinceInv
  <2>3. CASE ConnectOutput
    <3>1. since' = 0 /\ streak' \in Nat /\ inType'.avg \in Nat
      <4>1. since' = 0 /\ inType' = inType /\ (streak' = 0 \/ streak' = streak)
        BY <2>3 DEF ConnectOutput
      <4>2. streak \in Nat /\ inType.avg \in Nat
        BY InjectorAssumption DEF TypeOK, InputTypes
      <4> QED BY <4>1, <4>2
    <3>2. \A x, y \in Nat : (x + 1) * y >= 0
      OBVIOUS
    <3>3. TicksPerSecond \in Nat
      BY InjectorAssumption
    <3> QED BY <3>1, <3>2, <3>3 DEF SinceInv
  <2>4. CASE ConnectOutputOffered
    BY <2>4 DEF ConnectOutputOffered
  <2>5. CASE Accepted \/ Refused
    BY <2>5, FrameInSecond
  <2>6. CASE \/ DisconnectInput \/ DisconnectOutput \/ Pause \/ Stop
             \/ CopyFails \/ Trap \/ MetadataFails \/ Terminated \/ UNCHANGED vars
    <3>1. /\ UNCHANGED <<since, streak, inType>>
          /\ outConnected' => outConnected
      BY <2>6 DEF DisconnectInput, DisconnectOutput, Pause, Stop, CopyFails,
                  Trap, MetadataFails, Terminated, Arrives, vars, typeVars,
                  ghostVars, countVars
    <3> QED BY <3>1 DEF SinceInv
  <2> QED BY <2>1, <2>2, <2>3, <2>4, <2>5, <2>6 DEF Next
<1>3. SinceInv => OncePerSecond
  BY DEF SinceInv, OncePerSecond
<1> QED
  BY <1>1, <1>2, <1>3, TypeCorrect, CountsInductive, AgreedInductive, PTL DEF Spec

(***************************************************************************)
(* The threads                                                             *)
(*                                                                         *)
(* For every set of samples.  TypeInv, the types, the owners of the two    *)
(* locks and who has an output sample, is inductive by itself; CleanInv,   *)
(* on top of it, says what each thread relies on between its steps.        *)
(* Together they imply what every change of state leaves behind and that   *)
(* m_csReceive keeps the filter from being stopped under a sample.         *)
(***************************************************************************)
-----------------------------------------------------------------------------
(* Types and owners.                                                       *)

\* pOutSample is a sample from GetBuffer to Release.
Sampled == stream \in {"transform", "deliver", "downstream", "release"}

TypeInv ==
  /\ StreamTypeOK
  /\ Sampled <=> outSample # NoBuffer

\* Receive's steps keep the types, and m_csReceive with the streaming thread.
LEMMA StreamTypes ==
  ASSUME TypeInv, StreamStep
  PROVE  TypeInv'
<1> USE StreamingAssumption
    DEF TypeInv, StreamTypeOK, Sampled, StreamStep, StreamGoto, receiveVars,
        linkVars, allocVars, graphVars, srcVars
<1>1. CASE ReceiveEnter
  BY <1>1 DEF ReceiveEnter
<1>2. CASE ReceiveRefused \/ ReceiveAccepted \/ ReceiveBadType \/ PassOtherStream
  BY <1>2 DEF ReceiveRefused, ReceiveAccepted, ReceiveBadType, PassOtherStream
<1>3. CASE RaiseRunTimeError
  BY <1>3 DEF RaiseRunTimeError
<1>4. CASE ReceiveEndOfStream \/ RaiseEndOfStream
  <2>1. CountedEOS \in 0..2
    BY DEF CountedEOS
  <2> QED BY <1>4, <2>1 DEF ReceiveEndOfStream, RaiseEndOfStream, EndOfStream
<1>5. CASE NotifyErrorAbort \/ OtherStreamReturns \/ GetBufferRefused \/ DownstreamReturns
  BY <1>5 DEF NotifyErrorAbort, OtherStreamReturns, GetBufferRefused, DownstreamReturns
<1>6. CASE GetBuffer
  BY <1>6 DEF GetBuffer, FreeSamples
<1>7. CASE TransformSample
  BY <1>7 DEF TransformSample
<1>8. CASE Deliver
  BY <1>8 DEF Deliver
<1>9. CASE ReleaseOutSample
  BY <1>9 DEF ReleaseOutSample, ReleaseSample
<1>10. CASE ReceiveLeave
  BY <1>10 DEF ReceiveLeave
<1> QED BY <1>1, <1>2, <1>3, <1>4, <1>5, <1>6, <1>7, <1>8, <1>9, <1>10

\* The steps of Pause, Run and Stop keep them, and m_csFilter with the graph's
\* thread.
LEMMA GraphTypes ==
  ASSUME TypeInv, GraphStep
  PROVE  TypeInv'
<1> USE DEF TypeInv, StreamTypeOK, Sampled, GraphStep, GraphGoto, linkVars, streamVars,
            InPause
<1>1. CASE RunActive
  BY <1>1 DEF RunActive
<1>2. CASE PauseSimple
  <2>1. CountedEOS \in 0..2
    BY DEF CountedEOS
  <2>2. m_bEOSDelivered' \in BOOLEAN /\ rEOS' \in 0..2
    BY <1>2, <2>1 DEF PauseSimple
  <2> QED BY <1>2, <2>2 DEF PauseSimple
<1>3. CASE PauseEnter
  BY <1>3 DEF PauseEnter
<1>4. CASE StartStreaming
  BY <1>4 DEF StartStreaming
<1>5. CASE Activate
  <2>1. /\ graph = "activate" /\ graph' = "start" /\ m_csFilter' = "none"
        /\ m_State' \in {m_State, goal}
        /\ UNCHANGED <<m_bFlushing, m_bRunTimeError, m_bEOSDelivered, inCommitted,
                       srcActive, srcEnded, rEOS>>
    BY <1>5 DEF Activate, CommitFails
  <2>2. outCommitted' \in BOOLEAN
    BY <1>5 DEF Activate, CommitFails
  <2> QED BY <2>1, <2>2
<1>6. CASE StartSource
  <2>1. srcActive' \in BOOLEAN /\ inCommitted' \in BOOLEAN
    BY <1>6, Zenon DEF StartSource
  <2> QED BY <1>6, <2>1 DEF StartSource
<1>7. CASE StopSimple
  <2>1. m_bEOSDelivered' \in BOOLEAN
    BY <1>7, Zenon DEF StopSimple
  <2> QED BY <1>7, <2>1 DEF StopSimple
<1>8. CASE StopEnter
  BY <1>8 DEF StopEnter
<1>9. CASE StopInput
  <2>1. /\ graph = "inactive" /\ graph' = "synchronize"
        /\ UNCHANGED <<m_State, m_bEOSDelivered, m_csFilter, outCommitted, srcActive,
                       srcEnded, rEOS>>
    BY <1>9 DEF StopInput
  <2>2. m_bRunTimeError' \in BOOLEAN /\ m_bFlushing' \in BOOLEAN /\ inCommitted' \in BOOLEAN
    BY <1>9 DEF StopInput
  <2> QED BY <2>1, <2>2
<1>10. CASE StopOutput
  <2>1. /\ graph = "synchronize" /\ graph' = "stopSource"
        /\ m_State' = "stopped" /\ m_csFilter' = "none"
        /\ UNCHANGED <<m_bFlushing, m_bRunTimeError, inCommitted, srcActive,
                       srcEnded, rEOS>>
    BY <1>10 DEF StopOutput
  <2>2. outCommitted' \in BOOLEAN /\ m_bEOSDelivered' \in BOOLEAN
    BY <1>10 DEF StopOutput
  <2> QED BY <2>1, <2>2
<1>11. CASE StopSource
  <2>1. /\ graph = "stopSource" /\ graph' = "joinSource"
        /\ UNCHANGED <<m_State, m_bFlushing, m_bRunTimeError, m_bEOSDelivered,
                       m_csFilter, outCommitted, rEOS>>
    BY <1>11 DEF StopSource
  <2>2. srcActive' \in BOOLEAN /\ srcEnded' \in BOOLEAN /\ inCommitted' \in BOOLEAN
    BY <1>11 DEF StopSource
  <2> QED BY <2>1, <2>2
<1>12. CASE JoinSource
  BY <1>12 DEF JoinSource
<1> QED
  BY <1>1, <1>2, <1>3, <1>4, <1>5, <1>6, <1>7, <1>8, <1>9, <1>10, <1>11, <1>12

\* So do the steps of a flush.
LEMMA SeekTypes ==
  ASSUME TypeInv, SeekStep
  PROVE  TypeInv'
<1> USE DEF TypeInv, StreamTypeOK, Sampled, SeekStep, SeekGoto, linkVars, allocVars,
            streamVars, graphVars
<1>1. CASE BeginFlush
  BY <1>1 DEF BeginFlush, FilterFree
<1>2. CASE DeliverBeginFlush
  BY <1>2 DEF DeliverBeginFlush
<1>3. CASE HaltSource
  BY <1>3 DEF HaltSource
<1>4. CASE SyncSource
  BY <1>4 DEF SyncSource
<1>5. CASE DeliverEndFlush
  <2>1. /\ seek = "end" /\ seek' = "endFlush" /\ m_csFilter = "none"
        /\ m_csFilter' = "seek" /\ rEOS' = 0
        /\ UNCHANGED <<m_bFlushing, m_bRunTimeError, srcEnded, srcHalted, rHeld>>
    BY <1>5 DEF DeliverEndFlush
  <2>2. rFlushing' \in BOOLEAN
    BY <1>5 DEF DeliverEndFlush
  <2> QED BY <2>1, <2>2
<1>6. CASE EndFlush
  <2>1. /\ seek = "endFlush" /\ seek' = "idle" /\ m_csFilter' = "none"
        /\ UNCHANGED <<rFlushing, rHeld, rEOS>>
    BY <1>6 DEF EndFlush
  <2>2. /\ m_bFlushing' \in BOOLEAN /\ m_bRunTimeError' \in BOOLEAN
        /\ srcHalted' \in BOOLEAN /\ srcEnded' \in BOOLEAN
    BY <1>6 DEF EndFlush
  <2> QED BY <2>1, <2>2
<1> QED BY <1>1, <1>2, <1>3, <1>4, <1>5, <1>6

\* The calls of the neighbours.
LEMMA CallTypes ==
  ASSUME TypeInv, Push \/ GraphActivate \/ GraphStop \/ CallBeginFlush \/ Present
  PROVE  TypeInv'
<1> USE DEF TypeInv, StreamTypeOK, Sampled, StreamGoto, GraphGoto, SeekGoto, filterVars,
            lockVars, linkVars, allocVars, streamVars, graphVars, srcVars, rVars
<1>1. CASE Push
  <2>1. srcEnded' \in BOOLEAN
    BY <1>1, Zenon DEF Push
  <2> QED BY <1>1, <2>1 DEF Push
<1>2. CASE GraphActivate
  <2>1. rState' \in {"paused", "running"} /\ goal' = rState'
        /\ graph = "idle" /\ graph' \in {"pause", "run"}
    BY <1>2 DEF GraphActivate
  <2>2. UNCHANGED <<filterVars, lockVars, linkVars, allocVars, streamVars, seek,
                    srcVars, rBlocks, rFlushing, rHeld, rEOS>>
    BY <1>2 DEF GraphActivate
  <2> QED BY <2>1, <2>2
<1>3. CASE GraphStop
  <2>1. /\ graph = "idle" /\ graph' = "stop" /\ rState' = "stopped"
        /\ rHeld' = {} /\ rEOS' = 0
        /\ UNCHANGED <<filterVars, lockVars, linkVars, inCommitted, streamVars,
                       goal, seek, srcVars, rBlocks, rFlushing>>
    BY <1>3 DEF GraphStop
  <2>2. outCommitted' \in BOOLEAN
    BY <1>3 DEF GraphStop
  <2> QED BY <2>1, <2>2
<1>4. CASE CallBeginFlush
  BY <1>4 DEF CallBeginFlush
<1>5. CASE Present
  BY <1>5 DEF Present
<1> QED BY <1>1, <1>2, <1>3, <1>4, <1>5

\* The types and owners are inductive.
LEMMA TypesInductive == StreamSpec => []TypeInv
<1>1. StreamInit => TypeInv
  <2> SUFFICES ASSUME StreamInit PROVE TypeInv
    OBVIOUS
  <2>1. /\ m_bFlushing \in BOOLEAN /\ m_bRunTimeError \in BOOLEAN
        /\ m_bEOSDelivered \in BOOLEAN /\ inputConnected \in BOOLEAN
        /\ outputConnected \in BOOLEAN /\ inCommitted \in BOOLEAN
        /\ outCommitted \in BOOLEAN /\ srcActive \in BOOLEAN
        /\ srcEnded \in BOOLEAN /\ srcHalted \in BOOLEAN
        /\ rBlocks \in BOOLEAN /\ rFlushing \in BOOLEAN
    BY DEF StreamInit
  <2>2. /\ m_State = "stopped" /\ m_csFilter = "none" /\ m_csReceive = "none"
        /\ outSample = NoBuffer /\ stream = "idle" /\ item = "sample"
        /\ graph = "idle" /\ goal = "paused" /\ seek = "idle"
        /\ rState = "stopped" /\ rHeld = {} /\ rEOS = 0
    BY DEF StreamInit
  <2> QED BY <2>1, <2>2 DEF TypeInv, StreamTypeOK, Sampled
<1>2. TypeInv /\ [StreamNext]_transformVars => TypeInv'
  <2> SUFFICES ASSUME TypeInv, [StreamNext]_transformVars PROVE TypeInv'
    OBVIOUS
  <2>1. CASE UNCHANGED transformVars
    BY <2>1 DEF transformVars, TypeInv, StreamTypeOK, Sampled, filterVars, lockVars, linkVars,
                allocVars, streamVars, graphVars, srcVars, rVars
  <2> QED BY <2>1, StreamTypes, GraphTypes, SeekTypes, CallTypes DEF StreamNext
<1> QED BY <1>1, <1>2, PTL DEF StreamSpec

\* Every variable has its type, m_csReceive is owned exactly while the streaming
\* thread is inside Receive, and m_csFilter exactly where Pause, Stop and the
\* flushes hold it.
THEOREM TypesKept == StreamSpec => []StreamTypeOK
<1>1. TypeInv => StreamTypeOK
  BY DEF TypeInv
<1> QED BY <1>1, TypesInductive, PTL

-----------------------------------------------------------------------------
(* What each change of state leaves behind.                                *)

\* Where the graph's thread is between stopping the renderer and the filter.
Stopping == graph \in {"stop", "inactive", "synchronize"}

\* A source that streams, a thread that pushes and one that processes a sample
\* are where they are because the pins are connected and the filter is active.
ProcessInv ==
  /\ srcActive \/ stream # "idle" => inputConnected
  /\ Processing => outputConnected /\ m_State # "stopped"
  /\ seek # "idle" \/ rFlushing => FullyConnected
  /\ graph \in {"startStreaming", "activate"} => m_State = "stopped" /\ FullyConnected
  /\ graph \in {"inactive", "synchronize"} => FullyConnected

\* A stopped renderer has nothing, and the filter has been stopped after it.
RendererHeldInv ==
  /\ rState = "stopped" => rHeld = {} /\ rEOS = 0
  /\ rState = "stopped" => Stopping \/ m_State = "stopped"
  /\ rState = "stopped" =>
       graph \in {"idle", "stop", "inactive", "synchronize", "stopSource", "joinSource"}
  /\ Stopping => rState = "stopped"

\* An unconnected input has ended once per activation, and not in between.
EndsInv ==
  ~inputConnected /\ outputConnected =>
    /\ m_bEOSDelivered <=> m_State # "stopped"
    /\ rState # "stopped" => rEOS = IF m_State = "stopped" THEN 0 ELSE 1

CleanInv == ProcessInv /\ RendererHeldInv /\ ActiveIsCommitted /\ EndsInv

\* Receive's steps keep it.
LEMMA StreamClean ==
  ASSUME TypeInv, CleanInv, StreamStep
  PROVE  CleanInv'
<1>1. /\ UNCHANGED <<m_State, m_bEOSDelivered, inputConnected, outputConnected,
                     inCommitted, outCommitted, graph, srcActive, rState,
                     rFlushing, seek>>
      /\ stream # "idle"
  BY DEF StreamStep, ReceiveEnter, ReceiveRefused, ReceiveAccepted, ReceiveBadType,
         RaiseRunTimeError, ReceiveEndOfStream, RaiseEndOfStream, EndOfStream,
         NotifyErrorAbort, PassOtherStream, OtherStreamReturns, GetBufferRefused,
         GetBuffer, TransformSample, Deliver, DownstreamReturns, ReleaseOutSample,
         ReceiveLeave, StreamGoto, linkVars, allocVars, graphVars, srcVars
<1>2. inputConnected
  BY <1>1 DEF CleanInv, ProcessInv
<1>3. Processing' => Processing \/ CheckStreaming
  BY DEF StreamStep, ReceiveEnter, ReceiveRefused, ReceiveAccepted, ReceiveBadType,
         RaiseRunTimeError, ReceiveEndOfStream, RaiseEndOfStream, EndOfStream,
         NotifyErrorAbort, PassOtherStream, OtherStreamReturns, GetBufferRefused,
         GetBuffer, TransformSample, Deliver, DownstreamReturns, ReleaseOutSample,
         ReceiveLeave, StreamGoto, Processing
<1>4. ProcessInv'
  BY <1>1, <1>2, <1>3 DEF CleanInv, ProcessInv, CheckStreaming, FullyConnected
<1>5. rState = "stopped" => rHeld' = rHeld /\ rEOS' = rEOS
  BY DEF StreamStep, ReceiveEnter, ReceiveRefused, ReceiveAccepted, ReceiveBadType,
         RaiseRunTimeError, ReceiveEndOfStream, RaiseEndOfStream, EndOfStream,
         NotifyErrorAbort, PassOtherStream, OtherStreamReturns, GetBufferRefused,
         GetBuffer, TransformSample, Deliver, DownstreamReturns, ReleaseOutSample,
         ReceiveLeave, receiveVars, RendererAccepts, CountedEOS
<1>6. RendererHeldInv'
  BY <1>1, <1>5 DEF CleanInv, RendererHeldInv, Stopping
<1> QED
  BY <1>1, <1>2, <1>4, <1>6 DEF CleanInv, ActiveIsCommitted, EndsInv, FullyConnected

\* Pause, Run and Stop keep it.
LEMMA GraphClean ==
  ASSUME TypeInv, CleanInv, GraphStep
  PROVE  CleanInv'
<1> USE DEF TypeInv, StreamTypeOK, GraphStep, GraphGoto, linkVars, streamVars,
            CleanInv, ProcessInv, RendererHeldInv, EndsInv, ActiveIsCommitted,
            Processing, Stopping, FullyConnected
<1>1. CASE RunActive
  BY <1>1 DEF RunActive
<1>2. CASE PauseSimple
  BY <1>2 DEF PauseSimple, InPause, EndOfStreamDue, CountedEOS, RendererAccepts
<1>3. CASE PauseEnter
  BY <1>3 DEF PauseEnter, InPause
<1>4. CASE StartStreaming
  BY <1>4 DEF StartStreaming
<1>5. CASE Activate
  BY <1>5 DEF Activate, CommitFails
<1>6. CASE StartSource
  BY <1>6 DEF StartSource
<1>7. CASE StopSimple
  BY <1>7 DEF StopSimple
<1>8. CASE StopEnter \/ StopInput
  BY <1>8 DEF StopEnter, StopInput
<1>9. CASE StopOutput
  BY <1>9 DEF StopOutput, ReceiveFree
<1>10. CASE StopSource \/ JoinSource
  BY <1>10 DEF StopSource, JoinSource
<1> QED
  BY <1>1, <1>2, <1>3, <1>4, <1>5, <1>6, <1>7, <1>8, <1>9, <1>10

\* Flushes keep it: they are made between connected pins only.
LEMMA SeekClean ==
  ASSUME TypeInv, CleanInv, SeekStep
  PROVE  CleanInv'
<1> USE DEF TypeInv, StreamTypeOK, SeekStep, SeekGoto, linkVars, allocVars, streamVars,
            graphVars, CleanInv, ProcessInv, RendererHeldInv, EndsInv,
            ActiveIsCommitted, Processing, Stopping, FullyConnected
<1>1. CASE BeginFlush
  BY <1>1 DEF BeginFlush, FilterFree
<1>2. CASE DeliverBeginFlush
  BY <1>2 DEF DeliverBeginFlush
<1>3. CASE HaltSource \/ SyncSource
  BY <1>3 DEF HaltSource, SyncSource
<1>4. CASE DeliverEndFlush
  BY <1>4 DEF DeliverEndFlush
<1>5. CASE EndFlush
  BY <1>5 DEF EndFlush
<1> QED BY <1>1, <1>2, <1>3, <1>4, <1>5

\* So do the calls of the neighbours.
LEMMA CallClean ==
  ASSUME TypeInv, CleanInv,
         Push \/ GraphActivate \/ GraphStop \/ CallBeginFlush \/ Present
  PROVE  CleanInv'
<1> USE DEF TypeInv, StreamTypeOK, StreamGoto, GraphGoto, SeekGoto, filterVars,
            lockVars, linkVars, allocVars, streamVars, graphVars, srcVars, rVars,
            CleanInv, ProcessInv, RendererHeldInv, EndsInv, ActiveIsCommitted,
            Processing, Stopping, FullyConnected
<1>1. CASE Push
  BY <1>1 DEF Push
<1>2. CASE GraphActivate
  BY <1>2 DEF GraphActivate
<1>3. CASE GraphStop
  BY <1>3 DEF GraphStop
<1>4. CASE CallBeginFlush
  BY <1>4 DEF CallBeginFlush
<1>5. CASE Present
  BY <1>5 DEF Present
<1> QED BY <1>1, <1>2, <1>3, <1>4, <1>5

\* It holds of every state.
LEMMA CleanInductive == StreamSpec => []CleanInv
<1>1. StreamInit => CleanInv
  BY DEF StreamInit, CleanInv, ProcessInv, RendererHeldInv, EndsInv, ActiveIsCommitted,
         Processing, Stopping
<1>2. TypeInv /\ CleanInv /\ [StreamNext]_transformVars => CleanInv'
  <2> SUFFICES ASSUME TypeInv, CleanInv, [StreamNext]_transformVars PROVE CleanInv'
    OBVIOUS
  <2>1. CASE UNCHANGED transformVars
    BY <2>1 DEF transformVars, filterVars, lockVars, linkVars, allocVars, streamVars,
                graphVars, srcVars, rVars, CleanInv, ProcessInv, RendererHeldInv,
                EndsInv, ActiveIsCommitted, Processing, Stopping, FullyConnected
  <2> QED BY <2>1, StreamClean, GraphClean, SeekClean, CallClean DEF StreamNext
<1> QED BY <1>1, <1>2, TypesInductive, PTL DEF StreamSpec

\* Whatever the streaming thread was doing when the state was changed: a stopped
\* filter behind a stopped renderer has no sample outstanding, an active one has
\* a committed allocator, and a renderer without a source has had one EndOfStream.
THEOREM CleanStates == StreamSpec => []StatesAreClean
<1>1. TypeInv /\ CleanInv => StatesAreClean
  BY DEF TypeInv, StreamTypeOK, Sampled, CleanInv, ProcessInv, RendererHeldInv, EndsInv,
         Processing, StatesAreClean, StoppedHoldsNothing, UnconnectedEndsOnce
<1> QED BY <1>1, TypesInductive, CleanInductive, PTL

\* transfrm.h:283: while a sample is processed the filter is not stopped; Stop
\* gets past m_csReceive only when the streaming thread has left Receive, and the
\* path of Stop that takes no lock is for pins that are not connected.
THEOREM NeverStoppedWhileProcessing == StreamSpec => NoStopWhileProcessing
<1>1. TypeInv /\ CleanInv /\ [StreamNext]_transformVars =>
        (Processing /\ m_State # "stopped" => m_State' # "stopped")
  <2> SUFFICES ASSUME TypeInv, CleanInv, [StreamNext]_transformVars, Processing, m_State # "stopped",
                      m_State' # m_State
               PROVE  m_State' # "stopped"
    OBVIOUS
  <2>1. GraphStep
    BY DEF StreamNext, transformVars, filterVars, Push, StreamStep, GraphActivate, GraphStop,
           CallBeginFlush, SeekStep, Present
  <2>2. FullyConnected /\ m_csReceive = "stream"
    BY DEF TypeInv, StreamTypeOK, CleanInv, ProcessInv, Processing, FullyConnected
  <2>3. RunActive \/ PauseSimple \/ Activate
    BY <2>1, <2>2 DEF GraphStep, PauseEnter, StartStreaming, StartSource, StopSimple,
           StopEnter, StopInput, StopOutput, StopSource, JoinSource, ReceiveFree
  <2> QED BY <2>3 DEF RunActive, PauseSimple, Activate, CommitFails, TypeInv, StreamTypeOK
<1>2. TypeInv /\ CleanInv /\ [StreamNext]_transformVars =>
        [Processing /\ m_State # "stopped" => m_State' # "stopped"]_transformVars
  BY <1>1
<1> QED BY <1>2, TypesInductive, CleanInductive, PTL DEF StreamSpec, NoStopWhileProcessing

(***************************************************************************)
(* The DLL, its objects and their references                               *)
(*                                                                         *)
(* For any number of clients, factories and objects, wherever one of them  *)
(* is preempted.  What is counted by an interlocked instruction stays      *)
(* right although the plain counts of the factories and the locks may not: *)
(* the count of an object is the number of its tokens, one for each        *)
(* reference that a client or the creator has to it.  ObjectInv says       *)
(* besides what every client at work on the object may rely on, and that   *)
(* no two of them make or destroy it.                                      *)
(***************************************************************************)
Things == Factories \cup Filters
Steps == {"idle", "made", "query", "release", "destructor", "self", "destroy", "addref", "lock",
          "unlock", "unload"}

\* What a client's step needs of it, whatever the others do.
AtTyped(c) ==
  /\ at[c].step \in {"idle", "lock", "unlock", "unload"} => at[c].object = None
  /\ at[c].step \in {"made", "query", "release", "destructor", "self"} => at[c].object \in Filters
  /\ at[c].step = "destroy" => at[c].object \in Things
  /\ at[c].step = "addref" => at[c].object \in Factories /\ held[c][at[c].object] < MaxHeld
  /\ at[c].step = "lock" => locks[c] < MaxHeld
  /\ at[c].step = "unlock" => locks[c] > 0

ServerTyped == ServerTypeOK /\ \A c \in Clients : AtTyped(c)

\* Each variable but that of the clients' steps has its type, and each client's step.
LEMMA TypedByClient ==
  ASSUME /\ loaded' \in BOOLEAN /\ m_cObjects' \in Int /\ m_cLocked' \in Int
         /\ life' \in [Things -> {"none", "made", "alive", "destroyed"}]
         /\ m_cRef' \in [Things -> Int] /\ destructors' \in [Things -> Nat]
         /\ held' \in [Clients -> [Things -> 0 .. MaxHeld]]
         /\ locks' \in [Clients -> 0 .. MaxHeld]
         /\ at' \in [Clients -> [step : Steps, object : Things \cup {None}, value : Int]],
         \A c \in Clients : AtTyped(c)'
  PROVE  ServerTyped'
BY Zenon DEF ServerTyped, ServerTypeOK, Things, Objects, Steps

LEMMA TypedStart == ServerInit => ServerTyped
<1> SUFFICES ASSUME ServerInit PROVE ServerTyped
  OBVIOUS
<1>1. at \in [Clients -> [step : Steps, object : Things \cup {None}, value : Int]]
  BY DEF ServerInit, Idle, Steps, Things
<1>2. /\ held \in [Clients -> [Things -> 0 .. MaxHeld]] /\ locks \in [Clients -> 0 .. MaxHeld]
      /\ life \in [Things -> {"none", "made", "alive", "destroyed"}]
      /\ m_cRef \in [Things -> Int] /\ destructors \in [Things -> Nat]
  BY ServerConstants DEF ServerInit, Objects, Things, ServerAssumption
<1>3. loaded \in BOOLEAN
  BY DEF ServerInit
<1>4. m_cObjects \in Int /\ m_cLocked \in Int
  BY DEF ServerInit
<1>5. \A c \in Clients : AtTyped(c)
  BY DEF ServerInit, Idle, AtTyped
<1> QED BY <1>1, <1>2, <1>3, <1>4, <1>5, Zenon DEF ServerTyped, ServerTypeOK, Objects, Things, Steps

\* The types are inductive.
LEMMA TypedStep == ServerTyped /\ [ServerNext]_serverVars => ServerTyped'
<1> SUFFICES ASSUME ServerTyped, [ServerNext]_serverVars PROVE ServerTyped'
  OBVIOUS
<1>1. /\ loaded \in BOOLEAN /\ m_cObjects \in Int /\ m_cLocked \in Int
      /\ life \in [Things -> {"none", "made", "alive", "destroyed"}]
      /\ m_cRef \in [Things -> Int] /\ destructors \in [Things -> Nat]
      /\ held \in [Clients -> [Things -> 0 .. MaxHeld]]
      /\ locks \in [Clients -> 0 .. MaxHeld]
      /\ at \in [Clients -> [step : Steps, object : Things \cup {None}, value : Int]]
      /\ \A c \in Clients : AtTyped(c)
  BY Zenon DEF ServerTyped, ServerTypeOK, Objects, Things, Steps
<1>2. /\ MaxHeld \in Nat \ {0} /\ 1 \in 0 .. MaxHeld /\ 0 \in 0 .. MaxHeld
      /\ Factories \subseteq Things /\ Filters \subseteq Things /\ Objects = Things
  BY ServerConstants DEF ServerAssumption, Things, Objects
<1>3. \A c \in Clients, o \in Things : held[c][o] \in 0 .. MaxHeld
  BY <1>1
<1>4. ASSUME NEW c \in Clients, NEW step \in Steps, NEW o \in Things \cup {None}, Go(c, step, o)
      PROVE  at' \in [Clients -> [step : Steps, object : Things \cup {None}, value : Int]]
  BY <1>1, <1>4 DEF Go
<1>5. ASSUME NEW c \in Clients, NEW o \in Things, NEW n \in 0 .. MaxHeld, Holding(c, o, n)
      PROVE  /\ held' \in [Clients -> [Things -> 0 .. MaxHeld]]
             /\ \A d \in Clients, p \in Things : d # c \/ p # o => held'[d][p] = held[d][p]
  BY <1>1, <1>5 DEF Holding
<1>6. ASSUME NEW c \in Clients, at' = [at EXCEPT ![c] = Idle]
      PROVE  /\ at' \in [Clients -> [step : Steps, object : Things \cup {None}, value : Int]]
             /\ at'[c].step = "idle" /\ at'[c].object = None
             /\ \A d \in Clients : d # c => at'[d] = at[d]
  BY <1>1, <1>6 DEF Idle, Steps
<1>7. ASSUME NEW c \in Clients, NEW step, NEW o, Go(c, step, o)
      PROVE  /\ at'[c].step = step /\ at'[c].object = o
             /\ \A d \in Clients : d # c => at'[d] = at[d]
  BY <1>1, <1>7 DEF Go
<1>8. ASSUME NEW c \in Clients, AtTyped(c)',
             \A d \in Clients : d # c =>
               /\ at'[d] = at[d] /\ locks'[d] = locks[d]
               /\ \A p \in Factories : at[d].step = "addref" => held'[d][p] = held[d][p]
      PROVE  \A d \in Clients : AtTyped(d)'
  <2> SUFFICES ASSUME NEW d \in Clients, d # c PROVE AtTyped(d)'
    BY <1>8
  <2>1. AtTyped(d)
    BY <1>1
  <2> QED BY <1>8, <2>1 DEF AtTyped
<1>9. CASE UNCHANGED serverVars
  <2>1. \A c \in Clients : AtTyped(c)'
    BY <1>1, <1>9 DEF serverVars, AtTyped
  <2> QED BY <1>1, <1>9, <2>1, TypedByClient DEF serverVars
<1>10. CASE ServerNext
  <2>1. PICK c \in Clients :
          \/ \E w \in Factories : DllGetClassObject(c, w) \/ \E o \in Filters : CreateInstance(c, w, o)
          \/ CreationFails(c) \/ CreationSucceeds(c) \/ NonDelegatingQueryInterface(c)
          \/ Release(c) \/ SelfReference(c) \/ SelfReleased(c) \/ Destroy(c)
          \/ \E o \in Objects : AddRef(c, o) \/ \E d \in Clients \ {c} : Give(c, d, o)
          \/ AddRefWrites(c) \/ LockServer(c) \/ LockServerWrites(c)
          \/ DllCanUnloadNow(c) \/ DllCanUnload(c)
    BY <1>10, Zenon DEF ServerNext
  <2>2. AtTyped(c)
    BY <1>1
  <2>3. ASSUME NEW w \in Factories, DllGetClassObject(c, w) PROVE ServerTyped'
    <3>1. held' \in [Clients -> [Things -> 0 .. MaxHeld]]
      BY <1>2, <1>5, <2>3 DEF DllGetClassObject
    <3>2. /\ life' \in [Things -> {"none", "made", "alive", "destroyed"}]
          /\ m_cRef' \in [Things -> Int] /\ destructors' \in [Things -> Nat]
      BY <1>1, <1>2, <2>3 DEF DllGetClassObject
    <3>3. /\ AtTyped(c)' /\ at' = at /\ locks' = locks
          /\ \A d \in Clients \ {c}, p \in Factories : held'[d][p] = held[d][p]
      <4>1. /\ at' = at /\ locks' = locks /\ at[c].step = "idle"
            /\ \A d \in Clients \ {c}, p \in Factories : held'[d][p] = held[d][p]
        BY <1>2, <1>5, <2>3 DEF DllGetClassObject, Free, Is
      <4>2. AtTyped(c)'
        BY <2>2, <4>1 DEF AtTyped
      <4> QED BY <4>1, <4>2
    <3>4. \A d \in Clients : AtTyped(d)'
      BY <1>8, <3>3
    <3> QED BY <1>1, <2>3, <3>1, <3>2, <3>4, TypedByClient DEF DllGetClassObject
  <2>4. ASSUME NEW w \in Factories, NEW o \in Filters, CreateInstance(c, w, o) PROVE ServerTyped'
    <3>1. at' \in [Clients -> [step : Steps, object : Things \cup {None}, value : Int]]
      BY <1>2, <1>4, <2>4 DEF CreateInstance, Steps
    <3>2. /\ life' \in [Things -> {"none", "made", "alive", "destroyed"}]
          /\ m_cRef' \in [Things -> Int] /\ destructors' \in [Things -> Nat]
      BY <1>1, <1>2, <2>4 DEF CreateInstance
    <3>3. AtTyped(c)' /\ \A d \in Clients : d # c => at'[d] = at[d]
      BY <1>7, <2>4 DEF CreateInstance, AtTyped
    <3>4. \A d \in Clients : AtTyped(d)'
      BY <1>8, <2>4, <3>3 DEF CreateInstance
    <3> QED BY <1>1, <2>4, <3>1, <3>2, <3>4, TypedByClient DEF CreateInstance
  <2>5. ASSUME CreationFails(c) PROVE ServerTyped'
    <3>0. at[c].object \in Filters /\ at[c].object \in Things
      BY <1>2, <2>2, <2>5 DEF CreationFails, Is, AtTyped
    <3>1. at' \in [Clients -> [step : Steps, object : Things \cup {None}, value : Int]]
      BY <1>4, <2>5, <3>0 DEF CreationFails, Steps
    <3>2. /\ life' \in [Things -> {"none", "made", "alive", "destroyed"}]
          /\ destructors' \in [Things -> Nat]
      BY <1>1, <2>5, <3>0 DEF CreationFails
    <3>3. AtTyped(c)' /\ \A d \in Clients : d # c => at'[d] = at[d]
      BY <1>7, <2>5, <3>0 DEF CreationFails, AtTyped
    <3>4. \A d \in Clients : AtTyped(d)'
      BY <1>8, <2>5, <3>3 DEF CreationFails, static
    <3> QED BY <1>1, <2>5, <3>1, <3>2, <3>4, TypedByClient DEF CreationFails, static
  <2>6. ASSUME CreationSucceeds(c) PROVE ServerTyped'
    <3>0. at[c].object \in Filters /\ at[c].object \in Things
      BY <1>2, <2>2, <2>6 DEF CreationSucceeds, Is, AtTyped
    <3>1. at' \in [Clients -> [step : Steps, object : Things \cup {None}, value : Int]]
      BY <1>4, <2>6, <3>0 DEF CreationSucceeds, Steps
    <3>2. /\ life' \in [Things -> {"none", "made", "alive", "destroyed"}]
          /\ m_cRef' \in [Things -> Int]
      BY <1>1, <2>6, <3>0 DEF CreationSucceeds
    <3>3. AtTyped(c)' /\ \A d \in Clients : d # c => at'[d] = at[d]
      BY <1>7, <2>6, <3>0 DEF CreationSucceeds, AtTyped
    <3>4. \A d \in Clients : AtTyped(d)'
      BY <1>8, <2>6, <3>3 DEF CreationSucceeds, static
    <3> QED BY <1>1, <2>6, <3>1, <3>2, <3>4, TypedByClient DEF CreationSucceeds, static
  <2>7. ASSUME NonDelegatingQueryInterface(c) PROVE ServerTyped'
    <3>0. at[c].object \in Filters /\ at[c].object \in Things
      BY <1>2, <2>2, <2>7 DEF NonDelegatingQueryInterface, Is, AtTyped
    <3>1. at' \in [Clients -> [step : Steps, object : Things \cup {None}, value : Int]]
      BY <1>4, <2>7, <3>0 DEF NonDelegatingQueryInterface, Steps
    <3>2. m_cRef' \in [Things -> Int]
      BY <1>1, <2>7, <3>0 DEF NonDelegatingQueryInterface
    <3>3. /\ held' \in [Clients -> [Things -> 0 .. MaxHeld]]
          /\ \A d \in Clients \ {c}, p \in Factories : held'[d][p] = held[d][p]
      BY <1>1, <1>2, <1>5, <2>7, <3>0 DEF NonDelegatingQueryInterface
    <3>4. AtTyped(c)' /\ \A d \in Clients : d # c => at'[d] = at[d]
      BY <1>7, <2>7, <3>0 DEF NonDelegatingQueryInterface, AtTyped
    <3>5. \A d \in Clients : AtTyped(d)'
      BY <1>8, <2>7, <3>3, <3>4 DEF NonDelegatingQueryInterface, static
    <3> QED BY <1>1, <2>7, <3>1, <3>2, <3>3, <3>5, TypedByClient
        DEF NonDelegatingQueryInterface, static
  <2>8. ASSUME NEW o \in Things, ReleaseReference(c, o)
        PROVE  /\ m_cRef' \in [Things -> Int] /\ destructors' \in [Things -> Nat]
               /\ life' \in [Things -> {"none", "made", "alive", "destroyed"}]
               /\ at' \in [Clients -> [step : Steps, object : Things \cup {None}, value : Int]]
               /\ AtTyped(c)' /\ \A d \in Clients : d # c => at'[d] = at[d]
    <3>1. m_cRef' \in [Things -> Int]
      BY <1>1, <2>8 DEF ReleaseReference
    <3>2. CASE m_cRef[o] = 1
      <4>1. PICK step \in {"destructor", "destroy"} :
              Go(c, step, o) /\ (step = "destructor" => o \in Filters)
        BY <2>8, <3>2 DEF ReleaseReference
      <4>2. at' \in [Clients -> [step : Steps, object : Things \cup {None}, value : Int]]
        BY <1>4, <4>1 DEF Steps
      <4>3. AtTyped(c)' /\ \A d \in Clients : d # c => at'[d] = at[d]
        BY <1>7, <4>1 DEF AtTyped
      <4>4. /\ destructors' = [destructors EXCEPT ![o] = @ + 1]
            /\ life' = [life EXCEPT ![o] = "destroyed"]
        BY <2>8, <3>2 DEF ReleaseReference
      <4>5. destructors[o] + 1 \in Nat
        BY <1>1
      <4>6. destructors' \in [Things -> Nat]
        BY <1>1, <4>4, <4>5
      <4>7. life' \in [Things -> {"none", "made", "alive", "destroyed"}]
        BY <1>1, <4>4
      <4> QED BY <3>1, <4>2, <4>3, <4>6, <4>7
    <3>3. CASE m_cRef[o] # 1
      <4>1. at' = [at EXCEPT ![c] = Idle] /\ UNCHANGED <<destructors, life>>
        BY <2>8, <3>3 DEF ReleaseReference
      <4>2. AtTyped(c)'
        BY <1>6, <4>1 DEF AtTyped
      <4> QED BY <1>1, <1>6, <3>1, <4>1, <4>2
    <3> QED BY <3>2, <3>3
  <2>9. ASSUME Release(c) PROVE ServerTyped'
    <3>1. CASE Is(c, "release") /\ ReleaseReference(c, at[c].object) /\ UNCHANGED <<static, held>>
      <4>1. at[c].object \in Things
        BY <1>2, <2>2, <3>1 DEF Is, AtTyped
      <4>2. \A d \in Clients : AtTyped(d)'
        BY <1>8, <2>8, <3>1, <4>1 DEF static
      <4> QED BY <1>1, <2>8, <3>1, <4>1, <4>2, TypedByClient DEF static
    <3>2. ASSUME NEW o \in Things, Free(c), Has(c, o), ReleaseReference(c, o),
                 Holding(c, o, held[c][o] - 1), UNCHANGED static
          PROVE  ServerTyped'
      <4>0. held[c][o] \in 0 .. MaxHeld /\ held[c][o] > 0
        BY <1>3, <3>2 DEF Has
      <4>1. held[c][o] - 1 \in 0 .. MaxHeld
        BY <1>2, <4>0
      <4>2. /\ held' \in [Clients -> [Things -> 0 .. MaxHeld]]
            /\ \A d \in Clients \ {c}, p \in Factories : held'[d][p] = held[d][p]
        BY <1>2, <1>5, <3>2, <4>1
      <4>3. \A d \in Clients : AtTyped(d)'
        BY <1>8, <2>8, <3>2, <4>2 DEF static
      <4> QED BY <1>1, <2>8, <3>2, <4>2, <4>3, TypedByClient DEF static
    <3> QED BY <1>2, <2>9, <3>1, <3>2 DEF Release
  <2>10. ASSUME SelfReference(c) PROVE ServerTyped'
    <3>0. at[c].object \in Filters /\ at[c].object \in Things
      BY <1>2, <2>2, <2>10 DEF SelfReference, Is, AtTyped
    <3>1. PICK step \in {"destroy", "self"} : Go(c, step, at[c].object)
      BY <2>10 DEF SelfReference
    <3>2. at' \in [Clients -> [step : Steps, object : Things \cup {None}, value : Int]]
      BY <1>4, <3>0, <3>1 DEF Steps
    <3>3. m_cRef' \in [Things -> Int]
      BY <1>1, <2>10, <3>0 DEF SelfReference
    <3>4. AtTyped(c)' /\ \A d \in Clients : d # c => at'[d] = at[d]
      BY <1>7, <3>0, <3>1 DEF AtTyped
    <3>5. \A d \in Clients : AtTyped(d)'
      BY <1>8, <2>10, <3>4 DEF SelfReference, static
    <3> QED BY <1>1, <2>10, <3>2, <3>3, <3>5, TypedByClient DEF SelfReference, static
  <2>11. ASSUME SelfReleased(c) PROVE ServerTyped'
    <3>0. at[c].object \in Filters /\ at[c].object \in Things
      BY <1>2, <2>2, <2>11 DEF SelfReleased, Is, AtTyped
    <3>1. at' \in [Clients -> [step : Steps, object : Things \cup {None}, value : Int]]
      BY <1>4, <2>11, <3>0 DEF SelfReleased, Steps
    <3>2. m_cRef' \in [Things -> Int] /\ destructors' \in [Things -> Nat]
      BY <1>1, <2>11, <3>0 DEF SelfReleased
    <3>3. AtTyped(c)' /\ \A d \in Clients : d # c => at'[d] = at[d]
      BY <1>7, <2>11, <3>0 DEF SelfReleased, AtTyped
    <3>4. \A d \in Clients : AtTyped(d)'
      BY <1>8, <2>11, <3>3 DEF SelfReleased, static
    <3> QED BY <1>1, <2>11, <3>1, <3>2, <3>4, TypedByClient DEF SelfReleased, static
  <2>12. ASSUME Destroy(c) PROVE ServerTyped'
    <3>0. at[c].object \in Things
      BY <2>2, <2>12 DEF Destroy, Is, AtTyped
    <3>1. life' \in [Things -> {"none", "made", "alive", "destroyed"}]
      BY <1>1, <2>12, <3>0 DEF Destroy
    <3>2. AtTyped(c)'
      BY <1>6, <2>12 DEF Destroy, AtTyped
    <3>3. \A d \in Clients : AtTyped(d)'
      BY <1>6, <1>8, <2>12, <3>2 DEF Destroy
    <3>4. at' \in [Clients -> [step : Steps, object : Things \cup {None}, value : Int]]
      BY <1>6, <2>12 DEF Destroy
    <3>5. m_cObjects' \in Int
      BY <1>1, <2>12 DEF Destroy
    <3> QED BY <1>1, <2>12, <3>1, <3>3, <3>4, <3>5, TypedByClient DEF Destroy
  <2>13. ASSUME NEW o \in Things, AddRef(c, o) PROVE ServerTyped'
    <3>1. CASE o \in Filters
      <4>1. held[c][o] + 1 \in 0 .. MaxHeld
        BY <1>2, <1>3, <2>13 DEF AddRef
      <4>2. /\ held' \in [Clients -> [Things -> 0 .. MaxHeld]]
            /\ \A d \in Clients \ {c}, p \in Factories : held'[d][p] = held[d][p]
        BY <1>2, <1>5, <2>13, <3>1, <4>1 DEF AddRef
      <4>3. m_cRef' \in [Things -> Int]
        BY <1>1, <2>13, <3>1 DEF AddRef
      <4>4. AtTyped(c)'
        <5>1. at' = at /\ at[c].step = "idle"
          BY <2>13, <3>1 DEF AddRef, Free, Is
        <5> QED BY <2>2, <5>1 DEF AtTyped
      <4>5. \A d \in Clients : AtTyped(d)'
        BY <1>8, <2>13, <3>1, <4>2, <4>4 DEF AddRef, static
      <4> QED BY <1>1, <2>13, <3>1, <4>2, <4>3, <4>5, TypedByClient DEF AddRef, static
    <3>2. CASE o \notin Filters
      <4>1. at' = [at EXCEPT ![c] = [step |-> "addref", object |-> o, value |-> m_cRef[o]]]
        BY <2>13, <3>2 DEF AddRef
      <4>2. /\ at' \in [Clients -> [step : Steps, object : Things \cup {None}, value : Int]]
            /\ \A d \in Clients : d # c => at'[d] = at[d]
        BY <1>1, <4>1 DEF Steps
      <4>3. AtTyped(c)'
        BY <1>1, <2>13, <3>2, <4>1 DEF AddRef, AtTyped, Things
      <4>4. \A d \in Clients : AtTyped(d)'
        BY <1>8, <2>13, <3>2, <4>2, <4>3 DEF AddRef, static
      <4> QED BY <1>1, <2>13, <3>2, <4>2, <4>4, TypedByClient DEF AddRef, static
    <3> QED BY <3>1, <3>2
  <2>14. ASSUME NEW o \in Things, NEW d \in Clients \ {c}, Give(c, d, o) PROVE ServerTyped'
    <3> DEFINE given == [held EXCEPT ![c][o] = @ - 1]
    <3>1. held[c][o] - 1 \in 0 .. MaxHeld /\ held[d][o] + 1 \in 0 .. MaxHeld
      BY <1>2, <1>3, <2>14 DEF Give, Has
    <3>2. given \in [Clients -> [Things -> 0 .. MaxHeld]] /\ given[d][o] = held[d][o]
      BY <1>1, <3>1
    <3>3. held' = [given EXCEPT ![d][o] = @ + 1]
      BY <2>14 DEF Give
    <3>4. \A e \in Clients : e # c /\ e # d => held'[e] = held[e]
      BY <1>1, <2>14 DEF Give
    <3> HIDE DEF given
    <3>5. held' \in [Clients -> [Things -> 0 .. MaxHeld]]
      BY <3>1, <3>2, <3>3
    <3>6. ASSUME NEW e \in Clients PROVE AtTyped(e)'
      <4>1. AtTyped(e) /\ (at[e].step = "addref" => e # c /\ e # d)
        BY <1>1, <2>14 DEF Give, Free, Is
      <4> QED BY <2>14, <3>4, <4>1 DEF AtTyped, Give, static
    <3> QED BY <1>1, <2>14, <3>5, <3>6, TypedByClient DEF Give, static
  <2>15. ASSUME AddRefWrites(c) PROVE ServerTyped'
    <3> SUFFICES ASSUME NEW o, o = at[c].object PROVE ServerTyped'
      OBVIOUS
    <3>1. o \in Things /\ held[c][o] + 1 \in 0 .. MaxHeld
      BY <1>2, <1>3, <2>2, <2>15 DEF AddRefWrites, Is, AtTyped
    <3>2. /\ held' \in [Clients -> [Things -> 0 .. MaxHeld]]
          /\ \A d \in Clients \ {c}, p \in Factories : held'[d][p] = held[d][p]
      BY <1>2, <1>5, <2>15, <3>1 DEF AddRefWrites
    <3>3. m_cRef' \in [Things -> Int]
      <4>1. at[c].value \in Int
        BY <1>1
      <4> QED BY <1>1, <2>15, <3>1, <4>1 DEF AddRefWrites
    <3>4. AtTyped(c)'
      BY <1>6, <2>15 DEF AddRefWrites, AtTyped
    <3>5. \A d \in Clients : AtTyped(d)'
      BY <1>6, <1>8, <2>15, <3>2, <3>4 DEF AddRefWrites, static
    <3> QED BY <1>1, <1>6, <2>15, <3>2, <3>3, <3>5, TypedByClient DEF AddRefWrites, static
  <2>16. ASSUME LockServer(c) PROVE ServerTyped'
    <3>1. PICK step \in {"lock", "unlock"} :
            /\ IF step = "lock" THEN locks[c] < MaxHeld ELSE locks[c] > 0
            /\ at' = [at EXCEPT ![c] = [step |-> step, object |-> None, value |-> m_cLocked]]
      BY <2>16, Zenon DEF LockServer
    <3>2. /\ at' \in [Clients -> [step : Steps, object : Things \cup {None}, value : Int]]
          /\ \A d \in Clients : d # c => at'[d] = at[d]
      BY <1>1, <3>1 DEF Steps
    <3>3. AtTyped(c)'
      BY <1>1, <2>16, <3>1 DEF LockServer, static, AtTyped
    <3>4. \A d \in Clients : AtTyped(d)'
      BY <1>8, <2>16, <3>2, <3>3 DEF LockServer, static
    <3> QED BY <1>1, <2>16, <3>2, <3>4, TypedByClient DEF LockServer, static
  <2>17. ASSUME LockServerWrites(c) PROVE ServerTyped'
    <3>1. locks \in [Clients -> 0 .. MaxHeld] /\ m_cLocked' \in Int
      BY <1>1, <2>17 DEF LockServerWrites
    <3>2. locks[c] \in 0 .. MaxHeld
      BY <3>1
    <3>3. locks' \in [Clients -> 0 .. MaxHeld] /\ \A d \in Clients : d # c => locks'[d] = locks[d]
      <4>1. CASE Is(c, "lock")
        <5>1. locks[c] < MaxHeld /\ locks' = [locks EXCEPT ![c] = @ + 1]
          BY <2>2, <2>17, <4>1 DEF LockServerWrites, Is, AtTyped
        <5>2. locks[c] + 1 \in 0 .. MaxHeld
          BY <1>2, <3>2, <5>1
        <5> QED BY <3>1, <5>1, <5>2
      <4>2. CASE Is(c, "unlock")
        <5>1. locks[c] > 0 /\ locks' = [locks EXCEPT ![c] = @ + (-1)]
          BY <2>2, <2>17, <4>2 DEF LockServerWrites, Is, AtTyped
        <5>2. locks[c] + (-1) \in 0 .. MaxHeld
          BY <1>2, <3>2, <5>1
        <5> QED BY <3>1, <5>1, <5>2
      <4> QED BY <2>17, <4>1, <4>2 DEF LockServerWrites, Is
    <3>4. AtTyped(c)'
      BY <1>6, <2>17 DEF LockServerWrites, AtTyped
    <3>5. \A d \in Clients : AtTyped(d)'
      BY <1>6, <1>8, <2>17, <3>3, <3>4 DEF LockServerWrites
    <3> QED BY <1>1, <1>6, <2>17, <3>1, <3>3, <3>5, TypedByClient DEF LockServerWrites
  <2>18. ASSUME DllCanUnloadNow(c) PROVE ServerTyped'
    <3>1. at' \in [Clients -> [step : Steps, object : Things \cup {None}, value : Int]]
      BY <1>4, <2>18 DEF DllCanUnloadNow, Steps
    <3>2. AtTyped(c)' /\ \A d \in Clients : d # c => at'[d] = at[d]
      BY <1>7, <2>18 DEF DllCanUnloadNow, AtTyped
    <3>3. \A d \in Clients : AtTyped(d)'
      BY <1>8, <2>18, <3>2 DEF DllCanUnloadNow, static
    <3> QED BY <1>1, <2>18, <3>1, <3>3, TypedByClient DEF DllCanUnloadNow, static
  <2>19. ASSUME DllCanUnload(c) PROVE ServerTyped'
    <3>1. loaded' \in BOOLEAN /\ m_cLocked' \in Int
      BY <1>1, <2>19 DEF DllCanUnload
    <3>2. AtTyped(c)'
      BY <1>6, <2>19 DEF DllCanUnload, AtTyped
    <3>3. \A d \in Clients : AtTyped(d)'
      BY <1>6, <1>8, <2>19, <3>2 DEF DllCanUnload
    <3> QED BY <1>1, <1>6, <2>19, <3>1, <3>3, TypedByClient DEF DllCanUnload
  <2> QED BY <1>2, <2>1, <2>3, <2>4, <2>5, <2>6, <2>7, <2>9, <2>10, <2>11, <2>12, <2>13, <2>14,
             <2>15, <2>16, <2>17, <2>18, <2>19
<1> QED BY <1>9, <1>10

\* The server's variables keep their types, whoever is preempted.
LEMMA ServerTypes == ServerSpec => []ServerTypeOK
<1>1. ServerTyped => ServerTypeOK
  BY DEF ServerTyped
<1> QED BY <1>1, TypedStart, TypedStep, PTL DEF ServerSpec

-----------------------------------------------------------------------------
(* The references to one object.                                           *)

\* Those that clients hold, and that of its creator.
Created(c, o) == at[c].step \in {"query", "release"} /\ at[c].object = o
Tokens(o) ==
  {t \in Clients \X (0 .. MaxHeld) :
     IF t[2] = 0 THEN Created(t[1], o) ELSE t[2] <= held[t[1]][o]}

Making == {"made", "query", "destructor", "self", "destroy"}
Ending == {"destructor", "self", "destroy"}

\* What a client at work on an object may rely on.
AtWork(c, o) ==
  LET step == at[c].step
  IN  /\ step = "made" => life[o] = "made" /\ m_cRef[o] = 0
      /\ step = "query" => life[o] = "alive" /\ \A d \in Clients : held[d][o] = 0
      /\ step = "release" => life[o] = "alive"
      /\ step = "destructor" => life[o] = "destroyed" /\ m_cRef[o] = 1
      /\ step = "self" => life[o] = "destroyed" /\ m_cRef[o] = 2
      /\ step = "destroy" => life[o] = "destroyed"

LifeInv(o) ==
  /\ life[o] = "made" => destructors[o] = 0 /\ \E c \in Clients : at[c].step = "made" /\ at[c].object = o
  /\ life[o] = "alive" => destructors[o] = 0 /\ m_cRef[o] > 0
  /\ life[o] = "destroyed" =>
       destructors[o] = 1 /\ \E c \in Clients : at[c].step \in Ending /\ at[c].object = o
  /\ destructors[o] <= 1

ObjectInv(o) ==
  /\ IsFiniteSet(Tokens(o)) /\ (life[o] = "alive" => m_cRef[o] = Cardinality(Tokens(o)))
  /\ \A c \in Clients : at[c].object = o => AtWork(c, o)
  /\ \A c, d \in Clients :
       c # d /\ at[c].object = o /\ at[d].object = o => ~(at[c].step \in Making /\ at[d].step \in Making)
  /\ LifeInv(o)
  /\ (\E c \in Clients : held[c][o] > 0) => life[o] = "alive"

\* Values have the types of their variables.
LEMMA TypedAt ==
  ASSUME ServerTyped
  PROVE  /\ \A c \in Clients : AtTyped(c)
         /\ \A c \in Clients, o \in Filters : held[c][o] \in 0 .. MaxHeld
         /\ \A o \in Filters : /\ m_cRef[o] \in Int /\ destructors[o] \in Nat
                               /\ life[o] \in {"none", "made", "alive", "destroyed"}
         /\ None \notin Filters /\ Factories \cap Filters = {} /\ MaxHeld \in Nat \ {0}
BY ServerConstants DEF ServerTyped, ServerTypeOK, Objects, ServerAssumption

LEMMA TokensSame ==
  ASSUME NEW o, \A d \in Clients : held'[d][o] = held[d][o],
         \A d \in Clients : Created(d, o)' <=> Created(d, o)
  PROVE  Tokens(o)' = Tokens(o)
BY DEF Tokens

LEMMA TokenGained ==
  ASSUME ServerTyped, NEW o \in Filters, NEW c \in Clients, \A d \in Clients : Created(d, o)' <=> Created(d, o),
         \A d \in Clients : d # c => held'[d][o] = held[d][o],
         held'[c][o] = held[c][o] + 1, held[c][o] < MaxHeld
  PROVE  /\ <<c, held[c][o] + 1>> \notin Tokens(o)
         /\ Tokens(o)' = Tokens(o) \cup {<<c, held[c][o] + 1>>}
<1> DEFINE new == <<c, held[c][o] + 1>>
<1>1. held[c][o] \in 0 .. MaxHeld
  BY TypedAt
<1>2. held[c][o] + 1 \in 0 .. MaxHeld /\ held[c][o] + 1 # 0 /\ ~(held[c][o] + 1 <= held[c][o])
  BY <1>1, TypedAt
<1>3. new \notin Tokens(o) /\ new \in Tokens(o)'
  BY <1>1, <1>2 DEF Tokens
<1>4. ASSUME NEW d \in Clients, NEW i \in 0 .. MaxHeld, <<d, i>> # new
      PROVE  <<d, i>> \in Tokens(o)' <=> <<d, i>> \in Tokens(o)
  <2>1. i = 0 \/ (i <= held'[d][o] <=> i <= held[d][o])
    BY <1>1, <1>4
  <2> QED BY <2>1 DEF Tokens
<1>5. \A t \in Clients \X (0 .. MaxHeld) : t # new => (t \in Tokens(o)' <=> t \in Tokens(o))
  BY <1>4
<1>6. Tokens(o) \subseteq Clients \X (0 .. MaxHeld) /\ Tokens(o)' \subseteq Clients \X (0 .. MaxHeld)
  BY DEF Tokens
<1> HIDE DEF new
<1>7. Tokens(o)' = Tokens(o) \cup {new}
  BY <1>3, <1>5, <1>6
<1> QED BY <1>3, <1>7 DEF new

LEMMA TokenLost ==
  ASSUME ServerTyped, NEW o \in Filters, NEW c \in Clients, \A d \in Clients : Created(d, o)' <=> Created(d, o),
         \A d \in Clients : d # c => held'[d][o] = held[d][o],
         held'[c][o] = held[c][o] - 1, held[c][o] > 0
  PROVE  /\ <<c, held[c][o]>> \in Tokens(o)
         /\ Tokens(o)' = Tokens(o) \ {<<c, held[c][o]>>}
<1> DEFINE old == <<c, held[c][o]>>
<1>1. held[c][o] \in 0 .. MaxHeld
  BY TypedAt
<1>3. old \in Tokens(o) /\ old \notin Tokens(o)'
  BY <1>1 DEF Tokens
<1>4. ASSUME NEW d \in Clients, NEW i \in 0 .. MaxHeld, <<d, i>> # old
      PROVE  <<d, i>> \in Tokens(o)' <=> <<d, i>> \in Tokens(o)
  <2>1. i = 0 \/ (i <= held'[d][o] <=> i <= held[d][o])
    BY <1>1, <1>4
  <2> QED BY <2>1 DEF Tokens
<1>5. \A t \in Clients \X (0 .. MaxHeld) : t # old => (t \in Tokens(o)' <=> t \in Tokens(o))
  BY <1>4
<1>6. Tokens(o) \subseteq Clients \X (0 .. MaxHeld) /\ Tokens(o)' \subseteq Clients \X (0 .. MaxHeld)
  BY DEF Tokens
<1> HIDE DEF old
<1>7. Tokens(o)' = Tokens(o) \ {old}
  BY <1>3, <1>5, <1>6
<1> QED BY <1>3, <1>7 DEF old

LEMMA TokenGiven ==
  ASSUME ServerTyped, NEW o \in Filters, NEW c \in Clients, NEW d \in Clients \ {c},
         \A e \in Clients : Created(e, o)' <=> Created(e, o),
         \A e \in Clients : e # c /\ e # d => held'[e][o] = held[e][o],
         held'[c][o] = held[c][o] - 1, held[c][o] > 0, held'[d][o] = held[d][o] + 1, held[d][o] < MaxHeld
  PROVE  /\ <<c, held[c][o]>> \in Tokens(o) /\ <<d, held[d][o] + 1>> \notin Tokens(o)
         /\ <<c, held[c][o]>> # <<d, held[d][o] + 1>>
         /\ Tokens(o)' = (Tokens(o) \ {<<c, held[c][o]>>}) \cup {<<d, held[d][o] + 1>>}
<1> DEFINE old == <<c, held[c][o]>>
           new == <<d, held[d][o] + 1>>
<1>1. held[c][o] \in 0 .. MaxHeld /\ held[d][o] \in 0 .. MaxHeld /\ MaxHeld \in Nat
  BY TypedAt
<1>2. held[d][o] + 1 \in 0 .. MaxHeld /\ held[d][o] + 1 # 0
  BY <1>1
<1>3. old \in Tokens(o) /\ old \notin Tokens(o)'
  BY <1>1 DEF Tokens
<1>4. new \notin Tokens(o) /\ new \in Tokens(o)'
  BY <1>1, <1>2 DEF Tokens
<1>5. ASSUME NEW e \in Clients, NEW i \in 0 .. MaxHeld, <<e, i>> # old, <<e, i>> # new
      PROVE  <<e, i>> \in Tokens(o)' <=> <<e, i>> \in Tokens(o)
  <2>1. i = 0 \/ (i <= held'[e][o] <=> i <= held[e][o])
    BY <1>1, <1>5
  <2> QED BY <2>1 DEF Tokens
<1>6. \A t \in Clients \X (0 .. MaxHeld) : t # old /\ t # new => (t \in Tokens(o)' <=> t \in Tokens(o))
  BY <1>5
<1>7. Tokens(o) \subseteq Clients \X (0 .. MaxHeld) /\ Tokens(o)' \subseteq Clients \X (0 .. MaxHeld)
  BY DEF Tokens
<1>8. old # new
  OBVIOUS
<1> HIDE DEF old, new
<1>9. Tokens(o)' = (Tokens(o) \ {old}) \cup {new}
  BY <1>3, <1>4, <1>6, <1>7, <1>8
<1> QED BY <1>3, <1>4, <1>8, <1>9 DEF old, new

LEMMA CreatorJoins ==
  ASSUME ServerTyped, NEW o \in Filters, NEW c \in Clients, \A d \in Clients : held'[d][o] = held[d][o],
         \A d \in Clients : d # c => (Created(d, o)' <=> Created(d, o)), Created(c, o)', ~Created(c, o)
  PROVE  <<c, 0>> \notin Tokens(o) /\ Tokens(o)' = Tokens(o) \cup {<<c, 0>>}
<1>1. 0 \in 0 .. MaxHeld
  BY TypedAt
<1> QED BY <1>1 DEF Tokens

LEMMA CreatorLeaves ==
  ASSUME ServerTyped, NEW o \in Filters, NEW c \in Clients, \A d \in Clients : held'[d][o] = held[d][o],
         \A d \in Clients : d # c => (Created(d, o)' <=> Created(d, o)), Created(c, o), ~Created(c, o)'
  PROVE  <<c, 0>> \in Tokens(o) /\ Tokens(o)' = Tokens(o) \ {<<c, 0>>}
<1>1. 0 \in 0 .. MaxHeld
  BY TypedAt
<1> QED BY <1>1 DEF Tokens

LEMMA OneMore ==
  ASSUME NEW A, NEW B, NEW x, IsFiniteSet(A), x \notin A, B = A \cup {x}
  PROVE  IsFiniteSet(B) /\ Cardinality(B) = Cardinality(A) + 1
BY FS_AddElement

LEMMA OneLess ==
  ASSUME NEW A, NEW B, NEW x, IsFiniteSet(A), x \in A, B = A \ {x}
  PROVE  IsFiniteSet(B) /\ Cardinality(B) = Cardinality(A) - 1
BY FS_RemoveElement

\* The only reference is that of the one who releases it.
LEMMA LastToken ==
  ASSUME NEW o \in Filters, ObjectInv(o), life[o] = "alive", m_cRef[o] = 1, NEW t \in Tokens(o)
  PROVE  Tokens(o) = {t}
<1>1. IsFiniteSet(Tokens(o)) /\ Cardinality(Tokens(o)) = 1
  BY DEF ObjectInv
<1>2. PICK x : Tokens(o) = {x}
  BY <1>1, FS_Singleton
<1> QED BY <1>2

\* The last reference of a holder, and of a creator.
LEMMA OnlyHolder ==
  ASSUME ServerTyped, NEW o \in Filters, ObjectInv(o), NEW c \in Clients, held[c][o] > 0, m_cRef[o] = 1
  PROVE  /\ life[o] = "alive" /\ held[c][o] = 1 /\ \A d \in Clients : d # c => held[d][o] = 0
         /\ \A d \in Clients : ~Created(d, o)
<1>1. life[o] = "alive" /\ held[c][o] \in 0 .. MaxHeld
  BY TypedAt DEF ObjectInv
<1>2. <<c, held[c][o]>> \in Tokens(o)
  BY <1>1 DEF Tokens
<1>3. \A t \in Tokens(o) : t = <<c, held[c][o]>>
  BY <1>1, <1>2, LastToken
<1>4. ASSUME NEW d \in Clients, NEW i \in 1 .. MaxHeld, i <= held[d][o] PROVE d = c /\ i = held[c][o]
  <2>1. <<d, i>> \in Tokens(o)
    BY <1>4, TypedAt DEF Tokens
  <2> QED BY <1>3, <2>1
<1>5. ASSUME NEW d \in Clients PROVE ~Created(d, o)
  <2>1. Created(d, o) => <<d, 0>> \in Tokens(o)
    BY TypedAt DEF Tokens
  <2> QED BY <1>3, <2>1
<1>6. \A d \in Clients : held[d][o] \in 0 .. MaxHeld
  BY TypedAt
<1>7. MaxHeld \in Nat \ {0}
  BY TypedAt
<1>8. held[c][o] = 1
  BY <1>4, <1>6, <1>7
<1>9. ASSUME NEW d \in Clients, d # c PROVE held[d][o] = 0
  <2>1. ~(1 <= held[d][o])
    BY <1>4, <1>7, <1>9
  <2> QED BY <1>6, <2>1
<1> QED BY <1>1, <1>5, <1>8, <1>9

LEMMA OnlyCreator ==
  ASSUME ServerTyped, NEW o \in Filters, ObjectInv(o), NEW c \in Clients, Created(c, o), life[o] = "alive",
         m_cRef[o] = 1
  PROVE  /\ \A d \in Clients : held[d][o] = 0
         /\ \A d \in Clients : d # c => ~Created(d, o)
<1>2. <<c, 0>> \in Tokens(o)
  BY TypedAt DEF Tokens
<1>3. \A t \in Tokens(o) : t = <<c, 0>>
  BY <1>2, LastToken
<1>4. ASSUME NEW d \in Clients PROVE held[d][o] = 0
  <2>1. 1 <= held[d][o] => <<d, 1>> \in Tokens(o)
    BY TypedAt DEF Tokens
  <2>2. held[d][o] \in 0 .. MaxHeld
    BY TypedAt
  <2> QED BY <1>3, <2>1, <2>2
<1>5. ASSUME NEW d \in Clients, d # c PROVE ~Created(d, o)
  <2>1. Created(d, o) => <<d, 0>> \in Tokens(o)
    BY TypedAt DEF Tokens
  <2> QED BY <1>3, <1>5, <2>1
<1> QED BY <1>4, <1>5

-----------------------------------------------------------------------------
(* The steps of the clients.                                               *)

\* A step that does not concern an object leaves it as it is.
LEMMA Untouched ==
  ASSUME NEW o \in Filters, ObjectInv(o),
         \A d \in Clients : held'[d][o] = held[d][o],
         life'[o] = life[o], m_cRef'[o] = m_cRef[o], destructors'[o] = destructors[o],
         \A d \in Clients : at[d].object = o \/ at'[d].object = o => at'[d] = at[d]
  PROVE  ObjectInv(o)'
<1>1. Tokens(o)' = Tokens(o)
  BY TokensSame DEF Created
<1>2. \A d \in Clients : at'[d].object = o => AtWork(d, o)'
  BY DEF ObjectInv, AtWork
<1>3. \A c, d \in Clients : c # d /\ at'[c].object = o /\ at'[d].object = o =>
        ~(at'[c].step \in Making /\ at'[d].step \in Making)
  BY DEF ObjectInv
<1>4. LifeInv(o)'
  BY DEF ObjectInv, LifeInv
<1> QED BY <1>1, <1>2, <1>3, <1>4 DEF ObjectInv

\* What a step of one client on an object has to keep.
LEMMA Touched ==
  ASSUME NEW o \in Filters, ObjectInv(o), NEW c \in Clients,
         IsFiniteSet(Tokens(o)'), life'[o] = "alive" => m_cRef'[o] = Cardinality(Tokens(o)'),
         \A d \in Clients : d # c => at'[d] = at[d],
         \A d \in Clients : at'[d].object = o => AtWork(d, o)',
         at'[c].object = o /\ at'[c].step \in Making =>
           \A d \in Clients : d # c /\ at[d].object = o => at[d].step \notin Making,
         LifeInv(o)',
         (\E d \in Clients : held'[d][o] > 0) => life'[o] = "alive"
  PROVE  ObjectInv(o)'
<1>1. \A e, d \in Clients : e # d /\ at'[e].object = o /\ at'[d].object = o =>
        ~(at'[e].step \in Making /\ at'[d].step \in Making)
  BY DEF ObjectInv
<1> QED BY <1>1 DEF ObjectInv

\* What nobody has ever had, or what is being destroyed, has no tokens.
LEMMA NobodyHas ==
  ASSUME ServerTyped, NEW o \in Filters, ObjectInv(o), life[o] # "alive"
  PROVE  /\ Tokens(o) = {} /\ \A d \in Clients : held[d][o] = 0 /\ ~Created(d, o)
         /\ IsFiniteSet(Tokens(o)) /\ Cardinality(Tokens(o)) = 0
<1>1. ASSUME NEW d \in Clients PROVE ~Created(d, o)
  BY DEF ObjectInv, AtWork, Created
<1>2. ASSUME NEW d \in Clients PROVE held[d][o] = 0
  <2>1. held[d][o] \in 0 .. MaxHeld /\ ~(held[d][o] > 0)
    BY TypedAt DEF ObjectInv
  <2> QED BY <2>1
<1>3. Tokens(o) = {}
  BY <1>1, <1>2 DEF Tokens
<1> QED BY <1>1, <1>2, <1>3, FS_EmptySet

\* CreateInstance makes an object that nobody knows.
LEMMA CreateKeeps ==
  ASSUME ServerTyped, NEW o \in Filters, ObjectInv(o), NEW c \in Clients, NEW w \in Factories,
         CreateInstance(c, w, o)
  PROVE  ObjectInv(o)'
<1>1. /\ life[o] = "none" /\ life'[o] = "made" /\ m_cRef'[o] = 0 /\ destructors'[o] = 0
      /\ at'[c].step = "made" /\ at'[c].object = o /\ held' = held
      /\ \A d \in Clients : d # c => at'[d] = at[d]
      /\ at[c].step = "idle"
  BY DEF CreateInstance, Go, Free, Is, ServerTyped, ServerTypeOK, Objects
<1>2. \A d \in Clients : at[d].object = o => at[d].step \notin Making
  BY <1>1 DEF ObjectInv, AtWork, Making, LifeInv
<1>3. Tokens(o)' = Tokens(o)
  BY <1>1, NobodyHas, TokensSame DEF Created
<1>4. \A d \in Clients : at'[d].object = o => AtWork(d, o)'
  BY <1>1, <1>2 DEF AtWork, ObjectInv, Making
<1>5. LifeInv(o)'
  BY <1>1 DEF LifeInv
<1>6. \A d \in Clients : held'[d][o] = 0
  BY <1>1, NobodyHas
<1> QED BY <1>1, <1>2, <1>3, <1>4, <1>5, <1>6, NobodyHas, Touched

\* A failed constructor's object is destroyed, a successful one's is the creator's.
LEMMA ConstructorKeeps ==
  ASSUME ServerTyped, NEW o \in Filters, ObjectInv(o), NEW c \in Clients, at[c].object = o,
         CreationFails(c) \/ CreationSucceeds(c)
  PROVE  ObjectInv(o)'
<1>1. /\ at[c].step = "made" /\ life[o] = "made" /\ m_cRef[o] = 0 /\ destructors[o] = 0
      /\ held' = held /\ \A d \in Clients : held[d][o] = 0 /\ ~Created(d, o)
      /\ IsFiniteSet(Tokens(o)) /\ Cardinality(Tokens(o)) = 0
  BY NobodyHas DEF CreationFails, CreationSucceeds, Is, static, ObjectInv, AtWork, LifeInv
<1>2. \A d \in Clients : d # c /\ at[d].object = o => at[d].step \notin Making
  BY <1>1 DEF ObjectInv, Making
<1>3. CASE CreationFails(c)
  <2>1. /\ life'[o] = "destroyed" /\ destructors'[o] = 1 /\ m_cRef'[o] = 0
        /\ at'[c].step = "destroy" /\ at'[c].object = o
        /\ \A d \in Clients : d # c => at'[d] = at[d]
    BY <1>1, <1>3 DEF CreationFails, Go, static, ServerTyped, ServerTypeOK, Objects
  <2>2. Tokens(o)' = Tokens(o)
    BY <1>1, <2>1, TokensSame DEF Created
  <2>3. \A d \in Clients : at'[d].object = o => AtWork(d, o)'
    BY <1>1, <1>2, <2>1 DEF AtWork, ObjectInv, Making
  <2>4. LifeInv(o)'
    BY <2>1 DEF LifeInv, Ending
  <2> QED BY <1>1, <1>2, <2>1, <2>2, <2>3, <2>4, Touched
<1>4. CASE CreationSucceeds(c)
  <2>1. /\ life'[o] = "alive" /\ destructors'[o] = 0 /\ m_cRef'[o] = 1
        /\ at'[c].step = "query" /\ at'[c].object = o
        /\ \A d \in Clients : d # c => at'[d] = at[d]
    BY <1>1, <1>4 DEF CreationSucceeds, Go, static, ServerTyped, ServerTypeOK, Objects
  <2>2. <<c, 0>> \notin Tokens(o) /\ Tokens(o)' = Tokens(o) \cup {<<c, 0>>}
    BY <1>1, <2>1, CreatorJoins DEF Created
  <2>3. IsFiniteSet(Tokens(o)') /\ Cardinality(Tokens(o)') = 1
    BY <1>1, <2>2, OneMore
  <2>4. \A d \in Clients : at'[d].object = o => AtWork(d, o)'
    BY <1>1, <1>2, <2>1 DEF AtWork, ObjectInv, Making
  <2>5. LifeInv(o)'
    BY <2>1 DEF LifeInv
  <2> QED BY <1>1, <1>2, <2>1, <2>3, <2>4, <2>5, Touched
<1> QED BY <1>3, <1>4

\* The interface asked for may be given, the creator's reference is released after.
LEMMA QueryKeeps ==
  ASSUME ServerTyped, NEW o \in Filters, ObjectInv(o), NEW c \in Clients, at[c].object = o,
         NonDelegatingQueryInterface(c)
  PROVE  ObjectInv(o)'
<1>1. /\ at[c].step = "query" /\ life[o] = "alive" /\ destructors[o] = 0 /\ m_cRef[o] > 0
      /\ life'[o] = "alive" /\ destructors'[o] = 0
      /\ \A d \in Clients : held[d][o] = 0
      /\ IsFiniteSet(Tokens(o)) /\ m_cRef[o] = Cardinality(Tokens(o))
      /\ m_cRef[o] \in Int
  BY TypedAt DEF NonDelegatingQueryInterface, Is, ObjectInv, AtWork, LifeInv
<1>2. /\ at'[c].step = "release" /\ at'[c].object = o
      /\ \A d \in Clients : d # c => at'[d] = at[d]
  BY DEF NonDelegatingQueryInterface, Go, ServerTyped, ServerTypeOK
<1>3. \A d \in Clients : d # c /\ at[d].object = o => at[d].step \notin Making
  BY <1>1 DEF ObjectInv, Making
<1>4. \A d \in Clients : Created(d, o)' <=> Created(d, o)
  BY <1>1, <1>2 DEF Created
<1>5. \A d \in Clients : at'[d].object = o => AtWork(d, o)'
  BY <1>1, <1>2, <1>3 DEF AtWork, ObjectInv, Making
<1>6. CASE UNCHANGED <<m_cRef, held>>
  <2>1. Tokens(o)' = Tokens(o)
    BY <1>4, <1>6, TokensSame
  <2>2. LifeInv(o)'
    BY <1>1, <1>6 DEF LifeInv
  <2> QED BY <1>1, <1>2, <1>5, <1>6, <2>1, <2>2, Touched DEF Making
<1>7. CASE m_cRef' = [m_cRef EXCEPT ![o] = @ + 1] /\ Holding(c, o, 1)
  <2>1. /\ m_cRef'[o] = m_cRef[o] + 1 /\ held'[c][o] = 1
        /\ \A d \in Clients : d # c => held'[d][o] = held[d][o]
    BY <1>7 DEF Holding, ServerTyped, ServerTypeOK, Objects
  <2>2. held[c][o] < MaxHeld /\ held'[c][o] = held[c][o] + 1
    BY <1>1, <2>1, TypedAt
  <2>3. <<c, held[c][o] + 1>> \notin Tokens(o) /\ Tokens(o)' = Tokens(o) \cup {<<c, held[c][o] + 1>>}
    BY <1>4, <2>1, <2>2, TokenGained
  <2>4. IsFiniteSet(Tokens(o)') /\ Cardinality(Tokens(o)') = m_cRef[o] + 1
    BY <1>1, <2>3, OneMore
  <2>5. LifeInv(o)'
    BY <1>1, <2>1 DEF LifeInv
  <2> QED BY <1>1, <1>2, <1>5, <2>1, <2>4, <2>5, Touched DEF Making
<1> QED BY <1>6, <1>7 DEF NonDelegatingQueryInterface

\* A release: of the last reference, whose client destroys the object, or of another.
LEMMA ReleaseKeeps ==
  ASSUME ServerTyped, NEW o \in Filters, ObjectInv(o), NEW c \in Clients, NEW T, NEW t \in Tokens(o),
         T = Tokens(o) \ {t}, Tokens(o)' = T, life[o] = "alive", ReleaseReference(c, o),
         at[c].step \in {"idle", "release"},
         \A d \in Clients : held[d][o] = 0 => held'[d][o] = 0,
         m_cRef[o] = 1 => \A d \in Clients : held'[d][o] = 0 /\ (d # c => ~Created(d, o))
  PROVE  ObjectInv(o)'
<1>1. /\ destructors[o] = 0 /\ m_cRef[o] > 0 /\ m_cRef[o] \in Int
      /\ IsFiniteSet(Tokens(o)) /\ m_cRef[o] = Cardinality(Tokens(o))
  BY TypedAt DEF ObjectInv, LifeInv
<1>2. IsFiniteSet(T) /\ Cardinality(T) = m_cRef[o] - 1
  BY <1>1, OneLess
<1>3. CASE m_cRef[o] = 1
  <2>1. /\ m_cRef'[o] = 1 /\ destructors'[o] = 1 /\ life'[o] = "destroyed"
        /\ at'[c].step = "destructor" /\ at'[c].object = o
        /\ \A d \in Clients : d # c => at'[d] = at[d]
    BY <1>1, <1>3 DEF ReleaseReference, Go, ServerTyped, ServerTypeOK, Objects
  <2>2. \A d \in Clients : d # c /\ at[d].object = o => at[d].step \notin Making
    BY <1>3 DEF ObjectInv, AtWork, Making, Created
  <2>3. \A d \in Clients : at'[d].object = o => AtWork(d, o)'
    BY <1>3, <2>1, <2>2 DEF AtWork, ObjectInv, Making, Created
  <2>4. LifeInv(o)'
    BY <2>1 DEF LifeInv, Ending
  <2>5. ~\E d \in Clients : held'[d][o] > 0
    BY <1>3
  <2> QED BY <1>2, <2>1, <2>2, <2>3, <2>4, <2>5, Touched
<1>4. CASE m_cRef[o] # 1
  <2>1. /\ m_cRef'[o] = m_cRef[o] - 1 /\ destructors'[o] = 0 /\ life'[o] = "alive"
        /\ at'[c].step = "idle" /\ at'[c].object = None
        /\ \A d \in Clients : d # c => at'[d] = at[d]
    BY <1>1, <1>4 DEF ReleaseReference, Idle, ServerTyped, ServerTypeOK, Objects
  <2>2. ASSUME NEW d \in Clients, at'[d].object = o PROVE AtWork(d, o)'
    <3>1. at'[d] = at[d] /\ d # c /\ AtWork(d, o)
      BY <2>1, <2>2, TypedAt DEF ObjectInv
    <3>2. at[d].step \notin {"made", "destructor", "self", "destroy"}
      BY <3>1 DEF AtWork
    <3> QED BY <2>1, <3>1, <3>2 DEF AtWork
  <2>3. LifeInv(o)'
    BY <1>1, <1>4, <2>1 DEF LifeInv
  <2> QED BY <1>2, <2>1, <2>2, <2>3, TypedAt, Touched
<1> QED BY <1>3, <1>4

LEMMA ReleaseElsewhere ==
  ASSUME ServerTyped, NEW o \in Filters, NEW c \in Clients, NEW x, x # o, ReleaseReference(c, x)
  PROVE  /\ life'[o] = life[o] /\ m_cRef'[o] = m_cRef[o] /\ destructors'[o] = destructors[o]
         /\ at'[c].object # o /\ \A d \in Clients : d # c => at'[d] = at[d]
<1>1. /\ life \in [Objects -> {"none", "made", "alive", "destroyed"}]
      /\ m_cRef \in [Objects -> Int] /\ destructors \in [Objects -> Nat] /\ o \in Objects /\ o # None
  BY TypedAt DEF ServerTyped, ServerTypeOK, Objects
<1>2. m_cRef'[o] = m_cRef[o]
  BY <1>1 DEF ReleaseReference
<1>3. life'[o] = life[o] /\ destructors'[o] = destructors[o]
  BY <1>1 DEF ReleaseReference
<1>4. at'[c].object # o /\ \A d \in Clients : d # c => at'[d] = at[d]
  BY <1>1 DEF ReleaseReference, Go, Idle, ServerTyped, ServerTypeOK
<1> QED BY <1>2, <1>3, <1>4

\* The release of an object by its creator, or of another object.
LEMMA CreatorReleaseKeeps ==
  ASSUME ServerTyped, NEW o \in Filters, ObjectInv(o), NEW c \in Clients, NEW x, x = at[c].object,
         Is(c, "release"), ReleaseReference(c, x), UNCHANGED held
  PROVE  ObjectInv(o)'
<1>1. at[c].step = "release" /\ x \in Filters
  BY TypedAt DEF Is, AtTyped
<1>2. CASE x = o
  <2>0. /\ at'[c].step \in {"idle", "destroy", "destructor"}
        /\ \A d \in Clients : d # c => at'[d] = at[d]
    BY DEF ReleaseReference, Go, Idle, ServerTyped, ServerTypeOK
  <2>1. /\ Created(c, o) /\ ~Created(c, o)' /\ \A d \in Clients : d # c => (Created(d, o)' <=> Created(d, o))
        /\ life[o] = "alive"
    BY <1>1, <1>2, <2>0 DEF Created, ObjectInv, AtWork
  <2>2. <<c, 0>> \in Tokens(o) /\ Tokens(o)' = Tokens(o) \ {<<c, 0>>}
    BY <2>1, CreatorLeaves
  <2>3. m_cRef[o] = 1 => \A d \in Clients : held'[d][o] = 0 /\ (d # c => ~Created(d, o))
    BY <2>1, OnlyCreator
  <2> QED BY <1>1, <1>2, <2>1, <2>2, <2>3, ReleaseKeeps
<1>3. CASE x # o
  <2>1. /\ life'[o] = life[o] /\ m_cRef'[o] = m_cRef[o] /\ destructors'[o] = destructors[o]
        /\ at'[c].object # o /\ \A d \in Clients : d # c => at'[d] = at[d]
    BY <1>3, TypedAt, ReleaseElsewhere
  <2> QED BY <1>3, <2>1, Untouched
<1> QED BY <1>2, <1>3

\* The release by a client that has a reference.
LEMMA HolderReleaseKeeps ==
  ASSUME ServerTyped, NEW o \in Filters, ObjectInv(o), NEW c \in Clients, NEW p \in Things,
         Free(c), Has(c, p), ReleaseReference(c, p), Holding(c, p, held[c][p] - 1)
  PROVE  ObjectInv(o)'
<1>1. /\ at[c].step = "idle" /\ held[c][p] > 0
      /\ held'[c][p] = held[c][p] - 1
      /\ \A d \in Clients, q \in Things : d # c \/ q # p => held'[d][q] = held[d][q]
      /\ \A d \in Clients : d # c => at'[d] = at[d]
      /\ at'[c].step \in {"idle", "destroy", "destructor"}
  BY DEF Free, Is, Has, Holding, ReleaseReference, Go, Idle, ServerTyped, ServerTypeOK, Objects, Things
<1>2. CASE p = o
  <2>1. (\A d \in Clients : Created(d, o)' <=> Created(d, o)) /\ life[o] = "alive"
    BY <1>1, <1>2 DEF Created, ObjectInv
  <2>2. <<c, held[c][o]>> \in Tokens(o) /\ Tokens(o)' = Tokens(o) \ {<<c, held[c][o]>>}
    BY <1>1, <1>2, <2>1, TokenLost
  <2>3. m_cRef[o] = 1 => \A d \in Clients : held'[d][o] = 0 /\ (d # c => ~Created(d, o))
    BY <1>1, <1>2, OnlyHolder
  <2>4. \A d \in Clients : held[d][o] = 0 => held'[d][o] = 0
    BY <1>1, <1>2
  <2> QED BY <1>1, <1>2, <2>1, <2>2, <2>3, <2>4, ReleaseKeeps
<1>3. CASE p # o
  <2>1. /\ life'[o] = life[o] /\ m_cRef'[o] = m_cRef[o] /\ destructors'[o] = destructors[o]
        /\ at'[c].object # o
    BY <1>3, ReleaseElsewhere
  <2>2. at[c].object # o
    BY <1>1, TypedAt DEF AtTyped
  <2> QED BY <1>1, <1>3, <2>1, <2>2, Untouched DEF Things
<1> QED BY <1>2, <1>3

\* The destructor may take a reference to itself and give it back: it has two then.
LEMMA DestructorKeeps ==
  ASSUME ServerTyped, NEW o \in Filters, ObjectInv(o), NEW c \in Clients, at[c].object = o,
         SelfReference(c) \/ SelfReleased(c)
  PROVE  ObjectInv(o)'
<1>1. /\ life[o] = "destroyed" /\ destructors[o] = 1 /\ life'[o] = "destroyed" /\ held' = held
      /\ at[c].step \in {"destructor", "self"}
      /\ at[c].step = "destructor" => m_cRef[o] = 1
      /\ at[c].step = "self" => m_cRef[o] = 2
      /\ \A d \in Clients : held[d][o] = 0 /\ ~Created(d, o)
      /\ IsFiniteSet(Tokens(o))
  BY NobodyHas DEF SelfReference, SelfReleased, Is, static, ObjectInv, AtWork, LifeInv
<1>2. /\ destructors'[o] = 1 /\ at'[c].object = o /\ at'[c].step \in {"self", "destroy"}
      /\ at'[c].step = "self" => m_cRef'[o] = 2
      /\ \A d \in Clients : d # c => at'[d] = at[d]
  <2>1. CASE SelfReference(c)
    BY <1>1, <2>1 DEF SelfReference, Go, Is, static, ServerTyped, ServerTypeOK, Objects
  <2>2. CASE SelfReleased(c)
    <3>1. m_cRef[o] = 2
      BY <1>1, <2>2 DEF SelfReleased, Is
    <3> QED BY <1>1, <2>2, <3>1 DEF SelfReleased, Go, Is, static, ServerTyped, ServerTypeOK, Objects
  <2> QED BY <2>1, <2>2
<1>3. \A d \in Clients : d # c /\ at[d].object = o => at[d].step \notin Making
  BY <1>1 DEF ObjectInv, Making
<1>4. Tokens(o)' = Tokens(o)
  BY <1>1, <1>2, TokensSame DEF Created
<1>5. \A d \in Clients : at'[d].object = o => AtWork(d, o)'
  BY <1>1, <1>2, <1>3 DEF AtWork, ObjectInv, Making
<1>6. LifeInv(o)'
  BY <1>1, <1>2 DEF LifeInv, Ending
<1> QED BY <1>1, <1>2, <1>3, <1>4, <1>5, <1>6, Touched

\* The memory of the object is freed.
LEMMA DestroyKeeps ==
  ASSUME ServerTyped, NEW o \in Filters, ObjectInv(o), NEW c \in Clients, at[c].object = o, Destroy(c)
  PROVE  ObjectInv(o)'
<1>1. /\ at[c].step = "destroy" /\ life[o] = "destroyed" /\ destructors[o] = 1 /\ life'[o] = "none"
      /\ held' = held /\ destructors' = destructors
      /\ at'[c].step = "idle" /\ at'[c].object = None
      /\ \A d \in Clients : d # c => at'[d] = at[d]
      /\ \A d \in Clients : held[d][o] = 0 /\ ~Created(d, o)
      /\ IsFiniteSet(Tokens(o))
  BY NobodyHas DEF Destroy, Is, Idle, ObjectInv, AtWork, LifeInv, ServerTyped, ServerTypeOK, Objects
<1>2. \A d \in Clients : d # c /\ at[d].object = o => at[d].step \notin Making
  BY <1>1 DEF ObjectInv, Making
<1>3. Tokens(o)' = Tokens(o)
  BY <1>1, TypedAt, TokensSame DEF Created
<1>4. \A d \in Clients : at'[d].object = o => AtWork(d, o)'
  BY <1>1, <1>2, TypedAt DEF AtWork, ObjectInv, Making
<1>5. LifeInv(o)'
  BY <1>1 DEF LifeInv
<1> QED BY <1>1, <1>3, <1>4, <1>5, TypedAt, Touched

\* A reference more of one client, or another one's.
LEMMA ReferenceKeeps ==
  ASSUME ServerTyped, NEW o \in Filters, ObjectInv(o), NEW c \in Clients,
         AddRef(c, o) \/ \E d \in Clients \ {c} : Give(c, d, o)
  PROVE  ObjectInv(o)'
<1>1. /\ held[c][o] > 0 /\ life[o] = "alive" /\ at' = at /\ life' = life /\ destructors' = destructors
      /\ m_cRef[o] \in Int /\ m_cRef[o] > 0 /\ destructors[o] = 0
      /\ IsFiniteSet(Tokens(o)) /\ m_cRef[o] = Cardinality(Tokens(o))
  BY TypedAt DEF AddRef, Give, Has, static, ObjectInv, LifeInv
<1>2. \A d \in Clients : Created(d, o)' <=> Created(d, o)
  BY <1>1 DEF Created
<1>3. ASSUME m_cRef'[o] > 0 PROVE (\A d \in Clients : at'[d].object = o => AtWork(d, o)') /\ LifeInv(o)'
  <2>1. \A d \in Clients : at[d].object = o =>
          at[d].step \notin {"made", "query", "destructor", "self", "destroy"}
    BY <1>1 DEF ObjectInv, AtWork
  <2> QED BY <1>1, <1>3, <2>1 DEF AtWork, LifeInv
<1>4. \A e, d \in Clients : e # d /\ at[e].object = o /\ at[d].object = o =>
        ~(at[e].step \in Making /\ at[d].step \in Making)
  BY DEF ObjectInv
<1>5. CASE AddRef(c, o)
  <2>1. /\ m_cRef'[o] = m_cRef[o] + 1 /\ held'[c][o] = held[c][o] + 1 /\ held[c][o] < MaxHeld
        /\ \A d \in Clients : d # c => held'[d][o] = held[d][o]
    BY <1>5 DEF AddRef, Holding, ServerTyped, ServerTypeOK, Objects
  <2>2. <<c, held[c][o] + 1>> \notin Tokens(o) /\ Tokens(o)' = Tokens(o) \cup {<<c, held[c][o] + 1>>}
    BY <1>2, <2>1, TokenGained
  <2>3. IsFiniteSet(Tokens(o)') /\ Cardinality(Tokens(o)') = m_cRef'[o]
    BY <1>1, <2>1, <2>2, OneMore
  <2> QED BY <1>1, <1>3, <1>4, <2>1, <2>3 DEF ObjectInv
<1>6. ASSUME NEW d \in Clients \ {c}, Give(c, d, o) PROVE ObjectInv(o)'
  <2>1. /\ m_cRef' = m_cRef /\ held'[c][o] = held[c][o] - 1 /\ held'[d][o] = held[d][o] + 1
        /\ held[d][o] < MaxHeld /\ \A e \in Clients : e # c /\ e # d => held'[e][o] = held[e][o]
    BY <1>6 DEF Give, ServerTyped, ServerTypeOK, Objects
  <2>2. /\ <<c, held[c][o]>> \in Tokens(o) /\ <<d, held[d][o] + 1>> \notin Tokens(o)
        /\ <<c, held[c][o]>> # <<d, held[d][o] + 1>>
        /\ Tokens(o)' = (Tokens(o) \ {<<c, held[c][o]>>}) \cup {<<d, held[d][o] + 1>>}
    BY <1>1, <1>2, <2>1, TokenGiven
  <2>3. /\ IsFiniteSet(Tokens(o) \ {<<c, held[c][o]>>})
        /\ Cardinality(Tokens(o) \ {<<c, held[c][o]>>}) = m_cRef[o] - 1
    BY <1>1, <2>2, OneLess
  <2>4. <<d, held[d][o] + 1>> \notin Tokens(o) \ {<<c, held[c][o]>>}
    BY <2>2, Zenon
  <2>5. ASSUME NEW A, A = Tokens(o) \ {<<c, held[c][o]>>}
        PROVE  IsFiniteSet(Tokens(o)') /\ Cardinality(Tokens(o)') = (m_cRef[o] - 1) + 1
    <3>1. Tokens(o)' = A \cup {<<d, held[d][o] + 1>>} /\ <<d, held[d][o] + 1>> \notin A
      BY <2>2, <2>4, <2>5, Zenon
    <3>2. IsFiniteSet(A) /\ Cardinality(A) = m_cRef[o] - 1
      BY <2>3, <2>5, Zenon
    <3>3. IsFiniteSet(Tokens(o)') /\ Cardinality(Tokens(o)') = Cardinality(A) + 1
      BY <3>1, <3>2, OneMore, Zenon
    <3> QED BY <3>2, <3>3
  <2>6. IsFiniteSet(Tokens(o)') /\ Cardinality(Tokens(o)') = m_cRef[o]
    <3>1. IsFiniteSet(Tokens(o)') /\ Cardinality(Tokens(o)') = (m_cRef[o] - 1) + 1
      BY <2>5, Zenon
    <3>2. (m_cRef[o] - 1) + 1 = m_cRef[o]
      BY <1>1
    <3> QED BY <3>1, <3>2, Zenon
  <2>7. (\A e \in Clients : at'[e].object = o => AtWork(e, o)') /\ LifeInv(o)'
    BY <1>1, <1>3, <2>1
  <2> QED BY <1>1, <1>4, <2>1, <2>6, <2>7 DEF ObjectInv
<1> QED BY <1>5, <1>6

\* The references of every object that is not a factory are counted right.
LEMMA ObjectStep ==
  ASSUME ServerTyped, NEW o \in Filters, ObjectInv(o), [ServerNext]_serverVars
  PROVE  ObjectInv(o)'
<1>1. CASE UNCHANGED serverVars
  BY <1>1, Untouched DEF serverVars
<1>2. CASE ServerNext
  <2>1. PICK c \in Clients :
          \/ \E w \in Factories : DllGetClassObject(c, w) \/ \E p \in Filters : CreateInstance(c, w, p)
          \/ CreationFails(c) \/ CreationSucceeds(c) \/ NonDelegatingQueryInterface(c)
          \/ Release(c) \/ SelfReference(c) \/ SelfReleased(c) \/ Destroy(c)
          \/ \E p \in Objects : AddRef(c, p) \/ \E d \in Clients \ {c} : Give(c, d, p)
          \/ AddRefWrites(c) \/ LockServer(c) \/ LockServerWrites(c)
          \/ DllCanUnloadNow(c) \/ DllCanUnload(c)
    BY <1>2, Zenon DEF ServerNext
  <2> SUFFICES ASSUME NEW x, x = at[c].object PROVE ObjectInv(o)'
    OBVIOUS
  <2>2. /\ AtTyped(c) /\ None # o /\ \A w \in Factories : w # o
        /\ at[c].step \in {"idle", "lock", "unlock", "unload"} => at[c].object # o
    BY TypedAt DEF AtTyped
  <2>3. /\ held \in [Clients -> [Things -> 0 .. MaxHeld]]
        /\ at \in [Clients -> [step : Steps, object : Things \cup {None}, value : Int]]
        /\ life \in [Things -> {"none", "made", "alive", "destroyed"}]
        /\ m_cRef \in [Things -> Int] /\ destructors \in [Things -> Nat]
        /\ o \in Things /\ Objects = Things
    BY Zenon DEF ServerTyped, ServerTypeOK, Objects, Things, Steps
  <2>4. ASSUME NEW w \in Factories, DllGetClassObject(c, w) PROVE ObjectInv(o)'
    BY <2>2, <2>3, <2>4, Untouched DEF DllGetClassObject, Holding, Things
  <2>5. ASSUME NEW w \in Factories, NEW p \in Filters, CreateInstance(c, w, p) PROVE ObjectInv(o)'
    <3>1. CASE p = o
      BY <2>5, <3>1, CreateKeeps
    <3>2. CASE p # o
      <4>1. /\ life'[o] = life[o] /\ m_cRef'[o] = m_cRef[o] /\ destructors'[o] = destructors[o]
            /\ held' = held
        BY <2>3, <2>5, <3>2 DEF CreateInstance
      <4>2. at[c].object # o /\ at'[c].object # o /\ \A d \in Clients : d # c => at'[d] = at[d]
        BY <2>2, <2>3, <2>5, <3>2 DEF CreateInstance, Go, Free, Is
      <4> QED BY <4>1, <4>2, Untouched
    <3> QED BY <3>1, <3>2
  <2>6. CASE CreationFails(c) \/ CreationSucceeds(c)
    <3>1. CASE x = o
      BY <2>6, <3>1, ConstructorKeeps
    <3>2. CASE x # o
      <4>1. /\ life'[o] = life[o] /\ m_cRef'[o] = m_cRef[o] /\ destructors'[o] = destructors[o]
            /\ held' = held
        BY <2>3, <2>6, <3>2 DEF CreationFails, CreationSucceeds, static
      <4>2. at'[c].object # o /\ \A d \in Clients : d # c => at'[d] = at[d]
        BY <2>3, <2>6, <3>2 DEF CreationFails, CreationSucceeds, Go
      <4> QED BY <3>2, <4>1, <4>2, Untouched
    <3> QED BY <3>1, <3>2
  <2>7. CASE NonDelegatingQueryInterface(c)
    <3>1. CASE x = o
      BY <2>7, <3>1, QueryKeeps
    <3>2. CASE x # o
      <4>1. /\ life'[o] = life[o] /\ m_cRef'[o] = m_cRef[o] /\ destructors'[o] = destructors[o]
        BY <2>3, <2>7, <3>2 DEF NonDelegatingQueryInterface
      <4>2. \A d \in Clients : held'[d][o] = held[d][o]
        BY <2>3, <2>7, <3>2 DEF NonDelegatingQueryInterface, Holding
      <4>3. at'[c].object # o /\ \A d \in Clients : d # c => at'[d] = at[d]
        BY <2>3, <2>7, <3>2 DEF NonDelegatingQueryInterface, Go
      <4> QED BY <3>2, <4>1, <4>2, <4>3, Untouched
    <3> QED BY <3>1, <3>2
  <2>8. CASE Release(c)
    <3>1. CASE Is(c, "release") /\ ReleaseReference(c, x) /\ UNCHANGED <<static, held>>
      BY <2>1, <2>3, <3>1, CreatorReleaseKeeps
    <3>2. ASSUME NEW p \in Things, Free(c), Has(c, p), ReleaseReference(c, p),
                 Holding(c, p, held[c][p] - 1)
          PROVE  ObjectInv(o)'
      BY <2>3, <3>2, HolderReleaseKeeps
    <3> QED BY <2>3, <2>8, <3>1, <3>2 DEF Release
  <2>9. CASE SelfReference(c) \/ SelfReleased(c)
    <3>1. CASE x = o
      BY <2>9, <3>1, DestructorKeeps
    <3>2. CASE x # o
      BY <2>2, <2>3, <2>9, <3>2, Untouched DEF SelfReference, SelfReleased, Go, static
    <3> QED BY <3>1, <3>2
  <2>10. CASE Destroy(c)
    <3>1. CASE x = o
      BY <2>10, <3>1, DestroyKeeps
    <3>2. CASE x # o
      BY <2>2, <2>3, <2>10, <3>2, Untouched DEF Destroy, Idle
    <3> QED BY <3>1, <3>2
  <2>11. ASSUME NEW p \in Things, AddRef(c, p) \/ \E d \in Clients \ {c} : Give(c, d, p) PROVE ObjectInv(o)'
    <3>1. CASE p = o
      BY <2>11, <3>1, ReferenceKeeps
    <3>2. CASE p # o /\ AddRef(c, p)
      <4>1. at[c].step = "idle" /\ life' = life /\ destructors' = destructors
        BY <3>2 DEF AddRef, Free, Is
      <4>2. m_cRef'[o] = m_cRef[o] /\ \A d \in Clients : held'[d][o] = held[d][o]
        BY <2>3, <3>2 DEF AddRef, Holding
      <4>3. at'[c].object # o /\ \A d \in Clients : d # c => at'[d] = at[d]
        BY <2>2, <2>3, <3>2, <4>1 DEF AddRef
      <4> QED BY <2>2, <4>1, <4>2, <4>3, Untouched
    <3>3. ASSUME p # o, NEW d \in Clients \ {c}, Give(c, d, p) PROVE ObjectInv(o)'
      BY <2>3, <3>3, Untouched DEF Give, static
    <3> QED BY <2>11, <3>1, <3>2, <3>3
  <2>12. CASE AddRefWrites(c)
    <3>1. x # o
      BY <2>2, <2>12 DEF AddRefWrites, Is, AtTyped
    <3> QED BY <2>2, <2>3, <2>12, <3>1, Untouched DEF AddRefWrites, Holding, Idle, static
  <2>13. CASE LockServer(c)
    <3>1. PICK step : at' = [at EXCEPT ![c] = [step |-> step, object |-> None, value |-> m_cLocked]]
      BY <2>13, Zenon DEF LockServer
    <3>2. /\ at[c].step = "idle" /\ held' = held /\ life' = life /\ destructors' = destructors
          /\ m_cRef' = m_cRef
      BY <2>13 DEF LockServer, Free, Is, static
    <3>3. at'[c].object # o /\ \A d \in Clients : d # c => at'[d] = at[d]
      BY <2>2, <2>3, <3>1
    <3> QED BY <2>2, <3>2, <3>3, Untouched
  <2>14. CASE LockServerWrites(c)
    <3>1. at'[c].object # o /\ \A d \in Clients : d # c => at'[d] = at[d]
      BY <2>2, <2>3, <2>14 DEF LockServerWrites, Idle
    <3> QED BY <2>2, <2>14, <3>1, Untouched DEF LockServerWrites
  <2>15. CASE DllCanUnloadNow(c) \/ DllCanUnload(c)
    <3>1. at'[c].object # o /\ \A d \in Clients : d # c => at'[d] = at[d]
      BY <2>2, <2>3, <2>15 DEF DllCanUnloadNow, DllCanUnload, Go, Idle
    <3>2. at[c].step \in {"idle", "unload"}
      BY <2>15 DEF DllCanUnloadNow, DllCanUnload, Free, Is
    <3> QED BY <2>2, <2>15, <3>1, <3>2, Untouched DEF DllCanUnloadNow, DllCanUnload, static
  <2> QED BY <2>1, <2>3, <2>4, <2>5, <2>6, <2>7, <2>8, <2>9, <2>10, <2>11, <2>12, <2>13, <2>14, <2>15
<1> QED BY <1>1, <1>2

LEMMA ObjectStart == ServerInit => \A o \in Filters : ObjectInv(o)
<1> SUFFICES ASSUME ServerInit, NEW o \in Filters PROVE ObjectInv(o)
  OBVIOUS
<1>1. /\ \A c \in Clients : at[c].step = "idle" /\ held[c][o] = 0
      /\ life[o] = "none" /\ destructors[o] = 0
  BY DEF ServerInit, Idle, Objects
<1>2. Tokens(o) = {}
  BY <1>1 DEF Tokens, Created
<1> QED BY <1>1, <1>2, FS_EmptySet DEF ObjectInv, AtWork, LifeInv, Making

\* An object but a factory, to which a client has a reference, is alive; it is destroyed
\* once, and once nobody refers to it: whoever is preempted in the plain counts of the
\* factories and the locks, also when its creation fails and when its destructor counts
\* on it (CUnknown::NonDelegatingRelease).
THEOREM FiltersStayAlive ==
  ServerSpec => [](\A o \in Filters : AliveWhileHeld(o) /\ GoneWhenReleased(o))
<1>1. ServerInit => ServerTyped /\ \A o \in Filters : ObjectInv(o)
  BY TypedStart, ObjectStart
<1>2. ServerTyped /\ (\A o \in Filters : ObjectInv(o)) /\ [ServerNext]_serverVars =>
        ServerTyped' /\ (\A o \in Filters : ObjectInv(o))'
  BY TypedStep, ObjectStep
<1>3. ServerTyped /\ (\A o \in Filters : ObjectInv(o)) =>
        \A o \in Filters : AliveWhileHeld(o) /\ GoneWhenReleased(o)
  <2> SUFFICES ASSUME ServerTyped, NEW o \in Filters, ObjectInv(o)
               PROVE  AliveWhileHeld(o) /\ GoneWhenReleased(o)
    OBVIOUS
  <2>1. AliveWhileHeld(o)
    BY DEF AliveWhileHeld, Has, ObjectInv, LifeInv
  <2>2. ASSUME \A c \in Clients : at[c] = Idle /\ ~Has(c, o) PROVE life[o] = "none"
    <3>1. \A c \in Clients : at[c].step = "idle" /\ held[c][o] \in 0 .. MaxHeld /\ ~(held[c][o] > 0)
      BY <2>2, TypedAt DEF Idle, Has
    <3>2. Tokens(o) = {}
      BY <3>1 DEF Tokens, Created
    <3>3. life[o] # "alive"
      BY <3>2, FS_EmptySet DEF ObjectInv, LifeInv
    <3> QED BY <3>1, <3>3, TypedAt DEF ObjectInv, LifeInv, Ending
  <2> QED BY <2>1, <2>2 DEF GoneWhenReleased
<1> QED BY <1>1, <1>2, <1>3, PTL DEF ServerSpec

(***************************************************************************)
(* How the filter reads its configuration                                  *)
(*                                                                         *)
(* For any number of states of the device.  FileInv follows a reply        *)
(* through the generator and a write of the file, Chain orders the replies *)
(* on their way from the device to the filter's members.                   *)
(***************************************************************************)
(* All values of a content come from one reply.                              *)
OneReply(c) == \A k, l \in Keys : c[k] # Missing => c[l] \in {c[k], Missing}

(* A half of a reply is in a content with all of its keys or with none.      *)
Whole(c) ==
  \A half \in {AviKeys, HdrKeys} :
    (\E k \in half : c[k] \in Versions \ {0}) =>
      \A l \in half : c[l] \in Versions \ {0}

(* The versions only grow along the way: what the filter has read is no      *)
(* newer than the file, the file no newer than the reply, the reply no newer *)
(* than the device.                                                          *)
Chain ==
  /\ 1 <= reply.version /\ reply.version <= device.version
  /\ \A k \in Keys : file[k] # Missing => file[k] <= reply.version
  /\ \A k \in Keys : config[k] \in Versions =>
       /\ config[k] <= reply.version
       /\ \A l \in Keys : file[l] # Missing => config[k] <= file[l]

(* What is about to be written comes from the last reply.                    *)
OutputInv ==
  /\ doing = "decode" => output = Nothing
  /\ doing \in {"open", "write"} =>
       /\ reply.avi # "bad" /\ reply.hdr # "bad"
       /\ \A k \in Keys : output[k] \in {reply.version, Missing}
       /\ Whole(output)

FileInv ==
  /\ OneReply(file)
  /\ ~interrupted => Whole(file)

IInv == FileTypeOK /\ Chain /\ OutputInv /\ FileInv /\ LoadGoesForward

-----------------------------------------------------------------------------
(* The lists of keys, as sets and without repetition.                        *)
LEMMA KeysListed ==
  /\ Len(LoadOrder) = 8
  /\ Keys = {"display_primary", "mastering_luminance", "luminance_max",
             "interlace_flags", "aspect_ratio", "transfer_matrix", "primaries",
             "nominal_range"}
  /\ \A i \in 1 .. Len(LoadOrder) : LoadOrder[i] \in Keys
  /\ \A i, j \in 1 .. Len(LoadOrder) : i # j => LoadOrder[i] # LoadOrder[j]
<1>1. Len(LoadOrder) = 8
  BY DEF LoadOrder
<1>2. 1 .. Len(LoadOrder) = {1, 2, 3, 4, 5, 6, 7, 8}
  BY <1>1
<1>3. Keys = {"display_primary", "mastering_luminance", "luminance_max",
             "interlace_flags", "aspect_ratio", "transfer_matrix", "primaries",
             "nominal_range"}
  BY <1>2 DEF Keys, LoadOrder
<1>4. \A i \in 1 .. Len(LoadOrder) : LoadOrder[i] \in Keys
  BY DEF Keys
<1>5. \A i, j \in 1 .. Len(LoadOrder) : i # j => LoadOrder[i] # LoadOrder[j]
  BY <1>2 DEF LoadOrder
<1> QED
  BY <1>1, <1>3, <1>4, <1>5

LEMMA HalvesListed ==
  /\ AviKeys = {"nominal_range", "aspect_ratio"}
  /\ HdrKeys = {"mastering_luminance", "luminance_max", "display_primary", "primaries"}
<1>1. Len(WriteOrder) = 6
  BY DEF WriteOrder
<1>2. 1 .. Len(WriteOrder) = {1, 2, 3, 4, 5, 6}
  BY <1>1
<1> QED
  BY <1>2 DEF AviKeys, HdrKeys, WriteOrder

-----------------------------------------------------------------------------
(* What a key gives is a version, the default or 0.                          *)
LEMMA ValueType ==
  ASSUME FileTypeOK, NEW k \in Keys
  PROVE  /\ GetPrivateProfile(k) \in Versions \cup {Default, Zero}
         /\ GetPrivateProfile(k) \in Versions => GetPrivateProfile(k) = file[k]
  BY ValuesDistinct DEF FileTypeOK, Contents, GetPrivateProfile, Versions

LEMMA FilledType ==
  ASSUME NEW c \in Contents, NEW r \in Replies
  PROVE  Filled(c, r) \in Contents
  BY DEF Filled, Contents, Replies

LEMMA NothingType == Nothing \in Contents
  BY DEF Nothing, Contents

LEMMA FileTypeInit == FileInit => FileTypeOK
<1> SUFFICES ASSUME FileInit PROVE FileTypeOK
  OBVIOUS
<1>1. device \in Replies /\ reply \in Replies
  BY ValuesDistinct DEF FileInit, Replies, Versions
<1>2. file \in Contents
  BY ValuesDistinct DEF FileInit, Contents, Nothing, Versions
<1>3. \A i \in 1 .. Len(LoadOrder) :
        config[LoadOrder[i]] \in IF i < next THEN Versions \cup {Default, Zero}
                                             ELSE {Missing}
  <2>1. \A i \in 1 .. Len(LoadOrder) : ~(i < next)
    BY KeysListed DEF FileInit
  <2>2. \A i \in 1 .. Len(LoadOrder) : config[LoadOrder[i]] = Missing
    BY KeysListed DEF FileInit, Nothing
  <2> QED
    BY <2>1, <2>2
<1>4. next \in 0 .. Len(LoadOrder) + 1
  BY KeysListed DEF FileInit
<1>5. config \in [Keys -> Versions \cup {Missing, Default, Zero}]
  BY DEF FileInit, Nothing
<1> QED
  BY <1>1, <1>2, <1>3, <1>4, <1>5, NothingType DEF FileInit, FileTypeOK

(* Of the types, those of the filter need an argument: a load sets each      *)
(* member once, in the order of LoadOrder.                                   *)
LEMMA TypeStep == FileTypeOK /\ [FileNext]_fileVars => FileTypeOK'
<1> SUFFICES ASSUME FileTypeOK, [FileNext]_fileVars PROVE FileTypeOK'
  OBVIOUS
<1>1. CASE Change
  <2>1. device.version + 1 \in Versions
    BY <1>1, ValuesDistinct DEF Change, FileTypeOK, Replies, Versions
  <2>2. device' \in Replies
    BY <1>1, <2>1 DEF Change, Replies
  <2> QED
    BY <1>1, <2>2 DEF Change, FileTypeOK
<1>2. CASE Start
  BY <1>2 DEF Start, FileTypeOK
<1>3. CASE Fetch
  BY <1>3, NothingType DEF Fetch, FileTypeOK
<1>4. CASE Decode
  BY <1>4, FilledType DEF Decode, FileTypeOK
<1>5. CASE DecodeRaises
  BY <1>5 DEF DecodeRaises, FileTypeOK
<1>6. CASE OpenFile
  BY <1>6, NothingType DEF OpenFile, FileTypeOK
<1>7. CASE CloseFile
  BY <1>7 DEF CloseFile, FileTypeOK
<1>8. CASE Sleep
  BY <1>8 DEF Sleep, FileTypeOK
<1>9. CASE Quit
  BY <1>9 DEF Quit, FileTypeOK
<1>10. CASE Interrupt
  <2>1. file' \in Contents
    BY <1>10 DEF Interrupt, FileTypeOK, Contents
  <2> QED
    BY <1>10, <2>1 DEF Interrupt, FileTypeOK
<1>11. CASE LoadConfig
  BY <1>11, KeysListed DEF LoadConfig, FileTypeOK
<1>12. CASE ReadKey
  <2>1. \A i \in 1 .. Len(LoadOrder) :
          config'[LoadOrder[i]] \in IF i < next' THEN Versions \cup {Default, Zero}
                                                ELSE {Missing}
    <3> SUFFICES ASSUME NEW i \in 1 .. Len(LoadOrder)
                 PROVE  config'[LoadOrder[i]] \in
                          IF i < next' THEN Versions \cup {Default, Zero} ELSE {Missing}
      OBVIOUS
    <3>1. CASE i = next
      <4>1. config'[LoadOrder[i]] = GetPrivateProfile(LoadOrder[i])
        BY <1>12, <3>1, KeysListed DEF ReadKey, FileTypeOK
      <4>2. GetPrivateProfile(LoadOrder[i]) \in Versions \cup {Default, Zero}
        BY ValueType, KeysListed
      <4>3. i < next'
        BY <1>12, <3>1 DEF ReadKey, FileTypeOK
      <4> QED
        BY <4>1, <4>2, <4>3
    <3>2. CASE i # next
      <4>1. config'[LoadOrder[i]] = config[LoadOrder[i]]
        BY <1>12, <3>2, KeysListed DEF ReadKey
      <4>2. (i < next') <=> (i < next)
        BY <1>12, <3>2 DEF ReadKey, FileTypeOK
      <4> QED
        BY <4>1, <4>2 DEF FileTypeOK
    <3> QED
      BY <3>1, <3>2
  <2>2. next' \in 0 .. Len(LoadOrder) + 1
    BY <1>12, KeysListed DEF ReadKey
  <2>3. config' \in [Keys -> Versions \cup {Missing, Default, Zero}]
    BY <1>12, ValueType, KeysListed DEF ReadKey, FileTypeOK
  <2> QED
    BY <1>12, <2>1, <2>2, <2>3 DEF ReadKey, FileTypeOK
<1>13. CASE ReleaseFilter
  <2>1. \A i \in 1 .. Len(LoadOrder) : config'[LoadOrder[i]] = Missing /\ i >= next'
    BY <1>13, KeysListed DEF ReleaseFilter, Nothing
  <2>2. config' \in [Keys -> Versions \cup {Missing, Default, Zero}]
    BY <1>13 DEF ReleaseFilter, Nothing
  <2> QED
    BY <1>13, <2>1, <2>2, KeysListed DEF ReleaseFilter, FileTypeOK
<1>14. CASE UNCHANGED fileVars
  BY <1>14 DEF fileVars, FileTypeOK
<1> QED
  BY <1>1, <1>2, <1>3, <1>4, <1>5, <1>6, <1>7, <1>8, <1>9, <1>10, <1>11, <1>12,
     <1>13, <1>14 DEF FileNext, Generator, Filter

-----------------------------------------------------------------------------
(* A decoded reply has a half whole or not at all.                           *)
LEMMA FilledWhole ==
  ASSUME NEW r \in Replies, r.version > 0
  PROVE  /\ \A k \in Keys : Filled(Nothing, r)[k] \in {r.version, Missing}
         /\ Whole(Filled(Nothing, r))
<1>1. ASSUME NEW k \in Keys
      PROVE  /\ Filled(Nothing, r)[k] \in {r.version, Missing}
             /\ k \in AviKeys => (Filled(Nothing, r)[k] = r.version <=> r.avi = "good")
             /\ k \in HdrKeys => (Filled(Nothing, r)[k] = r.version <=> r.hdr = "good")
  <2>1. r.version # Missing
    BY ValuesDistinct DEF Replies, Versions
  <2> QED
    BY <2>1, HalvesListed DEF Filled, Nothing
<1>2. AviKeys \subseteq Keys /\ HdrKeys \subseteq Keys
  BY KeysListed, HalvesListed
<1>3. r.version \in Versions \ {0} /\ Missing \notin Versions
  BY ValuesDistinct DEF Replies, Versions
<1>4. Whole(Filled(Nothing, r))
  BY <1>1, <1>2, <1>3 DEF Whole
<1> QED
  BY <1>1, <1>4

LEMMA NothingWhole == OneReply(Nothing) /\ Whole(Nothing)
<1>1. AviKeys \subseteq Keys /\ HdrKeys \subseteq Keys
  BY KeysListed, HalvesListed
<1> QED
  BY <1>1, ValuesDistinct DEF OneReply, Whole, Nothing, Versions

(* The users of the file in the initial state: a file of a user.             *)
LEMMA OwnInit == FileInit => Chain /\ OutputInv /\ FileInv /\ LoadGoesForward
<1> SUFFICES ASSUME FileInit PROVE Chain /\ OutputInv /\ FileInv /\ LoadGoesForward
  OBVIOUS
<1>1. AviKeys \subseteq Keys /\ HdrKeys \subseteq Keys
  BY KeysListed, HalvesListed
<1>2. reply.version = 1 /\ device.version = 1
  BY DEF FileInit
<1>3. \A k \in Keys : config[k] = Missing /\ file[k] \in {0, Missing}
  BY DEF FileInit, Nothing
<1>4. Missing \notin Versions
  BY ValuesDistinct DEF Versions
<1>5. Chain
  BY <1>2, <1>3, <1>4 DEF Chain
<1>6. OutputInv
  BY DEF FileInit, OutputInv
<1>7. OneReply(file)
  BY <1>3 DEF OneReply
<1>8. Whole(file)
  BY <1>1, <1>3, <1>4 DEF Whole
<1>9. LoadGoesForward
  BY <1>3, <1>4, KeysListed DEF LoadGoesForward
<1> QED
  BY <1>5, <1>6, <1>7, <1>8, <1>9 DEF FileInv

(* What is written has the version of the reply, which is no older than      *)
(* anything in the file or in the filter.                                    *)
LEMMA Written ==
  ASSUME FileTypeOK, Chain,
         \A k \in Keys : file'[k] \in {reply.version, Missing},
         UNCHANGED << device, reply, next, config >>
  PROVE  Chain' /\ OneReply(file')
<1>1. reply.version \in Int /\ device.version \in Int
  BY DEF FileTypeOK, Replies, Versions
<1>2. Chain'
  BY <1>1 DEF Chain
<1>3. OneReply(file')
  BY DEF OneReply
<1> QED
  BY <1>2, <1>3

LEMMA OwnStep == IInv /\ [FileNext]_fileVars => (Chain /\ OutputInv /\ FileInv /\ LoadGoesForward)'
<1> SUFFICES ASSUME IInv, [FileNext]_fileVars
             PROVE  (Chain /\ OutputInv /\ FileInv /\ LoadGoesForward)'
  OBVIOUS
<1> USE DEF IInv
<1>0. /\ reply.version \in Int /\ device.version \in Int /\ reply \in Replies
      /\ Versions \subseteq Int /\ \A v \in Versions : v \in Int /\ Missing \notin Versions
      /\ Missing \notin Int
  BY ValuesDistinct DEF FileTypeOK, Replies, Versions
<1>1. CASE Change
  <2>1. device'.version = device.version + 1 /\ UNCHANGED << reply, file, config >>
    BY <1>1 DEF Change
  <2>2. Chain'
    <3>1. /\ 1 <= reply.version /\ reply.version <= device'.version
          /\ reply'.version = reply.version
      BY <1>0, <2>1 DEF Chain
    <3> QED
      BY <2>1, <3>1 DEF Chain
  <2> QED
    BY <1>1, <2>2 DEF Change, OutputInv, FileInv, LoadGoesForward
<1>2. CASE Start
  BY <1>2 DEF Start, Chain, OutputInv, FileInv, LoadGoesForward
<1>3. CASE Fetch
  <2>1. reply' = device /\ UNCHANGED << device, file, config >>
    BY <1>3 DEF Fetch
  <2>2. Chain'
    <3>1. /\ 1 <= reply.version /\ reply.version <= device.version
          /\ reply'.version = device.version /\ device'.version = device.version
      BY <2>1 DEF Chain
    <3>2. \A k \in Keys : file'[k] # Missing => file'[k] <= reply'.version
      <4> SUFFICES ASSUME NEW k \in Keys, file[k] # Missing
                   PROVE  file[k] <= device.version
        BY <2>1
      <4>1. file[k] <= reply.version /\ file[k] \in Versions
        BY DEF Chain, FileTypeOK, Contents
      <4>2. file[k] \in Int
        BY <1>0, <4>1
      <4> QED
        BY <1>0, <3>1, <4>1, <4>2
    <3>3. \A k \in Keys : config'[k] \in Versions =>
            /\ config'[k] <= reply'.version
            /\ \A l \in Keys : file'[l] # Missing => config'[k] <= file'[l]
      <4> SUFFICES ASSUME NEW k \in Keys, config[k] \in Versions
                   PROVE  /\ config[k] <= device.version
                          /\ \A l \in Keys : file[l] # Missing => config[k] <= file[l]
        BY <2>1
      <4>1. /\ config[k] <= reply.version
            /\ \A l \in Keys : file[l] # Missing => config[k] <= file[l]
        BY DEF Chain
      <4>2. config[k] \in Int
        BY <1>0
      <4>3. config[k] <= device.version
        BY <1>0, <3>1, <4>1, <4>2
      <4> QED
        BY <4>1, <4>3
    <3> QED
      BY <1>0, <3>1, <3>2, <3>3 DEF Chain
  <2> QED
    BY <1>3, <2>2 DEF Fetch, OutputInv, FileInv, LoadGoesForward
<1>4. CASE Decode
  <2>1. output' = Filled(Nothing, reply) /\ UNCHANGED << device, reply, file, config >>
    BY <1>4 DEF Decode, OutputInv
  <2>2. /\ \A k \in Keys : output'[k] \in {reply'.version, Missing}
        /\ Whole(output')
    <3>1. reply.version > 0
      BY <1>0 DEF Chain
    <3> QED
      BY <1>0, <2>1, <3>1, FilledWhole
  <2> QED
    BY <1>4, <2>2 DEF Decode, Chain, OutputInv, FileInv, LoadGoesForward
<1>5. CASE DecodeRaises
  BY <1>5 DEF DecodeRaises, Chain, OutputInv, FileInv, LoadGoesForward
<1>6. CASE OpenFile
  <2>1. Chain' /\ OneReply(file')
    BY <1>6, Written DEF OpenFile, Nothing
  <2> QED
    BY <1>6, <2>1, NothingWhole DEF OpenFile, OutputInv, FileInv, LoadGoesForward
<1>7. CASE CloseFile
  <2>1. Chain' /\ OneReply(file')
    BY <1>7, Written DEF CloseFile, OutputInv
  <2>2. Whole(file')
    BY <1>7 DEF CloseFile, OutputInv
  <2> QED
    BY <1>7, <2>1, <2>2 DEF CloseFile, OutputInv, FileInv, LoadGoesForward
<1>8. CASE Sleep
  BY <1>8 DEF Sleep, Chain, OutputInv, FileInv, LoadGoesForward
<1>9. CASE Quit
  BY <1>9 DEF Quit, Chain, OutputInv, FileInv, LoadGoesForward
<1>10. CASE Interrupt
  <2>1. \A k \in Keys : file'[k] \in {reply.version, Missing}
    BY <1>10 DEF Interrupt, OutputInv
  <2>2. Chain' /\ OneReply(file')
    BY <1>10, <2>1, Written DEF Interrupt
  <2> QED
    BY <1>10, <2>2 DEF Interrupt, OutputInv, FileInv, LoadGoesForward
<1>11. CASE LoadConfig
  BY <1>11 DEF LoadConfig, Chain, OutputInv, FileInv, LoadGoesForward
<1>12. CASE ReadKey
  <2> DEFINE key == LoadOrder[next]
  <2>1. /\ key \in Keys
        /\ config' = [config EXCEPT ![key] = GetPrivateProfile(key)]
        /\ next \in 1 .. Len(LoadOrder)
        /\ UNCHANGED << device, reply, output, doing, file, interrupted >>
    BY <1>12, KeysListed DEF ReadKey
  <2>2. GetPrivateProfile(key) \in Versions => GetPrivateProfile(key) = file[key]
    BY <2>1, ValueType
  <2>3. Chain'
    <3>1. \A k \in Keys : config'[k] \in Versions =>
            /\ config'[k] <= reply.version
            /\ \A l \in Keys : file[l] # Missing => config'[k] <= file[l]
      <4> SUFFICES ASSUME NEW k \in Keys, config'[k] \in Versions
                   PROVE  /\ config'[k] <= reply.version
                          /\ \A l \in Keys : file[l] # Missing => config'[k] <= file[l]
        OBVIOUS
      <4>1. CASE k = key
        <5>1. config'[k] = file[key] /\ file[key] \in Versions
          BY <2>1, <2>2, <4>1 DEF FileTypeOK
        <5>2. file[key] # Missing /\ file[key] <= file[key]
          <6>1. file[key] # Missing /\ file[key] \in Int
            BY <1>0, <5>1
          <6> QED
            BY <6>1
        <5>3. file[key] <= reply.version
          BY <2>1, <5>2 DEF Chain
        <5>4. \A l \in Keys : file[l] # Missing => file[l] = file[key]
          BY <2>1, <5>2 DEF FileInv, OneReply
        <5> QED
          BY <5>1, <5>2, <5>3, <5>4
      <4>2. CASE k # key
        BY <2>1, <4>2 DEF Chain, FileTypeOK
      <4> QED
        BY <4>1, <4>2
    <3> QED
      BY <2>1, <3>1 DEF Chain
  <2>4. LoadGoesForward'
    <3> SUFFICES ASSUME NEW i \in 1 .. Len(LoadOrder), NEW j \in 1 .. Len(LoadOrder),
                        i < j,
                        config'[LoadOrder[i]] \in Versions,
                        config'[LoadOrder[j]] \in Versions
                 PROVE  config'[LoadOrder[i]] <= config'[LoadOrder[j]]
      BY DEF LoadGoesForward
    <3>1. \A n \in 1 .. Len(LoadOrder) : n # next =>
            config'[LoadOrder[n]] = config[LoadOrder[n]]
      BY <2>1, KeysListed DEF FileTypeOK
    <3>2. \A n \in 1 .. Len(LoadOrder) : n > next => config[LoadOrder[n]] \notin Versions
      <4> SUFFICES ASSUME NEW n \in 1 .. Len(LoadOrder), n > next
                   PROVE  config[LoadOrder[n]] \notin Versions
        OBVIOUS
      <4>1. ~(n < next)
        BY <2>1, KeysListed
      <4>2. config[LoadOrder[n]] = Missing
        BY <4>1 DEF FileTypeOK
      <4> QED
        BY <1>0, <4>2
    <3>3. j <= next
      BY <2>1, <3>1, <3>2
    <3>4. CASE j = next
      <4>1. config'[LoadOrder[j]] = file[key] /\ file[key] \in Versions
        BY <2>1, <2>2, <3>4 DEF FileTypeOK
      <4>2. config'[LoadOrder[i]] = config[LoadOrder[i]]
        BY <3>1, <3>4
      <4>3. LoadOrder[i] \in Keys /\ config[LoadOrder[i]] \in Versions /\ file[key] # Missing
        BY <1>0, <4>1, <4>2, KeysListed
      <4>4. config[LoadOrder[i]] <= file[key]
        BY <2>1, <4>3 DEF Chain
      <4> QED
        BY <4>1, <4>2, <4>4
    <3>5. CASE j < next
      BY <3>1, <3>5 DEF LoadGoesForward
    <3> QED
      BY <2>1, <3>3, <3>4, <3>5
  <2> QED
    BY <2>1, <2>3, <2>4 DEF OutputInv, FileInv
<1>13. CASE ReleaseFilter
  <2>1. \A k \in Keys : config'[k] = Missing
    BY <1>13 DEF ReleaseFilter, Nothing
  <2> QED
    BY <1>0, <1>13, <2>1, KeysListed DEF ReleaseFilter, Chain, OutputInv, FileInv, LoadGoesForward
<1>14. CASE UNCHANGED fileVars
  BY <1>14 DEF fileVars, Chain, OutputInv, FileInv, LoadGoesForward
<1> QED
  BY <1>1, <1>2, <1>3, <1>4, <1>5, <1>6, <1>7, <1>8, <1>9, <1>10, <1>11, <1>12,
     <1>13, <1>14 DEF FileNext, Generator, Filter

LEMMA FileInductive == FileSpec => []IInv
<1>1. FileInit => IInv
  BY FileTypeInit, OwnInit DEF IInv
<1>2. IInv /\ [FileNext]_fileVars => IInv'
  BY TypeStep, OwnStep DEF IInv
<1> QED
  BY <1>1, <1>2, PTL DEF FileSpec

-----------------------------------------------------------------------------
(* The variables have their types, and a load sets each member of the filter *)
(* once, to a version, a default or 0.                                       *)
THEOREM ConfigTypes == FileSpec => []FileTypeOK
<1>1. IInv => FileTypeOK
  BY DEF IInv
<1> QED
  BY <1>1, FileInductive, PTL

(* However the loop is interrupted, ended and started again, the file never  *)
(* mixes two replies, and has all or nothing of a half of a reply unless a   *)
(* write has been cut short.                                                 *)
THEOREM OneReplyInFile == FileSpec => []FileIsOneReply
<1>1. IInv => FileIsOneReply
  BY DEF IInv, FileInv, OneReply, Whole, FileIsOneReply
<1> QED
  BY <1>1, FileInductive, PTL

(* However a load and the rewriting of the file are interleaved, a key read  *)
(* later is of no older reply.                                               *)
THEOREM LoadNeverGoesBack == FileSpec => []LoadGoesForward
<1>1. IInv => LoadGoesForward
  BY DEF IInv
<1> QED
  BY <1>1, FileInductive, PTL

(* Both: the file is of one reply, and a load goes forward through replies.  *)
THEOREM OrderIsKept == FileSpec => []RepliesInOrder
<1>1. FileIsOneReply /\ LoadGoesForward => RepliesInOrder
  BY DEF RepliesInOrder
<1> QED
  BY <1>1, OneReplyInFile, LoadNeverGoesBack, PTL

(* A reply that cannot be decoded leaves the file as it is.                  *)
THEOREM BadReplyHarmless == FileSpec => BadReplyKeepsFile
<1>1. IInv /\ [FileNext]_fileVars => [file' # file => reply.avi # "bad" /\ reply.hdr # "bad"]_fileVars
  <2> SUFFICES ASSUME IInv, [FileNext]_fileVars, file' # file
               PROVE  reply.avi # "bad" /\ reply.hdr # "bad"
    OBVIOUS
  <2>1. doing \in {"open", "write"}
    BY DEF FileNext, Generator, Filter, Change, Start, Fetch, Decode, DecodeRaises, OpenFile,
           CloseFile, Sleep, Quit, Interrupt, LoadConfig, ReadKey, ReleaseFilter, fileVars
  <2> QED
    BY <2>1 DEF IInv, OutputInv
<1> QED
  BY <1>1, FileInductive, PTL DEF FileSpec, BadReplyKeepsFile

(***************************************************************************)
(* The filter as a whole                                                   *)
(*                                                                         *)
(* In MCFilter each part starts and moves as it does by itself, or stays   *)
(* as it is: what holds of the part holds of the whole.                    *)
(***************************************************************************)

LEMMA PartsByThemselves == MCSpec => Spec /\ StreamSpec /\ ServerSpec
<1>1. MCInit => Init /\ StreamInit /\ ServerInit
  BY DEF MCInit
<1>2. [MCNext]_<<part, vars, transformVars, serverVars>> =>
        [Next]_vars /\ [StreamNext]_transformVars /\ [ServerNext]_serverVars
  BY DEF MCNext
<1> QED BY <1>1, <1>2, PTL DEF MCSpec, Spec, StreamSpec, ServerSpec

\* Every variable of the filter has a value of its kind; the 32-bit counter keeps its
\* width and each lock its owner.  For every value of the constants.
THEOREM FilterTypes == MCSpec => []TypesOK
<1>1. TypeOK /\ StreamTypeOK /\ ServerTypeOK => TypesOK
  BY DEF TypesOK
<1> QED BY <1>1, PartsByThemselves, TypeCorrect, TypesKept, ServerTypes, PTL

=============================================================================
