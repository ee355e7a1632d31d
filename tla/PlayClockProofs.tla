--------------------------- MODULE PlayClockProofs ---------------------------
(***************************************************************************)
(* PlayClock's picture is in step with its sound, for every file, device   *)
(* and frame rate.                                                         *)
(***************************************************************************)
EXTENDS PlayClock, TLAPS

\* What a frame adds to the picture's time, which is all the provers need to know of
\* the product.
LEMMA OneMoreFrame ==
  ASSUME NEW s \in Nat, NEW t \in Nat
  PROVE  /\ (s + 1) * t = s * t + t
         /\ s * t \in Nat
  OBVIOUS

\* What holds of a position in the sound holds of a later one.
LEMMA LateIsNoWorse ==
  ASSUME NEW p \in Nat, NEW q \in Nat, NEW c \in Nat, NEW v \in Nat, p <= q
  PROVE  /\ v <= p + c => v <= q + c
         /\ v < p + c => v < q + c
  OBVIOUS

LEMMA VideoTimeIsNat == ClockAssumption /\ TypeOK => videoTime \in Nat
  BY DEF ClockAssumption, TypeOK, videoTime

LEMMA VideoTimeStays == UNCHANGED shown => videoTime' = videoTime
  BY DEF videoTime

LEMMA VideoTimeGrows ==
  ASSUME TypeOK, shown' = shown + 1
  PROVE  videoTime' = videoTime + FrameTicks
  <1>1. FrameTicks \in Nat
    BY ClockAssumption DEF ClockAssumption
  <1>2. shown \in Nat
    BY DEF TypeOK
  <1>3. (shown + 1) * FrameTicks = shown * FrameTicks + FrameTicks
    BY <1>1, <1>2, OneMoreFrame
  <1> QED
    BY <1>3 DEF videoTime

-----------------------------------------------------------------------------
LEMMA InitInvariant == Init => IInv
  <1> SUFFICES ASSUME Init PROVE IInv
    OBVIOUS
  <1>1. videoTime = 0
    <2>1. FrameTicks \in Nat
      BY ClockAssumption DEF ClockAssumption
    <2>2. 0 * FrameTicks = 0
      BY <2>1
    <2> QED
      BY <2>2 DEF Init, videoTime
  <1>2. TypeOK
    <2>1. Packets \in 0 .. Packets /\ Frames \in 0 .. Frames
      BY ClockAssumption DEF ClockAssumption
    <2>2. noFrame \in BOOLEAN
      BY DEF Init
    <2> QED
      BY <2>1, <2>2 DEF Init, TypeOK
  <1>3. Unshown = 0 /\ Buffer \in Nat /\ FrameTicks > 0
    BY ClockAssumption DEF Init, Unshown, ClockAssumption
  <1>4. written <= videoTime + Buffer + excess + Unshown
    BY <1>1, <1>3 DEF Init
  <1>5. videoTime < heard + FrameTicks
    BY <1>1, <1>3, ClockAssumption DEF Init, ClockAssumption
  <1> QED
    BY <1>2, <1>4, <1>5 DEF Init, IInv

\* One step per action: what it does to the types, and to the picture's lag.
LEMMA StepInvariant == IInv /\ [Next]_vars => IInv'
  <1> SUFFICES ASSUME IInv, [Next]_vars PROVE IInv'
    OBVIOUS
  <1> USE ClockAssumption DEF ClockAssumption
  <1>t. TypeOK /\ videoTime \in Nat
    BY VideoTimeIsNat DEF IInv
  <1>1. CASE DecodeNothing
    <2>1. videoTime' = videoTime
      BY <1>1, VideoTimeStays DEF DecodeNothing
    <2>2. TypeOK'
      BY <1>1, <1>t DEF DecodeNothing, TypeOK, Step
    <2> QED
      BY <1>1, <1>t, <2>1, <2>2 DEF DecodeNothing, IInv, TypeOK, Unshown, Step
  <1>2. CASE Write
    <2>1. videoTime' = videoTime
      BY <1>2, VideoTimeStays DEF Write
    <2>2. PICK n \in PacketTicks \ {0} :
             /\ written' = written + n
             /\ excess' = IF n > FrameTicks THEN excess + (n - FrameTicks) ELSE excess
      BY <1>2 DEF Write
    <2>3. n \in Nat /\ excess' \in Nat /\ written' \in Nat
      BY <1>t, <2>2 DEF TypeOK
    <2>4. TypeOK'
      BY <1>2, <1>t, <2>3 DEF Write, TypeOK, Step
    <2>5. written' - written <= FrameTicks + (excess' - excess)
      BY <1>t, <2>2, <2>3 DEF TypeOK
    <2> QED
      BY <1>2, <1>t, <2>1, <2>2, <2>3, <2>4, <2>5
      DEF Write, IInv, TypeOK, Unshown, Step
  <1>3. CASE WriteReturns
    <2>1. videoTime' = videoTime
      BY <1>3, VideoTimeStays DEF WriteReturns
    <2>2. TypeOK'
      BY <1>3, <1>t DEF WriteReturns, TypeOK, Step
    <2> QED
      BY <1>3, <1>t, <2>1, <2>2 DEF WriteReturns, IInv, TypeOK, Unshown, Step
  <1>4. CASE ShowFrame
    <2>1. videoTime' = videoTime + FrameTicks
      BY <1>4, <1>t, VideoTimeGrows DEF ShowFrame
    <2>2. TypeOK'
      BY <1>4, <1>t DEF ShowFrame, TypeOK, Step
    <2> QED
      BY <1>4, <1>t, <2>1, <2>2 DEF ShowFrame, IInv, TypeOK, Unshown, Step, FrameIsDue
  <1>5. CASE MissFrame
    <2>1. videoTime' = videoTime
      BY <1>5, VideoTimeStays DEF MissFrame
    <2>2. TypeOK'
      BY <1>5, <1>t DEF MissFrame, TypeOK, Step
    <2> QED
      BY <1>5, <1>t, <2>1, <2>2 DEF MissFrame, IInv, TypeOK, Step
  <1>6. CASE KeepFrame
    <2>1. videoTime' = videoTime
      BY <1>6, VideoTimeStays DEF KeepFrame
    <2>2. TypeOK'
      BY <1>6, <1>t DEF KeepFrame, TypeOK, Step
    <2>3. written <= videoTime + Buffer
      BY <1>6, <1>t DEF KeepFrame, FrameIsDue, IInv, TypeOK, Step
    <2> QED
      BY <1>6, <1>t, <2>1, <2>2, <2>3 DEF KeepFrame, IInv, TypeOK, Unshown, Step
  <1>7. CASE EndOfSound \/ Escape \/ Drain
    <2>1. videoTime' = videoTime
      BY <1>7, VideoTimeStays DEF EndOfSound, Escape, Drain
    <2>2. TypeOK'
      BY <1>7, <1>t DEF EndOfSound, Escape, Drain, TypeOK, Step
    <2> QED
      BY <1>7, <1>t, <2>1, <2>2
      DEF EndOfSound, Escape, Drain, IInv, TypeOK, Unshown, Step
  <1>8. CASE Device
    <2>1. videoTime' = videoTime
      BY <1>8, VideoTimeStays DEF Device
    <2>2. heard' \in Nat /\ heard <= heard' /\ heard' <= written
      BY <1>8, <1>t DEF Device, TypeOK
    <2>3. TypeOK'
      BY <1>8, <1>t, <2>2 DEF Device, TypeOK
    <2>4. Unshown' = Unshown /\ UNCHANGED <<pc, written, excess, noFrame>>
      BY <1>8 DEF Device, Unshown
    <2>5. heard' <= written'
      BY <2>2, <2>4
    <2>0. Buffer \in Nat /\ FrameTicks \in Nat
      OBVIOUS
    <2>a. heard \in Nat /\ heard' \in Nat /\ heard <= heard' /\ written \in Nat
      BY <1>t, <2>2 DEF TypeOK
    <2>b. /\ pc = "clock" => written <= heard + Buffer
          /\ videoTime < heard + FrameTicks
      BY DEF IInv
    <2>6. pc' = "clock" => written' <= heard' + Buffer
      BY <2>0, <2>4, <2>a, <2>b, LateIsNoWorse
    <2>7. videoTime' < heard' + FrameTicks
      BY <1>t, <2>0, <2>1, <2>a, <2>b, LateIsNoWorse
    <2>8. ~noFrame' => written' <= videoTime' + Buffer + excess' + Unshown'
      BY <2>1, <2>4 DEF IInv
    <2> QED
      BY <2>3, <2>5, <2>6, <2>7, <2>8 DEF IInv
  <1>9. CASE UNCHANGED vars
    <2>1. videoTime' = videoTime
      BY <1>9, VideoTimeStays DEF vars
    <2> QED
      BY <1>9, <2>1 DEF vars, IInv, TypeOK, Unshown
  <1> QED
    BY <1>1, <1>2, <1>3, <1>4, <1>5, <1>6, <1>7, <1>8, <1>9 DEF Next, Player

\* Between two packets all that has been written is at most so far ahead of the picture,
\* whatever the packets' lengths, the frame rate and the device's buffer.
THEOREM ClockInvariant == Spec => []IInv
  BY InitInvariant, StepInvariant, PTL DEF Spec

\* play()'s frames are never early, and late by no more than the device's buffer and
\* what packets outlast frames by, however long the stream kept the player waiting.
THEOREM PictureKeepsStep == Spec => []PictureInStep
  <1>1. IInv => PictureInStep
    <2> SUFFICES ASSUME IInv PROVE PictureInStep
      OBVIOUS
    <2>1. TypeOK /\ videoTime \in Nat
      BY ClockAssumption, VideoTimeIsNat DEF IInv
    <2> QED
      BY <2>1, ClockAssumption
      DEF IInv, PictureInStep, TypeOK, Unshown, ClockAssumption
  <1> QED
    BY <1>1, ClockInvariant, PTL
==============================================================================
