------------------------------ MODULE PlayClock ------------------------------
(***************************************************************************)
(* The clock of play() (client/PloggOggDecoder.cpp): the sound that has    *)
(* been decoded is written to the sound device, and the device's position  *)
(* in it decides after each write whether the next frame is due.  Time is  *)
(* counted in ticks of sound.                                              *)
(*                                                                         *)
(* The player may be kept waiting for data anywhere (the byte stream waits *)
(* for the fetcher); the device then goes on until it has played what it   *)
(* has, and waits too.  Which packets come is OggDemux's matter: here they *)
(* are so many packets of sound of any length and so many frames (none in  *)
(* a file without a picture, whose clock is not asked).                    *)
(***************************************************************************)
EXTENDS Integers

CONSTANTS
  Packets,      \* packets of sound in the file
  Frames,       \* its frames
  PacketTicks,  \* the ticks of sound that a packet may decode to
  FrameTicks,   \* how long a frame is shown
  Buffer        \* the ticks that the device holds

ASSUME ClockAssumption ==
  /\ Packets \in Nat /\ Frames \in Nat /\ Buffer \in Nat /\ FrameTicks \in Nat \ {0}
  /\ PacketTicks \subseteq Nat

VARIABLES
  pc,
  packets, frames,  \* still to come
  written, heard,   \* ticks given to the device, and played by it
  shown,            \* frames decoded: mGranulepos
  noFrame,          \* history: a frame was due and none came any more
  excess            \* history: by how much packets outlasted a frame, in all

vars == <<pc, packets, frames, written, heard, shown, noFrame, excess>>

Init ==
  /\ pc = "packet" /\ packets = Packets /\ frames = Frames
  /\ written = 0 /\ heard = 0 /\ shown = 0
  /\ noFrame = FALSE /\ excess = 0

\* Each of them a step of the player's thread, and of what it looks at.
Step(from, to) == pc = from /\ pc' = to

\* A packet without a sample: a first one, one that is no sound, or a bad one.
DecodeNothing ==
  /\ Step("packet", "packet") /\ packets > 0 /\ 0 \in PacketTicks
  /\ packets' = packets - 1
  /\ UNCHANGED <<frames, written, heard, shown, noFrame, excess>>

\* sa_stream_write begins ...
Write ==
  /\ Step("packet", "write") /\ packets > 0 /\ packets' = packets - 1
  /\ \E n \in PacketTicks \ {0} :
       /\ written' = written + n
       /\ excess' = IF n > FrameTicks THEN excess + (n - FrameTicks) ELSE excess
  /\ UNCHANGED <<frames, heard, shown, noFrame>>

\* Mutant of WriteReturns: the write does not wait for the device.
WriteReturnsAtOnce ==
  /\ Step("write", "clock")
  /\ UNCHANGED <<packets, frames, written, heard, shown, noFrame, excess>>

\* ... and returns when the device has room for all of it.
WriteReturns ==
  /\ Step("write", "clock") /\ written - heard <= Buffer
  /\ UNCHANGED <<packets, frames, written, heard, shown, noFrame, excess>>

videoTime == shown * FrameTicks

\* Mutant of FrameIsDue: the clock is what has been written, not what is heard.
FrameIsDueByWrites == written > videoTime

FrameIsDue == heard > videoTime

ShowFrame ==
  /\ Step("clock", "packet") /\ FrameIsDue /\ frames > 0
  /\ frames' = frames - 1 /\ shown' = shown + 1
  /\ UNCHANGED <<packets, written, heard, noFrame, excess>>

MissFrame ==
  /\ Step("clock", "packet") /\ FrameIsDue /\ frames = 0
  /\ noFrame' = TRUE
  /\ UNCHANGED <<packets, frames, written, heard, shown, excess>>

KeepFrame ==
  /\ Step("clock", "packet") /\ ~FrameIsDue
  /\ UNCHANGED <<packets, frames, written, heard, shown, noFrame, excess>>

\* The sound is at its end: what is left of the picture is not shown.
EndOfSound ==
  /\ Step("packet", "drain") /\ packets = 0
  /\ UNCHANGED <<packets, frames, written, heard, shown, noFrame, excess>>

\* The user presses Escape: it is looked for after each packet.
Escape ==
  /\ Step("packet", "drain") /\ packets < Packets
  /\ UNCHANGED <<packets, frames, written, heard, shown, noFrame, excess>>

\* The destructor: sa_stream_drain, sa_stream_destroy.
Drain ==
  /\ Step("drain", "over") /\ heard = written
  /\ UNCHANGED <<packets, frames, written, heard, shown, noFrame, excess>>

Player ==
  \/ DecodeNothing \/ Write \/ WriteReturns \/ ShowFrame \/ MissFrame \/ KeepFrame
  \/ EndOfSound \/ Drain

\* The device plays on while it has something to play.
Device ==
  /\ heard < written /\ heard' \in heard + 1 .. written
  /\ UNCHANGED <<pc, packets, frames, written, shown, noFrame, excess>>

Next == Player \/ Escape \/ Device

Spec == Init /\ [][Next]_vars
-----------------------------------------------------------------------------
TypeOK ==
  /\ pc \in {"packet", "write", "clock", "drain", "over"}
  /\ packets \in 0 .. Packets /\ frames \in 0 .. Frames
  /\ written \in Nat /\ heard \in Nat /\ shown \in Nat
  /\ noFrame \in BOOLEAN /\ excess \in Nat

\* "The video frame should be synced up to the audio the user is hearing"
\* (PloggOggDecoder.cpp:250-253).  No frame is shown before the sound has reached it;
\* and however long the player was kept waiting, as long as there are frames the
\* picture lags behind the sound by no more than what the device holds, a frame, and
\* what the packets outlast the frames by: each of them is followed by one frame at
\* most, so that only this last part is never made up for.
PictureInStep ==
  /\ videoTime < heard + FrameTicks
  /\ ~noFrame => heard <= videoTime + Buffer + excess + FrameTicks

\* The inductive invariant behind it: at the clock the device has yet to play no more
\* than it holds; and between two packets all that has been written, heard or not, is
\* only so far ahead of the picture.  A write adds a packet to that, which counts as a
\* frame and its excess, before the next frame takes it away.
Unshown == IF pc \in {"write", "clock"} THEN FrameTicks ELSE 0

IInv ==
  /\ TypeOK /\ heard <= written
  /\ pc = "clock" => written <= heard + Buffer
  /\ videoTime < heard + FrameTicks
  /\ ~noFrame => written <= videoTime + Buffer + excess + Unshown
==============================================================================
