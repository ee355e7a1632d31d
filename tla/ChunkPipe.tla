------------------------------ MODULE ChunkPipe ------------------------------
(***************************************************************************)
(* What the chunk fetcher promises its reader (client/ChunkFetcher.h:49-64)*)
(* : a pipe of bounded capacity.  One side places chunks and then closes   *)
(* the pipe for good; the other takes the oldest chunk, and is told NULL   *)
(* only of a closed pipe, after which it never gets a chunk again.  The    *)
(* capacity is not kept once the placing side has been given more CIDs at  *)
(* a time than it has room for.                                            *)
(***************************************************************************)
EXTENDS Naturals, Sequences

CONSTANTS Cids, Capacity

VARIABLES
  placed,  \* every chunk ever placed, in order
  taken,   \* every chunk ever taken, in order
  closed,  \* nothing more will be placed
  ended,   \* the reader has been told NULL
  overrun  \* the placing side has been given too many CIDs at a time

vars == <<placed, taken, closed, ended, overrun>>

Init ==
  /\ placed = << >> /\ taken = << >>
  /\ closed = FALSE /\ ended = FALSE /\ overrun = FALSE

Place(c) ==
  /\ ~closed
  /\ overrun \/ Len(placed) - Len(taken) < Capacity
  /\ placed' = Append(placed, c)
  /\ UNCHANGED <<taken, closed, ended, overrun>>

Take ==
  /\ ~ended /\ Len(taken) < Len(placed)
  /\ taken' = Append(taken, placed[Len(taken) + 1])
  /\ UNCHANGED <<placed, closed, ended, overrun>>

Close ==
  /\ closed' = TRUE
  /\ UNCHANGED <<placed, taken, ended, overrun>>

TellEnd ==
  /\ closed /\ ended' = TRUE
  /\ UNCHANGED <<placed, taken, closed, overrun>>

Overrun ==
  /\ overrun' = TRUE
  /\ UNCHANGED <<placed, taken, closed, ended>>

Next == (\E c \in Cids : Place(c)) \/ Take \/ Close \/ TellEnd \/ Overrun

Spec == Init /\ [][Next]_vars
=============================================================================
