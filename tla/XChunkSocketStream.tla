------------------------- MODULE XChunkSocketStream -------------------------
(***************************************************************************)
(* client/XChunkSocketStream.cpp: read() copies the bytes of one chunk     *)
(* after the other, as getNextChunkFromQueue hands them out, into the      *)
(* buffers of the Ogg decoder, which asks for a number of bytes and then   *)
(* looks at gcount() and good().                                           *)
(*                                                                         *)
(* A byte is its place among all the bytes handed out so far.              *)
(***************************************************************************)
EXTENDS Naturals, Sequences

CONSTANTS
  MaxChunk,    \* CHUNKSIZE: no chunk is longer
  MaxRequest,  \* the decoder asks for 1 .. MaxRequest bytes (it uses 4096)
  MaxBytes     \* bound: no chunk is handed out beyond so many bytes

ASSUME StreamAssumption == MaxChunk \in Nat /\ MaxRequest \in Nat /\ MaxBytes \in Nat

VARIABLES
  pc,                           \* where read() is
  requested,                    \* numBytesRequested
  bytesReadByLastOperation,
  haveChunk,                    \* currentChunk is not NULL
  currentChunk,                 \* its bytes
  numBytesReadFromCurrentChunk,
  reachedEndOfFile,
  handedOut,                    \* bytes in the chunks handed out so far
  out                           \* the bytes copied to the decoder, in order

chunkVars == <<haveChunk, currentChunk, numBytesReadFromCurrentChunk>>
vars == <<pc, requested, bytesReadByLastOperation, chunkVars, reachedEndOfFile,
          handedOut, out>>

Init ==
  /\ pc = "idle" /\ requested = 0 /\ bytesReadByLastOperation = 0
  /\ haveChunk = FALSE /\ currentChunk = << >> /\ numBytesReadFromCurrentChunk = 0
  /\ reachedEndOfFile = FALSE
  /\ handedOut = 0 /\ out = << >>

Read(n) ==
  /\ pc = "idle"
  /\ requested' = n /\ bytesReadByLastOperation' = 0
  /\ pc' = IF haveChunk THEN "loop" ELSE "next"
  /\ UNCHANGED <<chunkVars, reachedEndOfFile, handedOut, out>>

\* Mutant of NextChunk: chunks after NULL.
NextChunkAfterEnd(k) ==
  /\ pc = "next" /\ handedOut + k <= MaxBytes
  /\ haveChunk' = TRUE /\ numBytesReadFromCurrentChunk' = 0
  /\ currentChunk' = [i \in 1 .. k |-> handedOut + i]
  /\ handedOut' = handedOut + k
  /\ pc' = "loop"
  /\ UNCHANGED <<requested, bytesReadByLastOperation, reachedEndOfFile, out>>

\* getNextChunkFromQueue returns a chunk of k bytes (XputFile makes no empty
\* one) ...
NextChunk(k) ==
  /\ pc = "next" /\ ~reachedEndOfFile /\ handedOut + k <= MaxBytes
  /\ haveChunk' = TRUE /\ numBytesReadFromCurrentChunk' = 0
  /\ currentChunk' = [i \in 1 .. k |-> handedOut + i]
  /\ handedOut' = handedOut + k
  /\ pc' = "loop"
  /\ UNCHANGED <<requested, bytesReadByLastOperation, reachedEndOfFile, out>>

\* ... or NULL, and then NULL for ever (ChunkPipe).
NextIsNull ==
  /\ pc = "next"
  /\ reachedEndOfFile' = TRUE /\ pc' = "idle"
  /\ UNCHANGED <<requested, bytesReadByLastOperation, chunkVars, handedOut, out>>

\* Mutants of UsedUp: off by one in either direction.
UsedUpEarly == numBytesReadFromCurrentChunk + 1 >= Len(currentChunk)
UsedUpNever == numBytesReadFromCurrentChunk > Len(currentChunk)

UsedUp == numBytesReadFromCurrentChunk >= Len(currentChunk)

\* delete currentChunk; what getNextChunkFromQueue returns takes its place.
DeleteChunk ==
  /\ pc = "loop" /\ bytesReadByLastOperation < requested /\ UsedUp
  /\ haveChunk' = FALSE /\ pc' = "next"
  /\ UNCHANGED <<requested, bytesReadByLastOperation, currentChunk,
                 numBytesReadFromCurrentChunk, reachedEndOfFile, handedOut, out>>

Smaller(m, n) == IF m < n THEN m ELSE n

\* How much the inner loop copies: what is asked for and what there is.
Span == Smaller(requested - bytesReadByLastOperation,
                Len(currentChunk) - numBytesReadFromCurrentChunk)

CopyBytes ==
  /\ pc = "loop" /\ bytesReadByLastOperation < requested /\ ~UsedUp
  /\ out' = out \o SubSeq(currentChunk, numBytesReadFromCurrentChunk + 1,
                          numBytesReadFromCurrentChunk + Span)
  /\ numBytesReadFromCurrentChunk' = numBytesReadFromCurrentChunk + Span
  /\ bytesReadByLastOperation' = bytesReadByLastOperation + Span
  /\ UNCHANGED <<pc, requested, haveChunk, currentChunk, reachedEndOfFile, handedOut>>

Return ==
  /\ pc = "loop" /\ bytesReadByLastOperation >= requested
  /\ pc' = "idle"
  /\ UNCHANGED <<requested, bytesReadByLastOperation, chunkVars, reachedEndOfFile,
                 handedOut, out>>

InRead ==
  \/ \E k \in 1 .. MaxChunk : NextChunk(k)
  \/ NextIsNull \/ DeleteChunk \/ CopyBytes \/ Return

Next == (\E n \in 1 .. MaxRequest : Read(n)) \/ InRead

Spec == Init /\ [][Next]_vars

\* getNextChunkFromQueue returns in the end (ChunkFetcher!PlayerReachesEnd),
\* and the thread that called read() runs on.
FairSpec == Spec /\ WF_vars(InRead)
-----------------------------------------------------------------------------
TypeOK ==
  /\ pc \in {"idle", "next", "loop"}
  /\ requested \in Nat /\ bytesReadByLastOperation \in Nat
  /\ haveChunk \in BOOLEAN /\ currentChunk \in Seq(Nat)
  /\ numBytesReadFromCurrentChunk \in 0 .. Len(currentChunk)
  /\ reachedEndOfFile \in BOOLEAN
  /\ handedOut \in Nat /\ out \in Seq(Nat)

Unread == IF haveChunk THEN Len(currentChunk) - numBytesReadFromCurrentChunk ELSE 0

\* The decoder gets the bytes of the chunks in order, none twice, and the
\* only ones still missing are the unread ones of the current chunk: a chunk
\* is deleted only when it is used up, and a read that ends within a chunk is
\* resumed there by the next.
BytesInOrder ==
  /\ \A i \in DOMAIN out : out[i] = i
  /\ handedOut = Len(out) + Unread

\* The bytes of the current chunk are the latest ones handed out, and after the
\* end there is no current chunk.
ChunkContinues ==
  /\ haveChunk => \A i \in DOMAIN currentChunk :
       currentChunk[i] = handedOut - Len(currentChunk) + i
  /\ pc = "loop" => haveChunk
  /\ pc = "next" => ~haveChunk
  /\ reachedEndOfFile => ~haveChunk

\* A read returns fewer bytes than asked for only at the end of the file,
\* and never more.  (The decoder takes 0 bytes for the end.)
ShortReadMeansEnd ==
  /\ bytesReadByLastOperation <= requested
  /\ pc = "idle" /\ bytesReadByLastOperation < requested => reachedEndOfFile

IInv == TypeOK /\ BytesInOrder /\ ChunkContinues /\ ShortReadMeansEnd

\* After good() has turned false no byte is copied any more: nothing that
\* read_page gives up on would still have come.
NothingAfterEnd == [][reachedEndOfFile => UNCHANGED out]_vars

\* Every read returns.
ReadReturns == (pc # "idle") ~> (pc = "idle")
=============================================================================
