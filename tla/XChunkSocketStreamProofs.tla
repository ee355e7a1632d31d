---------------------- MODULE XChunkSocketStreamProofs ----------------------
(***************************************************************************)
(* Proofs about XChunkSocketStream for chunks and reads of any size.       *)
(***************************************************************************)
EXTENDS XChunkSocketStream, SequenceTheorems, TLAPS

\* What CopyBytes copies: at least one byte, no more than is asked for and no
\* more than there is, each the one that follows those copied before.
LEMMA SpanCopied ==
  ASSUME IInv, CopyBytes
  PROVE  /\ Span \in Nat \ {0}
         /\ bytesReadByLastOperation + Span <= requested
         /\ numBytesReadFromCurrentChunk + Span <= Len(currentChunk)
         /\ out' \in Seq(Nat) /\ Len(out') = Len(out) + Span
         /\ \A i \in 1 .. Len(out') : out'[i] = i
  <1> DEFINE m == numBytesReadFromCurrentChunk
             s == SubSeq(currentChunk, m + 1, m + Span)
  <1>1. /\ Span \in Nat \ {0} /\ bytesReadByLastOperation + Span <= requested
        /\ m \in Nat /\ m + Span <= Len(currentChunk) /\ Len(currentChunk) \in Nat
    BY DEF IInv, TypeOK, CopyBytes, UsedUp, Span, Smaller
  <1>2. currentChunk \in Seq(Nat) /\ \A i \in m + 1 .. m + Span : currentChunk[i] \in Nat
    BY <1>1, ElementOfSeq DEF IInv, TypeOK
  <1>3. /\ s \in Seq(Nat) /\ Len(s) = Span
        /\ \A i \in 1 .. Span : s[i] = currentChunk[m + i]
    <2>1. m + 1 \in Int /\ m + Span \in Int /\ (m + Span) - (m + 1) + 1 = Span
          /\ m + 1 <= m + Span /\ \A i \in 1 .. Span : (m + 1) + i - 1 = m + i
      BY <1>1
    <2>2. QED
      BY <1>2, <2>1, SubSeqProperties
  <1>4. Len(out) = handedOut - Len(currentChunk) + m /\ Len(out) \in Nat
    BY DEF IInv, TypeOK, CopyBytes, BytesInOrder, Unread, ChunkContinues
  <1>5. \A i \in 1 .. Span : s[i] = Len(out) + i
    <2>1. \A j \in 1 .. Len(currentChunk) :
             currentChunk[j] = handedOut - Len(currentChunk) + j
      BY LenProperties DEF IInv, TypeOK, CopyBytes, ChunkContinues
    <2>2. \A i \in 1 .. Span : m + i \in 1 .. Len(currentChunk)
      BY <1>1
    <2>3. handedOut \in Nat
      BY DEF IInv, TypeOK
    <2>4. QED
      BY <1>1, <1>3, <1>4, <2>1, <2>2, <2>3
  <1>6. \A i \in 1 .. Len(out) : out[i] = i
    BY LenProperties DEF IInv, TypeOK, BytesInOrder
  <1>7. out \in Seq(Nat) /\ out' = out \o s
    BY DEF IInv, TypeOK, CopyBytes
  <1>8. /\ out' \in Seq(Nat) /\ Len(out') = Len(out) + Span
        /\ \A i \in 1 .. Len(out) + Span :
             out'[i] = IF i <= Len(out) THEN out[i] ELSE s[i - Len(out)]
    BY <1>3, <1>7, ConcatProperties
  <1>9. ASSUME NEW i \in 1 .. Len(out') PROVE out'[i] = i
    <2>1. CASE i <= Len(out)
      BY <1>1, <1>4, <1>6, <1>8, <2>1
    <2>2. CASE ~(i <= Len(out))
      <3>1. i - Len(out) \in 1 .. Span
        BY <1>1, <1>4, <1>8, <2>2
      <3>2. s[i - Len(out)] = Len(out) + (i - Len(out))
        BY <1>5, <3>1
      <3>3. QED
        BY <1>1, <1>4, <1>8, <2>2, <3>2
    <2>3. QED
      BY <2>1, <2>2
  <1>10. QED
    BY <1>1, <1>8, <1>9

\* Every read hands the decoder the next bytes of the chunks in order, and
\* falls short only at the end (XChunkSocketStream.cpp:54-94).
THEOREM StreamInvariant == Spec => []IInv
<1>1. Init => IInv
  <2> SUFFICES ASSUME Init PROVE IInv
    OBVIOUS
  <2>1. << >> \in Seq(Nat) /\ Len(<< >>) = 0
    BY EmptySeq
  <2>2. TypeOK
    <3>1. currentChunk \in Seq(Nat) /\ out \in Seq(Nat) /\ Len(currentChunk) = 0
      BY <2>1 DEF Init
    <3>2. numBytesReadFromCurrentChunk \in 0 .. Len(currentChunk)
      BY <3>1 DEF Init
    <3>3. /\ pc \in {"idle", "next", "loop"}
          /\ requested \in Nat /\ bytesReadByLastOperation \in Nat
          /\ haveChunk \in BOOLEAN /\ reachedEndOfFile \in BOOLEAN /\ handedOut \in Nat
      BY DEF Init
    <3>4. QED
      BY <3>1, <3>2, <3>3 DEF TypeOK
  <2>3. BytesInOrder /\ ChunkContinues /\ ShortReadMeansEnd
    BY <2>1 DEF Init, BytesInOrder, Unread, ChunkContinues, ShortReadMeansEnd
  <2>4. QED
    BY <2>2, <2>3 DEF IInv
<1>2. IInv /\ [Next]_vars => IInv'
  <2> SUFFICES ASSUME IInv, [Next]_vars PROVE IInv'
    OBVIOUS
  <2> USE DEF IInv, TypeOK, BytesInOrder, Unread, ChunkContinues, ShortReadMeansEnd,
              chunkVars
  <2>1. ASSUME NEW n \in 1 .. MaxRequest, Read(n) PROVE IInv'
    BY <2>1, StreamAssumption DEF Read
  <2>2. ASSUME NEW k \in 1 .. MaxChunk, NextChunk(k) PROVE IInv'
    <3>1. /\ currentChunk' = [i \in 1 .. k |-> handedOut + i]
          /\ k \in Nat /\ handedOut \in Nat
      BY <2>2, StreamAssumption DEF NextChunk
    <3>2. currentChunk' \in Seq(Nat) /\ Len(currentChunk') = k
      BY <3>1
    <3>3. QED
      BY <2>2, <3>1, <3>2 DEF NextChunk
  <2>3. CASE NextIsNull
    BY <2>3 DEF NextIsNull
  <2>4. CASE DeleteChunk
    <3>1. Unread = 0 /\ Unread' = 0
      BY <2>4, LenProperties DEF DeleteChunk, UsedUp
    <3>2. QED
      BY <2>4, <3>1 DEF DeleteChunk
  <2>5. CASE CopyBytes
    <3> DEFINE m == numBytesReadFromCurrentChunk
    <3>a. /\ Span \in Nat \ {0} /\ m + Span <= Len(currentChunk)
          /\ out' \in Seq(Nat) /\ Len(out') = Len(out) + Span
          /\ \A i \in 1 .. Len(out') : out'[i] = i
          /\ Len(currentChunk) \in Nat /\ Len(out) \in Nat /\ m \in Nat
      BY <2>5, SpanCopied
    <3>1. TypeOK'
      <4>1. numBytesReadFromCurrentChunk' \in 0 .. Len(currentChunk')
        BY <2>5, <3>a DEF CopyBytes
      <4>2. bytesReadByLastOperation' \in Nat
        BY <2>5, <3>a DEF CopyBytes
      <4>3. QED
        BY <2>5, <3>a, <4>1, <4>2 DEF CopyBytes
    <3>2. BytesInOrder'
      <4>1. DOMAIN out' = 1 .. Len(out')
        BY <3>a, LenProperties
      <4>2. \A i \in DOMAIN out' : out'[i] = i
        BY <3>a, <4>1
      <4>3. Unread' = Unread - Span /\ Unread \in Nat
        BY <2>5, <3>a DEF CopyBytes
      <4>4. handedOut = Len(out) + Unread /\ handedOut' = handedOut
        BY <2>5 DEF CopyBytes
      <4>5. handedOut' = Len(out') + Unread'
        BY ONLY <3>a, <4>3, <4>4
      <4>6. QED
        BY ONLY <4>2, <4>5 DEF BytesInOrder
    <3>3. ChunkContinues' /\ ShortReadMeansEnd'
      BY <2>5, SpanCopied DEF CopyBytes
    <3>4. QED
      BY <3>1, <3>2, <3>3
  <2>6. CASE Return
    BY <2>6 DEF Return
  <2>7. CASE UNCHANGED vars
    BY <2>7 DEF vars
  <2>8. QED
    BY <2>1, <2>2, <2>3, <2>4, <2>5, <2>6, <2>7 DEF Next, InRead
<1>3. QED
  BY <1>1, <1>2, PTL DEF Spec

\* Once the end has been reported, no byte follows.
THEOREM EndIsFinal == Spec => NothingAfterEnd
<1>1. IInv /\ [Next]_vars => [reachedEndOfFile => UNCHANGED out]_vars
  BY DEF IInv, ChunkContinues, Next, InRead, Read, NextChunk, NextIsNull, DeleteChunk,
         CopyBytes, Return
<1>2. QED
  BY <1>1, StreamInvariant, PTL DEF Spec, NothingAfterEnd
=============================================================================
