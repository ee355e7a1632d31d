------------------------- MODULE ChunkFetcherProofs -------------------------
(***************************************************************************)
(* Proofs about ChunkFetcher for every video length, window, threshold and *)
(* list of servers.                                                        *)
(***************************************************************************)
EXTENDS ChunkFetcher, SequenceTheorems, TLAPS

\* Rotating a non-empty list of locations gives another one.
LEMMA RotatedType ==
  ASSUME NEW S, NEW l \in Seq(S), l # << >>
  PROVE  Rotated(l) \in Seq(S) /\ Rotated(l) # << >>
  <1>1. Head(l) \in S /\ Tail(l) \in Seq(S)
    BY HeadTailProperties
  <1>2. Append(Tail(l), Head(l)) \in Seq(S)
    BY <1>1, AppendProperties
  <1>3. Append(Tail(l), Head(l)) # << >>
    <2> DEFINE t == Tail(l)
               h == Head(l)
    <2>1. t \in Seq(S) /\ h \in S
      BY <1>1
    <2> HIDE DEF t, h
    <2>2. Append(t, h) # << >>
      BY ONLY <2>1, AppendProperties
    <2>3. QED
      BY <2>2 DEF t, h
  <1>4. QED
    BY <1>2, <1>3 DEF Rotated

\* A chunk at the end of the queue comes after all those before it.
LEMMA PushKeepsOrder ==
  ASSUME NEW d \in Seq(Cids), NEW q \in Seq(Cids), NEW c \in Cids
  PROVE  Append(d \o q, c) = d \o Append(q, c)
  <1>1. <<c>> \in Seq(Cids) /\ d \o q \in Seq(Cids)
    BY ConcatProperties
  <1>2. Append(d \o q, c) = (d \o q) \o <<c>> /\ Append(q, c) = q \o <<c>>
    BY <1>1, AppendIsConcat
  <1>3. (d \o q) \o <<c>> = d \o (q \o <<c>>)
    BY <1>1, ConcatAssociative
  <1>4. QED
    BY <1>2, <1>3

\* The chunk at the head of the queue, taken out, comes before all those left.
LEMMA PopKeepsOrder ==
  ASSUME NEW d \in Seq(Cids), NEW q \in Seq(Cids), q # << >>
  PROVE  Append(d, Head(q)) \o Tail(q) = d \o q
  <1>1. Head(q) \in Cids /\ Tail(q) \in Seq(Cids) /\ <<Head(q)>> \in Seq(Cids)
    BY HeadTailProperties
  <1>2. Append(d, Head(q)) = d \o <<Head(q)>>
    BY <1>1, AppendIsConcat
  <1>3. q = <<Head(q)>> \o Tail(q)
    BY <1>1
  <1>4. (d \o <<Head(q)>>) \o Tail(q) = d \o (<<Head(q)>> \o Tail(q))
    BY <1>1, ConcatAssociative
  <1>5. QED
    BY <1>2, <1>3, <1>4

\* The CIDs of a reply: as many as asked for, at least one, from the next
\* chunk to request on.
LEMMA ReplyShape ==
  ASSUME TypeOK, nextChunkToRequest < NumChunks
  PROVE  /\ NumToReceive \in 1 .. WindowSize
         /\ NumToReceive = WindowSize \/ nextChunkToRequest + NumToReceive = NumChunks
         /\ Block \in Seq(Cids) /\ Len(Block) = NumToReceive /\ Block # << >>
         /\ \A i \in 1 .. NumToReceive : Block[i] = nextChunkToRequest + i - 1
  <1>1. /\ NumToReceive \in 1 .. WindowSize
        /\ nextChunkToRequest + NumToReceive <= NumChunks
        /\ NumToReceive = WindowSize \/ nextChunkToRequest + NumToReceive = NumChunks
    BY SizesAssumption DEF TypeOK, NumToReceive
  <1>2. \A i \in 1 .. NumToReceive : nextChunkToRequest + i - 1 \in Cids
    BY <1>1, SizesAssumption DEF TypeOK, Cids
  <1>3. Block \in [1 .. NumToReceive -> Cids]
    BY <1>2 DEF Block
  <1>4. Block \in Seq(Cids) /\ Len(Block) = NumToReceive
    BY <1>1, <1>3
  <1>5. \A i \in 1 .. NumToReceive : Block[i] = nextChunkToRequest + i - 1
    BY DEF Block
  <1>6. QED
    BY <1>1, <1>4, <1>5

\* The first CIDs of a list are such a list again.
LEMMA FirstPart ==
  ASSUME NEW l \in Seq(Cids), NEW k \in 0 .. Len(l)
  PROVE  /\ SubSeq(l, 1, k) \in Seq(Cids) /\ Len(SubSeq(l, 1, k)) = k
         /\ DOMAIN SubSeq(l, 1, k) = 1 .. k
         /\ \A i \in 1 .. k : SubSeq(l, 1, k)[i] = l[i]
         /\ k = 0 => SubSeq(l, 1, k) = << >>
         /\ k = Len(l) => SubSeq(l, 1, k) = l
  <1>1. Len(l) \in Nat /\ k \in Int
    BY LenProperties
  <1>2. \A i \in 1 .. k : l[i] \in Cids
    BY <1>1, ElementOfSeq
  <1>3. CASE k = 0
    <2>1. SubSeq(l, 1, k) = << >>
      BY <1>1, <1>3, SubSeqEmpty
    <2>2. k = Len(l) => l = << >>
      BY <1>3, EmptySeq
    <2>3. QED
      BY <1>3, <2>1, <2>2, EmptySeq
  <1>4. CASE k # 0
    <2>1. 1 <= k /\ k - 1 + 1 = k /\ \A i \in 1 .. k : 1 + i - 1 = i
      BY <1>1, <1>4
    <2>2. /\ SubSeq(l, 1, k) \in Seq(Cids) /\ Len(SubSeq(l, 1, k)) = k
          /\ \A i \in 1 .. k : SubSeq(l, 1, k)[i] = l[i]
      BY <1>1, <1>2, <2>1, SubSeqProperties
    <2>3. DOMAIN SubSeq(l, 1, k) = 1 .. k
      BY <2>2, LenProperties
    <2>4. k = Len(l) => SubSeq(l, 1, k) = l
      BY SubSeqFull
    <2>5. QED
      BY <1>4, <2>2, <2>3, <2>4
  <1>5. QED
    BY <1>3, <1>4

\* What is behind the first CIDs of a list is such a list again.
LEMMA RestOf ==
  ASSUME NEW l \in Seq(Cids), NEW k \in 0 .. Len(l)
  PROVE  /\ SubSeq(l, k + 1, Len(l)) \in Seq(Cids)
         /\ DOMAIN SubSeq(l, k + 1, Len(l)) = 1 .. Len(l) - k
         /\ \A i \in 1 .. Len(l) - k : SubSeq(l, k + 1, Len(l))[i] = l[k + i]
         /\ k = Len(l) => SubSeq(l, k + 1, Len(l)) = << >>
  <1>1. Len(l) \in Nat /\ k \in Nat /\ k + 1 \in Int
    BY LenProperties
  <1>2. \A i \in k + 1 .. Len(l) : l[i] \in Cids
    BY <1>1, ElementOfSeq
  <1>3. CASE k = Len(l)
    <2>1. Len(l) < k + 1 /\ Len(l) - k = 0
      BY <1>1, <1>3
    <2>2. SubSeq(l, k + 1, Len(l)) = << >>
      BY <1>1, <2>1, SubSeqEmpty
    <2>3. QED
      BY <2>1, <2>2, EmptySeq
  <1>4. CASE k # Len(l)
    <2>1. /\ k + 1 <= Len(l) /\ Len(l) - (k + 1) + 1 = Len(l) - k
          /\ \A i \in 1 .. Len(l) - k : (k + 1) + i - 1 = k + i
      BY <1>1, <1>4
    <2>2. /\ SubSeq(l, k + 1, Len(l)) \in Seq(Cids)
          /\ Len(SubSeq(l, k + 1, Len(l))) = Len(l) - (k + 1) + 1
          /\ \A i \in 1 .. Len(l) - (k + 1) + 1 :
               SubSeq(l, k + 1, Len(l))[i] = l[(k + 1) + i - 1]
      BY <1>1, <1>2, <2>1, SubSeqProperties
    <2>3. DOMAIN SubSeq(l, k + 1, Len(l)) = 1 .. Len(l) - k
      BY <2>1, <2>2, LenProperties
    <2>4. QED
      BY <1>4, <2>1, <2>2, <2>3
  <1>5. QED
    BY <1>3, <1>4

\* A reply is the first part of what arrives; the rest goes on arriving.
LEMMA ReplyTaken ==
  ASSUME IInv, NEW k \in 1 .. Len(arriving), ReceiveReply(k)
  PROVE  /\ Len(arriving) \in Nat \ {0} /\ k \in Nat \ {0}
         /\ arriving # << >> /\ DOMAIN arriving = 1 .. Len(arriving)
         /\ cidList' \in Seq(Cids) /\ Len(cidList') = k /\ cidList' # << >>
         /\ DOMAIN cidList' = 1 .. k /\ \A i \in 1 .. k : cidList'[i] = arriving[i]
         /\ arriving' \in Seq(Cids) /\ DOMAIN arriving' = 1 .. Len(arriving) - k
         /\ \A i \in 1 .. Len(arriving) - k : arriving'[i] = arriving[k + i]
         /\ k = Len(arriving) => cidList' = arriving /\ arriving' = << >>
  <1> DEFINE n == Len(arriving)
             first == SubSeq(arriving, 1, k)
             rest == SubSeq(arriving, k + 1, n)
  <1>1. arriving \in Seq(Cids) /\ k \in 0 .. Len(arriving)
    BY LenProperties DEF IInv, TypeOK
  <1>2. n \in Nat \ {0} /\ k \in Nat \ {0} /\ DOMAIN arriving = 1 .. n
    BY <1>1, LenProperties
  <1>3. arriving # << >>
    BY <1>2, EmptySeq
  <1>4. cidList' = first /\ arriving' = rest
    BY DEF ReceiveReply
  <1>5. /\ first \in Seq(Cids) /\ Len(first) = k /\ DOMAIN first = 1 .. k
        /\ \A i \in 1 .. k : first[i] = arriving[i]
        /\ k = n => first = arriving
    BY <1>1, FirstPart
  <1>6. /\ rest \in Seq(Cids) /\ DOMAIN rest = 1 .. n - k
        /\ \A i \in 1 .. n - k : rest[i] = arriving[k + i]
        /\ k = n => rest = << >>
    BY <1>1, RestOf
  <1>7. first # << >>
    BY <1>2, <1>5, EmptySeq
  <1> HIDE DEF n, first, rest
  <1>8. QED
    BY <1>2, <1>3, <1>4, <1>5, <1>6, <1>7 DEF n

\* The replies on their way are those there were, and the new one behind them.
LEMMA ReplyFollows ==
  ASSUME TypeOK, nextChunkToRequest < NumChunks
  PROVE  /\ arriving \o Block \in Seq(Cids)
         /\ DOMAIN (arriving \o Block) = 1 .. Len(arriving) + NumToReceive
         /\ \A i \in 1 .. Len(arriving) : (arriving \o Block)[i] = arriving[i]
         /\ \A i \in 1 .. NumToReceive :
              (arriving \o Block)[Len(arriving) + i] = nextChunkToRequest + i - 1
         /\ arriving = << >> => arriving \o Block = Block
  <1> DEFINE n == Len(arriving)
             b == Block
             all == arriving \o b
  <1>1. arriving \in Seq(Cids) /\ n \in Nat
    BY LenProperties DEF TypeOK
  <1>2. /\ b \in Seq(Cids) /\ Len(b) = NumToReceive /\ NumToReceive \in Nat
        /\ \A i \in 1 .. NumToReceive : b[i] = nextChunkToRequest + i - 1
    BY ReplyShape, SizesAssumption
  <1> HIDE DEF b
  <1>3. /\ all \in Seq(Cids) /\ Len(all) = n + NumToReceive
        /\ \A i \in 1 .. n + NumToReceive :
             all[i] = IF i <= n THEN arriving[i] ELSE b[i - n]
    BY <1>1, <1>2, ConcatProperties
  <1>4. arriving = << >> => all = b
    BY <1>2, ConcatEmptySeq
  <1>5. DOMAIN all = 1 .. n + NumToReceive
    BY <1>3, LenProperties
  <1> HIDE DEF n, all
  <1>6. \A i \in 1 .. n : all[i] = arriving[i]
    BY <1>1, <1>2, <1>3
  <1>7. ASSUME NEW i \in 1 .. NumToReceive PROVE all[n + i] = nextChunkToRequest + i - 1
    <2> DEFINE m == n + i
    <2>1. m \in 1 .. n + NumToReceive /\ ~(m <= n) /\ m - n = i
      BY <1>1, <1>2
    <2> HIDE DEF m
    <2>2. all[m] = b[m - n]
      BY <1>3, <2>1
    <2>3. all[m] = b[i]
      BY <2>1, <2>2
    <2>4. QED
      BY <1>2, <2>3 DEF m
  <1>8. QED
    BY <1>3, <1>4, <1>5, <1>6, <1>7 DEF n, all, b

\* The windows start at the multiples of their size.
LEMMA WindowStarts ==
  /\ StartsWindow(0)
  /\ \A n \in Nat : StartsWindow(n) => StartsWindow(n + WindowSize)
  <1>1. StartsWindow(0)
    BY SizesAssumption DEF StartsWindow
  <1>2. ASSUME NEW n \in Nat, StartsWindow(n) PROVE StartsWindow(n + WindowSize)
    <2>1. PICK q \in 0 .. n : n = q * WindowSize
      BY <1>2 DEF StartsWindow
    <2>2. q \in Nat /\ WindowSize \in Nat /\ 1 <= WindowSize
      BY SizesAssumption
    <2>3. (q + 1) * WindowSize = q * WindowSize + WindowSize
      BY <2>2
    <2>4. q + 1 \in 0 .. n + WindowSize
      BY <2>2
    <2>5. QED
      BY <2>1, <2>3, <2>4 DEF StartsWindow
  <1>3. QED
    BY <1>1, <1>2

\* The chunk that ReadChunk pushes is one of the window.
LEMMA PushedType ==
  ASSUME TypeOK, ReadIndexOK, fetcherPc = "read"
  PROVE  cidList[readIndex] \in Cids
  <1>1. readIndex \in 1 .. Len(cidList)
    BY DEF TypeOK, ReadIndexOK
  <1>2. QED
    BY <1>1, ElementOfSeq DEF TypeOK

\* The constructor (ChunkFetcher.cpp:34-48) establishes the invariant.
LEMMA InitInvariant == Init => IInv
  <1> SUFFICES ASSUME Init PROVE IInv
    OBVIOUS
  <1>1. TypeOK
    <2>1. << >> \in Seq(Cids)
      BY EmptySeq
    <2>2. serverLocations \in Seq(Servers) /\ serverLocations # << >>
      BY LocationsAssumption DEF Init
    <2>3. removed \in [Servers -> 0 .. NumChunks]
      BY SizesAssumption DEF Init
    <2>4. waiting \in 0 .. WaitThreshold /\ readFaults \in 0 .. MaxReadFaults
      BY SizesAssumption DEF Init
    <2>5. /\ cidList \in Seq(Cids) /\ chunkQueue \in Seq(Cids)
          /\ placed \in Seq(Cids) /\ delivered \in Seq(Cids)
      BY <2>1 DEF Init
    <2>6. nextChunkToRequest \in Nat /\ readIndex \in Nat \ {0}
          /\ chunkToReturn \in Nat /\ local \subseteq Cids
      BY DEF Init
    <2>7. /\ fetcherPc = "loop" /\ playerPc = "idle" /\ reachedEndOfFile = FALSE
          /\ ended = FALSE /\ connected = TRUE
      BY DEF Init
    <2>8. arriving \in Seq(Cids) /\ pieced \in BOOLEAN /\ overrun \in BOOLEAN
      BY <2>1 DEF Init
    <2>9. QED
      BY <2>2, <2>3, <2>4, <2>5, <2>6, <2>7, <2>8 DEF TypeOK
  <1>2. Fifo
    <2>1. << >> = << >> \o << >>
      BY EmptySeq, ConcatEmptySeq
    <2>2. QED
      BY <2>1 DEF Init, Fifo
  <1>3. WindowShape /\ FlagMeansNoneLeft /\ ReadIndexOK /\ PlayerTestsHold
    BY DEF Init, WindowShape, InWindow, FlagMeansNoneLeft, ReadIndexOK,
           PlayerTestsHold, FrontIsPopped
  <1>4. QueueRoom
    BY SizesAssumption, EmptySeq DEF Init, QueueRoom, InHand
  <1>5. /\ placed = << >> /\ arriving = << >> /\ fetcherPc = "loop" /\ nextChunkToRequest = 0
        /\ DOMAIN << >> = {} /\ Len(placed) = 0
    BY EmptySeq DEF Init
  <1>6. OrderKept /\ NoGaps
    BY <1>5 DEF OrderKept, Ascending, AllBelow, InWindow, NoGaps
  <1>7. Linked
    BY <1>5, WindowStarts DEF Linked, InWindow
  <1>8. OneReplyArrives /\ OnlyWindowsLost
    BY <1>5 DEF OneReplyArrives, OnlyWindowsLost, Asked, Cids
  <1>9. PlacedIsCounted /\ PlacedOnceUnlessReadFails
    BY <1>5 DEF PlacedIsCounted, InWindow, PlacedOnceUnlessReadFails
  <1>10. QED
    BY <1>1, <1>2, <1>3, <1>4, <1>6, <1>7, <1>8, <1>9 DEF IInv

\* Every step of either thread or of the network keeps the types.
LEMMA TypeStep == IInv /\ [Next]_vars => TypeOK'
  <1> SUFFICES ASSUME IInv, [Next]_vars PROVE TypeOK'
    OBVIOUS
  <1> USE DEF IInv, TypeOK, windowVars, sharedVars, playerVars, networkVars, replyVars
  <1>1. CASE StartWindow
    BY <1>1 DEF StartWindow, FetcherStep, StreamStep
  <1>2. CASE Terminate
    BY <1>2 DEF Terminate, FetcherStep, StreamStep
  <1>3. CASE ReachEndOfFile
    BY <1>3, EmptySeq DEF ReachEndOfFile
  <1>4. CASE SendBlock
    <2>1. arriving' \in Seq(Cids)
      BY <1>4, ReplyFollows DEF SendBlock
    <2>2. QED
      BY <1>4, <2>1 DEF SendBlock, StreamStep
  <1>5. CASE ConnectionError
    BY <1>5 DEF ConnectionError, FetcherStep, StreamStep
  <1>6. ASSUME NEW k \in 1 .. Len(arriving), ReceiveReply(k) PROVE TypeOK'
    <2>1. cidList' \in Seq(Cids) /\ arriving' \in Seq(Cids)
      BY <1>6, ReplyTaken
    <2>2. nextChunkToRequest' \in Nat
      BY <1>6, SizesAssumption DEF ReceiveReply
    <2>3. pieced' \in BOOLEAN /\ overrun' \in BOOLEAN
      BY <1>6 DEF ReceiveReply
    <2>4. QED
      BY <1>6, <2>1, <2>2, <2>3 DEF ReceiveReply, StreamStep
  <1>20. CASE ReceivePartOfCid \/ OverrunStatuses
    BY <1>20 DEF ReceivePartOfCid, OverrunStatuses, StreamStep
  <1>7. CASE ReceiveNothing
    BY <1>7, EmptySeq, SizesAssumption DEF ReceiveNothing, FetcherStep, StreamStep
  <1>8. CASE RequestChunks
    BY <1>8, SizesAssumption DEF RequestChunks, FetcherStep, StreamStep
  <1>9. CASE ChunksReady
    BY <1>9 DEF ChunksReady, FetcherStep, StreamStep
  <1>10. CASE KeepWaiting
    BY <1>10, SizesAssumption DEF KeepWaiting, FetcherStep, StreamStep
  <1>11. CASE RequestFails
    BY <1>11, RotatedType DEF RequestFails, Failover, FetcherStep, StreamStep
  <1>12. CASE WaitedTooLong
    BY <1>12, RotatedType DEF WaitedTooLong, Failover, FetcherStep, StreamStep
  <1>13. CASE ReadChunk
    <2>1. chunkQueue' \in Seq(Cids) /\ placed' \in Seq(Cids)
      BY <1>13, PushedType, AppendProperties DEF ReadChunk
    <2>2. readIndex' \in Nat \ {0}
      BY <1>13 DEF ReadChunk
    <2>3. fetcherPc' \in {"read", "loop"}
      BY <1>13 DEF ReadChunk
    <2>4. QED
      BY <1>13, <2>1, <2>2, <2>3 DEF ReadChunk
  <1>14. CASE ReadFails
    BY <1>14, RotatedType, SizesAssumption DEF ReadFails, Failover
  <1>15. CASE PopAndReturn
    <2>1. chunkQueue' \in Seq(Cids)
      BY <1>15, HeadTailProperties
         DEF PopAndReturn, PlayerStep, PlayerTestsHold, FrontIsPopped
    <2>2. chunkToReturn \in Cids
      BY <1>15, HeadTailProperties
         DEF PopAndReturn, PlayerStep, PlayerTestsHold, FrontIsPopped
    <2>3. delivered' \in Seq(Cids)
      BY <1>15, <2>2, AppendProperties DEF PopAndReturn
    <2>4. QED
      BY <1>15, <2>1, <2>3 DEF PopAndReturn, PlayerStep
  <1>16. CASE Front
    <2>1. chunkToReturn' \in Nat
      BY <1>16, HeadTailProperties, SizesAssumption
         DEF Front, PlayerStep, PlayerTestsHold, FrontIsPopped, Cids
    <2>2. QED
      BY <1>16, <2>1 DEF Front, PlayerStep
  <1>17. CASE Call \/ ReturnNull \/ TestSize \/ TestFlag \/ Recheck \/ StopPlaying
    <2>1. CASE Call \/ Recheck \/ StopPlaying
      BY <2>1 DEF Call, Recheck, StopPlaying, TestStep, PlayerStep
    <2>2. CASE TestSize \/ TestFlag
      BY <2>2 DEF TestSize, TestFlag, TestStep, PlayerStep
    <2>3. CASE ReturnNull
      BY <2>3 DEF ReturnNull, PlayerStep
    <2>4. QED
      BY <1>17, <2>1, <2>2, <2>3
  <1>18. CASE Network
    <2>1. CASE LoseConnection
      <3>1. arriving' \in Seq(Cids) /\ pieced' \in BOOLEAN
        BY <2>1, FirstPart DEF LoseConnection
      <3>2. QED
        BY <2>1, <3>1 DEF LoseConnection, NetworkStep
    <2>2. ASSUME NEW s \in Servers, NEW c \in Cids, Bring(s, c) PROVE TypeOK'
      BY <2>2 DEF Bring, NetworkStep
    <2>3. ASSUME NEW s \in Transient, RemoveChunk(s) PROVE TypeOK'
      <3>1. removed' \in [Servers -> 0 .. NumChunks]
        BY <2>3, SizesAssumption, LocationsAssumption DEF RemoveChunk
      <3>2. QED
        BY <2>3, <3>1 DEF RemoveChunk, NetworkStep
    <2>4. QED
      BY <1>18, <2>1, <2>2, <2>3 DEF Network
  <1>19. CASE UNCHANGED vars
    BY <1>19 DEF vars
  <1>21. QED
    BY <1>1, <1>2, <1>3, <1>4, <1>5, <1>6, <1>7, <1>8, <1>9, <1>10, <1>11,
       <1>12, <1>13, <1>14, <1>15, <1>16, <1>17, <1>18, <1>19, <1>20
       DEF Next, Fetcher, Player

\* Only a push, a pop or a failed read disturbs the queue, its histories or
\* the count of failed reads.
LEMMA OnlyPushAndPop ==
  [Next]_vars => ReadChunk \/ PopAndReturn \/ UNCHANGED <<chunkQueue, placed, delivered>>
  BY DEF Next, Fetcher, Player, Network, vars, sharedVars, playerVars,
         FetcherStep, StreamStep, PlayerStep, TestStep, NetworkStep,
         StartWindow, Terminate, ReachEndOfFile, SendBlock, ConnectionError,
         ReceiveReply, ReceivePartOfCid, OverrunStatuses, ReceiveNothing,
         RequestChunks, ChunksReady, KeepWaiting,
         RequestFails, WaitedTooLong, ReadFails, Call, ReturnNull, TestSize,
         TestFlag, Recheck, Front, StopPlaying, Bring, LoseConnection, RemoveChunk

\* Every step keeps what was pushed equal to what was returned and what is
\* still queued: push and pop are the only ones that could disturb it.
LEMMA FifoStep == IInv /\ [Next]_vars => Fifo'
  <1> SUFFICES ASSUME IInv, [Next]_vars PROVE Fifo'
    OBVIOUS
  <1> USE DEF IInv, TypeOK, Fifo
  <1>1. CASE ReadChunk
    <2> DEFINE c == cidList[readIndex]
    <2>1. c \in Cids /\ chunkQueue \in Seq(Cids) /\ delivered \in Seq(Cids)
      BY <1>1, PushedType DEF ReadChunk
    <2>2. /\ placed' = Append(placed, c) /\ chunkQueue' = Append(chunkQueue, c)
          /\ delivered' = delivered
      BY <1>1 DEF ReadChunk, playerVars
    <2>3. Append(delivered \o chunkQueue, c) = delivered \o Append(chunkQueue, c)
      BY ONLY <2>1, PushKeepsOrder, Zenon
    <2>4. QED
      BY <2>2, <2>3
  <1>2. CASE PopAndReturn
    <2>1. /\ chunkQueue # << >> /\ chunkToReturn = Head(chunkQueue)
          /\ chunkQueue' = Tail(chunkQueue) /\ placed' = placed
          /\ delivered' = Append(delivered, chunkToReturn)
      BY <1>2 DEF PopAndReturn, PlayerStep, PlayerTestsHold, FrontIsPopped
    <2>2. Append(delivered, Head(chunkQueue)) \o Tail(chunkQueue)
            = delivered \o chunkQueue
      BY <2>1, PopKeepsOrder
    <2>3. QED
      BY <2>1, <2>2
  <1>3. CASE UNCHANGED <<chunkQueue, placed, delivered>>
    BY <1>3
  <1>4. QED
    BY <1>1, <1>2, <1>3, OnlyPushAndPop

\* While replies come whole, what is received is the block that was asked for.
LEMMA WholeReply ==
  ASSUME IInv, NEW k \in 1 .. Len(arriving), ReceiveReply(k), ~pieced'
  PROVE  ~pieced /\ cidList' = Block /\ arriving' = << >> /\ nextChunkToRequest < NumChunks
  <1>1. ~pieced /\ ~(k < Len(arriving))
    BY DEF ReceiveReply, IInv, TypeOK
  <1>2. k = Len(arriving)
    BY <1>1, ReplyTaken
  <1>3. cidList' = arriving /\ arriving' = << >> /\ arriving # << >>
    BY <1>2, ReplyTaken
  <1>4. arriving = Block /\ nextChunkToRequest < NumChunks
    BY <1>1, <1>3 DEF ReceiveReply, StreamStep, IInv, OneReplyArrives, FlagMeansNoneLeft
  <1>5. QED
    BY <1>1, <1>3, <1>4

\* Every step keeps the shape of the window, the meaning of the flag and the
\* place in the window.
LEMMA WindowStep ==
  IInv /\ [Next]_vars => WindowShape' /\ FlagMeansNoneLeft' /\ ReadIndexOK'
  <1> SUFFICES ASSUME IInv, [Next]_vars
               PROVE  WindowShape' /\ FlagMeansNoneLeft' /\ ReadIndexOK'
    OBVIOUS
  <1> USE DEF IInv, TypeOK, WindowShape, InWindow, FlagMeansNoneLeft, ReadIndexOK,
              FetcherStep, StreamStep, windowVars, sharedVars, replyVars, Failover
  <1>1. CASE StartWindow \/ Terminate \/ ReachEndOfFile \/ SendBlock \/ ConnectionError
    BY <1>1 DEF StartWindow, Terminate, ReachEndOfFile, SendBlock, ConnectionError
  <1>2. ASSUME NEW k \in 1 .. Len(arriving), ReceiveReply(k)
        PROVE  WindowShape' /\ FlagMeansNoneLeft' /\ ReadIndexOK'
    <2>1. cidList' # << >> /\ Len(cidList') = k
      BY <1>2, ReplyTaken
    <2>2. ~overrun' => k <= WindowSize
      <3>1. k \in Nat /\ (k > WindowSize => overrun')
        BY <1>2, ReplyTaken DEF ReceiveReply
      <3>2. QED
        BY <3>1, SizesAssumption
    <2>3. ASSUME ~pieced'
          PROVE  /\ \A i \in DOMAIN cidList' : cidList'[i] = cidList'[1] + i - 1
                 /\ nextChunkToRequest' = cidList'[1] + WindowSize
                 /\ Len(cidList') <= WindowSize
                 /\ Len(cidList') = WindowSize \/ cidList'[1] + Len(cidList') = NumChunks
      <3>1. /\ cidList' \in Seq(Cids) /\ Len(cidList') = NumToReceive
            /\ NumToReceive \in 1 .. WindowSize
            /\ \A i \in 1 .. NumToReceive : cidList'[i] = nextChunkToRequest + i - 1
            /\ NumToReceive = WindowSize \/ nextChunkToRequest + NumToReceive = NumChunks
        BY <1>2, <2>3, WholeReply, ReplyShape DEF ReceiveReply
      <3>2. cidList'[1] = nextChunkToRequest /\ DOMAIN cidList' = 1 .. NumToReceive
        BY <3>1, LenProperties
      <3>3. nextChunkToRequest' = nextChunkToRequest + WindowSize
        BY <1>2 DEF ReceiveReply
      <3>4. QED
        BY <3>1, <3>2, <3>3, SizesAssumption
    <2>4. WindowShape'
      BY <1>2, <2>1, <2>2, <2>3 DEF ReceiveReply
    <2>5. FlagMeansNoneLeft' /\ ReadIndexOK'
      BY <1>2 DEF ReceiveReply
    <2>6. QED
      BY <2>4, <2>5
  <1>3. CASE ReceivePartOfCid \/ OverrunStatuses
    BY <1>3 DEF ReceivePartOfCid, OverrunStatuses
  <1>4. CASE ReceiveNothing \/ RequestChunks \/ KeepWaiting
    <2>1. CASE ReceiveNothing
      BY <2>1 DEF ReceiveNothing
    <2>2. CASE RequestChunks
      BY <2>2 DEF RequestChunks
    <2>3. CASE KeepWaiting
      BY <2>3 DEF KeepWaiting
    <2>4. QED
      BY <1>4, <2>1, <2>2, <2>3
  <1>5. CASE ChunksReady
    <2>1. Len(cidList) \in Nat \ {0}
      BY <1>5, EmptySeq DEF ChunksReady
    <2>2. QED
      BY <1>5, <2>1 DEF ChunksReady
  <1>6. CASE RequestFails \/ WaitedTooLong
    BY <1>6 DEF RequestFails, WaitedTooLong
  <1>7. CASE ReadChunk
    <2>1. CASE readIndex < Len(cidList)
      BY <1>7, <2>1 DEF ReadChunk
    <2>2. CASE ~(readIndex < Len(cidList))
      BY <1>7, <2>2 DEF ReadChunk
    <2>3. QED
      BY <2>1, <2>2
  <1>8. CASE ReadFails
    BY <1>8 DEF ReadFails
  <1>9. CASE /\ UNCHANGED <<fetcherPc, windowVars, reachedEndOfFile, overrun>>
             /\ pieced => pieced'
    BY <1>9
  <1>10. Player \/ StopPlaying \/ Network =>
          /\ UNCHANGED <<fetcherPc, windowVars, reachedEndOfFile, overrun>>
          /\ pieced => pieced'
    BY DEF Player, Network, PlayerStep, TestStep, NetworkStep, Call, ReturnNull,
           TestSize, TestFlag, Recheck, Front, PopAndReturn, StopPlaying, Bring,
           LoseConnection, RemoveChunk
  <1>11. QED
    BY <1>1, <1>2, <1>3, <1>4, <1>5, <1>6, <1>7, <1>8, <1>9, <1>10
       DEF Next, Fetcher, vars

\* Every step keeps what the player has tested: the fetcher only pushes and
\* only sets the flag, so it cannot make a test of the player stale.
LEMMA PlayerStepLemma == IInv /\ [Next]_vars => PlayerTestsHold'
  <1> SUFFICES ASSUME IInv, [Next]_vars PROVE PlayerTestsHold'
    OBVIOUS
  <1> USE DEF IInv, TypeOK, PlayerTestsHold, FrontIsPopped
  <1>1. CASE ReadChunk
    <2> DEFINE c == cidList[readIndex]
    <2>1. c \in Cids /\ chunkQueue \in Seq(Cids)
      BY <1>1, PushedType DEF ReadChunk
    <2>2. Append(chunkQueue, c) # << >>
      BY ONLY <2>1, AppendProperties
    <2>3. chunkQueue # << >> => Head(Append(chunkQueue, c)) = Head(chunkQueue)
      BY <2>1, HeadTailAppend
    <2>4. QED
      BY <1>1, <2>1, <2>2, <2>3 DEF ReadChunk, playerVars
  <1>2. CASE Player
    <2>1. CASE Call \/ TestFlag \/ Recheck
      BY <1>2, <2>1 DEF PlayerStep, TestStep, Call, TestFlag, Recheck
    <2>2. CASE ReturnNull
      BY <2>2 DEF PlayerStep, ReturnNull
    <2>3. CASE TestSize
      BY <2>3 DEF PlayerStep, TestStep, TestSize
    <2>4. CASE Front
      BY <2>4 DEF PlayerStep, Front
    <2>5. CASE PopAndReturn
      BY <2>5 DEF PlayerStep, PopAndReturn
    <2>6. QED
      BY <1>2, <2>1, <2>2, <2>3, <2>4, <2>5 DEF Player
  <1>3. CASE StopPlaying
    BY <1>3 DEF StopPlaying, TestStep, PlayerStep
  <1>4. CASE ReachEndOfFile
    BY <1>4 DEF ReachEndOfFile, playerVars
  <1>5. CASE UNCHANGED <<sharedVars, playerVars>>
    BY <1>5 DEF sharedVars, playerVars
  <1>6. Fetcher => ReadChunk \/ ReachEndOfFile \/ UNCHANGED <<sharedVars, playerVars>>
    BY DEF Fetcher, FetcherStep, StreamStep, StartWindow, Terminate, SendBlock,
           ConnectionError, ReceiveReply, ReceivePartOfCid, OverrunStatuses,
           ReceiveNothing, RequestChunks,
           ChunksReady, KeepWaiting, RequestFails, WaitedTooLong, ReadFails
  <1>7. Network => UNCHANGED <<sharedVars, playerVars>>
    BY DEF Network, NetworkStep, Bring, LoseConnection, RemoveChunk
  <1>8. QED
    BY <1>1, <1>2, <1>3, <1>4, <1>5, <1>6, <1>7 DEF Next, vars

\* What the failed reads leave behind is not negative, and grows with them.
LEMMA LeftBehind ==
  ASSUME NEW n \in Nat, NEW m \in Nat, n <= m
  PROVE  /\ n * (WindowSize - 1) \in Nat
         /\ (n + 1) * (WindowSize - 1) = n * (WindowSize - 1) + (WindowSize - 1)
         /\ n * (WindowSize - 1) <= m * (WindowSize - 1)
  <1>1. WindowSize - 1 \in Nat
    BY SizesAssumption
  <1>2. \A k \in Nat : n * k \in Nat /\ (n + 1) * k = n * k + k /\ n * k <= m * k
    OBVIOUS
  <1>3. QED
    BY <1>1, <1>2

\* A list too long is remembered, and so is a reply in pieces.
LEMMA OverrunStays ==
  TypeOK /\ [Next]_vars => (overrun => overrun') /\ (pieced => pieced')
  BY DEF TypeOK, Next, Fetcher, Player, Network, vars, replyVars, FetcherStep, StreamStep,
     PlayerStep, TestStep, NetworkStep, StartWindow, Terminate, ReachEndOfFile,
     SendBlock, ConnectionError, ReceiveReply, ReceivePartOfCid, OverrunStatuses,
     ReceiveNothing, RequestChunks, ChunksReady, KeepWaiting, RequestFails,
     WaitedTooLong, ReadChunk, ReadFails, Call, ReturnNull, TestSize, TestFlag,
     Recheck, Front, PopAndReturn, StopPlaying, Bring, LoseConnection, RemoveChunk

\* Every step keeps the queue within the room that the threshold, the windows
\* and the failed reads give it.
LEMMA QueueRoomStep == IInv /\ [Next]_vars => QueueRoom'
  <1> SUFFICES ASSUME IInv, [Next]_vars, ~overrun' PROVE QueueRoom'
    BY DEF QueueRoom
  <1> DEFINE Left == readFaults * (WindowSize - 1)
  <1>1. /\ Left \in Nat /\ Len(chunkQueue) \in Nat /\ InHand \in Nat
        /\ WindowSize \in Nat \ {0} /\ QueueThreshold \in Nat \ {0}
        /\ Len(chunkQueue) <= QueueThreshold - 1 + Left + InHand /\ ~overrun
    <2>1. ~overrun
      BY OverrunStays DEF IInv
    <2>2. QED
      BY <2>1, SizesAssumption, LeftBehind DEF IInv, TypeOK, QueueRoom, InHand
  <1>2. CASE ReadChunk
    <2>1. Len(chunkQueue') = Len(chunkQueue) + 1 /\ Left' = Left
      BY <1>2, PushedType, AppendProperties DEF ReadChunk, networkVars, IInv, TypeOK
    <2>2. InHand + 1 <= InHand'
      BY <1>1, <1>2, SizesAssumption
         DEF ReadChunk, InHand, ReadIndexOK, WindowShape, InWindow, IInv, TypeOK
    <2>3. InHand' \in Nat
      BY <1>2, SizesAssumption DEF ReadChunk, InHand, IInv, TypeOK
    <2>4. QED
      BY <1>1, <2>1, <2>2, <2>3 DEF QueueRoom
  <1>3. CASE PopAndReturn
    <2>1. Len(chunkQueue') = Len(chunkQueue) - 1
      BY <1>3, HeadTailProperties
         DEF PopAndReturn, PlayerStep, PlayerTestsHold, FrontIsPopped, IInv, TypeOK
    <2>2. Left' = Left /\ InHand' = InHand
      BY <1>3 DEF PopAndReturn, PlayerStep, networkVars, windowVars, InHand
    <2>3. QED
      BY <1>1, <2>1, <2>2 DEF QueueRoom
  <1>4. CASE ReadFails
    <2>1. chunkQueue' = chunkQueue /\ InHand' = 0 /\ readFaults' = readFaults + 1
      BY <1>4 DEF ReadFails, sharedVars, InHand
    <2>2. Left' = Left + (WindowSize - 1)
      BY <2>1, LeftBehind, SizesAssumption DEF IInv, TypeOK
    <2>3. InHand <= WindowSize - 1
      BY <1>1, <1>4, SizesAssumption
         DEF ReadFails, InHand, ReadIndexOK, WindowShape, InWindow, IInv, TypeOK
    <2>4. QED
      BY <1>1, <2>1, <2>2, <2>3 DEF QueueRoom
  <1>5. CASE StartWindow
    <2>1. /\ chunkQueue' = chunkQueue /\ Left' = Left /\ InHand' = 0
          /\ Len(chunkQueue) < QueueThreshold
      BY <1>5 DEF StartWindow, FetcherStep, StreamStep, sharedVars, networkVars, windowVars,
                  InHand, ReadIndexOK, IInv
    <2>2. QED
      BY <1>1, <2>1 DEF QueueRoom
  <1>6. CASE Terminate \/ ReachEndOfFile \/ SendBlock \/ ConnectionError
             \/ (\E k \in 1 .. Len(arriving) : ReceiveReply(k)) \/ ReceivePartOfCid
             \/ OverrunStatuses \/ ReceiveNothing \/ RequestChunks \/ ChunksReady
             \/ KeepWaiting \/ RequestFails \/ WaitedTooLong
    <2>1. chunkQueue' = chunkQueue /\ Left' = Left
      BY <1>6 DEF FetcherStep, StreamStep, sharedVars, networkVars, Terminate,
                  ReachEndOfFile, SendBlock, ConnectionError, ReceiveReply,
                  ReceivePartOfCid, OverrunStatuses, ReceiveNothing, RequestChunks,
                  ChunksReady, KeepWaiting, RequestFails, WaitedTooLong
    <2>2. InHand' \in Nat /\ InHand <= InHand'
      <3>1. ReadIndexOK
        BY DEF IInv
      <3>2. CASE Terminate \/ ReachEndOfFile \/ SendBlock \/ ConnectionError
        BY <3>1, <3>2, <1>1 DEF FetcherStep, StreamStep, windowVars, Terminate, ReachEndOfFile,
           SendBlock, ConnectionError, InHand, ReadIndexOK
      <3>3. CASE \/ \E k \in 1 .. Len(arriving) : ReceiveReply(k)
                 \/ ReceiveNothing \/ RequestChunks \/ ChunksReady \/ KeepWaiting
        BY <3>1, <3>3, <1>1 DEF FetcherStep, StreamStep, ReceiveReply, ReceiveNothing,
           RequestChunks, ChunksReady, KeepWaiting, InHand, ReadIndexOK
      <3>4. CASE RequestFails \/ WaitedTooLong
        BY <3>1, <3>4, <1>1 DEF FetcherStep, StreamStep, RequestFails, WaitedTooLong, InHand,
           ReadIndexOK
      <3>5. CASE ReceivePartOfCid \/ OverrunStatuses
        BY <3>1, <3>5, <1>1 DEF StreamStep, windowVars, ReceivePartOfCid,
           OverrunStatuses, InHand, ReadIndexOK
      <3>6. QED
        BY <1>6, <3>2, <3>3, <3>4, <3>5
    <2>3. QED
      BY <1>1, <2>1, <2>2 DEF QueueRoom
  <1>7. CASE Call \/ ReturnNull \/ TestSize \/ TestFlag \/ Recheck \/ Front
             \/ StopPlaying \/ Network \/ UNCHANGED vars
    <2>1. UNCHANGED <<fetcherPc, windowVars, chunkQueue, readFaults>>
      BY <1>7 DEF Network, PlayerStep, TestStep, NetworkStep, Call, ReturnNull,
         TestSize, TestFlag, Recheck, Front, StopPlaying, Bring, LoseConnection,
         RemoveChunk, vars, networkVars, sharedVars
    <2>2. QED
      BY <1>1, <2>1 DEF QueueRoom, InHand, windowVars
  <1>8. QED
    BY <1>2, <1>3, <1>4, <1>5, <1>6, <1>7 DEF Next, Fetcher, Player

\* A step of the fetcher that gets it no CIDs: it waits no longer for a reply, or
\* cannot go on.
GivesUp ==
  /\ ~InWindow /\ ~InWindow' /\ fetcherPc' # "reply"
  /\ UNCHANGED <<placed, readFaults, connected, arriving>>
  /\ pieced => pieced'
  /\ \/ Asked' = Asked /\ nextChunkToRequest' = nextChunkToRequest
     \/ Asked' = Asked + WindowSize /\ ~connected /\ nextChunkToRequest' = nextChunkToRequest
     \/ /\ Asked' = Asked /\ ~connected /\ arriving = << >>
        /\ nextChunkToRequest' = nextChunkToRequest + WindowSize
  /\ ~pieced' /\ fetcherPc' # "exited" => arriving = << >>

\* A step that leaves alone what has been asked for, what arrives and what is placed.
Quiet ==
  /\ UNCHANGED <<nextChunkToRequest, placed, readFaults, connected, arriving, pieced>>
  /\ InWindow' <=> InWindow
  /\ InWindow => UNCHANGED <<cidList, readIndex>>
  /\ \/ fetcherPc' = fetcherPc
     \/ {fetcherPc, fetcherPc'} \cap {"reply", "stuck", "exited"} = {}

\* A step either disturbs what is asked for, arriving or placed in one of five ways,
\* or gives up, or is quiet.
LEMMA StepKinds ==
  ASSUME IInv, [Next]_vars
  PROVE  \/ SendBlock \/ (\E k \in 1 .. Len(arriving) : ReceiveReply(k))
         \/ ReadChunk \/ ReadFails \/ LoseConnection \/ GivesUp \/ Quiet
  <1> USE DEF InWindow, FetcherStep, StreamStep, windowVars, sharedVars, networkVars,
              replyVars
  <1>1. CASE StartWindow \/ Terminate \/ ReachEndOfFile
    <2>1. Quiet
      BY <1>1 DEF StartWindow, Terminate, ReachEndOfFile, Quiet
    <2>2. QED
      BY <2>1
  <1>2. CASE RequestChunks \/ KeepWaiting \/ RequestFails \/ WaitedTooLong \/ ChunksReady
    <2>1. CASE RequestChunks
      BY <2>1 DEF RequestChunks, Quiet
    <2>2. CASE KeepWaiting
      BY <2>2 DEF KeepWaiting, Quiet
    <2>3. CASE RequestFails \/ WaitedTooLong
      BY <2>3 DEF RequestFails, WaitedTooLong, Failover, Quiet
    <2>4. CASE ChunksReady
      BY <2>4 DEF ChunksReady, Quiet, IInv, ReadIndexOK
    <2>5. QED
      BY <1>2, <2>1, <2>2, <2>3, <2>4
  <1>3. Player \/ StopPlaying =>
          UNCHANGED <<fetcherPc, windowVars, networkVars, replyVars, placed>>
    BY DEF Player, PlayerStep, TestStep, Call, ReturnNull, TestSize, TestFlag, Recheck,
       Front, PopAndReturn, StopPlaying
  <1>4. CASE Player \/ StopPlaying \/ UNCHANGED vars
    <2>1. UNCHANGED <<fetcherPc, windowVars, networkVars, replyVars, placed>>
      BY <1>3, <1>4 DEF vars
    <2>2. Quiet
      BY <2>1 DEF Quiet
    <2>3. QED
      BY <2>2
  <1>5. CASE Network /\ ~LoseConnection
    <2>1. UNCHANGED <<fetcherPc, windowVars, sharedVars, readFaults, connected, replyVars>>
      BY <1>5 DEF Network, NetworkStep, Bring, RemoveChunk
    <2>2. Quiet
      BY <2>1 DEF Quiet
    <2>3. QED
      BY <2>2
  <1>6. CASE ReceiveNothing
    <2>1. Asked' = Asked
      BY <1>6 DEF ReceiveNothing, Asked
    <2>2. GivesUp
      BY <1>6, <2>1 DEF ReceiveNothing, GivesUp
    <2>3. QED
      BY <2>2
  <1>7. CASE ConnectionError
    <2>1. CASE FetcherStep("reply", "exited")
      <3>1. GivesUp
        BY <1>7, <2>1 DEF ConnectionError, GivesUp, Asked
      <3>2. QED
        BY <3>1
    <2>2. CASE FetcherStep("retrieve", "exited")
      <3>1. Asked' = Asked + WindowSize
        BY <1>7, <2>2 DEF ConnectionError, Asked
      <3>2. GivesUp
        BY <1>7, <2>2, <3>1 DEF ConnectionError, GivesUp
      <3>3. QED
        BY <3>2
    <2>3. QED
      BY <1>7, <2>1, <2>2 DEF ConnectionError
  <1>8. CASE ReceivePartOfCid \/ OverrunStatuses
    <2>1. Asked' = Asked
      BY <1>8 DEF ReceivePartOfCid, OverrunStatuses, Asked
    <2>2. GivesUp
      BY <1>8, <2>1 DEF ReceivePartOfCid, OverrunStatuses, GivesUp
    <2>3. QED
      BY <2>2
  <1>9. QED
    BY <1>1, <1>2, <1>4, <1>5, <1>6, <1>7, <1>8 DEF Next, Fetcher

\* The request for the block "a:b": from an idle stream while replies come whole.
LEMMA BlockAsked ==
  ASSUME IInv, SendBlock
  PROVE  /\ ~InWindow /\ ~InWindow' /\ fetcherPc = "retrieve" /\ fetcherPc' = "reply"
         /\ UNCHANGED <<nextChunkToRequest, placed, readFaults, connected, pieced>>
         /\ Asked = nextChunkToRequest /\ Asked' = nextChunkToRequest + WindowSize
         /\ nextChunkToRequest < NumChunks
         /\ \/ arriving' = arriving \o Block
            \/ arriving' = arriving /\ (~connected \/ pieced)
         /\ ~pieced => arriving = << >>
  <1>1. /\ fetcherPc = "retrieve" /\ fetcherPc' = "reply"
        /\ UNCHANGED <<nextChunkToRequest, placed, readFaults, connected, pieced>>
        /\ nextChunkToRequest < NumChunks
    BY DEF SendBlock, StreamStep, windowVars, sharedVars, networkVars
  <1>2. ~pieced => arriving = << >>
    BY <1>1 DEF IInv, OneReplyArrives
  <1>3. ReplyAwaited => pieced
    BY <1>2 DEF ReplyAwaited
  <1>4. QED
    BY <1>1, <1>2, <1>3 DEF SendBlock, InWindow, Asked

\* While replies come whole, only the one that is waited for arrives.
LEMMA OneReplyStep == IInv /\ [Next]_vars => OneReplyArrives'
  <1> SUFFICES ASSUME IInv, [Next]_vars, ~pieced' PROVE OneReplyArrives'
    BY DEF OneReplyArrives
  <1>1. ~pieced
    BY OverrunStays DEF IInv
  <1>2. nextChunkToRequest' = nextChunkToRequest => Block' = Block
    BY DEF Block, NumToReceive
  <1>3. CASE SendBlock
    <2>1. arriving = << >> /\ nextChunkToRequest < NumChunks
      BY <1>1, <1>3, BlockAsked
    <2>2. arriving \o Block = Block
      BY <2>1, ReplyFollows DEF IInv
    <2>3. QED
      BY <1>1, <1>2, <1>3, <2>1, <2>2, BlockAsked DEF OneReplyArrives
  <1>4. ASSUME NEW k \in 1 .. Len(arriving), ReceiveReply(k) PROVE OneReplyArrives'
    BY <1>4, WholeReply DEF ReceiveReply, StreamStep, OneReplyArrives
  <1>5. CASE ReadChunk \/ ReadFails
    BY <1>1, <1>5 DEF ReadChunk, ReadFails, replyVars, IInv, OneReplyArrives
  <1>6. CASE LoseConnection
    <2>1. PICK k \in 0 .. Len(arriving) : /\ arriving' = SubSeq(arriving, 1, k)
                                          /\ pieced' = (pieced \/ k \notin {0, Len(arriving)})
      BY <1>6 DEF LoseConnection
    <2>2. k = 0 \/ k = Len(arriving)
      BY <2>1
    <2>3. arriving' = << >> \/ arriving' = arriving
      BY <2>1, <2>2, FirstPart DEF IInv, TypeOK
    <2>4. UNCHANGED <<fetcherPc, nextChunkToRequest>> /\ ~connected'
      BY <1>6 DEF LoseConnection, NetworkStep, windowVars
    <2>5. QED
      BY <1>1, <1>2, <2>3, <2>4 DEF IInv, OneReplyArrives
  <1>7. CASE GivesUp
    BY <1>7 DEF GivesUp, OneReplyArrives
  <1>8. CASE Quiet
    BY <1>1, <1>2, <1>8 DEF Quiet, IInv, OneReplyArrives
  <1>9. QED
    BY <1>3, <1>4, <1>5, <1>6, <1>7, <1>8, StepKinds

\* A push adds the next chunk of the window to what has been placed; the last one ends
\* the window.
LEMMA PlacedByPush ==
  ASSUME IInv, ReadChunk
  PROVE  /\ cidList[readIndex] \in Cids /\ readIndex \in 1 .. Len(cidList)
         /\ Len(cidList) \in Nat /\ DOMAIN cidList = 1 .. Len(cidList)
         /\ Len(placed) \in Nat /\ Len(placed') = Len(placed) + 1
         /\ DOMAIN placed = 1 .. Len(placed) /\ DOMAIN placed' = 1 .. Len(placed) + 1
         /\ placed'[Len(placed) + 1] = cidList[readIndex]
         /\ \A i \in 1 .. Len(placed) : placed'[i] = placed[i]
         /\ UNCHANGED <<nextChunkToRequest, cidList, readFaults, connected, arriving, pieced>>
         /\ InWindow /\ Asked = nextChunkToRequest /\ Asked' = nextChunkToRequest
         /\ \/ /\ InWindow' /\ readIndex' = readIndex + 1 /\ readIndex < Len(cidList)
            \/ ~InWindow' /\ readIndex = Len(cidList)
  <1>1. cidList[readIndex] \in Cids /\ placed \in Seq(Cids) /\ cidList \in Seq(Cids)
    BY PushedType DEF IInv, TypeOK, ReadChunk
  <1>2. placed' = Append(placed, cidList[readIndex])
    BY DEF ReadChunk
  <1>3. /\ Len(cidList) \in Nat /\ DOMAIN cidList = 1 .. Len(cidList)
        /\ Len(placed) \in Nat /\ DOMAIN placed = 1 .. Len(placed)
    BY <1>1, LenProperties
  <1>4. readIndex \in 1 .. Len(cidList)
    BY <1>3 DEF IInv, TypeOK, ReadIndexOK, ReadChunk
  <1>5. /\ Len(placed') = Len(placed) + 1 /\ placed'[Len(placed) + 1] = cidList[readIndex]
        /\ \A i \in 1 .. Len(placed) : placed'[i] = placed[i]
        /\ placed' \in Seq(Cids)
    BY <1>1, <1>2, AppendProperties
  <1>6. DOMAIN placed' = 1 .. Len(placed) + 1
    BY <1>5, LenProperties
  <1>7. /\ UNCHANGED <<nextChunkToRequest, cidList, readFaults, connected, arriving, pieced>>
        /\ InWindow /\ Asked = nextChunkToRequest /\ Asked' = nextChunkToRequest
    BY DEF ReadChunk, networkVars, replyVars, InWindow, Asked
  <1>8. \/ /\ InWindow' /\ readIndex' = readIndex + 1 /\ readIndex < Len(cidList)
        \/ ~InWindow' /\ readIndex = Len(cidList)
    <2>1. CASE readIndex < Len(cidList)
      BY <2>1 DEF ReadChunk, InWindow
    <2>2. CASE ~(readIndex < Len(cidList))
      <3> DEFINE w == Len(cidList)
      <3>1. readIndex \in 1 .. w /\ w \in Nat /\ ~(readIndex < w)
        BY <1>3, <1>4, <2>2
      <3> HIDE DEF w
      <3>3. readIndex = w
        BY <3>1
      <3>2. ~InWindow'
        BY <2>2 DEF ReadChunk, InWindow
      <3>4. QED
        BY <3>2, <3>3 DEF w
    <2>3. QED
      BY <2>1, <2>2
  <1>9. QED
    BY <1>1, <1>3, <1>4, <1>5, <1>6, <1>7, <1>8

\* A lost connection takes away from the end of what arrives, and changes nothing else
\* of the fetcher.
LEMMA FirstPartArrives ==
  ASSUME IInv, LoseConnection
  PROVE  /\ UNCHANGED <<fetcherPc, nextChunkToRequest, cidList, readIndex, placed, readFaults>>
         /\ ~connected' /\ (pieced => pieced')
         /\ \E k \in 0 .. Len(arriving) :
              /\ DOMAIN arriving' = 1 .. k /\ DOMAIN arriving = 1 .. Len(arriving)
              /\ Len(arriving) \in Nat
              /\ \A i \in 1 .. k : arriving'[i] = arriving[i]
              /\ ~pieced' => arriving' = << >> \/ arriving' = arriving
  <1>1. PICK k \in 0 .. Len(arriving) : /\ arriving' = SubSeq(arriving, 1, k)
                                        /\ pieced' = (pieced \/ k \notin {0, Len(arriving)})
    BY DEF LoseConnection
  <1>2. /\ DOMAIN arriving' = 1 .. k /\ \A i \in 1 .. k : arriving'[i] = arriving[i]
        /\ k = 0 => arriving' = << >>
        /\ k = Len(arriving) => arriving' = arriving
    BY <1>1, FirstPart DEF IInv, TypeOK
  <1>3. DOMAIN arriving = 1 .. Len(arriving) /\ Len(arriving) \in Nat
    BY LenProperties DEF IInv, TypeOK
  <1>4. ~pieced' => k = 0 \/ k = Len(arriving)
    BY <1>1
  <1>5. /\ UNCHANGED <<fetcherPc, nextChunkToRequest, cidList, readIndex, placed, readFaults>>
        /\ ~connected'
    BY DEF LoseConnection, NetworkStep, windowVars, sharedVars
  <1>6. pieced => pieced'
    BY <1>1
  <1>7. QED
    BY <1>2, <1>3, <1>4, <1>5, <1>6

\* What is asked for is a number.
LEMMA AskedType ==
  TypeOK => nextChunkToRequest \in Nat /\ Asked \in Nat /\ WindowSize \in Nat \ {0}
  BY SizesAssumption DEF TypeOK, Asked

\* CIDs are numbers.
LEMMA CidsAreNumbers ==
  TypeOK => /\ \A i \in DOMAIN placed : placed[i] \in Nat
            /\ \A i \in DOMAIN arriving : arriving[i] \in Nat
            /\ \A i \in DOMAIN cidList : cidList[i] \in Nat
  <1>1. ASSUME NEW l \in Seq(Cids), NEW i \in DOMAIN l PROVE l[i] \in Nat
    <2>1. l[i] \in Cids
      BY <1>1, LenProperties, ElementOfSeq
    <2>2. QED
      BY <2>1 DEF Cids
  <1>2. QED
    BY <1>1 DEF TypeOK

\* Everything is asked for, arrives and is placed in the order of the list.
LEMMA OrderStep == IInv /\ [Next]_vars => OrderKept'
  <1> SUFFICES ASSUME IInv, [Next]_vars PROVE OrderKept'
    OBVIOUS
  <1>t. /\ nextChunkToRequest \in Nat /\ Asked \in Nat /\ WindowSize \in Nat \ {0}
        /\ \A i \in DOMAIN placed : placed[i] \in Nat
        /\ \A i \in DOMAIN arriving : arriving[i] \in Nat
        /\ \A i \in DOMAIN cidList : cidList[i] \in Nat
    BY AskedType, CidsAreNumbers DEF IInv
  <1>o. OrderKept
    BY DEF IInv
  <1>1. CASE SendBlock
    <2>1. /\ ~InWindow' /\ placed' = placed /\ Asked = nextChunkToRequest
          /\ Asked' = nextChunkToRequest + WindowSize
      BY <1>1, BlockAsked
    <2>2. CASE arriving' = arriving
      BY <1>t, <1>o, <2>1, <2>2 DEF OrderKept, Ascending, AllBelow
    <2>3. CASE arriving' = arriving \o Block
      <3> DEFINE n == Len(arriving)
                 m == NumToReceive
      <3>1. /\ DOMAIN arriving' = 1 .. n + m
            /\ \A i \in 1 .. n : arriving'[i] = arriving[i]
            /\ \A i \in 1 .. m : arriving'[n + i] = nextChunkToRequest + i - 1
            /\ m \in 1 .. WindowSize
        BY <1>1, <2>3, BlockAsked, ReplyFollows, ReplyShape DEF IInv
      <3>2. n \in Nat /\ DOMAIN arriving = 1 .. n
        BY LenProperties DEF IInv, TypeOK
      <3> HIDE DEF n, m
      <3>3. \A i \in 1 .. n : arriving'[i] < nextChunkToRequest /\ arriving'[i] \in Nat
        BY <1>t, <1>o, <2>1, <3>1, <3>2 DEF OrderKept
      <3>4. ASSUME NEW i \in 1 .. n + m, ~(i <= n)
            PROVE  arriving'[i] = nextChunkToRequest + (i - n) - 1 /\ i - n \in 1 .. m
        <4> DEFINE j == i - n
        <4>1. j \in 1 .. m /\ n + j = i
          BY <3>1, <3>2, <3>4
        <4>2. arriving'[n + j] = nextChunkToRequest + j - 1
          BY <3>1, <4>1
        <4>3. QED
          BY <4>1, <4>2
      <3>5. Ascending(arriving')
        <4> SUFFICES ASSUME NEW i \in 1 .. n + m, NEW j \in 1 .. n + m, i < j
                     PROVE  arriving'[i] < arriving'[j]
          BY <3>1 DEF Ascending
        <4>1. CASE j <= n
          <5>1. i \in 1 .. n /\ j \in 1 .. n
            BY <3>1, <3>2, <4>1
          <5>2. QED
            BY <1>o, <3>1, <3>2, <5>1 DEF OrderKept, Ascending
        <4>2. CASE ~(j <= n) /\ i <= n
          <5>1. arriving'[j] = nextChunkToRequest + (j - n) - 1 /\ j - n \in 1 .. m
            BY <3>4, <4>2
          <5>2. i \in 1 .. n
            BY <3>1, <3>2, <4>2
          <5>3. arriving'[i] < nextChunkToRequest /\ arriving'[i] \in Nat
            BY <3>3, <5>2
          <5>4. QED
            BY <1>t, <3>1, <3>2, <5>1, <5>3
        <4>3. CASE ~(j <= n) /\ ~(i <= n)
          <5>1. /\ arriving'[j] = nextChunkToRequest + (j - n) - 1
                /\ arriving'[i] = nextChunkToRequest + (i - n) - 1
            BY <3>4, <4>3
          <5>2. QED
            BY <1>t, <3>1, <3>2, <5>1
        <4>4. QED
          BY <4>1, <4>2, <4>3
      <3>6. \A i \in DOMAIN arriving' :
              /\ arriving'[i] < nextChunkToRequest + WindowSize
              /\ \A j \in DOMAIN placed : placed[j] < arriving'[i]
        <4> SUFFICES ASSUME NEW i \in 1 .. n + m
                     PROVE  /\ arriving'[i] < nextChunkToRequest + WindowSize
                            /\ \A j \in DOMAIN placed : placed[j] < arriving'[i]
          BY <3>1
        <4>1. CASE i <= n
          <5>1. i \in 1 .. n
            BY <3>1, <3>2, <4>1
          <5>2. QED
            BY <1>t, <1>o, <3>1, <3>2, <3>3, <5>1 DEF OrderKept, AllBelow
        <4>2. CASE ~(i <= n)
          <5>1. arriving'[i] = nextChunkToRequest + (i - n) - 1 /\ i - n \in 1 .. m
            BY <3>4, <4>2
          <5>2. \A j \in DOMAIN placed : placed[j] < nextChunkToRequest
            BY <1>o, <2>1 DEF OrderKept
          <5> DEFINE a == arriving'[i]
                     d == i - n
          <5>3. a = nextChunkToRequest + d - 1 /\ d \in 1 .. m
            BY <5>1
          <5> HIDE DEF a, d
          <5>4. a < nextChunkToRequest + WindowSize /\ nextChunkToRequest <= a /\ a \in Nat
            BY <1>t, <3>1, <5>3
          <5>5. \A j \in DOMAIN placed : placed[j] < a
            BY <1>t, <5>2, <5>4
          <5>6. QED
            BY <5>4, <5>5 DEF a
        <4>3. QED
          BY <4>1, <4>2
      <3>7. \A i \in DOMAIN placed : placed[i] < nextChunkToRequest + WindowSize
        BY <1>t, <1>o, <2>1 DEF OrderKept
      <3>8. QED
        BY <2>1, <3>5, <3>6, <3>7 DEF OrderKept, AllBelow
    <2>4. QED
      BY <1>1, <2>2, <2>3, BlockAsked
  <1>2. ASSUME NEW k \in 1 .. Len(arriving), ReceiveReply(k) PROVE OrderKept'
    <2> DEFINE n == Len(arriving)
    <2>1. /\ n \in Nat /\ k \in Nat \ {0} /\ k <= n /\ DOMAIN arriving = 1 .. n
          /\ DOMAIN cidList' = 1 .. k /\ \A i \in 1 .. k : cidList'[i] = arriving[i]
          /\ DOMAIN arriving' = 1 .. n - k
          /\ \A i \in 1 .. n - k : arriving'[i] = arriving[k + i]
          /\ Len(cidList') = k
      BY <1>2, ReplyTaken
    <2> HIDE DEF n
    <2>2. /\ placed' = placed /\ readFaults' = readFaults /\ readIndex' = 1
          /\ nextChunkToRequest' = Asked /\ Asked' = Asked
      BY <1>2 DEF ReceiveReply, StreamStep, sharedVars, networkVars, Asked, IInv, ReadIndexOK
    <2>3. /\ \A i, j \in 1 .. n : i < j => arriving[i] < arriving[j]
          /\ \A i \in 1 .. n : arriving[i] < Asked
          /\ \A i \in DOMAIN placed, j \in 1 .. n : placed[i] < arriving[j]
          /\ \A i \in DOMAIN placed : placed[i] < Asked
      BY <1>o, <2>1 DEF OrderKept, Ascending, AllBelow
    <2>4. \A i \in 1 .. n - k : k + i \in 1 .. n /\ (\A j \in 1 .. k : j < k + i /\ j \in 1 .. n)
      BY <2>1
    <2>5. \A i, j \in 1 .. n - k : i < j => k + i < k + j
      BY <2>1
    <2>6. /\ Ascending(arriving') /\ AllBelow(placed, arriving')
          /\ \A i \in DOMAIN arriving' : arriving'[i] < Asked
      BY <2>1, <2>3, <2>4, <2>5 DEF Ascending, AllBelow
    <2>7. \A j \in 1 .. k : j \in 1 .. n
      BY <2>1
    <2>8. /\ Ascending(cidList') /\ AllBelow(placed, cidList')
          /\ \A j \in DOMAIN cidList' : cidList'[j] < Asked
      BY <2>1, <2>3, <2>7 DEF Ascending, AllBelow
    <2>9. AllBelow(cidList', arriving')
      BY <2>1, <2>3, <2>4 DEF AllBelow
    <2>10. QED
      BY <2>1, <2>2, <2>3, <2>6, <2>8, <2>9 DEF OrderKept, AllBelow
  <1>3. CASE ReadChunk
    <2> DEFINE n == Len(placed)
               c == cidList[readIndex]
               w == Len(cidList)
    <2>1. /\ readIndex \in 1 .. w /\ w \in Nat /\ DOMAIN cidList = 1 .. w
          /\ n \in Nat /\ DOMAIN placed = 1 .. n /\ DOMAIN placed' = 1 .. n + 1
          /\ placed'[n + 1] = c /\ \A i \in 1 .. n : placed'[i] = placed[i]
          /\ UNCHANGED <<nextChunkToRequest, cidList, readFaults, arriving>>
          /\ InWindow /\ Asked = nextChunkToRequest /\ Asked' = nextChunkToRequest
          /\ InWindow' => readIndex' = readIndex + 1
      BY <1>3, PlacedByPush
    <2>2. /\ Ascending(cidList) /\ AllBelow(cidList, arriving)
          /\ \A j \in 1 .. w : cidList[j] < nextChunkToRequest
          /\ readFaults = 0 => \A i \in DOMAIN placed, j \in readIndex .. w :
                                 placed[i] < cidList[j]
      BY <1>o, <2>1 DEF OrderKept
    <2>3. c < nextChunkToRequest /\ \A j \in DOMAIN arriving : c < arriving[j]
      BY <2>1, <2>2 DEF AllBelow
    <2>4. \A j \in readIndex + 1 .. w : j \in 1 .. w /\ j \in readIndex .. w /\ c < cidList[j]
      BY <2>1, <2>2 DEF Ascending
    <2> HIDE DEF n, c, w
    <2>5. \A i \in 1 .. n + 1 : i \in 1 .. n \/ i = n + 1
      BY <2>1
    <2>6. \A i \in DOMAIN placed' : placed'[i] < nextChunkToRequest
      BY <1>o, <2>1, <2>3, <2>5 DEF OrderKept
    <2>7. AllBelow(placed', arriving)
      BY <1>o, <2>1, <2>3, <2>5 DEF OrderKept, AllBelow
    <2>8. readFaults = 0 => \A i \in DOMAIN placed', j \in readIndex + 1 .. w :
                              placed'[i] < cidList[j]
      BY <2>1, <2>2, <2>4, <2>5
    <2>9. QED
      BY <1>o, <2>1, <2>2, <2>6, <2>7, <2>8 DEF OrderKept, w
  <1>4. CASE ReadFails
    <2>1. /\ UNCHANGED <<placed, arriving, cidList, nextChunkToRequest>> /\ readFaults' # 0
          /\ InWindow /\ Asked' = Asked
      BY <1>4, SizesAssumption
         DEF ReadFails, Failover, sharedVars, replyVars, InWindow, Asked, IInv, TypeOK
    <2>2. QED
      BY <1>o, <2>1 DEF OrderKept
  <1>5. CASE LoseConnection
    <2>1. /\ UNCHANGED <<cidList, readIndex, placed, nextChunkToRequest, readFaults>>
          /\ (InWindow' <=> InWindow) /\ Asked' = Asked
      BY <1>5, FirstPartArrives DEF InWindow, Asked
    <2>2. PICK k \in 0 .. Len(arriving) :
            /\ DOMAIN arriving' = 1 .. k /\ DOMAIN arriving = 1 .. Len(arriving)
            /\ Len(arriving) \in Nat /\ \A i \in 1 .. k : arriving'[i] = arriving[i]
      BY <1>5, FirstPartArrives
    <2>3. \A i \in DOMAIN arriving' : i \in DOMAIN arriving /\ arriving'[i] = arriving[i]
      BY <2>2
    <2>4. /\ Ascending(arriving') /\ AllBelow(placed, arriving')
          /\ \A i \in DOMAIN arriving' : arriving'[i] < Asked
          /\ InWindow => AllBelow(cidList, arriving')
      BY <1>o, <2>3 DEF OrderKept, Ascending, AllBelow
    <2>5. QED
      BY <1>o, <2>1, <2>4 DEF OrderKept
  <1>6. CASE GivesUp
    <2>1. /\ ~InWindow' /\ placed' = placed /\ arriving' = arriving
          /\ Asked' \in {Asked, Asked + WindowSize}
      BY <1>6 DEF GivesUp
    <2>2. /\ \A i \in DOMAIN arriving : arriving[i] < Asked'
          /\ \A i \in DOMAIN placed : placed[i] < Asked'
      BY <1>t, <1>o, <2>1 DEF OrderKept
    <2>3. QED
      BY <1>o, <2>1, <2>2 DEF OrderKept
  <1>7. CASE Quiet
    <2>1. Asked' = Asked
      BY <1>7 DEF Quiet, Asked
    <2>2. QED
      BY <1>o, <1>7, <2>1 DEF Quiet, OrderKept
  <1>8. QED
    BY <1>1, <1>2, <1>3, <1>4, <1>5, <1>6, <1>7, StepKinds

\* A push leaves no chunk behind it out, and nothing else is ever placed.
LEMMA GapStep == IInv /\ [Next]_vars => NoGaps'
  <1> SUFFICES ASSUME IInv, [Next]_vars PROVE NoGaps'
    OBVIOUS
  <1>1. pieced => pieced'
    BY OverrunStays DEF IInv
  <1>2. CASE ReadChunk
    <2> DEFINE n == Len(placed)
               c == cidList[readIndex]
               w == Len(cidList)
    <2>1. /\ readIndex \in 1 .. w /\ w \in Nat /\ DOMAIN cidList = 1 .. w /\ c \in Cids
          /\ n \in Nat /\ DOMAIN placed = 1 .. n /\ DOMAIN placed' = 1 .. n + 1
          /\ placed'[n + 1] = c /\ \A i \in 1 .. n : placed'[i] = placed[i]
          /\ pieced' = pieced /\ InWindow
      BY <1>2, PlacedByPush
    <2>2. Free(c) \/ Placed(c - 1) \/ PredecessorIn(cidList, readIndex - 1, c)
      BY <2>1 DEF IInv, Linked
    <2>3. PredecessorIn(cidList, readIndex - 1, c) => Placed(c - 1)
      <3>1. \A j \in 1 .. readIndex - 1 : Placed(cidList[j])
        BY <2>1 DEF IInv, Linked
      <3>2. QED
        BY <3>1 DEF PredecessorIn
    <2> HIDE DEF n, c, w
    <2>4. ASSUME NEW i \in 1 .. n + 1,
                 placed'[i] > 0 /\ (pieced' => ~StartsWindow(placed'[i]))
          PROVE  \E j \in 1 .. i - 1 : placed'[j] = placed'[i] - 1
      <3>1. CASE i = n + 1
        <4>1. ~Free(c)
          BY <2>1, <2>4, <3>1 DEF Free, Cids
        <4>2. PICK j \in 1 .. n : placed[j] = c - 1
          BY <2>1, <2>2, <2>3, <4>1 DEF Placed
        <4>3. j \in 1 .. i - 1 /\ placed'[j] = c - 1
          BY <2>1, <3>1, <4>2
        <4>4. QED
          BY <2>1, <3>1, <4>3
      <3>2. CASE i # n + 1
        <4>1. i \in 1 .. n /\ placed'[i] = placed[i]
          BY <2>1, <3>2
        <4>2. PICK j \in 1 .. i - 1 : placed[j] = placed[i] - 1
          BY <2>1, <2>4, <4>1 DEF IInv, NoGaps, PlacedBefore
        <4>3. j \in 1 .. n
          BY <2>1, <4>1
        <4>4. QED
          BY <2>1, <4>1, <4>2, <4>3
      <3>3. QED
        BY <3>1, <3>2
    <2>5. QED
      BY <2>1, <2>4 DEF NoGaps, PlacedBefore, StartsWindow, n
  <1>3. CASE placed' = placed
    BY <1>1, <1>3 DEF IInv, NoGaps, PlacedBefore, StartsWindow
  <1>4. QED
    <2>1. PopAndReturn => placed' = placed
      BY DEF PopAndReturn, PlayerStep
    <2>2. QED
      BY <1>2, <1>3, <2>1, OnlyPushAndPop

\* c is an element of the list l.
In(c, l) == \E i \in DOMAIN l : l[i] = c

\* The CID before c has been placed, or none need be.
HasLink(c, l, p) == c = 0 \/ (p /\ StartsWindow(c)) \/ In(c - 1, l)

\* Pushing the chunk at readIndex places it, and unplaces none.
LEMMA PushPlaces ==
  ASSUME IInv, ReadChunk, NEW d
  PROVE  In(d, placed') <=> In(d, placed) \/ d = cidList[readIndex]
  <1> DEFINE n == Len(placed)
             c == cidList[readIndex]
  <1>1. /\ n \in Nat /\ DOMAIN placed = 1 .. n /\ DOMAIN placed' = 1 .. n + 1
        /\ placed'[n + 1] = c /\ \A i \in 1 .. n : placed'[i] = placed[i]
    BY PlacedByPush
  <1> HIDE DEF n, c
  <1>2. \A i \in 1 .. n + 1 : i \in 1 .. n \/ i = n + 1
    BY <1>1
  <1>3. n + 1 \in 1 .. n + 1 /\ \A i \in 1 .. n : i \in 1 .. n + 1
    BY <1>1
  <1>4. QED
    BY <1>1, <1>2, <1>3 DEF In, c

\* Linked, in terms of HasLink.
LEMMA LinkedNow ==
  ASSUME IInv
  PROVE  /\ StartsWindow(nextChunkToRequest)
         /\ InWindow =>
              /\ \A i \in 1 .. readIndex - 1 : In(cidList[i], placed)
              /\ \A i \in DOMAIN cidList :
                   \/ HasLink(cidList[i], placed, pieced)
                   \/ PredecessorIn(cidList, i - 1, cidList[i])
         /\ \A i \in DOMAIN arriving :
              \/ HasLink(arriving[i], placed, pieced)
              \/ InWindow /\ PredecessorIn(cidList, Len(cidList), arriving[i])
              \/ PredecessorIn(arriving, i - 1, arriving[i])
  BY DEF IInv, Linked, Free, Placed, HasLink, In

\* A push leaves every chunk of the window up to it placed.
LEMMA PushedSoFar ==
  ASSUME IInv, ReadChunk
  PROVE  \A i \in 1 .. readIndex : In(cidList[i], placed')
  <1> TAKE i \in 1 .. readIndex
  <1>1. readIndex \in Nat /\ InWindow
    BY PlacedByPush DEF IInv, TypeOK
  <1>2. CASE i = readIndex
    BY <1>2, PushPlaces
  <1>3. CASE i # readIndex
    <2>1. i \in 1 .. readIndex - 1
      BY <1>1, <1>3
    <2>2. In(cidList[i], placed)
      BY <1>1, <2>1, LinkedNow
    <2>3. QED
      BY <2>2, PushPlaces
  <1>4. QED
    BY <1>2, <1>3

\* The same after a step.
LEMMA LinkedNext ==
  ASSUME StartsWindow(nextChunkToRequest'),
         InWindow' => \A i \in 1 .. readIndex' - 1 : In(cidList'[i], placed'),
         InWindow' => \A i \in DOMAIN cidList' :
                        \/ HasLink(cidList'[i], placed', pieced')
                        \/ PredecessorIn(cidList', i - 1, cidList'[i]),
         \A i \in DOMAIN arriving' :
           \/ HasLink(arriving'[i], placed', pieced')
           \/ InWindow' /\ PredecessorIn(cidList', Len(cidList'), arriving'[i])
           \/ PredecessorIn(arriving', i - 1, arriving'[i])
  PROVE  Linked'
  BY DEF Linked, Free, Placed, HasLink, In, StartsWindow, PredecessorIn

\* Each CID on its way through a window to the queue stays behind the one before it.
LEMMA LinkStep == IInv /\ [Next]_vars => Linked'
  <1> SUFFICES ASSUME IInv, [Next]_vars PROVE Linked'
    OBVIOUS
  <1>l. /\ StartsWindow(nextChunkToRequest)
        /\ InWindow =>
             /\ \A i \in 1 .. readIndex - 1 : In(cidList[i], placed)
             /\ \A i \in DOMAIN cidList :
                  \/ HasLink(cidList[i], placed, pieced)
                  \/ PredecessorIn(cidList, i - 1, cidList[i])
        /\ \A i \in DOMAIN arriving :
             \/ HasLink(arriving[i], placed, pieced)
             \/ InWindow /\ PredecessorIn(cidList, Len(cidList), arriving[i])
             \/ PredecessorIn(arriving, i - 1, arriving[i])
    BY LinkedNow
  <1>p. pieced => pieced'
    BY OverrunStays DEF IInv
  <1>q. placed' = placed =>
          \A d : HasLink(d, placed, pieced) => HasLink(d, placed', pieced')
    BY <1>p DEF HasLink
  <1>n. nextChunkToRequest \in Nat /\ WindowSize \in Nat \ {0}
    BY AskedType DEF IInv
  <1>s. nextChunkToRequest' \in {nextChunkToRequest, nextChunkToRequest + WindowSize}
          => StartsWindow(nextChunkToRequest')
    BY <1>l, <1>n, WindowStarts
  <1>1. CASE SendBlock
    <2>1. /\ ~InWindow /\ ~InWindow' /\ Asked = nextChunkToRequest
          /\ UNCHANGED <<nextChunkToRequest, placed, connected, pieced>>
          /\ nextChunkToRequest < NumChunks
      BY <1>1, BlockAsked
    <2>3. StartsWindow(nextChunkToRequest')
      BY <1>s, <2>1
    <2>4. CASE arriving' = arriving
      BY <1>l, <2>1, <2>3, <2>4, LinkedNext
    <2>5. CASE arriving' = arriving \o Block /\ arriving' # arriving
      <3> DEFINE n == Len(arriving)
                 m == NumToReceive
                 q == nextChunkToRequest
      <3>1. /\ DOMAIN arriving' = 1 .. n + m
            /\ \A i \in 1 .. n : arriving'[i] = arriving[i]
            /\ \A i \in 1 .. m : arriving'[n + i] = q + i - 1
            /\ m \in 1 .. WindowSize
        BY <2>1, <2>5, ReplyFollows, ReplyShape DEF IInv
      <3>2. n \in Nat /\ DOMAIN arriving = 1 .. n /\ q \in Nat
        BY <1>n, LenProperties DEF IInv, TypeOK
      <3>3. q = 0 \/ pieced \/ In(q - 1, placed)
        <4>1. CASE q # 0 /\ ~pieced
          <5>1. arriving = << >>
            BY <1>1, <4>1, BlockAsked
          <5>2. q - 1 \in Cids /\ q - 1 < Asked
            BY <2>1, <3>2, <4>1, SizesAssumption DEF Cids
          <5>3. connected
            BY <1>1, <2>5 DEF SendBlock
          <5>4. Accounted(q - 1)
            BY <4>1, <5>2, <5>3 DEF IInv, OnlyWindowsLost, LostWithWindow
          <5>5. DOMAIN arriving = {}
            BY <5>1
          <5>6. QED
            BY <2>1, <5>4, <5>5 DEF Accounted, OnItsWay, Placed, In
        <4>2. QED
          BY <4>1
      <3>4. HasLink(q, placed', pieced')
        BY <1>l, <2>1, <3>3 DEF HasLink
      <3> HIDE DEF n, m, q
      <3>5. ASSUME NEW i \in 1 .. n + m
            PROVE  \/ HasLink(arriving'[i], placed', pieced')
                   \/ PredecessorIn(arriving', i - 1, arriving'[i])
        <4>1. CASE i <= n
          <5>1. i \in 1 .. n /\ arriving'[i] = arriving[i]
                /\ \A j \in 1 .. i - 1 : arriving'[j] = arriving[j]
            BY <3>1, <3>2, <4>1
          <5>2. \/ HasLink(arriving[i], placed, pieced)
                \/ PredecessorIn(arriving, i - 1, arriving[i])
            BY <1>l, <2>1, <3>2, <5>1
          <5>3. CASE HasLink(arriving[i], placed, pieced)
            BY <2>1, <5>1, <5>3
          <5>4. CASE PredecessorIn(arriving, i - 1, arriving[i])
            BY <5>1, <5>4 DEF PredecessorIn
          <5>5. QED
            BY <5>2, <5>3, <5>4
        <4>2. CASE i = n + 1
          <5>1. 1 \in 1 .. m /\ q + 1 - 1 = q
            BY <3>1, <3>2
          <5>2. arriving'[i] = q
            BY <3>1, <4>2, <5>1
          <5>3. QED
            BY <3>4, <5>2
        <4>3. CASE ~(i <= n) /\ i # n + 1
          <5> DEFINE d == i - n
                     e == d - 1
          <5>1. d \in 1 .. m /\ n + d = i /\ e \in 1 .. m /\ n + e = i - 1 /\ d \in Nat
            BY <3>1, <3>2, <4>3
          <5>2. arriving'[i] = q + d - 1 /\ arriving'[i - 1] = q + e - 1
            BY <3>1, <5>1
          <5>3. q + e - 1 = (q + d - 1) - 1 /\ i - 1 \in 1 .. i - 1
            BY <3>2, <5>1, <4>3
          <5>4. PredecessorIn(arriving', i - 1, arriving'[i])
            BY <5>2, <5>3 DEF PredecessorIn
          <5>5. QED
            BY <5>4
        <4>4. QED
          BY <4>1, <4>2, <4>3
      <3>6. QED
        BY <2>1, <2>3, <3>1, <3>5, LinkedNext
    <2>6. QED
      BY <1>1, <2>4, <2>5, BlockAsked
  <1>2. ASSUME NEW k \in 1 .. Len(arriving), ReceiveReply(k) PROVE Linked'
    <2> DEFINE n == Len(arriving)
    <2>1. /\ n \in Nat /\ k \in Nat \ {0} /\ k <= n /\ DOMAIN arriving = 1 .. n
          /\ DOMAIN cidList' = 1 .. k /\ \A i \in 1 .. k : cidList'[i] = arriving[i]
          /\ DOMAIN arriving' = 1 .. n - k
          /\ \A i \in 1 .. n - k : arriving'[i] = arriving[k + i]
          /\ Len(cidList') = k
      BY <1>2, ReplyTaken
    <2> HIDE DEF n
    <2>2. /\ placed' = placed /\ readIndex' = 1 /\ InWindow' /\ ~InWindow
          /\ nextChunkToRequest' = nextChunkToRequest + WindowSize
      BY <1>2 DEF ReceiveReply, StreamStep, sharedVars, InWindow, IInv, ReadIndexOK
    <2>3. \A i \in 1 .. n : \/ HasLink(arriving[i], placed', pieced')
                            \/ \E j \in 1 .. i - 1 : arriving[j] = arriving[i] - 1
      BY <1>l, <1>q, <2>1, <2>2 DEF PredecessorIn
    <2>5. ASSUME NEW i \in 1 .. k
          PROVE  \/ HasLink(cidList'[i], placed', pieced')
                 \/ PredecessorIn(cidList', i - 1, cidList'[i])
      <3>1. i \in 1 .. n /\ cidList'[i] = arriving[i]
            /\ \A j \in 1 .. i - 1 : cidList'[j] = arriving[j]
        BY <2>1
      <3>2. QED
        BY <2>3, <3>1 DEF PredecessorIn
    <2>6. ASSUME NEW i \in 1 .. n - k
          PROVE  \/ HasLink(arriving'[i], placed', pieced')
                 \/ PredecessorIn(cidList', Len(cidList'), arriving'[i])
                 \/ PredecessorIn(arriving', i - 1, arriving'[i])
      <3>1. k + i \in 1 .. n /\ arriving'[i] = arriving[k + i]
        BY <2>1
      <3>2. CASE HasLink(arriving[k + i], placed', pieced')
        BY <3>1, <3>2
      <3>3. CASE \E j \in 1 .. k + i - 1 : arriving[j] = arriving[k + i] - 1
        <4>1. PICK j \in 1 .. k + i - 1 : arriving[j] = arriving[k + i] - 1
          BY <3>3
        <4>2. CASE j <= k
          <5>1. j \in 1 .. k /\ cidList'[j] = arriving[j]
            BY <2>1, <4>2
          <5>2. QED
            BY <2>1, <3>1, <4>1, <5>1 DEF PredecessorIn
        <4>3. CASE ~(j <= k)
          <5> DEFINE e == j - k
          <5>1. e \in 1 .. i - 1 /\ e \in 1 .. n - k /\ k + e = j
            BY <2>1, <4>3
          <5> HIDE DEF e
          <5>2. arriving'[e] = arriving[j]
            BY <2>1, <5>1
          <5>3. QED
            BY <3>1, <4>1, <5>1, <5>2 DEF PredecessorIn
        <4>4. QED
          BY <4>2, <4>3
      <3>4. QED
        BY <2>3, <3>1, <3>2, <3>3
    <2>7. StartsWindow(nextChunkToRequest')
      BY <1>s, <2>2
    <2>8. 1 .. readIndex' - 1 = {}
      BY <2>2
    <2>9. QED
      BY <2>1, <2>2, <2>5, <2>6, <2>7, <2>8, LinkedNext
  <1>3. CASE ReadChunk
    <2> DEFINE c == cidList[readIndex]
               w == Len(cidList)
    <2>1. /\ readIndex \in 1 .. w /\ w \in Nat /\ DOMAIN cidList = 1 .. w
          /\ UNCHANGED <<nextChunkToRequest, cidList, arriving, pieced>> /\ InWindow
          /\ \/ InWindow' /\ readIndex' = readIndex + 1
             \/ ~InWindow' /\ readIndex = w
      BY <1>3, PlacedByPush
    <2>2. \A d : In(d, placed') <=> In(d, placed) \/ d = c
      BY <1>3, PushPlaces
    <2>4. \A i \in 1 .. readIndex : In(cidList[i], placed')
      BY <1>3, PushedSoFar
    <2>q. \A d : HasLink(d, placed, pieced) => HasLink(d, placed', pieced')
      BY <2>1, <2>2 DEF HasLink
    <2>5. InWindow' => \A i \in 1 .. readIndex' - 1 : In(cidList'[i], placed')
      <3>1. InWindow' => readIndex' - 1 = readIndex
        BY <2>1
      <3>2. QED
        BY <2>1, <2>4, <3>1
    <2>6. \A i \in DOMAIN cidList' : \/ HasLink(cidList'[i], placed', pieced')
                                     \/ PredecessorIn(cidList', i - 1, cidList'[i])
      BY <1>l, <2>1, <2>q
    <2>7. ASSUME NEW i \in DOMAIN arriving
          PROVE  \/ HasLink(arriving[i], placed', pieced')
                 \/ InWindow' /\ PredecessorIn(cidList, w, arriving[i])
                 \/ PredecessorIn(arriving, i - 1, arriving[i])
      <3>1. \/ HasLink(arriving[i], placed, pieced)
            \/ PredecessorIn(cidList, w, arriving[i])
            \/ PredecessorIn(arriving, i - 1, arriving[i])
        BY <1>l
      <3>2. ASSUME ~InWindow', PredecessorIn(cidList, w, arriving[i])
            PROVE  HasLink(arriving[i], placed', pieced')
        <4>1. PICK j \in 1 .. w : cidList[j] = arriving[i] - 1
          BY <3>2 DEF PredecessorIn
        <4>2. readIndex = w
          BY <2>1, <3>2
        <4>3. In(arriving[i] - 1, placed')
          BY <2>4, <4>1, <4>2
        <4>4. QED
          BY <4>3 DEF HasLink
      <3>3. QED
        BY <2>q, <3>1, <3>2
    <2>8. StartsWindow(nextChunkToRequest')
      BY <1>s, <2>1
    <2>9. QED
      BY <2>1, <2>5, <2>6, <2>7, <2>8, LinkedNext
  <1>4. CASE ReadFails
    <2>1. /\ UNCHANGED <<placed, arriving, cidList, nextChunkToRequest, pieced>>
          /\ InWindow /\ InWindow' /\ readIndex' = 1
      BY <1>4 DEF ReadFails, Failover, sharedVars, replyVars, InWindow
    <2>2. 1 .. readIndex' - 1 = {}
      BY <2>1
    <2>3. StartsWindow(nextChunkToRequest')
      BY <1>s, <2>1
    <2>4. QED
      BY <1>l, <2>1, <2>2, <2>3, LinkedNext
  <1>5. CASE LoseConnection
    <2>1. /\ UNCHANGED <<cidList, readIndex, placed, nextChunkToRequest>>
          /\ (InWindow' <=> InWindow)
      BY <1>5, FirstPartArrives DEF InWindow
    <2>2. PICK k \in 0 .. Len(arriving) :
            /\ DOMAIN arriving' = 1 .. k /\ DOMAIN arriving = 1 .. Len(arriving)
            /\ Len(arriving) \in Nat /\ \A i \in 1 .. k : arriving'[i] = arriving[i]
      BY <1>5, FirstPartArrives
    <2>3. \A i \in DOMAIN arriving' :
            /\ i \in DOMAIN arriving /\ arriving'[i] = arriving[i]
            /\ \A j \in 1 .. i - 1 : arriving'[j] = arriving[j]
      BY <2>2
    <2>5. StartsWindow(nextChunkToRequest')
      BY <1>s, <2>1
    <2>6. ASSUME NEW i \in DOMAIN arriving'
          PROVE  \/ HasLink(arriving'[i], placed', pieced')
                 \/ InWindow /\ PredecessorIn(cidList, Len(cidList), arriving'[i])
                 \/ PredecessorIn(arriving', i - 1, arriving'[i])
      <3>1. \/ HasLink(arriving[i], placed, pieced)
            \/ InWindow /\ PredecessorIn(cidList, Len(cidList), arriving[i])
            \/ PredecessorIn(arriving, i - 1, arriving[i])
        BY <1>l, <2>3
      <3>2. CASE HasLink(arriving[i], placed, pieced)
        BY <1>q, <2>1, <2>3, <3>2
      <3>3. CASE InWindow /\ PredecessorIn(cidList, Len(cidList), arriving[i])
        BY <2>3, <3>3
      <3>4. CASE PredecessorIn(arriving, i - 1, arriving[i])
        BY <2>3, <3>4 DEF PredecessorIn
      <3>5. QED
        BY <3>1, <3>2, <3>3, <3>4
    <2>7. InWindow =>
            /\ \A i \in 1 .. readIndex - 1 : In(cidList[i], placed')
            /\ \A i \in DOMAIN cidList :
                 \/ HasLink(cidList[i], placed', pieced')
                 \/ PredecessorIn(cidList, i - 1, cidList[i])
      BY <1>l, <1>q, <2>1
    <2>8. QED
      BY <2>1, <2>5, <2>6, <2>7, LinkedNext
  <1>6. CASE GivesUp
    <2>1. ~InWindow /\ ~InWindow' /\ placed' = placed /\ arriving' = arriving
          /\ nextChunkToRequest' \in {nextChunkToRequest, nextChunkToRequest + WindowSize}
      BY <1>6 DEF GivesUp
    <2>2. StartsWindow(nextChunkToRequest')
      BY <1>s, <2>1
    <2>3. \A i \in DOMAIN arriving : \/ HasLink(arriving[i], placed', pieced')
                                     \/ PredecessorIn(arriving, i - 1, arriving[i])
      BY <1>l, <1>q, <2>1
    <2>4. QED
      BY <2>1, <2>2, <2>3, LinkedNext
  <1>7. CASE Quiet
    <2>1. /\ UNCHANGED <<nextChunkToRequest, arriving, placed, pieced>>
          /\ (InWindow' <=> InWindow) /\ (InWindow => UNCHANGED <<cidList, readIndex>>)
      BY <1>7 DEF Quiet
    <2>2. StartsWindow(nextChunkToRequest')
      BY <1>s, <2>1
    <2>3. CASE InWindow
      <3>1. UNCHANGED <<nextChunkToRequest, arriving, placed, pieced, cidList, readIndex>>
            /\ InWindow'
        BY <2>1, <2>3
      <3>2. QED
        BY <1>l, <2>2, <2>3, <3>1, LinkedNext
    <2>4. CASE ~InWindow
      BY <1>l, <2>1, <2>2, <2>4, LinkedNext
    <2>5. QED
      BY <2>3, <2>4
  <1>8. QED
    BY <1>1, <1>2, <1>3, <1>4, <1>5, <1>6, <1>7, StepKinds

\* What is on its way, in terms of In.
LEMMA AccountedNow ==
  ASSUME NEW d
  PROVE  Accounted(d) <=>
           In(d, placed) \/ In(d, arriving) \/ (InWindow /\ In(d, cidList))
  BY DEF Accounted, Placed, OnItsWay, In

\* The same after a step.
LEMMA AccountedNext ==
  ASSUME NEW d
  PROVE  /\ Accounted(d)' =>
              In(d, placed') \/ In(d, arriving') \/ (InWindow' /\ In(d, cidList'))
         /\ In(d, placed') \/ In(d, arriving') \/ (InWindow' /\ In(d, cidList'))
              => Accounted(d)'
  BY DEF Accounted, Placed, OnItsWay, In

\* A window that is received was on its way, and a window that ends has been placed.
LEMMA SameAccounts ==
  ASSUME IInv, [Next]_vars, ~SendBlock, ~LoseConnection, NEW d
  PROVE  (Accounted(d)' => Accounted(d)) /\ (Accounted(d) => Accounted(d)')
  <1>1. ASSUME NEW k \in 1 .. Len(arriving), ReceiveReply(k)
        PROVE  (Accounted(d)' => Accounted(d)) /\ (Accounted(d) => Accounted(d)')
    <2> DEFINE n == Len(arriving)
    <2>1. /\ n \in Nat /\ k \in Nat \ {0} /\ k <= n /\ DOMAIN arriving = 1 .. n
          /\ DOMAIN cidList' = 1 .. k /\ \A i \in 1 .. k : cidList'[i] = arriving[i]
          /\ DOMAIN arriving' = 1 .. n - k
          /\ \A i \in 1 .. n - k : arriving'[i] = arriving[k + i]
      BY <1>1, ReplyTaken
    <2>2. placed' = placed /\ InWindow' /\ ~InWindow
      BY <1>1 DEF ReceiveReply, StreamStep, sharedVars, InWindow
    <2> HIDE DEF n
    <2>3. ASSUME In(d, arriving) PROVE In(d, arriving') \/ In(d, cidList')
      <3>1. PICK i \in 1 .. n : arriving[i] = d
        BY <2>1, <2>3 DEF In
      <3>2. CASE i <= k
        BY <2>1, <3>1, <3>2 DEF In
      <3>3. CASE ~(i <= k)
        <4> DEFINE j == i - k
        <4>1. j \in 1 .. n - k /\ k + j = i
          BY <2>1, <3>3
        <4> HIDE DEF j
        <4>2. arriving'[j] = d
          BY <2>1, <3>1, <4>1
        <4>3. QED
          BY <2>1, <4>1, <4>2 DEF In
      <3>4. QED
        BY <3>2, <3>3
    <2>4. ASSUME In(d, arriving') PROVE In(d, arriving)
      <3>1. PICK i \in 1 .. n - k : arriving'[i] = d
        BY <2>1, <2>4 DEF In
      <3>2. k + i \in 1 .. n /\ arriving[k + i] = d
        BY <2>1, <3>1
      <3>3. QED
        BY <2>1, <3>2 DEF In
    <2>5. ASSUME In(d, cidList') PROVE In(d, arriving)
      <3>1. PICK i \in 1 .. k : cidList'[i] = d
        BY <2>1, <2>5 DEF In
      <3>2. i \in 1 .. n /\ arriving[i] = d
        BY <2>1, <3>1
      <3>3. QED
        BY <2>1, <3>2 DEF In
    <2>6. QED
      BY <2>2, <2>3, <2>4, <2>5, AccountedNow, AccountedNext
  <1>2. CASE ReadChunk
    <2>1. /\ readIndex \in 1 .. Len(cidList) /\ DOMAIN cidList = 1 .. Len(cidList)
          /\ UNCHANGED <<cidList, arriving>> /\ InWindow
          /\ InWindow' \/ (~InWindow' /\ readIndex = Len(cidList))
      BY <1>2, PlacedByPush
    <2>2. In(d, placed') => In(d, placed) \/ In(d, cidList)
      BY <1>2, <2>1, PushPlaces DEF In
    <2>3. In(d, placed) => In(d, placed')
      BY <1>2, PushPlaces
    <2>4. ~InWindow' /\ In(d, cidList) => In(d, placed')
      BY <1>2, <2>1, PushedSoFar DEF In
    <2>5. QED
      BY <2>1, <2>2, <2>3, <2>4, AccountedNow, AccountedNext
  <1>3. CASE ReadFails
    <2>1. UNCHANGED <<placed, arriving, cidList>> /\ InWindow /\ InWindow'
      BY <1>3 DEF ReadFails, Failover, sharedVars, replyVars, InWindow
    <2>2. QED
      BY <2>1, AccountedNow, AccountedNext
  <1>4. CASE GivesUp
    <2>1. UNCHANGED <<placed, arriving>> /\ ~InWindow /\ ~InWindow'
      BY <1>4 DEF GivesUp
    <2>2. QED
      BY <2>1, AccountedNow, AccountedNext
  <1>5. CASE Quiet
    <2>1. /\ UNCHANGED <<placed, arriving>> /\ (InWindow => InWindow') /\ (InWindow' => InWindow)
          /\ InWindow => cidList' = cidList
      BY <1>5 DEF Quiet
    <2>2. QED
      BY <2>1, AccountedNow, AccountedNext
  <1>6. QED
    BY <1>1, <1>2, <1>3, <1>4, <1>5, StepKinds

\* LostWithWindow after a step.
LEMMA LostNext ==
  ASSUME NEW c, pieced', StartsWindow(c) \/ ~Accounted(c - 1)'
  PROVE  LostWithWindow(c)'
  BY DEF LostWithWindow, StartsWindow

\* A step other than these two leaves what has been asked for alone while the
\* connection lasts.
LEMMA AskedStays ==
  ASSUME IInv, [Next]_vars, ~SendBlock, connected'
  PROVE  Asked' = Asked /\ connected /\ ~LoseConnection
  <1>1. ASSUME NEW k \in 1 .. Len(arriving), ReceiveReply(k)
        PROVE  Asked' = Asked /\ connected /\ ~LoseConnection
    BY <1>1 DEF ReceiveReply, StreamStep, networkVars, LoseConnection, Asked
  <1>2. CASE ReadChunk
    BY <1>2, PlacedByPush DEF LoseConnection
  <1>3. CASE ReadFails
    BY <1>3 DEF ReadFails, Failover, LoseConnection, Asked
  <1>4. CASE GivesUp
    BY <1>4 DEF GivesUp, LoseConnection
  <1>5. CASE Quiet
    BY <1>5 DEF Quiet, LoseConnection, Asked
  <1>6. QED
    BY <1>1, <1>2, <1>3, <1>4, <1>5, StepKinds DEF LoseConnection

\* While the connection lasts, a chunk that has been asked for can only be lost with
\* the window it is in: a request that is joined with the one before it.
LEMMA LossStep == IInv /\ [Next]_vars => OnlyWindowsLost'
  <1> SUFFICES ASSUME IInv, [Next]_vars, connected', NEW c \in Cids, c < Asked',
                      ~Accounted(c)'
               PROVE  LostWithWindow(c)'
    BY DEF OnlyWindowsLost
  <1>t. /\ nextChunkToRequest \in Nat /\ Asked \in Nat /\ WindowSize \in Nat \ {0}
        /\ c \in Nat /\ c < NumChunks /\ NumChunks \in Nat
    BY AskedType, SizesAssumption DEF IInv, Cids
  <1>p. pieced => pieced'
    BY OverrunStays DEF IInv
  <1>o. connected /\ c < Asked /\ ~Accounted(c) =>
          pieced /\ (StartsWindow(c) \/ ~Accounted(c - 1))
    BY DEF IInv, OnlyWindowsLost, LostWithWindow
  <1>1. CASE SendBlock
    <2> DEFINE q == nextChunkToRequest
    <2>1. /\ ~InWindow /\ ~InWindow' /\ Asked = q /\ Asked' = q + WindowSize
          /\ UNCHANGED <<nextChunkToRequest, placed, connected, pieced>>
          /\ q < NumChunks /\ q \in Nat
          /\ \/ arriving' = arriving \o Block
             \/ arriving' = arriving /\ (~connected \/ pieced)
      BY <1>1, <1>t, BlockAsked
    <2>2. \A d : In(d, placed) \/ In(d, arriving) => d \in Nat /\ d < q
      <3>1. /\ \A i \in DOMAIN placed : placed[i] \in Nat /\ placed[i] < q
            /\ \A i \in DOMAIN arriving : arriving[i] \in Nat /\ arriving[i] < q
        BY <2>1, CidsAreNumbers DEF IInv, OrderKept
      <3>2. QED
        BY <3>1 DEF In
    <2>3. StartsWindow(q)
      BY LinkedNow
    <2> HIDE DEF q
    <2>4. CASE arriving' = arriving /\ (~connected \/ pieced)
      <3>1. pieced' /\ connected
        BY <2>1, <2>4
      <3>2. \A d : (Accounted(d)' => Accounted(d)) /\ (Accounted(d) => Accounted(d)')
        BY <2>1, <2>4, AccountedNow, AccountedNext
      <3>3. CASE c < q
        BY <1>o, <2>1, <3>1, <3>2, <3>3, LostNext
      <3>4. CASE c = q
        BY <2>3, <3>1, <3>4, LostNext
      <3>5. CASE ~(c < q) /\ c # q
        <4>1. ~(c - 1 < q)
          BY <1>t, <2>1, <3>5
        <4>2. ~Accounted(c - 1)
          BY <2>1, <2>2, <4>1, AccountedNow
        <4>3. QED
          BY <3>1, <3>2, <4>2, LostNext
      <3>6. QED
        BY <3>3, <3>4, <3>5
    <2>5. CASE arriving' = arriving \o Block
      <3> DEFINE n == Len(arriving)
                 m == NumToReceive
      <3>1. /\ DOMAIN arriving' = 1 .. n + m
            /\ \A i \in 1 .. n : arriving'[i] = arriving[i]
            /\ \A i \in 1 .. m : arriving'[n + i] = q + i - 1
        BY <2>1, <2>5, ReplyFollows DEF IInv, q
      <3>2. m \in Nat /\ (m = WindowSize \/ q + m = NumChunks)
        BY <2>1, ReplyShape DEF IInv, q
      <3>3. n \in Nat /\ DOMAIN arriving = 1 .. n
        BY LenProperties DEF IInv, TypeOK
      <3> HIDE DEF n, m
      <3>4. \A d : In(d, arriving) => In(d, arriving')
        <4>1. \A i \in 1 .. n : i \in 1 .. n + m
          BY <3>2, <3>3
        <4>2. QED
          BY <3>1, <3>3, <4>1 DEF In
      <3>5. CASE c < q
        <4>1. ~In(c - 1, arriving) => ~In(c - 1, arriving')
          <5> SUFFICES ASSUME NEW i \in 1 .. n + m, arriving'[i] = c - 1
                       PROVE  In(c - 1, arriving)
            BY <3>1 DEF In
          <5>1. CASE i <= n
            <6>1. i \in 1 .. n
              BY <3>2, <3>3, <5>1
            <6>2. QED
              BY <3>1, <3>3, <6>1 DEF In
          <5>2. CASE ~(i <= n)
            <6> DEFINE j == i - n
            <6>1. j \in 1 .. m /\ n + j = i
              BY <3>2, <3>3, <5>2
            <6> HIDE DEF j
            <6>2. c - 1 = q + j - 1
              BY <3>1, <6>1
            <6>3. QED
              BY <1>t, <2>1, <3>2, <3>5, <6>1, <6>2
          <5>3. QED
            BY <5>1, <5>2
        <4>2. ~Accounted(c) /\ (~Accounted(c - 1) => ~Accounted(c - 1)')
          BY <2>1, <3>4, <4>1, AccountedNow, AccountedNext
        <4>3. QED
          BY <1>o, <1>p, <2>1, <3>5, <4>2, LostNext
      <3>6. CASE ~(c < q)
        <4> DEFINE j == c - q + 1
        <4>1. j \in 1 .. m /\ q + j - 1 = c
          BY <1>t, <2>1, <3>2, <3>6
        <4> HIDE DEF j
        <4>2. n + j \in 1 .. n + m /\ arriving'[n + j] = c
          BY <3>1, <3>2, <3>3, <4>1
        <4>3. In(c, arriving')
          BY <3>1, <4>2 DEF In
        <4>4. QED
          BY <4>3, AccountedNext
      <3>7. QED
        BY <3>5, <3>6
    <2>6. QED
      BY <2>1, <2>4, <2>5
  <1>2. CASE ~SendBlock
    <2>1. c < Asked /\ connected /\ ~LoseConnection
      BY <1>2, AskedStays
    <2>2. ~Accounted(c) /\ (~Accounted(c - 1) => ~Accounted(c - 1)')
      BY <1>2, <2>1, SameAccounts
    <2>3. QED
      BY <1>o, <1>p, <2>1, <2>2, LostNext
  <1>3. QED
    BY <1>1, <1>2

\* Until a read fails, every window starts at the number of chunks placed, as long as
\* replies come whole.
LEMMA CountStep == IInv /\ [Next]_vars => PlacedIsCounted'
  <1> SUFFICES ASSUME IInv, [Next]_vars, readFaults' = 0, ~pieced' PROVE PlacedIsCounted'
    BY DEF PlacedIsCounted
  <1>t. nextChunkToRequest \in Nat /\ WindowSize \in Nat \ {0} /\ NumChunks \in Nat
    BY AskedType, SizesAssumption DEF IInv
  <1>p. ~pieced
    BY OverrunStays DEF IInv
  <1>c. readFaults = 0 =>
          /\ InWindow => Len(placed) = cidList[1] + readIndex - 1
          /\ /\ ~InWindow /\ (connected \/ arriving # << >>)
             /\ nextChunkToRequest < NumChunks
             => Len(placed) = nextChunkToRequest
    BY <1>p DEF IInv, PlacedIsCounted
  <1>1. CASE SendBlock
    <2>1. /\ ~InWindow /\ ~InWindow' /\ arriving = << >>
          /\ UNCHANGED <<nextChunkToRequest, placed, readFaults, connected>>
          /\ ~connected => arriving' = arriving
      BY <1>1, <1>p, BlockAsked DEF SendBlock
    <2>2. QED
      BY <1>c, <2>1 DEF PlacedIsCounted
  <1>2. ASSUME NEW k \in 1 .. Len(arriving), ReceiveReply(k) PROVE PlacedIsCounted'
    <2>1. cidList' = Block /\ nextChunkToRequest < NumChunks
      BY <1>2, WholeReply
    <2>2. arriving # << >> /\ ~InWindow /\ InWindow' /\ readIndex' = 1
          /\ UNCHANGED <<placed, readFaults>>
      BY <1>2, ReplyTaken
         DEF ReceiveReply, StreamStep, sharedVars, networkVars, InWindow, IInv, ReadIndexOK
    <2>3. 1 \in 1 .. NumToReceive /\ nextChunkToRequest + 1 - 1 = nextChunkToRequest
      BY <1>t, <2>1, ReplyShape DEF IInv
    <2>4. cidList'[1] = nextChunkToRequest
      BY <2>1, <2>3, ReplyShape DEF IInv
    <2>5. Len(placed) = nextChunkToRequest
      BY <1>c, <2>1, <2>2
    <2>6. QED
      BY <1>t, <2>2, <2>4, <2>5 DEF PlacedIsCounted
  <1>3. CASE ReadChunk
    <2> DEFINE n == Len(placed)
               w == Len(cidList)
               a == cidList[1]
    <2>1. /\ readIndex \in 1 .. w /\ w \in Nat /\ n \in Nat
          /\ Len(placed') = n + 1 /\ InWindow
          /\ UNCHANGED <<nextChunkToRequest, cidList, readFaults>>
          /\ \/ InWindow' /\ readIndex' = readIndex + 1
             \/ ~InWindow' /\ readIndex = w
      BY <1>3, PlacedByPush
    <2>2. n = a + readIndex - 1
      BY <1>c, <2>1
    <2>3. /\ nextChunkToRequest = a + WindowSize /\ w <= WindowSize
          /\ w = WindowSize \/ a + w = NumChunks
      BY <1>p, <2>1 DEF IInv, WindowShape
    <2>4. a \in Nat
      <3>1. 1 \in DOMAIN cidList
        BY <1>3, PlacedByPush
      <3>2. QED
        BY <3>1, CidsAreNumbers DEF IInv
    <2> HIDE DEF n, w, a
    <2>5. CASE InWindow'
      BY <2>1, <2>2, <2>4, <2>5 DEF PlacedIsCounted, a
    <2>6. CASE ~InWindow'
      <3>1. nextChunkToRequest < NumChunks => n + 1 = nextChunkToRequest
        BY <1>t, <2>1, <2>2, <2>3, <2>4, <2>6
      <3>2. QED
        BY <2>1, <2>6, <3>1 DEF PlacedIsCounted
    <2>7. QED
      BY <2>5, <2>6
  <1>4. CASE ReadFails
    BY <1>4, SizesAssumption DEF ReadFails, IInv, TypeOK
  <1>5. CASE LoseConnection
    <2>1. /\ UNCHANGED <<nextChunkToRequest, cidList, readIndex, placed, readFaults>>
          /\ (InWindow => InWindow') /\ (InWindow' => InWindow) /\ ~connected'
          /\ arriving' = << >> \/ arriving' = arriving
      BY <1>5, FirstPartArrives DEF InWindow
    <2>2. QED
      BY <1>c, <2>1 DEF PlacedIsCounted
  <1>6. CASE GivesUp
    <2>1. /\ ~InWindow /\ ~InWindow' /\ UNCHANGED <<placed, readFaults, connected, arriving>>
          /\ \/ nextChunkToRequest' = nextChunkToRequest
             \/ ~connected /\ arriving = << >>
      BY <1>6 DEF GivesUp
    <2>2. QED
      BY <1>c, <2>1 DEF PlacedIsCounted
  <1>7. CASE Quiet
    <2>1. /\ UNCHANGED <<nextChunkToRequest, placed, readFaults, connected, arriving>>
          /\ (InWindow => InWindow') /\ (InWindow' => InWindow)
          /\ InWindow => UNCHANGED <<cidList, readIndex>>
      BY <1>7 DEF Quiet
    <2>2. QED
      BY <1>c, <2>1 DEF PlacedIsCounted
  <1>8. QED
    BY <1>1, <1>2, <1>3, <1>4, <1>5, <1>6, <1>7, StepKinds

\* Until a read fails, a push adds the chunk that comes after all that are placed.
LEMMA OnceStep == IInv /\ [Next]_vars => PlacedOnceUnlessReadFails'
  <1> SUFFICES ASSUME IInv, [Next]_vars, readFaults' = 0
               PROVE  /\ \A i, j \in DOMAIN placed' : i < j => placed'[i] < placed'[j]
                      /\ ~pieced' => \A i \in DOMAIN placed' : placed'[i] = i - 1
    BY DEF PlacedOnceUnlessReadFails
  <1>p. pieced => pieced'
    BY OverrunStays DEF IInv
  <1>o. readFaults = 0 =>
          /\ \A i, j \in DOMAIN placed : i < j => placed[i] < placed[j]
          /\ ~pieced => \A i \in DOMAIN placed : placed[i] = i - 1
    BY DEF IInv, PlacedOnceUnlessReadFails
  <1>1. CASE ReadChunk
    <2> DEFINE n == Len(placed)
               c == cidList[readIndex]
               a == cidList[1]
    <2>1. /\ n \in Nat /\ DOMAIN placed = 1 .. n /\ DOMAIN placed' = 1 .. n + 1
          /\ placed'[n + 1] = c /\ \A i \in 1 .. n : placed'[i] = placed[i]
          /\ readFaults = 0 /\ InWindow /\ pieced' = pieced
          /\ readIndex \in DOMAIN cidList /\ readIndex \in readIndex .. Len(cidList)
      BY <1>1, PlacedByPush
    <2>2. \A i \in DOMAIN placed : placed[i] < c
      BY <2>1 DEF IInv, OrderKept
    <2>3. ~pieced => c = a + readIndex - 1 /\ n = a + readIndex - 1
      BY <2>1 DEF IInv, WindowShape, PlacedIsCounted
    <2> HIDE DEF n, c, a
    <2>4. \A i \in 1 .. n + 1 : i \in 1 .. n \/ i = n + 1
      BY <2>1
    <2>5. \A i, j \in DOMAIN placed' : i < j => placed'[i] < placed'[j]
      <3> SUFFICES ASSUME NEW i \in 1 .. n + 1, NEW j \in 1 .. n + 1, i < j
                   PROVE  placed'[i] < placed'[j]
        BY <2>1
      <3>1. i \in 1 .. n
        BY <2>1
      <3>2. CASE j \in 1 .. n
        BY <1>o, <2>1, <3>1, <3>2
      <3>3. CASE j = n + 1
        BY <2>1, <2>2, <3>1, <3>3
      <3>4. QED
        BY <2>4, <3>2, <3>3
    <2>6. ~pieced' => \A i \in DOMAIN placed' : placed'[i] = i - 1
      <3> SUFFICES ASSUME ~pieced', NEW i \in 1 .. n + 1 PROVE placed'[i] = i - 1
        BY <2>1
      <3>1. CASE i \in 1 .. n
        BY <1>o, <2>1, <3>1
      <3>2. CASE i = n + 1
        BY <2>1, <2>3, <3>2
      <3>3. QED
        BY <2>4, <3>1, <3>2
    <2>7. QED
      BY <2>5, <2>6
  <1>2. CASE ReadFails
    BY <1>2, SizesAssumption DEF ReadFails, IInv, TypeOK
  <1>3. CASE placed' = placed /\ readFaults' = readFaults
    BY <1>o, <1>p, <1>3
  <1>4. SendBlock \/ (\E k \in 1 .. Len(arriving) : ReceiveReply(k)) \/ LoseConnection
          \/ GivesUp \/ Quiet => placed' = placed /\ readFaults' = readFaults
    BY BlockAsked, FirstPartArrives
       DEF ReceiveReply, StreamStep, sharedVars, networkVars, GivesUp, Quiet
  <1>5. QED
    BY <1>1, <1>2, <1>3, <1>4, StepKinds

\* Every step keeps the inductive invariant.
LEMMA InvariantStep == IInv /\ [Next]_vars => IInv'
  BY TypeStep, FifoStep, WindowStep, PlayerStepLemma, QueueRoomStep, OneReplyStep,
     OrderStep, LinkStep, LossStep, GapStep, CountStep, OnceStep DEF IInv

\* The inductive invariant holds in every state of the program.
THEOREM FetcherInvariant == Spec => []IInv
  BY InitInvariant, InvariantStep, PTL DEF Spec

\* The invariant bounds the queue.
LEMMA RoomBounds == IInv => QueueBounded
  <1> SUFFICES ASSUME IInv, ~overrun PROVE QueueBounded
    BY DEF QueueBounded
  <1>1. InHand \in 0 .. WindowSize /\ Len(chunkQueue) \in Nat
    BY SizesAssumption DEF IInv, TypeOK, InHand, ReadIndexOK, WindowShape, InWindow
  <1>2. /\ readFaults * (WindowSize - 1) \in Nat
        /\ MaxReadFaults * (WindowSize - 1) \in Nat
        /\ readFaults * (WindowSize - 1) <= MaxReadFaults * (WindowSize - 1)
    <2>1. readFaults \in Nat /\ MaxReadFaults \in Nat /\ readFaults <= MaxReadFaults
      BY SizesAssumption DEF IInv, TypeOK
    <2>2. MaxReadFaults <= MaxReadFaults
      BY <2>1
    <2>3. MaxReadFaults * (WindowSize - 1) \in Nat
      BY ONLY <2>1, <2>2, LeftBehind
    <2>4. QED
      BY ONLY <2>1, <2>3, LeftBehind
  <1>3. Len(chunkQueue) <=
          QueueThreshold - 1 + readFaults * (WindowSize - 1) + InHand
    BY DEF IInv, QueueRoom
  <1>4. QED
    BY <1>1, <1>2, <1>3, SizesAssumption DEF QueueBounded, Capacity

\* What the player is given is what was pushed, in that order (ChunkFetcher.cpp:55-71).
THEOREM DeliveryIsFifo == Spec => []Fifo
  <1>1. IInv => Fifo
    BY DEF IInv
  <1>2. QED
    BY <1>1, FetcherInvariant, PTL

\* front and pop find the same chunk, and never an empty queue, though the lock is
\* given up between them (ChunkFetcher.cpp:64-70).
THEOREM PopTakesTheFront == Spec => []FrontIsPopped
  <1>1. IInv => FrontIsPopped
    BY DEF IInv, PlayerTestsHold
  <1>2. QED
    BY <1>1, FetcherInvariant, PTL

\* While no list of CIDs is longer than chunkStatuses, the queue stays within its
\* capacity (ChunkFetcher.cpp:78).
THEOREM QueueIsBounded == Spec => []QueueBounded
  BY RoomBounds, FetcherInvariant, PTL

\* Chunks are placed one after the other without a gap, whatever fails and however
\* replies are cut, but for windows whose request was joined with the one before
\* (retrieveCIDs, readChunkData and failover).
THEOREM PlacedInSequence == Spec => []NoGaps
  <1>1. IInv => NoGaps
    BY DEF IInv
  <1>2. QED
    BY <1>1, FetcherInvariant, PTL

\* Failover repeats no chunk that is already placed, unless a read failed in the
\* middle of a window (ChunkFetcher.cpp:161-237).
THEOREM NothingPlacedTwice == Spec => []PlacedOnceUnlessReadFails
  <1>1. IInv => PlacedOnceUnlessReadFails
    BY DEF IInv
  <1>2. QED
    BY <1>1, FetcherInvariant, PTL

\* When the fetcher declares the end of the file on a live connection, every chunk is
\* placed if every reply came whole.  If one did not, each missing chunk either stands
\* unread on the stream or belongs to a window whose request was joined with the one
\* before (ChunkFetcher.cpp:122, :142-157).
THEOREM EndIsComplete == Spec => []EndOfFileIsComplete
  <1>1. IInv => EndOfFileIsComplete
    <2> SUFFICES ASSUME IInv, reachedEndOfFile, connected, NEW c \in Cids
                 PROVE  Placed(c) \/ (pieced /\ OnItsWay(c)) \/ LostWithWindow(c)
      BY DEF EndOfFileIsComplete
    <2>1. NumChunks <= nextChunkToRequest /\ fetcherPc \in {"loop", "done"}
      BY DEF IInv, FlagMeansNoneLeft
    <2>2. c < Asked /\ ~InWindow
      BY <2>1, SizesAssumption DEF Cids, IInv, TypeOK, Asked, InWindow
    <2>3. Placed(c) \/ OnItsWay(c) \/ LostWithWindow(c)
      BY <2>2 DEF IInv, OnlyWindowsLost, Accounted
    <2>4. ~pieced => arriving = << >>
      BY <2>1 DEF IInv, OneReplyArrives
    <2>5. ~pieced => ~OnItsWay(c)
      BY <2>4 DEF OnItsWay
    <2>6. QED
      BY <2>3, <2>5
  <1>2. QED
    BY <1>1, FetcherInvariant, PTL

\* Every step of the two threads is a step of the bounded pipe or none
\* (ChunkFetcher.h:49-64).
THEOREM FetcherIsPipe == Spec => ImplementsPipe
  <1>1. Init => Pipe!Init
    BY DEF Init, Pipe!Init
  <1>2. IInv /\ [Next]_vars => [Pipe!Next]_Pipe!vars
    <2> SUFFICES ASSUME IInv, [Next]_vars PROVE [Pipe!Next]_Pipe!vars
      OBVIOUS
    <2> USE DEF Pipe!vars
    <2>1. CASE ReadChunk
      <3> DEFINE c == cidList[readIndex]
      <3>1. /\ c \in Cids /\ placed' = Append(placed, c) /\ ~reachedEndOfFile
            /\ UNCHANGED <<delivered, reachedEndOfFile, ended, overrun>>
        BY <2>1, PushedType DEF IInv, ReadChunk, FlagMeansNoneLeft, playerVars, replyVars
      <3>2. Len(placed) - Len(delivered) = Len(chunkQueue) /\ Len(chunkQueue) \in Nat
        BY ConcatProperties DEF IInv, TypeOK, Fifo
      <3>3. Len(chunkQueue') = Len(chunkQueue) + 1
        BY <2>1, <3>1, AppendProperties DEF ReadChunk, IInv, TypeOK
      <3>4. QueueBounded'
        BY InvariantStep, RoomBounds, PTL
      <3>5. Capacity \in Int /\ Capacity' = Capacity
        BY LeftBehind, SizesAssumption DEF Capacity
      <3>6. overrun \/ Len(placed) - Len(delivered) < Capacity
        BY <3>1, <3>2, <3>3, <3>4, <3>5 DEF QueueBounded
      <3>7. Pipe!Place(c)
        BY <3>1, <3>6 DEF Pipe!Place
      <3>8. QED
        BY <3>1, <3>7 DEF Pipe!Next
    <2>2. CASE PopAndReturn
      <3>1. /\ chunkQueue # << >> /\ chunkToReturn = Head(chunkQueue) /\ ~ended
            /\ delivered' = Append(delivered, chunkToReturn)
            /\ UNCHANGED <<placed, reachedEndOfFile, ended, overrun>>
        BY <2>2 DEF PopAndReturn, PlayerStep, replyVars, IInv, PlayerTestsHold, FrontIsPopped
      <3>2. /\ Len(delivered) < Len(placed)
            /\ placed[Len(delivered) + 1] = Head(chunkQueue)
        BY <3>1, ConcatProperties DEF IInv, TypeOK, Fifo
      <3>3. QED
        BY <3>1, <3>2 DEF Pipe!Take, Pipe!Next
    <2>3. CASE ReachEndOfFile
      BY <2>3 DEF ReachEndOfFile, playerVars, replyVars, Pipe!Close, Pipe!Next
    <2>4. CASE ReturnNull
      BY <2>4 DEF ReturnNull, PlayerStep, replyVars, Pipe!TellEnd, Pipe!Next
    <2>5. CASE StartWindow \/ Terminate \/ SendBlock \/ ConnectionError
               \/ ReceivePartOfCid \/ ReceiveNothing \/ RequestChunks \/ ChunksReady
               \/ KeepWaiting \/ RequestFails \/ WaitedTooLong \/ ReadFails
      BY <2>5 DEF FetcherStep, StreamStep, sharedVars, playerVars, replyVars,
         StartWindow, Terminate, SendBlock, ConnectionError, ReceivePartOfCid,
         ReceiveNothing, RequestChunks, ChunksReady, KeepWaiting, RequestFails,
         WaitedTooLong, ReadFails
    <2>6. CASE Call \/ TestSize \/ TestFlag \/ Recheck \/ Front \/ StopPlaying
               \/ Network \/ UNCHANGED vars
      BY <2>6 DEF PlayerStep, TestStep, NetworkStep, Call, TestSize, TestFlag,
         Recheck, Front, StopPlaying, Network, Bring, LoseConnection, RemoveChunk,
         vars, sharedVars, playerVars, replyVars
    <2>7. CASE OverrunStatuses \/ \E k \in 1 .. Len(arriving) : ReceiveReply(k)
      <3>1. /\ UNCHANGED <<placed, delivered, reachedEndOfFile, ended>>
            /\ overrun' = overrun \/ overrun' = TRUE
        BY <2>7 DEF OverrunStatuses, ReceiveReply, StreamStep, sharedVars, playerVars,
           IInv, TypeOK
      <3>2. QED
        BY <3>1 DEF Pipe!Overrun, Pipe!Next
    <2>8. QED
      BY <2>1, <2>2, <2>3, <2>4, <2>5, <2>6, <2>7 DEF Next, Fetcher, Player
  <1>3. QED
    BY <1>1, <1>2, FetcherInvariant, PTL DEF Spec, ImplementsPipe, Pipe!Spec
=============================================================================
