---------------------------- MODULE ChunkFetcher ----------------------------
(***************************************************************************)
(* client/ChunkFetcher.cpp.  The fetcher thread (fetchChunks) asks the CID *)
(* directory for one window of CIDs at a time, brings the window's chunks  *)
(* local with the XIA chunk calls, and pushes them on the chunk queue; the *)
(* player's thread takes them off with getNextChunkFromQueue.  They share  *)
(* the queue, each call of which is atomic (ChunkQueue!IsAtomicFifo), and  *)
(* the volatile flag reachedEndOfFile, which no lock protects.             *)
(*                                                                         *)
(* The stream to the directory keeps no message boundaries: a reply may be *)
(* received in pieces, and with the next one.                              *)
(*                                                                         *)
(* A chunk is the number of its CID in the directory's list.               *)
(***************************************************************************)
EXTENDS Integers, Sequences

CONSTANTS
  NumChunks,      \* videoInformation.getNumChunks()
  WindowSize,     \* CHUNK_WINDOW_SIZE
  QueueThreshold, \* CHUNK_QUEUE_THRESHOLD_SIZE
  WaitThreshold,  \* NUM_WAITING_MESSAGES_THRESHOLD
  Locations,      \* the content servers' locations as the directory lists them
  Transient,      \* the servers started with a take-down period
  MaxReadFaults   \* bound: failures of XreadChunk

ASSUME SizesAssumption ==
  /\ NumChunks \in Nat /\ WaitThreshold \in Nat /\ MaxReadFaults \in Nat
  /\ WindowSize \in Nat \ {0} /\ QueueThreshold \in Nat \ {0}

Servers == {Locations[i] : i \in DOMAIN Locations}

ASSUME LocationsAssumption ==
  /\ Locations \in Seq(Servers) /\ Locations # << >>
  /\ Transient \subseteq Servers

Cids == 0 .. NumChunks - 1

VARIABLES
  \* the fetcher thread
  fetcherPc,          \* where fetchChunks is
  nextChunkToRequest,
  cidList,            \* the CIDs of the current window
  waiting,            \* waitingForChunkCounter
  readIndex,          \* the next chunk of the window to read, from 1
  serverLocations,    \* its own copy of the locations, primary first
  \* shared by the two threads
  reachedEndOfFile,
  chunkQueue,
  \* the player's thread
  playerPc,           \* where getNextChunkFromQueue is
  chunkToReturn,
  ended,              \* it has returned NULL
  \* the network
  connected,          \* the stream to the directory is up
  arriving,           \* the CIDs that will arrive on it, in replies to requests made
  local,              \* the chunks that XIA has brought local
  removed,            \* removed[s]: how many chunks server s has taken down
  readFaults,         \* failures of XreadChunk so far
  \* histories
  placed,             \* the chunks pushed, in order
  delivered,          \* the chunks returned to the player, in order
  pieced,             \* a reply has been received in pieces, or not all of it
  overrun             \* more CIDs than chunkStatuses holds have been received at once

windowVars  == <<nextChunkToRequest, cidList, waiting, readIndex, serverLocations>>
sharedVars  == <<reachedEndOfFile, chunkQueue, placed>>
playerVars  == <<playerPc, chunkToReturn, ended, delivered>>
networkVars == <<connected, local, removed, readFaults>>
replyVars   == <<arriving, pieced, overrun>>
vars == <<fetcherPc, windowVars, sharedVars, playerVars, networkVars, replyVars>>

\* exit(-1) or an exception in the fetcher thread ends the player's thread too.
Running == fetcherPc # "exited"

Init ==
  /\ fetcherPc = "loop" /\ nextChunkToRequest = 0
  /\ cidList = << >> /\ waiting = 0 /\ readIndex = 1
  /\ serverLocations = Locations
  /\ reachedEndOfFile = FALSE /\ chunkQueue = << >>
  /\ playerPc = "idle" /\ chunkToReturn = 0 /\ ended = FALSE
  /\ connected = TRUE /\ local = {} /\ removed = [s \in Servers |-> 0]
  /\ readFaults = 0
  /\ arriving = << >> /\ pieced = FALSE /\ overrun = FALSE
  /\ placed = << >> /\ delivered = << >>
-----------------------------------------------------------------------------
(* The fetcher thread.  While the queue is at the threshold it sleeps.     *)

StreamStep(from, to) ==
  /\ fetcherPc = from /\ fetcherPc' = to
  /\ UNCHANGED <<sharedVars, playerVars, networkVars>>

FetcherStep(from, to) == StreamStep(from, to) /\ UNCHANGED replyVars

\* Mutant of StartWindow: "<=" for "<".
StartWindowAtThreshold ==
  /\ ~reachedEndOfFile /\ Len(chunkQueue) <= QueueThreshold
  /\ FetcherStep("loop", "retrieve") /\ UNCHANGED windowVars

StartWindow ==
  /\ ~reachedEndOfFile /\ Len(chunkQueue) < QueueThreshold
  /\ FetcherStep("loop", "retrieve") /\ UNCHANGED windowVars

Terminate ==
  /\ reachedEndOfFile
  /\ FetcherStep("loop", "done") /\ UNCHANGED windowVars

\* Mutant of ReachEndOfFile: off by one.
ReachEndOfFileEarly ==
  /\ fetcherPc = "retrieve" /\ NumChunks - 1 <= nextChunkToRequest
  /\ fetcherPc' = "loop" /\ reachedEndOfFile' = TRUE /\ cidList' = << >>
  /\ UNCHANGED <<nextChunkToRequest, waiting, readIndex, serverLocations,
                 chunkQueue, placed, playerVars, networkVars, replyVars>>

\* retrieveCIDs with no CID left to ask for: the window is empty.
ReachEndOfFile ==
  /\ fetcherPc = "retrieve" /\ NumChunks <= nextChunkToRequest
  /\ fetcherPc' = "loop" /\ reachedEndOfFile' = TRUE /\ cidList' = << >>
  /\ UNCHANGED <<nextChunkToRequest, waiting, readIndex, serverLocations,
                 chunkQueue, placed, playerVars, networkVars, replyVars>>

\* Mutant of NumToReceive: the last window is not cut short.
NumToReceiveUncut == WindowSize

\* The CIDs the request "block a:b" asks for.
NumToReceive ==
  IF NumChunks - nextChunkToRequest < WindowSize
    THEN NumChunks - nextChunkToRequest ELSE WindowSize

Block == [i \in 1 .. NumToReceive |-> nextChunkToRequest + i - 1]

StartsWindow(c) == \E q \in 0 .. c : c = q * WindowSize

\* The reply to the request before, of which nothing has been received yet.
ReplyAwaited == \E i \in DOMAIN arriving : StartsWindow(arriving[i])

\* Xsend of "block a:b".  The directory's reply follows those on their way; but if
\* it receives the request together with the one before, it answers only that one.
\* On a lost connection Xsend may still succeed.
SendBlock ==
  /\ nextChunkToRequest < NumChunks
  /\ StreamStep("retrieve", "reply")
  /\ \/ connected /\ arriving' = arriving \o Block
     \/ (~connected \/ ReplyAwaited) /\ UNCHANGED arriving
  /\ UNCHANGED <<windowVars, pieced, overrun>>

\* Xsend or Xrecv returns an error: sendCmd and receiveReply exit.
ConnectionError ==
  /\ ~connected /\ UNCHANGED windowVars
  /\ \/ nextChunkToRequest < NumChunks /\ FetcherStep("retrieve", "exited")
     \/ FetcherStep("reply", "exited")

\* Mutant of ReceiveReply: the last CID of the window is asked for again.
ReceiveReplyOverlapping(k) ==
  /\ StreamStep("reply", "request")
  /\ cidList' = SubSeq(arriving, 1, k)
  /\ arriving' = SubSeq(arriving, k + 1, Len(arriving))
  /\ pieced' = (pieced \/ k < Len(arriving))
  /\ overrun' = (overrun \/ k > WindowSize)
  /\ nextChunkToRequest' = nextChunkToRequest + (IF WindowSize = 1 THEN 1 ELSE WindowSize - 1)
  /\ UNCHANGED <<waiting, readIndex, serverLocations>>

\* What one Xrecv returns is taken for the reply: k CIDs, all that will arrive or
\* fewer.  The next window begins WindowSize further on, however many they are.
ReceiveReply(k) ==
  /\ StreamStep("reply", "request")
  /\ cidList' = SubSeq(arriving, 1, k)
  /\ arriving' = SubSeq(arriving, k + 1, Len(arriving))
  /\ pieced' = (pieced \/ k < Len(arriving))
  /\ overrun' = (overrun \/ k > WindowSize)
  /\ nextChunkToRequest' = nextChunkToRequest + WindowSize
  /\ UNCHANGED <<waiting, readIndex, serverLocations>>

\* It ends within a CID: no server has a chunk of such a name, and the window is
\* requested for ever; or so early in it that substr(4) throws.
ReceivePartOfCid ==
  /\ arriving # << >> /\ pieced' = TRUE
  /\ StreamStep("reply", "stuck") \/ StreamStep("reply", "exited")
  /\ UNCHANGED <<windowVars, arriving, overrun>>

\* More CIDs than chunkStatuses has room for, if what lies behind it matters.
OverrunStatuses ==
  /\ Len(arriving) > WindowSize /\ overrun' = TRUE
  /\ StreamStep("reply", "exited")
  /\ UNCHANGED <<windowVars, arriving, pieced>>

\* Xrecv returns 0, which receiveReply takes for an empty list of CIDs.
ReceiveNothing ==
  /\ ~connected /\ arriving = << >> /\ FetcherStep("reply", "loop")
  /\ cidList' = << >>
  /\ nextChunkToRequest' = nextChunkToRequest + WindowSize
  /\ UNCHANGED <<waiting, readIndex, serverLocations>>

RequestChunks ==
  /\ FetcherStep("request", "status") /\ waiting' = 0
  /\ UNCHANGED <<nextChunkToRequest, cidList, readIndex, serverLocations>>

\* XgetChunkStatuses says READY_TO_READ when the window is local, and
\* WAITING_FOR_CHUNK before.
WindowLocal == \A i \in DOMAIN cidList : cidList[i] \in local

ChunksReady ==
  /\ WindowLocal /\ FetcherStep("status", "read") /\ readIndex' = 1
  /\ UNCHANGED <<nextChunkToRequest, cidList, waiting, serverLocations>>

KeepWaiting ==
  /\ ~WindowLocal /\ waiting < WaitThreshold
  /\ FetcherStep("status", "status") /\ waiting' = waiting + 1
  /\ UNCHANGED <<nextChunkToRequest, cidList, readIndex, serverLocations>>

\* Mutant of Rotated: the first location goes back to the front.
RotatedInPlace(locations) == <<Head(locations)>> \o Tail(locations)

\* rotateServerLocations
Rotated(locations) == Append(Tail(locations), Head(locations))

\* readChunkData returned a negative number: rotate and start it again.
Failover ==
  /\ serverLocations' = Rotated(serverLocations)
  /\ UNCHANGED <<nextChunkToRequest, cidList, waiting>>

RequestFails ==
  /\ FetcherStep("request", "request") \/ FetcherStep("status", "request")
  /\ Failover /\ UNCHANGED readIndex

\* Mutant of WaitedTooLong: the result -2 is not taken for a failure.
WaitedTooLongGivesUp ==
  /\ ~WindowLocal /\ waiting = WaitThreshold
  /\ FetcherStep("status", "loop")
  /\ UNCHANGED windowVars

WaitedTooLong ==
  /\ ~WindowLocal /\ waiting = WaitThreshold
  /\ FetcherStep("status", "request")
  /\ Failover /\ UNCHANGED readIndex

ReadChunk ==
  /\ fetcherPc = "read"
  /\ chunkQueue' = Append(chunkQueue, cidList[readIndex])
  /\ placed' = Append(placed, cidList[readIndex])
  /\ IF readIndex < Len(cidList)
       THEN readIndex' = readIndex + 1 /\ UNCHANGED fetcherPc
       ELSE readIndex' = 1 /\ fetcherPc' = "loop"
  /\ UNCHANGED <<nextChunkToRequest, cidList, waiting, serverLocations,
                 reachedEndOfFile, playerVars, networkVars, replyVars>>

\* XreadChunk fails after the window's chunks before it have been pushed.
ReadFails ==
  /\ fetcherPc = "read" /\ readFaults < MaxReadFaults
  /\ fetcherPc' = "request"
  /\ readFaults' = readFaults + 1 /\ readIndex' = 1
  /\ Failover
  /\ UNCHANGED <<sharedVars, playerVars, connected, local, removed, replyVars>>

Fetcher ==
  \/ StartWindow \/ Terminate \/ ReachEndOfFile \/ SendBlock \/ ConnectionError
  \/ \E k \in 1 .. Len(arriving) : ReceiveReply(k)
  \/ ReceivePartOfCid \/ OverrunStatuses \/ ReceiveNothing \/ RequestChunks
  \/ ChunksReady \/ KeepWaiting \/ RequestFails \/ WaitedTooLong \/ ReadChunk
  \/ ReadFails
-----------------------------------------------------------------------------
(* The player's thread, in getNextChunkFromQueue.                          *)

PlayerStep(from, to) ==
  /\ Running /\ playerPc = from /\ playerPc' = to
  /\ UNCHANGED <<fetcherPc, windowVars, networkVars, replyVars, reachedEndOfFile,
                 placed>>

TestStep(from, to) ==
  PlayerStep(from, to) /\ UNCHANGED <<chunkToReturn, ended, delivered, chunkQueue>>

\* The early test of the flag.
Call == ~reachedEndOfFile /\ TestStep("idle", "size")

\* Mutant of ReturnNull: NULL also when the queue is empty.
ReturnNullWhenEmpty ==
  /\ reachedEndOfFile \/ chunkQueue = << >>
  /\ PlayerStep("idle", "idle") \/ PlayerStep("recheck", "idle")
  /\ ended' = TRUE
  /\ UNCHANGED <<chunkToReturn, delivered, chunkQueue>>

\* "return NULL", from the early test and from the one after the loop.
ReturnNull ==
  /\ reachedEndOfFile
  /\ PlayerStep("idle", "idle") \/ PlayerStep("recheck", "idle")
  /\ ended' = TRUE
  /\ UNCHANGED <<chunkToReturn, delivered, chunkQueue>>

\* The loop's condition: size() == 0, then !reachedEndOfFile.
TestSize == TestStep("size", IF chunkQueue = << >> THEN "flag" ELSE "recheck")

\* Mutant of TestFlag: "if" for "while", one sleep and no second look.
TestFlagOnce == TestStep("flag", "recheck")

TestFlag == TestStep("flag", IF reachedEndOfFile THEN "recheck" ELSE "size")

Recheck == ~reachedEndOfFile /\ TestStep("recheck", "front")

Front ==
  /\ PlayerStep("front", "pop")
  /\ chunkToReturn' = Head(chunkQueue)
  /\ UNCHANGED <<ended, delivered, chunkQueue>>

\* Mutant of PopAndReturn: pop_back for pop_front.
PopBackAndReturn ==
  /\ PlayerStep("pop", "idle")
  /\ chunkQueue' = SubSeq(chunkQueue, 1, Len(chunkQueue) - 1)
  /\ delivered' = Append(delivered, chunkToReturn)
  /\ UNCHANGED <<chunkToReturn, ended>>

PopAndReturn ==
  /\ PlayerStep("pop", "idle")
  /\ chunkQueue' = Tail(chunkQueue)
  /\ delivered' = Append(delivered, chunkToReturn)
  /\ UNCHANGED <<chunkToReturn, ended>>

\* Escape is pressed between two reads of the stream.
StopPlaying == TestStep("idle", "stopped")

Player == Call \/ ReturnNull \/ TestSize \/ TestFlag \/ Recheck \/ Front
          \/ PopAndReturn
-----------------------------------------------------------------------------
(* The network and the content servers.                                    *)

Holds(s, c) == removed[s] <= c

NetworkStep == UNCHANGED <<fetcherPc, windowVars, sharedVars, playerVars, readFaults>>

\* XIA brings chunk c of a requested window local from server s: the DAG of
\* the request leads to every location.
Bring(s, c) ==
  /\ fetcherPc = "status" /\ Holds(s, c)
  /\ c \notin local /\ \E i \in DOMAIN cidList : cidList[i] = c
  /\ local' = local \cup {c}
  /\ NetworkStep /\ UNCHANGED <<connected, removed, replyVars>>

\* Of the replies on their way the first k CIDs still arrive.
LoseConnection ==
  /\ Running /\ connected /\ connected' = FALSE
  /\ \E k \in 0 .. Len(arriving) :
       /\ arriving' = SubSeq(arriving, 1, k)
       /\ pieced' = (pieced \/ k \notin {0, Len(arriving)})
  /\ NetworkStep /\ UNCHANGED <<local, removed, overrun>>

\* ContentServer takes its chunks down one by one, first to last.
RemoveChunk(s) ==
  /\ Running /\ removed[s] < NumChunks
  /\ removed' = [removed EXCEPT ![s] = @ + 1]
  /\ NetworkStep /\ UNCHANGED <<connected, local, replyVars>>

Network ==
  \/ \E s \in Servers, c \in Cids : Bring(s, c)
  \/ LoseConnection
  \/ \E s \in Transient : RemoveChunk(s)

Next == Fetcher \/ Player \/ StopPlaying \/ Network

Spec == Init /\ [][Next]_vars

RequestFrom(s) == Head(serverLocations) = s /\ RequestChunks

BringFromPrimary == \E c \in Cids : Bring(Head(serverLocations), c)

(***************************************************************************)
(* Both threads are scheduled again and again.  A request that is made     *)
(* again and again with the same primary location is accepted in the end,  *)
(* if that server keeps its content; and while the primary location of     *)
(* such requests holds chunks that have not arrived, one does.  From the   *)
(* fallback locations nothing need ever arrive.                            *)
(***************************************************************************)
FairSpec ==
  /\ Spec
  /\ WF_vars(Fetcher) /\ WF_vars(Player)
  /\ \A s \in Servers \ Transient : SF_vars(RequestFrom(s))
  /\ SF_vars(ChunksReady)
  /\ SF_vars(BringFromPrimary)
-----------------------------------------------------------------------------
TypeOK ==
  /\ fetcherPc \in {"loop", "retrieve", "reply", "request", "status", "read",
                    "done", "stuck", "exited"}
  /\ nextChunkToRequest \in Nat
  /\ cidList \in Seq(Cids)
  /\ waiting \in 0 .. WaitThreshold
  /\ readIndex \in Nat \ {0}
  /\ serverLocations \in Seq(Servers) /\ serverLocations # << >>
  /\ reachedEndOfFile \in BOOLEAN
  /\ chunkQueue \in Seq(Cids)
  /\ playerPc \in {"idle", "size", "flag", "recheck", "front", "pop", "stopped"}
  /\ chunkToReturn \in Nat
  /\ ended \in BOOLEAN
  /\ connected \in BOOLEAN
  /\ local \subseteq Cids
  /\ removed \in [Servers -> 0 .. NumChunks]
  /\ readFaults \in 0 .. MaxReadFaults
  /\ placed \in Seq(Cids) /\ delivered \in Seq(Cids)
  /\ arriving \in Seq(Cids) /\ pieced \in BOOLEAN /\ overrun \in BOOLEAN

\* The chunks come out in the order in which they went in, and none is lost
\* between push (ChunkFetcher.cpp:237) and the return (:70).
Fifo == placed = delivered \o chunkQueue

\* The unlocked tests of size() and the flag (:60-66) are still good when
\* front and pop act on them: the queue is not empty, so neither assertion
\* of ChunkQueue fails, and pop removes the chunk that front returned.
FrontIsPopped ==
  /\ playerPc = "front" => chunkQueue # << >>
  /\ playerPc = "pop" => chunkQueue # << >> /\ Head(chunkQueue) = chunkToReturn

\* Until more CIDs come at once than chunkStatuses holds (:162), the queue never
\* holds more than the threshold lets in plus one window, plus what failed
\* readings of a window have left there
\* (ChunkFetcher.h:58, "maintains the chunk queue at a certain maximum size").
Capacity == QueueThreshold - 1 + WindowSize + MaxReadFaults * (WindowSize - 1)
QueueBounded == ~overrun => Len(chunkQueue) <= Capacity

Placed(c) == \E i \in DOMAIN placed : placed[i] = c

PlacedBefore(i, c) == \E j \in 1 .. i - 1 : placed[j] = c

\* No chunk of the video is skipped: when one is placed, so has been the one
\* before it, whatever failed, timed out or was lost before.  Replies cut into
\* pieces can only lose whole windows (two requests received as one).
NoGaps == \A i \in DOMAIN placed :
  placed[i] > 0 /\ (pieced => ~StartsWindow(placed[i])) => PlacedBefore(i, placed[i] - 1)

\* Without a failed XreadChunk no chunk is placed twice or out of order: a failed
\* request, a wait that is given up or a reply in pieces leaves nothing behind.
\* While replies come whole, none is missing either.
PlacedOnceUnlessReadFails == readFaults = 0 =>
  /\ \A i, j \in DOMAIN placed : i < j => placed[i] < placed[j]
  /\ ~pieced => \A i \in DOMAIN placed : placed[i] = i - 1

InWindow == fetcherPc \in {"request", "status", "read"}

OnItsWay(c) == \E i \in DOMAIN arriving : arriving[i] = c

Accounted(c) ==
  Placed(c) \/ OnItsWay(c) \/ (InWindow /\ \E i \in DOMAIN cidList : cidList[i] = c)

\* The request that c belongs to was received with the one before and not answered:
\* what is lost so is a window from its start.
LostWithWindow(c) == pieced /\ (StartsWindow(c) \/ ~Accounted(c - 1))

\* The end of the file means the end of the requests (ChunkFetcher.cpp:122, :146).
\* While the connection lasts, every chunk of the video is then in the queue or
\* beyond (ChunkFetcher.h:33) if every reply came whole; after a reply in pieces
\* some CIDs may be left unread on the stream, and whole windows lost, but nothing
\* else.
EndOfFileIsComplete == reachedEndOfFile /\ connected =>
  \A c \in Cids : Placed(c) \/ (pieced /\ OnItsWay(c)) \/ LostWithWindow(c)

(***************************************************************************)
(* The inductive invariant behind them.                                    *)
(***************************************************************************)
\* A window is a run of consecutive CIDs, full unless it ends the video, while
\* replies come whole.
WindowShape == InWindow =>
  /\ cidList # << >> /\ (~overrun \/ ~pieced => Len(cidList) <= WindowSize)
  /\ ~pieced =>
       /\ \A i \in DOMAIN cidList : cidList[i] = cidList[1] + i - 1
       /\ nextChunkToRequest = cidList[1] + WindowSize
       /\ Len(cidList) = WindowSize \/ cidList[1] + Len(cidList) = NumChunks

\* While replies come whole, only the one that is waited for is on its way.
OneReplyArrives == ~pieced =>
  /\ fetcherPc \notin {"reply", "exited"} => arriving = << >>
  /\ fetcherPc = "reply" => arriving = Block \/ (~connected /\ arriving = << >>)

Ascending(l) == \A i, j \in DOMAIN l : i < j => l[i] < l[j]

AllBelow(l, m) == \A i \in DOMAIN l, j \in DOMAIN m : l[i] < m[j]

\* The first CID that has not been asked for.
Asked == IF fetcherPc \in {"reply", "stuck", "exited"}
           THEN nextChunkToRequest + WindowSize ELSE nextChunkToRequest

\* The CIDs are asked for, arrive and are placed in the order of the list, however
\* the replies are cut and the requests joined.
OrderKept ==
  /\ Ascending(arriving) /\ AllBelow(placed, arriving)
  /\ \A i \in DOMAIN arriving : arriving[i] < Asked
  /\ \A i \in DOMAIN placed : placed[i] < Asked
  /\ InWindow =>
       /\ Ascending(cidList) /\ AllBelow(cidList, arriving)
       /\ \A j \in DOMAIN cidList : cidList[j] < nextChunkToRequest
       /\ readFaults = 0 => \A i \in DOMAIN placed, j \in readIndex .. Len(cidList) :
                               placed[i] < cidList[j]

\* No chunk before c is missing because of what comes between them.
Free(c) == c = 0 \/ (pieced /\ StartsWindow(c))

PredecessorIn(l, k, c) == \E j \in 1 .. k : l[j] = c - 1

\* The one before each CID has been placed or comes before it.
Linked ==
  /\ StartsWindow(nextChunkToRequest)
  /\ InWindow =>
       /\ \A i \in 1 .. readIndex - 1 : Placed(cidList[i])
       /\ \A i \in DOMAIN cidList :
            \/ Free(cidList[i]) \/ Placed(cidList[i] - 1)
            \/ PredecessorIn(cidList, i - 1, cidList[i])
  /\ \A i \in DOMAIN arriving :
       \/ Free(arriving[i]) \/ Placed(arriving[i] - 1)
       \/ InWindow /\ PredecessorIn(cidList, Len(cidList), arriving[i])
       \/ PredecessorIn(arriving, i - 1, arriving[i])

\* The flag is set when there is nothing left to ask for, and only then.
FlagMeansNoneLeft ==
  /\ reachedEndOfFile =>
       NumChunks <= nextChunkToRequest /\ fetcherPc \in {"loop", "done"}
  /\ fetcherPc = "reply" => nextChunkToRequest < NumChunks

ReadIndexOK == IF fetcherPc = "read" THEN readIndex <= Len(cidList) ELSE readIndex = 1

\* What the player has tested stays true until it acts on it.
PlayerTestsHold ==
  /\ FrontIsPopped
  /\ playerPc = "recheck" => chunkQueue # << >> \/ reachedEndOfFile
  /\ ended => reachedEndOfFile /\ playerPc \in {"idle", "stopped"}

\* How many chunks of its window the fetcher may have put on the queue.
InHand ==
  IF fetcherPc \in {"loop", "done", "exited"} THEN WindowSize ELSE readIndex - 1

QueueRoom == ~overrun => Len(chunkQueue) <=
  QueueThreshold - 1 + readFaults * (WindowSize - 1) + InHand

\* While the connection lasts, nothing that has been asked for is lost but windows.
OnlyWindowsLost == connected =>
  \A c \in Cids : c < Asked => Accounted(c) \/ LostWithWindow(c)

\* Until a read fails, the chunks placed are counted by the requests made.
PlacedIsCounted == readFaults = 0 /\ ~pieced =>
  /\ InWindow => Len(placed) = cidList[1] + readIndex - 1
  /\ /\ ~InWindow /\ (connected \/ arriving # << >>)
     /\ nextChunkToRequest < NumChunks
     => Len(placed) = nextChunkToRequest

IInv ==
  /\ TypeOK /\ WindowShape /\ FlagMeansNoneLeft /\ ReadIndexOK
  /\ Fifo /\ PlayerTestsHold /\ QueueRoom /\ OneReplyArrives
  /\ OrderKept /\ Linked /\ OnlyWindowsLost /\ NoGaps
  /\ PlacedIsCounted /\ PlacedOnceUnlessReadFails

\* The fetcher implements the bounded pipe.
Pipe == INSTANCE ChunkPipe WITH taken <- delivered, closed <- reachedEndOfFile

ImplementsPipe == Pipe!Spec

\* If some listed server keeps the content, the player is told the end in
\* the end, unless it stops, the process exits or a reply was cut within a CID:
\* failover gets past every server that has lost it, and neither thread waits
\* for the other forever.
PlayerReachesEnd ==
  (Servers \ Transient # {}) =>
    <>(ended \/ playerPc = "stopped" \/ fetcherPc \in {"stuck", "exited"})

\* ChunkFetcher.h:53, "Returns NULL if the end of the file has been reached":
\* a player of an unbroken connection with whole replies that is told NULL has had
\* every chunk.
NullOnlyAtEnd ==
  ended /\ connected /\ ~pieced =>
    \A c \in Cids : \E i \in DOMAIN delivered : delivered[i] = c

\* ChunkFetcher.h:85-86, "Fetches the chunk data referred to by the list of
\* CIDs and places the chunks in the chunkQueue": each of them once.
PlacedOnce == \A i, j \in DOMAIN placed : placed[i] = placed[j] => i = j
=============================================================================
