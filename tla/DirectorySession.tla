-------------------------- MODULE DirectorySession --------------------------
(***************************************************************************)
(* One session of the video client with the CID directory, from the        *)
(* request for the number of chunks to the shutdown: main of               *)
(* client/VideoClient.cpp, the requests of the fetcher thread of           *)
(* client/ChunkFetcher.cpp, which share one stream socket without a lock,  *)
(* and the thread of server/CidDirectoryServer.cpp that serves them        *)
(* (processRequest).  What happens to the chunks is ChunkFetcher's matter. *)
(*                                                                         *)
(* The stream keeps no message boundaries: what was sent as two requests   *)
(* may be received as one, and a reply in pieces.  A CID is its number in  *)
(* the directory's list.                                                   *)
(***************************************************************************)
EXTENDS Integers, Sequences

CONSTANTS
  ListSize,   \* the CIDs that the directory has read from its file
  WindowSize  \* CHUNK_WINDOW_SIZE

ASSUME SessionAssumption == ListSize \in Nat /\ WindowSize \in Nat \ {0}

VARIABLES
  \* the client's main thread
  mainPc,
  numChunks,          \* what receiveVideoInformation made of the reply
  exitStatus,         \* the process's, once it is over
  escaped,            \* history: the player was stopped by the user
  \* its fetcher thread
  fetcherPc,
  nextChunkToRequest,
  reachedEndOfFile,
  received,           \* history: the CIDs of all windows, in order
  pieced,             \* history: an Xrecv has returned less than what was there
  \* the stream
  toServer,           \* requests on their way
  toClient,           \* on their way: the number of chunks, CIDs
  clientClosed, serverClosed,
  broken,             \* the connection is lost
  \* the server's thread
  serverPc,           \* "receive", "finished", or "crashed" with its process
  videoName           \* a video has been selected

mainVars    == <<mainPc, numChunks, exitStatus, escaped>>
fetcherVars == <<fetcherPc, nextChunkToRequest, reachedEndOfFile, received, pieced>>
streamVars  == <<toServer, toClient, clientClosed, serverClosed, broken>>
serverVars  == <<serverPc, videoName>>
vars == <<mainVars, fetcherVars, streamVars, serverVars>>

NumChunksRequest == [kind |-> "numchunks"]
DoneRequest == [kind |-> "done"]
BlockRequest(a, b) == [kind |-> "block", from |-> a, to |-> b]

Init ==
  /\ mainPc = "ask" /\ numChunks = 0 /\ exitStatus = "none" /\ escaped = FALSE
  /\ fetcherPc = "off" /\ nextChunkToRequest = 0 /\ reachedEndOfFile = FALSE
  /\ received = << >> /\ pieced = FALSE
  /\ toServer = << >> /\ toClient = << >>
  /\ clientClosed = FALSE /\ serverClosed = FALSE /\ broken = FALSE
  /\ serverPc = "receive" /\ videoName = FALSE

ClientRuns == exitStatus = "none"

\* A send on a lost or closed connection may still seem to succeed; what is
\* sent then is lost.
Deliver(request) ==
  toServer' = IF broken \/ serverClosed THEN toServer ELSE Append(toServer, request)

\* When Xsend and Xrecv can report an error to the client.
CanFail == broken \/ serverClosed \/ clientClosed

\* Xclose and exit(-1), in whichever thread.
Fail ==
  /\ CanFail /\ exitStatus' = "-1" /\ clientClosed' = TRUE
  /\ UNCHANGED <<numChunks, escaped, toServer, toClient, serverClosed, broken, serverVars>>
-----------------------------------------------------------------------------
(* The client's main thread.                                               *)

MainStep(from, to) == ClientRuns /\ mainPc = from /\ mainPc' = to

AskNumChunks ==
  /\ MainStep("ask", "info") /\ Deliver(NumChunksRequest)
  /\ UNCHANGED <<numChunks, exitStatus, escaped, fetcherVars, toClient,
                 clientClosed, serverClosed, broken, serverVars>>

\* The XChunkSocketStream constructor starts the fetcher thread.
ReceiveVideoInformation ==
  /\ MainStep("info", "play") /\ fetcherPc' = "loop"
  /\ \/ /\ toClient # << >>
        /\ numChunks' = Head(toClient).numChunks /\ toClient' = Tail(toClient)
     \* Xrecv returns 0: what the new, uninitialized buffer happens to hold.
     \/ /\ CanFail /\ toClient = << >>
        /\ numChunks' \in 0 .. ListSize + 1 /\ UNCHANGED toClient
  /\ UNCHANGED <<exitStatus, escaped, nextChunkToRequest, reachedEndOfFile, received,
                 pieced, toServer, clientClosed, serverClosed, broken, serverVars>>

\* Mutant of PlayToTheEnd: play returns before the end of the file.
PlayNotToTheEnd ==
  /\ MainStep("play", "done")
  /\ UNCHANGED <<numChunks, exitStatus, escaped, fetcherVars, streamVars, serverVars>>

\* oggDecoder.play returns at the end of the file ...
PlayToTheEnd ==
  /\ MainStep("play", "done") /\ reachedEndOfFile
  /\ UNCHANGED <<numChunks, exitStatus, escaped, fetcherVars, streamVars, serverVars>>

\* ... or when the user presses Escape.
Escape ==
  /\ MainStep("play", "done") /\ escaped' = TRUE
  /\ UNCHANGED <<numChunks, exitStatus, fetcherVars, streamVars, serverVars>>

SendDone ==
  /\ MainStep("done", "close") /\ Deliver(DoneRequest)
  /\ UNCHANGED <<numChunks, exitStatus, escaped, fetcherVars, toClient,
                 clientClosed, serverClosed, broken, serverVars>>

Close ==
  /\ MainStep("close", "return") /\ clientClosed' = TRUE
  /\ UNCHANGED <<numChunks, exitStatus, escaped, fetcherVars, toServer, toClient,
                 serverClosed, broken, serverVars>>

\* "return 0" ends the process, and the fetcher thread with it.
ReturnFromMain ==
  /\ MainStep("return", "return") /\ exitStatus' = "0"
  /\ UNCHANGED <<numChunks, escaped, fetcherVars, streamVars, serverVars>>

MainFails ==
  \E from \in {"ask", "info", "done"} : MainStep(from, from) /\ Fail /\ UNCHANGED fetcherVars

Main ==
  \/ AskNumChunks \/ ReceiveVideoInformation \/ PlayToTheEnd \/ SendDone \/ Close
  \/ ReturnFromMain \/ MainFails
-----------------------------------------------------------------------------
(* The fetcher thread, in retrieveCIDs.                                    *)

FetcherStep(from, to) ==
  ClientRuns /\ fetcherPc = from /\ fetcherPc' = to /\ UNCHANGED <<mainVars, serverVars>>

\* Mutant of ReachEndOfFile: off by one.
ReachEndOfFileEarly ==
  /\ FetcherStep("loop", "finished") /\ numChunks - 1 <= nextChunkToRequest
  /\ reachedEndOfFile' = TRUE
  /\ UNCHANGED <<nextChunkToRequest, received, pieced, streamVars>>

ReachEndOfFile ==
  /\ FetcherStep("loop", "finished") /\ numChunks <= nextChunkToRequest
  /\ reachedEndOfFile' = TRUE
  /\ UNCHANGED <<nextChunkToRequest, received, pieced, streamVars>>

\* Mutant of NumToReceive: the last window is not cut short.
NumToReceiveUncut == WindowSize

NumToReceive ==
  IF numChunks - nextChunkToRequest < WindowSize
    THEN numChunks - nextChunkToRequest ELSE WindowSize

SendBlock ==
  /\ FetcherStep("loop", "reply") /\ nextChunkToRequest < numChunks /\ ~clientClosed
  /\ Deliver(BlockRequest(nextChunkToRequest, nextChunkToRequest + NumToReceive))
  /\ UNCHANGED <<nextChunkToRequest, reachedEndOfFile, received, pieced, toClient,
                 clientClosed, serverClosed, broken>>

\* What one Xrecv returns is taken for the reply: k CIDs, all that are there or
\* fewer.  The rest then stays on its way.
ReceiveReply(k) ==
  /\ FetcherStep("reply", "loop") /\ ~clientClosed /\ toClient # << >>
  /\ received' = received \o SubSeq(toClient, 1, k)
  /\ toClient' = SubSeq(toClient, k + 1, Len(toClient))
  /\ pieced' = (pieced \/ k < Len(toClient))
  /\ nextChunkToRequest' = nextChunkToRequest + WindowSize
  /\ UNCHANGED <<reachedEndOfFile, toServer, clientClosed, serverClosed, broken>>

Abort == exitStatus' = "abort" /\ UNCHANGED fetcherPc

\* It ends within a CID: no server has a chunk of such a name, and the window is
\* requested for ever; or so early in it that substr(4) throws.
ReceivePartOfCid ==
  /\ ClientRuns /\ fetcherPc = "reply" /\ ~clientClosed /\ toClient # << >>
  /\ pieced' = TRUE
  /\ (fetcherPc' = "stuck" /\ UNCHANGED exitStatus) \/ Abort
  /\ UNCHANGED <<mainPc, numChunks, escaped, nextChunkToRequest, reachedEndOfFile, received,
                 streamVars, serverVars>>

\* More CIDs than chunkStatuses has room for, if what lies behind it matters.
OverrunStatuses ==
  /\ ClientRuns /\ fetcherPc = "reply" /\ ~clientClosed /\ Len(toClient) > WindowSize
  /\ Abort
  /\ UNCHANGED <<mainPc, numChunks, escaped, nextChunkToRequest, reachedEndOfFile, received,
                 pieced, streamVars, serverVars>>

\* Mutant of ReceiveNothing: the fetcher does not wait for the reply.
ReceiveTooSoon ==
  /\ FetcherStep("reply", "loop") /\ toClient = << >>
  /\ nextChunkToRequest' = nextChunkToRequest + WindowSize
  /\ UNCHANGED <<reachedEndOfFile, received, pieced, streamVars>>

\* Xrecv returns 0: an empty list of CIDs.
ReceiveNothing ==
  /\ FetcherStep("reply", "loop") /\ toClient = << >> /\ CanFail
  /\ nextChunkToRequest' = nextChunkToRequest + WindowSize
  /\ UNCHANGED <<reachedEndOfFile, received, pieced, streamVars>>

FetcherFails ==
  /\ \/ fetcherPc = "loop" /\ nextChunkToRequest < numChunks
     \/ fetcherPc = "reply"
  /\ ClientRuns /\ Fail /\ UNCHANGED <<mainPc, fetcherVars>>

Fetcher ==
  \/ ReachEndOfFile \/ SendBlock \/ ReceivePartOfCid \/ OverrunStatuses
  \/ ReceiveNothing \/ FetcherFails
  \/ \E k \in 1 .. Len(toClient) : ReceiveReply(k)
-----------------------------------------------------------------------------
(* The directory's thread.  Xrecv returns the first n requests on their    *)
(* way as one string, which is searched for "numchunks", then "done", then *)
(* "videos" (which this client never sends), and is a block request        *)
(* otherwise, of which the first is read.                                  *)

Some(n, kind) == \E i \in 1 .. n : toServer[i].kind = kind

Receive(n) ==
  /\ serverPc = "receive" /\ n \in 1 .. Len(toServer)
  /\ toServer' = SubSeq(toServer, n + 1, Len(toServer))
  /\ UNCHANGED <<mainVars, fetcherVars, clientClosed, broken>>

Reply(s) == toClient' = IF clientClosed \/ broken THEN toClient ELSE toClient \o s

AnswerNumChunks(n) ==
  /\ Receive(n) /\ Some(n, "numchunks")
  /\ videoName' = TRUE /\ Reply(<<[numChunks |-> ListSize]>>)
  /\ UNCHANGED <<serverPc, serverClosed>>

\* Mutant of Terminate: any unselected request ends the session.
TerminateOnAny(n) ==
  /\ Receive(n) /\ ~Some(n, "numchunks")
  /\ serverPc' = "finished" /\ serverClosed' = TRUE
  /\ UNCHANGED <<toClient, videoName>>

Terminate(n) ==
  /\ Receive(n) /\ ~Some(n, "numchunks") /\ Some(n, "done")
  /\ serverPc' = "finished" /\ serverClosed' = TRUE
  /\ UNCHANGED <<toClient, videoName>>

IsBlock(n) == Receive(n) /\ ~Some(n, "numchunks") /\ ~Some(n, "done")

\* Mutant of Cids: the end offset is taken to be included.
CidsInclusive(a, b) == [i \in 1 .. b + 1 - a |-> a + i - 1]

Cids(a, b) == [i \in 1 .. b - a |-> a + i - 1]

AnswerBlock(n) ==
  /\ IsBlock(n) /\ videoName /\ Head(toServer).to <= ListSize
  /\ Reply(Cids(Head(toServer).from, Head(toServer).to))
  /\ UNCHANGED <<serverVars, serverClosed>>

\* CIDlist[""] is a null pointer, and at() throws past the end of the list:
\* either ends the server's process, with all its sessions.
Crash(n) ==
  /\ IsBlock(n) /\ (~videoName \/ Head(toServer).to > ListSize)
  /\ serverPc' = "crashed" /\ serverClosed' = TRUE
  /\ UNCHANGED <<toClient, videoName>>

\* Mutant of ConnectionEnds: Xrecv is tried again.
ReceiveAgain ==
  /\ serverPc = "receive" /\ (broken \/ (clientClosed /\ toServer = << >>))
  /\ UNCHANGED vars

\* Xrecv returns 0 or an error.
ConnectionEnds ==
  /\ serverPc = "receive" /\ (broken \/ (clientClosed /\ toServer = << >>))
  /\ serverPc' = "finished" /\ serverClosed' = TRUE
  /\ UNCHANGED <<mainVars, fetcherVars, toServer, toClient, clientClosed, broken, videoName>>

Server ==
  \/ \E n \in 1 .. Len(toServer) :
       AnswerNumChunks(n) \/ Terminate(n) \/ AnswerBlock(n) \/ Crash(n)
  \/ ConnectionEnds

LoseConnection ==
  /\ ClientRuns /\ ~broken /\ broken' = TRUE
  /\ UNCHANGED <<mainVars, fetcherVars, toServer, toClient, clientClosed, serverClosed,
                 serverVars>>

Next == Main \/ Escape \/ Fetcher \/ Server \/ LoseConnection

Spec == Init /\ [][Next]_vars

\* All three threads are scheduled again and again; whether the user presses
\* Escape or the connection breaks is open.
FairSpec == Spec /\ WF_vars(Main) /\ WF_vars(Fetcher) /\ WF_vars(Server)
-----------------------------------------------------------------------------
Requests ==
  {NumChunksRequest, DoneRequest} \cup {BlockRequest(a, b) : a, b \in 0 .. ListSize}

TypeOK ==
  /\ mainPc \in {"ask", "info", "play", "done", "close", "return"}
  /\ numChunks \in 0 .. ListSize + 1 /\ exitStatus \in {"none", "0", "-1", "abort"}
  /\ escaped \in BOOLEAN /\ pieced \in BOOLEAN
  /\ fetcherPc \in {"off", "loop", "reply", "stuck", "finished"}
  /\ nextChunkToRequest \in Nat /\ reachedEndOfFile \in BOOLEAN
  /\ received \in Seq(0 .. ListSize - 1)
  /\ toServer \in Seq(Requests)
  /\ clientClosed \in BOOLEAN /\ serverClosed \in BOOLEAN /\ broken \in BOOLEAN
  /\ serverPc \in {"receive", "finished", "crashed"} /\ videoName \in BOOLEAN

\* No request of this client ends the server's process: a block is asked for
\* only of a selected video and within its list, even after a lost reply
\* (CidDirectoryServer.cpp:248).
ServerSurvives == serverPc # "crashed"

\* The windows' CIDs come in the order of the list and none twice, however replies
\* and requests are cut or joined on their way; and while replies come whole none is
\* left out between two of them, also when the connection is lost or closed.
WindowsInOrder ==
  /\ \A i, j \in DOMAIN received : i < j => received[i] < received[j]
  /\ ~pieced => \A i \in DOMAIN received : received[i] = i - 1

\* When the fetcher sees the end of the file, it has had the whole list, unless
\* the connection was lost, the session abandoned or a reply cut.
\* ChunkFetcher.h:77-79, "Server return format: CID:<CID 1> CID:<CID2> etc.
\* Receives the reply and returns ... the list of CIDs".
AllCidsAtEnd ==
  reachedEndOfFile /\ ~broken /\ ~escaped /\ ~pieced => Len(received) = ListSize

\* While replies come whole, nothing outgrows the room made for it: the fetcher
\* never gets more CIDs than chunkStatuses holds (ChunkFetcher.cpp:162), which is
\* less than half of its reply buffer (:338), nor half a CID (:153), and the server
\* never more than a block and "done" at once, some 30 of SIDReq's 1024 bytes
\* (CidDirectoryServer.cpp:166).
BuffersSuffice ==
  ~pieced => /\ Len(toClient) <= WindowSize /\ Len(toServer) <= 2
             /\ exitStatus # "abort" /\ fetcherPc # "stuck"

\* ClientConfig.cpp:3-5, "going higher than 50 breaks the program it would appear that
\* XRequestChunks cannot support > 50 chunks at a time": no window is longer.
WindowFits == [][Len(received') - Len(received) <= WindowSize]_vars

\* The fetcher's exit(-1) cannot overtake main's return: the process fails only
\* when the connection is lost, or when Escape takes the socket away from a
\* fetcher that still uses it.
FailsOnlyIfAbandoned == exitStatus = "-1" => broken \/ escaped

\* The server ends a session only when it is told to, also if "done" arrives
\* together with another request.
EndsWhenTold ==
  serverPc # "receive" /\ ~broken => mainPc \in {"close", "return"}

(***************************************************************************)
(* The inductive invariant behind them.                                    *)
(***************************************************************************)
Up == ~broken /\ ~serverClosed
Blocks == {i \in DOMAIN toServer : toServer[i].kind = "block"}

\* How far the two threads of the client and the server's have come.
Phases ==
  /\ serverClosed <=> serverPc # "receive"
  /\ fetcherPc = "off" <=> mainPc \in {"ask", "info"}
  /\ fetcherPc = "off" =>
       received = << >> /\ nextChunkToRequest = 0 /\ ~reachedEndOfFile /\ ~pieced
  /\ fetcherPc = "finished" <=> reachedEndOfFile
  /\ fetcherPc = "reply" => nextChunkToRequest < numChunks
  /\ mainPc \in {"done", "close", "return"} => reachedEndOfFile \/ escaped
  /\ clientClosed /\ ~broken => mainPc \in {"close", "return"}

\* What is on its way.
InTransit ==
  /\ mainPc = "ask" => toServer = << >> /\ toClient = << >>
  /\ mainPc = "info" =>
       /\ toServer \in {<< >>, <<NumChunksRequest>>}
       /\ toClient = << >>
            \/ (toServer = << >> /\ videoName /\ toClient = <<[numChunks |-> ListSize]>>)
  /\ fetcherPc # "off" => toClient \in Seq(0 .. ListSize - 1)
  /\ \A i \in DOMAIN toServer :
       /\ toServer[i].kind = "numchunks" => mainPc = "info" \/ broken
       /\ toServer[i].kind = "done" => mainPc \in {"close", "return"}
       /\ toServer[i].kind = "block" =>
            videoName /\ toServer[i].from < toServer[i].to /\ toServer[i].to <= ListSize

\* As long as the stream is up, the client knows the list's size.
SizeKnown == Up /\ fetcherPc # "off" => videoName /\ numChunks = ListSize

SafeInv ==
  /\ TypeOK /\ Phases /\ InTransit /\ SizeKnown
  /\ ServerSurvives /\ FailsOnlyIfAbandoned /\ EndsWhenTold

\* While all is up and replies come whole, what has been received and what is on its
\* way to the fetcher are the CIDs of the windows asked for, but for the one in a
\* pending request.
Upto(n) == IF n < ListSize THEN n ELSE ListSize
Served == IF fetcherPc = "off" THEN << >> ELSE received \o toClient

ServedInOrder ==
  /\ \A i \in DOMAIN Served : Served[i] = i - 1
  /\ Up /\ ~clientClosed =>
       /\ fetcherPc \in {"loop", "finished"} =>
            /\ Blocks = {} /\ toClient = << >>
            /\ Len(received) = Upto(nextChunkToRequest)
       /\ fetcherPc = "reply" /\ Blocks = {} =>
            /\ toClient # << >>
            /\ Len(received) + Len(toClient) = Upto(nextChunkToRequest + WindowSize)
       /\ \A i \in Blocks :
            /\ fetcherPc = "reply" /\ toClient = << >>
            /\ Len(received) = nextChunkToRequest
            /\ toServer[i] = BlockRequest(nextChunkToRequest,
                                         Upto(nextChunkToRequest + WindowSize))
            /\ \A j \in DOMAIN toServer : j # i => toServer[j].kind = "done"

\* However replies are cut: what has been received and is on its way, and then the
\* blocks still asked for, lie one behind the other, up to the last request made.
Limit == IF fetcherPc \in {"reply", "stuck"} THEN nextChunkToRequest + WindowSize
                                            ELSE nextChunkToRequest

ServedAscending ==
  /\ \A i, j \in DOMAIN Served : i < j => Served[i] < Served[j]
  /\ \A i \in DOMAIN Served : Served[i] < Limit
  /\ \A i \in Blocks :
       /\ toServer[i].to <= Limit
       /\ \A j \in DOMAIN Served : Served[j] < toServer[i].from
       /\ \A j \in Blocks : i < j => toServer[i].to <= toServer[j].from

\* "done" is on its way at most once.
DoneOnce ==
  \A i, j \in DOMAIN toServer : toServer[i].kind = "done" /\ toServer[j].kind = "done" => i = j

IInv ==
  /\ SafeInv /\ ServedAscending /\ (~pieced => ServedInOrder) /\ DoneOnce
  /\ BuffersSuffice /\ WindowsInOrder /\ AllCidsAtEnd

\* The client's process and the server's thread both end, also if replies come in
\* pieces, unless a CID is cut in two: no request is waited for on a closed stream,
\* and no session of a client that is gone is kept.
SessionEnds ==
  \/ <>(exitStatus # "none" /\ serverPc # "receive")
  \/ <>(exitStatus = "abort" \/ fetcherPc = "stuck")
=============================================================================
