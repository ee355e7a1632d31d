----------------------- MODULE DirectorySessionProofs -----------------------
(***************************************************************************)
(* Proofs about DirectorySession for lists and windows of any size.        *)
(***************************************************************************)
EXTENDS DirectorySession, SequenceTheorems, TLAPS

\* The requests on their way after one more has been sent: those before, and,
\* if the stream is up, the new one behind them.
LEMMA Sent ==
  ASSUME NEW r \in Requests, toServer \in Seq(Requests), Deliver(r)
  PROVE  /\ toServer' \in Seq(Requests)
         /\ \A i \in DOMAIN toServer' :
              \/ i \in DOMAIN toServer /\ toServer'[i] = toServer[i]
              \/ i = Len(toServer) + 1 /\ toServer'[i] = r /\ ~broken /\ ~serverClosed
         /\ \A i \in DOMAIN toServer : i \in DOMAIN toServer' /\ toServer'[i] = toServer[i]
         /\ ~broken /\ ~serverClosed =>
              Len(toServer) + 1 \in DOMAIN toServer' /\ toServer'[Len(toServer) + 1] = r
  <1>1. DOMAIN toServer = 1 .. Len(toServer) /\ Len(toServer) \in Nat
    BY LenProperties
  <1>2. CASE broken \/ serverClosed
    BY <1>2 DEF Deliver
  <1>3. CASE ~(broken \/ serverClosed)
    <2>1. toServer' = Append(toServer, r)
      BY <1>3 DEF Deliver
    <2>2. /\ toServer' \in Seq(Requests) /\ Len(toServer') = Len(toServer) + 1
          /\ \A i \in 1 .. Len(toServer) : toServer'[i] = toServer[i]
          /\ toServer'[Len(toServer) + 1] = r
      BY <2>1, AppendProperties
    <2>3. DOMAIN toServer' = 1 .. Len(toServer) + 1
      BY <2>2, LenProperties
    <2>4. QED
      BY <1>1, <1>3, <2>2, <2>3
  <1>4. QED
    BY <1>2, <1>3

\* The requests on their way after n have been received: those behind them.
LEMMA Taken ==
  ASSUME NEW n, toServer \in Seq(Requests), Receive(n)
  PROVE  /\ toServer' \in Seq(Requests)
         /\ n \in Nat \ {0} /\ 1 \in DOMAIN toServer /\ n <= Len(toServer)
         /\ \A i \in DOMAIN toServer' :
              i \in Nat \ {0} /\ i + n \in DOMAIN toServer /\ toServer'[i] = toServer[i + n]
  <1>1. /\ DOMAIN toServer = 1 .. Len(toServer) /\ Len(toServer) \in Nat
        /\ n \in 1 .. Len(toServer) /\ toServer' = SubSeq(toServer, n + 1, Len(toServer))
    BY LenProperties DEF Receive
  <1>2. \A i \in n + 1 .. Len(toServer) : toServer[i] \in Requests
    BY <1>1, ElementOfSeq
  <1>3. CASE n + 1 <= Len(toServer)
    <2>1. /\ toServer' \in Seq(Requests) /\ Len(toServer') = Len(toServer) - (n + 1) + 1
          /\ \A i \in 1 .. Len(toServer) - (n + 1) + 1 :
               toServer'[i] = toServer[(n + 1) + i - 1]
      BY <1>1, <1>2, <1>3, SubSeqProperties
    <2>2. DOMAIN toServer' = 1 .. Len(toServer) - n
      <3>1. Len(toServer') = Len(toServer) - n
        BY <1>1, <2>1
      <3>2. DOMAIN toServer' = 1 .. Len(toServer')
        BY <2>1, LenProperties
      <3>3. QED
        BY <3>1, <3>2
    <2>3. ASSUME NEW i \in 1 .. Len(toServer) - n
          PROVE  /\ i \in Nat \ {0} /\ i + n \in 1 .. Len(toServer)
                 /\ toServer'[i] = toServer[i + n]
      <3>1. (n + 1) + i - 1 = i + n /\ i \in 1 .. Len(toServer) - (n + 1) + 1
        BY <1>1
      <3>2. QED
        BY <1>1, <2>1, <3>1
    <2>4. QED
      BY <1>1, <2>1, <2>2, <2>3
  <1>4. CASE ~(n + 1 <= Len(toServer))
    <2>1. toServer' = << >>
      BY <1>1, <1>4, SubSeqProperties
    <2>2. QED
      BY <1>1, <2>1
  <1>5. QED
    BY <1>1, <1>3, <1>4

\* What each kind of request looks like.
LEMMA RequestKinds ==
  ASSUME NEW r \in Requests
  PROVE  /\ r.kind \in {"numchunks", "done", "block"}
         /\ r.kind = "block" => /\ r.from \in 0 .. ListSize /\ r.to \in 0 .. ListSize
                                /\ r = BlockRequest(r.from, r.to)
  BY DEF Requests, NumChunksRequest, DoneRequest, BlockRequest

\* The CIDs of a block within the list.
LEMMA BlockCids ==
  ASSUME NEW a \in Nat, NEW b \in 0 .. ListSize, a < b
  PROVE  /\ Cids(a, b) \in Seq(0 .. ListSize - 1) /\ Len(Cids(a, b)) = b - a
         /\ \A i \in 1 .. b - a : Cids(a, b)[i] = a + i - 1
  <1>1. b - a \in Nat /\ \A i \in 1 .. b - a : a + i - 1 \in 0 .. ListSize - 1
    BY SessionAssumption
  <1>2. Cids(a, b) = [i \in 1 .. b - a |-> a + i - 1]
    BY DEF Cids
  <1>3. QED
    BY <1>1, <1>2

\* Joining what has been received and what is on its way, and taking the first
\* CIDs off, gives lists of CIDs of the expected lengths.
LEMMA Joined ==
  ASSUME NEW s \in Seq(0 .. ListSize - 1), NEW t \in Seq(0 .. ListSize - 1)
  PROVE  /\ s \o t \in Seq(0 .. ListSize - 1) /\ Len(s \o t) = Len(s) + Len(t)
         /\ \A i \in 1 .. Len(s) + Len(t) :
              (s \o t)[i] = IF i <= Len(s) THEN s[i] ELSE t[i - Len(s)]
  BY ConcatProperties

\* In which order lists of CIDs are joined does not matter.
LEMMA JoinedInTurn ==
  ASSUME NEW s \in Seq(0 .. ListSize - 1), NEW t \in Seq(0 .. ListSize - 1),
         NEW u \in Seq(0 .. ListSize - 1)
  PROVE  (s \o t) \o u = s \o (t \o u)
  BY ConcatAssociative

\* A first part of a list of CIDs and its rest are such lists again, and together
\* the list; the first part that is all of it leaves nothing.
LEMMA CutOff ==
  ASSUME NEW s \in Seq(0 .. ListSize - 1), NEW k \in 1 .. Len(s)
  PROVE  /\ SubSeq(s, 1, k) \in Seq(0 .. ListSize - 1)
         /\ SubSeq(s, k + 1, Len(s)) \in Seq(0 .. ListSize - 1)
         /\ k = Len(s) => SubSeq(s, 1, k) = s /\ SubSeq(s, k + 1, Len(s)) = << >>
         /\ SubSeq(s, 1, k) \o SubSeq(s, k + 1, Len(s)) = s
  <1>1. DOMAIN s = 1 .. Len(s) /\ Len(s) \in Nat /\ k \in Nat
    BY LenProperties
  <1>2. \A i \in 1 .. Len(s) : s[i] \in 0 .. ListSize - 1
    BY <1>1, ElementOfSeq
  <1>3. SubSeq(s, 1, k) \in Seq(0 .. ListSize - 1) /\ Len(SubSeq(s, 1, k)) = k
        /\ \A i \in 1 .. k : SubSeq(s, 1, k)[i] = s[i]
    <2>1. \A i \in 1 .. k : s[i] \in 0 .. ListSize - 1
      BY <1>1, <1>2
    <2>2. 1 \in Int /\ k \in Int /\ 1 <= k /\ k - 1 + 1 = k /\ \A i \in 1 .. k : 1 + i - 1 = i
      BY <1>1
    <2>3. QED
      BY <2>1, <2>2, SubSeqProperties
  <1>4. /\ SubSeq(s, k + 1, Len(s)) \in Seq(0 .. ListSize - 1)
        /\ k = Len(s) => SubSeq(s, k + 1, Len(s)) = << >>
    <2>1. CASE k + 1 <= Len(s)
      <3>1. \A i \in k + 1 .. Len(s) : s[i] \in 0 .. ListSize - 1
        BY <1>1, <1>2
      <3>2. SubSeq(s, k + 1, Len(s)) \in Seq(0 .. ListSize - 1)
        BY <1>1, <2>1, <3>1, SubSeqProperties
      <3>3. k # Len(s)
        <4>1. \A a, b \in Nat : a + 1 <= b => a # b
          OBVIOUS
        <4>2. QED
          BY ONLY <1>1, <2>1, <4>1
      <3>4. QED
        BY ONLY <3>2, <3>3
    <2>2. CASE ~(k + 1 <= Len(s))
      <3>1. SubSeq(s, k + 1, Len(s)) = << >>
        BY <1>1, <2>2, SubSeqProperties
      <3>2. << >> \in Seq(0 .. ListSize - 1)
        BY EmptySeq
      <3>3. QED
        BY <3>1, <3>2
    <2>3. QED
      BY <2>1, <2>2
  <1>5. k = Len(s) => SubSeq(s, 1, k) = s
    BY <1>1, <1>3, SeqEqual
  <1>6. SubSeq(s, 1, k) \o SubSeq(s, k + 1, Len(s)) = s
    <2>1. /\ 1 \in 1 .. Len(s) + 1 /\ k \in 1 - 1 .. Len(s) /\ Len(s) \in k .. Len(s)
      BY <1>1
    <2>2. SubSeq(s, 1, k) \o SubSeq(s, k + 1, Len(s)) = SubSeq(s, 1, Len(s))
      BY <2>1, ConcatAdjacentSubSeq
    <2>3. QED
      BY <2>2, SubSeqFull
  <1>7. QED
    BY <1>3, <1>4, <1>5, <1>6

\* Every state reached is well typed, a request on its way can be served, and the
\* process fails only when the connection is lost or the session abandoned.
LEMMA InitIsSafe == Init => SafeInv
  <1> SUFFICES ASSUME Init PROVE SafeInv
    OBVIOUS
  <1>1. << >> \in Seq(Requests) /\ << >> \in Seq(0 .. ListSize - 1)
    BY EmptySeq
  <1>2. TypeOK
    <2>1. received \in Seq(0 .. ListSize - 1) /\ toServer \in Seq(Requests)
      BY <1>1 DEF Init
    <2>2. numChunks \in 0 .. ListSize + 1 /\ nextChunkToRequest \in Nat
      BY SessionAssumption DEF Init
    <2>3. QED
      BY <2>1, <2>2 DEF Init, TypeOK
  <1>3. \A i \in DOMAIN toServer : FALSE
    BY DEF Init
  <1>4. Phases /\ InTransit /\ SizeKnown
    BY <1>3 DEF Init, Phases, InTransit, SizeKnown
  <1>5. QED
    BY <1>2, <1>4 DEF Init, SafeInv, ServerSurvives, FailsOnlyIfAbandoned, EndsWhenTold

\* The actions of the client's main thread and the user keep it.
LEMMA MainIsSafe ==
  ASSUME SafeInv, Main \/ Escape \/ LoseConnection \/ UNCHANGED vars
  PROVE  SafeInv'
  <1> USE SessionAssumption DEF MainStep, mainVars, fetcherVars, streamVars, serverVars
  <1> USE DEF SafeInv, TypeOK, Phases, InTransit, SizeKnown, Up, ServerSurvives,
              FailsOnlyIfAbandoned, EndsWhenTold
  <1>1. CASE AskNumChunks
    <2>1. NumChunksRequest \in Requests /\ NumChunksRequest.kind = "numchunks"
      BY DEF Requests, NumChunksRequest
    <2>2. /\ toServer = << >> /\ toServer' \in {<< >>, <<NumChunksRequest>>}
          /\ toServer' \in Seq(Requests)
          /\ \A i \in DOMAIN toServer' : toServer'[i] = NumChunksRequest
      BY <1>1, <2>1, Sent DEF AskNumChunks, Deliver
    <2>3. QED
      BY <1>1, <2>1, <2>2 DEF AskNumChunks
  <1>2. CASE ReceiveVideoInformation
    <2>1. toClient' = << >> /\ numChunks' \in 0 .. ListSize + 1
          /\ (Up => videoName /\ numChunks' = ListSize)
          /\ (toServer # << >> => ~Up)
      <3>1. CASE toClient # << >>
        <4>1. toServer = << >> /\ videoName /\ toClient = <<[numChunks |-> ListSize]>>
          BY <1>2, <3>1 DEF ReceiveVideoInformation
        <4>2. numChunks' = Head(toClient).numChunks /\ toClient' = Tail(toClient)
          BY <1>2, <3>1 DEF ReceiveVideoInformation
        <4>3. numChunks' = ListSize /\ toClient' = << >>
          BY ONLY <4>1, <4>2
        <4>4. QED
          BY <4>1, <4>3
      <3>2. CASE toClient = << >>
        BY <1>2, <3>2 DEF ReceiveVideoInformation, CanFail
      <3>3. QED
        BY <3>1, <3>2
    <2>2. << >> \in Seq(0 .. ListSize - 1)
      BY EmptySeq
    <2>3. QED
      BY <1>2, <2>1, <2>2 DEF ReceiveVideoInformation, CanFail
  <1>3. CASE PlayToTheEnd
    BY <1>3 DEF PlayToTheEnd
  <1>4. CASE Escape
    BY <1>4 DEF Escape
  <1>5. CASE SendDone
    <2>1. DoneRequest \in Requests /\ DoneRequest.kind = "done"
      BY DEF Requests, DoneRequest
    <2>2. Deliver(DoneRequest)
      BY <1>5 DEF SendDone
    <2>3. QED
      BY <1>5, <2>1, <2>2, Sent DEF SendDone
  <1>6. CASE Close
    BY <1>6 DEF Close
  <1>7. CASE ReturnFromMain
    BY <1>7 DEF ReturnFromMain
  <1>8. CASE MainFails
    BY <1>8 DEF MainFails, Fail, CanFail
  <1>9. CASE LoseConnection
    BY <1>9 DEF LoseConnection
  <1>10. CASE UNCHANGED vars
    BY <1>10 DEF vars
  <1>11. QED
    BY <1>1, <1>2, <1>3, <1>4, <1>5, <1>6, <1>7, <1>8, <1>9, <1>10 DEF Main

\* What is sent for the next window: a block within the list, if it is sent.
LEMMA BlockSent ==
  ASSUME SafeInv, SendBlock
  PROVE  LET r == BlockRequest(nextChunkToRequest, nextChunkToRequest + NumToReceive)
         IN  /\ Up => /\ r \in Requests /\ r.kind = "block" /\ r.from < r.to
                      /\ r.to <= ListSize /\ videoName
                      /\ r = BlockRequest(nextChunkToRequest,
                                         Upto(nextChunkToRequest + WindowSize))
             /\ Deliver(r)
  <1>1. CASE Up
    <2>1. numChunks = ListSize /\ videoName /\ nextChunkToRequest \in Nat
          /\ nextChunkToRequest < ListSize
      BY <1>1 DEF SafeInv, TypeOK, SizeKnown, SendBlock, FetcherStep
    <2>2. /\ nextChunkToRequest + NumToReceive = Upto(nextChunkToRequest + WindowSize)
          /\ nextChunkToRequest + NumToReceive \in 0 .. ListSize
          /\ nextChunkToRequest < nextChunkToRequest + NumToReceive
          /\ nextChunkToRequest \in 0 .. ListSize
      BY <2>1, SessionAssumption DEF NumToReceive, Upto
    <2>3. QED
      BY <2>1, <2>2 DEF SendBlock, Requests, BlockRequest
  <1>2. CASE ~Up
    BY <1>2 DEF SendBlock
  <1>3. QED
    BY <1>1, <1>2

\* The actions of the fetcher thread keep it.
LEMMA FetcherIsSafe ==
  ASSUME SafeInv, Fetcher
  PROVE  SafeInv'
  <1> USE SessionAssumption DEF FetcherStep, mainVars, fetcherVars, streamVars, serverVars
  <1> USE DEF SafeInv, TypeOK, Phases, InTransit, SizeKnown, Up, ServerSurvives,
              FailsOnlyIfAbandoned, EndsWhenTold
  <1>1. CASE ReachEndOfFile
    BY <1>1 DEF ReachEndOfFile
  <1>2. CASE SendBlock
    <2> DEFINE r == BlockRequest(nextChunkToRequest, nextChunkToRequest + NumToReceive)
    <2>1. /\ toServer' \in Seq(Requests)
          /\ \A i \in DOMAIN toServer' :
               \/ i \in DOMAIN toServer /\ toServer'[i] = toServer[i]
               \/ /\ toServer'[i].kind = "block" /\ videoName
                  /\ toServer'[i].from < toServer'[i].to
                  /\ toServer'[i].to <= ListSize
      <3>1. CASE Up
        BY <1>2, <3>1, BlockSent, Sent
      <3>2. CASE ~Up
        BY <1>2, <3>2, BlockSent DEF Deliver
      <3>3. QED
        BY <3>1, <3>2
    <2>2. QED
      BY <1>2, <2>1 DEF SendBlock
  <1>3. CASE ReceiveNothing
    BY <1>3 DEF ReceiveNothing
  <1>4. CASE FetcherFails
    BY <1>4 DEF FetcherFails, Fail, CanFail
  <1>5. ASSUME NEW k \in 1 .. Len(toClient), ReceiveReply(k) PROVE SafeInv'
    <2>1. toClient \in Seq(0 .. ListSize - 1) /\ received \in Seq(0 .. ListSize - 1)
      BY <1>5 DEF ReceiveReply
    <2>2. received' \in Seq(0 .. ListSize - 1) /\ toClient' \in Seq(0 .. ListSize - 1)
      <3>1. /\ SubSeq(toClient, 1, k) \in Seq(0 .. ListSize - 1)
            /\ SubSeq(toClient, k + 1, Len(toClient)) \in Seq(0 .. ListSize - 1)
        BY <2>1, CutOff
      <3>2. received \o SubSeq(toClient, 1, k) \in Seq(0 .. ListSize - 1)
        BY <2>1, <3>1, Joined
      <3>3. /\ received' = received \o SubSeq(toClient, 1, k)
            /\ toClient' = SubSeq(toClient, k + 1, Len(toClient))
        BY <1>5 DEF ReceiveReply
      <3>4. QED
        BY <3>1, <3>2, <3>3
    <2>3. pieced' \in BOOLEAN
      BY <1>5 DEF ReceiveReply
    <2>4. nextChunkToRequest' \in Nat
      BY <1>5 DEF ReceiveReply
    <2>5. QED
      BY <1>5, <2>2, <2>3, <2>4 DEF ReceiveReply
  <1>6. CASE ReceivePartOfCid
    <2>1. pieced' \in BOOLEAN
      BY <1>6 DEF ReceivePartOfCid
    <2>2. CASE fetcherPc' = "stuck" /\ UNCHANGED exitStatus
      BY <1>6, <2>1, <2>2 DEF ReceivePartOfCid
    <2>3. CASE Abort
      BY <1>6, <2>1, <2>3 DEF ReceivePartOfCid, Abort
    <2>4. QED
      BY <1>6, <2>2, <2>3 DEF ReceivePartOfCid
  <1>7. CASE OverrunStatuses
    BY <1>7 DEF OverrunStatuses, Abort
  <1>8. QED
    BY <1>1, <1>2, <1>3, <1>4, <1>5, <1>6, <1>7 DEF Fetcher

\* The actions of the directory's thread keep it: in particular it never crashes.
LEMMA ServerIsSafe ==
  ASSUME SafeInv, Server
  PROVE  SafeInv'
  <1> USE SessionAssumption DEF mainVars, fetcherVars, streamVars, serverVars
  <1> USE DEF SafeInv, TypeOK, Phases, InTransit, SizeKnown, Up, ServerSurvives,
              FailsOnlyIfAbandoned, EndsWhenTold
  <1>1. ASSUME NEW n \in 1 .. Len(toServer), AnswerNumChunks(n) PROVE SafeInv'
    <2>1. Receive(n)
      BY <1>1 DEF AnswerNumChunks
    <2>2. mainPc = "info" \/ broken
      <3>1. PICK i \in 1 .. n : toServer[i].kind = "numchunks"
        BY <1>1 DEF AnswerNumChunks, Some
      <3>2. i \in DOMAIN toServer
        BY <2>1, <3>1, LenProperties DEF Receive
      <3>3. QED
        BY <3>1, <3>2
    <2>3. CASE mainPc = "info"
      <3>1. toServer = <<NumChunksRequest>> /\ toClient = << >> /\ toServer' = << >>
        <4>1. toServer # << >>
          BY <1>1
        <4>2. n = 1 /\ toServer = <<NumChunksRequest>> /\ toClient = << >>
          BY <1>1, <2>3, <4>1
        <4>3. QED
          BY <4>2, <2>1 DEF Receive
      <3>2. toClient' \in {<< >>, <<[numChunks |-> ListSize]>>}
        BY <1>1, <3>1 DEF AnswerNumChunks, Reply
      <3>3. << >> \in Seq(Requests)
        BY EmptySeq
      <3>4. videoName' /\ UNCHANGED <<serverPc, serverClosed, mainVars, fetcherVars,
                                       clientClosed, broken>>
        BY <1>1, <2>1 DEF AnswerNumChunks, Receive
      <3>5. \A i \in DOMAIN toServer' : FALSE
        BY <3>1
      <3>6. TypeOK'
        BY <3>1, <3>3, <3>4
      <3>7. InTransit'
        BY <2>3, <3>1, <3>2, <3>4, <3>5
      <3>8. Phases' /\ SizeKnown'
        BY <2>3, <3>4
      <3>9. ServerSurvives' /\ FailsOnlyIfAbandoned' /\ EndsWhenTold'
        BY <3>4
      <3>10. QED
        BY <3>6, <3>7, <3>8, <3>9, Zenon
    <2>4. CASE mainPc # "info"
      <3>1. toClient' = toClient /\ broken
        BY <1>1, <2>2, <2>4 DEF AnswerNumChunks, Reply
      <3>2. mainPc # "ask"
        BY <1>1, <2>1
      <3>3. videoName' /\ UNCHANGED <<serverPc, serverClosed, mainVars, fetcherVars,
                                       clientClosed, broken>>
        BY <1>1, <2>1 DEF AnswerNumChunks, Receive
      <3>4. /\ toServer' \in Seq(Requests)
            /\ \A i \in DOMAIN toServer' :
                 i + n \in DOMAIN toServer /\ toServer'[i] = toServer[i + n]
        BY <2>1, Taken
      <3>5. TypeOK'
        BY <3>3, <3>4
      <3>6. InTransit'
        BY <2>4, <3>1, <3>2, <3>3, <3>4
      <3>7. QED
        BY <3>1, <3>3, <3>5, <3>6
    <2>5. QED
      BY <2>3, <2>4
  <1>2. ASSUME NEW n \in 1 .. Len(toServer), Terminate(n) PROVE SafeInv'
    <2>1. Receive(n) /\ mainPc \in {"close", "return"}
      <3>1. PICK i \in 1 .. n : toServer[i].kind = "done"
        BY <1>2 DEF Terminate, Some
      <3>2. i \in DOMAIN toServer
        BY <1>2, <3>1, LenProperties DEF Terminate, Receive
      <3>3. QED
        BY <1>2, <3>1, <3>2 DEF Terminate
    <2>2. QED
      BY <1>2, <2>1, Taken DEF Terminate, Receive
  <1>3. ASSUME NEW n \in 1 .. Len(toServer), IsBlock(n)
        PROVE  LET r == Head(toServer)
               IN  /\ r = toServer[1] /\ r \in Requests /\ r.kind = "block"
                   /\ videoName /\ r.from < r.to /\ r.to <= ListSize /\ r.from \in Nat
                   /\ r.to \in 0 .. ListSize /\ fetcherPc # "off"
    <2>1. 1 \in DOMAIN toServer /\ 1 \in 1 .. n /\ toServer # << >>
      BY <1>3, Taken DEF IsBlock
    <2>2. toServer[1] \in Requests /\ Head(toServer) = toServer[1]
      BY <2>1, ElementOfSeq, LenProperties
    <2>3. toServer[1].kind = "block"
      BY <1>3, <2>1, <2>2, RequestKinds DEF IsBlock, Some
    <2>4. fetcherPc # "off"
      <3>1. mainPc # "ask"
        BY <2>1
      <3>2. mainPc # "info"
        BY <2>1, <2>3 DEF NumChunksRequest
      <3>3. QED
        BY <3>1, <3>2
    <2>5. QED
      BY <2>1, <2>2, <2>3, <2>4, RequestKinds
  <1>4. ASSUME NEW n \in 1 .. Len(toServer), AnswerBlock(n) PROVE SafeInv'
    <2>1. Receive(n) /\ IsBlock(n)
      BY <1>4 DEF AnswerBlock, IsBlock
    <2>2. toClient' \in Seq(0 .. ListSize - 1)
      <3>1. Cids(Head(toServer).from, Head(toServer).to) \in Seq(0 .. ListSize - 1)
        BY <1>3, <2>1, BlockCids
      <3>2. toClient \in Seq(0 .. ListSize - 1)
        BY <1>3, <2>1
      <3>3. /\ toClient \o Cids(Head(toServer).from, Head(toServer).to)
                 \in Seq(0 .. ListSize - 1)
        BY <3>1, <3>2, Joined
      <3>4. QED
        BY <1>4, <3>2, <3>3 DEF AnswerBlock, Reply
    <2>3. fetcherPc # "off"
      BY <1>3, <2>1
    <2>4. QED
      BY <1>4, <2>1, <2>2, <2>3, Taken DEF AnswerBlock, Receive
  <1>5. ASSUME NEW n \in 1 .. Len(toServer), Crash(n) PROVE FALSE
    BY <1>3, <1>5 DEF Crash
  <1>6. CASE ConnectionEnds
    BY <1>6 DEF ConnectionEnds
  <1>7. QED
    BY <1>1, <1>2, <1>4, <1>5, <1>6 DEF Server

\* No request of this client ends the directory's process, the client's process
\* fails only when it should, and the directory ends no session untold
\* (CidDirectoryServer.cpp:151-258), however the stream cuts the replies.
THEOREM SessionIsSafe == Spec => []SafeInv
  <1>1. SafeInv /\ [Next]_vars => SafeInv'
    BY MainIsSafe, FetcherIsSafe, ServerIsSafe DEF Next
  <1>2. QED
    BY InitIsSafe, <1>1, PTL DEF Spec

\* The directory's process survives every request that the client's two threads
\* can send (CidDirectoryServer.cpp:242-249), also after a lost reply.
THEOREM DirectorySurvives == Spec => []ServerSurvives
  BY SessionIsSafe, PTL DEF SafeInv

\* The client's process fails only on a lost or abandoned session, however main's
\* shutdown interleaves with the fetcher thread (VideoClient.cpp:82-86).
THEOREM ClientFailsWithCause == Spec => []FailsOnlyIfAbandoned
  BY SessionIsSafe, PTL DEF SafeInv

\* The directory ends a session on a live connection only after main has sent
\* "done" (CidDirectoryServer.cpp:216-218).
THEOREM DirectoryEndsWhenTold == Spec => []EndsWhenTold
  BY SessionIsSafe, PTL DEF SafeInv

\* A step that changes nothing of the fetcher and of what is on its way, and opens
\* nothing again, keeps the order.
LEMMA OrderUntouched ==
  ASSUME ServedInOrder, UNCHANGED <<fetcherPc, nextChunkToRequest, received, toClient>>,
         \/ toServer' = toServer
         \/ ~(Up' /\ ~clientClosed'),
         (Up' /\ ~clientClosed') => (Up /\ ~clientClosed)
  PROVE  ServedInOrder'
  <1>1. Served' = Served
    BY DEF Served
  <1>2. CASE ~(Up' /\ ~clientClosed')
    BY <1>1, <1>2 DEF ServedInOrder
  <1>3. CASE (Up' /\ ~clientClosed') /\ toServer' = toServer
    BY <1>1, <1>3 DEF ServedInOrder, Blocks
  <1>4. QED
    BY <1>2, <1>3

\* The actions of the client's main thread and the user keep the order.
LEMMA MainKeepsOrder ==
  ASSUME SafeInv, ServedInOrder, Main \/ Escape \/ LoseConnection \/ UNCHANGED vars
  PROVE  ServedInOrder'
  <1> USE DEF MainStep, mainVars, fetcherVars, streamVars, serverVars
  <1>1. CASE AskNumChunks
    <2>1. toServer = << >> /\ fetcherPc = "off" /\ fetcherPc' = "off"
      BY <1>1 DEF AskNumChunks, SafeInv, Phases, InTransit
    <2>2. \A j \in DOMAIN toServer' : toServer'[j].kind = "numchunks"
      BY <1>1, <2>1 DEF AskNumChunks, Deliver, NumChunksRequest
    <2>3. Served' = << >> /\ Blocks' = {}
      BY <2>1, <2>2 DEF Served, Blocks
    <2>4. QED
      BY <2>1, <2>3 DEF ServedInOrder
  <1>2. CASE ReceiveVideoInformation
    <2>1. /\ received' = << >> /\ nextChunkToRequest' = 0 /\ fetcherPc' = "loop"
          /\ UNCHANGED <<toServer, broken, serverClosed, clientClosed>>
          /\ toServer \in {<< >>, <<NumChunksRequest>>}
      BY <1>2 DEF ReceiveVideoInformation, SafeInv, Phases, InTransit
    <2>2. toClient' = << >>
      BY <1>2 DEF ReceiveVideoInformation, SafeInv, InTransit
    <2>3. Blocks' = {}
      BY <2>1 DEF Blocks, NumChunksRequest
    <2>4. Served' = << >> /\ Len(received') = 0 /\ Upto(0) = 0
      <3>1. Served' = << >> \o << >>
        BY <2>1, <2>2 DEF Served
      <3>2. << >> \o << >> = << >>
        OBVIOUS
      <3>3. QED
        BY <2>1, <3>1, <3>2, SessionAssumption, EmptySeq DEF Upto
    <2>5. QED
      BY <2>1, <2>2, <2>3, <2>4 DEF ServedInOrder
  <1>3. CASE PlayToTheEnd
    BY <1>3, OrderUntouched DEF PlayToTheEnd, Up
  <1>4. CASE Escape
    BY <1>4, OrderUntouched DEF Escape, Up
  <1>5. CASE SendDone
    <2>1. DoneRequest \in Requests /\ DoneRequest.kind = "done" /\ Deliver(DoneRequest)
      BY <1>5 DEF SendDone, Requests, DoneRequest
    <2>2. UNCHANGED <<fetcherPc, nextChunkToRequest, received, toClient,
                      clientClosed, serverClosed, broken>>
      BY <1>5 DEF SendDone
    <2>3. \A i \in DOMAIN toServer' :
            \/ i \in DOMAIN toServer /\ toServer'[i] = toServer[i]
            \/ toServer'[i] = DoneRequest
      BY <2>1, Sent DEF SafeInv, TypeOK
    <2>4. \A i \in DOMAIN toServer : i \in DOMAIN toServer' /\ toServer'[i] = toServer[i]
      BY <2>1, Sent DEF SafeInv, TypeOK
    <2>5. Blocks' = Blocks /\ \A i \in Blocks : toServer'[i] = toServer[i]
      BY <2>1, <2>3, <2>4 DEF Blocks
    <2>6. Served' = Served
      BY <2>2 DEF Served
    <2>7. QED
      BY <2>1, <2>2, <2>3, <2>5, <2>6 DEF ServedInOrder, Up
  <1>6. CASE Close
    BY <1>6, OrderUntouched DEF Close, Up
  <1>7. CASE ReturnFromMain
    BY <1>7, OrderUntouched DEF ReturnFromMain, Up
  <1>8. CASE MainFails
    BY <1>8, OrderUntouched DEF MainFails, Fail, Up
  <1>9. CASE LoseConnection
    BY <1>9, OrderUntouched DEF LoseConnection, Up
  <1>10. CASE UNCHANGED vars
    BY <1>10, OrderUntouched DEF vars, Up
  <1>11. QED
    BY <1>1, <1>2, <1>3, <1>4, <1>5, <1>6, <1>7, <1>8, <1>9, <1>10 DEF Main

\* The actions of the fetcher thread keep the order, as long as an Xrecv returns all
\* of a reply.
LEMMA FetcherKeepsOrder ==
  ASSUME SafeInv, ServedInOrder, ~pieced', Fetcher
  PROVE  ServedInOrder'
  <1> USE DEF FetcherStep, mainVars, fetcherVars, streamVars, serverVars
  <1>1. CASE ReachEndOfFile
    <2>1. Served' = Served
      BY <1>1 DEF ReachEndOfFile, Served
    <2>2. QED
      BY <1>1, <2>1 DEF ReachEndOfFile, ServedInOrder, Up, Blocks
  <1>2. CASE SendBlock
    <2> DEFINE r == BlockRequest(nextChunkToRequest, nextChunkToRequest + NumToReceive)
    <2>1. /\ UNCHANGED <<nextChunkToRequest, received, toClient, broken, serverClosed,
                         clientClosed>>
          /\ fetcherPc = "loop" /\ fetcherPc' = "reply"
      BY <1>2 DEF SendBlock
    <2>2. Served' = Served
      BY <2>1 DEF Served
    <2>3. CASE ~(Up /\ ~clientClosed)
      BY <2>1, <2>2, <2>3 DEF ServedInOrder, Up
    <2>4. CASE Up /\ ~clientClosed
      <3>1. Blocks = {} /\ toClient = << >> /\ Len(received) = nextChunkToRequest
        <4>1. nextChunkToRequest < ListSize /\ nextChunkToRequest \in Nat
          BY <1>2, <2>4 DEF SendBlock, SafeInv, SizeKnown, TypeOK
        <4>2. QED
          BY <2>1, <2>4, <4>1, SessionAssumption DEF ServedInOrder, Upto
      <3>2. /\ r \in Requests /\ r.kind = "block" /\ Deliver(r)
            /\ r = BlockRequest(nextChunkToRequest, Upto(nextChunkToRequest + WindowSize))
        BY <1>2, <2>4, BlockSent
      <3>3. \A j \in DOMAIN toServer : toServer[j].kind = "done"
        <4>1. \A j \in DOMAIN toServer : toServer[j] \in Requests
          BY ElementOfSeq, LenProperties DEF SafeInv, TypeOK
        <4>2. mainPc # "info"
          BY <2>1 DEF SafeInv, Phases
        <4>3. \A j \in DOMAIN toServer :
                 toServer[j].kind # "block" /\ toServer[j].kind # "numchunks"
          BY <2>4, <3>1, <4>2 DEF Blocks, SafeInv, InTransit, Up
        <4>4. QED
          BY <4>1, <4>3, RequestKinds
      <3>4. /\ \A j \in DOMAIN toServer' :
                 \/ j \in DOMAIN toServer /\ toServer'[j] = toServer[j]
                 \/ j = Len(toServer) + 1 /\ toServer'[j] = r
            /\ Len(toServer) + 1 \in DOMAIN toServer'
            /\ toServer'[Len(toServer) + 1] = r
        BY <2>4, <3>2, Sent DEF SafeInv, TypeOK, Up
      <3>5. /\ Blocks' = {Len(toServer) + 1}
            /\ \A j \in DOMAIN toServer' :
                 j # Len(toServer) + 1 => toServer'[j].kind = "done"
        BY <3>2, <3>3, <3>4 DEF Blocks
      <3>6. \A i \in Blocks' : toServer'[i] =
               BlockRequest(nextChunkToRequest, Upto(nextChunkToRequest + WindowSize))
        BY <3>2, <3>4, <3>5
      <3>7. QED
        BY <2>1, <2>2, <3>1, <3>5, <3>6 DEF ServedInOrder
    <2>5. QED
      BY <2>3, <2>4
  <1>3. CASE ReceiveNothing
    <2>1. Served' = Served /\ ~(Up' /\ ~clientClosed')
      BY <1>3 DEF ReceiveNothing, Served, CanFail, Up
    <2>2. QED
      BY <2>1 DEF ServedInOrder
  <1>4. CASE FetcherFails
    BY <1>4, OrderUntouched DEF FetcherFails, Fail, Up
  <1>5. ASSUME NEW k \in 1 .. Len(toClient), ReceiveReply(k) PROVE ServedInOrder'
    <2>1. /\ toClient \in Seq(0 .. ListSize - 1) /\ received \in Seq(0 .. ListSize - 1)
          /\ toClient # << >> /\ fetcherPc = "reply" /\ fetcherPc' = "loop"
          /\ nextChunkToRequest' = nextChunkToRequest + WindowSize
          /\ UNCHANGED <<toServer, broken, serverClosed, clientClosed>>
      BY <1>5 DEF ReceiveReply, SafeInv, TypeOK, Phases, InTransit
    <2>2. received' = received \o toClient /\ toClient' = << >>
      <3>1. k = Len(toClient)
        <4>1. ~(k < Len(toClient)) /\ k \in 1 .. Len(toClient) /\ Len(toClient) \in Nat
          BY <1>5, <2>1, LenProperties DEF ReceiveReply
        <4>2. QED
          BY ONLY <4>1
      <3>2. SubSeq(toClient, 1, k) = toClient
            /\ SubSeq(toClient, k + 1, Len(toClient)) = << >>
        BY <2>1, <3>1, CutOff
      <3>3. QED
        BY <1>5, <3>2 DEF ReceiveReply
    <2>3. /\ received \o toClient \in Seq(0 .. ListSize - 1)
          /\ Len(received \o toClient) = Len(received) + Len(toClient)
      BY <2>1, Joined
    <2>4. Served' = Served
      <3>1. (received \o toClient) \o << >> = received \o toClient
        BY <2>3, ConcatEmptySeq
      <3>2. QED
        BY <2>1, <2>2, <3>1 DEF Served
    <2>5. CASE Up /\ ~clientClosed
      <3>1. Blocks = {}
        BY <2>1, <2>5 DEF ServedInOrder
      <3>2. Blocks' = {} /\ Len(received') = Upto(nextChunkToRequest')
        BY <2>1, <2>2, <2>3, <2>5, <3>1 DEF ServedInOrder, Blocks
      <3>3. QED
        BY <2>1, <2>2, <2>4, <3>2 DEF ServedInOrder
    <2>6. CASE ~(Up /\ ~clientClosed)
      BY <2>1, <2>4, <2>6 DEF ServedInOrder, Up
    <2>7. QED
      BY <2>5, <2>6
  <1>6. CASE ReceivePartOfCid
    BY <1>6 DEF ReceivePartOfCid
  <1>7. CASE OverrunStatuses
    BY <1>7, OrderUntouched DEF OverrunStatuses, Abort, Up
  <1>8. QED
    BY <1>1, <1>2, <1>3, <1>4, <1>5, <1>6, <1>7 DEF Fetcher

\* The actions of the directory's thread keep the order: a block is answered only
\* when nothing else is on its way to the fetcher.
LEMMA ServerKeepsOrder ==
  ASSUME SafeInv, ServedInOrder, Server
  PROVE  ServedInOrder'
  <1> USE DEF mainVars, fetcherVars, streamVars, serverVars
  <1>0. ASSUME NEW n, Receive(n), toClient' = toClient, ~(Up' /\ ~clientClosed')
        PROVE  ServedInOrder'
    <2>1. Served' = Served
      BY <1>0 DEF Receive, Served
    <2>2. QED
      BY <1>0, <2>1 DEF ServedInOrder
  <1>1. ASSUME NEW n \in 1 .. Len(toServer), AnswerNumChunks(n) PROVE ServedInOrder'
    <2>1. Receive(n)
      BY <1>1 DEF AnswerNumChunks
    <2>2. mainPc = "info" \/ broken
      <3>1. PICK i \in 1 .. n : toServer[i].kind = "numchunks"
        BY <1>1 DEF AnswerNumChunks, Some
      <3>2. i \in DOMAIN toServer
        BY <2>1, <3>1, LenProperties DEF Receive, SafeInv, TypeOK
      <3>3. QED
        BY <3>1, <3>2 DEF SafeInv, InTransit
    <2>3. CASE mainPc = "info"
      <3>1. fetcherPc' = "off" /\ toServer' = << >>
        <4>1. toServer # << >>
          BY <1>1
        <4>2. n = 1 /\ toServer = <<NumChunksRequest>>
          <5>1. toServer = <<NumChunksRequest>>
            BY <2>3, <4>1 DEF SafeInv, InTransit
          <5>2. n \in 1 .. Len(toServer)
            BY <1>1
          <5>3. QED
            BY ONLY <5>1, <5>2
        <4>3. QED
          BY <4>2, <2>1, <2>3 DEF Receive, SafeInv, Phases
      <3>2. Served' = << >> /\ Blocks' = {}
        BY <3>1 DEF Served, Blocks
      <3>3. QED
        BY <3>1, <3>2 DEF ServedInOrder
    <2>4. CASE broken
      BY <1>0, <1>1, <2>1, <2>4 DEF AnswerNumChunks, Reply, Receive, Up
    <2>5. QED
      BY <2>2, <2>3, <2>4
  <1>2. ASSUME NEW n \in 1 .. Len(toServer), Terminate(n) PROVE ServedInOrder'
    BY <1>0, <1>2 DEF Terminate, Up
  <1>3. ASSUME NEW n \in 1 .. Len(toServer), AnswerBlock(n) PROVE ServedInOrder'
    <2>1. Receive(n) /\ ~serverClosed
      BY <1>3 DEF AnswerBlock, IsBlock, Receive, SafeInv, Phases
    <2>2. CASE broken \/ clientClosed
      BY <1>0, <1>3, <2>1, <2>2 DEF AnswerBlock, Reply, Receive, Up
    <2>3. CASE ~broken /\ ~clientClosed
      <3> DEFINE next == nextChunkToRequest
                 to == Upto(next + WindowSize)
      <3>1. 1 \in Blocks /\ Head(toServer) = toServer[1]
        <4>1. 1 \in DOMAIN toServer /\ 1 \in 1 .. n /\ toServer # << >>
          BY <1>3, <2>1, Taken DEF SafeInv, TypeOK
        <4>2. toServer[1] \in Requests /\ Head(toServer) = toServer[1]
          BY <4>1, ElementOfSeq, LenProperties DEF SafeInv, TypeOK
        <4>3. toServer[1].kind = "block"
          BY <1>3, <4>1, <4>2, RequestKinds DEF AnswerBlock, IsBlock, Some
        <4>4. QED
          BY <4>1, <4>2, <4>3 DEF Blocks
      <3>2. /\ fetcherPc = "reply" /\ toClient = << >> /\ Len(received) = next
            /\ toServer[1] = BlockRequest(next, to)
            /\ \A j \in DOMAIN toServer : j # 1 => toServer[j].kind = "done"
        BY <2>1, <2>3, <3>1 DEF ServedInOrder, Up
      <3>3. next < to /\ to \in 0 .. ListSize /\ next \in Nat
        <4>1. toServer[1].from = next /\ toServer[1].to = to
          BY <3>2 DEF BlockRequest
        <4>2. toServer[1].from < toServer[1].to /\ toServer[1].to <= ListSize
          BY <3>1 DEF Blocks, SafeInv, InTransit
        <4>3. next \in Nat
          BY DEF SafeInv, TypeOK
        <4>4. to \in Nat
          BY <4>3, SessionAssumption DEF Upto
        <4>5. QED
          BY <4>1, <4>2, <4>3, <4>4, SessionAssumption
      <3>4. toClient' = Cids(next, to)
        <4>1. Head(toServer).from = next /\ Head(toServer).to = to
          BY <3>1, <3>2 DEF BlockRequest
        <4>2. toClient' = << >> \o Cids(next, to)
          BY <1>3, <2>3, <3>2, <4>1 DEF AnswerBlock, Reply
        <4>3. Cids(next, to) \in Seq(0 .. ListSize - 1)
          BY <3>3, BlockCids
        <4>4. QED
          BY <4>2, <4>3, ConcatEmptySeq
      <3>5. /\ toClient' \in Seq(0 .. ListSize - 1) /\ Len(toClient') = to - next
            /\ \A i \in 1 .. to - next : toClient'[i] = next + i - 1
        BY <3>3, <3>4, BlockCids
      <3>6. UNCHANGED <<fetcherPc, received, nextChunkToRequest>>
        BY <2>1 DEF Receive
      <3>7. received \in Seq(0 .. ListSize - 1)
        BY DEF SafeInv, TypeOK
      <3>8. \A i \in 1 .. next : received[i] = i - 1
        <4>1. Served = received
          BY <3>2, <3>7, ConcatEmptySeq DEF Served
        <4>2. DOMAIN received = 1 .. next
          BY <3>2, <3>7, LenProperties
        <4>3. QED
          BY <4>1, <4>2 DEF ServedInOrder
      <3>9. Served' = received \o toClient'
        BY <3>2, <3>6 DEF Served
      <3>10. \A i \in DOMAIN Served' : Served'[i] = i - 1
        <4>1. /\ received \o toClient' \in Seq(0 .. ListSize - 1)
              /\ Len(received \o toClient') = next + (to - next)
              /\ \A i \in 1 .. next + (to - next) :
                   (received \o toClient')[i] =
                     IF i <= next THEN received[i] ELSE toClient'[i - next]
          <5>1. /\ received \o toClient' \in Seq(0 .. ListSize - 1)
                /\ Len(received \o toClient') = Len(received) + Len(toClient')
                /\ \A i \in 1 .. Len(received) + Len(toClient') :
                     (received \o toClient')[i] =
                       IF i <= Len(received) THEN received[i]
                       ELSE toClient'[i - Len(received)]
            BY <3>5, <3>7, Joined
          <5>2. Len(received) = next /\ Len(toClient') = to - next
            BY <3>2, <3>5
          <5>3. QED
            BY ONLY <5>1, <5>2
        <4>2. DOMAIN (received \o toClient') = 1 .. next + (to - next)
          BY <4>1, LenProperties
        <4>3. ASSUME NEW i \in 1 .. next + (to - next)
              PROVE  (received \o toClient')[i] = i - 1
          <5>1. CASE i <= next
            <6>1. i \in 1 .. next
              BY <3>3, <5>1
            <6>2. QED
              BY <3>8, <4>1, <5>1, <6>1
          <5>2. CASE ~(i <= next)
            <6>1. i - next \in 1 .. to - next /\ next + (i - next) - 1 = i - 1
              BY <3>3, <5>2
            <6>2. toClient'[i - next] = next + (i - next) - 1
              BY <3>5, <6>1
            <6>3. QED
              BY <4>1, <5>2, <6>1, <6>2
          <5>3. QED
            BY <5>1, <5>2
        <4>4. QED
          BY <3>9, <4>2, <4>3
      <3>11. Blocks' = {}
        <4>1. ASSUME NEW i \in DOMAIN toServer' PROVE toServer'[i].kind = "done"
          <5>1. i \in Nat \ {0} /\ i + n \in DOMAIN toServer /\ toServer'[i] = toServer[i + n]
                /\ n \in Nat \ {0}
            BY <2>1, Taken DEF SafeInv, TypeOK
          <5>2. i + n # 1
            BY <5>1
          <5>3. QED
            BY <3>2, <5>1, <5>2
        <4>2. QED
          BY <4>1 DEF Blocks
      <3>12. toClient' # << >> /\ Len(received) + Len(toClient') = to
        <4>1. Len(toClient') > 0 /\ next + (to - next) = to
          BY <3>3, <3>5
        <4>2. QED
          BY <3>2, <3>5, <4>1, EmptySeq
      <3>13. Len(received') + Len(toClient') = Upto(nextChunkToRequest' + WindowSize)
        BY <3>6, <3>12
      <3>14. QED
        BY <3>2, <3>6, <3>10, <3>11, <3>12, <3>13 DEF ServedInOrder
    <2>4. QED
      BY <2>2, <2>3
  <1>4. ASSUME NEW n \in 1 .. Len(toServer), Crash(n) PROVE FALSE
    <2>1. SafeInv' /\ serverPc' = "crashed"
      BY <1>4, ServerIsSafe DEF Crash
    <2>2. QED
      BY <2>1 DEF SafeInv, ServerSurvives
  <1>5. CASE ConnectionEnds
    BY <1>5, OrderUntouched DEF ConnectionEnds, Up
  <1>6. QED
    BY <1>1, <1>2, <1>3, <1>4, <1>5 DEF Server

\* What has been received and is on its way is a list of CIDs, and the blocks still
\* asked for are numbers.
LEMMA ServedTyped ==
  ASSUME SafeInv
  PROVE  /\ Served \in Seq(0 .. ListSize - 1)
         /\ \A i \in DOMAIN Served : Served[i] \in 0 .. ListSize - 1
         /\ nextChunkToRequest \in Nat /\ Limit \in Nat
         /\ \A i \in Blocks : /\ i \in Nat \ {0}
                              /\ toServer[i].from \in 0 .. ListSize
                              /\ toServer[i].to \in 0 .. ListSize
                              /\ toServer[i].from < toServer[i].to
  <1>1. received \in Seq(0 .. ListSize - 1) /\ nextChunkToRequest \in Nat
        /\ toServer \in Seq(Requests) /\ (fetcherPc # "off" => toClient \in Seq(0 .. ListSize - 1))
    BY DEF SafeInv, TypeOK, InTransit
  <1>2. Served \in Seq(0 .. ListSize - 1)
    <2>1. << >> \in Seq(0 .. ListSize - 1)
      BY EmptySeq
    <2>2. fetcherPc # "off" => received \o toClient \in Seq(0 .. ListSize - 1)
      BY <1>1, Joined
    <2>3. QED
      BY <2>1, <2>2 DEF Served
  <1>3. \A i \in DOMAIN Served : Served[i] \in 0 .. ListSize - 1
    BY <1>2, ElementOfSeq, LenProperties
  <1>4. ASSUME NEW i \in Blocks
        PROVE  /\ i \in Nat \ {0} /\ toServer[i].from \in 0 .. ListSize
               /\ toServer[i].to \in 0 .. ListSize /\ toServer[i].from < toServer[i].to
    <2>1. i \in DOMAIN toServer /\ toServer[i].kind = "block"
      BY DEF Blocks
    <2>2. toServer[i] \in Requests /\ i \in Nat \ {0}
      BY <1>1, <2>1, ElementOfSeq, LenProperties
    <2>3. toServer[i].from < toServer[i].to
      BY <2>1 DEF SafeInv, InTransit
    <2>4. QED
      BY <2>1, <2>2, <2>3, RequestKinds
  <1>5. Limit \in Nat
    BY <1>1, SessionAssumption DEF Limit
  <1>6. QED
    BY <1>1, <1>2, <1>3, <1>4, <1>5

\* A step keeps the order in which CIDs and blocks lie if it leaves the CIDs alone,
\* takes at most some of the first requests away and sends no block.
LEMMA AscendingShifted ==
  ASSUME SafeInv, ServedAscending, NEW n \in Nat,
         Served' = Served, Limit' \in Nat, Limit <= Limit',
         \A i \in Blocks' : i \in Nat /\ i + n \in Blocks /\ toServer'[i] = toServer[i + n]
  PROVE  ServedAscending'
  <1>1. \A i \in DOMAIN Served : Served[i] \in Int /\ Served[i] < Limit
    BY ServedTyped DEF ServedAscending
  <1>2. Limit \in Nat
    BY ServedTyped
  <1>3. \A i \in DOMAIN Served' : Served'[i] < Limit'
    BY <1>1, <1>2
  <1>4. ASSUME NEW i \in Blocks'
        PROVE  /\ toServer'[i].to <= Limit'
               /\ \A j \in DOMAIN Served' : Served'[j] < toServer'[i].from
               /\ \A j \in Blocks' : i < j => toServer'[i].to <= toServer'[j].from
    <2>1. i \in Nat /\ i + n \in Blocks /\ toServer'[i] = toServer[i + n]
      OBVIOUS
    <2>2. /\ toServer[i + n].to <= Limit /\ toServer[i + n].to \in Int
          /\ \A j \in DOMAIN Served : Served[j] < toServer[i + n].from
      BY <2>1, ServedTyped DEF ServedAscending
    <2>3. ASSUME NEW j \in Blocks', i < j PROVE toServer'[i].to <= toServer'[j].from
      <3>1. j \in Nat /\ j + n \in Blocks /\ toServer'[j] = toServer[j + n] /\ i + n < j + n
        BY <2>1, <2>3
      <3>2. toServer[i + n].to <= toServer[j + n].from
        BY <2>1, <3>1 DEF ServedAscending
      <3>3. QED
        BY <2>1, <3>1, <3>2
    <2>4. QED
      BY <1>2, <2>1, <2>2, <2>3
  <1>5. \A i, j \in DOMAIN Served' : i < j => Served'[i] < Served'[j]
    BY DEF ServedAscending
  <1>6. QED
    BY <1>3, <1>4, <1>5 DEF ServedAscending

\* The same for a step that touches neither the requests nor the CIDs.
LEMMA AscendingUntouched ==
  ASSUME SafeInv, ServedAscending, Served' = Served, Limit' = Limit, toServer' = toServer
  PROVE  ServedAscending'
  <1>1. \A i \in Blocks' : i \in Nat /\ i + 0 \in Blocks /\ toServer'[i] = toServer[i + 0]
    <2>1. Blocks' = Blocks
      BY DEF Blocks
    <2>2. QED
      BY <2>1, ServedTyped
  <1>2. Limit' \in Nat /\ Limit <= Limit'
    BY ServedTyped
  <1>3. 0 \in Nat
    OBVIOUS
  <1>4. QED
    BY <1>1, <1>2, <1>3, AscendingShifted

\* The actions of the client keep it.
LEMMA ClientKeepsAscending ==
  ASSUME SafeInv, ServedAscending,
         Main \/ Escape \/ Fetcher \/ LoseConnection \/ UNCHANGED vars
  PROVE  ServedAscending'
  <1> USE DEF MainStep, FetcherStep, mainVars, fetcherVars, streamVars, serverVars
  <1>1. CASE AskNumChunks \/ ReceiveVideoInformation
    <2>1. received' = << >> /\ fetcherPc = "off" /\ (AskNumChunks => fetcherPc' = "off")
      BY <1>1 DEF AskNumChunks, ReceiveVideoInformation, SafeInv, Phases
    <2>2. Served' = << >> /\ Blocks' = {}
      <3>1. CASE AskNumChunks
        <4>1. toServer = << >>
          BY <3>1 DEF AskNumChunks, SafeInv, InTransit
        <4>2. \A j \in DOMAIN toServer' : toServer'[j].kind = "numchunks"
          BY <3>1, <4>1 DEF AskNumChunks, Deliver, NumChunksRequest
        <4>3. QED
          BY <2>1, <3>1, <4>2 DEF Served, Blocks
      <3>2. CASE ReceiveVideoInformation
        <4>1. /\ toServer' = toServer /\ toServer \in {<< >>, <<NumChunksRequest>>}
              /\ toClient' = << >>
          <5>1. toClient' = << >>
            <6>1. toClient = << >> \/ toClient = <<[numChunks |-> ListSize]>>
              BY <3>2 DEF ReceiveVideoInformation, SafeInv, InTransit
            <6>2. (toClient' = Tail(toClient) /\ toClient # << >>)
                    \/ (toClient' = toClient /\ toClient = << >>)
              BY <3>2 DEF ReceiveVideoInformation
            <6>3. Tail(<<[numChunks |-> ListSize]>>) = << >>
              OBVIOUS
            <6>4. QED
              BY ONLY <6>1, <6>2, <6>3
          <5>2. toServer' = toServer /\ toServer \in {<< >>, <<NumChunksRequest>>}
            BY <3>2 DEF ReceiveVideoInformation, SafeInv, InTransit
          <5>3. QED
            BY <5>1, <5>2
        <4>2. Blocks' = {}
          BY <4>1 DEF Blocks, NumChunksRequest
        <4>3. << >> \o << >> = << >>
          OBVIOUS
        <4>4. QED
          BY <2>1, <4>1, <4>2, <4>3 DEF Served
      <3>3. QED
        BY <1>1, <3>1, <3>2
    <2>3. QED
      BY <2>2 DEF ServedAscending
  <1>2. CASE SendDone
    <2>1. DoneRequest \in Requests /\ DoneRequest.kind = "done" /\ Deliver(DoneRequest)
      BY <1>2 DEF SendDone, Requests, DoneRequest
    <2>2. \A i \in DOMAIN toServer' :
            \/ i \in DOMAIN toServer /\ toServer'[i] = toServer[i]
            \/ toServer'[i] = DoneRequest
      BY <2>1, Sent DEF SafeInv, TypeOK
    <2>3. \A i \in Blocks' : i \in Blocks /\ toServer'[i] = toServer[i]
      BY <2>1, <2>2 DEF Blocks
    <2>4. \A i \in Blocks' : i \in Nat /\ i + 0 \in Blocks /\ toServer'[i] = toServer[i + 0]
      BY <2>3, ServedTyped
    <2>5. Served' = Served /\ Limit' = Limit /\ Limit \in Nat
      BY <1>2, ServedTyped DEF SendDone, Served, Limit
    <2>6. Limit' \in Nat /\ Limit <= Limit' /\ 0 \in Nat
      BY <2>5
    <2>7. QED
      BY <2>4, <2>5, <2>6, AscendingShifted
  <1>3. CASE PlayToTheEnd \/ Escape \/ Close \/ ReturnFromMain \/ MainFails
             \/ LoseConnection \/ UNCHANGED vars \/ ReachEndOfFile \/ FetcherFails
             \/ ReceivePartOfCid \/ OverrunStatuses
    <2>1. /\ toServer' = toServer /\ toClient' = toClient /\ received' = received
          /\ nextChunkToRequest' = nextChunkToRequest
          /\ \/ fetcherPc' = fetcherPc
             \/ fetcherPc = "loop" /\ fetcherPc' = "finished"
             \/ fetcherPc = "reply" /\ fetcherPc' = "stuck"
      BY <1>3 DEF PlayToTheEnd, Escape, Close, ReturnFromMain, MainFails, LoseConnection,
         ReachEndOfFile, FetcherFails, ReceivePartOfCid, OverrunStatuses, Abort, Fail, vars
    <2>2. Served' = Served /\ Limit' = Limit
      BY <2>1 DEF Served, Limit
    <2>3. QED
      BY <2>1, <2>2, AscendingUntouched
  <1>4. CASE SendBlock
    <2> DEFINE r == BlockRequest(nextChunkToRequest, nextChunkToRequest + NumToReceive)
    <2>1. /\ UNCHANGED <<nextChunkToRequest, received, toClient>>
          /\ fetcherPc = "loop" /\ fetcherPc' = "reply"
      BY <1>4 DEF SendBlock
    <2>2. Served' = Served /\ Limit = nextChunkToRequest
          /\ Limit' = nextChunkToRequest + WindowSize
      BY <2>1 DEF Served, Limit
    <2>3. Limit' \in Nat /\ Limit <= Limit' /\ nextChunkToRequest \in Nat
      BY <2>2, ServedTyped, SessionAssumption
    <2>4. CASE ~Up
      <3>1. toServer' = toServer
        BY <1>4, <2>4 DEF SendBlock, Deliver, Up
      <3>2. Blocks' = Blocks
        BY <3>1 DEF Blocks
      <3>3. \A i \in Blocks' : i \in Nat /\ i + 0 \in Blocks /\ toServer'[i] = toServer[i + 0]
        BY <3>1, <3>2, ServedTyped
      <3>4. 0 \in Nat
        OBVIOUS
      <3>5. QED
        BY <2>2, <2>3, <3>3, <3>4, AscendingShifted
    <2>5. CASE Up
      <3>1. /\ r \in Requests /\ r.kind = "block" /\ Deliver(r)
            /\ r = BlockRequest(nextChunkToRequest, Upto(nextChunkToRequest + WindowSize))
        BY <1>4, <2>5, BlockSent
      <3>2. r.from = nextChunkToRequest /\ r.to = Upto(nextChunkToRequest + WindowSize)
        BY <3>1 DEF BlockRequest
      <3>3. r.to <= nextChunkToRequest + WindowSize
        BY <2>3, <3>2, SessionAssumption DEF Upto
      <3>4. /\ \A i \in DOMAIN toServer' :
                 \/ i \in DOMAIN toServer /\ toServer'[i] = toServer[i]
                 \/ i = Len(toServer) + 1 /\ toServer'[i] = r
            /\ Len(toServer) \in Nat /\ DOMAIN toServer = 1 .. Len(toServer)
        BY <3>1, Sent, LenProperties DEF SafeInv, TypeOK
      <3>5. \A i \in Blocks' :
              \/ i \in Blocks /\ toServer'[i] = toServer[i] /\ i < Len(toServer) + 1
              \/ i = Len(toServer) + 1 /\ toServer'[i] = r
        <4>1. \A i \in DOMAIN toServer : i < Len(toServer) + 1
          BY <3>4
        <4>2. QED
          BY <3>4, <4>1 DEF Blocks
      <3>6. \A i \in DOMAIN Served : Served[i] \in Int /\ Served[i] < nextChunkToRequest
        BY <2>2, ServedTyped DEF ServedAscending
      <3>7. \A i \in Blocks : /\ toServer[i].to \in Int /\ toServer[i].to <= nextChunkToRequest
                              /\ toServer[i].to <= nextChunkToRequest + WindowSize
        BY <2>2, <2>3, ServedTyped, SessionAssumption DEF ServedAscending
      <3>8. ASSUME NEW i \in Blocks'
            PROVE  /\ toServer'[i].to <= Limit'
                   /\ \A j \in DOMAIN Served' : Served'[j] < toServer'[i].from
                   /\ \A j \in Blocks' : i < j => toServer'[i].to <= toServer'[j].from
        <4>1. CASE i \in Blocks /\ toServer'[i] = toServer[i] /\ i < Len(toServer) + 1
          <5>1. toServer'[i].to <= Limit'
            BY <2>2, <3>7, <4>1
          <5>2. \A j \in DOMAIN Served' : Served'[j] < toServer'[i].from
            BY <2>2, <4>1 DEF ServedAscending
          <5>3. ASSUME NEW j \in Blocks', i < j PROVE toServer'[i].to <= toServer'[j].from
            <6>1. CASE j \in Blocks /\ toServer'[j] = toServer[j]
              BY <4>1, <5>3, <6>1 DEF ServedAscending
            <6>2. CASE toServer'[j] = r
              BY <3>2, <3>7, <4>1, <6>2
            <6>3. QED
              BY <3>5, <6>1, <6>2
          <5>4. QED
            BY <5>1, <5>2, <5>3
        <4>2. CASE i = Len(toServer) + 1 /\ toServer'[i] = r
          <5>1. \A j \in Blocks' : ~(i < j)
            <6>1. \A j \in Blocks : j \in Nat
              BY ServedTyped
            <6>2. QED
              BY <3>4, <3>5, <4>2, <6>1
          <5>2. toServer'[i].to <= Limit'
            BY <2>2, <3>3, <4>2
          <5>3. \A j \in DOMAIN Served' : Served'[j] < toServer'[i].from
            BY <2>2, <3>2, <3>6, <4>2
          <5>4. QED
            BY <5>1, <5>2, <5>3
        <4>3. QED
          BY <3>5, <4>1, <4>2
      <3>9. \A i \in DOMAIN Served' : Served'[i] < Limit'
        BY <2>2, <2>3, <3>6, SessionAssumption
      <3>10. \A i, j \in DOMAIN Served' : i < j => Served'[i] < Served'[j]
        BY <2>2 DEF ServedAscending
      <3>11. QED
        BY <3>8, <3>9, <3>10 DEF ServedAscending
    <2>6. QED
      BY <2>4, <2>5
  <1>5. CASE ReceiveNothing
    <2>1. Served' = Served /\ Limit' = Limit /\ toServer' = toServer
      BY <1>5 DEF ReceiveNothing, Served, Limit
    <2>2. QED
      BY <2>1, AscendingUntouched
  <1>6. ASSUME NEW k \in 1 .. Len(toClient), ReceiveReply(k) PROVE ServedAscending'
    <2>1. /\ fetcherPc = "reply" /\ fetcherPc' = "loop" /\ toServer' = toServer
          /\ nextChunkToRequest' = nextChunkToRequest + WindowSize
          /\ received' = received \o SubSeq(toClient, 1, k)
          /\ toClient' = SubSeq(toClient, k + 1, Len(toClient))
      BY <1>6 DEF ReceiveReply
    <2>2. toClient \in Seq(0 .. ListSize - 1) /\ received \in Seq(0 .. ListSize - 1)
      BY <2>1 DEF SafeInv, TypeOK, InTransit
    <2>3. /\ SubSeq(toClient, 1, k) \in Seq(0 .. ListSize - 1)
          /\ SubSeq(toClient, k + 1, Len(toClient)) \in Seq(0 .. ListSize - 1)
          /\ SubSeq(toClient, 1, k) \o SubSeq(toClient, k + 1, Len(toClient)) = toClient
      BY <2>2, CutOff
    <2>4. received' \o toClient' = received \o toClient
      <3> DEFINE a == SubSeq(toClient, 1, k)
                 b == SubSeq(toClient, k + 1, Len(toClient))
      <3>1. a \in Seq(0 .. ListSize - 1) /\ b \in Seq(0 .. ListSize - 1) /\ a \o b = toClient
        BY <2>3
      <3>2. received' = received \o a /\ toClient' = b
        BY <2>1
      <3>3. received \in Seq(0 .. ListSize - 1)
        BY <2>2
      <3> HIDE DEF a, b
      <3>4. (received \o a) \o b = received \o (a \o b)
        BY <3>1, <3>3, JoinedInTurn
      <3>5. QED
        BY <3>1, <3>2, <3>4
    <2>5. Served' = Served /\ Limit' = Limit
      BY <2>1, <2>4 DEF Served, Limit
    <2>6. QED
      BY <2>1, <2>5, AscendingUntouched
  <1>7. QED
    BY <1>1, <1>2, <1>3, <1>4, <1>5, <1>6 DEF Main, Fetcher

\* The actions of the directory's thread keep it: the CIDs of the first block asked
\* for come behind those on their way, and the blocks behind it lie beyond them.
LEMMA ServerKeepsAscending ==
  ASSUME SafeInv, ServedAscending, Server
  PROVE  ServedAscending'
  <1> USE DEF mainVars, fetcherVars, streamVars, serverVars
  <1>1. ASSUME NEW n, Receive(n)
        PROVE  /\ n \in Nat /\ Limit' = Limit
               /\ \A i \in Blocks' : i \in Nat /\ i + n \in Blocks /\ toServer'[i] = toServer[i + n]
    <2>1. n \in Nat /\ Limit' = Limit
      BY <1>1, Taken DEF Receive, Limit, SafeInv, TypeOK
    <2>2. \A i \in DOMAIN toServer' :
              i \in Nat \ {0} /\ i + n \in DOMAIN toServer /\ toServer'[i] = toServer[i + n]
      BY <1>1, Taken DEF SafeInv, TypeOK
    <2>3. QED
      BY <2>1, <2>2 DEF Blocks
  <1>2. ASSUME NEW n, Receive(n), toClient' = toClient \/ Served' = Served PROVE ServedAscending'
    <2>1. Served' = Served
      BY <1>2 DEF Receive, Served
    <2>2. Limit' \in Nat /\ Limit <= Limit'
      BY <1>1, <1>2, ServedTyped
    <2>3. QED
      BY <1>1, <1>2, <2>1, <2>2, AscendingShifted
  <1>3. ASSUME NEW n \in 1 .. Len(toServer), AnswerNumChunks(n) PROVE ServedAscending'
    <2>1. Receive(n)
      BY <1>3 DEF AnswerNumChunks
    <2>2. mainPc = "info" \/ broken
      <3>1. PICK i \in 1 .. n : toServer[i].kind = "numchunks"
        BY <1>3 DEF AnswerNumChunks, Some
      <3>2. i \in DOMAIN toServer
        BY <2>1, <3>1, LenProperties DEF Receive, SafeInv, TypeOK
      <3>3. QED
        BY <3>1, <3>2 DEF SafeInv, InTransit
    <2>3. CASE mainPc = "info"
      <3>1. fetcherPc = "off" /\ fetcherPc' = "off"
        BY <2>1, <2>3 DEF Receive, SafeInv, Phases
      <3>2. QED
        BY <1>2, <2>1, <3>1 DEF Served
    <2>4. CASE broken
      BY <1>2, <1>3, <2>1, <2>4 DEF AnswerNumChunks, Reply
    <2>5. QED
      BY <2>2, <2>3, <2>4
  <1>4. ASSUME NEW n \in 1 .. Len(toServer), Terminate(n) \/ Crash(n) PROVE ServedAscending'
    BY <1>2, <1>4 DEF Terminate, Crash, IsBlock
  <1>5. ASSUME NEW n \in 1 .. Len(toServer), AnswerBlock(n) PROVE ServedAscending'
    <2>1. Receive(n) /\ IsBlock(n)
      BY <1>5 DEF AnswerBlock, IsBlock
    <2>2. CASE toClient' = toClient
      BY <1>2, <2>1, <2>2
    <2>3. CASE toClient' # toClient
      <3> DEFINE a == toServer[1].from
                 b == toServer[1].to
      <3>1. 1 \in Blocks /\ Head(toServer) = toServer[1]
        <4>1. 1 \in DOMAIN toServer /\ 1 \in 1 .. n /\ toServer # << >>
          BY <2>1, Taken DEF SafeInv, TypeOK
        <4>2. toServer[1] \in Requests /\ Head(toServer) = toServer[1]
          BY <4>1, ElementOfSeq, LenProperties DEF SafeInv, TypeOK
        <4>3. toServer[1].kind = "block"
          BY <2>1, <4>1, <4>2, RequestKinds DEF IsBlock, Some
        <4>4. QED
          BY <4>1, <4>2, <4>3 DEF Blocks
      <3>2. a \in 0 .. ListSize /\ b \in 0 .. ListSize /\ a < b /\ b <= Limit
            /\ \A i \in DOMAIN Served : Served[i] \in 0 .. ListSize - 1 /\ Served[i] < a
        BY <3>1, ServedTyped DEF ServedAscending
      <3>3. /\ Cids(a, b) \in Seq(0 .. ListSize - 1) /\ Len(Cids(a, b)) = b - a
            /\ \A i \in 1 .. b - a : Cids(a, b)[i] = a + i - 1
        BY <3>2, BlockCids
      <3>4. toClient' = toClient \o Cids(a, b)
        BY <1>5, <2>3, <3>1 DEF AnswerBlock, Reply
      <3>5. fetcherPc # "off" /\ UNCHANGED <<fetcherPc, received, nextChunkToRequest>>
        <4>1. mainPc # "ask" /\ mainPc # "info"
          BY <3>1 DEF Blocks, SafeInv, InTransit, NumChunksRequest
        <4>2. QED
          BY <2>1, <4>1 DEF Receive, SafeInv, Phases
      <3>6. Served' = Served \o Cids(a, b)
        <4>1. toClient \in Seq(0 .. ListSize - 1) /\ received \in Seq(0 .. ListSize - 1)
          BY <3>5 DEF SafeInv, TypeOK, InTransit
        <4>2. received \o (toClient \o Cids(a, b)) = (received \o toClient) \o Cids(a, b)
          BY <3>3, <4>1, JoinedInTurn
        <4>3. QED
          BY <3>4, <3>5, <4>2 DEF Served
      <3>7. /\ Len(Served) \in Nat /\ DOMAIN Served = 1 .. Len(Served)
            /\ Served' \in Seq(0 .. ListSize - 1)
            /\ DOMAIN Served' = 1 .. Len(Served) + (b - a)
            /\ \A i \in 1 .. Len(Served) + (b - a) : Served'[i] =
                 IF i <= Len(Served) THEN Served[i] ELSE Cids(a, b)[i - Len(Served)]
        <4>1. Served \in Seq(0 .. ListSize - 1)
          BY ServedTyped
        <4>2. /\ Served \o Cids(a, b) \in Seq(0 .. ListSize - 1)
              /\ Len(Served \o Cids(a, b)) = Len(Served) + Len(Cids(a, b))
              /\ \A i \in 1 .. Len(Served) + Len(Cids(a, b)) : (Served \o Cids(a, b))[i] =
                   IF i <= Len(Served) THEN Served[i] ELSE Cids(a, b)[i - Len(Served)]
          BY <3>3, <4>1, Joined
        <4>3. DOMAIN (Served \o Cids(a, b)) = 1 .. Len(Served \o Cids(a, b))
          BY <4>2, LenProperties
        <4>4. Len(Served) \in Nat /\ DOMAIN Served = 1 .. Len(Served)
          BY <4>1, LenProperties
        <4>5. QED
          BY <3>3, <3>6, <4>2, <4>3, <4>4
      <3>8. ASSUME NEW i \in DOMAIN Served'
            PROVE  \/ i \in DOMAIN Served /\ Served'[i] = Served[i] /\ i <= Len(Served)
                   \/ /\ i > Len(Served) /\ Served'[i] = a + (i - Len(Served)) - 1
                      /\ i - Len(Served) \in 1 .. b - a
        <4>1. CASE i <= Len(Served)
          BY <3>7, <4>1
        <4>2. CASE i > Len(Served)
          <5>1. i - Len(Served) \in 1 .. b - a
            BY <3>2, <3>7, <4>2
          <5>2. QED
            BY <3>3, <3>7, <4>2, <5>1
        <4>3. QED
          BY <3>7, <4>1, <4>2
      <3>9. ASSUME NEW i \in DOMAIN Served'
            PROVE  Served'[i] \in Int /\ Served'[i] < b /\ i \in Int
        <4>1. i \in Int /\ Len(Served) \in Nat
          BY <3>2, <3>7
        <4>2. CASE i \in DOMAIN Served /\ Served'[i] = Served[i]
          BY <3>2, <4>1, <4>2
        <4>3. CASE /\ Served'[i] = a + (i - Len(Served)) - 1
                   /\ i - Len(Served) \in 1 .. b - a
          BY <3>2, <4>1, <4>3
        <4>4. QED
          BY <3>8, <4>2, <4>3
      <3>10. Limit' = Limit /\ Limit \in Nat
        BY <1>1, <2>1, ServedTyped
      <3>11. \A i, j \in DOMAIN Served' : i < j => Served'[i] < Served'[j]
        <4>1. ASSUME NEW i \in DOMAIN Served', NEW j \in DOMAIN Served', i < j
              PROVE  Served'[i] < Served'[j]
          <5>1. i \in Int /\ j \in Int /\ Len(Served) \in Nat
            BY <3>7, <3>9
          <5>2. CASE j <= Len(Served)
            <6>1. i \in DOMAIN Served /\ j \in DOMAIN Served
                  /\ Served'[i] = Served[i] /\ Served'[j] = Served[j]
              BY <3>8, <4>1, <5>1, <5>2
            <6>2. QED
              BY <4>1, <6>1 DEF ServedAscending
          <5>3. CASE j > Len(Served) /\ i <= Len(Served)
            <6>1. Served'[j] = a + (j - Len(Served)) - 1 /\ Served'[i] = Served[i]
                  /\ i \in DOMAIN Served
              BY <3>8, <5>1, <5>3
            <6>2. Served[i] \in Int /\ Served[i] < a
              BY <3>2, <6>1
            <6>3. QED
              BY <3>2, <5>1, <5>3, <6>1, <6>2
          <5>4. CASE i > Len(Served)
            <6>1. Served'[j] = a + (j - Len(Served)) - 1
                  /\ Served'[i] = a + (i - Len(Served)) - 1
              BY <3>8, <4>1, <5>1, <5>4
            <6>2. QED
              BY <3>2, <4>1, <5>1, <6>1
          <5>5. QED
            BY <5>1, <5>2, <5>3, <5>4
        <4>2. QED
          BY <4>1
      <3>12. \A i \in DOMAIN Served' : Served'[i] < Limit'
        BY <3>2, <3>9, <3>10
      <3>13. ASSUME NEW i \in Blocks'
             PROVE  /\ toServer'[i].to <= Limit'
                    /\ \A j \in DOMAIN Served' : Served'[j] < toServer'[i].from
                    /\ \A j \in Blocks' : i < j => toServer'[i].to <= toServer'[j].from
        <4>1. n \in Nat \ {0}
          BY <2>1, Taken DEF SafeInv, TypeOK
        <4>2. \A j \in Blocks' : j \in Nat /\ j + n \in Blocks /\ toServer'[j] = toServer[j + n]
          BY <1>1, <2>1
        <4>3. b <= toServer[i + n].from /\ toServer[i + n].from \in Int
          <5>1. i \in Nat /\ i + n \in Blocks /\ i + n \in Nat \ {0}
            BY <4>2, ServedTyped
          <5>2. 1 < i + n \/ i + n = 1
            BY <5>1
          <5>3. i # 0
            <6>1. i \in DOMAIN toServer'
              BY DEF Blocks
            <6>2. QED
              BY <2>1, <6>1, Taken DEF SafeInv, TypeOK
          <5>4. 1 < i + n
            BY <4>1, <5>1, <5>3
          <5>5. QED
            BY <3>1, <5>1, <5>4, ServedTyped DEF ServedAscending
        <4>4. \A j \in DOMAIN Served' : Served'[j] < toServer'[i].from
          BY <3>2, <3>9, <4>2, <4>3
        <4>5. toServer'[i].to <= Limit'
          BY <3>10, <4>2 DEF ServedAscending
        <4>6. ASSUME NEW j \in Blocks', i < j PROVE toServer'[i].to <= toServer'[j].from
          <5>1. i + n < j + n
            BY <4>1, <4>2, <4>6
          <5>2. QED
            BY <4>2, <5>1 DEF ServedAscending
        <4>7. QED
          BY <4>4, <4>5, <4>6
      <3>14. QED
        BY <3>11, <3>12, <3>13 DEF ServedAscending
    <2>4. QED
      BY <2>2, <2>3
  <1>6. CASE ConnectionEnds
    <2>1. Served' = Served /\ Limit' = Limit /\ toServer' = toServer
      BY <1>6 DEF ConnectionEnds, Served, Limit
    <2>2. QED
      BY <2>1, AscendingUntouched
  <1>7. QED
    BY <1>3, <1>4, <1>5, <1>6 DEF Server

\* What is received is in order when what is served is.
LEMMA ReceivedInOrder ==
  SafeInv /\ ServedAscending /\ (~pieced => ServedInOrder) => WindowsInOrder
  <1> SUFFICES ASSUME SafeInv, ServedAscending, ~pieced => ServedInOrder
               PROVE  WindowsInOrder
    OBVIOUS
  <1>1. CASE fetcherPc = "off"
    BY <1>1 DEF SafeInv, Phases, WindowsInOrder
  <1>2. CASE fetcherPc # "off"
    <2>1. toClient \in Seq(0 .. ListSize - 1) /\ received \in Seq(0 .. ListSize - 1)
      BY <1>2 DEF SafeInv, TypeOK, InTransit
    <2>2. /\ received \o toClient \in Seq(0 .. ListSize - 1)
          /\ Len(received \o toClient) = Len(received) + Len(toClient)
          /\ \A i \in 1 .. Len(received) + Len(toClient) : (received \o toClient)[i] =
               IF i <= Len(received) THEN received[i] ELSE toClient[i - Len(received)]
      BY <2>1, Joined
    <2>3. /\ DOMAIN received = 1 .. Len(received) /\ Len(received) \in Nat
          /\ Len(toClient) \in Nat
          /\ DOMAIN (received \o toClient) = 1 .. Len(received) + Len(toClient)
      BY <2>1, <2>2, LenProperties
    <2>4. \A i \in DOMAIN received : i \in DOMAIN Served /\ Served[i] = received[i]
      <3>1. \A i \in 1 .. Len(received) :
               i \in 1 .. Len(received) + Len(toClient) /\ i <= Len(received)
        BY <2>3
      <3>2. QED
        BY <1>2, <2>2, <2>3, <3>1 DEF Served
    <2>5. QED
      BY <2>4 DEF WindowsInOrder, ServedAscending, ServedInOrder
  <1>3. QED
    BY <1>1, <1>2

\* The flag is set with the whole list received, and nothing is received after.
LEMMA EndKeepsCids ==
  ASSUME SafeInv, ~pieced => ServedInOrder, AllCidsAtEnd, [Next]_vars
  PROVE  AllCidsAtEnd'
  <1> USE DEF MainStep, FetcherStep, mainVars, fetcherVars, streamVars, serverVars
  <1>1. CASE ReachEndOfFile
    <2> SUFFICES ASSUME ~broken, ~escaped, ~pieced PROVE Len(received) = ListSize
      BY <1>1 DEF ReachEndOfFile, AllCidsAtEnd
    <2>1. fetcherPc = "loop" /\ numChunks <= nextChunkToRequest
      BY <1>1 DEF ReachEndOfFile
    <2>2. mainPc \notin {"close", "return"}
      BY <2>1 DEF SafeInv, Phases
    <2>3. ~serverClosed /\ ~clientClosed
      BY <2>2 DEF SafeInv, Phases, EndsWhenTold
    <2>4. numChunks = ListSize /\ Len(received) = Upto(nextChunkToRequest)
      BY <2>1, <2>3 DEF SafeInv, SizeKnown, ServedInOrder, Up
    <2>5. QED
      BY <2>1, <2>4, SessionAssumption DEF Upto, SafeInv, TypeOK
  <1>2. CASE ~reachedEndOfFile /\ ~reachedEndOfFile'
    BY <1>2 DEF AllCidsAtEnd
  <1>3. CASE UNCHANGED <<reachedEndOfFile, received>> /\ (broken => broken')
             /\ (escaped => escaped') /\ (pieced => pieced')
    BY <1>3 DEF AllCidsAtEnd
  <1>4. CASE SendBlock \/ ReceiveNothing \/ FetcherFails \/ ReceivePartOfCid \/ OverrunStatuses
    BY <1>3, <1>4 DEF SendBlock, ReceiveNothing, FetcherFails, Fail, ReceivePartOfCid,
       OverrunStatuses, Abort
  <1>5. ASSUME NEW k \in 1 .. Len(toClient), ReceiveReply(k) PROVE AllCidsAtEnd'
    BY <1>2, <1>5 DEF ReceiveReply, SafeInv, Phases
  <1>6. CASE Main
    BY <1>3, <1>6 DEF Main, AskNumChunks, ReceiveVideoInformation, PlayToTheEnd,
       SendDone, Close, ReturnFromMain, MainFails, Fail
  <1>7. CASE Escape \/ LoseConnection \/ UNCHANGED vars
    BY <1>3, <1>7 DEF Escape, LoseConnection, vars
  <1>8. CASE Server
    <2>1. UNCHANGED <<mainVars, fetcherVars, broken>>
      BY <1>8 DEF Server, AnswerNumChunks, Terminate, AnswerBlock, IsBlock, Crash, Receive,
         ConnectionEnds
    <2>2. QED
      BY <1>3, <2>1
  <1>9. QED
    BY <1>1, <1>4, <1>5, <1>6, <1>7, <1>8 DEF Next, Fetcher

\* Whether replies come in pieces never turns from true to false.
LEMMA PiecesRemain == SafeInv /\ [Next]_vars /\ ~pieced' => ~pieced
  <1> SUFFICES ASSUME SafeInv, [Next]_vars, pieced PROVE pieced'
    OBVIOUS
  <1> USE DEF MainStep, FetcherStep, mainVars, fetcherVars, streamVars, serverVars
  <1>1. CASE Main
    BY <1>1 DEF Main, AskNumChunks, ReceiveVideoInformation, PlayToTheEnd,
       SendDone, Close, ReturnFromMain, MainFails, Fail
  <1>2. CASE Fetcher
    BY <1>2 DEF Fetcher, ReachEndOfFile, SendBlock, ReceiveNothing, FetcherFails, Fail,
       ReceivePartOfCid, OverrunStatuses, ReceiveReply
  <1>3. CASE Server
    BY <1>3 DEF Server, AnswerNumChunks, Terminate, AnswerBlock, IsBlock, Crash, Receive,
       ConnectionEnds
  <1>4. CASE Escape \/ LoseConnection \/ UNCHANGED vars
    BY <1>4 DEF Escape, LoseConnection, vars
  <1>5. QED
    BY <1>1, <1>2, <1>3, <1>4 DEF Next

\* "done" is sent once: main sends it and is done.
LEMMA DoneStaysOnce ==
  ASSUME SafeInv, DoneOnce, [Next]_vars
  PROVE  DoneOnce'
  <1> USE DEF MainStep, FetcherStep, mainVars, fetcherVars, streamVars, serverVars
  <1>1. CASE toServer' = toServer
    BY <1>1 DEF DoneOnce
  <1>2. CASE AskNumChunks
    <2>1. toServer' \in {<< >>, <<NumChunksRequest>>}
      BY <1>2 DEF AskNumChunks, Deliver, SafeInv, InTransit
    <2>2. QED
      BY <2>1 DEF DoneOnce, NumChunksRequest
  <1>3. CASE SendDone
    <2>1. DoneRequest \in Requests /\ Deliver(DoneRequest)
      BY <1>3 DEF SendDone, Requests
    <2>2. \A i \in DOMAIN toServer : toServer[i].kind # "done"
      BY <1>3 DEF SendDone, SafeInv, InTransit
    <2>3. \A i \in DOMAIN toServer' :
            \/ i \in DOMAIN toServer /\ toServer'[i] = toServer[i]
            \/ i = Len(toServer) + 1
      BY <2>1, Sent DEF SafeInv, TypeOK
    <2>4. QED
      BY <2>2, <2>3 DEF DoneOnce
  <1>4. CASE SendBlock
    <2> DEFINE r == BlockRequest(nextChunkToRequest, nextChunkToRequest + NumToReceive)
    <2>1. CASE Up
      <3>1. r \in Requests /\ r.kind = "block" /\ Deliver(r)
        BY <1>4, <2>1, BlockSent
      <3>2. \A i \in DOMAIN toServer' :
              \/ i \in DOMAIN toServer /\ toServer'[i] = toServer[i]
              \/ toServer'[i] = r
        BY <3>1, Sent DEF SafeInv, TypeOK
      <3>3. QED
        BY <3>1, <3>2 DEF DoneOnce
    <2>2. CASE ~Up
      BY <1>1, <1>4, <2>2, BlockSent DEF Deliver, Up
    <2>3. QED
      BY <2>1, <2>2
  <1>5. ASSUME NEW n, Receive(n) PROVE DoneOnce'
    <2>1. n \in Nat /\ \A i \in DOMAIN toServer' :
            i \in Nat \ {0} /\ i + n \in DOMAIN toServer /\ toServer'[i] = toServer[i + n]
      BY <1>5, Taken DEF SafeInv, TypeOK
    <2>2. ASSUME NEW i \in DOMAIN toServer', NEW j \in DOMAIN toServer',
                 toServer'[i].kind = "done", toServer'[j].kind = "done"
          PROVE  i = j
      <3>1. i + n = j + n
        BY <2>1, <2>2 DEF DoneOnce
      <3>2. QED
        BY <2>1, <3>1
    <2>3. QED
      BY <2>2 DEF DoneOnce
  <1>6. CASE ReceiveVideoInformation \/ PlayToTheEnd \/ Close \/ ReturnFromMain \/ MainFails
             \/ Escape \/ LoseConnection \/ ConnectionEnds \/ UNCHANGED vars
    BY <1>1, <1>6 DEF ReceiveVideoInformation, PlayToTheEnd, Close, ReturnFromMain,
       MainFails, Fail, Escape, LoseConnection, ConnectionEnds, vars
  <1>7. CASE Fetcher /\ ~SendBlock
    BY <1>1, <1>7 DEF Fetcher, ReachEndOfFile, ReceiveNothing, FetcherFails, Fail,
       ReceivePartOfCid, OverrunStatuses, ReceiveReply
  <1>8. CASE Server
    BY <1>5, <1>6, <1>8 DEF Server, AnswerNumChunks, Terminate, AnswerBlock, IsBlock, Crash
  <1>9. QED
    BY <1>2, <1>3, <1>4, <1>6, <1>7, <1>8 DEF Next, Main

\* Requests of which any two are the same one are at most one.
LEMMA AtMostOne ==
  ASSUME NEW s \in Seq(Requests), \A i, j \in DOMAIN s : i = j
  PROVE  Len(s) <= 1
  <1>1. DOMAIN s = 1 .. Len(s) /\ Len(s) \in Nat
    BY LenProperties
  <1>2. ASSUME Len(s) > 1 PROVE FALSE
    <2>1. 1 \in DOMAIN s /\ 2 \in DOMAIN s
      BY <1>1, <1>2
    <2>2. QED
      BY <2>1
  <1>3. QED
    BY <1>1, <1>2

\* While replies come whole, the buffers suffice: a block is sent only when no other
\* is on its way, and answered with a window.
LEMMA BuffersStillSuffice ==
  ASSUME SafeInv, ServedInOrder, DoneOnce, BuffersSuffice, ~pieced, ~pieced', [Next]_vars
  PROVE  BuffersSuffice'
  <1> USE DEF MainStep, FetcherStep, mainVars, fetcherVars, streamVars, serverVars
  <1>1. /\ Len(toClient) <= WindowSize /\ Len(toServer) <= 2
        /\ exitStatus # "abort" /\ fetcherPc # "stuck"
    BY DEF BuffersSuffice
  <1>2. toServer \in Seq(Requests) /\ Len(toServer) \in Nat
        /\ DOMAIN toServer = 1 .. Len(toServer)
        /\ \A i \in DOMAIN toServer : toServer[i] \in Requests
    BY LenProperties, ElementOfSeq DEF SafeInv, TypeOK
  <1>3. ~OverrunStatuses
    <2> SUFFICES ASSUME OverrunStatuses PROVE FALSE
      OBVIOUS
    <2>1. Len(toClient) > WindowSize /\ fetcherPc # "off"
      BY DEF OverrunStatuses
    <2>2. Len(toClient) \in Nat
      BY <2>1, LenProperties DEF SafeInv, InTransit
    <2>3. QED
      BY <1>1, <2>1, <2>2, SessionAssumption
  <1>4. exitStatus' # "abort" /\ fetcherPc' # "stuck"
    <2>1. CASE Main \/ Escape \/ LoseConnection \/ UNCHANGED vars
      BY <1>1, <2>1 DEF Main, AskNumChunks, ReceiveVideoInformation, PlayToTheEnd, SendDone,
         Close, ReturnFromMain, MainFails, Fail, Escape, LoseConnection, vars
    <2>2. CASE Fetcher
      BY <1>1, <1>3, <2>2 DEF Fetcher, ReachEndOfFile, SendBlock, ReceiveNothing,
         FetcherFails, Fail, ReceivePartOfCid, ReceiveReply
    <2>3. CASE Server
      BY <1>1, <2>3 DEF Server, AnswerNumChunks, Terminate, AnswerBlock, IsBlock, Crash,
         Receive, ConnectionEnds
    <2>4. QED
      BY <2>1, <2>2, <2>3 DEF Next
  <1>5. ASSUME Len(toServer) <= 1 \/ ~Up, NEW r \in Requests, Deliver(r)
        PROVE  Len(toServer') <= 2
    <2>1. CASE ~Up
      BY <1>1, <1>5, <2>1 DEF Deliver, Up
    <2>2. CASE Len(toServer) <= 1
      <3>1. /\ toServer' \in Seq(Requests)
            /\ \A i \in DOMAIN toServer' : i \in DOMAIN toServer \/ i = Len(toServer) + 1
        BY <1>2, <1>5, Sent
      <3>2. Len(toServer') \in Nat /\ DOMAIN toServer' = 1 .. Len(toServer')
        BY <3>1, LenProperties
      <3>3. Len(toServer') > 0 => Len(toServer') \in DOMAIN toServer'
        BY <3>2
      <3>4. QED
        BY <1>2, <2>2, <3>1, <3>2, <3>3
    <2>3. QED
      BY <1>5, <2>1, <2>2
  <1>6. Len(toServer') <= 2
    <2>1. CASE toServer' = toServer
      BY <1>1, <2>1
    <2>2. CASE AskNumChunks
      <3>1. toServer' = << >> \/ toServer' = <<NumChunksRequest>>
        BY <2>2 DEF AskNumChunks, Deliver, SafeInv, InTransit
      <3>2. Len(<< >>) <= 2 /\ Len(<<NumChunksRequest>>) <= 2
        OBVIOUS
      <3>3. QED
        BY ONLY <3>1, <3>2
    <2>3. CASE SendDone
      <3>1. DoneRequest \in Requests /\ Deliver(DoneRequest)
        BY <2>3 DEF SendDone, Requests
      <3>2. CASE Up
        <4>1. mainPc = "done" /\ ~clientClosed
          BY <2>3, <3>2 DEF SendDone, SafeInv, Phases, Up
        <4>2. \A i \in DOMAIN toServer : i \in Blocks /\ toServer[i].kind # "done"
          <5>1. \A i \in DOMAIN toServer :
                   toServer[i].kind # "done" /\ toServer[i].kind # "numchunks"
            BY <3>2, <4>1 DEF SafeInv, InTransit, Up
          <5>2. QED
            BY <1>2, <5>1, RequestKinds DEF Blocks
        <4>3. \A i, j \in DOMAIN toServer : i = j
          BY <3>2, <4>1, <4>2 DEF ServedInOrder
        <4>4. QED
          BY <1>2, <1>5, <3>1, <4>3, AtMostOne
      <3>3. QED
        BY <1>5, <3>1, <3>2
    <2>4. CASE SendBlock
      <3> DEFINE r == BlockRequest(nextChunkToRequest, nextChunkToRequest + NumToReceive)
      <3>1. CASE Up
        <4>1. r \in Requests /\ Deliver(r)
          BY <2>4, <3>1, BlockSent
        <4>2. Blocks = {} /\ mainPc # "info"
          BY <2>4, <3>1 DEF SendBlock, ServedInOrder, SafeInv, Phases
        <4>3. \A i \in DOMAIN toServer : toServer[i].kind = "done"
          <5>1. \A i \in DOMAIN toServer :
                   toServer[i].kind # "block" /\ toServer[i].kind # "numchunks"
            BY <3>1, <4>2 DEF Blocks, SafeInv, InTransit, Up
          <5>2. QED
            BY <1>2, <5>1, RequestKinds
        <4>4. \A i, j \in DOMAIN toServer : i = j
          BY <4>3 DEF DoneOnce
        <4> HIDE DEF r
        <4>5. QED
          BY <1>2, <1>5, <4>1, <4>4, AtMostOne
      <3>2. CASE ~Up
        BY <2>1, <2>4, <3>2, BlockSent DEF Deliver, Up
      <3>3. QED
        BY <3>1, <3>2
    <2>5. ASSUME NEW n, Receive(n) PROVE Len(toServer') <= 2
      <3>1. /\ toServer' \in Seq(Requests) /\ n \in Nat
            /\ \A i \in DOMAIN toServer' : i + n \in DOMAIN toServer
        BY <1>2, <2>5, Taken
      <3>2. Len(toServer') \in Nat /\ DOMAIN toServer' = 1 .. Len(toServer')
        BY <3>1, LenProperties
      <3>3. CASE Len(toServer') > 0
        <4>1. Len(toServer') \in DOMAIN toServer'
          BY <3>2, <3>3
        <4>2. Len(toServer') + n \in 1 .. Len(toServer)
          BY <1>2, <3>1, <4>1
        <4>3. QED
          BY <1>1, <1>2, <3>1, <3>2, <4>2
      <3>4. QED
        BY <3>2, <3>3
    <2>6. CASE ReceiveVideoInformation \/ PlayToTheEnd \/ Close \/ ReturnFromMain
               \/ MainFails \/ Escape \/ LoseConnection \/ ConnectionEnds \/ UNCHANGED vars
      BY <2>1, <2>6 DEF ReceiveVideoInformation, PlayToTheEnd, Close, ReturnFromMain,
         MainFails, Fail, Escape, LoseConnection, ConnectionEnds, vars
    <2>7. CASE Fetcher /\ ~SendBlock
      BY <2>1, <2>7 DEF Fetcher, ReachEndOfFile, ReceiveNothing, FetcherFails, Fail,
         ReceivePartOfCid, OverrunStatuses, ReceiveReply
    <2>8. CASE Server
      BY <2>5, <2>6, <2>8 DEF Server, AnswerNumChunks, Terminate, AnswerBlock, IsBlock, Crash
    <2>9. QED
      BY <2>2, <2>3, <2>4, <2>6, <2>7, <2>8 DEF Next, Main
  <1>7. Len(toClient') <= WindowSize
    <2>1. CASE toClient' = toClient
      BY <1>1, <2>1
    <2>2. CASE toClient' = << >>
      BY <2>2, EmptySeq, SessionAssumption
    <2>3. CASE ReceiveVideoInformation
      <3>1. toClient = << >> \/ toClient = <<[numChunks |-> ListSize]>>
        BY <2>3 DEF ReceiveVideoInformation, SafeInv, InTransit
      <3>2. toClient' = Tail(toClient) \/ toClient' = toClient
        BY <2>3 DEF ReceiveVideoInformation
      <3>3. Tail(<<[numChunks |-> ListSize]>>) = << >>
        OBVIOUS
      <3>4. toClient' = << >> \/ toClient' = toClient
        <4>1. toClient = << >> => toClient' = toClient
          BY <2>3 DEF ReceiveVideoInformation
        <4>2. QED
          BY ONLY <3>1, <3>2, <3>3, <4>1
      <3>5. QED
        BY <2>1, <2>2, <3>4
    <2>4. ASSUME NEW k \in 1 .. Len(toClient), ReceiveReply(k) PROVE toClient' = << >>
      <3>1. toClient \in Seq(0 .. ListSize - 1)
        BY <2>4 DEF ReceiveReply, SafeInv, InTransit
      <3>2. k = Len(toClient)
        <4>1. ~(k < Len(toClient)) /\ k \in 1 .. Len(toClient) /\ Len(toClient) \in Nat
          BY <2>4, <3>1, LenProperties DEF ReceiveReply
        <4>2. QED
          BY ONLY <4>1
      <3>3. SubSeq(toClient, k + 1, Len(toClient)) = << >>
        BY <3>1, <3>2, CutOff
      <3>4. QED
        BY <2>4, <3>3 DEF ReceiveReply
    <2>5. CASE Fetcher
      BY <2>1, <2>2, <2>4, <2>5 DEF Fetcher, ReachEndOfFile, SendBlock, ReceiveNothing,
         FetcherFails, Fail, ReceivePartOfCid, OverrunStatuses
    <2>6. CASE (Main /\ ~ReceiveVideoInformation) \/ Escape \/ LoseConnection
               \/ UNCHANGED vars
      BY <2>1, <2>6 DEF Main, AskNumChunks, PlayToTheEnd, SendDone, Close, ReturnFromMain,
         MainFails, Fail, Escape, LoseConnection, vars
    <2>7. ASSUME NEW n \in 1 .. Len(toServer), AnswerNumChunks(n)
          PROVE  Len(toClient') <= WindowSize
      <3>1. PICK i \in 1 .. n : toServer[i].kind = "numchunks"
        BY <2>7 DEF AnswerNumChunks, Some
      <3>2. i \in DOMAIN toServer
        BY <1>2, <2>7, <3>1 DEF AnswerNumChunks, Receive
      <3>3. mainPc = "info" \/ broken
        BY <3>1, <3>2 DEF SafeInv, InTransit
      <3>4. CASE broken
        BY <2>1, <2>7, <3>4 DEF AnswerNumChunks, Reply
      <3>5. CASE mainPc = "info"
        <4>1. toClient = << >>
          BY <2>7, <3>2, <3>5, EmptySeq DEF SafeInv, InTransit
        <4>2. toClient' = toClient \/ toClient' = << >> \o <<[numChunks |-> ListSize]>>
          BY <2>7, <4>1 DEF AnswerNumChunks, Reply
        <4>3. Len(<< >> \o <<[numChunks |-> ListSize]>>) = 1
          OBVIOUS
        <4>4. CASE toClient' = << >> \o <<[numChunks |-> ListSize]>>
          <5>1. Len(toClient') = 1
            BY ONLY <4>3, <4>4
          <5>2. QED
            BY <5>1, SessionAssumption
        <4>5. QED
          BY <2>1, <4>2, <4>4
      <3>6. QED
        BY <3>3, <3>4, <3>5
    <2>8. ASSUME NEW n \in 1 .. Len(toServer), AnswerBlock(n)
          PROVE  Len(toClient') <= WindowSize
      <3>1. CASE broken \/ clientClosed
        BY <2>1, <2>8, <3>1 DEF AnswerBlock, Reply
      <3>2. CASE ~broken /\ ~clientClosed
        <4> DEFINE a == Head(toServer).from
                   b == Head(toServer).to
        <4>1. 1 \in DOMAIN toServer /\ Head(toServer) = toServer[1] /\ 1 \in 1 .. n
              /\ serverPc = "receive"
          BY <1>2, <2>8, Taken DEF AnswerBlock, IsBlock, Receive
        <4>2. toServer[1].kind = "block" /\ a \in 0 .. ListSize /\ b \in 0 .. ListSize
              /\ a < b
          <5>1. toServer[1] \in Requests
            BY <1>2, <4>1
          <5>2. toServer[1].kind = "block"
            BY <2>8, <4>1, <5>1, RequestKinds DEF AnswerBlock, IsBlock, Some
          <5>3. QED
            BY <4>1, <5>1, <5>2, RequestKinds DEF SafeInv, InTransit
        <4>3. Up /\ 1 \in Blocks
          BY <3>2, <4>1, <4>2 DEF Up, Blocks, SafeInv, Phases
        <4>4. toClient = << >> /\ toServer[1] =
                BlockRequest(nextChunkToRequest, Upto(nextChunkToRequest + WindowSize))
          BY <3>2, <4>3 DEF ServedInOrder
        <4>5. a = nextChunkToRequest /\ b = Upto(nextChunkToRequest + WindowSize)
          BY <4>1, <4>4 DEF BlockRequest
        <4>6. b <= a + WindowSize
          BY <4>2, <4>5, SessionAssumption DEF Upto
        <4>7. /\ Cids(a, b) \in Seq(0 .. ListSize - 1) /\ Len(Cids(a, b)) = b - a
          <5> HIDE DEF a, b
          <5>1. a \in Nat /\ b \in 0 .. ListSize /\ a < b
            BY <4>2
          <5>2. QED
            BY <5>1, BlockCids
        <4>8. toClient' = Cids(a, b)
          <5>1. toClient' = << >> \o Cids(a, b)
            BY <2>8, <3>2, <4>4 DEF AnswerBlock, Reply
          <5>2. QED
            BY <4>7, <5>1, ConcatEmptySeq
        <4>9. QED
          BY <4>2, <4>6, <4>7, <4>8, SessionAssumption
      <3>3. QED
        BY <3>1, <3>2
    <2>9. CASE Server
      BY <2>1, <2>7, <2>8, <2>9 DEF Server, Terminate, Crash, ConnectionEnds
    <2>10. QED
      BY <2>3, <2>5, <2>6, <2>9 DEF Next
  <1>8. QED
    BY <1>4, <1>6, <1>7 DEF BuffersSuffice

\* The inductive invariant: however replies are cut, CIDs come in the order of the
\* list and none twice; and while each Xrecv returns the whole of a reply, none is left
\* out, and all come before the end of the file is declared (ChunkFetcher.cpp:120-157),
\* for lists and windows of any size.
THEOREM WindowsAreWhole == Spec => []IInv
  <1>1. Init => /\ ServedAscending /\ ServedInOrder /\ AllCidsAtEnd
                /\ DoneOnce /\ BuffersSuffice
    <2> SUFFICES ASSUME Init
                 PROVE  /\ ServedAscending /\ ServedInOrder /\ AllCidsAtEnd
                        /\ DoneOnce /\ BuffersSuffice
      OBVIOUS
    <2>1. Served = << >> /\ Blocks = {} /\ fetcherPc = "off"
      BY DEF Init, Served, Blocks
    <2>2. ServedAscending
      BY <2>1 DEF ServedAscending
    <2>3. DoneOnce /\ AllCidsAtEnd
      BY DEF Init, DoneOnce, AllCidsAtEnd
    <2>4. BuffersSuffice
      BY EmptySeq, SessionAssumption DEF Init, BuffersSuffice
    <2>5. QED
      BY <2>1, <2>2, <2>3, <2>4 DEF Init, ServedInOrder
  <1>2. SafeInv /\ (~pieced => ServedInOrder) /\ [Next]_vars => (~pieced' => ServedInOrder')
    BY PiecesRemain, MainKeepsOrder, FetcherKeepsOrder, ServerKeepsOrder DEF Next
  <1>3. SafeInv /\ ServedAscending /\ [Next]_vars => ServedAscending'
    BY ClientKeepsAscending, ServerKeepsAscending DEF Next
  <1>4. SafeInv /\ (~pieced => ServedInOrder) /\ AllCidsAtEnd /\ [Next]_vars => AllCidsAtEnd'
    BY EndKeepsCids
  <1>5. SafeInv /\ DoneOnce /\ [Next]_vars => DoneOnce'
    BY DoneStaysOnce
  <1>6. SafeInv /\ (~pieced => ServedInOrder) /\ DoneOnce /\ BuffersSuffice /\ [Next]_vars
          => BuffersSuffice'
    <2>1. pieced' => BuffersSuffice'
      BY DEF BuffersSuffice
    <2>2. QED
      BY <2>1, PiecesRemain, BuffersStillSuffice
  <1>7. SafeInv /\ ServedAscending /\ (~pieced => ServedInOrder) /\ DoneOnce
          /\ BuffersSuffice /\ AllCidsAtEnd => IInv
    BY ReceivedInOrder DEF IInv
  <1>8. QED
    BY SessionIsSafe, <1>1, <1>2, <1>3, <1>4, <1>5, <1>6, <1>7, PTL DEF Spec

\* No CID is fetched twice or out of order, however the stream cuts replies and joins
\* requests (ChunkFetcher.cpp:144-154), and none is left out while replies come whole.
THEOREM CidsComeInOrder == Spec => []WindowsInOrder
  BY WindowsAreWhole, PTL DEF IInv

\* The end of the file is declared with the whole list received (ChunkFetcher.cpp:122).
THEOREM ListIsReceived == Spec => []AllCidsAtEnd
  BY WindowsAreWhole, PTL DEF IInv

\* While replies come whole, no buffer is outgrown: not chunkStatuses, the fetcher's
\* reply buffer (ChunkFetcher.cpp:162, :338) nor SIDReq (CidDirectoryServer.cpp:166).
THEOREM NothingOverflows == Spec => []BuffersSuffice
  BY WindowsAreWhole, PTL DEF IInv
=============================================================================
