---------------------------- MODULE CidListFile ----------------------------
(***************************************************************************)
(* How the CIDs of the video get from the content servers to the CID       *)
(* directory.  Every ContentServer puts the video in its cache and writes  *)
(* the CIDs to CIDs_BigBuckBunny.txt (uploadContent); the directory reads  *)
(* the file once, when it starts (readInCIDLists).  server/start_servers.sh*)
(* starts them all at once, in one directory, with nothing to order them.  *)
(*                                                                         *)
(* All servers put the same video, so they all write the same lines, each  *)
(* at its own offset.  A file is a sequence of lines: the number of the    *)
(* chunk whose CID stands there, or Hole where only zero bytes do.         *)
(***************************************************************************)
EXTENDS Naturals, Sequences, FiniteSets

CONSTANTS
  Servers,    \* the ContentServer processes
  TakesDown,  \* those started with a sleep period
  NumChunks   \* the chunks of the video

ASSUME FileAssumption ==
  NumChunks \in Nat /\ TakesDown \subseteq Servers /\ IsFiniteSet(Servers)

VARIABLES
  serverPc,    \* serverPc[s]: where uploadContent is
  written,     \* written[s]: the lines s has written
  removed,     \* removed[s]: the chunks s has taken down again
  file,        \* CIDs_BigBuckBunny.txt
  directoryPc, \* where readInCIDLists is
  readLine,    \* the line its file position is in, from 1
  midLine,     \* the position is inside that line
  token,       \* the word read so far: "none", "cid" (so far part of one) or "bad"
  cidList,     \* CIDlist["BigBuckBunny"]; Bad where a word is not a CID
  openedLate   \* history: every server had written its file before

serverVars == <<serverPc, written, removed, file>>
directoryVars == <<directoryPc, readLine, midLine, token, cidList, openedLate>>
vars == <<serverVars, directoryVars>>

Hole == 0
Bad == 0
Whole == [i \in 1 .. NumChunks |-> i]

\* An earlier run of the servers may have left its file.
Init ==
  /\ serverPc = [s \in Servers |-> "put"]
  /\ written = [s \in Servers |-> 0] /\ removed = [s \in Servers |-> 0]
  /\ file \in {<< >>, Whole}
  /\ directoryPc = "start" /\ readLine = 1 /\ midLine = FALSE /\ token = "none"
  /\ cidList = << >> /\ openedLate = FALSE
-----------------------------------------------------------------------------
(* A content server.                                                       *)

Goto(s, from, to) ==
  /\ serverPc[s] = from /\ serverPc' = [serverPc EXCEPT ![s] = to]
  /\ UNCHANGED directoryVars

PutFile(s) == Goto(s, "put", "open") /\ UNCHANGED <<written, removed, file>>

\* No cache slice, or XputFile fails.
Die(s) == Goto(s, "put", "died") /\ UNCHANGED <<written, removed, file>>

\* ofstream truncates the file.
OpenFile(s) ==
  /\ Goto(s, "open", "write") /\ file' = << >>
  /\ UNCHANGED <<written, removed>>

\* A write beyond the end, after another server's truncation, leaves a hole.
WriteAt(f, i) ==
  [j \in 1 .. IF i > Len(f) THEN i ELSE Len(f) |->
     IF j = i THEN i ELSE IF j <= Len(f) THEN f[j] ELSE Hole]

\* Mutants of WriteLine: the file opened for appending; the loop started at 1.
AppendLine(s) ==
  /\ Goto(s, "write", "write") /\ written[s] < NumChunks
  /\ file' = Append(file, written[s] + 1)
  /\ written' = [written EXCEPT ![s] = @ + 1]
  /\ UNCHANGED removed

WriteNextLine(s) ==
  /\ Goto(s, "write", "write") /\ written[s] < NumChunks
  /\ file' = IF written[s] + 1 < NumChunks THEN WriteAt(file, written[s] + 2) ELSE file
  /\ written' = [written EXCEPT ![s] = @ + 1]
  /\ UNCHANGED removed

\* "<< endl" flushes: a line is one write.
WriteLine(s) ==
  /\ Goto(s, "write", "write") /\ written[s] < NumChunks
  /\ file' = WriteAt(file, written[s] + 1)
  /\ written' = [written EXCEPT ![s] = @ + 1]
  /\ UNCHANGED removed

\* Mutant of CloseFile: the loop ends one line too early.
CloseFileEarly(s) ==
  /\ written[s] + 1 >= NumChunks
  /\ Goto(s, "write", IF s \in TakesDown THEN "remove" ELSE "done")
  /\ UNCHANGED <<written, removed, file>>

CloseFile(s) ==
  /\ written[s] = NumChunks
  /\ Goto(s, "write", IF s \in TakesDown THEN "remove" ELSE "done")
  /\ UNCHANGED <<written, removed, file>>

RemoveChunk(s) ==
  /\ Goto(s, "remove", "remove") /\ removed[s] < NumChunks
  /\ removed' = [removed EXCEPT ![s] = @ + 1]
  /\ UNCHANGED <<written, file>>

Finish(s) ==
  /\ Goto(s, "remove", "done") /\ removed[s] = NumChunks
  /\ UNCHANGED <<written, removed, file>>

Server(s) ==
  \/ PutFile(s) \/ Die(s) \/ OpenFile(s) \/ WriteLine(s) \/ CloseFile(s)
  \/ RemoveChunk(s) \/ Finish(s)
-----------------------------------------------------------------------------
(* The directory.  ifstream reads block by block, and a block may end      *)
(* within a line: the two parts of a line are read at two instants.        *)

Closed == {"remove", "done"}
AllSettled ==
  /\ \A s \in Servers : serverPc[s] \in Closed \cup {"died"}
  /\ \E s \in Servers : serverPc[s] \in Closed

OpenList ==
  /\ directoryPc = "start" /\ directoryPc' = "read"
  /\ openedLate' = AllSettled
  /\ UNCHANGED <<serverVars, readLine, midLine, token, cidList>>

Reading == directoryPc = "read" /\ UNCHANGED <<serverVars, directoryPc, openedLate>>

\* The first part of a line.  Zero bytes are no white space: a hole runs on
\* into the word of the next line.
ReadFirstPart ==
  /\ Reading /\ ~midLine /\ readLine <= Len(file)
  /\ midLine' = TRUE
  /\ token' = IF token = "none" /\ file[readLine] # Hole THEN "cid" ELSE "bad"
  /\ UNCHANGED <<readLine, cidList>>

\* The rest of it: with the end of the line the word is complete.
ReadSecondPart ==
  /\ Reading /\ midLine /\ readLine <= Len(file)
  /\ midLine' = FALSE /\ readLine' = readLine + 1
  /\ IF file[readLine] = Hole
       THEN token' = "bad" /\ UNCHANGED cidList
       ELSE /\ token' = "none"
            /\ cidList' = Append(cidList, IF token = "cid" THEN file[readLine] ELSE Bad)

\* The end of the file also ends the word.
EndOfList ==
  /\ directoryPc = "read" /\ readLine > Len(file)
  /\ directoryPc' = "serving"
  /\ cidList' = IF token = "none" THEN cidList ELSE Append(cidList, Bad)
  /\ UNCHANGED <<serverVars, readLine, midLine, token, openedLate>>

Directory == OpenList \/ ReadFirstPart \/ ReadSecondPart \/ EndOfList

Next == (\E s \in Servers : Server(s)) \/ Directory

Spec == Init /\ [][Next]_vars

\* Every process is scheduled again and again.
FairSpec == Spec /\ WF_vars(Directory) /\ \A s \in Servers : WF_vars(Server(s))
-----------------------------------------------------------------------------
TypeOK ==
  /\ serverPc \in [Servers -> {"put", "open", "write", "died"} \cup Closed]
  /\ written \in [Servers -> 0 .. NumChunks]
  /\ removed \in [Servers -> 0 .. NumChunks]
  /\ file \in Seq(0 .. NumChunks) /\ Len(file) <= NumChunks
  /\ directoryPc \in {"start", "read", "serving"}
  /\ readLine \in 1 .. NumChunks + 1
  /\ midLine \in BOOLEAN /\ token \in {"none", "cid", "bad"}
  /\ cidList \in Seq(0 .. NumChunks) /\ openedLate \in BOOLEAN

HasOpened(s) == serverPc[s] \in Closed \cup {"write"}

\* However the servers' truncations and writes interleave, the file holds the
\* whole list, without a hole, once every server that writes one is done with
\* it: whichever opened it last has written all of it after that.
CompleteWhenSettled == AllSettled => file = Whole

\* So a directory started after the servers have written serves the video.
LateListIsWhole == directoryPc = "serving" /\ openedLate => cidList = Whole

\* And one that reads while they write lists no CID twice or out of order,
\* though it may lack some and hold words that are none.
InOrder == \A i, j \in DOMAIN cidList :
  i < j /\ cidList[i] # Bad /\ cidList[j] # Bad => cidList[i] < cidList[j]

\* As long as no more than one server has opened the file (the others have not
\* come to it yet, or have died) what the directory lists are the first CIDs
\* of the video, but for a last word cut short, whatever an earlier run left.
ListIsPrefix == Cardinality({s \in Servers : HasOpened(s)}) <= 1 =>
  \A i \in DOMAIN cidList : cidList[i] = i \/ (cidList[i] = Bad /\ i = Len(cidList))

(***************************************************************************)
(* The inductive invariant behind them.                                    *)
(***************************************************************************)
ServerProgress == \A s \in Servers :
  /\ serverPc[s] \in Closed => written[s] = NumChunks
  /\ ~HasOpened(s) => written[s] = 0

LinesInPlace == \A i \in DOMAIN file : file[i] \in {Hole, i}

\* Some server's lines have all survived: those of the last to open the file.
SurvivingWriter == (\E s \in Servers : HasOpened(s)) =>
  \E s \in Servers :
    HasOpened(s) /\ written[s] <= Len(file) /\ \A i \in 1 .. written[s] : file[i] = i

ListedBehind ==
  /\ \A i \in DOMAIN cidList : cidList[i] < readLine
  /\ token = "none" => ~midLine

\* A late reader meets nothing but whole lines.
LateReader == openedLate =>
  /\ AllSettled
  /\ token \in {"none", "cid"} /\ (token = "none" <=> ~midLine)
  /\ midLine => readLine <= NumChunks
  /\ Len(cidList) = readLine - 1 /\ \A i \in DOMAIN cidList : cidList[i] = i
  /\ directoryPc = "serving" => readLine > NumChunks /\ token = "none"

SharedInv ==
  /\ TypeOK /\ ServerProgress /\ LinesInPlace /\ SurvivingWriter
  /\ ListedBehind /\ InOrder /\ LateReader
  /\ directoryPc = "start" =>
       cidList = << >> /\ readLine = 1 /\ ~midLine /\ token = "none" /\ ~openedLate

\* While there is one writer at most, the file has its lines or those of the run before,
\* and nothing else.  Whatever was truncated under the reader comes again line by line
\* as it was, so that the reader goes on in it where it stood.
Alone == \A s, t \in Servers : HasOpened(s) /\ HasOpened(t) => s = t

LoneWriter == Alone =>
  /\ \A i \in DOMAIN file : file[i] = i
  /\ \A s \in Servers : HasOpened(s) => Len(file) = written[s]
  /\ directoryPc # "serving" =>
       /\ token = IF midLine THEN "cid" ELSE "none"
       /\ Len(cidList) = readLine - 1 /\ \A i \in DOMAIN cidList : cidList[i] = i
  /\ \A i \in DOMAIN cidList : cidList[i] = i \/ (cidList[i] = Bad /\ i = Len(cidList))

IInv == SharedInv /\ LoneWriter

\* In the end the file is whole and stays so, unless every server died.
CompleteInTheEnd ==
  <>[](file = Whole \/ \A s \in Servers : serverPc[s] = "died")
=============================================================================
