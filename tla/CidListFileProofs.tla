-------------------------- MODULE CidListFileProofs --------------------------
(***************************************************************************)
(* Proofs about CidListFile for any number of content servers and chunks.  *)
(***************************************************************************)
EXTENDS CidListFile, SequenceTheorems, FiniteSetTheorems, TLAPS

\* What a write at a line leaves: that line, the lines before, and holes between.
LEMMA LineWritten ==
  ASSUME NEW f \in Seq(0 .. NumChunks), Len(f) <= NumChunks, NEW i \in 1 .. NumChunks
  PROVE  /\ WriteAt(f, i) \in Seq(0 .. NumChunks)
         /\ Len(WriteAt(f, i)) \in Len(f) .. NumChunks /\ i <= Len(WriteAt(f, i))
         /\ DOMAIN f \subseteq DOMAIN WriteAt(f, i) /\ i \in DOMAIN WriteAt(f, i)
         /\ \A j \in DOMAIN WriteAt(f, i) :
              WriteAt(f, i)[j] = IF j = i THEN i ELSE IF j \in DOMAIN f THEN f[j] ELSE Hole
  <1>1. DOMAIN f = 1 .. Len(f) /\ Len(f) \in Nat /\ \A j \in 1 .. Len(f) : f[j] \in 0 .. NumChunks
    BY LenProperties, ElementOfSeq
  <1>2. i \in Nat /\ i <= NumChunks /\ 1 <= i /\ NumChunks \in Nat
    BY FileAssumption
  <1> DEFINE n == IF i > Len(f) THEN i ELSE Len(f)
             g == [j \in 1 .. n |-> IF j = i THEN i ELSE IF j <= Len(f) THEN f[j] ELSE Hole]
  <1>3. n \in Nat /\ n <= NumChunks /\ Len(f) <= n /\ i <= n
    BY <1>1, <1>2
  <1>4. \A j \in 1 .. n : g[j] \in 0 .. NumChunks
    BY <1>1, <1>2, <1>3 DEF Hole
  <1>5. DOMAIN g = 1 .. n
    OBVIOUS
  <1>6. g \in Seq(0 .. NumChunks) /\ Len(g) = n
    <2> HIDE DEF n
    <2>1. g \in [1 .. n -> 0 .. NumChunks]
      BY <1>4
    <2>2. QED
      BY <1>3, <2>1
  <1>7. \A j \in 1 .. n :
          g[j] = IF j = i THEN i ELSE IF j \in DOMAIN f THEN f[j] ELSE Hole
    BY <1>1, <1>2, <1>3
  <1>8. WriteAt(f, i) = g
    BY DEF WriteAt
  <1> HIDE DEF n, g
  <1>9. QED
    BY <1>1, <1>2, <1>3, <1>5, <1>6, <1>7, <1>8

\* A write at the line after the last one makes the file that much longer.
LEMMA LineAppended ==
  ASSUME NEW f \in Seq(0 .. NumChunks), Len(f) < NumChunks
  PROVE  /\ Len(WriteAt(f, Len(f) + 1)) = Len(f) + 1
         /\ \A j \in DOMAIN WriteAt(f, Len(f) + 1) :
              WriteAt(f, Len(f) + 1)[j] = j \/ (j \in DOMAIN f /\ WriteAt(f, Len(f) + 1)[j] = f[j])
  <1>1. DOMAIN f = 1 .. Len(f) /\ Len(f) \in Nat
    BY LenProperties
  <1> DEFINE n == Len(f) + 1
             g == WriteAt(f, n)
  <1>2. g = [j \in 1 .. n |-> IF j = n THEN n ELSE IF j <= Len(f) THEN f[j] ELSE Hole]
    BY <1>1 DEF WriteAt
  <1>3. n \in Nat
    BY <1>1
  <1>4. Len(g) = n /\ DOMAIN g = 1 .. n
    <2> HIDE DEF n
    <2> QED BY <1>2, <1>3
  <1>5. \A j \in 1 .. n : j = n \/ j \in 1 .. Len(f)
    BY <1>1
  <1>6. \A j \in 1 .. n : g[j] = j \/ (j \in 1 .. Len(f) /\ g[j] = f[j])
    BY <1>1, <1>2, <1>5
  <1> HIDE DEF g
  <1>7. QED
    BY <1>1, <1>4, <1>6 DEF g

\* A file with a surviving writer is whole once all writers are done.
LEMMA SettledIsWhole == SharedInv => CompleteWhenSettled
  <1> SUFFICES ASSUME SharedInv, AllSettled PROVE file = Whole
    BY DEF CompleteWhenSettled
  <1>1. PICK s \in Servers :
          HasOpened(s) /\ written[s] <= Len(file) /\ \A i \in 1 .. written[s] : file[i] = i
    BY DEF SharedInv, SurvivingWriter, AllSettled, HasOpened
  <1>2. serverPc[s] \in Closed
    BY <1>1 DEF AllSettled, HasOpened, Closed
  <1>3. written[s] = NumChunks
    BY <1>2 DEF SharedInv, ServerProgress
  <1>4. file \in Seq(0 .. NumChunks) /\ Len(file) = NumChunks
    BY <1>1, <1>3, FileAssumption DEF SharedInv, TypeOK
  <1>5. Whole \in Seq(Nat) /\ Len(Whole) = NumChunks
    BY FileAssumption DEF Whole
  <1>6. DOMAIN file = 1 .. NumChunks /\ DOMAIN Whole = 1 .. NumChunks
    BY <1>4, LenProperties DEF Whole
  <1>7. file \in Seq(Nat)
    BY <1>4, FileAssumption
  <1>8. \A i \in 1 .. Len(file) : file[i] = Whole[i]
    BY <1>1, <1>3, <1>4 DEF Whole
  <1>9. QED
    BY <1>4, <1>5, <1>7, <1>8, SeqEqual

\* The invariant holds at the start, also with the file of an earlier run.
LEMMA InitInvariant == Init => SharedInv
  <1> SUFFICES ASSUME Init PROVE SharedInv
    OBVIOUS
  <1>1. file \in Seq(0 .. NumChunks) /\ Len(file) <= NumChunks
        /\ \A i \in DOMAIN file : file[i] = i
    <2>1. CASE file = << >>
      BY <2>1, FileAssumption, EmptySeq
    <2>2. CASE file = Whole
      BY <2>2, FileAssumption DEF Whole
    <2>3. QED
      BY <2>1, <2>2 DEF Init
  <1>2. cidList = << >> /\ cidList \in Seq(0 .. NumChunks) /\ \A i \in DOMAIN cidList : FALSE
    BY EmptySeq DEF Init
  <1>3. TypeOK
    <2>1. /\ serverPc \in [Servers -> {"put", "open", "write", "died"} \cup Closed]
          /\ written \in [Servers -> 0 .. NumChunks]
          /\ removed \in [Servers -> 0 .. NumChunks]
      BY FileAssumption DEF Init
    <2>2. readLine \in 1 .. NumChunks + 1
      BY FileAssumption DEF Init
    <2>3. QED
      BY <1>1, <1>2, <2>1, <2>2 DEF Init, TypeOK
  <1>4. ServerProgress /\ LinesInPlace /\ SurvivingWriter
    BY <1>1 DEF Init, ServerProgress, LinesInPlace, SurvivingWriter, HasOpened, Closed
  <1>5. ListedBehind /\ InOrder /\ LateReader
    BY <1>2 DEF Init, ListedBehind, InOrder, LateReader
  <1>6. QED
    BY <1>2, <1>3, <1>4, <1>5 DEF Init, SharedInv

\* A step of a server leaves the directory's list alone, and a server that is not
\* done yet can take it only if the directory did not start late.
LEMMA ReaderUntouched ==
  ASSUME SharedInv, NEW s \in Servers, Server(s), TypeOK'
  PROVE  /\ ListedBehind' /\ InOrder' /\ LateReader'
         /\ directoryPc' = "start" =>
              cidList' = << >> /\ readLine' = 1 /\ ~midLine' /\ token' = "none" /\ ~openedLate'
  <1>1. UNCHANGED <<directoryPc, readLine, midLine, token, cidList, openedLate>>
    BY DEF Server, Goto, PutFile, Die, OpenFile, WriteLine, CloseFile, RemoveChunk, Finish,
       directoryVars
  <1>2. AllSettled => AllSettled'
    <2> SUFFICES ASSUME AllSettled PROVE AllSettled'
      OBVIOUS
    <2>1. serverPc[s] \in {"remove", "done", "died"}
      BY DEF AllSettled, Closed
    <2>2. /\ serverPc[s] = "remove" /\ serverPc'[s] \in Closed
          /\ \A t \in Servers \ {s} : serverPc'[t] = serverPc[t]
      BY <2>1 DEF Server, Goto, PutFile, Die, OpenFile, WriteLine, CloseFile, RemoveChunk,
         Finish, SharedInv, TypeOK, Closed
    <2>3. QED
      BY <2>2 DEF AllSettled
  <1>3. QED
    BY <1>1, <1>2 DEF SharedInv, ListedBehind, InOrder, LateReader

\* Every step of a content server preserves the invariant: whichever server opened
\* the file last finds its lines in it.
LEMMA ServerKeepsInvariant ==
  ASSUME SharedInv, NEW s \in Servers, Server(s)
  PROVE  SharedInv'
  <1> USE FileAssumption
  <1>1. CASE PutFile(s) \/ Die(s) \/ CloseFile(s) \/ RemoveChunk(s) \/ Finish(s)
    <2>1. /\ UNCHANGED <<written, file>> /\ UNCHANGED directoryVars
          /\ serverPc' \in [Servers -> {"put", "open", "write", "died"} \cup Closed]
          /\ removed' \in [Servers -> 0 .. NumChunks]
      <3>1. CASE PutFile(s) \/ Die(s) \/ CloseFile(s) \/ Finish(s)
        <4>1. removed' = removed /\ UNCHANGED <<written, file>> /\ UNCHANGED directoryVars
          BY <3>1 DEF PutFile, Die, CloseFile, Finish, Goto
        <4>2. PICK pc \in {"open", "died"} \cup Closed : serverPc' = [serverPc EXCEPT ![s] = pc]
          BY <3>1 DEF PutFile, Die, CloseFile, Finish, Goto, Closed
        <4>3. QED
          BY <4>1, <4>2 DEF SharedInv, TypeOK
      <3>2. CASE RemoveChunk(s)
        <4>1. removed[s] \in 0 .. NumChunks /\ removed[s] < NumChunks
              /\ removed' = [removed EXCEPT ![s] = removed[s] + 1]
          BY <3>2 DEF RemoveChunk, SharedInv, TypeOK
        <4>2. removed[s] + 1 \in 0 .. NumChunks
          BY <4>1
        <4>3. /\ UNCHANGED <<written, file>> /\ UNCHANGED directoryVars
              /\ serverPc' = [serverPc EXCEPT ![s] = "remove"]
          BY <3>2 DEF RemoveChunk, Goto
        <4>4. QED
          BY <4>1, <4>2, <4>3 DEF SharedInv, TypeOK, Closed
      <3>3. QED
        BY <1>1, <3>1, <3>2
    <2>2. TypeOK'
      BY <2>1 DEF SharedInv, TypeOK, directoryVars
    <2>3. /\ \A t \in Servers : HasOpened(t)' <=> HasOpened(t)
          /\ \A t \in Servers : serverPc'[t] \in Closed => written[t] = NumChunks
      BY <1>1 DEF PutFile, Die, CloseFile, RemoveChunk, Finish, Goto, HasOpened, Closed,
         SharedInv, TypeOK, ServerProgress
    <2>4. ServerProgress' /\ LinesInPlace' /\ SurvivingWriter'
      BY <2>1, <2>3 DEF SharedInv, ServerProgress, LinesInPlace, SurvivingWriter
    <2>5. QED
      BY <2>2, <2>4, ReaderUntouched DEF SharedInv
  <1>2. CASE OpenFile(s)
    <2>1. /\ file' = << >> /\ UNCHANGED <<written, removed>> /\ UNCHANGED directoryVars
          /\ serverPc' = [serverPc EXCEPT ![s] = "write"] /\ serverPc[s] = "open"
      BY <1>2 DEF OpenFile, Goto
    <2>2. << >> \in Seq(0 .. NumChunks) /\ Len(<< >>) = 0
      BY EmptySeq
    <2>3. TypeOK'
      BY <2>1, <2>2 DEF SharedInv, TypeOK, directoryVars
    <2>4. written[s] = 0
      BY <2>1 DEF SharedInv, ServerProgress, HasOpened, Closed
    <2>5. ServerProgress' /\ LinesInPlace'
      BY <2>1, <2>2 DEF SharedInv, TypeOK, ServerProgress, LinesInPlace, HasOpened, Closed
    <2>6. SurvivingWriter'
      <3>1. HasOpened(s)' /\ written'[s] = 0 /\ Len(file') = 0
        BY <2>1, <2>2, <2>4 DEF HasOpened, SharedInv, TypeOK
      <3>2. QED
        BY <3>1 DEF SurvivingWriter
    <2>7. QED
      BY <2>3, <2>5, <2>6, ReaderUntouched DEF SharedInv
  <1>3. CASE WriteLine(s)
    <2>1. /\ serverPc' = serverPc /\ serverPc[s] = "write"
          /\ written[s] \in 0 .. NumChunks /\ written[s] < NumChunks
          /\ written' = [written EXCEPT ![s] = written[s] + 1]
          /\ UNCHANGED removed /\ UNCHANGED directoryVars
      BY <1>3 DEF WriteLine, Goto, SharedInv, TypeOK
    <2>2. written[s] + 1 \in 1 .. NumChunks /\ file \in Seq(0 .. NumChunks)
          /\ Len(file) <= NumChunks /\ file' = WriteAt(file, written[s] + 1)
      BY <1>3, <2>1 DEF WriteLine, SharedInv, TypeOK
    <2>3. /\ file' \in Seq(0 .. NumChunks)
          /\ Len(file') \in Len(file) .. NumChunks /\ written[s] + 1 <= Len(file')
          /\ DOMAIN file \subseteq DOMAIN file' /\ written[s] + 1 \in DOMAIN file'
          /\ \A j \in DOMAIN file' : file'[j] =
               IF j = written[s] + 1 THEN written[s] + 1
               ELSE IF j \in DOMAIN file THEN file[j] ELSE Hole
      BY <2>2, LineWritten
    <2>4. TypeOK'
      <3>1. Len(file') <= NumChunks
        BY <2>2, <2>3, LenProperties
      <3>2. written' \in [Servers -> 0 .. NumChunks]
        BY <2>1, <2>2 DEF SharedInv, TypeOK
      <3>3. QED
        BY <2>1, <2>3, <3>1, <3>2 DEF SharedInv, TypeOK, directoryVars
    <2>5. ServerProgress'
      BY <2>1 DEF SharedInv, TypeOK, ServerProgress, HasOpened, Closed
    <2>6. LinesInPlace'
      BY <2>3 DEF SharedInv, LinesInPlace
    <2>7. SurvivingWriter'
      <3>1. PICK t \in Servers :
              HasOpened(t) /\ written[t] <= Len(file) /\ \A i \in 1 .. written[t] : file[i] = i
        BY <2>1 DEF SharedInv, SurvivingWriter, HasOpened
      <3>2. /\ written[t] \in 0 .. NumChunks /\ Len(file) \in Nat /\ Len(file') \in Nat
            /\ DOMAIN file = 1 .. Len(file)
        BY <2>2, <2>3, LenProperties DEF SharedInv, TypeOK
      <3>3. \A i \in 1 .. written[t] : i \in DOMAIN file' /\ file'[i] = i
        BY <2>3, <3>1, <3>2
      <3>4. HasOpened(t)'
        BY <2>1, <3>1 DEF HasOpened
      <3>5. CASE t = s
        <4>1. written'[s] = written[s] + 1
          BY <2>1 DEF SharedInv, TypeOK
        <4>2. \A i \in 1 .. written'[s] : file'[i] = i
          BY <2>1, <2>3, <3>3, <3>5, <4>1
        <4>3. QED
          BY <2>3, <3>4, <3>5, <4>1, <4>2 DEF SurvivingWriter
      <3>6. CASE t # s
        <4>1. written'[t] = written[t] /\ written[t] <= Len(file')
          BY <2>1, <2>3, <3>1, <3>2, <3>6 DEF SharedInv, TypeOK
        <4>2. QED
          BY <3>3, <3>4, <4>1 DEF SurvivingWriter
      <3>7. QED
        BY <3>5, <3>6
    <2>8. QED
      BY <2>4, <2>5, <2>6, <2>7, ReaderUntouched DEF SharedInv
  <1>4. QED
    BY <1>1, <1>2, <1>3 DEF Server

\* Every step of the directory preserves the invariant: it lists a line's CID
\* behind those before it, and a late one meets whole lines only.
LEMMA DirectoryKeepsInvariant ==
  ASSUME SharedInv, Directory
  PROVE  SharedInv'
  <1> USE FileAssumption
  <1>1. UNCHANGED serverVars
    BY DEF Directory, OpenList, Reading, ReadFirstPart, ReadSecondPart, EndOfList
  <1>2. ServerProgress' /\ LinesInPlace' /\ SurvivingWriter' /\ (AllSettled' <=> AllSettled)
    BY <1>1 DEF serverVars, SharedInv, ServerProgress, LinesInPlace, SurvivingWriter, HasOpened,
       AllSettled
  <1>3. AllSettled => file = Whole
    BY SettledIsWhole DEF CompleteWhenSettled
  <1>4. file \in Seq(0 .. NumChunks) /\ Len(file) \in Nat /\ Len(file) <= NumChunks
        /\ cidList \in Seq(0 .. NumChunks) /\ Len(cidList) \in Nat
        /\ DOMAIN file = 1 .. Len(file) /\ DOMAIN cidList = 1 .. Len(cidList)
    BY LenProperties DEF SharedInv, TypeOK
  <1>5. readLine \in 1 .. NumChunks + 1 /\ readLine \in Nat
    BY DEF SharedInv, TypeOK
  <1>6. openedLate => /\ Len(file) = NumChunks
                      /\ \A i \in 1 .. NumChunks : file[i] = i /\ file[i] # Hole
    <2>1. openedLate => file = Whole
      BY <1>3 DEF SharedInv, LateReader
    <2>2. Len(Whole) = NumChunks /\ \A i \in 1 .. NumChunks : Whole[i] = i /\ Whole[i] # Hole
      BY DEF Whole, Hole
    <2>3. QED
      BY <2>1, <2>2
  <1>7. CASE OpenList
    <2>1. /\ UNCHANGED <<readLine, midLine, token, cidList>> /\ openedLate' = AllSettled
          /\ directoryPc' = "read" /\ directoryPc = "start"
      BY <1>7 DEF OpenList
    <2>2. TypeOK'
      <3>1. openedLate' \in BOOLEAN
        BY <2>1 DEF AllSettled
      <3>2. QED
        BY <1>1, <2>1, <3>1 DEF SharedInv, TypeOK, serverVars
    <2>3. ListedBehind' /\ InOrder' /\ LateReader'
      BY <1>2, <2>1 DEF SharedInv, ListedBehind, InOrder, LateReader
    <2>4. QED
      BY <1>2, <2>1, <2>2, <2>3 DEF SharedInv
  <1>8. CASE ReadFirstPart
    <2>1. /\ UNCHANGED <<directoryPc, readLine, cidList, openedLate>> /\ midLine' /\ ~midLine
          /\ directoryPc = "read" /\ readLine <= Len(file)
          /\ token' = IF token = "none" /\ file[readLine] # Hole THEN "cid" ELSE "bad"
          /\ midLine' = TRUE
      BY <1>8 DEF ReadFirstPart, Reading
    <2>2. TypeOK'
      BY <1>1, <2>1 DEF SharedInv, TypeOK, serverVars
    <2>3. ListedBehind' /\ InOrder'
      BY <2>1 DEF SharedInv, ListedBehind, InOrder
    <2>4. LateReader'
      <3>1. openedLate => token' = "cid" /\ readLine <= NumChunks
        BY <1>4, <1>5, <1>6, <2>1 DEF SharedInv, LateReader
      <3>2. QED
        BY <1>2, <2>1, <3>1 DEF SharedInv, LateReader
    <2>5. QED
      BY <1>2, <2>1, <2>2, <2>3, <2>4 DEF SharedInv
  <1>9. ASSUME NEW c \in {file[readLine], Bad}, readLine <= Len(file),
               cidList' = Append(cidList, c), directoryPc = "read"
        PROVE  /\ cidList' \in Seq(0 .. NumChunks) /\ Len(cidList') = Len(cidList) + 1
               /\ c \in {Bad, readLine} /\ InOrder'
               /\ \A i \in DOMAIN cidList' :
                    \/ i \in DOMAIN cidList /\ cidList'[i] = cidList[i]
                    \/ i = Len(cidList) + 1 /\ cidList'[i] = c
    <2>1. readLine \in DOMAIN file
      BY <1>4, <1>5, <1>9
    <2>2. c \in {Bad, readLine} /\ c \in 0 .. NumChunks
      <3>1. file[readLine] \in {0, readLine} /\ c \in {file[readLine], 0}
        BY <1>9, <2>1 DEF SharedInv, LinesInPlace, Hole, Bad
      <3>2. readLine \in 0 .. NumChunks /\ 0 \in 0 .. NumChunks
        BY <1>4, <1>5, <2>1
      <3>3. QED
        BY <3>1, <3>2 DEF Bad
    <2>3. /\ cidList' \in Seq(0 .. NumChunks) /\ Len(cidList') = Len(cidList) + 1
          /\ \A i \in 1 .. Len(cidList) : cidList'[i] = cidList[i]
          /\ cidList'[Len(cidList) + 1] = c
      BY <1>4, <1>9, <2>2, AppendProperties
    <2>4. \A i \in DOMAIN cidList' :
            \/ i \in DOMAIN cidList /\ cidList'[i] = cidList[i]
            \/ i = Len(cidList) + 1 /\ cidList'[i] = c
      <3>1. DOMAIN cidList' = 1 .. Len(cidList) + 1
        BY <2>3, LenProperties
      <3>2. QED
        BY <1>4, <2>3, <3>1
    <2>5. InOrder'
      <3>1. \A i \in DOMAIN cidList : cidList[i] < readLine
        BY DEF SharedInv, ListedBehind
      <3>2. \A i \in DOMAIN cidList : i < Len(cidList) + 1 /\ i \in Nat
        BY <1>4
      <3>3. SUFFICES ASSUME NEW i \in DOMAIN cidList', NEW j \in DOMAIN cidList',
                            i < j, cidList'[i] # Bad, cidList'[j] # Bad
                     PROVE  cidList'[i] < cidList'[j]
        BY DEF InOrder
      <3>4. i \in DOMAIN cidList /\ cidList'[i] = cidList[i]
        <4>1. CASE i = Len(cidList) + 1
          <5>1. j \in DOMAIN cidList \/ j = Len(cidList) + 1
            BY <2>4
          <5>2. j < i \/ j = i
            BY <3>2, <4>1, <5>1
          <5>3. i \in Nat /\ j \in Nat
            BY <1>4, <3>2, <4>1, <5>1
          <5>4. QED
            BY <3>3, <5>2, <5>3
        <4>2. QED
          BY <2>4, <4>1
      <3>5. CASE j \in DOMAIN cidList /\ cidList'[j] = cidList[j]
        BY <3>3, <3>4, <3>5 DEF SharedInv, InOrder
      <3>6. CASE cidList'[j] = c
        BY <2>2, <3>1, <3>3, <3>4, <3>6
      <3>7. QED
        BY <2>4, <3>5, <3>6
    <2>6. QED
      BY <2>2, <2>3, <2>4, <2>5
  <1>10. CASE ReadSecondPart
    <2>1. /\ UNCHANGED <<directoryPc, openedLate>> /\ midLine' = FALSE /\ midLine
          /\ directoryPc = "read" /\ readLine <= Len(file) /\ readLine' = readLine + 1
      BY <1>10 DEF ReadSecondPart, Reading, SharedInv, TypeOK
    <2>2. readLine' \in 1 .. NumChunks + 1
      BY <1>4, <1>5, <2>1
    <2>3. CASE file[readLine] = Hole
      <3>1. token' = "bad" /\ cidList' = cidList
        BY <1>10, <2>3 DEF ReadSecondPart
      <3>2. TypeOK'
        BY <1>1, <2>1, <2>2, <3>1 DEF SharedInv, TypeOK, serverVars
      <3>3. ~openedLate
        <4>1. openedLate => readLine \in 1 .. NumChunks
          BY <1>4, <1>5, <1>6, <2>1
        <4>2. QED
          BY <1>6, <2>3, <4>1
      <3>4. ListedBehind'
        <4>1. \A i \in DOMAIN cidList : cidList[i] \in Nat
          BY <1>4, ElementOfSeq
        <4>2. QED
          BY <1>5, <2>1, <3>1, <4>1 DEF SharedInv, ListedBehind
      <3>5. InOrder' /\ LateReader'
        BY <2>1, <3>1, <3>3 DEF SharedInv, InOrder, LateReader
      <3>6. QED
        BY <1>2, <2>1, <3>2, <3>4, <3>5 DEF SharedInv
    <2>4. CASE file[readLine] # Hole
      <3> DEFINE c == IF token = "cid" THEN file[readLine] ELSE Bad
      <3>1. token' = "none" /\ cidList' = Append(cidList, c)
        BY <1>10, <2>4 DEF ReadSecondPart
      <3>2. c \in {file[readLine], Bad} /\ (token = "cid" => c = file[readLine])
        OBVIOUS
      <3> HIDE DEF c
      <3>3. /\ cidList' \in Seq(0 .. NumChunks) /\ Len(cidList') = Len(cidList) + 1
            /\ c \in {Bad, readLine} /\ InOrder'
            /\ \A i \in DOMAIN cidList' :
                 \/ i \in DOMAIN cidList /\ cidList'[i] = cidList[i]
                 \/ i = Len(cidList) + 1 /\ cidList'[i] = c
        BY <1>9, <2>1, <3>1, <3>2
      <3>4. TypeOK'
        BY <1>1, <2>1, <2>2, <3>1, <3>3 DEF SharedInv, TypeOK, serverVars
      <3>5. ListedBehind'
        <4>1. \A i \in DOMAIN cidList : cidList[i] \in Nat
          BY <1>4, ElementOfSeq
        <4>2. QED
          BY <1>5, <2>1, <3>1, <3>3, <4>1 DEF SharedInv, ListedBehind, Bad
      <3>6. LateReader'
        <4>1. openedLate => token = "cid" /\ Len(cidList) = readLine - 1 /\ file[readLine] = readLine
          BY <1>4, <1>5, <1>6, <2>1 DEF SharedInv, LateReader
        <4>2. openedLate => /\ Len(cidList') = readLine' - 1 /\ AllSettled'
                            /\ \A i \in DOMAIN cidList' : cidList'[i] = i
          BY <1>2, <1>5, <2>1, <3>2, <3>3, <4>1 DEF SharedInv, LateReader
        <4>3. QED
          BY <2>1, <3>1, <4>2 DEF SharedInv, LateReader
      <3>7. QED
        BY <1>2, <2>1, <3>3, <3>4, <3>5, <3>6 DEF SharedInv
    <2>5. QED
      BY <2>3, <2>4
  <1>11. CASE EndOfList
    <2>1. /\ UNCHANGED <<readLine, midLine, token, openedLate>> /\ directoryPc' = "serving"
          /\ directoryPc = "read" /\ readLine > Len(file)
          /\ cidList' = IF token = "none" THEN cidList ELSE Append(cidList, Bad)
      BY <1>11 DEF EndOfList
    <2>2. openedLate => token = "none" /\ readLine > NumChunks
      BY <1>4, <1>5, <1>6, <2>1 DEF SharedInv, TypeOK, LateReader
    <2>3. CASE token = "none"
      <3>1. cidList' = cidList
        BY <2>1, <2>3
      <3>2. TypeOK'
        BY <1>1, <2>1, <3>1 DEF SharedInv, TypeOK, serverVars
      <3>3. ListedBehind' /\ InOrder' /\ LateReader'
        BY <1>2, <2>1, <2>2, <2>3, <3>1 DEF SharedInv, ListedBehind, InOrder, LateReader
      <3>4. QED
        BY <1>2, <2>1, <3>2, <3>3 DEF SharedInv
    <2>4. CASE token # "none"
      <3>1. Bad \in 0 .. NumChunks /\ cidList' = Append(cidList, Bad) /\ ~openedLate
        BY <2>1, <2>2, <2>4 DEF Bad
      <3>2. /\ cidList' \in Seq(0 .. NumChunks) /\ Len(cidList') = Len(cidList) + 1
            /\ \A i \in 1 .. Len(cidList) : cidList'[i] = cidList[i]
            /\ cidList'[Len(cidList) + 1] = Bad
        BY <1>4, <3>1, AppendProperties
      <3>3. DOMAIN cidList' = 1 .. Len(cidList) + 1
        BY <3>2, LenProperties
      <3>4. TypeOK'
        BY <1>1, <2>1, <3>2 DEF SharedInv, TypeOK, serverVars
      <3>5. ListedBehind'
        BY <1>4, <1>5, <2>1, <2>4, <3>2, <3>3 DEF SharedInv, ListedBehind, Bad
      <3>6. InOrder'
        <4>1. \A i \in DOMAIN cidList' :
                cidList'[i] # Bad => i \in DOMAIN cidList /\ cidList'[i] = cidList[i]
          BY <1>4, <3>2, <3>3
        <4>2. QED
          BY <4>1 DEF SharedInv, InOrder
      <3>7. LateReader'
        BY <2>1, <3>1 DEF LateReader
      <3>8. QED
        BY <1>2, <2>1, <3>4, <3>5, <3>6, <3>7 DEF SharedInv
    <2>5. QED
      BY <2>3, <2>4
  <1>12. QED
    BY <1>7, <1>8, <1>10, <1>11 DEF Directory

LEMMA SharedInvariant == Spec => []SharedInv
  <1>1. SharedInv /\ UNCHANGED vars => SharedInv'
    BY DEF SharedInv, TypeOK, ServerProgress, LinesInPlace, SurvivingWriter, HasOpened,
       ListedBehind, InOrder, LateReader, AllSettled, vars, serverVars, directoryVars
  <1>2. SharedInv /\ [Next]_vars => SharedInv'
    BY <1>1, ServerKeepsInvariant, DirectoryKeepsInvariant DEF Next
  <1>3. QED
    BY InitInvariant, <1>2, PTL DEF Spec

-----------------------------------------------------------------------------
LEMMA LoneInit == Init => LoneWriter
  <1> SUFFICES ASSUME Init PROVE LoneWriter
    OBVIOUS
  <1>1. \A i \in DOMAIN file : file[i] = i
    <2>1. CASE file = << >>
      BY <2>1
    <2>2. CASE file = Whole
      BY <2>2, FileAssumption DEF Whole
    <2>3. QED
      BY <2>1, <2>2 DEF Init
  <1>2. cidList = << >> /\ Len(cidList) = readLine - 1 /\ \A i \in DOMAIN cidList : FALSE
    BY EmptySeq DEF Init
  <1>3. \A s \in Servers : ~HasOpened(s)
    BY DEF Init, HasOpened, Closed
  <1>4. QED
    BY <1>1, <1>2, <1>3 DEF Init, LoneWriter

\* The only writer there is extends the file by the line that comes next; the first
\* one empties it before.
LEMMA LoneServerStep ==
  ASSUME SharedInv, LoneWriter, NEW s \in Servers, Server(s)
  PROVE  LoneWriter'
  <1> USE FileAssumption
  <1> SUFFICES ASSUME Alone' PROVE LoneWriter'
    BY DEF LoneWriter
  <1>1. UNCHANGED <<directoryPc, readLine, midLine, token, cidList>>
    BY DEF Server, Goto, PutFile, Die, OpenFile, WriteLine, CloseFile, RemoveChunk, Finish,
       directoryVars
  <1>2. \A t \in Servers : HasOpened(t) => HasOpened(t)'
    BY DEF Server, Goto, PutFile, Die, OpenFile, WriteLine, CloseFile, RemoveChunk, Finish,
       HasOpened, Closed, SharedInv, TypeOK
  <1>3. Alone
    BY <1>2 DEF Alone
  <1>4. /\ \A i \in DOMAIN file' : file'[i] = i
        /\ \A t \in Servers : HasOpened(t)' => Len(file') = written'[t]
    <2>1. CASE PutFile(s) \/ Die(s) \/ CloseFile(s) \/ RemoveChunk(s) \/ Finish(s)
      <3>1. UNCHANGED <<written, file>> /\ \A t \in Servers : HasOpened(t)' <=> HasOpened(t)
        BY <2>1 DEF PutFile, Die, CloseFile, RemoveChunk, Finish, Goto, HasOpened, Closed,
           SharedInv, TypeOK
      <3>2. QED
        BY <1>3, <3>1 DEF LoneWriter
    <2>2. CASE OpenFile(s)
      <3>1. file' = << >> /\ written' = written /\ serverPc[s] = "open" /\ HasOpened(s)'
        BY <2>2 DEF OpenFile, Goto, HasOpened, SharedInv, TypeOK
      <3>2. written[s] = 0 /\ Len(file') = 0 /\ \A i \in DOMAIN file' : FALSE
        BY <3>1, EmptySeq DEF SharedInv, ServerProgress, HasOpened, Closed
      <3>3. \A t \in Servers : HasOpened(t)' => t = s
        BY <3>1 DEF Alone
      <3>4. QED
        BY <3>1, <3>2, <3>3
    <2>3. CASE WriteLine(s)
      <3>1. /\ serverPc' = serverPc /\ HasOpened(s)
            /\ written[s] \in 0 .. NumChunks /\ written[s] < NumChunks
            /\ written'[s] = written[s] + 1 /\ file' = WriteAt(file, written[s] + 1)
        BY <2>3 DEF WriteLine, Goto, HasOpened, SharedInv, TypeOK
      <3>2. file \in Seq(0 .. NumChunks) /\ Len(file) <= NumChunks /\ Len(file) = written[s]
        BY <1>3, <3>1 DEF LoneWriter, SharedInv, TypeOK
      <3>3. Len(file) + 1 \in 1 .. NumChunks /\ Len(file) + 1 > Len(file)
            /\ file' = WriteAt(file, Len(file) + 1)
        BY <3>1, <3>2
      <3>4. /\ Len(file') = Len(file) + 1
            /\ \A j \in DOMAIN file' : file'[j] = j \/ (j \in DOMAIN file /\ file'[j] = file[j])
        <4> DEFINE f == file
        <4>1. f \in Seq(0 .. NumChunks) /\ Len(f) < NumChunks
          BY <3>1, <3>2
        <4> HIDE DEF f
        <4>2. /\ Len(WriteAt(f, Len(f) + 1)) = Len(f) + 1
              /\ \A j \in DOMAIN WriteAt(f, Len(f) + 1) :
                   WriteAt(f, Len(f) + 1)[j] = j
                     \/ (j \in DOMAIN f /\ WriteAt(f, Len(f) + 1)[j] = f[j])
          BY <4>1, LineAppended
        <4>3. file' = WriteAt(f, Len(f) + 1)
          BY <3>3 DEF f
        <4>4. QED
          BY <4>2, <4>3 DEF f
      <3>5. \A j \in DOMAIN file' : file'[j] = j
        BY <1>3, <3>4 DEF LoneWriter
      <3>6. \A t \in Servers : HasOpened(t)' => t = s
        BY <1>2, <3>1 DEF Alone
      <3>7. QED
        BY <3>1, <3>2, <3>4, <3>5, <3>6
    <2>4. QED
      BY <2>1, <2>2, <2>3 DEF Server
  <1>5. QED
    BY <1>1, <1>3, <1>4 DEF LoneWriter

\* The reader lists one line after the other.
LEMMA LoneDirectoryStep ==
  ASSUME SharedInv, LoneWriter, Directory
  PROVE  LoneWriter'
  <1> USE FileAssumption
  <1>1. UNCHANGED serverVars
    BY DEF Directory, OpenList, Reading, ReadFirstPart, ReadSecondPart, EndOfList
  <1> SUFFICES ASSUME Alone' PROVE LoneWriter'
    BY DEF LoneWriter
  <1>2. Alone /\ \A t \in Servers : HasOpened(t)' <=> HasOpened(t)
    BY <1>1 DEF Alone, HasOpened, serverVars
  <1>3. /\ \A i \in DOMAIN file : file[i] = i
        /\ \A t \in Servers : HasOpened(t) => Len(file) = written[t]
    BY <1>2 DEF LoneWriter
  <1>4. /\ directoryPc' # "serving" =>
             /\ token' = IF midLine' THEN "cid" ELSE "none"
             /\ Len(cidList') = readLine' - 1 /\ \A i \in DOMAIN cidList' : cidList'[i] = i
        /\ \A i \in DOMAIN cidList' :
             cidList'[i] = i \/ (cidList'[i] = Bad /\ i = Len(cidList'))
    <2>1. /\ file \in Seq(0 .. NumChunks) /\ cidList \in Seq(0 .. NumChunks)
          /\ Len(file) \in Nat /\ Len(cidList) \in Nat
          /\ DOMAIN file = 1 .. Len(file) /\ DOMAIN cidList = 1 .. Len(cidList)
          /\ readLine \in 1 .. NumChunks + 1
      BY LenProperties DEF SharedInv, TypeOK
    <2>2. directoryPc # "serving" =>
            /\ token = IF midLine THEN "cid" ELSE "none"
            /\ Len(cidList) = readLine - 1 /\ \A i \in DOMAIN cidList : cidList[i] = i
      BY <1>2 DEF LoneWriter
    <2>3. CASE OpenList
      BY <2>2, <2>3 DEF OpenList
    <2>4. CASE ReadFirstPart
      <3>1. /\ midLine' = TRUE /\ token = "none" /\ directoryPc = "read"
            /\ directoryPc' = "read" /\ UNCHANGED <<readLine, cidList>>
            /\ readLine \in 1 .. Len(file)
        BY <2>1, <2>2, <2>4 DEF ReadFirstPart, Reading
      <3>2. file[readLine] # Hole
        <4>1. readLine \in DOMAIN file /\ readLine # 0
          BY <2>1, <3>1
        <4>2. file[readLine] = readLine
          BY <1>3, <4>1
        <4>3. QED
          BY <4>1, <4>2 DEF Hole
      <3>3. token' = "cid"
        BY <2>4, <3>1, <3>2 DEF ReadFirstPart
      <3>4. QED
        BY <2>2, <3>1, <3>3
    <2>5. CASE ReadSecondPart
      <3>1. /\ midLine' = FALSE /\ token = "cid" /\ directoryPc = "read"
            /\ directoryPc' = "read" /\ readLine' = readLine + 1
            /\ readLine \in 1 .. Len(file)
        BY <2>1, <2>2, <2>5 DEF ReadSecondPart, Reading
      <3>2. file[readLine] = readLine /\ file[readLine] # Hole /\ readLine \in 0 .. NumChunks
        BY <1>3, <2>1, <3>1 DEF Hole
      <3>3. token' = "none" /\ cidList' = Append(cidList, readLine)
        BY <2>5, <3>1, <3>2 DEF ReadSecondPart
      <3>4. /\ Len(cidList') = Len(cidList) + 1 /\ cidList' \in Seq(0 .. NumChunks)
            /\ \A i \in 1 .. Len(cidList) : cidList'[i] = cidList[i]
            /\ cidList'[Len(cidList) + 1] = readLine
        BY <2>1, <3>2, <3>3, AppendProperties
      <3>5. DOMAIN cidList' = 1 .. Len(cidList) + 1
        BY <3>4, LenProperties
      <3>6. Len(cidList) = readLine - 1 /\ \A i \in DOMAIN cidList : cidList[i] = i
        BY <2>2, <3>1
      <3>7. \A i \in DOMAIN cidList' : cidList'[i] = i
        BY <2>1, <3>4, <3>5, <3>6
      <3>8. Len(cidList') = readLine' - 1
        BY <2>1, <3>1, <3>4, <3>6
      <3>9. QED
        BY <3>1, <3>3, <3>7, <3>8
    <2>6. CASE EndOfList
      <3>1. /\ directoryPc' = "serving" /\ directoryPc = "read"
            /\ cidList' = IF token = "none" THEN cidList ELSE Append(cidList, Bad)
        BY <2>6 DEF EndOfList
      <3>2. \A i \in DOMAIN cidList : cidList[i] = i
        BY <2>2, <3>1
      <3>3. CASE token = "none"
        BY <3>1, <3>2, <3>3
      <3>4. CASE token # "none"
        <4>1. Bad \in 0 .. NumChunks
          BY DEF Bad
        <4>2. cidList' = Append(cidList, Bad)
          BY <3>1, <3>4
        <4>3. /\ Len(cidList') = Len(cidList) + 1 /\ cidList' \in Seq(0 .. NumChunks)
              /\ \A i \in 1 .. Len(cidList) : cidList'[i] = cidList[i]
              /\ cidList'[Len(cidList) + 1] = Bad
          BY <2>1, <4>1, <4>2, AppendProperties
        <4>4. DOMAIN cidList' = 1 .. Len(cidList) + 1
          BY <4>3, LenProperties
        <4>5. \A i \in DOMAIN cidList' : i \in DOMAIN cidList \/ i = Len(cidList')
          BY <2>1, <4>3, <4>4
        <4>6. QED
          BY <2>1, <3>1, <3>2, <4>3, <4>5
      <3>5. QED
        BY <3>3, <3>4
    <2>7. QED
      BY <2>3, <2>4, <2>5, <2>6 DEF Directory
  <1>5. QED
    BY <1>1, <1>2, <1>3, <1>4 DEF LoneWriter, serverVars

\* The whole invariant, for any number of servers and chunks.
THEOREM ListFileInvariant == Spec => []IInv
  <1>1. LoneWriter /\ UNCHANGED vars => LoneWriter'
    BY DEF LoneWriter, Alone, HasOpened, vars, serverVars, directoryVars
  <1>2. SharedInv /\ LoneWriter /\ [Next]_vars => LoneWriter'
    BY <1>1, LoneServerStep, LoneDirectoryStep DEF Next
  <1>3. QED
    BY LoneInit, <1>2, SharedInvariant, PTL DEF Spec, IInv

\* However many servers truncate and write under the directory as it reads, it lists no
\* CID twice or out of order (CidDirectoryServer.cpp:315-330).
THEOREM ListIsInOrder == Spec => []InOrder
  <1>1. IInv => InOrder
    BY DEF IInv, SharedInv
  <1>2. QED
    BY <1>1, ListFileInvariant, PTL

\* With one content server the list has no gap either, at whatever instants the
\* directory reads: at most its last word is cut short.
THEOREM LoneListIsPrefix == Spec => []ListIsPrefix
  <1>1. IInv => ListIsPrefix
    <2> DEFINE O == {s \in Servers : HasOpened(s)}
    <2> SUFFICES ASSUME LoneWriter, Cardinality(O) <= 1
                 PROVE  \A i \in DOMAIN cidList :
                          cidList[i] = i \/ (cidList[i] = Bad /\ i = Len(cidList))
      BY DEF IInv, ListIsPrefix
    <2>1. IsFiniteSet(O)
      BY FileAssumption, FS_Subset
    <2>2. ASSUME NEW s \in Servers, NEW t \in Servers, HasOpened(s), HasOpened(t)
          PROVE  s = t
      <3>1. {s, t} \subseteq O
        BY <2>2
      <3>2. Cardinality({s, t}) <= Cardinality(O) /\ Cardinality({s, t}) \in Nat
            /\ Cardinality(O) \in Nat
        BY <2>1, <3>1, FS_Subset, FS_CardinalityType
      <3>3. s # t => Cardinality({s, t}) = 2
        <4>1. Cardinality({s}) = 1 /\ IsFiniteSet({s})
          BY FS_Singleton
        <4>2. ASSUME s # t PROVE Cardinality({s} \cup {t}) = 2
          <5>1. t \notin {s}
            BY <4>2
          <5>2. Cardinality({s} \cup {t}) = IF t \in {s} THEN Cardinality({s}) ELSE Cardinality({s}) + 1
            BY <4>1, FS_AddElement
          <5>3. QED
            BY <4>1, <5>1, <5>2
        <4>3. {s} \cup {t} = {s, t}
          OBVIOUS
        <4>4. QED
          BY <4>2, <4>3
      <3>4. QED
        BY <3>2, <3>3
    <2>3. Alone
      BY <2>2 DEF Alone
    <2>4. QED
      BY <2>3 DEF LoneWriter
  <1>2. QED
    BY <1>1, ListFileInvariant, PTL

\* However many servers truncate and write the file at once, it holds the whole
\* list once they are done (ContentServer.cpp:80-87).
THEOREM FileIsComplete == Spec => []CompleteWhenSettled
  BY SharedInvariant, SettledIsWhole, PTL

\* A directory started after that serves the whole video (CidDirectoryServer.cpp:105).
THEOREM LateDirectoryIsWhole == Spec => []LateListIsWhole
  <1>1. SharedInv => LateListIsWhole
    <2> SUFFICES ASSUME SharedInv, directoryPc = "serving", openedLate PROVE cidList = Whole
      BY DEF LateListIsWhole
    <2>1. cidList \in Seq(0 .. NumChunks) /\ readLine \in 1 .. NumChunks + 1
      BY DEF SharedInv, TypeOK
    <2>2. Len(cidList) = NumChunks /\ \A i \in DOMAIN cidList : cidList[i] = i
      BY <2>1, FileAssumption DEF SharedInv, LateReader
    <2>3. Whole \in Seq(Nat) /\ Len(Whole) = NumChunks
      BY FileAssumption DEF Whole
    <2>4. cidList \in Seq(Nat) /\ DOMAIN cidList = 1 .. NumChunks
      BY <2>1, <2>2, LenProperties, FileAssumption
    <2>5. \A i \in 1 .. Len(cidList) : cidList[i] = Whole[i]
      BY <2>2, <2>4 DEF Whole
    <2>6. QED
      BY <2>2, <2>3, <2>4, <2>5, SeqEqual
  <1>2. QED
    BY SharedInvariant, <1>1, PTL
=============================================================================
