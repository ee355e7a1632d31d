--------------------------- MODULE ChunkDagProofs ---------------------------
(***************************************************************************)
(* Proofs about ChunkDag for any number of servers.                        *)
(***************************************************************************)
EXTENDS ChunkDag, SequenceTheorems, TLAPS

LEMMA NumType == Num \in Nat \ {0} /\ 1 \in 1 .. Num /\ DOMAIN createDag = 1 .. 3 * Num - 1
  BY DirectoryAssumption, EmptySeq, LenProperties DEF Num, createDag

\* The ways in their order: three for each server, but two for the first.
LEMMA WaysInOrder ==
  /\ 1 \in DOMAIN createDag /\ createDag[1] = <<n_src, n_hid(1), n_cid>>
  /\ 2 \in DOMAIN createDag /\ createDag[2] = <<n_src, n_ad(1), n_hid(1), n_cid>>
  /\ \A i \in 2 .. Num :
       /\ {3 * i - 3, 3 * i - 2, 3 * i - 1} \subseteq DOMAIN createDag
       /\ createDag[3 * i - 3] = <<n_src, n_ad(i), n_hid(i), n_cid>>
       /\ createDag[3 * i - 2] = <<n_src, n_hid(i - 1), n_ad(i), n_hid(i), n_cid>>
       /\ createDag[3 * i - 1] = <<n_src, n_ad(i - 1), n_ad(i), n_hid(i), n_cid>>
  /\ \A k \in DOMAIN createDag :
       k \in {1, 2} \/ \E i \in 2 .. Num : k \in {3 * i - 3, 3 * i - 2, 3 * i - 1}
  <1> USE NumType
  <1>1. /\ 1 \in DOMAIN createDag /\ 2 \in DOMAIN createDag
        /\ createDag[1] = primaryGraph[1] /\ createDag[2] = primaryGraph[2]
    BY DEF createDag
  <1>2. ASSUME NEW i \in 2 .. Num
        PROVE  /\ {3 * i - 3, 3 * i - 2, 3 * i - 1} \subseteq DOMAIN createDag
               /\ createDag[3 * i - 3] = fallbackGraph(i)[1]
               /\ createDag[3 * i - 2] = fallbackGraph(i)[2]
               /\ createDag[3 * i - 1] = fallbackGraph(i)[3]
    <2>1. /\ ((3 * i - 3) \div 3) + 1 = i /\ ((3 * i - 3) % 3) + 1 = 1
          /\ ((3 * i - 2) \div 3) + 1 = i /\ ((3 * i - 2) % 3) + 1 = 2
          /\ ((3 * i - 1) \div 3) + 1 = i /\ ((3 * i - 1) % 3) + 1 = 3
      OBVIOUS
    <2>2. {3 * i - 3, 3 * i - 2, 3 * i - 1} \subseteq 1 .. 3 * Num - 1
      OBVIOUS
    <2>3. ~(3 * i - 3 <= 2) /\ ~(3 * i - 2 <= 2) /\ ~(3 * i - 1 <= 2)
      OBVIOUS
    <2>4. QED
      BY <2>1, <2>2, <2>3 DEF createDag
  <1>3. ASSUME NEW k \in 1 .. 3 * Num - 1, k \notin {1, 2}
        PROVE  \E i \in 2 .. Num : k \in {3 * i - 3, 3 * i - 2, 3 * i - 1}
    <2>0. /\ k \div 3 \in Int /\ 3 * (k \div 3) <= k /\ k < 3 * (k \div 3) + 3
          /\ k \in Int /\ 3 <= k /\ k <= 3 * Num - 1 /\ Num \in Int
      <3>1. k \in Int /\ 3 <= k /\ k <= 3 * Num - 1 /\ Num \in Int
        BY <1>3
      <3>2. k \div 3 \in Int /\ 3 * (k \div 3) <= k /\ k < 3 * (k \div 3) + 3
        BY ONLY <3>1
      <3>3. QED
        BY <3>1, <3>2
    <2>1. k \div 3 + 1 \in 2 .. Num
      BY ONLY <2>0
    <2>2. k \in {3 * (k \div 3 + 1) - 3, 3 * (k \div 3 + 1) - 2, 3 * (k \div 3 + 1) - 1}
      BY ONLY <2>0
    <2>3. QED
      BY <2>1, <2>2
  <1>4. QED
    BY <1>1, <1>2, <1>3 DEF primaryGraph, fallbackGraph

\* The edges of a way of three nodes, of four and of five.
LEMMA EdgesOfThree ==
  ASSUME NEW a, NEW b, NEW c
  PROVE  EdgesOf(<<a, b, c>>) = {<<a, b>>, <<b, c>>}
  <1>1. Len(<<a, b, c>>) - 1 = 2
    OBVIOUS
  <1>2. QED
    BY <1>1 DEF EdgesOf

LEMMA EdgesOfFour ==
  ASSUME NEW a, NEW b, NEW c, NEW d
  PROVE  EdgesOf(<<a, b, c, d>>) = {<<a, b>>, <<b, c>>, <<c, d>>}
  <1>1. Len(<<a, b, c, d>>) - 1 = 3
    OBVIOUS
  <1>2. QED
    BY <1>1 DEF EdgesOf

LEMMA EdgesOfFive ==
  ASSUME NEW a, NEW b, NEW c, NEW d, NEW e
  PROVE  EdgesOf(<<a, b, c, d, e>>) = {<<a, b>>, <<b, c>>, <<c, d>>, <<d, e>>}
  <1>1. Len(<<a, b, c, d, e>>) - 1 = 4
    OBVIOUS
  <1>2. QED
    BY <1>1 DEF EdgesOf

\* The edges that each way adds.
LEMMA EdgesInOrder ==
  /\ EdgesOf(createDag[1]) = {<<n_src, n_hid(1)>>, <<n_hid(1), n_cid>>}
  /\ EdgesOf(createDag[2]) = {<<n_src, n_ad(1)>>, <<n_ad(1), n_hid(1)>>, <<n_hid(1), n_cid>>}
  /\ \A i \in 2 .. Num :
       /\ EdgesOf(createDag[3 * i - 3]) =
            {<<n_src, n_ad(i)>>, <<n_ad(i), n_hid(i)>>, <<n_hid(i), n_cid>>}
       /\ EdgesOf(createDag[3 * i - 2]) =
            {<<n_src, n_hid(i - 1)>>, <<n_hid(i - 1), n_ad(i)>>, <<n_ad(i), n_hid(i)>>,
             <<n_hid(i), n_cid>>}
       /\ EdgesOf(createDag[3 * i - 1]) =
            {<<n_src, n_ad(i - 1)>>, <<n_ad(i - 1), n_ad(i)>>, <<n_ad(i), n_hid(i)>>,
             <<n_hid(i), n_cid>>}
  <1>1. EdgesOf(createDag[1]) = {<<n_src, n_hid(1)>>, <<n_hid(1), n_cid>>}
    BY WaysInOrder, EdgesOfThree
  <1>2. EdgesOf(createDag[2]) = {<<n_src, n_ad(1)>>, <<n_ad(1), n_hid(1)>>, <<n_hid(1), n_cid>>}
    BY WaysInOrder, EdgesOfFour
  <1>3. ASSUME NEW i \in 2 .. Num
        PROVE  EdgesOf(createDag[3 * i - 3]) =
                 {<<n_src, n_ad(i)>>, <<n_ad(i), n_hid(i)>>, <<n_hid(i), n_cid>>}
    BY WaysInOrder, EdgesOfFour
  <1>4. ASSUME NEW i \in 2 .. Num
        PROVE  EdgesOf(createDag[3 * i - 2]) =
                 {<<n_src, n_hid(i - 1)>>, <<n_hid(i - 1), n_ad(i)>>, <<n_ad(i), n_hid(i)>>,
                  <<n_hid(i), n_cid>>}
    <2>1. createDag[3 * i - 2] = <<n_src, n_hid(i - 1), n_ad(i), n_hid(i), n_cid>>
      BY WaysInOrder
    <2>2. EdgesOf(<<n_src, n_hid(i - 1), n_ad(i), n_hid(i), n_cid>>) =
            {<<n_src, n_hid(i - 1)>>, <<n_hid(i - 1), n_ad(i)>>, <<n_ad(i), n_hid(i)>>,
                  <<n_hid(i), n_cid>>}
      BY EdgesOfFive
    <2>3. QED
      BY <2>1, <2>2
  <1>5. ASSUME NEW i \in 2 .. Num
        PROVE  EdgesOf(createDag[3 * i - 1]) =
                 {<<n_src, n_ad(i - 1)>>, <<n_ad(i - 1), n_ad(i)>>, <<n_ad(i), n_hid(i)>>,
                  <<n_hid(i), n_cid>>}
    <2>1. createDag[3 * i - 1] = <<n_src, n_ad(i - 1), n_ad(i), n_hid(i), n_cid>>
      BY WaysInOrder
    <2>2. EdgesOf(<<n_src, n_ad(i - 1), n_ad(i), n_hid(i), n_cid>>) =
            {<<n_src, n_ad(i - 1)>>, <<n_ad(i - 1), n_ad(i)>>, <<n_ad(i), n_hid(i)>>,
                  <<n_hid(i), n_cid>>}
      BY EdgesOfFive
    <2>3. QED
      BY <2>1, <2>2
  <1>6. QED
    BY <1>1, <1>2, <1>3, <1>4, <1>5

\* Where the edges that matter are first added.
LEMMA EdgeIsAdded ==
  /\ \A i \in 1 .. Num :
       /\ \E k \in DOMAIN createDag :
            /\ k = IF i = 1 THEN 2 ELSE 3 * i - 3
            /\ <<n_src, n_ad(i)>> \in EdgesOf(createDag[k])
            /\ <<n_ad(i), n_hid(i)>> \in EdgesOf(createDag[k])
            /\ <<n_hid(i), n_cid>> \in EdgesOf(createDag[k])
       /\ i < Num =>
            /\ 3 * i + 1 \in DOMAIN createDag /\ 3 * i + 2 \in DOMAIN createDag
            /\ <<n_hid(i), n_ad(i + 1)>> \in EdgesOf(createDag[3 * i + 1])
            /\ <<n_ad(i), n_ad(i + 1)>> \in EdgesOf(createDag[3 * i + 2])
  <1> USE NumType
  <1>1. ASSUME NEW i \in 1 .. Num
        PROVE  \E k \in DOMAIN createDag :
                 /\ k = IF i = 1 THEN 2 ELSE 3 * i - 3
                 /\ <<n_src, n_ad(i)>> \in EdgesOf(createDag[k])
                 /\ <<n_ad(i), n_hid(i)>> \in EdgesOf(createDag[k])
                 /\ <<n_hid(i), n_cid>> \in EdgesOf(createDag[k])
    <2>1. CASE i = 1
      BY <2>1, WaysInOrder, EdgesInOrder
    <2>2. CASE i # 1
      <3>1. i \in 2 .. Num
        BY <2>2
      <3>2. QED
        BY <2>2, <3>1, WaysInOrder, EdgesInOrder
    <2>3. QED
      BY <2>1, <2>2
  <1>2. ASSUME NEW i \in 1 .. Num, i < Num
        PROVE  /\ 3 * i + 1 \in DOMAIN createDag /\ 3 * i + 2 \in DOMAIN createDag
               /\ <<n_hid(i), n_ad(i + 1)>> \in EdgesOf(createDag[3 * i + 1])
               /\ <<n_ad(i), n_ad(i + 1)>> \in EdgesOf(createDag[3 * i + 2])
    <2>1. /\ i + 1 \in 2 .. Num /\ (i + 1) - 1 = i
          /\ 3 * (i + 1) - 2 = 3 * i + 1 /\ 3 * (i + 1) - 1 = 3 * i + 2
      BY <1>2
    <2>2. 3 * i + 1 \in DOMAIN createDag /\ 3 * i + 2 \in DOMAIN createDag
      BY <1>2
    <2>3. QED
      BY <2>1, <2>2, EdgesInOrder
  <1>3. QED
    BY <1>1, <1>2

\* What an edge that a way adds can be.
EdgeKind(m, n, k) ==
  \/ \E i \in 1 .. Num : /\ m = n_src /\ n = n_ad(i)
                         /\ (i = 1 /\ k >= 2) \/ (i > 1 /\ k >= 3 * i - 3)
  \/ \E i \in 1 .. Num : m = n_src /\ n = n_hid(i) /\ (i = 1 \/ k >= 3 * i + 1)
  \/ \E i \in 1 .. Num : m = n_ad(i) /\ n = n_hid(i)
  \/ \E i \in 1 .. Num : m = n_hid(i) /\ n = n_cid
  \/ \E i \in 1 .. Num : i < Num /\ m = n_hid(i) /\ n = n_ad(i + 1) /\ k = 3 * i + 1
  \/ \E i \in 1 .. Num : i < Num /\ m = n_ad(i) /\ n = n_ad(i + 1) /\ k = 3 * i + 2

LEMMA EdgeKinds ==
  ASSUME NEW k \in DOMAIN createDag, NEW m, NEW n, <<m, n>> \in EdgesOf(createDag[k])
  PROVE  EdgeKind(m, n, k)
  <1> USE NumType
  <1>1. CASE k = 1
    <2>1. (m = n_src /\ n = n_hid(1)) \/ (m = n_hid(1) /\ n = n_cid)
      BY <1>1, EdgesInOrder
    <2>2. QED
      BY <2>1 DEF EdgeKind
  <1>2. CASE k = 2
    <2>1. \/ m = n_src /\ n = n_ad(1)
          \/ m = n_ad(1) /\ n = n_hid(1)
          \/ m = n_hid(1) /\ n = n_cid
      BY <1>2, EdgesInOrder
    <2>2. QED
      BY <1>2, <2>1 DEF EdgeKind
  <1>3. ASSUME NEW i \in 2 .. Num, k = 3 * i - 3
        PROVE  EdgeKind(m, n, k)
    <2>1. \/ m = n_src /\ n = n_ad(i)
          \/ m = n_ad(i) /\ n = n_hid(i)
          \/ m = n_hid(i) /\ n = n_cid
      BY <1>3, EdgesInOrder
    <2>2. i \in 1 .. Num /\ i > 1 /\ k >= 3 * i - 3
      BY <1>3
    <2>3. QED
      BY <2>1, <2>2 DEF EdgeKind
  <1>4. ASSUME NEW i \in 2 .. Num, k = 3 * i - 2
        PROVE  EdgeKind(m, n, k)
    <2>1. \/ m = n_src /\ n = n_hid(i - 1)
          \/ m = n_hid(i - 1) /\ n = n_ad(i)
          \/ m = n_ad(i) /\ n = n_hid(i)
          \/ m = n_hid(i) /\ n = n_cid
      BY <1>4, EdgesInOrder
    <2>2. /\ i \in 1 .. Num /\ i - 1 \in 1 .. Num /\ i - 1 < Num /\ (i - 1) + 1 = i
          /\ k = 3 * (i - 1) + 1 /\ k >= 3 * (i - 1) + 1
      BY <1>4
    <2>3. QED
      BY <2>1, <2>2 DEF EdgeKind
  <1>5. ASSUME NEW i \in 2 .. Num, k = 3 * i - 1
        PROVE  EdgeKind(m, n, k)
    <2>1. \/ m = n_src /\ n = n_ad(i - 1)
          \/ m = n_ad(i - 1) /\ n = n_ad(i)
          \/ m = n_ad(i) /\ n = n_hid(i)
          \/ m = n_hid(i) /\ n = n_cid
      BY <1>5, EdgesInOrder
    <2>2. /\ i \in 1 .. Num /\ i - 1 \in 1 .. Num /\ i - 1 < Num /\ (i - 1) + 1 = i
          /\ k = 3 * (i - 1) + 2
          /\ (i - 1 = 1 /\ k >= 2) \/ (i - 1 > 1 /\ k >= 3 * (i - 1) - 3)
      BY <1>5
    <2>3. QED
      BY <2>1, <2>2 DEF EdgeKind
  <1>6. QED
    BY <1>1, <1>2, <1>3, <1>4, <1>5, WaysInOrder

\* The nodes do not coincide.
LEMMA NodesDiffer ==
  /\ n_src # n_cid
  /\ \A i : n_src # n_ad(i) /\ n_src # n_hid(i) /\ n_cid # n_ad(i) /\ n_cid # n_hid(i)
  /\ \A i, j : n_ad(i) # n_hid(j)
  /\ \A i, j : (n_ad(i) = n_ad(j) => i = j) /\ (n_hid(i) = n_hid(j) => i = j)
  /\ \A i : n_ad(i)[2] = i /\ n_hid(i)[2] = i /\ n_ad(i)[1] = "ad" /\ n_hid(i)[1] = "hid"
  /\ n_src[1] = "src" /\ n_cid[1] = "cid"
  BY DEF n_src, n_cid, n_ad, n_hid

\* An edge that goes to a node is chosen before those added later.
LEMMA ChosenIsEarlier ==
  ASSUME NEW m, NEW n, NEW o, <<<<m, n>>, <<m, o>>>> \in Precedes,
         NEW l \in DOMAIN createDag, <<m, o>> \in EdgesOf(createDag[l])
  PROVE  \E k \in DOMAIN createDag : k <= l /\ EdgeKind(m, n, k)
  <1>1. PICK k \in DOMAIN createDag :
          /\ <<m, n>> \in EdgesOf(createDag[k])
          /\ \A j \in DOMAIN createDag : <<m, o>> \in EdgesOf(createDag[j]) => k <= j
    BY DEF Precedes
  <1>2. QED
    BY <1>1, EdgeKinds

\* Where the request can go, if what is there is up.
LEMMA CanGo ==
  ASSUME NEW i \in 1 .. Num
  PROVE  /\ serverLocations[i] \in adUp => n_ad(i) \in Ways(n_src)
         /\ serverLocations[i] \in hostUp => n_hid(i) \in Ways(n_ad(i))
         /\ serverLocations[i] \in holds => n_cid \in Ways(n_hid(i))
         /\ i < Num /\ serverLocations[i + 1] \in adUp =>
              n_ad(i + 1) \in Ways(n_ad(i)) /\ n_ad(i + 1) \in Ways(n_hid(i))
  <1> USE NumType, NodesDiffer
  <1>1. /\ <<n_src, n_ad(i)>> \in Edges
        /\ <<n_ad(i), n_hid(i)>> \in Edges
        /\ <<n_hid(i), n_cid>> \in Edges
    BY EdgeIsAdded DEF Edges
  <1>2. ASSUME i < Num
        PROVE  <<n_ad(i), n_ad(i + 1)>> \in Edges /\ <<n_hid(i), n_ad(i + 1)>> \in Edges
    <2>1. /\ 3 * i + 1 \in DOMAIN createDag /\ 3 * i + 2 \in DOMAIN createDag
          /\ <<n_hid(i), n_ad(i + 1)>> \in EdgesOf(createDag[3 * i + 1])
          /\ <<n_ad(i), n_ad(i + 1)>> \in EdgesOf(createDag[3 * i + 2])
      BY <1>2, EdgeIsAdded
    <2>2. QED
      BY <2>1 DEF Edges
  <1>3. n_ad(i) \in Nodes /\ n_hid(i) \in Nodes /\ n_cid \in Nodes
    BY DEF Nodes
  <1>4. i < Num => n_ad(i + 1) \in Nodes
    BY DEF Nodes
  <1>5. serverLocations[i] \in adUp => Usable(n_src, n_ad(i))
    BY DEF Usable
  <1>6. serverLocations[i] \in hostUp => Usable(n_ad(i), n_hid(i))
    BY DEF Usable
  <1>7. serverLocations[i] \in holds => Usable(n_hid(i), n_cid)
    BY DEF Usable
  <1>8. serverLocations[i + 1] \in adUp =>
          Usable(n_ad(i), n_ad(i + 1)) /\ Usable(n_hid(i), n_ad(i + 1))
    BY DEF Usable
  <1>9. QED
    BY <1>1, <1>2, <1>3, <1>4, <1>5, <1>6, <1>7, <1>8 DEF Ways

\* The invariant at the next place of a request, for each kind of edge.
LEMMA ForwardFromClient ==
  ASSUME TypeOK, at = n_src, NEW n \in Ways(at), NEW i \in 1 .. Num,
         \A o \in Ways(at) : <<<<at, n>>, <<at, o>>>> \in Precedes,
         n = n_ad(i) \/ n = n_hid(i)
  PROVE  PassedOver(i - 1)
  <1> USE NumType
  <1>1. ASSUME NEW j \in 1 .. i - 1
        PROVE  serverLocations[j] \notin adUp
    <2>1. SUFFICES ASSUME serverLocations[j] \in adUp
                   PROVE  FALSE
      OBVIOUS
    <2>2. j \in 1 .. Num /\ i > 1
      OBVIOUS
    <2>3. n_ad(j) \in Ways(at)
      BY <2>1, <2>2, CanGo
    <2>4. PICK l \in DOMAIN createDag :
            /\ l = IF j = 1 THEN 2 ELSE 3 * j - 3
            /\ <<at, n_ad(j)>> \in EdgesOf(createDag[l])
      BY <2>2, EdgeIsAdded
    <2>5. <<<<at, n>>, <<at, n_ad(j)>>>> \in Precedes
      BY <2>3
    <2>6. PICK k \in DOMAIN createDag : k <= l /\ EdgeKind(at, n, k)
      BY <2>4, <2>5, ChosenIsEarlier
    <2>7. k >= 3 * i - 3
      BY <2>2, <2>6, NodesDiffer DEF EdgeKind
    <2>8. QED
      BY <2>2, <2>4, <2>6, <2>7
  <1>2. \A j \in 1 .. i - 1 : ~Serving(j)
    BY <1>1 DEF Serving, Serves
  <1>3. QED
    BY <1>2 DEF PassedOver

\* A server that does not serve can be added to those passed over.
LEMMA OneMorePassed ==
  ASSUME NEW i \in 1 .. Num, PassedOver(i - 1), ~Serving(i)
  PROVE  PassedOver(i)
  <1>1. \A j \in 1 .. i : j \in 1 .. i - 1 \/ j = i
    BY NumType
  <1>2. QED
    BY <1>1 DEF PassedOver

LEMMA ForwardFromAd ==
  ASSUME TypeOK, NEW i \in 1 .. Num, at = n_ad(i), i < Num, NEW n \in Ways(at),
         \A o \in Ways(at) : <<<<at, n>>, <<at, o>>>> \in Precedes,
         n = n_ad(i + 1)
  PROVE  ~Serving(i)
  <1> USE NumType
  <1>1. SUFFICES ASSUME serverLocations[i] \in hostUp
                 PROVE  FALSE
    BY DEF Serving, Serves
  <1>2. n_hid(i) \in Ways(at)
    BY <1>1, CanGo
  <1>3. PICK l \in DOMAIN createDag :
          /\ l = IF i = 1 THEN 2 ELSE 3 * i - 3
          /\ <<at, n_hid(i)>> \in EdgesOf(createDag[l])
    BY EdgeIsAdded
  <1>4. PICK k \in DOMAIN createDag : k <= l /\ EdgeKind(at, n, k)
    BY <1>2, <1>3, ChosenIsEarlier
  <1>5. k = 3 * i + 2
    BY <1>4, NodesDiffer DEF EdgeKind
  <1>6. QED
    BY <1>3, <1>4, <1>5

LEMMA ForwardFromHost ==
  ASSUME TypeOK, NEW i \in 1 .. Num, at = n_hid(i), i < Num, NEW n \in Ways(at),
         \A o \in Ways(at) : <<<<at, n>>, <<at, o>>>> \in Precedes,
         n = n_ad(i + 1)
  PROVE  ~Serving(i)
  <1> USE NumType
  <1>1. SUFFICES ASSUME serverLocations[i] \in holds
                 PROVE  FALSE
    BY DEF Serving, Serves
  <1>2. n_cid \in Ways(at)
    BY <1>1, CanGo
  <1>3. PICK l \in DOMAIN createDag :
          /\ l = IF i = 1 THEN 2 ELSE 3 * i - 3
          /\ <<at, n_cid>> \in EdgesOf(createDag[l])
    BY EdgeIsAdded
  <1>4. PICK k \in DOMAIN createDag : k <= l /\ EdgeKind(at, n, k)
    BY <1>2, <1>3, ChosenIsEarlier
  <1>5. k = 3 * i + 1
    BY <1>4, NodesDiffer DEF EdgeKind
  <1>6. QED
    BY <1>3, <1>4, <1>5

\* All that the invariant says of the next place.
LEMMA ForwardKeepsPlace ==
  ASSUME IInv, NEW n \in Ways(at),
         \A o \in Ways(at) : <<<<at, n>>, <<at, o>>>> \in Precedes
  PROVE  \/ \E i \in 1 .. Num : (n = n_ad(i) \/ n = n_hid(i)) /\ PassedOver(i - 1)
         \/ \E i \in 1 .. Num : n = n_cid /\ at = n_hid(i) /\ PassedOver(i - 1)
  <1> USE NumType
  <1>1. PICK k \in DOMAIN createDag : EdgeKind(at, n, k)
    BY EdgeKinds DEF Ways, Edges
  <1>2. TypeOK
    BY DEF IInv
  <1>3. ASSUME NEW i \in 1 .. Num, at = n_ad(i) \/ at = n_hid(i)
        PROVE  PassedOver(i - 1)
    BY <1>3, NodesDiffer DEF IInv, OnTheWay
  <1>4. ASSUME NEW i \in 1 .. Num, at = n_src, n = n_ad(i) \/ n = n_hid(i)
        PROVE  PassedOver(i - 1)
    BY <1>2, <1>4, ForwardFromClient
  <1>5. ASSUME NEW i \in 1 .. Num, i < Num, at = n_ad(i) \/ at = n_hid(i), n = n_ad(i + 1)
        PROVE  i + 1 \in 1 .. Num /\ PassedOver((i + 1) - 1)
    <2>1. ~Serving(i)
      BY <1>2, <1>5, ForwardFromAd, ForwardFromHost
    <2>2. PassedOver(i)
      BY <1>3, <1>5, <2>1, OneMorePassed
    <2>3. i + 1 \in 1 .. Num /\ (i + 1) - 1 = i
      BY <1>5
    <2>4. QED
      BY <2>2, <2>3
  <1>6. QED
    BY <1>1, <1>3, <1>4, <1>5 DEF EdgeKind
-----------------------------------------------------------------------------
\* The invariant holds of a new request, is kept by each action, and gives
\* the properties of the request.
LEMMA InitialInvariant == Init => IInv
  <1> USE NumType, NodesDiffer
  <1> SUFFICES ASSUME Init PROVE IInv
    OBVIOUS
  <1>1. serverLocations \in [1 .. Num -> Servers]
    <2>1. Directory \in Seq(Servers)
      BY DirectoryAssumption DEF Servers
    <2>2. QED
      BY <2>1, LenProperties DEF Init, Num
  <1>2. {adUp, hostUp, nearby, holds} \subseteq SUBSET Servers
    BY DEF Init
  <1>3. {at, last} \subseteq Nodes
    BY DEF Init, Nodes
  <1>4. ~OnTheWay /\ at # n_cid
    BY DEF Init, OnTheWay
  <1>5. QED
    BY <1>1, <1>2, <1>3, <1>4 DEF IInv, TypeOK, EarlierServerFirst

LEMMA ForwardKeeps == IInv /\ Forward => IInv'
  <1> USE NumType, NodesDiffer
  <1> SUFFICES ASSUME IInv, Forward PROVE IInv'
    OBVIOUS
  <1>1. PICK n \in Ways(at) :
          at' = n /\ \A o \in Ways(at) : <<<<at, n>>, <<at, o>>>> \in Precedes
    BY DEF Forward
  <1>2. last' = at /\ UNCHANGED <<serverLocations, adUp, hostUp, nearby, holds>>
    BY DEF Forward
  <1>3. TypeOK'
    BY <1>1, <1>2 DEF IInv, TypeOK, Ways
  <1>4. \A i : PassedOver(i) => PassedOver(i)'
    BY <1>2 DEF PassedOver, Serving, Serves, Hidden
  <1>5. CASE \E i \in 1 .. Num : (n = n_ad(i) \/ n = n_hid(i)) /\ PassedOver(i - 1)
    <2>1. PICK i \in 1 .. Num : (n = n_ad(i) \/ n = n_hid(i)) /\ PassedOver(i - 1)
      BY <1>5
    <2>2. at' # n_cid /\ at'[2] = i
      BY <1>1, <2>1
    <2>3. PassedOver(i - 1)'
      BY <1>4, <2>1
    <2>4. PassedOver(at[2] - 1)'
      BY <2>2, <2>3
    <2>5. QED
      BY <1>3, <2>2, <2>4 DEF IInv, EarlierServerFirst
  <1>6. CASE \E i \in 1 .. Num : n = n_cid /\ at = n_hid(i) /\ PassedOver(i - 1)
    <2>1. PICK i \in 1 .. Num : n = n_cid /\ at = n_hid(i) /\ PassedOver(i - 1)
      BY <1>6
    <2>2. at' = n_cid /\ last' = n_hid(i) /\ last'[2] = i
      BY <1>1, <1>2, <2>1
    <2>3. PassedOver(i - 1)'
      BY <1>4, <2>1
    <2>4. EarlierServerFirst'
      BY <2>2, <2>3 DEF EarlierServerFirst
    <2>5. ~OnTheWay'
      BY <2>2 DEF OnTheWay
    <2>6. QED
      BY <1>3, <2>2, <2>4, <2>5 DEF IInv
  <1>7. QED
    BY <1>1, <1>5, <1>6, ForwardKeepsPlace

LEMMA FailoverKeeps == IInv /\ Failover => IInv'
  <1> USE NumType, NodesDiffer
  <1> SUFFICES ASSUME IInv, Failover PROVE IInv'
    OBVIOUS
  <1>1. at' = n_src /\ last' = n_src /\ UNCHANGED <<adUp, hostUp, nearby, holds>>
    BY DEF Failover
  <1>2. ~OnTheWay' /\ at' # n_cid
    BY <1>1 DEF OnTheWay
  <1>3. serverLocations' \in [1 .. Num -> Servers]
    <2>1. serverLocations' = Append(Tail(serverLocations), Head(serverLocations))
      BY DEF Failover, Rotated
    <2>2. serverLocations \in [1 .. Num -> Servers]
      BY DEF IInv, TypeOK
    <2>3. /\ serverLocations \in Seq(Servers) /\ Len(serverLocations) = Num
          /\ serverLocations # <<>>
      BY <2>2
    <2>4. /\ Head(serverLocations) \in Servers /\ Tail(serverLocations) \in Seq(Servers)
          /\ Len(Tail(serverLocations)) = Num - 1
      BY <2>3
    <2>5. serverLocations' \in Seq(Servers) /\ Len(serverLocations') = Num
      BY <2>1, <2>4
    <2>6. QED
      BY <2>5
  <1>4. TypeOK'
    BY <1>1, <1>3 DEF IInv, TypeOK, Nodes
  <1>5. QED
    BY <1>2, <1>4 DEF IInv, EarlierServerFirst

LEMMA TakeDownKeeps ==
  ASSUME IInv, NEW server \in Servers, TakeDown(server)
  PROVE  IInv'
  <1>1. /\ holds' \subseteq holds
        /\ UNCHANGED <<serverLocations, adUp, hostUp, nearby, at, last>>
    BY DEF TakeDown
  <1>2. \A i : PassedOver(i) => PassedOver(i)'
    BY <1>1 DEF PassedOver, Serving, Serves, Hidden
  <1>3. TypeOK'
    BY <1>1 DEF IInv, TypeOK
  <1>4. (OnTheWay => PassedOver(at[2] - 1))'
    BY <1>1, <1>2 DEF IInv, OnTheWay
  <1>5. EarlierServerFirst'
    BY <1>1, <1>2 DEF IInv, EarlierServerFirst
  <1>6. QED
    BY <1>1, <1>3, <1>4, <1>5 DEF IInv

LEMMA StuckMisses == IInv => MissedOnlyBehindDeadAd
  <1> USE NumType, NodesDiffer
  <1> SUFFICES ASSUME IInv, Stuck PROVE PassedOver(Num)
    BY DEF MissedOnlyBehindDeadAd
  <1>1. at # n_cid /\ Ways(at) = {}
    BY DEF Stuck
  <1>2. CASE at = n_src
    <2>1. \A i \in 1 .. Num : serverLocations[i] \notin adUp
      BY <1>1, <1>2, CanGo
    <2>2. QED
      BY <2>1 DEF PassedOver, Serving, Serves
  <1>3. ASSUME NEW i \in 1 .. Num, at = n_ad(i) \/ at = n_hid(i)
        PROVE  PassedOver(Num)
    <2>1. PassedOver(i - 1)
      BY <1>3 DEF IInv, OnTheWay
    <2>2. serverLocations[i] \notin hostUp \/ serverLocations[i] \notin holds
      BY <1>1, <1>3, CanGo
    <2>3. PassedOver(i)
      BY <2>1, <2>2, OneMorePassed DEF Serving, Serves
    <2>4. i < Num => serverLocations[i + 1] \notin adUp
      BY <1>1, <1>3, CanGo
    <2>5. ASSUME NEW j \in 1 .. Num, j > i
          PROVE  Hidden(j)
      <3>1. i + 1 \in 2 .. j /\ i < Num
        BY <2>5
      <3>2. QED
        BY <2>4, <3>1 DEF Hidden
    <2>6. \A j \in 1 .. Num : j \in 1 .. i \/ j > i
      OBVIOUS
    <2>7. QED
      BY <2>3, <2>5, <2>6 DEF PassedOver
  <1>4. at = n_src \/ \E i \in 1 .. Num : at = n_ad(i) \/ at = n_hid(i)
    BY <1>1 DEF IInv, TypeOK, Nodes
  <1>5. QED
    BY <1>2, <1>3, <1>4

\* Wherever a request is, the servers it has left behind do not serve, or are
\* hidden by a dead AD (the graph of createDag, rotateServerLocations).
THEOREM RequestInvariant == Spec => []IInv
  <1>1. Init => IInv
    BY InitialInvariant
  <1>2. IInv /\ [Next]_vars => IInv'
    <2> SUFFICES ASSUME IInv, [Next]_vars PROVE IInv'
      OBVIOUS
    <2>1. CASE Forward
      BY <2>1, ForwardKeeps
    <2>2. CASE Failover
      BY <2>2, FailoverKeeps
    <2>3. CASE \E server \in Servers : TakeDown(server)
      BY <2>3, TakeDownKeeps
    <2>4. CASE UNCHANGED vars
      BY <2>4 DEF vars, IInv, TypeOK, OnTheWay, PassedOver, Hidden, Serving, Serves,
                  EarlierServerFirst
    <2>5. QED
      BY <2>1, <2>2, <2>3, <2>4 DEF Next
  <1>3. QED
    BY <1>1, <1>2, PTL DEF Spec

\* A request that gets stuck has missed no server but behind a dead AD: the
\* fallback ways of createDag reach all others, however many there are.
THEOREM NoServerMissed == Spec => []MissedOnlyBehindDeadAd
  BY RequestInvariant, StuckMisses, PTL

\* The chunk is taken from a later server only when the ones before it cannot
\* give it: the order in which createDag adds the ways is the order of trial.
THEOREM PrimaryFirst == Spec => []EarlierServerFirst
  <1>1. IInv => EarlierServerFirst
    BY DEF IInv
  <1>2. QED
    BY <1>1, RequestInvariant, PTL
=============================================================================
