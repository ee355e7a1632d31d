------------------------------ MODULE ChunkDag ------------------------------
(***************************************************************************)
(* The address a chunk is requested with: ChunkFetcher::createDag (client/ *)
(* ChunkFetcher.cpp) draws a graph from the client to the chunk over all   *)
(* the content servers the directory has named, the primary one first, and *)
(* fetchChunkWindow rotates the servers when a request comes to nothing.   *)
(*                                                                         *)
(* The network (XIA, not in this repository) is modelled by what the graph *)
(* is for: a request goes from node to node, at each along the first of    *)
(* its edges, in the order in which they were added, that can be used.     *)
(***************************************************************************)
EXTENDS Naturals, Sequences, Functions

CONSTANT Directory    \* the content servers (each an AD and a host in it), in the
                      \* order in which the directory names them; a location that
                      \* is misread (the reply is parsed up to the first zero byte,
                      \* VideoClient.cpp:102) is one that is never up

ASSUME DirectoryAssumption ==
  /\ Directory \in Seq(Range(Directory)) /\ Directory # <<>>
  /\ \A i, j \in DOMAIN Directory : Directory[i] = Directory[j] => i = j

Servers == Range(Directory)
Num == Len(Directory)

VARIABLES
  serverLocations,   \* the servers, primary first
  adUp, hostUp,      \* the servers whose AD, and whose host, are up
  nearby,            \* the servers whose host the client reaches without its AD
  holds,             \* the servers that hold the chunk
  at, last           \* where the request is, and where it was before

vars == <<serverLocations, adUp, hostUp, nearby, holds, at, last>>

n_src == <<"src", 0>>
n_ad(i) == <<"ad", i>>
n_hid(i) == <<"hid", i>>
n_cid == <<"cid", 0>>
Nodes == {n_src, n_cid} \cup {n_ad(i) : i \in 1 .. Num} \cup {n_hid(i) : i \in 1 .. Num}
-----------------------------------------------------------------------------
(* createDag *)

\* The ways to the primary server.
primaryGraph == << <<n_src, n_hid(1), n_cid>>, <<n_src, n_ad(1), n_hid(1), n_cid>> >>

\* Mutant of fallbackGraph: nothing is added from the host of the server before.
HostlessFallbackGraph(i) ==
  << <<n_src, n_ad(i), n_hid(i), n_cid>>,
     <<n_src, n_ad(i), n_hid(i), n_cid>>,
     <<n_src, n_ad(i - 1), n_ad(i), n_hid(i), n_cid>> >>

\* What is added for a later server: from the client, and from the host and
\* from the AD of the server before it.
fallbackGraph(i) ==
  << <<n_src, n_ad(i), n_hid(i), n_cid>>,
     <<n_src, n_hid(i - 1), n_ad(i), n_hid(i), n_cid>>,
     <<n_src, n_ad(i - 1), n_ad(i), n_hid(i), n_cid>> >>

\* Mutant of createDag: what is added is put in front of what there is.
BackwardDag ==
  [k \in 1 .. 3 * Num - 1 |->
     IF k >= 3 * Num - 2 THEN primaryGraph[3 * Num - k]
     ELSE fallbackGraph(((3 * Num - k) \div 3) + 1)[((3 * Num - k) % 3) + 1]]

\* All ways, in the order in which they are added to the graph.
createDag ==
  [k \in 1 .. 3 * Num - 1 |->
     IF k <= 2 THEN primaryGraph[k] ELSE fallbackGraph((k \div 3) + 1)[(k % 3) + 1]]

EdgesOf(way) == {<<way[j], way[j + 1]>> : j \in 1 .. Len(way) - 1}

Edges == UNION {EdgesOf(createDag[k]) : k \in DOMAIN createDag}

\* One edge takes precedence over another that was added with a later way.
Precedes ==
  {p \in Edges \X Edges :
     \E k \in DOMAIN createDag :
       /\ p[1] \in EdgesOf(createDag[k])
       /\ \A l \in DOMAIN createDag : p[2] \in EdgesOf(createDag[l]) => k <= l}
-----------------------------------------------------------------------------
Init ==
  /\ serverLocations = Directory
  /\ adUp \in SUBSET Servers /\ hostUp \in SUBSET Servers
  /\ nearby \in SUBSET Servers /\ holds \in SUBSET Servers
  /\ at = n_src /\ last = n_src

\* The network can take the request from m to n: a host is reached in its AD,
\* by the client also nearby, the chunk at a host that holds it.
Usable(m, n) ==
  LET server == serverLocations[n[2]]
  IN  CASE n[1] = "ad"  -> server \in adUp
        [] n[1] = "hid" -> server \in hostUp /\ (m = n_src => server \in nearby)
        [] n[1] = "cid" -> serverLocations[m[2]] \in holds

Ways(m) == {n \in Nodes : <<m, n>> \in Edges /\ Usable(m, n)}

Forward ==
  /\ \E n \in Ways(at) :
       /\ \A o \in Ways(at) : <<<<at, n>>, <<at, o>>>> \in Precedes
       /\ at' = n
  /\ last' = at
  /\ UNCHANGED <<serverLocations, adUp, hostUp, nearby, holds>>

Stuck == at # n_cid /\ Ways(at) = {}

\* Mutant of Rotated: the first location is not put back.
RotatedAway(locations) == Tail(locations)

\* Mutant of Rotated: the first location goes back to the front.
RotatedInPlace(locations) == <<Head(locations)>> \o Tail(locations)

\* rotateServerLocations
Rotated(locations) == Append(Tail(locations), Head(locations))

\* The request comes to nothing and readChunkData gives up waiting: the
\* servers are rotated and a new request is made, with the graph they give.
Failover ==
  /\ Stuck
  /\ serverLocations' = Rotated(serverLocations)
  /\ at' = n_src /\ last' = n_src
  /\ UNCHANGED <<adUp, hostUp, nearby, holds>>

\* A content server started with a period takes its chunks down after it.
TakeDown(server) ==
  /\ server \in holds
  /\ holds' = holds \ {server}
  /\ UNCHANGED <<serverLocations, adUp, hostUp, nearby, at, last>>

Next == Forward \/ Failover \/ \E server \in Servers : TakeDown(server)

Spec == Init /\ [][Next]_vars

\* The network forwards what it can, and the fetcher stops waiting after
\* NUM_WAITING_MESSAGES_THRESHOLD polls.  Nothing need ever be taken down.
FairSpec == Spec /\ WF_vars(Forward) /\ WF_vars(Failover)
-----------------------------------------------------------------------------
TypeOK ==
  /\ serverLocations \in [1 .. Num -> Servers]
  /\ {adUp, hostUp, nearby, holds} \subseteq SUBSET Servers
  /\ {at, last} \subseteq Nodes

Serves(server) == server \in adUp \cap hostUp \cap holds

Serving(i) == i \in 1 .. Num /\ Serves(serverLocations[i])

\* What hides a server that could serve: the AD of a server before it, other
\* than the first, is down.
Hidden(i) == \E j \in 2 .. i : serverLocations[j] \notin adUp

PassedOver(n) == \A i \in 1 .. n : Serving(i) => Hidden(i)

\* A request that is stuck has tried all servers but those hidden from it.
MissedOnlyBehindDeadAd == Stuck => PassedOver(Num)

\* A later server is asked only when the ones before it do not serve or are
\* hidden: the primary one carries the load as long as it can.
EarlierServerFirst == at = n_cid => PassedOver(last[2] - 1)

\* The inductive invariant behind them: so it is at every place on the way.
OnTheWay == at \in {n_ad(i) : i \in 1 .. Num} \cup {n_hid(i) : i \in 1 .. Num}

IInv ==
  /\ TypeOK
  /\ OnTheWay => PassedOver(at[2] - 1)
  /\ at = n_cid => last \in {n_hid(i) : i \in 1 .. Num}
  /\ EarlierServerFirst

\* If one server goes on serving, the chunk is reached in the end, whatever
\* is wrong with all others: at the latest when rotation has made it primary.
FailoverReachesChunk == (\E server \in Servers : []Serves(server)) => <>(at = n_cid)
=============================================================================
