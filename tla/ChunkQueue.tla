----------------------------- MODULE ChunkQueue -----------------------------
(***************************************************************************)
(* client/ChunkQueue.cpp: an std::list of chunks behind one pthread mutex. *)
(* Each of size, front, pop and push locks, works on the list, unlocks and *)
(* returns.  std::list is not atomic: the work on it is a read of the list *)
(* (where front and pop assert that it is not empty) and a later write of  *)
(* what follows from that read, so that without the mutex two threads'     *)
(* calls would lose each other's updates.                                  *)
(***************************************************************************)
EXTENDS Naturals, Sequences

CONSTANTS
  Threads,   \* the threads that share the queue
  Chunks,    \* the chunks they push
  NoThread,  \* owner of a free mutex
  MaxLen     \* bound: no push is called on a list this long

ASSUME NoThreadAssumption == NoThread \notin Threads

VARIABLES
  chunkQueue,  \* the std::list
  queueLock,   \* the thread that holds the mutex, or NoThread
  pc,          \* pc[t]: where thread t is in its call
  call,        \* call[t]: the operation t called last
  seen,        \* seen[t]: the list as t's call has read it
  result,      \* result[t]: the return value of t's last call
  aborted      \* an assert failed

vars == <<chunkQueue, queueLock, pc, call, seen, result, aborted>>

Ops == [op: {"size", "front", "pop"}] \cup [op: {"push"}, chunk: Chunks]

Init ==
  /\ chunkQueue = << >>
  /\ queueLock = NoThread
  /\ pc = [t \in Threads |-> "idle"]
  /\ call = [t \in Threads |-> [op |-> "size"]]
  /\ seen = [t \in Threads |-> << >>]
  /\ result = [t \in Threads |-> [void |-> TRUE]]
  /\ aborted = FALSE

Call(t, o) ==
  /\ ~aborted /\ pc[t] = "idle"
  /\ o.op = "push" => Len(chunkQueue) < MaxLen
  /\ pc' = [pc EXCEPT ![t] = "lock"]
  /\ call' = [call EXCEPT ![t] = o]
  /\ UNCHANGED <<chunkQueue, queueLock, seen, result, aborted>>

\* Mutant of Lock: the mutex does not exclude.
LockUnguarded(t) ==
  /\ ~aborted /\ pc[t] = "lock"
  /\ queueLock' = t
  /\ pc' = [pc EXCEPT ![t] = "read"]
  /\ UNCHANGED <<chunkQueue, call, seen, result, aborted>>

Lock(t) ==
  /\ ~aborted /\ pc[t] = "lock" /\ queueLock = NoThread
  /\ queueLock' = t
  /\ pc' = [pc EXCEPT ![t] = "read"]
  /\ UNCHANGED <<chunkQueue, call, seen, result, aborted>>

Asserts(t) == call[t].op \in {"front", "pop"}

\* Mutant of ReadList: front and pop do not assert.
ReadListUnasserted(t) ==
  /\ ~aborted /\ pc[t] = "read"
  /\ seen' = [seen EXCEPT ![t] = chunkQueue]
  /\ pc' = [pc EXCEPT ![t] = "write"]
  /\ UNCHANGED <<chunkQueue, queueLock, call, result, aborted>>

ReadList(t) ==
  /\ ~aborted /\ pc[t] = "read"
  /\ Asserts(t) => chunkQueue # << >>
  /\ seen' = [seen EXCEPT ![t] = chunkQueue]
  /\ pc' = [pc EXCEPT ![t] = "write"]
  /\ UNCHANGED <<chunkQueue, queueLock, call, result, aborted>>

AssertFails(t) ==
  /\ ~aborted /\ pc[t] = "read"
  /\ Asserts(t) /\ chunkQueue = << >>
  /\ aborted' = TRUE
  /\ UNCHANGED <<chunkQueue, queueLock, pc, call, seen, result>>

Size(t) ==
  /\ call[t].op = "size"
  /\ result' = [result EXCEPT ![t] = [size |-> Len(seen[t])]]
  /\ UNCHANGED chunkQueue

Front(t) ==
  /\ call[t].op = "front"
  /\ result' = [result EXCEPT ![t] = [chunk |-> Head(seen[t])]]
  /\ UNCHANGED chunkQueue

Pop(t) ==
  /\ call[t].op = "pop"
  /\ chunkQueue' = Tail(seen[t])
  /\ result' = [result EXCEPT ![t] = [void |-> TRUE]]

Push(t) ==
  /\ call[t].op = "push"
  /\ chunkQueue' = Append(seen[t], call[t].chunk)
  /\ result' = [result EXCEPT ![t] = [void |-> TRUE]]

WriteList(t) ==
  /\ ~aborted /\ pc[t] = "write"
  /\ Size(t) \/ Front(t) \/ Pop(t) \/ Push(t)
  /\ pc' = [pc EXCEPT ![t] = "unlock"]
  /\ UNCHANGED <<queueLock, call, seen, aborted>>

\* Mutant of Unlock: a return without it.
UnlockForgotten(t) ==
  /\ ~aborted /\ pc[t] = "unlock"
  /\ pc' = [pc EXCEPT ![t] = "return"]
  /\ UNCHANGED <<chunkQueue, queueLock, call, seen, result, aborted>>

Unlock(t) ==
  /\ ~aborted /\ pc[t] = "unlock"
  /\ queueLock' = NoThread
  /\ pc' = [pc EXCEPT ![t] = "return"]
  /\ UNCHANGED <<chunkQueue, call, seen, result, aborted>>

Return(t) ==
  /\ ~aborted /\ pc[t] = "return"
  /\ pc' = [pc EXCEPT ![t] = "idle"]
  /\ UNCHANGED <<chunkQueue, queueLock, call, seen, result, aborted>>

Next == \E t \in Threads :
  \/ \E o \in Ops : Call(t, o)
  \/ Lock(t)
  \/ ReadList(t)
  \/ AssertFails(t)
  \/ WriteList(t)
  \/ Unlock(t)
  \/ Return(t)

Spec == Init /\ [][Next]_vars

\* A thread that holds the mutex is scheduled again.
HolderRuns(t) == ReadList(t) \/ AssertFails(t) \/ WriteList(t) \/ Unlock(t)

FairSpec == Spec /\ \A t \in Threads : WF_vars(HolderRuns(t))
-----------------------------------------------------------------------------
Holding == {"read", "write", "unlock"}

TypeOK ==
  /\ chunkQueue \in Seq(Chunks)
  /\ queueLock \in Threads \cup {NoThread}
  /\ pc \in [Threads -> {"idle", "lock", "return"} \cup Holding]
  /\ call \in [Threads -> Ops]
  /\ seen \in [Threads -> Seq(Chunks)]
  /\ aborted \in BOOLEAN

\* A thread is past the lock exactly while it owns the mutex, so no two
\* threads are ever at work on the list (ChunkQueue.cpp locks on entry and
\* unlocks before every return).
OwnerOnly == \A t \in Threads : pc[t] \in Holding <=> queueLock = t

\* What a call has read is still what the list holds when it writes, and a
\* front or pop that got past its assertion has a chunk to take.
NotStale == \A t \in Threads : pc[t] = "write" =>
  /\ seen[t] = chunkQueue
  /\ Asserts(t) => seen[t] # << >>

IInv == TypeOK /\ OwnerOnly /\ NotStale

(***************************************************************************)
(* The locked queue is the atomic FIFO queue its header promises ("Is      *)
(* Thread Safe", client/ChunkQueue.h:31-49): a call takes effect when it   *)
(* writes the list.                                                        *)
(***************************************************************************)
Phase == [t \in Threads |->
  CASE pc[t] = "idle" -> "idle"
    [] pc[t] \in {"lock", "read", "write"} -> "called"
    [] OTHER -> "done"]

Fifo == INSTANCE FifoQueue WITH list <- chunkQueue, phase <- Phase

IsAtomicFifo == Fifo!Spec

\* Every operation gives the mutex back, unless an assertion ends the
\* process.
LockReleased == \A t \in Threads :
  (queueLock = t) ~> (queueLock # t \/ aborted)
=============================================================================
