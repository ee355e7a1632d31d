-------------------------- MODULE ChunkQueueProofs --------------------------
(***************************************************************************)
(* Proofs about ChunkQueue for any set of threads and any set of chunks.   *)
(***************************************************************************)
EXTENDS ChunkQueue, SequenceTheorems, TLAPS

\* Every state of the queue is well typed, only the owner of the mutex is at
\* work on the list, and what it has read stays current (the lock and unlock
\* around the body of every method of ChunkQueue.cpp).
THEOREM QueueInvariant == Spec => []IInv
<1>1. Init => IInv
  <2> SUFFICES ASSUME Init PROVE IInv
    OBVIOUS
  <2>1. [op |-> "size"] \in Ops
    BY DEF Ops
  <2>2. TypeOK
    <3>1. << >> \in Seq(Chunks)
      BY EmptySeq
    <3>2. call \in [Threads -> Ops]
      BY <2>1 DEF Init
    <3>3. QED
      BY <3>1, <3>2 DEF Init, TypeOK
  <2>3. OwnerOnly
    BY NoThreadAssumption DEF Init, OwnerOnly, Holding
  <2>4. NotStale
    BY DEF Init, NotStale
  <2>5. QED
    BY <2>2, <2>3, <2>4 DEF IInv
<1>2. IInv /\ [Next]_vars => IInv'
  <2> SUFFICES ASSUME IInv, [Next]_vars PROVE IInv'
    OBVIOUS
  <2> USE NoThreadAssumption DEF IInv, TypeOK, OwnerOnly, NotStale, Holding, Asserts
  <2>1. ASSUME NEW t \in Threads, NEW o \in Ops, Call(t, o) PROVE IInv'
    BY <2>1 DEF Call
  <2>2. ASSUME NEW t \in Threads, Lock(t) PROVE IInv'
    BY <2>2 DEF Lock
  <2>3. ASSUME NEW t \in Threads, ReadList(t) PROVE IInv'
    BY <2>3 DEF ReadList
  <2>4. ASSUME NEW t \in Threads, AssertFails(t) PROVE IInv'
    BY <2>4 DEF AssertFails
  <2>5. ASSUME NEW t \in Threads, WriteList(t) PROVE IInv'
    <3>1. chunkQueue' \in Seq(Chunks)
      <4>1. CASE Size(t) \/ Front(t)
        BY <4>1 DEF Size, Front
      <4>2. CASE Pop(t)
        <5>1. seen[t] \in Seq(Chunks) /\ seen[t] # << >>
          BY <2>5, <4>2 DEF WriteList, Pop
        <5>2. QED
          BY <4>2, <5>1, HeadTailProperties DEF Pop
      <4>3. CASE Push(t)
        <5>1. call[t].chunk \in Chunks
          BY <4>3 DEF Push, Ops
        <5>2. QED
          BY <4>3, <5>1, AppendProperties DEF Push
      <4>4. QED
        BY <2>5, <4>1, <4>2, <4>3 DEF WriteList
    <3>2. \A s \in Threads : s # t => pc[s] # "write"
      BY <2>5 DEF WriteList
    <3>3. QED
      BY <2>5, <3>1, <3>2 DEF WriteList
  <2>6. ASSUME NEW t \in Threads, Unlock(t) PROVE IInv'
    BY <2>6 DEF Unlock
  <2>7. ASSUME NEW t \in Threads, Return(t) PROVE IInv'
    BY <2>7 DEF Return
  <2>8. CASE UNCHANGED vars
    BY <2>8 DEF vars
  <2>9. QED
    BY <2>1, <2>2, <2>3, <2>4, <2>5, <2>6, <2>7, <2>8 DEF Next
<1>3. QED
  BY <1>1, <1>2, PTL DEF Spec

\* A step that moves t alone within one phase leaves every phase as it is;
\* one that moves t into another phase changes t's phase only.
LEMMA PhaseOfStep ==
  ASSUME TypeOK, NEW t \in Threads, NEW l \in {"idle", "lock", "return"} \cup Holding,
         pc' = [pc EXCEPT ![t] = l]
  PROVE  Phase' = [Phase EXCEPT ![t] =
           CASE l = "idle" -> "idle"
             [] l \in {"lock", "read", "write"} -> "called"
             [] OTHER -> "done"]
  BY DEF TypeOK, Holding, Phase

\* Every step of the locked queue is a step of the atomic FIFO queue or
\* leaves it unchanged (ChunkQueue.h:10, "A thread-safe wrapper").
THEOREM QueueIsAtomicFifo == Spec => IsAtomicFifo
<1>1. Init => Fifo!Init
  BY DEF Init, Fifo!Init, Phase
<1>2. IInv /\ [Next]_vars => [Fifo!Next]_Fifo!vars
  <2> SUFFICES ASSUME IInv, [Next]_vars PROVE [Fifo!Next]_Fifo!vars
    OBVIOUS
  <2> USE DEF IInv, TypeOK, Fifo!vars
  <2>1. ASSUME NEW t \in Threads, NEW o \in Ops, Call(t, o)
        PROVE  Fifo!Call(t, o)
    BY <2>1, PhaseOfStep DEF Call, Fifo!Call, Phase
  <2>2. ASSUME NEW t \in Threads, Lock(t) PROVE UNCHANGED Fifo!vars
    BY <2>2, PhaseOfStep DEF Lock, Phase, Holding
  <2>3. ASSUME NEW t \in Threads, ReadList(t) PROVE UNCHANGED Fifo!vars
    BY <2>3, PhaseOfStep DEF ReadList, Phase, Holding
  <2>4. ASSUME NEW t \in Threads, AssertFails(t) PROVE Fifo!Abort(t)
    BY <2>4 DEF AssertFails, Asserts, Fifo!Abort, Fifo!AssertFails, Phase
  <2>5. ASSUME NEW t \in Threads, WriteList(t) PROVE Fifo!TakeEffect(t)
    <3>1. Phase[t] = "called" /\ Phase' = [Phase EXCEPT ![t] = "done"]
      BY <2>5, PhaseOfStep DEF WriteList, Phase, Holding
    <3>2. ~Fifo!AssertFails(call[t], chunkQueue) /\ seen[t] = chunkQueue
      BY <2>5 DEF WriteList, NotStale, Asserts, Fifo!AssertFails
    <3>3. /\ chunkQueue' = Fifo!After(call[t], chunkQueue)
          /\ result' = [result EXCEPT ![t] = Fifo!Yield(call[t], chunkQueue)]
      BY <2>5, <3>2 DEF WriteList, Size, Front, Pop, Push, Fifo!After, Fifo!Yield
    <3>4. QED
      BY <2>5, <3>1, <3>2, <3>3 DEF WriteList, Fifo!TakeEffect
  <2>6. ASSUME NEW t \in Threads, Unlock(t) PROVE UNCHANGED Fifo!vars
    BY <2>6, PhaseOfStep DEF Unlock, Phase, Holding
  <2>7. ASSUME NEW t \in Threads, Return(t) PROVE Fifo!Return(t)
    BY <2>7, PhaseOfStep DEF Return, Fifo!Return, Phase
  <2>8. CASE UNCHANGED vars
    BY <2>8 DEF vars, Phase
  <2>9. QED
    BY <2>1, <2>2, <2>3, <2>4, <2>5, <2>6, <2>7, <2>8
       DEF Next, Fifo!Next, Fifo!Ops, Ops
<1>3. QED
  BY <1>1, <1>2, QueueInvariant, PTL DEF Spec, IsAtomicFifo, Fifo!Spec
=============================================================================
