----------------------------- MODULE FifoQueue -----------------------------
(***************************************************************************)
(* What the chunk queue promises ("A thread-safe wrapper on an stl list",  *)
(* client/ChunkQueue.h): every call of size, front, pop or push takes      *)
(* effect at one instant between its call and its return, on one FIFO      *)
(* list.  A pop or front on an empty list fails the program's assertion.   *)
(***************************************************************************)
EXTENDS Naturals, Sequences

CONSTANTS Threads, Chunks

VARIABLES
  list,    \* the chunks in the queue, oldest first
  phase,   \* phase[t]: t is outside ("idle"), inside ("called") or past the effect ("done")
  call,    \* call[t]: the operation of t's latest call
  result,  \* result[t]: what t's latest call yields
  aborted  \* an assertion failed: the process is gone

vars == <<list, phase, call, result, aborted>>

\* The calls a thread can make, push with its argument.
Ops == [op: {"size", "front", "pop"}] \cup [op: {"push"}, chunk: Chunks]

\* The list after an operation, and what the operation yields to its caller
\* (pop and push return nothing).
After(o, l) == CASE o.op = "push" -> Append(l, o.chunk)
                 [] o.op = "pop"  -> Tail(l)
                 [] OTHER         -> l

Yield(o, l) == CASE o.op = "size"  -> [size |-> Len(l)]
                 [] o.op = "front" -> [chunk |-> Head(l)]
                 [] OTHER          -> [void |-> TRUE]

AssertFails(o, l) == o.op \in {"front", "pop"} /\ l = << >>

Init ==
  /\ list = << >>
  /\ phase = [t \in Threads |-> "idle"]
  /\ call = [t \in Threads |-> [op |-> "size"]]
  /\ result = [t \in Threads |-> [void |-> TRUE]]
  /\ aborted = FALSE

Call(t, o) ==
  /\ ~aborted /\ phase[t] = "idle"
  /\ phase' = [phase EXCEPT ![t] = "called"]
  /\ call' = [call EXCEPT ![t] = o]
  /\ UNCHANGED <<list, result, aborted>>

\* The instant at which the operation happens.
TakeEffect(t) ==
  /\ ~aborted /\ phase[t] = "called" /\ ~AssertFails(call[t], list)
  /\ phase' = [phase EXCEPT ![t] = "done"]
  /\ list' = After(call[t], list)
  /\ result' = [result EXCEPT ![t] = Yield(call[t], list)]
  /\ UNCHANGED <<call, aborted>>

Abort(t) ==
  /\ ~aborted /\ phase[t] = "called" /\ AssertFails(call[t], list)
  /\ aborted' = TRUE
  /\ UNCHANGED <<list, phase, call, result>>

Return(t) ==
  /\ ~aborted /\ phase[t] = "done"
  /\ phase' = [phase EXCEPT ![t] = "idle"]
  /\ UNCHANGED <<list, call, result, aborted>>

Next == \E t \in Threads :
  (\E o \in Ops : Call(t, o)) \/ TakeEffect(t) \/ Abort(t) \/ Return(t)

Spec == Init /\ [][Next]_vars
=============================================================================
