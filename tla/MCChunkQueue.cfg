\* Two threads call every operation in every order.  A failed assertion ends
\* the process, so the system may stop.
SPECIFICATION FairSpec
CONSTANTS
  Threads = {fetcher, player}
  Chunks = {c1, c2}
  NoThread = NoThread
  MaxLen = 1
INVARIANT IInv
PROPERTY IsAtomicFifo
PROPERTY LockReleased
CHECK_DEADLOCK FALSE
