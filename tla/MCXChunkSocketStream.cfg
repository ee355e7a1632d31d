\* Chunks of 1 to 3 bytes, reads of 1 to 5: a read within a chunk, up to its
\* end, over two boundaries, and one that the end of the file cuts short.
SPECIFICATION FairSpec
CONSTANTS
  MaxChunk = 3
  MaxRequest = 5
  MaxBytes = 7
INVARIANT IInv
PROPERTIES NothingAfterEnd ReadReturns
