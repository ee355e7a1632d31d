--------------------------- MODULE MCChunkFetcher ---------------------------
(* ChunkFetcher on a short video and two or three content servers.         *)
EXTENDS ChunkFetcher, TLC

CONSTANTS s1, s2

\* The primary location takes its content down, the fallback keeps it.
PrimaryFirst == <<s1, s2>>
=============================================================================
