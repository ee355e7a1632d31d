----------------------------- MODULE MCChunkDag -----------------------------
(* Three content servers for the runs of ChunkDag. *)
EXTENDS ChunkDag

CONSTANTS s1, s2, s3

ThreeServers == <<s1, s2, s3>>
=============================================================================
