---------------------------- MODULE MCChunkRunner ----------------------------
(* Two runners over the same two chunks, in opposite orders. *)
EXTENDS ChunkRunnerInv, TLC

CONSTANTS r1, r2, c1, c2

MCQueue == (r1 :> <<c1, c2>>) @@ (r2 :> <<c2, c1>>)
=============================================================================
