---------------------------- MODULE MCBufferQueue ----------------------------
(***************************************************************************)
(* BufferQueue for TLC: any two slots, and any two buffers, are alike.     *)
(***************************************************************************)
EXTENDS BufferQueue, TLC

Alike == Permutations(Slots) \cup Permutations(Buffers)
=============================================================================
