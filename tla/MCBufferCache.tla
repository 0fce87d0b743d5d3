--------------------------- MODULE MCBufferCache ---------------------------
(* Small instances of BufferCache. *)
EXTENDS BufferCache, TLC

Sym == Permutations(Proc) \cup Permutations(Block) \cup Permutations(Buf)

=============================================================================
