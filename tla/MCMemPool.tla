----------------------------- MODULE MCMemPool ------------------------------
(* A TLC instance of MemPool: see MCMemPoolCount.cfg. *)
EXTENDS MemPool, TLC

\* Threads are only told apart by what they do, and so are blocks.
Permuted == Permutations(Threads) \cup Permutations(Blocks)

=============================================================================
