------------------------------ MODULE MCExecutor ------------------------------
(* Small instances of Executor.                                            *)
EXTENDS Executor, TLC

\* Indices of the three slot maps are interchangeable.
Symmetry == Permutations(Cqids) \cup Permutations(Bufs) \cup Permutations(Tasks)
=============================================================================
