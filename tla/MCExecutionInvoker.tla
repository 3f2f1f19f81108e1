------------------------- MODULE MCExecutionInvoker -------------------------
(* Small instances of ExecutionInvoker. *)
EXTENDS ExecutionInvoker, TLC

\* Threads, transaction ids and sessions are interchangeable.
Symmetry == Permutations(Threads) \cup Permutations(TxIds) \cup Permutations(Conns)
=============================================================================
