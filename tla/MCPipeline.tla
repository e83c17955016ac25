----------------------------- MODULE MCPipeline -----------------------------
(* Small instances of Pipeline for TLC. *)
EXTENDS Pipeline, TLC

CONSTANTS b1, b2, r1, r2, r3, w1, w2

\* All the runs are of batch b1; a batch b2 has none.
OneBatch == [r \in Runs |-> b1]

\* Runs of one batch are interchangeable, and so are the web processes.
Symmetry == Permutations(Runs) \cup Permutations(WebWorkers)
=============================================================================
