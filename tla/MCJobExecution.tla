--------------------------- MODULE MCJobExecution ---------------------------
(* Instances of JobExecution for TLC. *)
EXTENDS JobExecution, TLC

\* The workers are interchangeable.
WorkerSymmetry == Permutations(Worker)

=============================================================================
