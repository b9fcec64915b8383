--------------------------- MODULE MCJobExecution ---------------------------
(* Small instances of JobExecution: one job, a few processes, and budgets for *)
(* deaths, faults and redeliveries, set by the configurations.                *)
EXTENDS JobExecution, TLC

Symmetry == Permutations(Workers) \cup Permutations(Apis)

=============================================================================
