-------------------------- MODULE MCWhatIfWorkflow --------------------------
(* Five ratio levels, three iterations and four possible routes: one more    *)
(* candidate than a recommendation may name.                                 *)
EXTENDS WhatIfWorkflow, TLC

Symmetry == Permutations(Routes)

=============================================================================
