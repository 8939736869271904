-------------------------- MODULE MCToggleOptions -------------------------
(* Symmetry of ToggleOptions: processes that do not refuse calls.           *)
EXTENDS ToggleOptions, TLC

CONSTANTS p1, p2, p3

Processes == Permutations({p1, p2})
=============================================================================
