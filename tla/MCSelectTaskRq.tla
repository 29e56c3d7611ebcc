--------------------------- MODULE MCSelectTaskRq ---------------------------
(***************************************************************************)
(* An instance of SelectTaskRq for TLC: two CPUs, three tasks that may run *)
(* on CPU 0 only or anywhere.                                              *)
(***************************************************************************)
EXTENDS SelectTaskRq, TLC

CONSTANTS t1, t2, t3

Tasks    == {t1, t2, t3}
Masks    == {{0}, CPU}
Symmetry == Permutations(Tasks)
=============================================================================
