-------------------------- MODULE MCSanityChecker --------------------------
(***************************************************************************)
(* Instances of SanityChecker for TLC: two CPUs; every task may run        *)
(* anywhere but the pinned one.                                            *)
(***************************************************************************)
EXTENDS SanityChecker

CONSTANTS t1, t2, t3

Tasks2 == {t1, t2}
Tasks3 == {t1, t2, t3}
Anywhere2  == [t \in Tasks2 |-> CPU]
Anywhere3  == [t \in Tasks3 |-> CPU]
OnePinned  == [t \in Tasks2 |-> IF t = t1 THEN {0} ELSE CPU]
NoStatus   == {}
=============================================================================
