---------------------------- MODULE MCBugReport ----------------------------
(***************************************************************************)
(* Instances of BugReport for TLC.                                         *)
(***************************************************************************)
EXTENDS BugReport

CONSTANTS timer, write

Writers == {write}

\* Each CPU balances for itself.
Balancers  == CPU
OwnCpu     == [b \in CPU |-> {b}]
=============================================================================
