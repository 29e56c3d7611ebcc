-------------------------- MODULE MCGroupImbalance --------------------------
(***************************************************************************)
(* Instances of GroupImbalance for TLC.  A light task weighs 1, a heavy    *)
(* one 8.                                                                  *)
(***************************************************************************)
EXTENDS GroupImbalance

Tasks   == {1, 8}
Light   == [l \in Tasks |-> IF l = 1 THEN 2 ELSE 0]
Heavy   == [l \in Tasks |-> IF l = 8 THEN 1 ELSE 0]
Nothing == [l \in Tasks |-> 0]
AllCpus == {1, 2, 3}

\* A node of two CPUs whose average a heavy task keeps above that of the other
\* node, where a task waits on the only CPU.
TwoNodes     == <<1, 1, 2>>
HeavyAndIdle == <<Heavy, Nothing, Light>>

\* Three nodes of one CPU: the second overloaded, the third with a heavy task.
ThreeNodes     == <<1, 2, 3>>
IdleLightHeavy == <<Nothing, Light, Heavy>>
=============================================================================
