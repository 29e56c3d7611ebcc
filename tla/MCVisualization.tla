-------------------------- MODULE MCVisualization --------------------------
(***************************************************************************)
(* SampleProfiler with some of the hooks of the visualization profiler.    *)
(***************************************************************************)
EXTENDS SampleProfiler, TLC

CONSTANTS c1, c2

V == INSTANCE VisualizationHooks

\* The hooks that behave differently: one the reader stops, one it does not and
\* whose samples have no data.  With NoReturn, the handler that does not return.
Some     == <<"set_nr_running", "file_writing">>
NoReturn == <<"set_nr_running", "load_balance">>

Handled(hs)  == {hs[i] : i \in DOMAIN hs}
ClearedBy(h) == Handled(Hooks) \ V!Handlers[h].forgets

TheTypes           == V!EntryTypes
ThePrints          == [t \in V!EntryTypes |-> V!PrintedAs(t)]
TheClearedWhenFull == [h \in Handled(Hooks) |-> ClearedBy(h)]
TheReturnsWhenFull == [h \in Handled(Hooks) |-> V!Handlers[h].returns]
TheStores          == [h \in Handled(Hooks) |-> V!Handlers[h].stores]
TheClearedByReader == V!StoppedByReader \cap Handled(Hooks)

CPUs     == {c1, c2}
Symmetry == Permutations(CPUs)
=============================================================================
