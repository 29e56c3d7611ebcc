----------------------------- MODULE MCWakeup -----------------------------
(***************************************************************************)
(* SampleProfiler with some of the hooks of the wakeup profiler.            *)
(***************************************************************************)
EXTENDS SampleProfiler

CONSTANTS c1, c2

V == INSTANCE WakeupHooks

\* One hook the reader stops, and the one with another order of stores.
Some == <<"wakeup_paras", "forbid_task_cpu">>

Handled(hs)  == {hs[i] : i \in DOMAIN hs}
ClearedBy(h) == Handled(Hooks) \ V!Handlers[h].forgets

TheTypes           == V!EntryTypes
ThePrints          == [t \in V!EntryTypes |-> V!PrintedAs(t)]
TheClearedWhenFull == [h \in Handled(Hooks) |-> ClearedBy(h)]
TheReturnsWhenFull == [h \in Handled(Hooks) |-> V!Handlers[h].returns]
TheStores          == [h \in Handled(Hooks) |-> V!Handlers[h].stores]
TheClearedByReader == V!StoppedByReader \cap Handled(Hooks)

CPUs == {c1, c2}
=============================================================================
