----------------------------- MODULE SampleLog ------------------------------
(***************************************************************************)
(* What a sched_profiler module promises to whoever reads its file: while  *)
(* the profile is live, each event takes the next entry, if one is left,   *)
(* and fills it once; what was recorded stays until the profile ends, and  *)
(* it ends with no entry half written.                                     *)
(***************************************************************************)
EXTENDS Integers

CONSTANTS
  Kinds,   \* the kinds of samples
  Entries  \* how many samples a profile has room for

VARIABLES
  live,    \* whether a profile is being taken
  claimed, \* how many entries are taken
  entry    \* per entry, "free", "open" or the kind of its sample

log == <<live, claimed, entry>>

Free == [i \in 0 .. Entries - 1 |-> "free"]

Init == live = FALSE /\ claimed = 0 /\ entry = Free

Start == ~live /\ live' = TRUE /\ UNCHANGED <<claimed, entry>>

Take ==
  /\ live
  /\ claimed < Entries
  /\ claimed' = claimed + 1
  /\ entry' = [entry EXCEPT ![claimed] = "open"]
  /\ UNCHANGED live

Complete(i) ==
  /\ entry[i] = "open"
  /\ \E k \in Kinds : entry' = [entry EXCEPT ![i] = k]
  /\ UNCHANGED <<live, claimed>>

End ==
  /\ live
  /\ \A i \in DOMAIN entry : entry[i] # "open"
  /\ live' = FALSE
  /\ claimed' = 0
  /\ entry' = Free

Next == Start \/ Take \/ End \/ \E i \in DOMAIN entry : Complete(i)

Spec == Init /\ [][Next]_log
=============================================================================
