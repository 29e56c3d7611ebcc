--------------------------- MODULE MCSchedGroups ---------------------------
(***************************************************************************)
(* An instance of SchedGroups for TLC, with two families of topologies on  *)
(* five CPUs (or NUMA nodes, one CPU each).                                *)
(***************************************************************************)
EXTENDS SchedGroups

\* Every well-formed topology of the first three CPUs, those without a domain
\* at this level included; the other two CPUs have none.
Small == 0 .. 2
DomainsOf(i) == {d \in [span : SUBSET Small, child : SUBSET Small] :
                   /\ d.span # {} => i \in d.span
                   /\ d.child # {} => i \in d.child
                   /\ d.child \subseteq d.span}
SmallTopologies ==
  {[span  |-> [i \in CPU |-> IF i \in Small THEN d[i].span ELSE {}],
    child |-> [i \in CPU |-> IF i \in Small THEN d[i].child ELSE {}]] :
      d \in {e \in [Small -> UNION {DomainsOf(i) : i \in Small}] :
               \A i \in Small : e[i] \in DomainsOf(i)}}

\* The machines of one NUMA level: every CPU (node) has a domain that spans
\* the machine, and "within one hop" is a mutual relation.
Links == {{i, j} : i, j \in CPU} \ {{i} : i \in CPU}
Within(links, i) == {j \in CPU : j = i \/ {i, j} \in links}
NumaTopologies ==
  {[span  |-> [i \in CPU |-> CPU],
    child |-> [i \in CPU |-> Within(links, i)]] : links \in SUBSET Links}

BothTopologies == SmallTopologies \cup NumaTopologies
=============================================================================
