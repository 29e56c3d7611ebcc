------------------------- MODULE SchedGroupsProofs -------------------------
(***************************************************************************)
(* Proofs about SchedGroups, for any number of CPUs and any well-formed    *)
(* topologies.                                                             *)
(***************************************************************************)
EXTENDS SchedGroups, TLAPS

USE NrCpusAssumption DEF CPU, NoGroup

\* The topologies are functions on the CPUs and well formed.
LEMMA TopologyFacts ==
  ASSUME NEW t \in Topologies
  PROVE  /\ t.span \in [CPU -> SUBSET CPU]
         /\ t.child \in [CPU -> SUBSET CPU]
         /\ \A i \in CPU : t.span[i] # {} => i \in t.span[i]
         /\ \A i \in CPU : /\ i \in GroupSpan(t, i)
                           /\ GroupSpan(t, i) \subseteq CPU
  BY TopologiesAssumption DEF Topology, WellFormed, GroupSpan

-----------------------------------------------------------------------------
(***************************************************************************)
(* Type correctness.                                                       *)
(***************************************************************************)
\* Linking a group into the ring keeps sg a sequence and next a function on it.
LEMMA AddType ==
  ASSUME TypeOK, NEW i \in CPU, AddGroup(i),
         UNCHANGED <<topo, cpu, state, tries, sd>>
  PROVE  TypeOK'
<1> USE DEF TypeOK, AddGroup, IsLocal, Linked
<1>1. sg' \in Seq(CPU) /\ Len(sg') = Len(sg) + 1 OBVIOUS
<1>2. groups' \in 0 .. Len(sg') BY <1>1
<1>3. next' \in [1 .. Len(sg') -> 1 .. Len(sg')] BY SMTT(30), <1>1
<1>4. GroupMask \subseteq CPU BY TopologyFacts DEF GroupMask
<1>5. covered' \subseteq CPU BY TopologyFacts
<1>6. mask' \in [CPU -> SUBSET CPU] /\ ref' \in [CPU -> Nat] BY <1>4
<1>7. todo' \subseteq CPU OBVIOUS
<1> HIDE DEF AddGroup, IsLocal, Linked
<1> QED BY <1>1, <1>2, <1>3, <1>5, <1>6, <1>7

\* Every variable holds a value of its type, the finished rings included.
THEOREM TypeCorrect == Spec => []TypeOK
<1>1. Init => TypeOK
  BY TopologyFacts DEF Init, TypeOK, Ring, NotBuilt
<1>2. TypeOK /\ [Next]_vars => TypeOK'
  <2> SUFFICES ASSUME TypeOK, [Next]_vars PROVE TypeOK' OBVIOUS
  <2>1. CASE Skip BY <2>1 DEF Skip, TypeOK
  <2>2. CASE Add BY <2>2, AddType DEF Add
  <2>3. CASE AllocationFails BY <2>3 DEF AllocationFails, TypeOK, building
  <2>4. CASE SecondTry BY <2>4, TopologyFacts DEF SecondTry, TypeOK
  <2>5. CASE Finish
    <3>1. [groups |-> groups, sg |-> sg, next |-> next] \in Ring
      <4>1. Len(sg) \in Nat BY DEF TypeOK
      <4>2. next \in [1 .. Len(sg) -> Nat] BY <4>1 DEF TypeOK
      <4>3. next \in Seq(Nat) BY <4>1, <4>2
      <4>4. groups \in Nat BY <4>1 DEF TypeOK
      <4> QED BY <4>3, <4>4 DEF TypeOK, Ring
    <3>2. sd' \in [CPU -> Ring] BY <2>5, <3>1 DEF Finish, TypeOK
    <3>3. cpu' \in CPU /\ todo' \subseteq CPU
      BY <2>5, TopologyFacts DEF Finish, TypeOK
    <3>4. /\ groups' \in 0 .. Len(sg')
          /\ next' \in [1 .. Len(sg') -> 1 .. Len(sg')]
      BY <2>5 DEF Finish
    <3> QED BY <2>5, <3>2, <3>3, <3>4 DEF Finish, TypeOK
  <2>6. CASE UNCHANGED vars BY <2>6 DEF vars, building, TypeOK
  <2> QED BY <2>1, <2>2, <2>3, <2>4, <2>5, <2>6 DEF Next
<1> QED BY <1>1, <1>2, PTL DEF Spec

-----------------------------------------------------------------------------
(***************************************************************************)
(* The loop invariant.  What SpanCovered, OwnGroupFirst and the others say *)
(* of a finished domain is true of the domain under construction up to the *)
(* CPUs its pass still has to visit; a finished domain does not change.    *)
(***************************************************************************)
Groups == 1 .. Len(sg)

CoveredOK ==
  /\ todo \subseteq topo.span[cpu]
  /\ \A x \in CPU : x \in covered <=> \E g \in Groups : x \in Span(g)

\* The second pass, once over, has covered the span.
PassOK ==
  /\ tries = 1 => \A j \in topo.span[cpu] \ todo :
                    topo.span[j] # {} => j \in covered
  /\ state = "building" /\ topo.span[cpu] # {} =>
       (tries = 1 \/ cpu \notin todo => sg # <<>>)

\* The first pass can only have added the CPU's own group, and groups points
\* to a group that contains the CPU from then on.
FirstOK ==
  /\ sg # <<>> => sg[1] = cpu /\ groups # NoGroup
  /\ groups # NoGroup => cpu \in Span(groups)
  /\ Mutual(topo) /\ groups # NoGroup => groups = 1

\* What holds of the finished ring r of CPU c in topology t.
GoodRing(t, c, r) ==
  /\ \A j \in t.span[c] : t.span[j] # {} =>
       \E g \in 1 .. Len(r.sg) : j \in GroupSpan(t, r.sg[g])
  /\ t.span[c] # {} =>
       /\ r.sg # <<>> /\ r.sg[1] = c
       /\ r.groups \in 1 .. Len(r.sg)
       /\ c \in GroupSpan(t, r.sg[r.groups])
       /\ Mutual(t) => r.groups = 1
  /\ RingOK(Len(r.sg), r.next)

DoneOK == \A c \in CPU : Built(c) => GoodRing(topo, c, sd[c])

LoopInv ==
  /\ CoveredOK
  /\ PassOK
  /\ FirstOK
  /\ DoneOK
  /\ RingOK(Len(sg), next)
  /\ EachGroupNeeded
  /\ BalanceCpuExists
  /\ state = "built" => cpu + 1 \notin CPU

\* The finished domains stay as they are.
LEMMA DoneStays ==
  ASSUME DoneOK, UNCHANGED <<topo, cpu, state, sd>> PROVE DoneOK'
  BY DEF Built, DoneOK

\* Adding the group of a CPU that is not skipped keeps the loop invariant.
LEMMA AddKeepsLoopInv ==
  ASSUME TypeOK, LoopInv, NEW i \in CPU, Due(i), ~Skipped(i), AddGroup(i),
         state = "building", UNCHANGED <<topo, cpu, state, tries, sd>>
  PROVE  LoopInv'
<1> SUFFICES ASSUME NEW n \in Nat, n = Len(sg) + 1 PROVE LoopInv'
  BY DEF TypeOK
<1> DEFINE m == IF ref[i] = 0 THEN GroupMask ELSE mask[i]
<1> USE DEF TypeOK, LoopInv
<1>1. i \in todo /\ i \notin covered /\ i \in topo.span[i]
      /\ (tries = 0 => i = cpu)
  BY TopologyFacts DEF Due, Skipped
<1>2. i \in topo.span[cpu] /\ topo.span[cpu] # {}
  BY <1>1 DEF CoveredOK
<1>3. /\ sg' = Append(sg, i) /\ Len(sg') = n /\ sg' \in Seq(CPU)
      /\ sg'[n] = i /\ (\A g \in Groups : sg'[g] = sg[g])
      /\ n \in Nat \ {0} /\ Groups' = Groups \cup {n} /\ n \notin Groups
      /\ \A g \in Groups : sg[g] \in CPU
  <2>1. sg' = Append(sg, i) BY DEF AddGroup
  <2>2. /\ Len(sg') = n /\ sg' \in Seq(CPU) /\ sg'[n] = i
        /\ \A g \in 1 .. Len(sg) : sg'[g] = sg[g]
    BY <2>1
  <2> QED BY SMTT(30), <2>1, <2>2 DEF Groups
<1>4. Span(n)' = GroupSpan(topo, i) /\ \A g \in Groups : Span(g)' = Span(g)
  BY <1>3 DEF Span, GroupSpan
<1>5. covered' = covered \cup GroupSpan(topo, i) /\ todo' = todo \ {i}
      /\ UNCHANGED <<topo, cpu, state, tries, sd>>
  BY DEF AddGroup
<1>6. i \in GroupSpan(topo, i) BY TopologyFacts
<1>7. CoveredOK'
  <2>1. todo' \subseteq topo'.span[cpu'] BY <1>5 DEF CoveredOK
  <2>2. ASSUME NEW x \in CPU
        PROVE  x \in covered' <=> \E g \in Groups' : x \in Span(g)'
    <3>1. (\E g \in Groups' : x \in Span(g)')
            <=> (\E g \in Groups : x \in Span(g)) \/ x \in GroupSpan(topo, i)
      BY <1>3, <1>4
    <3>2. x \in covered <=> \E g \in Groups : x \in Span(g) BY DEF CoveredOK
    <3> QED BY <1>5, <3>1, <3>2
  <2> QED BY <2>1, <2>2 DEF CoveredOK
<1>8. PassOK'
  <2>1. sg' # <<>> BY <1>3
  <2>2. tries = 1 => \A j \in topo.span[cpu] \ todo' :
                      topo.span[j] # {} => j \in covered'
    BY <1>5, <1>6 DEF PassOK
  <2> QED BY <1>5, <2>1, <2>2 DEF PassOK
<1>9. sg = <<>> => i = cpu
  BY <1>1, <1>2 DEF PassOK
<1>10. IsBalanceCpu(cpu, i, m) => cpu \in GroupSpan(topo, i)
  BY DEF IsBalanceCpu
<1>11. groups' = IF \/ groups = NoGroup /\ cpu \in GroupSpan(topo, i)
                    \/ IsBalanceCpu(cpu, i, m)
                 THEN n ELSE groups
  BY DEF AddGroup, IsLocal
<1>12. Mutual(topo) /\ sg # <<>> => groups' = groups
  <2> SUFFICES ASSUME Mutual(topo), sg # <<>>, cpu \in GroupSpan(topo, i)
               PROVE  FALSE
    BY <1>10, <1>11, <1>3 DEF FirstOK
  <2>1. 1 \in Groups /\ sg[1] = cpu BY DEF Groups, FirstOK
  <2>2. i \in Span(1) BY <2>1 DEF Mutual, Span
  <2> QED BY <1>1, <2>1, <2>2 DEF CoveredOK
<1>13. FirstOK'
  <2>1. sg'[1] = cpu
    BY <1>3, <1>9 DEF FirstOK, Groups
  <2>2. groups' # NoGroup /\ cpu \in Span(groups)'
    <3>1. CASE groups' = n
      <4>1. cpu \in GroupSpan(topo, i)
        BY <1>3, <1>6, <1>9, <1>10, <1>11, <3>1 DEF FirstOK
      <4> QED BY <1>3, <1>4, <3>1, <4>1
    <3>2. CASE groups' = groups /\ groups' # n
      <4>1. sg # <<>> BY <1>6, <1>9, <1>11, <3>2
      <4>2. groups \in Groups BY <4>1 DEF FirstOK, Groups
      <4> QED BY <1>4, <3>2, <4>1, <4>2 DEF FirstOK
    <3> QED BY <1>11, <3>1, <3>2
  <2>3. Mutual(topo) => groups' = 1
    <3>1. CASE sg = <<>>
      BY <1>3, <1>6, <1>9, <1>11, <3>1
    <3>2. CASE sg # <<>> BY <1>12, <3>2 DEF FirstOK
    <3> QED BY <3>1, <3>2
  <2> QED BY <1>5, <2>1, <2>2, <2>3 DEF FirstOK
<1>14. DoneOK' BY <1>5, DoneStays
<1>15. RingOK(Len(sg), next)'
  <2>1. next' = [g \in 1 .. n |-> CASE g = n     -> 1
                                   [] g = n - 1 -> n
                                   [] OTHER     -> next[g]]
    BY DEF AddGroup, Linked
  <2>2. next'[n] = 1 BY <1>3, <2>1
  <2>3. \A g \in 1 .. n - 1 : next'[g] = g + 1
    <3> SUFFICES ASSUME NEW g \in 1 .. n - 1 PROVE next'[g] = g + 1 OBVIOUS
    <3>1. g \in 1 .. n /\ g # n BY SMTT(30), <1>3
    <3>2. CASE g = n - 1 BY <2>1, <3>1, <3>2
    <3>3. CASE g # n - 1
      <4>1. Len(sg) \in Nat /\ Len(sg) > 0 /\ g \in 1 .. Len(sg) - 1
        BY SMTT(30), <3>3
      <4>2. RingOK(Len(sg), next) OBVIOUS
      <4>3. next[g] = g + 1 BY <4>1, <4>2 DEF RingOK
      <4> QED BY <2>1, <3>1, <3>3, <4>3
    <3> QED BY <3>2, <3>3
  <2> QED BY <1>3, <2>2, <2>3 DEF RingOK
<1>16. EachGroupNeeded'
  <2> SUFFICES ASSUME NEW g \in 2 .. n, NEW h \in 1 .. g - 1
               PROVE  sg'[g] \notin Span(h)'
    BY <1>3 DEF EachGroupNeeded
  <2>1. h \in Groups BY <1>3 DEF Groups
  <2>2. CASE g = n
    BY <1>1, <1>3, <1>4, <2>1, <2>2 DEF CoveredOK
  <2>3. CASE g # n
    <3>1. g \in Groups /\ g \in 2 .. Len(sg) BY <1>3, <2>3 DEF Groups
    <3> QED BY SMTT(30), <1>3, <1>4, <2>1, <3>1 DEF EachGroupNeeded
  <2> QED BY <2>2, <2>3
<1>17. BalanceCpuExists'
  <2>1. i \in m BY <1>1, <1>2 DEF BalanceCpuExists, GroupMask
  <2>2. mask' = [mask EXCEPT ![i] = m] /\ ref' = [ref EXCEPT ![i] = @ + 1]
    BY DEF AddGroup
  <2> QED BY <2>1, <2>2 DEF BalanceCpuExists
<1> QED BY <1>5, <1>7, <1>8, <1>13, <1>14, <1>15, <1>16, <1>17

\* Finishing a domain turns the loop invariant into what holds of that domain.
LEMMA FinishKeepsLoopInv ==
  ASSUME TypeOK, LoopInv, Finish PROVE LoopInv'
<1> USE DEF TypeOK, LoopInv
<1>1. /\ todo = {} /\ tries = 1 /\ state = "building"
      /\ sd' = [sd EXCEPT ![cpu] =
                  [groups |-> groups, sg |-> sg, next |-> next]]
      /\ covered' = {} /\ groups' = NoGroup /\ sg' = <<>> /\ next' = <<>>
      /\ tries' = 0 /\ UNCHANGED <<topo, mask, ref>>
  BY DEF Finish
<1>2. Len(sg') = 0 /\ Groups' = {} BY <1>1 DEF Groups
<1>3. CoveredOK'
  BY <1>1, <1>2, TopologyFacts DEF CoveredOK, Finish
<1>4. PassOK'
  <2>1. CASE cpu + 1 \in CPU
    <3>1. cpu' = cpu + 1 /\ todo' = topo.span[cpu'] BY <2>1 DEF Finish
    <3>2. topo.span[cpu'] # {} => cpu' \in todo'
      BY <2>1, <3>1, TopologyFacts
    <3> QED BY <1>1, <3>2 DEF PassOK
  <2>2. CASE cpu + 1 \notin CPU
    BY <1>1, <2>2 DEF PassOK, Finish
  <2> QED BY <2>1, <2>2
<1>5. FirstOK' /\ RingOK(Len(sg), next)' /\ EachGroupNeeded'
  BY <1>1, <1>2 DEF FirstOK, RingOK, EachGroupNeeded
<1>6. BalanceCpuExists' BY <1>1 DEF BalanceCpuExists
<1>7. DoneOK'
  <2> DEFINE done == [groups |-> groups, sg |-> sg, next |-> next]
  <2>1. sd'[cpu] = done /\ \A c \in CPU \ {cpu} : sd'[c] = sd[c]
    BY <1>1
  <2>2. \A c \in CPU : Built(c)' => Built(c) \/ c = cpu
    BY <1>1 DEF Built, Finish
  <2> SUFFICES ASSUME NEW c \in CPU, Built(c)'
               PROVE  GoodRing(topo, c, sd'[c])
    BY <1>1 DEF DoneOK
  <2>3. CASE c # cpu BY <2>1, <2>2, <2>3 DEF DoneOK
  <2>4. CASE c = cpu
    <3>1. \A j \in topo.span[cpu] : topo.span[j] # {} =>
            \E g \in Groups : j \in Span(g)
      BY <1>1, TopologyFacts DEF PassOK, CoveredOK
    <3>2. topo.span[cpu] # {} => sg # <<>> BY <1>1 DEF PassOK
    <3>3. sg # <<>> => /\ sg[1] = cpu
                       /\ groups \in Groups
                       /\ cpu \in Span(groups)
                       /\ Mutual(topo) => groups = 1
      BY DEF FirstOK, Groups
    <3>4. GoodRing(topo, cpu, done)
      BY <3>1, <3>2, <3>3 DEF GoodRing, Groups, Span
    <3> QED BY <2>1, <2>4, <3>4
  <2> QED BY <2>3, <2>4
<1>8. state' = "built" => cpu' + 1 \notin CPU BY <1>1 DEF Finish
<1> QED BY <1>3, <1>4, <1>5, <1>6, <1>7, <1>8

\* The invariant of the two-pass loop holds at each of its steps.
LEMMA LoopInvariant == Spec => []LoopInv
<1>1. Init => LoopInv
  <2> SUFFICES ASSUME Init PROVE LoopInv OBVIOUS
  <2>1. topo \in Topologies /\ 0 \in CPU BY DEF Init
  <2>2. CoveredOK /\ PassOK
    BY <2>1, TopologyFacts DEF Init, CoveredOK, PassOK, Groups
  <2>3. FirstOK /\ DoneOK /\ RingOK(Len(sg), next) /\ EachGroupNeeded
    BY <2>1 DEF Init, FirstOK, DoneOK, Built, RingOK, EachGroupNeeded
  <2> QED BY <2>2, <2>3 DEF LoopInv, Init, BalanceCpuExists
<1>2. TypeOK /\ LoopInv /\ [Next]_vars => LoopInv'
  <2> SUFFICES ASSUME TypeOK, LoopInv, [Next]_vars PROVE LoopInv' OBVIOUS
  <2>1. ASSUME UNCHANGED <<topo, cpu, covered, groups, sg, next, mask, ref, sd>>
        PROVE  /\ \A g : Span(g)' = Span(g)
               /\ Groups' = Groups
               /\ FirstOK' /\ RingOK(Len(sg), next)' /\ EachGroupNeeded'
               /\ BalanceCpuExists'
               /\ UNCHANGED state => DoneOK'
    <3>1. /\ \A g : Span(g)' = Span(g)
          /\ Groups' = Groups
      BY <2>1 DEF Span, Groups
    <3>2. FirstOK' BY <2>1, <3>1 DEF LoopInv, FirstOK
    <3>3. EachGroupNeeded' BY <2>1, <3>1 DEF LoopInv, EachGroupNeeded
    <3>4. BalanceCpuExists' BY <2>1 DEF LoopInv, BalanceCpuExists
    <3>5. RingOK(Len(sg), next)' BY <2>1 DEF LoopInv, RingOK
    <3>6. UNCHANGED state => DoneOK' BY <2>1, DoneStays DEF LoopInv
    <3> QED BY <3>1, <3>2, <3>3, <3>4, <3>5, <3>6
  <2>2. CASE Skip
    <3>1. PICK i \in CPU : Due(i) /\ Skipped(i) /\ todo' = todo \ {i}
      BY <2>2 DEF Skip
    <3>2. tries = 1 /\ topo.span[i] # {} => i \in covered
      BY <3>1, TopologyFacts DEF Skipped, TypeOK
    <3>3. i = cpu /\ topo.span[cpu] # {} => i \in covered
      BY <3>1, TopologyFacts DEF Skipped, TypeOK
    <3>4. i \in covered => sg # <<>>
      BY <3>1 DEF LoopInv, CoveredOK, Groups
    <3>5. UNCHANGED <<topo, cpu, state, tries, covered, sg>>
      BY <2>2 DEF Skip
    <3>6. PassOK'
      BY <3>1, <3>2, <3>3, <3>4, <3>5 DEF LoopInv, PassOK
    <3>7. CoveredOK'
      BY <2>1, <2>2, <3>1 DEF Skip, LoopInv, CoveredOK
    <3> QED BY <2>1, <2>2, <3>6, <3>7 DEF Skip, LoopInv
  <2>3. CASE Add BY <2>3, AddKeepsLoopInv DEF Add
  <2>4. CASE AllocationFails
    <3>1. DoneOK'
      <4>1. \A c \in CPU : Built(c)' => Built(c)
        BY <2>4 DEF AllocationFails, Built, building
      <4> QED BY <2>4, <4>1 DEF AllocationFails, LoopInv, DoneOK
    <3>2. CoveredOK'
      BY <2>1, <2>4 DEF AllocationFails, LoopInv, CoveredOK, building
    <3>3. PassOK' BY <2>4 DEF AllocationFails, LoopInv, PassOK, building
    <3> QED BY <2>1, <2>4, <3>1, <3>2, <3>3
           DEF AllocationFails, LoopInv, building
  <2>5. CASE SecondTry
    <3>1. CoveredOK'
      BY <2>1, <2>5 DEF SecondTry, LoopInv, CoveredOK
    <3>2. PassOK'
      BY <2>5 DEF SecondTry, LoopInv, PassOK
    <3> QED BY <2>1, <2>5, <3>1, <3>2 DEF SecondTry, LoopInv
  <2>6. CASE Finish BY <2>6, FinishKeepsLoopInv
  <2>7. CASE UNCHANGED vars
    <3>1. UNCHANGED <<topo, cpu, state, tries, todo, covered, groups, sg, next,
                      mask, ref, sd>>
      BY <2>7 DEF vars, building
    <3>2. CoveredOK' BY <2>1, <3>1 DEF LoopInv, CoveredOK
    <3>3. PassOK' BY <3>1 DEF LoopInv, PassOK
    <3> QED BY <2>1, <3>1, <3>2, <3>3 DEF LoopInv
  <2> QED BY <2>2, <2>3, <2>4, <2>5, <2>6, <2>7 DEF Next
<1> QED BY <1>1, <1>2, TypeCorrect, PTL DEF Spec

-----------------------------------------------------------------------------
\* No CPU of a span is left out of load balancing.
THEOREM SpanCoveredTheorem == Spec => []SpanCovered
<1>1. LoopInv => SpanCovered
  BY DEF LoopInv, DoneOK, GoodRing, SpanCovered, SpanOf
<1> QED BY <1>1, LoopInvariant, PTL

\* The ring of a CPU's domain starts with the group of that CPU's own child.
THEOREM OwnGroupFirstTheorem == Spec => []OwnGroupFirst
<1>1. LoopInv => OwnGroupFirst BY DEF LoopInv, DoneOK, GoodRing, OwnGroupFirst
<1> QED BY <1>1, LoopInvariant, PTL

\* What load balancing takes for the local group of a CPU contains the CPU.
THEOREM LocalGroupContainsCpuTheorem == Spec => []LocalGroupContainsCpu
<1>1. LoopInv => LocalGroupContainsCpu
  BY DEF LoopInv, DoneOK, GoodRing, LocalGroupContainsCpu, SpanOf
<1> QED BY <1>1, LoopInvariant, PTL

\* Where being neighbours is mutual, the local group of a CPU is that of its
\* own child domain, so a distant CPU is in another group.
THEOREM DistantCpusTheorem == Spec => []DistantCpusInOtherGroups
<1>1. LoopInv => DistantCpusInOtherGroups
  BY DEF LoopInv, DoneOK, GoodRing, DistantCpusInOtherGroups, SpanOf
<1> QED BY <1>1, LoopInvariant, PTL

\* The iteration over the groups of a domain comes back to the first one after
\* visiting all, in finished domains and while the ring grows.
THEOREM RingClosedTheorem == Spec => []RingClosed
<1>1. LoopInv => RingClosed BY DEF LoopInv, DoneOK, GoodRing, RingClosed
<1> QED BY <1>1, LoopInvariant, PTL

\* group_balance_cpu finds a CPU in the mask of every group that was built.
THEOREM BalanceCpuExistsTheorem == Spec => []BalanceCpuExists
<1>1. LoopInv => BalanceCpuExists BY DEF LoopInv
<1> QED BY <1>1, LoopInvariant, PTL

\* Every group of a ring is built from a CPU that no earlier group covers.
THEOREM EachGroupNeededTheorem == Spec => []EachGroupNeeded
<1>1. LoopInv => EachGroupNeeded BY DEF LoopInv
<1> QED BY <1>1, LoopInvariant, PTL
=============================================================================
