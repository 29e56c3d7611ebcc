---------------------------- MODULE SchedGroups ----------------------------
(***************************************************************************)
(* build_overlap_sched_groups as scheduling_group_construction_linux_4.1   *)
(* .patch leaves it: for each CPU of a level of overlapping scheduling     *)
(* domains, the ring of groups its load balancing will compare, and        *)
(* sd->groups, the group it takes for its own.  The loop runs twice over   *)
(* the span, the first time for the CPU itself only, so that the first     *)
(* group is built from that CPU's own child domain.                        *)
(*                                                                         *)
(* The sched_group_capacity of a CPU (sgc) is shared by the groups built   *)
(* from that CPU's domain for all the others; the iteration mask in it is  *)
(* computed by the first of them.                                          *)
(***************************************************************************)
EXTENDS Integers, FiniteSets, Sequences

CONSTANTS
  NrCpus,      \* the CPUs are 0 .. NrCpus - 1
  Topologies   \* the topologies the domains are built for

CPU == 0 .. NrCpus - 1

\* span[i] is sched_domain_span( *per_cpu_ptr(sdd->sd, i)), empty when the
\* domain tree of i ends below this level, in which case the kernel does not
\* build groups for it (nor does the loop here, over no CPU); child[i] is the
\* span of its child domain, empty when it has none.
Topology == [span : [CPU -> SUBSET CPU], child : [CPU -> SUBSET CPU]]

\* "Domains should always include the cpu they're built on."
WellFormed(t) ==
  \A i \in CPU : /\ t.span[i] # {} => i \in t.span[i]
                 /\ t.child[i] # {} => i \in t.child[i]
                 /\ t.child[i] \subseteq t.span[i]

ASSUME NrCpusAssumption == NrCpus \in Nat \ {0}
ASSUME TopologiesAssumption ==
  Topologies \subseteq {t \in Topology : WellFormed(t)}

\* The CPUs i takes in its group: those of its child domain, or itself.
GroupSpan(t, i) == IF t.child[i] # {} THEN t.child[i] ELSE {i}

NoGroup == 0

VARIABLES
  topo,      \* the topology, fixed
  cpu,       \* the CPU whose domain is being built
  state,     \* "building", "built" or "failed"
  tries,     \* 0 or 1
  todo,      \* the CPUs of the span this pass still has to visit
  covered,   \* the CPUs of the groups so far
  groups,    \* the group kept for sd->groups, or NoGroup
  sg,        \* the groups in order of allocation: the CPU i each is built from
  next,      \* sg->next
  mask,      \* per CPU, sched_group_mask of its sgc
  ref,       \* per CPU, the reference count of its sgc
  sd         \* per CPU, the finished ring and groups pointer

building == <<tries, todo, covered, groups, sg, next>>
vars == <<topo, cpu, state, building, mask, ref, sd>>

Span(g) == GroupSpan(topo, sg[g])

NotBuilt == [groups |-> NoGroup, sg |-> <<>>, next |-> <<>>]

Init ==
  /\ topo \in Topologies
  /\ cpu = 0
  /\ state = "building"
  /\ tries = 0
  /\ todo = topo.span[0]
  /\ covered = {}
  /\ groups = NoGroup
  /\ sg = <<>>
  /\ next = <<>>
  /\ mask = [i \in CPU |-> {}]
  /\ ref = [i \in CPU |-> 0]
  /\ sd = [i \in CPU |-> NotBuilt]

Due(i) == i \in todo /\ \A j \in todo : i <= j

\* Mutants: the loop of the unpatched kernel, with a single pass that starts at
\* the first CPU of the span; no second pass; covered CPUs not skipped.
SkippedOnePass(i) == i \in covered \/ i \notin topo.span[i]
SkippedOthers(i)  == i # cpu \/ i \in covered \/ i \notin topo.span[i]
SkippedNotCovered(i) == (tries = 0 /\ i # cpu) \/ i \notin topo.span[i]

\* The three "continue"s of the loop body.
Skipped(i) ==
  \/ tries = 0 /\ i # cpu
  \/ i \in covered
  \/ i \notin topo.span[i]

Skip ==
  /\ state = "building"
  /\ \E i \in CPU : Due(i) /\ Skipped(i) /\ todo' = todo \ {i}
  /\ UNCHANGED <<topo, cpu, state, tries, covered, groups, sg, next,
                 mask, ref, sd>>

\* build_group_mask: the CPUs of the domain under construction that have a
\* domain at this level.
GroupMask == {i \in topo.span[cpu] : i \in topo.span[i]}

\* group_balance_cpu(sg): the first CPU of the group's span that is in the
\* mask m of its sgc.
IsBalanceCpu(c, i, m) ==
  LET S == GroupSpan(topo, i) \cap m IN c \in S /\ \A d \in S : c <= d

\* Mutant: only the balance CPU of a group takes it for its own.
IsLocalOnlyBalance(i, m) == IsBalanceCpu(cpu, i, m)

\* Whether sd->groups is (so far) to be the new group of i.
IsLocal(i, m) == \/ groups = NoGroup /\ cpu \in GroupSpan(topo, i)
                 \/ IsBalanceCpu(cpu, i, m)

\* Mutants: the ring is left open; the former last is not linked to the new.
LinkedOpen(n)  == [g \in 1 .. n |-> IF g = n THEN 0 ELSE g + 1]
LinkedNot(n)   == [g \in 1 .. n |-> IF g = n THEN 1 ELSE next[g]]

\* The ring with the n-th group at its end: last->next = first.
Linked(n) == [g \in 1 .. n |-> CASE g = n     -> 1
                                [] g = n - 1 -> n
                                [] OTHER     -> next[g]]

\* Allocate a group for i and link it at the end of the ring.
AddGroup(i) ==
  LET n  == Len(sg) + 1
      m  == IF ref[i] = 0 THEN GroupMask ELSE mask[i]
  IN  /\ sg' = Append(sg, i)
      /\ covered' = covered \cup GroupSpan(topo, i)
      /\ ref' = [ref EXCEPT ![i] = @ + 1]
      /\ mask' = [mask EXCEPT ![i] = m]
      /\ groups' = IF IsLocal(i, m) THEN n ELSE groups
      /\ next' = Linked(n)
      /\ todo' = todo \ {i}

Add ==
  /\ state = "building"
  /\ \E i \in CPU : Due(i) /\ ~Skipped(i) /\ AddGroup(i)
  /\ UNCHANGED <<topo, cpu, state, tries, sd>>

\* kzalloc_node returns NULL: "goto fail" frees the ring and the whole
\* construction is abandoned.
AllocationFails ==
  /\ state = "building"
  /\ \E i \in CPU : Due(i) /\ ~Skipped(i)
  /\ state' = "failed"
  /\ UNCHANGED <<topo, cpu, building, mask, ref, sd>>

SecondTry ==
  /\ state = "building"
  /\ todo = {}
  /\ tries = 0
  /\ tries' = 1
  /\ todo' = topo.span[cpu]
  /\ UNCHANGED <<topo, cpu, state, covered, groups, sg, next, mask, ref, sd>>

\* sd->groups = groups; the domain of the next CPU is then built.
Finish ==
  /\ state = "building"
  /\ todo = {}
  /\ tries = 1
  /\ sd' = [sd EXCEPT ![cpu] = [groups |-> groups, sg |-> sg, next |-> next]]
  /\ covered' = {}
  /\ groups' = NoGroup
  /\ sg' = <<>>
  /\ next' = <<>>
  /\ tries' = 0
  /\ IF cpu + 1 \in CPU
     THEN cpu' = cpu + 1 /\ todo' = topo.span[cpu + 1] /\ UNCHANGED state
     ELSE state' = "built" /\ todo' = {} /\ UNCHANGED cpu
  /\ UNCHANGED <<topo, mask, ref>>

Next == Skip \/ Add \/ AllocationFails \/ SecondTry \/ Finish

Spec == Init /\ [][Next]_vars

-----------------------------------------------------------------------------
(***************************************************************************)
(* Properties.                                                             *)
(***************************************************************************)
Built(c) == state = "built" \/ c < cpu

SpanOf(c, g) == GroupSpan(topo, sd[c].sg[g])

Ring == [groups : Nat, sg : Seq(CPU), next : Seq(Nat)]

\* Every variable holds a value of its type.
TypeOK ==
  /\ topo \in Topologies
  /\ cpu \in CPU
  /\ state \in {"building", "built", "failed"}
  /\ tries \in {0, 1}
  /\ todo \subseteq CPU
  /\ covered \subseteq CPU
  /\ sg \in Seq(CPU)
  /\ groups \in 0 .. Len(sg)
  /\ next \in [1 .. Len(sg) -> 1 .. Len(sg)]
  /\ mask \in [CPU -> SUBSET CPU]
  /\ ref \in [CPU -> Nat]
  /\ sd \in [CPU -> Ring]

\* No CPU is left out of load balancing: the groups of a finished domain
\* cover every CPU of its span that has a domain at this level.
SpanCovered ==
  \A c \in CPU : Built(c) =>
    \A j \in topo.span[c] : topo.span[j] # {} =>
      \E g \in 1 .. Len(sd[c].sg) : j \in SpanOf(c, g)

\* The first group is that of the CPU itself, built from its own child
\* domain, whichever CPU's domain is under construction: what the two-pass
\* loop of the patch is for.
OwnGroupFirst ==
  \A c \in CPU : Built(c) /\ topo.span[c] # {} =>
    sd[c].sg # <<>> /\ sd[c].sg[1] = c

\* sd->groups is a group that contains the CPU ("otherwise the sched_domain
\* iteration breaks"): it is what load balancing takes for the local group.
LocalGroupContainsCpu ==
  \A c \in CPU : Built(c) /\ topo.span[c] # {} =>
    /\ sd[c].groups \in 1 .. Len(sd[c].sg)
    /\ c \in SpanOf(c, sd[c].groups)

\* In a topology where being a neighbour is mutual, two CPUs that are not
\* neighbours are never both in the local group of one of them, so one can
\* see the other's group as busier than its own and steal from it.
Mutual(t) == \A i, j \in CPU : j \in GroupSpan(t, i) <=> i \in GroupSpan(t, j)

DistantCpusInOtherGroups ==
  Mutual(topo) => \A c \in CPU : Built(c) /\ topo.span[c] # {} =>
    \A j \in topo.span[c] \ GroupSpan(topo, c) :
      j \notin SpanOf(c, sd[c].groups)

\* Following next from the first group visits every allocated group once and
\* comes back: the iteration over the groups of a domain ends, and the free on
\* an allocation failure misses none.
RingOK(n, nxt) ==
  n > 0 => /\ nxt[n] = 1
           /\ \A g \in 1 .. n - 1 : nxt[g] = g + 1

RingClosed ==
  /\ RingOK(Len(sg), next)
  /\ \A c \in CPU : Built(c) => RingOK(Len(sd[c].sg), sd[c].next)

\* The mask a group shares with those of other CPUs never excludes the CPU
\* the group is built from, so group_balance_cpu always finds one.
BalanceCpuExists ==
  \A i \in CPU : ref[i] > 0 => i \in mask[i]

\* No two groups of a domain are built from the same CPU, and each group after
\* the first brings in a CPU that no earlier one covers.
EachGroupNeeded ==
  \A g \in 2 .. Len(sg) : \A h \in 1 .. g - 1 : sg[g] \notin Span(h)
=============================================================================
