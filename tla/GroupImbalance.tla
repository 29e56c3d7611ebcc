--------------------------- MODULE GroupImbalance ---------------------------
(***************************************************************************)
(* Load balancing between the groups of one scheduling domain, with the    *)
(* group imbalance patch: groups are compared by their least loaded CPU    *)
(* and no longer by their averages, which a heavy thread on one CPU keeps  *)
(* high while its neighbours idle.                                         *)
(*                                                                         *)
(* Each balancing CPU reads the load of every CPU of the domain, one after *)
(* the other and without locks, its own group first and then the others    *)
(* round the ring; it chooses a busiest group and an amount of load to     *)
(* move, and moves waiting tasks of the group's busiest queue to itself.   *)
(* Tasks are CPU bound and only balancing moves them; they are their loads.*)
(***************************************************************************)
EXTENDS Integers, FiniteSets, FiniteSetsExt, SequencesExt

CONSTANTS
  NrGroups,    \* the groups are 1 .. NrGroups, in the order of the ring
  GroupOf,     \* per CPU, a number, its group
  Loads,       \* the loads a task may have
  Queues,      \* per CPU and load, how many such tasks it has at first
  Balancers,   \* the CPUs that balance at this level
  AsymPacking, \* whether the domain has SD_ASYM_PACKING (POWER7 only)
  ULongMax     \* 2^w - 1

CPU    == DOMAIN GroupOf
Group  == 1 .. NrGroups
Cpus(g) == {c \in CPU : GroupOf[c] = g}

ASSUME DomainAssumption ==
  /\ NrGroups \in Nat \ {0}
  /\ GroupOf \in [CPU -> Group] /\ CPU \subseteq Nat /\ IsFiniteSet(CPU)
  /\ \A g \in Group : Cpus(g) # {}
  /\ Balancers \subseteq CPU
  /\ Queues \in [CPU -> [Loads -> Nat]]
  /\ Loads \subseteq Nat \ {0} /\ IsFiniteSet(Loads)
  /\ AsymPacking \in BOOLEAN /\ ULongMax \in Nat

\* All the load there is fits an unsigned long: the load of a CPU is one, and
\* group_load adds up those of a group without a test for overflow.
ASSUME LoadAssumption ==
  LET queued(c) == MapThenSumSet(LAMBDA l : l * Queues[c][l], Loads)
  IN  MapThenSumSet(queued, CPU) <= ULongMax

VARIABLES
  rq,         \* per CPU and load, how many such tasks its run queue holds
  imbalanced, \* the groups whose sgc->imbalance is set
  env         \* per balancing CPU, its load_balance in progress

vars == <<rq, imbalanced, env>>

nr_running(c) == MapThenSumSet(LAMBDA l : rq[c][l], Loads)
cpu_load(c)   == MapThenSumSet(LAMBDA l : l * rq[c][l], Loads)
At(c, p)      == env[c].pc = p
Out           == [pc |-> "out"]

Init ==
  /\ rq = Queues
  /\ imbalanced = {}
  /\ env = [c \in Balancers |-> Out]

\* The balancing inside a group, which takes two CPUs, notes that pinned tasks
\* kept it from succeeding, or that they no longer do.
SgcImbalance(g) ==
  /\ Cardinality(Cpus(g)) > 1
  /\ imbalanced' = (imbalanced \ {g}) \cup ({g} \ imbalanced)
  /\ UNCHANGED <<rq, env>>

(***************************************************************************)
(* update_sd_lb_stats and update_sg_lb_stats.                              *)
(***************************************************************************)
\* load_balance, from the tick or because the CPU is about to idle.
LoadBalance(c) ==
  /\ At(c, "out")
  /\ \E idle \in {"tick", "newly_idle"} :
       /\ idle = "newly_idle" => nr_running(c) = 0
       /\ env' = [env EXCEPT ![c] =
                    [pc |-> "stats", idle |-> idle, seen |-> <<>>]]
  /\ UNCHANGED <<rq, imbalanced>>

\* How far round the ring a CPU is, seen from the group of another.
Distance(c, d) == (GroupOf[d] - GroupOf[c]) % NrGroups
Earlier(c, d, e) ==
  \/ Distance(c, d) < Distance(c, e)
  \/ Distance(c, d) = Distance(c, e) /\ d < e

\* load and nr_running of the next CPU.
ReadCpu(c) ==
  /\ At(c, "stats")
  /\ \E d \in CPU \ DOMAIN env[c].seen :
       /\ \A e \in CPU \ DOMAIN env[c].seen : e = d \/ Earlier(c, d, e)
       /\ env' = [env EXCEPT ![c].seen =
            [e \in DOMAIN @ \cup {d} |->
               IF e = d THEN [load |-> cpu_load(d), nr |-> nr_running(d)]
                        ELSE @[e]]]
  /\ UNCHANGED <<rq, imbalanced>>

LoadsSeen(c, g) == {env[c].seen[d].load : d \in Cpus(g)}

sg_lb_stats(c, g) ==
  [ min_load |-> Min(LoadsSeen(c, g)),
    max_load |-> Max(LoadsSeen(c, g)),
    sum_load |-> MapThenSumSet(LAMBDA d : env[c].seen[d].load, Cpus(g)),
    sum_nr_running |-> MapThenSumSet(LAMBDA d : env[c].seen[d].nr, Cpus(g)),
    weight |-> Cardinality(Cpus(g)),
    imbalanced |-> g \in imbalanced ]

NoStats == [ min_load |-> 0, max_load |-> 0, sum_load |-> 0,
             sum_nr_running |-> 0, weight |-> 1, imbalanced |-> FALSE ]

(***************************************************************************)
(* find_busiest_group and what it calls.                                   *)
(***************************************************************************)
\* The ring from the local group on, without it.
Others(g) == [k \in 1 .. NrGroups - 1 |-> ((g - 1 + k) % NrGroups) + 1]

\* All tests that could find a group less busy than the one kept so far are
\* gone but that for SD_ASYM_PACKING, whose rest, left out here, is not the
\* patch's.
update_sd_pick_busiest(sgs, busiest) ==
  \/ sgs.min_load <= busiest.min_load
  \/ sgs.imbalanced
  \/ ~AsymPacking

Busiest(c) ==
  FoldLeft(LAMBDA b, g :
             LET sgs == sg_lb_stats(c, g) IN
             IF update_sd_pick_busiest(sgs, b.stats)
             THEN [group |-> g, stats |-> sgs] ELSE b,
           [group |-> 0, stats |-> NoStats], Others(GroupOf[c]))

\* CPU bound tasks use up a CPU each.
HasCapacity(sgs) == sgs.sum_nr_running < sgs.weight
NoCapacity(sgs)  == sgs.sum_nr_running > sgs.weight

\* Mutant: the comparison of averages the patch removes.
LighterOnAverage(local, busiest) ==
  local.sum_load * busiest.weight < busiest.sum_load * local.weight
Lighter(local, busiest) == local.min_load < busiest.min_load

\* force_balance or out_balanced.
ForceBalance(idle, local, busiest) ==
  /\ busiest.sum_nr_running > 0
  /\ \/ busiest.imbalanced
     \/ idle = "newly_idle" /\ HasCapacity(local) /\ NoCapacity(busiest)
     \/ Lighter(local, busiest)

\* Mutants: the difference whatever its sign, and as unsigned longs wrap it.
calculate_imbalance_signed(local, busiest) ==
  (busiest.max_load - local.min_load) \div 2
calculate_imbalance_wraps(local, busiest) ==
  ((busiest.max_load - local.min_load) % (ULongMax + 1)) \div 2
calculate_imbalance(local, busiest) ==
  IF local.min_load >= busiest.max_load THEN 0
  ELSE (busiest.max_load - local.min_load) \div 2

find_busiest_group(c) ==
  /\ At(c, "stats")
  /\ DOMAIN env[c].seen = CPU
  /\ LET local   == sg_lb_stats(c, GroupOf[c])
         busiest == Busiest(c)
     IN env' = [env EXCEPT ![c] =
          IF ForceBalance(@.idle, local, busiest.stats)
          THEN [pc |-> "queue", idle |-> @.idle, group |-> busiest.group,
                imbalance |-> calculate_imbalance(local, busiest.stats)]
          ELSE Out]
  /\ UNCHANGED <<rq, imbalanced>>

(***************************************************************************)
(* find_busiest_queue and detach_tasks of the kernel, which the patch      *)
(* leaves as they are.  The queue's lock is held while tasks are detached. *)
(***************************************************************************)
QueueAllowed(c, d) == ~(nr_running(d) = 1 /\ cpu_load(d) > env[c].imbalance)

BusiestQueues(c) ==
  LET qs == {d \in Cpus(env[c].group) : nr_running(d) > 0 /\ QueueAllowed(c, d)}
  IN  {d \in qs : \A e \in qs : cpu_load(e) <= cpu_load(d)}

NotLocked(d) ==
  \A b \in Balancers : At(b, "detach") => env[b].src # d

\* The task that runs, one of the queue's, stays.
LockQueue(c) ==
  /\ At(c, "queue")
  /\ \E d \in BusiestQueues(c) :
       /\ nr_running(d) > 1
       /\ NotLocked(d)
       /\ \E l \in Loads :
            /\ rq[d][l] > 0
            /\ env' = [env EXCEPT ![c] =
                 [pc |-> "detach", idle |-> @.idle, src |-> d, curr |-> l,
                  imbalance |-> @.imbalance]]
  /\ UNCHANGED <<rq, imbalanced>>

NothingToPull(c) ==
  /\ At(c, "queue")
  /\ \/ BusiestQueues(c) = {}
     \/ \E d \in BusiestQueues(c) : nr_running(d) <= 1
  /\ env' = [env EXCEPT ![c] = Out]
  /\ UNCHANGED <<rq, imbalanced>>

Movable(c, l) ==
  /\ env[c].imbalance > 0
  /\ rq[env[c].src][l] > IF env[c].curr = l THEN 1 ELSE 0
  /\ l \div 2 <= env[c].imbalance

DetachTask(c) ==
  /\ At(c, "detach")
  /\ \E l \in Loads :
       /\ Movable(c, l)
       /\ rq' = [rq EXCEPT ![env[c].src][l] = @ - 1, ![c][l] = @ + 1]
       /\ env' = [env EXCEPT ![c] =
            IF env[c].idle = "newly_idle" THEN Out
            ELSE [env[c] EXCEPT !.imbalance = @ - l]]
  /\ UNCHANGED imbalanced

DetachDone(c) ==
  /\ At(c, "detach")
  /\ \A l \in Loads : ~Movable(c, l)
  /\ env' = [env EXCEPT ![c] = Out]
  /\ UNCHANGED <<rq, imbalanced>>

Balance(c) ==
  \/ LoadBalance(c) \/ ReadCpu(c) \/ find_busiest_group(c)
  \/ LockQueue(c) \/ NothingToPull(c) \/ DetachTask(c) \/ DetachDone(c)

Next ==
  \/ \E c \in Balancers : Balance(c)
  \/ \E g \in Group : SgcImbalance(g)

Spec == Init /\ [][Next]_vars

\* The tick makes every CPU balance again and again.
FairSpec == Spec /\ \A c \in Balancers : WF_vars(Balance(c))

-----------------------------------------------------------------------------
(***************************************************************************)
(* Properties.                                                             *)
(***************************************************************************)
TotalLoad == MapThenSumSet(cpu_load, CPU)
Idleness  == {"tick", "newly_idle"}
Reads     == [load : 0 .. TotalLoad, nr : Nat]

\* Every variable holds a value of its type.
TypeOK ==
  /\ rq \in [CPU -> [Loads -> Nat]]
  /\ imbalanced \subseteq Group
  /\ DOMAIN env = Balancers
  /\ \A c \in Balancers :
       \/ env[c] = Out
       \/ \E read \in SUBSET CPU :
            env[c] \in [pc : {"stats"}, idle : Idleness, seen : [read -> Reads]]
       \/ env[c] \in [pc : {"queue"}, idle : Idleness,
                      group : Group \ {GroupOf[c]}, imbalance : 0 .. ULongMax]
       \/ env[c] \in [pc : {"detach"}, idle : Idleness, src : CPU \ {c},
                      curr : Loads, imbalance : Int]

\* The load to move is at most half of all there is, also where a group flagged
\* as imbalanced, or a CPU about to idle, makes a CPU balance that is not less
\* loaded than the group it pulls from: the difference never wraps.
ImbalanceBounded ==
  \A c \in Balancers : At(c, "queue") => env[c].imbalance <= TotalLoad \div 2

\* What the patch is for: a CPU that saw a CPU of its group idle, and tasks
\* waiting on every CPU of the group it considers last, asks for some load of
\* that group, however high its own group's average, and whatever other CPUs
\* have moved since it looked.
LastGroup(c)     == Others(GroupOf[c])[NrGroups - 1]
SawIdle(c)       == \E d \in Cpus(GroupOf[c]) : env[c].seen[d].nr = 0
SawWaiting(c, g) == \A d \in Cpus(g) : env[c].seen[d].nr > 1
Pulls(c, g) == At(c, "queue") /\ env[c].group = g /\ env[c].imbalance > 0
PullsWhenIdle(c) ==
  find_busiest_group(c) /\ SawIdle(c) /\ SawWaiting(c, LastGroup(c))
    => Pulls(c, LastGroup(c))'
IdleGroupPulls ==
  [][NrGroups > 1 /\ ~AsymPacking => \A c \in Balancers : PullsWhenIdle(c)]_vars

\* No CPU stays idle while every CPU of the group it considers last has tasks
\* waiting.
IdleBeside(c, g) ==
  /\ imbalanced = {}
  /\ nr_running(c) = 0
  /\ \A d \in Cpus(g) : nr_running(d) > 1
OverloadedGroupRelieved ==
  \A c \in Balancers : []<>~IdleBeside(c, LastGroup(c))

\* No CPU stays idle while all CPUs of some other group have tasks waiting.
EachOverloadedGroupRelieved ==
  \A c \in Balancers, g \in Group : []<>~IdleBeside(c, g)
=============================================================================
