---------------------------- MODULE SelectTaskRq ----------------------------
(***************************************************************************)
(* The wakeup path of overload_on_wakeup_linux_4.1.patch: before the code  *)
(* of the kernel chooses a CPU for a waking task, select_task_rq_fair      *)
(* takes the task's previous CPU if that is idle, or else the CPU that has *)
(* been idle longest, if any is.                                           *)
(*                                                                         *)
(* The loop over the CPUs takes no run queue's lock: tasks wake up, block  *)
(* and are enqueued on the other CPUs between any two of its reads, and    *)
(* the task chosen for is enqueued only later.                             *)
(***************************************************************************)
EXTENDS Integers, FiniteSets

CONSTANTS
  NrCpus,      \* the online CPUs are 0 .. NrCpus - 1
  Task,        \* the tasks
  Affinities,  \* the sets of CPUs a task may be restricted to
  MaxTime      \* bound: idle_stamp values, one per time a CPU goes idle

CPU == 0 .. NrCpus - 1

ASSUME NrCpusAssumption == NrCpus \in Nat \ {0}
ASSUME AffinitiesAssumption == Affinities \subseteq (SUBSET CPU) \ {{}}
ASSUME MaxTimeAssumption == MaxTime \in Nat

\* The stamp no CPU has: 0xfffffffffffffff.
NoStamp == MaxTime + 1

VARIABLES
  rq,          \* per CPU, its tasks: nr_running is their number
  idle_stamp,  \* per CPU, since when it is idle, 0 when it is not or unknown
  clock,       \* the value of the next idle_stamp
  allowed,     \* tsk_cpus_allowed, per task
  prev_cpu,    \* the CPU each task ran on last
  call,        \* per task, where its select_task_rq_fair is
  idle_since,  \* history: the CPUs idle ever since the call began
  idle_once    \* history: the CPUs idle at some moment of the call

queues  == <<rq, idle_stamp, clock>>
history == <<idle_since, idle_once>>
vars    == <<queues, allowed, prev_cpu, call, history>>

Idle(c)    == rq[c] = {}
IdleCPUs   == {c \in CPU : Idle(c)}
Out        == [pc |-> "out"]
At(t, p)   == call[t].pc = p
Due(c, S)  == c \in S /\ \A d \in S : c <= d
Queued(t)  == \E c \in CPU : t \in rq[c]

Init ==
  /\ rq = [c \in CPU |-> {}]
  /\ idle_stamp = [c \in CPU |-> 0]
  /\ clock = 1
  /\ allowed \in [Task -> Affinities]
  /\ prev_cpu \in {p \in [Task -> CPU] : \A t \in Task : p[t] \in allowed[t]}
  /\ call = [t \in Task |-> Out]
  /\ idle_since = [t \in Task |-> {}]
  /\ idle_once = [t \in Task |-> {}]

(***************************************************************************)
(* The rest of the scheduler.                                              *)
(***************************************************************************)
\* sched_setaffinity on a task that sleeps: prev_cpu may fall outside.
SetAffinity(t) ==
  /\ At(t, "out")
  /\ ~Queued(t)
  /\ \E S \in Affinities : allowed' = [allowed EXCEPT ![t] = S]
  /\ UNCHANGED <<queues, prev_cpu, call>>

Block(t, c) ==
  /\ t \in rq[c]
  /\ rq' = [rq EXCEPT ![c] = @ \ {t}]
  /\ UNCHANGED <<idle_stamp, clock, allowed, prev_cpu, call>>

\* idle_balance stamps a CPU after its last task has left.
GoIdle(c) ==
  /\ Idle(c)
  /\ idle_stamp[c] = 0
  /\ clock <= MaxTime
  /\ idle_stamp' = [idle_stamp EXCEPT ![c] = clock]
  /\ clock' = clock + 1
  /\ UNCHANGED <<rq, allowed, prev_cpu, call>>

\* try_to_wake_up enqueues the task: on the CPU chosen or, when its affinity
\* does not allow that, on one select_fallback_rq takes.  ttwu_do_wakeup
\* resets the stamp.
Enqueue(t) ==
  /\ At(t, "chosen")
  /\ \E c \in allowed[t] :
       /\ call[t].new_cpu \in allowed[t] => c = call[t].new_cpu
       /\ rq' = [rq EXCEPT ![c] = @ \cup {t}]
       /\ idle_stamp' = [idle_stamp EXCEPT ![c] = 0]
       /\ prev_cpu' = [prev_cpu EXCEPT ![t] = c]
  /\ call' = [call EXCEPT ![t] = Out]
  /\ UNCHANGED <<clock, allowed>>

(***************************************************************************)
(* select_task_rq_fair.                                                    *)
(***************************************************************************)
WakeUp(t) ==
  /\ At(t, "out")
  /\ ~Queued(t)
  /\ call' = [call EXCEPT ![t] = [pc |-> "prev"]]
  /\ UNCHANGED <<queues, allowed, prev_cpu>>

\* Mutant: the loop variable, past the last CPU then, is taken.
ChooseLoopVariable(t, c, by) ==
  call' = [call EXCEPT ![t] = [pc |-> "chosen", by |-> by,
                               new_cpu |-> IF by = "stamp" THEN NrCpus ELSE c]]

\* new_cpu = c; goto unlock.  by says which of the three paths chose it.
Choose(t, c, by) ==
  call' = [call EXCEPT ![t] = [pc |-> "chosen", new_cpu |-> c, by |-> by]]

Scan(t, S, stamp, cpu) ==
  call' = [call EXCEPT ![t] =
             [pc |-> "scan", todo |-> S, oldest_idle_stamp |-> stamp,
              oldest_idle_stamp_cpu |-> cpu]]

\* Is the previous CPU idle?  oldest_idle_stamp_cpu is not initialised; the
\* value it has then is never used, here it is prev_cpu.
TestPrev(t) ==
  /\ At(t, "prev")
  /\ IF Idle(prev_cpu[t]) THEN Choose(t, prev_cpu[t], "prev")
                          ELSE Scan(t, CPU, NoStamp, prev_cpu[t])
  /\ UNCHANGED <<queues, allowed, prev_cpu>>

\* Mutants: only nr_running is looked at; only the affinity is.
PassedOverBusy(t, c) == ~Idle(c)
PassedOverForbidden(t, c) == c \notin allowed[t]

\* The "continue" of the loop.
PassedOver(t, c) == c \notin allowed[t] \/ ~Idle(c)

\* One CPU: first its affinity and nr_running ...
ScanCpu(t) ==
  /\ At(t, "scan")
  /\ \E c \in CPU :
       /\ Due(c, call[t].todo)
       /\ call' = IF PassedOver(t, c) THEN [call EXCEPT ![t].todo = @ \ {c}]
                                      ELSE [call EXCEPT ![t].pc = "stamp"]
  /\ UNCHANGED <<queues, allowed, prev_cpu>>

\* Mutants: the latest stamp is kept; a stamp of 0 is taken for none.
OlderReversed(s, t) == s > t \/ t = NoStamp
OlderNotZero(s, t)  == s < t /\ s # 0
Older(s, t)         == s < t

\* ... then its stamp, which may have been reset in between.
ScanStamp(t) ==
  /\ At(t, "stamp")
  /\ \E c \in CPU :
       /\ Due(c, call[t].todo)
       /\ IF Older(idle_stamp[c], call[t].oldest_idle_stamp)
          THEN Scan(t, call[t].todo \ {c}, idle_stamp[c], c)
          ELSE Scan(t, call[t].todo \ {c}, call[t].oldest_idle_stamp,
                    call[t].oldest_idle_stamp_cpu)
  /\ UNCHANGED <<queues, allowed, prev_cpu>>

\* An idle CPU was found, or the rest of the function, the kernel's own
\* heuristics, chooses any CPU.
ScanDone(t) ==
  /\ At(t, "scan")
  /\ call[t].todo = {}
  /\ IF call[t].oldest_idle_stamp # NoStamp
     THEN Choose(t, call[t].oldest_idle_stamp_cpu, "stamp")
     ELSE \E c \in CPU : Choose(t, c, "kernel")
  /\ UNCHANGED <<queues, allowed, prev_cpu>>

select_task_rq_fair(t) == TestPrev(t) \/ ScanCpu(t) \/ ScanStamp(t) \/ ScanDone(t)

\* From the call's start to the choice.
Choosing(t) == ~At(t, "out") /\ ~At(t, "chosen")

Remember ==
  /\ idle_since' = [t \in Task |-> CASE Choosing(t)  -> idle_since[t] \cap IdleCPUs'
                                     [] At(t, "out") -> IF Choosing(t)' THEN IdleCPUs'
                                                                        ELSE {}
                                     [] OTHER        -> idle_since[t]]
  /\ idle_once' = [t \in Task |-> CASE Choosing(t)  -> idle_once[t] \cup IdleCPUs'
                                    [] At(t, "out") -> IF Choosing(t)' THEN IdleCPUs'
                                                                       ELSE {}
                                    [] OTHER        -> idle_once[t]]

Next ==
  /\ \/ \E t \in Task : \/ WakeUp(t)
                        \/ TestPrev(t)
                        \/ ScanCpu(t)
                        \/ ScanStamp(t)
                        \/ ScanDone(t)
                        \/ Enqueue(t)
                        \/ SetAffinity(t)
     \/ \E t \in Task, c \in CPU : Block(t, c)
     \/ \E c \in CPU : GoIdle(c)
  /\ Remember

Spec == Init /\ [][Next]_vars

-----------------------------------------------------------------------------
(***************************************************************************)
(* Properties.                                                             *)
(***************************************************************************)
Call ==
  {Out} \cup [pc : {"prev"}]
        \cup [pc : {"scan", "stamp"}, todo : SUBSET CPU,
              oldest_idle_stamp : 0 .. NoStamp, oldest_idle_stamp_cpu : CPU]
        \cup [pc : {"chosen"}, new_cpu : CPU, by : {"prev", "stamp", "kernel"}]

\* Every variable holds a value of its type.
TypeOK ==
  /\ rq \in [CPU -> SUBSET Task]
  /\ idle_stamp \in [CPU -> 0 .. MaxTime]
  /\ clock \in 1 .. MaxTime + 1
  /\ allowed \in [Task -> Affinities]
  /\ prev_cpu \in [Task -> CPU]
  /\ call \in [Task -> Call]
  /\ idle_since \in [Task -> SUBSET CPU]
  /\ idle_once \in [Task -> SUBSET CPU]

\* A task the patch chooses a CPU for gets one that was idle at some moment of
\* the call, and that its affinity allows unless it is the one it came from:
\* the reads of different moments are never mixed into a CPU that was busy all
\* along.
ChoiceWasIdle ==
  \A t \in Task : At(t, "chosen") /\ call[t].by # "kernel" =>
    /\ call[t].new_cpu \in idle_once[t]
    /\ call[t].by = "stamp" => call[t].new_cpu \in allowed[t]

\* No overload on wakeup while a CPU idles: the kernel's heuristics, which may
\* choose a busy CPU, are only reached when no CPU the task is allowed on has
\* been idle throughout the call, whatever the others do meanwhile.
IdleCpuNotMissed ==
  \A t \in Task : At(t, "chosen") /\ call[t].by = "kernel" =>
    idle_since[t] \cap allowed[t] = {}

\* The CPU kept by the loop is the one idle longest: none of the CPUs visited
\* that has stayed idle has an older stamp.
OldestKept ==
  \A t \in Task : At(t, "scan") =>
    \A c \in (idle_since[t] \cap allowed[t]) \ call[t].todo :
      call[t].oldest_idle_stamp <= idle_stamp[c]
=============================================================================
