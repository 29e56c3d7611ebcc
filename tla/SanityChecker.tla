--------------------------- MODULE SanityChecker ---------------------------
(***************************************************************************)
(* The online sanity checker: the hooks the kernel patch adds to           *)
(* kernel/sched/fair.c (detach_task, check_idle_overloaded,                *)
(* check_useless_migrations) and the stap_monitor module, whose hrtimer    *)
(* calls them once per period and keeps one status per CPU and invariant.  *)
(*                                                                         *)
(* The checker takes no lock.  It runs on one CPU while the others wake    *)
(* up, block and migrate tasks, so each read of another CPU's state is a   *)
(* step of its own.  A per-CPU array of flags of the C code is the set of  *)
(* the CPUs whose entry is non-zero.  How a report is allocated, filled    *)
(* and read is the subject of module BugReport: here generating it is one  *)
(* step.                                                                   *)
(***************************************************************************)
EXTENDS Integers, FiniteSets

CONSTANTS
  NrCpus,      \* the online CPUs are 0 .. NrCpus - 1
  Task,        \* the tasks of the fair class
  Allowed,     \* tsk_cpus_allowed, per task
  Buggy,       \* BUGGY = MIN_NON_TRANSCIENT_FAILURES, 10 in the code
  UserStatus   \* the values written to /proc/stap_cntl

CPU == 0 .. NrCpus - 1

NotBuggy        == 0
MaybeBuggy      == 1
ResetBugginess  == 2

\* status++ goes on past Buggy; every larger value behaves alike, so the
\* model stops counting one above it.
MaxStatus == Buggy + 1

NoWrite == -1

ASSUME NrCpusAssumption == NrCpus \in Nat \ {0}
ASSUME TaskAssumption == IsFiniteSet(Task)
ASSUME AllowedAssumption == Allowed \in [Task -> SUBSET CPU]
ASSUME BuggyAssumption == Buggy \in Nat /\ Buggy > ResetBugginess
ASSUME UserStatusAssumption == UserStatus \subseteq 0 .. MaxStatus

\* The invariants of the checker that are compiled in, by their row of
\* cpu_status (row 1, check_deficit, is commented out).
IdleOverloaded    == 0
UselessMigrations == 2
Invariant == {IdleOverloaded, UselessMigrations}

VARIABLES
  \* The run queues, as the checker's environment changes them.
  rq,                   \* cfs_tasks of each CPU, the running task included
  inflight,             \* tasks detached on behalf of a CPU, not yet attached
  detaching,            \* the detach_task in progress under each rq->lock
  monitor_migrations,   \* CPUs whose next migration is checked
  buggy_migrations,     \* CPUs a useless migration was seen to leave
  successul_steals,     \* CPUs that stole a task since the flags were cleared
  \* The timer's tasklet.
  pc,                   \* where check_balancing_module is
  todo,                 \* what the loop in progress still has to visit
  overload_cpus, idle_cpus, status,     \* local arrays
  new_status,           \* the status about to be written, or NoWrite
  cpu_status,           \* per invariant and CPU
  bug_report_generated, \* the report was asked for (once per load)
  \* History, read by properties only.
  seen_idle,            \* CPUs that were idle at some moment of this scan
  idle_rounds,          \* successive scans during which a CPU was ever idle
  lasting               \* pairs of CPUs stuck since the timer fired

env     == <<rq, inflight, detaching>>
flags   == <<monitor_migrations, buggy_migrations, successul_steals>>
locals  == <<overload_cpus, idle_cpus, status, new_status>>
reports == <<cpu_status, bug_report_generated>>
history == <<seen_idle, idle_rounds, lasting>>
vars    == <<env, flags, pc, todo, locals, reports, history>>

(***************************************************************************)
(* Run queues.  The load of a CPU, which source_load and target_load       *)
(* return, is the number of its tasks: they all weigh the same here.       *)
(***************************************************************************)
nr_running(c) == Cardinality(rq[c])
Load(c)       == nr_running(c)

Queued == (UNION {rq[c] : c \in CPU}) \cup (UNION {inflight[c] : c \in CPU})

NoDetach == [step |-> "none"]
Unlocked(c) == detaching[c] = NoDetach

\* The step of a loop "for_each_online_cpu" that is due: CPUs are visited in
\* increasing order, and so are the pairs of the nested loops.
Due(c, S) == c \in S /\ \A d \in S : c <= d
DuePair(p, S) == p \in S /\ \A q \in S :
                   p[1] < q[1] \/ (p[1] = q[1] /\ p[2] <= q[2])

Init ==
  /\ rq \in [CPU -> {{}}]
  /\ inflight \in [CPU -> {{}}]
  /\ detaching = [c \in CPU |-> NoDetach]
  /\ monitor_migrations = {}
  /\ buggy_migrations = {}
  /\ successul_steals = {}
  /\ pc = "sleep"
  /\ todo = {}
  /\ new_status = NoWrite
  /\ overload_cpus = {}
  /\ idle_cpus = {}
  /\ status = [c \in CPU |-> NotBuggy]
  /\ cpu_status = [i \in Invariant |-> [c \in CPU |-> NotBuggy]]
  /\ bug_report_generated = FALSE
  /\ seen_idle = {}
  /\ idle_rounds = [c \in CPU |-> 0]
  /\ lasting = {}

(***************************************************************************)
(* The scheduler.  Enqueueing and dequeueing need the run queue's lock,    *)
(* which a detach_task in progress holds.                                  *)
(***************************************************************************)
checker == <<pc, todo, locals, reports>>

WakeUp(t, c) ==
  /\ t \notin Queued
  /\ c \in Allowed[t]
  /\ Unlocked(c)
  /\ rq' = [rq EXCEPT ![c] = @ \cup {t}]
  /\ UNCHANGED <<inflight, detaching, flags, checker>>

Block(t, c) ==
  /\ t \in rq[c]
  /\ Unlocked(c)
  /\ rq' = [rq EXCEPT ![c] = @ \ {t}]
  /\ UNCHANGED <<inflight, detaching, flags, checker>>

\* detach_task starts with the audit the patch adds: a migration that
\* leaves a monitored CPU and does not go to a less loaded one is useless.
DetachTask(t, src, dst) ==
  /\ t \in rq[src]
  /\ Unlocked(src)
  /\ dst # src
  /\ dst \in Allowed[t]
  /\ IF src \in monitor_migrations
     THEN /\ buggy_migrations' =
               IF Load(src) <= Load(dst) THEN buggy_migrations \cup {src}
                                         ELSE buggy_migrations
          /\ detaching' = [detaching EXCEPT ![src] =
                             [step |-> "audited", task |-> t, dst |-> dst]]
     ELSE /\ detaching' = [detaching EXCEPT ![src] =
                             [step |-> "steal", task |-> t, dst |-> dst]]
          /\ UNCHANGED buggy_migrations
  /\ UNCHANGED <<rq, inflight, monitor_migrations, successul_steals, checker>>

\* The audit happens once: the monitoring flag is cleared after it.
DetachAudited(src) ==
  /\ detaching[src].step = "audited"
  /\ monitor_migrations' = monitor_migrations \ {src}
  /\ detaching' = [detaching EXCEPT ![src].step = "steal"]
  /\ UNCHANGED <<rq, inflight, buggy_migrations, successul_steals, checker>>

\* successul_steals is set before the task leaves its run queue.
DetachSteal(src) ==
  /\ detaching[src].step = "steal"
  /\ successul_steals' = successul_steals \cup {detaching[src].dst}
  /\ detaching' = [detaching EXCEPT ![src].step = "move"]
  /\ UNCHANGED <<rq, inflight, monitor_migrations, buggy_migrations, checker>>

\* Mutant: the task is not dequeued.
DetachMoveNoDequeue(src) ==
  /\ detaching[src].step = "move"
  /\ inflight' = [inflight EXCEPT ![detaching[src].dst] =
                    @ \cup {detaching[src].task}]
  /\ detaching' = [detaching EXCEPT ![src] = NoDetach]
  /\ UNCHANGED <<rq, flags, checker>>

\* deactivate_task, then set_task_cpu: in flight until it is attached.
DetachMove(src) ==
  /\ detaching[src].step = "move"
  /\ rq' = [rq EXCEPT ![src] = @ \ {detaching[src].task}]
  /\ inflight' = [inflight EXCEPT ![detaching[src].dst] =
                    @ \cup {detaching[src].task}]
  /\ detaching' = [detaching EXCEPT ![src] = NoDetach]
  /\ UNCHANGED <<flags, checker>>

AttachTask(t, dst) ==
  /\ t \in inflight[dst]
  /\ Unlocked(dst)
  /\ inflight' = [inflight EXCEPT ![dst] = @ \ {t}]
  /\ rq' = [rq EXCEPT ![dst] = @ \cup {t}]
  /\ UNCHANGED <<detaching, flags, checker>>

Scheduler ==
  \/ \E t \in Task, c \in CPU : \/ WakeUp(t, c)
                                \/ Block(t, c)
                                \/ AttachTask(t, c)
  \/ \E t \in Task, src, dst \in CPU : DetachTask(t, src, dst)
  \/ \E src \in CPU : \/ DetachAudited(src)
                      \/ DetachSteal(src)
                      \/ DetachMove(src)

(***************************************************************************)
(* The timer: check_balancing_module, first half.                          *)
(***************************************************************************)
ClearedStatus == [c \in CPU |-> NotBuggy]

\* The period has elapsed.  All local arrays start cleared.
TimerFires ==
  /\ pc = "sleep"
  /\ pc' = "scan"
  /\ todo' = CPU
  /\ UNCHANGED <<env, flags, locals, reports>>

\* check_idle_overloaded, first loop: classify one CPU.
ScanCpu ==
  /\ pc = "scan"
  /\ \E c \in CPU :
     /\ Due(c, todo)
     /\ overload_cpus' = IF nr_running(c) >= 2 THEN overload_cpus \cup {c}
                                               ELSE overload_cpus
     /\ idle_cpus' = IF nr_running(c) = 0 THEN idle_cpus \cup {c}
                                          ELSE idle_cpus
     /\ todo' = todo \ {c}
  /\ UNCHANGED <<env, flags, pc, status, new_status, reports>>

\* The nested loop visits the overloaded CPUs and, for each, the idle ones;
\* with either set empty it is skipped ("everything looks good").  A local
\* array is cleared here as soon as it is no longer read.
ScanDone ==
  /\ pc = "scan"
  /\ todo = {}
  /\ pc' = "pairs"
  /\ todo' = overload_cpus \X idle_cpus
  /\ overload_cpus' = {}
  /\ idle_cpus' = {}
  /\ UNCHANGED <<env, flags, status, new_status, reports>>

\* One pair: could cpu2, found idle, have stolen a task of cpu1, found
\* overloaded?  The list is read now, not when cpu1 was classified.
CheckPair ==
  /\ pc = "pairs"
  /\ \E cpu1, cpu2 \in CPU :
     /\ DuePair(<<cpu1, cpu2>>, todo)
     /\ status' =
          IF \E p \in rq[cpu1] : cpu2 \in Allowed[p]
          THEN [status EXCEPT ![cpu2] =
                  IF cpu2 \in successul_steals THEN ResetBugginess
                                               ELSE MaybeBuggy]
          ELSE status
     /\ todo' = todo \ {<<cpu1, cpu2>>}
  /\ UNCHANGED <<env, flags, pc, overload_cpus, idle_cpus, new_status, reports>>

\* Mutant: the flags are never cleared.
ClearStealsMissing ==
  /\ pc = "pairs"
  /\ todo = {}
  /\ pc' = "change_idle"
  /\ todo' = CPU
  /\ UNCHANGED <<env, flags, locals, reports>>

\* memset(successul_steals, 0, sizeof(successul_steals)): the whole array.
ClearSteals ==
  /\ pc = "pairs"
  /\ todo = {}
  /\ successul_steals' = {}
  /\ pc' = "change_idle"
  /\ todo' = CPU
  /\ UNCHANGED <<env, monitor_migrations, buggy_migrations, locals, reports>>

(***************************************************************************)
(* change_cpus_status and change_cpu_status.                               *)
(***************************************************************************)
Inc(s) == IF s < MaxStatus THEN s + 1 ELSE MaxStatus

\* Mutant: NOT_BUGGY does not reset the recorded status.
NewStatusNoReset(s, old) ==
  CASE s = MaybeBuggy     -> Inc(old)
    [] s = ResetBugginess -> MaybeBuggy
    [] s = NotBuggy       -> old
    [] OTHER              -> s

\* Mutant: a steal sets the recorded status back to NOT_BUGGY.
NewStatusForgets(s, old) ==
  CASE s = MaybeBuggy     -> Inc(old)
    [] s = ResetBugginess -> NotBuggy
    [] OTHER              -> s

\* What change_cpus_status makes of the status s the invariant's check
\* returned and the status old recorded so far.
NewStatus(s, old) ==
  CASE s = MaybeBuggy     -> Inc(old)
    [] s = ResetBugginess -> MaybeBuggy
    [] OTHER              -> s     \* NotBuggy and Buggy are copied

\* Mutant: the report is asked for one step too late.
change_cpu_status_late(c, i, s) ==
  /\ cpu_status' = [cpu_status EXCEPT ![i][c] = s]
  /\ bug_report_generated' = (bug_report_generated \/ s > Buggy)

\* A CPU that becomes exactly Buggy triggers a report; the module asks for
\* one report in its lifetime.
change_cpu_status(c, i, s) ==
  /\ cpu_status' = [cpu_status EXCEPT ![i][c] = s]
  /\ bug_report_generated' = (bug_report_generated \/ s = Buggy)

\* One turn of the loop over the CPUs reads the recorded status, then writes
\* it: a write to /proc/stap_cntl may come in between and is then lost.  A
\* status that does not change is not written again.
ReadStatus(i, c) ==
  /\ new_status = NoWrite
  /\ LET old == cpu_status[i][c]
         s   == NewStatus(status[c], old)
     IN  IF status[c] \in {MaybeBuggy, ResetBugginess} \/ s # old
         THEN new_status' = s /\ UNCHANGED todo
         ELSE todo' = todo \ {c} /\ UNCHANGED new_status
  /\ UNCHANGED reports

WriteStatus(i, c) ==
  /\ new_status # NoWrite
  /\ change_cpu_status(c, i, new_status)
  /\ todo' = todo \ {c}
  /\ new_status' = NoWrite

change_cpus_status(i) ==
  \E c \in CPU : Due(c, todo) /\ (ReadStatus(i, c) \/ WriteStatus(i, c))

ChangeIdle ==
  /\ pc = "change_idle"
  /\ change_cpus_status(IdleOverloaded)
  /\ UNCHANGED <<env, flags, pc, overload_cpus, idle_cpus, status>>

ChangeIdleDone ==
  /\ pc = "change_idle"
  /\ todo = {}
  /\ pc' = "scan_migrations"
  /\ todo' = CPU
  /\ status' = ClearedStatus
  /\ UNCHANGED <<env, flags, overload_cpus, idle_cpus, new_status, reports>>

(***************************************************************************)
(* check_useless_migrations.                                               *)
(***************************************************************************)
ScanMigrations ==
  /\ pc = "scan_migrations"
  /\ \E c \in CPU :
     /\ Due(c, todo)
     /\ status' = IF c \in buggy_migrations THEN [status EXCEPT ![c] = Buggy]
                                            ELSE status
     /\ todo' = todo \ {c}
  /\ UNCHANGED <<env, flags, pc, overload_cpus, idle_cpus, new_status, reports>>

\* Mutants: the size of the whole array, and of one entry too many.
AllEntries  == CPU
PastTheEnd  == 0 .. NrCpus

\* memset(array, v, sizeof( *array)): sizeof is that of one element, so only
\* the entry of CPU 0 is written.
FirstEntry == {0}

ClearBuggyMigrations ==
  /\ pc = "scan_migrations"
  /\ todo = {}
  /\ buggy_migrations' = buggy_migrations \ FirstEntry
  /\ pc' = "arm"
  /\ UNCHANGED <<env, monitor_migrations, successul_steals, todo, locals,
                 reports>>

ArmMigrations ==
  /\ pc = "arm"
  /\ monitor_migrations' = monitor_migrations \cup FirstEntry
  /\ pc' = "change_migrations"
  /\ todo' = CPU
  /\ UNCHANGED <<env, buggy_migrations, successul_steals, locals, reports>>

ChangeMigrations ==
  /\ pc = "change_migrations"
  /\ change_cpus_status(UselessMigrations)
  /\ UNCHANGED <<env, flags, pc, overload_cpus, idle_cpus, status>>

\* HRTIMER_RESTART: the timer is armed again.
TimerRestarts ==
  /\ pc = "change_migrations"
  /\ todo = {}
  /\ pc' = "sleep"
  /\ status' = ClearedStatus
  /\ UNCHANGED <<env, flags, todo, overload_cpus, idle_cpus, new_status,
                 reports>>

Checker ==
  \/ TimerFires
  \/ ScanCpu
  \/ ScanDone
  \/ CheckPair
  \/ ClearSteals
  \/ ChangeIdle
  \/ ChangeIdleDone
  \/ ScanMigrations
  \/ ClearBuggyMigrations
  \/ ArmMigrations
  \/ ChangeMigrations
  \/ TimerRestarts

\* A process writes "C <cpu> <status>" to /proc/stap_cntl: stap_proc_write
\* sets the status of that CPU for the first invariant.
ProcWrite ==
  /\ \E c \in CPU, s \in UserStatus : change_cpu_status(c, IdleOverloaded, s)
  /\ UNCHANGED <<env, flags, pc, todo, locals>>

(***************************************************************************)
(* History.  seen_idle collects, from the timer's firing to the end of the *)
(* scan, the CPUs that were idle at some moment; idle_rounds counts the    *)
(* successive scans in which a CPU was.  lasting keeps, until the status   *)
(* is recorded, the pairs of CPUs that violated invariant 1 from the       *)
(* timer's firing until the last pair was checked.                         *)
(***************************************************************************)
Idle == {c \in CPU : rq[c] = {}}

\* Invariant 1 of the checker for one pair of CPUs: c idles while d has two
\* tasks or more, one of which c could run.
Stuck(c, d) == /\ rq[c] = {}
               /\ nr_running(d) >= 2
               /\ \E t \in rq[d] : c \in Allowed[t]
StuckPairs == {p \in CPU \X CPU : Stuck(p[1], p[2])}

Remember ==
  /\ seen_idle' = CASE pc' = "scan" /\ pc # "scan" -> Idle'
                    [] pc' = "scan" /\ pc = "scan" -> seen_idle \cup Idle'
                    [] OTHER -> {}
  /\ idle_rounds' =
       IF pc = "scan" /\ pc' # "scan"
       THEN [c \in CPU |-> IF c \in seen_idle THEN Inc(idle_rounds[c]) ELSE 0]
       ELSE idle_rounds
  /\ lasting' = CASE pc' = "scan" /\ pc # "scan"  -> StuckPairs'
                  [] pc' = "scan" /\ pc = "scan"  -> lasting \cap StuckPairs'
                  [] pc' = "pairs"                -> lasting \cap StuckPairs'
                  [] pc' = "change_idle"          -> lasting
                  [] OTHER                        -> {}

Next == (Scheduler \/ Checker \/ ProcWrite) /\ Remember

Spec == Init /\ [][Next]_vars

\* The timer's tasklet runs whatever the scheduler does: HRTIMER_RESTART
\* re-arms it after each round.
FairSpec == Spec /\ WF_vars(Checker /\ Remember)

-----------------------------------------------------------------------------
(***************************************************************************)
(* Properties.                                                             *)
(***************************************************************************)
Detach == {NoDetach} \cup [step : {"audited", "steal", "move"},
                           task : Task, dst : CPU]

\* Every variable holds a value of its type (all of the checker's state).
TypeOK ==
  /\ rq \in [CPU -> SUBSET Task]
  /\ inflight \in [CPU -> SUBSET Task]
  /\ detaching \in [CPU -> Detach]
  /\ monitor_migrations \subseteq CPU
  /\ buggy_migrations \subseteq CPU
  /\ successul_steals \subseteq CPU
  /\ pc \in {"sleep", "scan", "pairs", "change_idle", "scan_migrations",
             "arm", "change_migrations"}
  /\ IF pc = "pairs" THEN todo \subseteq CPU \X CPU ELSE todo \subseteq CPU
  /\ overload_cpus \subseteq CPU
  /\ idle_cpus \subseteq CPU
  /\ status \in [CPU -> {NotBuggy, MaybeBuggy, ResetBugginess, Buggy}]
  /\ new_status \in {NoWrite} \cup 0 .. MaxStatus
  /\ cpu_status \in [Invariant -> [CPU -> 0 .. MaxStatus]]
  /\ bug_report_generated \in BOOLEAN
  /\ seen_idle \subseteq CPU
  /\ idle_rounds \in [CPU -> 0 .. MaxStatus]
  /\ lasting \subseteq CPU \X CPU

\* A migration in progress never loses or duplicates a task: it is on one
\* run queue or in one in-flight list, whatever the checker reads meanwhile.
TaskInOnePlace ==
  \A t \in Task, c, d \in CPU :
    /\ t \in rq[c] => t \notin inflight[d]
    /\ c # d => ~(t \in rq[c] /\ t \in rq[d])
    /\ c # d => ~(t \in inflight[c] /\ t \in inflight[d])

\* The audit of migrations (invariant 3) only ever concerns CPU 0: the two
\* memsets of check_useless_migrations touch one entry, so no other CPU is
\* ever monitored and none can be reported for a useless migration.
OnlyCpu0Audited ==
  /\ monitor_migrations \subseteq {0}
  /\ buggy_migrations \subseteq {0}
  /\ \A c \in CPU \ {0} : cpu_status[UselessMigrations][c] = NotBuggy

\* A CPU is not blamed for transient idleness: its status for invariant 1
\* never exceeds the number of successive rounds in which it was idle at some
\* moment of the scan, however the scan interleaves with the scheduler.
\* (Only without writes to /proc/stap_cntl, which set the status at will.)
BlamedOnlyIfIdle ==
  \A c \in CPU : \/ cpu_status[IdleOverloaded][c] <= idle_rounds[c]
                 \/ pc = "pairs"
                 \/ pc = "change_idle" /\ c \in todo

\* A report is asked for exactly when a CPU has reached the Buggy status: a
\* status above it was passed through Buggy, or written by a user.
ReportMeansBuggy ==
  (\E i \in Invariant, c \in CPU : cpu_status[i][c] = Buggy)
    => bug_report_generated

\* A violation that lasts through a scan is not missed, though no two CPUs are
\* looked at in the same moment: the idle CPU's status says so, and is recorded
\* whether or not it was seen to steal.  (Only without writes, which may reset
\* what is recorded.)
LastingViolationSeen ==
  pc = "change_idle" => \A c, d \in CPU : <<c, d>> \in lasting =>
    /\ status[c] # NotBuggy
    /\ c \notin todo => cpu_status[IdleOverloaded][c] # NotBuggy

\* A violation that lasts is reported: if some CPU stays idle while another
\* stays overloaded with a task it could run, a bug report is generated.
LastingViolationReported ==
  \A c, d \in CPU : <>[]Stuck(c, d) => <>bug_report_generated

\* What the comments of check_idle_overloaded say of successul_steals (the CPU
\* "has stolen a task during the last iteration, reset bug counter"): when the
\* flags are cleared, none of a CPU counted as not having stolen is lost.  The
\* code clears steals made since the flag was read.
StealsCounted ==
  [][pc = "pairs" /\ pc' = "change_idle" =>
       \A c \in successul_steals : status[c] # MaybeBuggy]_vars

\* What the comment above check_useless_migrations says: each round sets
\* monitor_migrations so that the next migration on each CPU is checked.
EachCpuMonitored ==
  [][pc = "arm" /\ pc' = "change_migrations" =>
       monitor_migrations' = CPU]_vars
=============================================================================
