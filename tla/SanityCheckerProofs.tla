------------------------ MODULE SanityCheckerProofs ------------------------
(***************************************************************************)
(* Proofs about SanityChecker, for any number of CPUs and tasks, any       *)
(* affinities and any threshold.                                           *)
(***************************************************************************)
EXTENDS SanityChecker, FiniteSetTheorems, TLAPS

USE DEF CPU, NotBuggy, MaybeBuggy, ResetBugginess, MaxStatus, NoWrite,
        IdleOverloaded, UselessMigrations, Invariant

-----------------------------------------------------------------------------
(***************************************************************************)
(* Type correctness.                                                       *)
(***************************************************************************)
\* The part of TypeOK that only Remember changes, and the rest.
HistoryTypeOK == /\ seen_idle \subseteq CPU
                 /\ idle_rounds \in [CPU -> 0 .. MaxStatus]
                 /\ lasting \subseteq CPU \X CPU

\* What change_cpus_status computes is a status of cpu_status's type.
LEMMA NewStatusType ==
  ASSUME NEW s \in {NotBuggy, MaybeBuggy, ResetBugginess, Buggy},
         NEW old \in 0 .. MaxStatus
  PROVE  NewStatus(s, old) \in 0 .. MaxStatus
  BY BuggyAssumption DEF NewStatus, Inc

\* The history variables keep their types, whatever the step.
LEMMA RememberType ==
  ASSUME TypeOK, Remember PROVE HistoryTypeOK'
<1>1. seen_idle' \subseteq CPU
  BY DEF TypeOK, Remember, Idle
<1>2. idle_rounds' \in [CPU -> 0 .. MaxStatus]
  BY BuggyAssumption DEF TypeOK, Remember, Inc
<1>3. lasting' \subseteq CPU \X CPU
  <2>1. StuckPairs' \subseteq CPU \X CPU BY DEF StuckPairs
  <2> QED BY <2>1 DEF TypeOK, Remember
<1> QED BY <1>1, <1>2, <1>3 DEF HistoryTypeOK

\* A step of the scheduler keeps the types of all it changes.
LEMMA SchedulerType ==
  ASSUME TypeOK, Scheduler, HistoryTypeOK' PROVE TypeOK'
<1> USE AllowedAssumption DEF TypeOK, HistoryTypeOK, Detach, NoDetach, flags,
      checker, locals, reports
<1>1. ASSUME NEW t \in Task, NEW c \in CPU, WakeUp(t, c) PROVE TypeOK'
  BY <1>1 DEF WakeUp
<1>2. ASSUME NEW t \in Task, NEW c \in CPU, Block(t, c) PROVE TypeOK'
  BY <1>2 DEF Block
<1>3. ASSUME NEW t \in Task, NEW c \in CPU, AttachTask(t, c) PROVE TypeOK'
  BY <1>3 DEF AttachTask
<1>4. ASSUME NEW t \in Task, NEW src \in CPU, NEW dst \in CPU,
             DetachTask(t, src, dst)
      PROVE  TypeOK'
  <2>1. detaching' \in [CPU -> Detach] BY <1>4 DEF DetachTask
  <2>2. buggy_migrations' \subseteq CPU BY <1>4 DEF DetachTask
  <2> QED BY <1>4, <2>1, <2>2 DEF DetachTask
<1>5. ASSUME NEW src \in CPU, DetachAudited(src) PROVE TypeOK'
  <2>1. detaching[src] \in [step : {"audited", "steal", "move"},
                            task : Task, dst : CPU]
    BY <1>5 DEF DetachAudited
  <2>2. [detaching[src] EXCEPT !.step = "steal"] \in Detach BY <2>1
  <2>3. detaching' \in [CPU -> Detach] BY <1>5, <2>2 DEF DetachAudited
  <2> QED BY <1>5, <2>3 DEF DetachAudited
<1>6. ASSUME NEW src \in CPU, DetachSteal(src) PROVE TypeOK'
  <2>1. detaching[src] \in [step : {"audited", "steal", "move"},
                            task : Task, dst : CPU]
    BY <1>6 DEF DetachSteal
  <2>2. [detaching[src] EXCEPT !.step = "move"] \in Detach BY <2>1
  <2>3. detaching' \in [CPU -> Detach] BY <1>6, <2>2 DEF DetachSteal
  <2> QED BY <1>6, <2>1, <2>3 DEF DetachSteal
<1>7. ASSUME NEW src \in CPU, DetachMove(src) PROVE TypeOK'
  <2>0. detaching[src] \in Detach /\ detaching[src] # NoDetach
    <3>1. detaching[src].step = "move" BY <1>7 DEF DetachMove
    <3>2. detaching[src] # NoDetach BY <3>1
    <3>3. detaching[src] \in Detach OBVIOUS
    <3> QED BY <3>2, <3>3
  <2>1. detaching[src].dst \in CPU /\ detaching[src].task \in Task BY <2>0
  <2>2. inflight' \in [CPU -> SUBSET Task] BY <1>7, <2>1 DEF DetachMove
  <2>3. rq' \in [CPU -> SUBSET Task] BY <1>7, <2>1 DEF DetachMove
  <2> QED BY <1>7, <2>2, <2>3 DEF DetachMove
<1> QED BY <1>1, <1>2, <1>3, <1>4, <1>5, <1>6, <1>7 DEF Scheduler

\* The loop that records the statuses keeps the types of what it writes.
LEMMA ChangeStatusType ==
  ASSUME TypeOK, NEW i \in Invariant, change_cpus_status(i),
         todo \subseteq CPU
  PROVE  /\ todo' \subseteq CPU
         /\ new_status' \in {NoWrite} \cup 0 .. MaxStatus
         /\ cpu_status' \in [Invariant -> [CPU -> 0 .. MaxStatus]]
         /\ bug_report_generated' \in BOOLEAN
<1>1. PICK c \in CPU : Due(c, todo) /\ (ReadStatus(i, c) \/ WriteStatus(i, c))
  BY DEF change_cpus_status
<1>2. CASE ReadStatus(i, c)
  <2>1. NewStatus(status[c], cpu_status[i][c]) \in 0 .. MaxStatus
    BY NewStatusType DEF TypeOK
  <2> QED BY <1>2, <2>1 DEF TypeOK, ReadStatus, reports
<1>3. CASE WriteStatus(i, c)
  BY <1>3 DEF TypeOK, WriteStatus, change_cpu_status
<1> QED BY <1>1, <1>2, <1>3

\* A step of the timer keeps the types.
LEMMA CheckerType ==
  ASSUME TypeOK, Checker, HistoryTypeOK' PROVE TypeOK'
<1> USE NrCpusAssumption, BuggyAssumption
      DEF TypeOK, HistoryTypeOK, env, flags, locals, reports
<1>1. CASE TimerFires BY <1>1 DEF TimerFires
<1>2. CASE ScanCpu
  <2>1. PICK c \in CPU : ScanCpu!2!(c) BY <1>2 DEF ScanCpu
  <2> QED BY <1>2, <2>1 DEF ScanCpu
<1>3. CASE ScanDone BY <1>3 DEF ScanDone
<1>4. CASE CheckPair
  <2>1. PICK cpu1 \in CPU, cpu2 \in CPU : CheckPair!2!(cpu1, cpu2)
    BY <1>4 DEF CheckPair
  <2> QED BY <1>4, <2>1 DEF CheckPair
<1>5. CASE ClearSteals BY <1>5 DEF ClearSteals
<1>6. CASE ChangeIdle
  BY <1>6, ChangeStatusType DEF ChangeIdle
<1>7. CASE ChangeIdleDone BY <1>7 DEF ChangeIdleDone, ClearedStatus
<1>8. CASE ScanMigrations
  <2>1. PICK c \in CPU : ScanMigrations!2!(c) BY <1>8 DEF ScanMigrations
  <2> QED BY <1>8, <2>1 DEF ScanMigrations
<1>9. CASE ClearBuggyMigrations BY <1>9 DEF ClearBuggyMigrations
<1>10. CASE ArmMigrations BY SMTT(30), <1>10 DEF ArmMigrations, FirstEntry
<1>11. CASE ChangeMigrations
  BY <1>11, ChangeStatusType DEF ChangeMigrations
<1>12. CASE TimerRestarts BY <1>12 DEF TimerRestarts, ClearedStatus
<1> QED BY <1>1, <1>2, <1>3, <1>4, <1>5, <1>6, <1>7, <1>8, <1>9, <1>10,
           <1>11, <1>12 DEF Checker

\* Every variable holds a value of its type: the parameter ranges of the
\* statuses, the sets of CPUs and the loops' work lists.
THEOREM TypeCorrect == Spec => []TypeOK
<1>1. Init => TypeOK
  <2> SUFFICES ASSUME Init PROVE TypeOK OBVIOUS
  <2> USE NrCpusAssumption, BuggyAssumption DEF Init
  <2>1. rq \in [CPU -> SUBSET Task] /\ inflight \in [CPU -> SUBSET Task]
    OBVIOUS
  <2>2. detaching \in [CPU -> Detach] BY DEF Detach
  <2>3. /\ status \in [CPU -> {NotBuggy, MaybeBuggy, ResetBugginess, Buggy}]
        /\ cpu_status \in [Invariant -> [CPU -> 0 .. MaxStatus]]
        /\ idle_rounds \in [CPU -> 0 .. MaxStatus]
    OBVIOUS
  <2> QED BY <2>1, <2>2, <2>3 DEF TypeOK
<1>2. TypeOK /\ [Next]_vars => TypeOK'
  <2> SUFFICES ASSUME TypeOK, [Next]_vars PROVE TypeOK' OBVIOUS
  <2>1. CASE Next
    <3>1. HistoryTypeOK' BY <2>1, RememberType DEF Next
    <3>2. CASE Scheduler BY <3>1, <3>2, SchedulerType
    <3>3. CASE Checker BY <3>1, <3>3, CheckerType
    <3>4. CASE ProcWrite
      <4>1. PICK c \in CPU, s \in UserStatus :
              change_cpu_status(c, IdleOverloaded, s)
        BY <3>4 DEF ProcWrite
      <4> QED BY <3>1, <3>4, <4>1, UserStatusAssumption
             DEF TypeOK, HistoryTypeOK, ProcWrite, change_cpu_status, env,
                 flags, locals
    <3> QED BY <2>1, <3>2, <3>3, <3>4 DEF Next
  <2>2. CASE UNCHANGED vars
    BY <2>2 DEF TypeOK, vars, env, flags, locals, reports, history
  <2> QED BY <2>1, <2>2
<1> QED BY <1>1, <1>2, PTL DEF Spec

-----------------------------------------------------------------------------
(***************************************************************************)
(* Tasks.  A task being detached stays on its run queue, whose lock the    *)
(* detach_task holds, until it moves: that makes TaskInOnePlace inductive. *)
(***************************************************************************)
DetachingOnQueue ==
  \A src \in CPU : detaching[src] # NoDetach =>
    detaching[src].task \in rq[src] /\ detaching[src].dst \in CPU

TasksInv == TaskInOnePlace /\ DetachingOnQueue

\* No task is lost to two run queues or in-flight lists at once, whatever the
\* order of the wakeups, of the four steps of a migration and of the checker.
THEOREM TaskInOnePlaceTheorem == Spec => []TaskInOnePlace
<1>1. Init => TasksInv
  BY DEF Init, TasksInv, TaskInOnePlace, DetachingOnQueue
<1>2. TypeOK /\ TasksInv /\ [Next]_vars => TasksInv'
  <2> SUFFICES ASSUME TypeOK, TasksInv, [Next]_vars PROVE TasksInv' OBVIOUS
  <2> USE DEF TasksInv, TaskInOnePlace, DetachingOnQueue
  <2>1. CASE UNCHANGED env
    BY <2>1 DEF env
  <2>2. CASE Scheduler
    <3> USE DEF TypeOK, NoDetach
    <3>1. ASSUME NEW t \in Task, NEW c \in CPU, WakeUp(t, c) PROVE TasksInv'
      <4>1. \A d \in CPU : t \notin rq[d] /\ t \notin inflight[d]
        <5> SUFFICES ASSUME NEW d \in CPU
                     PROVE  /\ rq[d] \subseteq Queued
                            /\ inflight[d] \subseteq Queued
          BY <3>1 DEF WakeUp
        <5>1. rq[d] \subseteq UNION {rq[e] : e \in CPU} OBVIOUS
        <5>2. inflight[d] \subseteq UNION {inflight[e] : e \in CPU} OBVIOUS
        <5> QED BY <5>1, <5>2, Zenon DEF Queued
      <4> QED BY SMTT(30), <3>1, <4>1 DEF WakeUp
    <3>2. ASSUME NEW t \in Task, NEW c \in CPU, Block(t, c) PROVE TasksInv'
      BY <3>2 DEF Block, Unlocked
    <3>3. ASSUME NEW t \in Task, NEW c \in CPU, AttachTask(t, c)
          PROVE  TasksInv'
      BY <3>3 DEF AttachTask, Unlocked
    <3>4. ASSUME NEW t \in Task, NEW src \in CPU, NEW dst \in CPU,
                 DetachTask(t, src, dst)
          PROVE  TasksInv'
      <4>1. \E s \in {"audited", "steal"} :
              detaching' = [detaching EXCEPT ![src] =
                              [step |-> s, task |-> t, dst |-> dst]]
        BY <3>4 DEF DetachTask
      <4>2. UNCHANGED <<rq, inflight>> BY <3>4 DEF DetachTask
      <4>3. t \in rq[src] BY <3>4 DEF DetachTask
      <4>4. PICK s \in {"audited", "steal"} :
              detaching' = [detaching EXCEPT ![src] =
                              [step |-> s, task |-> t, dst |-> dst]]
        BY <4>1
      <4>5. DetachingOnQueue' BY <4>2, <4>3, <4>4
      <4> QED BY <4>2, <4>5
    <3>5. ASSUME NEW src \in CPU, DetachAudited(src) \/ DetachSteal(src)
          PROVE  TasksInv'
      <4>1. detaching[src] # NoDetach
        BY <3>5 DEF DetachAudited, DetachSteal
      <4>2. detaching[src] \in [step : {"audited", "steal", "move"},
                                task : Task, dst : CPU]
        BY <4>1 DEF Detach
      <4>3. \E s \in {"steal", "move"} :
              detaching'[src] = [detaching[src] EXCEPT !.step = s]
        BY <3>5 DEF DetachAudited, DetachSteal
      <4>5. /\ detaching'[src].task = detaching[src].task
            /\ detaching'[src].dst = detaching[src].dst
        BY <4>2, <4>3
      <4>4. /\ UNCHANGED <<rq, inflight>>
            /\ \A d \in CPU \ {src} : detaching'[d] = detaching[d]
        BY <3>5 DEF DetachAudited, DetachSteal
      <4> QED BY <4>1, <4>4, <4>5
    <3>6. ASSUME NEW src \in CPU, DetachMove(src) PROVE TasksInv'
      <4>1. detaching[src] # NoDetach BY <3>6 DEF DetachMove
      <4> DEFINE t == detaching[src].task
                 dst == detaching[src].dst
      <4>2. t \in rq[src] /\ dst \in CPU BY <4>1
      <4> HIDE DEF t, dst
      <4>3. /\ rq' = [rq EXCEPT ![src] = @ \ {t}]
            /\ inflight' = [inflight EXCEPT ![dst] = @ \cup {t}]
            /\ detaching' = [detaching EXCEPT ![src] = NoDetach]
        BY <3>6 DEF DetachMove, t, dst
      <4>4. TaskInOnePlace' BY <4>2, <4>3
      <4>5. DetachingOnQueue' BY <4>2, <4>3
      <4> QED BY <4>4, <4>5
    <3> QED BY <2>2, <3>1, <3>2, <3>3, <3>4, <3>5, <3>6 DEF Scheduler
  <2>3. Checker \/ ProcWrite => UNCHANGED env
    BY DEF Checker, ProcWrite, TimerFires, ScanCpu, ScanDone, CheckPair,
           ClearSteals, ChangeIdle, ChangeIdleDone, ScanMigrations,
           ClearBuggyMigrations, ArmMigrations, ChangeMigrations,
           TimerRestarts
  <2> QED BY <2>1, <2>2, <2>3 DEF Next, vars
<1>3. TasksInv => TaskInOnePlace BY DEF TasksInv
<1> QED BY <1>1, <1>2, <1>3, TypeCorrect, PTL DEF Spec

-----------------------------------------------------------------------------
(***************************************************************************)
(* Reports.                                                                *)
(***************************************************************************)
\* A CPU at the Buggy threshold means that the report was asked for, writes
\* to /proc/stap_cntl included: every path to that status goes through
\* change_cpu_status.
THEOREM ReportMeansBuggyTheorem == Spec => []ReportMeansBuggy
<1> USE BuggyAssumption DEF ReportMeansBuggy
<1>1. Init => ReportMeansBuggy BY DEF Init
<1>2. TypeOK /\ ReportMeansBuggy /\ [Next]_vars => ReportMeansBuggy'
  <2> SUFFICES ASSUME TypeOK, ReportMeansBuggy, [Next]_vars
               PROVE  ReportMeansBuggy'
    OBVIOUS
  <2>1. CASE UNCHANGED reports BY <2>1 DEF reports
  <2>2. ASSUME NEW i \in Invariant, NEW c \in CPU, NEW s,
               change_cpu_status(c, i, s)
        PROVE  ReportMeansBuggy'
    BY <2>2 DEF TypeOK, change_cpu_status
  <2>3. CASE Scheduler
    <3>1. UNCHANGED reports
      BY <2>3 DEF Scheduler, WakeUp, Block, AttachTask, DetachTask,
                  DetachAudited, DetachSteal, DetachMove, checker
    <3> QED BY <2>1, <3>1
  <2>4. CASE ProcWrite
    BY <2>2, <2>4 DEF ProcWrite
  <2>5. ASSUME NEW i \in Invariant, change_cpus_status(i)
        PROVE  ReportMeansBuggy'
    BY <2>1, <2>2, <2>5 DEF change_cpus_status, ReadStatus, WriteStatus
  <2>6. CASE Checker
    <3>1. ChangeIdle => ReportMeansBuggy' BY <2>5 DEF ChangeIdle
    <3>2. ChangeMigrations => ReportMeansBuggy'
      BY <2>5 DEF ChangeMigrations
    <3>3. Checker => UNCHANGED reports \/ ChangeIdle \/ ChangeMigrations
      BY DEF Checker, TimerFires, ScanCpu, ScanDone, CheckPair, ClearSteals,
             ChangeIdleDone, ScanMigrations, ClearBuggyMigrations,
             ArmMigrations, TimerRestarts, locals
    <3> QED BY <2>1, <2>6, <3>1, <3>2, <3>3
  <2> QED BY <2>1, <2>3, <2>4, <2>6 DEF Next, vars
<1> QED BY <1>1, <1>2, TypeCorrect, PTL DEF Spec

-----------------------------------------------------------------------------
(***************************************************************************)
(* The recording loop.  A status read but not yet written belongs to the   *)
(* CPU the loop is at, which is still in todo.                             *)
(***************************************************************************)
Recording == {"change_idle", "change_migrations"}

PendingWrite == new_status # NoWrite => pc \in Recording /\ todo # {}

\* A status waits to be written only inside change_cpus_status.
LEMMA PendingWriteInvariant == Spec => []PendingWrite
<1> USE DEF PendingWrite, Recording
<1>1. Init => PendingWrite BY DEF Init
<1>2. TypeOK /\ PendingWrite /\ [Next]_vars => PendingWrite'
  <2> SUFFICES ASSUME TypeOK, PendingWrite, [Next]_vars PROVE PendingWrite'
    OBVIOUS
  <2>1. CASE UNCHANGED <<pc, todo, new_status>> BY <2>1
  <2>2. CASE Scheduler
    BY <2>1, <2>2 DEF Scheduler, WakeUp, Block, AttachTask, DetachTask,
       DetachAudited, DetachSteal, DetachMove, checker, locals
  <2>3. CASE ProcWrite BY <2>1, <2>3 DEF ProcWrite, locals
  <2>4. ASSUME NEW i \in Invariant, change_cpus_status(i), UNCHANGED pc,
               pc \in Recording
        PROVE  PendingWrite'
    <3>1. PICK c \in CPU :
            Due(c, todo) /\ (ReadStatus(i, c) \/ WriteStatus(i, c))
      BY <2>4 DEF change_cpus_status
    <3>2. CASE ReadStatus(i, c)
      <4>1. c \in todo BY <3>1 DEF Due
      <4>2. \/ UNCHANGED todo
            \/ new_status' = NoWrite
        BY <3>2 DEF ReadStatus
      <4> QED BY <2>4, <4>1, <4>2
    <3>3. CASE WriteStatus(i, c) BY <2>4, <3>3 DEF WriteStatus
    <3> QED BY <3>1, <3>2, <3>3
  <2>5. CASE Checker
    <3>1. ChangeIdle \/ ChangeMigrations => PendingWrite'
      BY <2>4 DEF ChangeIdle, ChangeMigrations
    <3>2. TimerFires \/ ScanCpu \/ ScanDone \/ CheckPair \/ ClearSteals
            => PendingWrite'
      BY DEF TimerFires, ScanCpu, ScanDone, CheckPair, ClearSteals, locals
    <3>3. ChangeIdleDone \/ ScanMigrations \/ ClearBuggyMigrations
            => PendingWrite'
      BY DEF ChangeIdleDone, ScanMigrations, ClearBuggyMigrations, locals
    <3>4. ArmMigrations \/ TimerRestarts => PendingWrite'
      BY DEF ArmMigrations, TimerRestarts, locals
    <3> QED BY <2>5, <3>1, <3>2, <3>3, <3>4 DEF Checker
  <2> QED BY <2>1, <2>2, <2>3, <2>5 DEF Next, vars, locals
<1> QED BY <1>1, <1>2, TypeCorrect, PTL DEF Spec

-----------------------------------------------------------------------------
(***************************************************************************)
(* The audit of migrations.  Besides the flags, the statuses computed in   *)
(* the second half of a round concern CPU 0 only, hence so does a pending  *)
(* write, which the loop makes while CPU 0 is still to be visited.         *)
(***************************************************************************)
SecondHalf == {"scan_migrations", "arm", "change_migrations"}

AuditInv ==
  /\ OnlyCpu0Audited
  /\ pc \in SecondHalf => \A c \in CPU \ {0} : status[c] = NotBuggy
  /\ pc = "change_migrations" /\ new_status # NoWrite => 0 \in todo

\* Only CPU 0 is ever audited for useless migrations, on any machine: the two
\* memsets whose size is that of one element leave every other CPU out.
THEOREM OnlyCpu0AuditedTheorem == Spec => []OnlyCpu0Audited
<1> USE DEF AuditInv, OnlyCpu0Audited, SecondHalf
<1>1. Init => AuditInv BY DEF Init
<1>2. TypeOK /\ PendingWrite /\ AuditInv /\ [Next]_vars => AuditInv'
  <2> SUFFICES ASSUME TypeOK, PendingWrite, AuditInv, [Next]_vars
               PROVE  AuditInv'
    OBVIOUS
  <2>1. CASE UNCHANGED <<monitor_migrations, buggy_migrations, cpu_status, pc,
                         status, todo, new_status>>
    BY <2>1
  <2>2. CASE Scheduler
    <3>1. ASSUME NEW t \in Task, NEW src \in CPU, NEW dst \in CPU,
                 DetachTask(t, src, dst)
          PROVE  AuditInv'
      <4>1. buggy_migrations' \subseteq {0} BY <3>1 DEF DetachTask
      <4> QED BY <3>1, <4>1 DEF DetachTask, checker, locals, reports
    <3>2. ASSUME NEW src \in CPU, DetachAudited(src) PROVE AuditInv'
      BY <3>2 DEF DetachAudited, checker, locals, reports
    <3>3. \/ \E t \in Task, c \in CPU : \/ WakeUp(t, c)
                                        \/ Block(t, c)
                                        \/ AttachTask(t, c)
          \/ \E src \in CPU : DetachSteal(src) \/ DetachMove(src)
          => UNCHANGED <<monitor_migrations, buggy_migrations, cpu_status, pc,
                         status, todo, new_status>>
      BY DEF WakeUp, Block, AttachTask, DetachSteal, DetachMove, checker,
             flags, locals, reports
    <3> QED BY <2>1, <2>2, <3>1, <3>2, <3>3 DEF Scheduler
  <2>3. CASE ProcWrite
    <3>1. PICK c \in CPU, s \in UserStatus :
            change_cpu_status(c, IdleOverloaded, s)
      BY <2>3 DEF ProcWrite
    <3>2. \A d \in CPU : cpu_status'[UselessMigrations][d] =
                           cpu_status[UselessMigrations][d]
      BY <3>1 DEF TypeOK, change_cpu_status
    <3> QED BY <2>3, <3>2 DEF ProcWrite, flags, locals
  <2>4. CASE TimerFires \/ ScanCpu \/ ScanDone \/ CheckPair \/ ClearSteals
    BY <2>4 DEF TimerFires, ScanCpu, ScanDone, CheckPair, ClearSteals, flags,
       locals, reports
  <2>5. CASE ChangeIdle
    <3>1. \A d \in CPU : cpu_status'[UselessMigrations][d] =
                           cpu_status[UselessMigrations][d]
      BY <2>5 DEF TypeOK, ChangeIdle, change_cpus_status, ReadStatus,
                  WriteStatus, change_cpu_status, reports
    <3> QED BY <2>5, <3>1 DEF ChangeIdle, flags
  <2>6. CASE ChangeIdleDone
    BY <2>6 DEF ChangeIdleDone, ClearedStatus, flags, reports
  <2>7. CASE ScanMigrations
    <3>1. PICK c \in CPU : ScanMigrations!2!(c) BY <2>7 DEF ScanMigrations
    <3>2. \A d \in CPU \ {0} : status'[d] = status[d]
      BY <2>7, <3>1 DEF ScanMigrations, TypeOK
    <3> QED BY <2>7, <3>2 DEF ScanMigrations, flags, reports
  <2>8. CASE ClearBuggyMigrations
    BY <2>8 DEF ClearBuggyMigrations, locals, reports
  <2>9. CASE ArmMigrations
    BY <2>9 DEF ArmMigrations, FirstEntry, PendingWrite, Recording, locals,
       reports
  <2>10. CASE ChangeMigrations
    <3>1. PICK c \in CPU :
            /\ Due(c, todo)
            /\ \/ ReadStatus(UselessMigrations, c)
               \/ WriteStatus(UselessMigrations, c)
      BY <2>10 DEF ChangeMigrations, change_cpus_status
    <3>2. CASE ReadStatus(UselessMigrations, c)
      <4>1. CASE c = 0
        BY <2>10, <3>1, <3>2, <4>1
        DEF ChangeMigrations, ReadStatus, flags, reports, Due
      <4>2. CASE c # 0
        <5>1. status[c] = 0 /\ cpu_status[UselessMigrations][c] = 0
          BY <2>10, <4>2 DEF ChangeMigrations
        <5>2. NewStatus(status[c], cpu_status[UselessMigrations][c]) = 0
          BY <5>1 DEF NewStatus
        <5> QED BY <2>10, <3>2, <5>1, <5>2
               DEF ChangeMigrations, ReadStatus, flags, reports
      <4> QED BY <4>1, <4>2
    <3>3. CASE WriteStatus(UselessMigrations, c)
      <4>1. c = 0
        BY <2>10, <3>1, <3>3 DEF ChangeMigrations, WriteStatus, Due
      <4>2. \A d \in CPU \ {0} : cpu_status'[UselessMigrations][d] =
                                 cpu_status[UselessMigrations][d]
        BY <3>3, <4>1 DEF TypeOK, WriteStatus, change_cpu_status
      <4> QED BY <2>10, <3>3, <4>2 DEF ChangeMigrations, WriteStatus, flags
    <3> QED BY <3>1, <3>2, <3>3
  <2>11. CASE TimerRestarts BY <2>11 DEF TimerRestarts, flags, reports
  <2> QED BY <2>1, <2>2, <2>3, <2>4, <2>5, <2>6, <2>7, <2>8, <2>9, <2>10,
             <2>11
         DEF Next, Checker, vars, flags, locals, reports
<1>3. AuditInv => OnlyCpu0Audited OBVIOUS
<1> QED BY <1>1, <1>2, <1>3, TypeCorrect, PendingWriteInvariant, PTL DEF Spec

-----------------------------------------------------------------------------
(***************************************************************************)
(* Blame.  While the scan runs, whoever it counts as idle has been seen    *)
(* idle.  When it ends, idle_rounds grows for those CPUs, so each of them  *)
(* is one round ahead of its status (Ahead); from then until the status is *)
(* recorded only such CPUs are still to be visited, or have a status that  *)
(* adds to what is recorded.                                               *)
(***************************************************************************)
Behind(c) == cpu_status[IdleOverloaded][c] <= idle_rounds[c]

Ahead(c) == /\ idle_rounds[c] >= 1
            /\ Inc(cpu_status[IdleOverloaded][c]) <= idle_rounds[c]

IdleSeen == IF pc = "scan" THEN idle_cpus \subseteq seen_idle
                           ELSE idle_cpus = {}

StatusBacked ==
  /\ pc \in {"sleep", "scan"} => status = ClearedStatus
  /\ pc = "pairs" => \A p \in todo : Ahead(p[2])
  /\ pc \in {"pairs", "change_idle"} => \A c \in CPU : status[c] # Buggy
  /\ pc = "pairs" => \A c \in CPU : status[c] # NotBuggy => Ahead(c)
  /\ pc = "change_idle" =>
       \A c \in todo : status[c] # NotBuggy => Ahead(c)

WriteBacked ==
  pc = "change_idle" /\ new_status # NoWrite =>
    \A c \in CPU : Due(c, todo) => new_status <= idle_rounds[c]

BlameInv == BlamedOnlyIfIdle /\ IdleSeen /\ StatusBacked /\ WriteBacked

blame == <<pc, todo, idle_cpus, status, new_status, cpu_status>>

\* Without a step of the tasklet, the set of the CPUs seen idle only grows.
LEMMA BlameEnvStep ==
  ASSUME TypeOK, BlameInv, UNCHANGED blame,
         \/ UNCHANGED history
         \/ Remember
  PROVE  BlameInv'
<1>1. UNCHANGED idle_rounds
  BY DEF blame, history, Remember
<1>2. pc = "scan" => seen_idle \subseteq seen_idle'
  BY DEF blame, history, Remember
<1> QED BY <1>1, <1>2 DEF BlameInv, BlamedOnlyIfIdle, IdleSeen, StatusBacked,
           WriteBacked, Ahead, blame

\* One step of recording invariant 1 leaves the CPU it visited behind.
LEMMA BlameRecordStep ==
  ASSUME TypeOK, PendingWrite, BlameInv, ChangeIdle, UNCHANGED idle_rounds
  PROVE  BlameInv'
<1> USE BuggyAssumption DEF TypeOK, BlameInv, ChangeIdle
<1>1. PICK c \in CPU : /\ Due(c, todo)
                       /\ \/ ReadStatus(IdleOverloaded, c)
                          \/ WriteStatus(IdleOverloaded, c)
  BY DEF change_cpus_status
<1>2. c \in todo /\ \A d \in todo : c <= d BY <1>1 DEF Due
<1> DEFINE old == cpu_status[IdleOverloaded][c]
           s   == NewStatus(status[c], old)
<1>3. status[c] # NotBuggy => Ahead(c) BY <1>2 DEF StatusBacked
<1>4. status[c] # Buggy BY DEF StatusBacked
<1>5. s <= idle_rounds[c]
  BY <1>3, <1>4 DEF NewStatus, Ahead
<1>6. CASE ReadStatus(IdleOverloaded, c)
  <2>1. UNCHANGED <<cpu_status, idle_rounds, pc, idle_cpus, status>>
    BY <1>6 DEF ReadStatus, reports
  <2>2. CASE UNCHANGED todo /\ new_status' = s
    <3>1. WriteBacked'
      BY <1>2, <1>5, <2>2, <2>1 DEF WriteBacked, Due
    <3> QED BY <2>1, <2>2, <3>1
            DEF BlamedOnlyIfIdle, IdleSeen, StatusBacked, Ahead
  <2>3. CASE todo' = todo \ {c} /\ s = old /\ UNCHANGED new_status
    <3>1. new_status' = NoWrite BY <1>6, <2>3 DEF ReadStatus
    <3>2. BlamedOnlyIfIdle'
      BY <1>5, <2>1, <2>3 DEF BlamedOnlyIfIdle
    <3>3. StatusBacked' BY <2>1, <2>3 DEF StatusBacked, Ahead
    <3> QED BY <2>1, <3>1, <3>2, <3>3 DEF IdleSeen, WriteBacked
  <2> QED BY <1>6, <2>2, <2>3 DEF ReadStatus
<1>7. CASE WriteStatus(IdleOverloaded, c)
  <2>1. new_status <= idle_rounds[c]
    BY <1>1, <1>7 DEF WriteBacked, WriteStatus
  <2>2. /\ cpu_status' = [cpu_status EXCEPT ![IdleOverloaded][c] = new_status]
        /\ todo' = todo \ {c}
        /\ new_status' = NoWrite
        /\ UNCHANGED <<pc, idle_cpus, status, idle_rounds>>
    BY <1>7 DEF WriteStatus, change_cpu_status
  <2>3. /\ cpu_status'[IdleOverloaded][c] = new_status
        /\ \A d \in CPU \ {c} : cpu_status'[IdleOverloaded][d] =
                              cpu_status[IdleOverloaded][d]
    BY <2>2
  <2>4. BlamedOnlyIfIdle' BY <2>1, <2>2, <2>3 DEF BlamedOnlyIfIdle
  <2>5. StatusBacked'
    <3> SUFFICES ASSUME NEW d \in todo', status[d] # NotBuggy
                 PROVE  Ahead(d)'
      BY <2>2 DEF StatusBacked
    <3> QED BY <2>2, <2>3 DEF StatusBacked, Ahead
  <2> QED BY <2>2, <2>4, <2>5 DEF IdleSeen, WriteBacked
<1> QED BY <1>1, <1>6, <1>7

\* A step of the tasklet keeps the invariant.
LEMMA BlameCheckerStep ==
  ASSUME TypeOK, PendingWrite, BlameInv, Checker, Remember
  PROVE  BlameInv'
<1> USE BuggyAssumption DEF TypeOK, BlameInv
<1>0. ~(pc = "scan" /\ pc' # "scan") => UNCHANGED idle_rounds
  BY DEF Remember
<1>1. CASE TimerFires
  BY <1>0, <1>1 DEF TimerFires, locals, reports, BlamedOnlyIfIdle, IdleSeen,
     StatusBacked, WriteBacked
<1>2. CASE ScanCpu
  <2>1. PICK c \in CPU : ScanCpu!2!(c) BY <1>2 DEF ScanCpu
  <2>2. nr_running(c) = 0 => c \in Idle'
    <3>1. IsFiniteSet(rq[c]) BY TaskAssumption, FS_Subset
    <3>2. nr_running(c) = 0 => rq[c] = {}
      BY <3>1, FS_EmptySet DEF nr_running
    <3>3. UNCHANGED rq BY <1>2 DEF ScanCpu, env
    <3> QED BY <3>2, <3>3 DEF Idle
  <2>3. seen_idle' = seen_idle \cup Idle' BY <1>2 DEF ScanCpu, Remember
  <2>4. IdleSeen' BY <1>2, <2>1, <2>2, <2>3 DEF ScanCpu, IdleSeen
  <2> QED BY <1>0, <1>2, <2>4 DEF ScanCpu, reports, BlamedOnlyIfIdle,
             StatusBacked, WriteBacked
<1>3. CASE ScanDone
  <2>1. \A c \in CPU : Behind(c)
    BY <1>3 DEF ScanDone, BlamedOnlyIfIdle, Behind
  <2>2. \A c \in seen_idle : Ahead(c)'
    <3> SUFFICES ASSUME NEW c \in seen_idle PROVE Ahead(c)' OBVIOUS
    <3>1. c \in CPU /\ idle_rounds'[c] = Inc(idle_rounds[c])
      BY <1>3 DEF ScanDone, Remember
    <3>2. UNCHANGED cpu_status BY <1>3 DEF ScanDone, reports
    <3>3. cpu_status[IdleOverloaded][c] \in 0 .. MaxStatus
          /\ idle_rounds[c] \in 0 .. MaxStatus
      BY <3>1
    <3> QED BY <2>1, <3>1, <3>2, <3>3 DEF Behind, Ahead, Inc
  <2>3. \A p \in todo' : p[2] \in seen_idle
    BY <1>3 DEF ScanDone, IdleSeen
  <2>4. StatusBacked'
    <3>1. \A p \in todo' : Ahead(p[2])' BY <2>2, <2>3 DEF Ahead
    <3>2. UNCHANGED status /\ status = ClearedStatus /\ pc' = "pairs"
      BY <1>3 DEF ScanDone, StatusBacked
    <3> QED BY <3>1, <3>2 DEF StatusBacked, ClearedStatus, Ahead
  <2> QED BY <1>3, <2>4 DEF ScanDone, IdleSeen, BlamedOnlyIfIdle, WriteBacked
<1>4. CASE CheckPair
  <2>1. PICK cpu1 \in CPU, cpu2 \in CPU : CheckPair!2!(cpu1, cpu2)
    BY <1>4 DEF CheckPair
  <2>2. Ahead(cpu2)
    <3>1. <<cpu1, cpu2>> \in todo BY <2>1 DEF DuePair
    <3> QED BY <1>4, <3>1 DEF CheckPair, StatusBacked
  <2>3. \A c \in CPU : status'[c] # status[c] =>
          c = cpu2 /\ status'[c] \in {MaybeBuggy, ResetBugginess}
    BY <2>1
  <2>4. UNCHANGED <<cpu_status, idle_rounds, pc, idle_cpus>>
    BY <1>0, <1>4 DEF CheckPair, reports
  <2>5. StatusBacked'
    BY <1>4, <2>1, <2>2, <2>3, <2>4 DEF CheckPair, StatusBacked, Ahead
  <2> QED BY <1>4, <2>4, <2>5
          DEF CheckPair, IdleSeen, BlamedOnlyIfIdle, WriteBacked
<1>5. CASE ClearSteals
  BY <1>0, <1>5 DEF ClearSteals, locals, reports, IdleSeen, BlamedOnlyIfIdle,
     StatusBacked, WriteBacked, PendingWrite, Recording, Ahead
<1>6. CASE ChangeIdle
  BY <1>0, <1>6, BlameRecordStep DEF ChangeIdle
<1>7. CASE ChangeIdleDone
  BY <1>0, <1>7 DEF ChangeIdleDone, reports, IdleSeen, BlamedOnlyIfIdle,
     StatusBacked, WriteBacked
<1>8. CASE ScanMigrations
  BY <1>0, <1>8 DEF ScanMigrations, reports, IdleSeen, BlamedOnlyIfIdle,
     StatusBacked, WriteBacked
<1>9. CASE ClearBuggyMigrations
  BY <1>0, <1>9 DEF ClearBuggyMigrations, locals, reports, IdleSeen,
     BlamedOnlyIfIdle, StatusBacked, WriteBacked
<1>10. CASE ArmMigrations
  BY <1>0, <1>10 DEF ArmMigrations, locals, reports, IdleSeen,
     BlamedOnlyIfIdle, StatusBacked, WriteBacked
<1>11. CASE ChangeMigrations
  <2>1. \A d \in CPU : cpu_status'[IdleOverloaded][d] =
                       cpu_status[IdleOverloaded][d]
    BY <1>11 DEF ChangeMigrations, change_cpus_status, ReadStatus,
       WriteStatus, change_cpu_status, reports
  <2> QED BY <1>0, <1>11, <2>1 DEF ChangeMigrations, IdleSeen,
             BlamedOnlyIfIdle, StatusBacked, WriteBacked
<1>12. CASE TimerRestarts
  BY <1>0, <1>12 DEF TimerRestarts, reports, IdleSeen, BlamedOnlyIfIdle,
     StatusBacked, WriteBacked
<1> QED BY <1>1, <1>2, <1>3, <1>4, <1>5, <1>6, <1>7, <1>8, <1>9, <1>10,
           <1>11, <1>12 DEF Checker

\* A CPU is never blamed for more rounds than it was idle in, however the
\* checker's unlocked reads interleave with wakeups and migrations, as long as
\* no user writes a status.
THEOREM BlamedOnlyIfIdleTheorem ==
  ASSUME UserStatus = {} PROVE Spec => []BlamedOnlyIfIdle
<1>1. Init => BlameInv
  BY BuggyAssumption
  DEF Init, BlameInv, BlamedOnlyIfIdle, IdleSeen, StatusBacked, WriteBacked,
      ClearedStatus
<1>2. TypeOK /\ PendingWrite /\ BlameInv /\ [Next]_vars => BlameInv'
  <2> SUFFICES ASSUME TypeOK, PendingWrite, BlameInv, [Next]_vars
               PROVE  BlameInv'
    OBVIOUS
  <2>1. CASE UNCHANGED vars
    <3>1. UNCHANGED blame /\ UNCHANGED history
      BY <2>1 DEF vars, blame, locals, reports
    <3> QED BY <3>1, BlameEnvStep
  <2>2. CASE Scheduler /\ Remember
    <3>1. UNCHANGED blame
      BY <2>2 DEF Scheduler, WakeUp, Block, AttachTask, DetachTask,
         DetachAudited, DetachSteal, DetachMove, checker, blame, locals,
         reports
    <3> QED BY <2>2, <3>1, BlameEnvStep
  <2>3. CASE Checker /\ Remember BY <2>3, BlameCheckerStep
  <2>4. ~ProcWrite BY DEF ProcWrite
  <2> QED BY <2>1, <2>2, <2>3, <2>4 DEF Next
<1>3. BlameInv => BlamedOnlyIfIdle BY DEF BlameInv
<1> QED BY <1>1, <1>2, <1>3, TypeCorrect, PendingWriteInvariant, PTL DEF Spec

-----------------------------------------------------------------------------
(***************************************************************************)
(* What the scan cannot miss.  A pair of CPUs stuck since the timer fired  *)
(* is classified as such by the scan (ScanCatches), so the pair is visited *)
(* and leaves the idle CPU a status (PairCatches), and each turn of the    *)
(* recording loop, its pending write included, makes a recorded status of  *)
(* that (RecordCatches).                                                   *)
(***************************************************************************)
ScanCatches ==
  pc = "scan" => \A c, d \in CPU : <<c, d>> \in lasting =>
    /\ Stuck(c, d)
    /\ c \notin todo => c \in idle_cpus
    /\ d \notin todo => d \in overload_cpus

PairCatches ==
  pc = "pairs" => \A c, d \in CPU : <<c, d>> \in lasting =>
    /\ Stuck(c, d)
    /\ <<d, c>> \notin todo => status[c] # NotBuggy

RecordCatches ==
  pc = "change_idle" /\ new_status # NoWrite =>
    \A c \in CPU : Due(c, todo) /\ status[c] # NotBuggy
                     => new_status # NotBuggy

LastingInv ==
  ScanCatches /\ PairCatches /\ RecordCatches /\ LastingViolationSeen

\* Without a step of the tasklet, pairs only ever leave lasting, and those
\* that are no longer stuck do.
LEMMA LastingEnvStep ==
  ASSUME LastingInv, UNCHANGED blame, UNCHANGED overload_cpus,
         \/ UNCHANGED <<rq, lasting>>
         \/ Remember
  PROVE  LastingInv'
<1>1. CASE UNCHANGED <<rq, lasting>>
  BY <1>1 DEF LastingInv, ScanCatches, PairCatches, RecordCatches,
     LastingViolationSeen, Stuck, nr_running, Due, blame
<1>2. CASE Remember
  <2>1. pc \in {"scan", "pairs"} => lasting' = lasting \cap StuckPairs'
    BY <1>2 DEF Remember, blame
  <2>2. pc = "change_idle" => UNCHANGED lasting
    BY <1>2 DEF Remember, blame
  <2>3. \A c, d \in CPU : <<c, d>> \in StuckPairs' => Stuck(c, d)'
    BY DEF StuckPairs
  <2>4. ScanCatches' BY <2>1, <2>3 DEF LastingInv, ScanCatches, blame
  <2>5. PairCatches' BY <2>1, <2>3 DEF LastingInv, PairCatches, blame
  <2>6. RecordCatches' BY DEF LastingInv, RecordCatches, Due, blame
  <2>7. LastingViolationSeen'
    BY <2>2 DEF LastingInv, LastingViolationSeen, blame
  <2> QED BY <2>4, <2>5, <2>6, <2>7 DEF LastingInv
<1> QED BY <1>1, <1>2

\* change_cpus_status never makes NOT_BUGGY of a status found.
LEMMA NewStatusRecorded ==
  ASSUME NEW s \in {MaybeBuggy, ResetBugginess, Buggy},
         NEW old \in 0 .. MaxStatus
  PROVE  NewStatus(s, old) # NotBuggy
  BY BuggyAssumption DEF NewStatus, Inc

\* One step of recording leaves no status found unrecorded behind it.
LEMMA LastingRecordStep ==
  ASSUME TypeOK, LastingInv, ChangeIdle, UNCHANGED lasting
  PROVE  LastingInv'
<1> USE DEF TypeOK, LastingInv, ChangeIdle
<1>1. PICK c \in CPU : /\ Due(c, todo)
                       /\ \/ ReadStatus(IdleOverloaded, c)
                          \/ WriteStatus(IdleOverloaded, c)
  BY DEF change_cpus_status
<1> DEFINE old == cpu_status[IdleOverloaded][c]
           s   == NewStatus(status[c], old)
<1>2. status[c] # NotBuggy => s # NotBuggy
  BY NewStatusRecorded
<1>3. pc' = "change_idle" /\ UNCHANGED status OBVIOUS
<1>4. ScanCatches' /\ PairCatches' BY <1>3 DEF ScanCatches, PairCatches
<1>5. \A d \in CPU : Due(d, todo) => d = c BY <1>1 DEF Due
<1>6. CASE ReadStatus(IdleOverloaded, c)
  <2>1. UNCHANGED cpu_status BY <1>6 DEF ReadStatus, reports
  <2>2. CASE UNCHANGED todo /\ new_status' = s
    <3>1. RecordCatches' BY <1>2, <1>3, <1>5, <2>2 DEF RecordCatches, Due
    <3> QED BY <1>4, <2>1, <2>2, <3>1 DEF LastingViolationSeen
  <2>3. CASE todo' = todo \ {c} /\ s = old /\ UNCHANGED new_status
    <3>1. new_status' = NoWrite BY <1>6, <2>3 DEF ReadStatus
    <3>2. LastingViolationSeen'
      BY <1>2, <2>1, <2>3 DEF LastingViolationSeen
    <3> QED BY <1>4, <3>1, <3>2 DEF RecordCatches
  <2> QED BY <1>6, <2>2, <2>3 DEF ReadStatus
<1>7. CASE WriteStatus(IdleOverloaded, c)
  <2>1. status[c] # NotBuggy => new_status # NotBuggy
    BY <1>1, <1>7 DEF RecordCatches, WriteStatus
  <2>2. /\ cpu_status' = [cpu_status EXCEPT ![IdleOverloaded][c] = new_status]
        /\ todo' = todo \ {c}
        /\ new_status' = NoWrite
    BY <1>7 DEF WriteStatus, change_cpu_status
  <2>3. /\ cpu_status'[IdleOverloaded][c] = new_status
        /\ \A d \in CPU \ {c} : cpu_status'[IdleOverloaded][d] =
                                cpu_status[IdleOverloaded][d]
    BY <2>2
  <2>4. LastingViolationSeen'
    BY <2>1, <2>2, <2>3 DEF LastingViolationSeen
  <2> QED BY <1>4, <2>2, <2>4 DEF RecordCatches
<1> QED BY <1>1, <1>6, <1>7

\* A step of the tasklet keeps the invariant.
LEMMA LastingCheckerStep ==
  ASSUME TypeOK, PendingWrite, LastingInv, Checker, Remember
  PROVE  LastingInv'
<1> USE DEF LastingInv, ScanCatches, PairCatches, RecordCatches,
            LastingViolationSeen
<1>1. \A c, d \in CPU : <<c, d>> \in StuckPairs' => Stuck(c, d)'
  BY DEF StuckPairs
<1>2. CASE TimerFires
  <2>1. lasting' = StuckPairs' BY <1>2 DEF TimerFires, Remember
  <2> QED BY <1>1, <1>2, <2>1 DEF TimerFires
<1>3. CASE ScanCpu
  <2>1. PICK e \in CPU : ScanCpu!2!(e) BY <1>3 DEF ScanCpu
  <2>2. pc = "scan" /\ pc' = "scan" /\ UNCHANGED rq
    BY <1>3 DEF ScanCpu, env
  <2>3. lasting' = lasting \cap StuckPairs' BY <2>2 DEF Remember
  <2>4. \A c, d \in CPU : Stuck(c, d) =>
          nr_running(c) = 0 /\ nr_running(d) >= 2
    BY FS_EmptySet DEF Stuck, nr_running
  <2>5. ScanCatches'
    <3> SUFFICES ASSUME NEW c \in CPU, NEW d \in CPU, <<c, d>> \in lasting'
                 PROVE  /\ Stuck(c, d)'
                        /\ c \notin todo' => c \in idle_cpus'
                        /\ d \notin todo' => d \in overload_cpus'
      OBVIOUS
    <3>1. Stuck(c, d) /\ Stuck(c, d)' BY <1>1, <2>2, <2>3
    <3>2. /\ c \notin todo => c \in idle_cpus
          /\ d \notin todo => d \in overload_cpus
      BY <2>2, <2>3
    <3>3. nr_running(c) = 0 /\ nr_running(d) >= 2 BY <2>4, <3>1
    <3>4. c \notin todo' => c \in idle_cpus' BY <2>1, <3>2, <3>3
    <3>5. d \notin todo' => d \in overload_cpus' BY <2>1, <3>2, <3>3
    <3> QED BY <3>1, <3>4, <3>5
  <2> QED BY <2>2, <2>5
<1>4. CASE ScanDone
  <2>1. pc = "scan" /\ pc' = "pairs" /\ todo = {} BY <1>4 DEF ScanDone
  <2>2. lasting' = lasting \cap StuckPairs' BY <2>1 DEF Remember
  <2>3. \A c, d \in CPU : <<c, d>> \in lasting' => <<d, c>> \in todo'
    BY <1>4, <2>1, <2>2 DEF ScanDone
  <2> QED BY <1>1, <2>1, <2>2, <2>3
<1>5. CASE CheckPair
  <2>1. PICK cpu1 \in CPU, cpu2 \in CPU : CheckPair!2!(cpu1, cpu2)
    BY <1>5 DEF CheckPair
  <2>2. pc = "pairs" /\ pc' = "pairs" BY <1>5 DEF CheckPair
  <2>3. lasting' = lasting \cap StuckPairs' BY <2>2 DEF Remember
  <2>4. \A c \in CPU : status[c] # NotBuggy => status'[c] # NotBuggy
    BY <2>1 DEF TypeOK
  <2>5. Stuck(cpu2, cpu1) => status'[cpu2] # NotBuggy
    BY <2>1 DEF TypeOK, Stuck
  <2>6. ASSUME NEW c \in CPU, NEW d \in CPU, <<c, d>> \in lasting',
               <<d, c>> \notin todo'
        PROVE  status'[c] # NotBuggy
    <3>1. Stuck(c, d) /\ (<<d, c>> \notin todo => status[c] # NotBuggy)
      BY <2>2, <2>3, <2>6
    <3>2. <<d, c>> \notin todo \/ <<d, c>> = <<cpu1, cpu2>>
      BY <2>1, <2>6
    <3> QED BY <2>4, <2>5, <3>1, <3>2
  <2> QED BY <1>1, <2>2, <2>3, <2>6
<1>6. CASE ClearSteals
  <2>1. /\ pc = "pairs" /\ todo = {} /\ pc' = "change_idle" /\ todo' = CPU
        /\ UNCHANGED <<status, new_status>>
    BY <1>6 DEF ClearSteals, locals
  <2>2. lasting' = lasting BY <2>1 DEF Remember
  <2>3. new_status' = NoWrite BY <2>1 DEF PendingWrite, Recording
  <2> QED BY <2>1, <2>2, <2>3
<1>7. CASE ChangeIdle
  <2>1. UNCHANGED lasting BY <1>7 DEF ChangeIdle, Remember
  <2> QED BY <1>7, <2>1, LastingRecordStep
<1>8. CASE \/ ChangeIdleDone \/ ScanMigrations \/ ClearBuggyMigrations
           \/ ArmMigrations \/ ChangeMigrations \/ TimerRestarts
  <2>1. pc' \notin {"scan", "pairs", "change_idle"}
    BY <1>8 DEF ChangeIdleDone, ScanMigrations, ClearBuggyMigrations,
       ArmMigrations, ChangeMigrations, TimerRestarts
  <2> QED BY <2>1
<1> QED BY <1>2, <1>3, <1>4, <1>5, <1>6, <1>7, <1>8 DEF Checker

\* A violation of invariant 1 that lasts from the timer's firing to the last
\* pair checked is found and recorded, though the checker takes no lock and
\* looks at one CPU at a time: for any number of CPUs and tasks, as long as no
\* user writes a status.
THEOREM LastingViolationSeenTheorem ==
  ASSUME UserStatus = {} PROVE Spec => []LastingViolationSeen
<1>1. Init => LastingInv
  BY DEF Init, LastingInv, ScanCatches, PairCatches, RecordCatches,
     LastingViolationSeen
<1>2. TypeOK /\ PendingWrite /\ LastingInv /\ [Next]_vars => LastingInv'
  <2> SUFFICES ASSUME TypeOK, PendingWrite, LastingInv, [Next]_vars
               PROVE  LastingInv'
    OBVIOUS
  <2>1. CASE UNCHANGED vars
    <3>1. UNCHANGED blame /\ UNCHANGED <<overload_cpus, rq, lasting>>
      BY <2>1 DEF vars, env, blame, locals, reports, history
    <3> QED BY <3>1, LastingEnvStep
  <2>2. CASE Scheduler /\ Remember
    <3>1. UNCHANGED blame /\ UNCHANGED overload_cpus
      BY <2>2 DEF Scheduler, WakeUp, Block, AttachTask, DetachTask,
         DetachAudited, DetachSteal, DetachMove, checker, blame, locals,
         reports
    <3> QED BY <2>2, <3>1, LastingEnvStep
  <2>3. CASE Checker /\ Remember BY <2>3, LastingCheckerStep
  <2>4. ~ProcWrite BY DEF ProcWrite
  <2> QED BY <2>1, <2>2, <2>3, <2>4 DEF Next
<1>3. LastingInv => LastingViolationSeen BY DEF LastingInv
<1> QED BY <1>1, <1>2, <1>3, TypeCorrect, PendingWriteInvariant, PTL DEF Spec
=============================================================================
