------------------------- MODULE SelectTaskRqProofs -------------------------
(***************************************************************************)
(* Theorems about SelectTaskRq: for any number of CPUs and tasks, however  *)
(* wakeups, blocking and idle stamps interleave with the unlocked loop,    *)
(* the CPU chosen was idle during the call and no CPU idle throughout it   *)
(* is missed.                                                              *)
(***************************************************************************)
EXTENDS SelectTaskRq, TLAPS

USE NrCpusAssumption, AffinitiesAssumption, MaxTimeAssumption

PrevCall   == [pc : {"prev"}]
ScanCall   == [pc : {"scan", "stamp"}, todo : SUBSET CPU,
               oldest_idle_stamp : 0 .. NoStamp, oldest_idle_stamp_cpu : CPU]
ChosenCall == [pc : {"chosen"}, new_cpu : CPU, by : {"prev", "stamp", "kernel"}]

Scanning(t) == At(t, "scan") \/ At(t, "stamp")

Step(t) == \/ WakeUp(t) \/ TestPrev(t) \/ ScanCpu(t) \/ ScanStamp(t)
           \/ ScanDone(t) \/ Enqueue(t) \/ SetAffinity(t)

\* The record of a call has the fields its pc says.
LEMMA CallCases ==
  ASSUME NEW c \in Call
  PROVE  /\ c = Out \/ c \in PrevCall \/ c \in ScanCall \/ c \in ChosenCall
         /\ c.pc \in {"scan", "stamp"} => c \in ScanCall
         /\ c.pc = "chosen" => c \in ChosenCall
  BY DEF Call, Out, PrevCall, ScanCall, ChosenCall

\* The kinds of calls are calls.
LEMMA CallIn ==
  /\ Out \in Call
  /\ PrevCall \subseteq Call
  /\ ScanCall \subseteq Call
  /\ ChosenCall \subseteq Call
  BY DEF Call, Out, PrevCall, ScanCall, ChosenCall

\* The histories only ever hold CPUs.
LEMMA RememberTyped ==
  ASSUME TypeOK, Remember
  PROVE  /\ idle_since' \in [Task -> SUBSET CPU]
         /\ idle_once' \in [Task -> SUBSET CPU]
  <1> DEFINE Since(t) == CASE Choosing(t)  -> idle_since[t] \cap IdleCPUs'
                           [] At(t, "out") -> IF Choosing(t)' THEN IdleCPUs' ELSE {}
                           [] OTHER        -> idle_since[t]
             Once(t) == CASE Choosing(t)  -> idle_once[t] \cup IdleCPUs'
                          [] At(t, "out") -> IF Choosing(t)' THEN IdleCPUs' ELSE {}
                          [] OTHER        -> idle_once[t]
  <1>1. /\ idle_since' = [t \in Task |-> Since(t)]
        /\ idle_once' = [t \in Task |-> Once(t)]
    BY DEF Remember
  <1>2. ASSUME NEW t \in Task
        PROVE  Since(t) \in SUBSET CPU /\ Once(t) \in SUBSET CPU
    BY DEF TypeOK, IdleCPUs
  <1> HIDE DEF Since, Once
  <1> QED BY <1>1, <1>2

\* A step of one task gives its call a value of the type.
LEMMA StepTyped ==
  ASSUME TypeOK, NEW t \in Task, Step(t)
  PROVE  /\ rq' \in [CPU -> SUBSET Task]
         /\ idle_stamp' \in [CPU -> 0 .. MaxTime]
         /\ clock' \in 1 .. MaxTime + 1
         /\ allowed' \in [Task -> Affinities]
         /\ prev_cpu' \in [Task -> CPU]
         /\ call' \in [Task -> Call]
  <1> USE DEF TypeOK, At
  <1>0. call[t] \in Call
    OBVIOUS
  <1>1. CASE WakeUp(t)
    <2>1. [pc |-> "prev"] \in Call
      BY DEF Call
    <2> QED BY <1>1, <2>1 DEF WakeUp, queues
  <1>2. CASE TestPrev(t)
    <2>1. \A b \in {"prev", "stamp", "kernel"}, c \in CPU :
            [pc |-> "chosen", new_cpu |-> c, by |-> b] \in Call
      BY CallIn DEF ChosenCall
    <2>2. [pc |-> "scan", todo |-> CPU, oldest_idle_stamp |-> NoStamp,
           oldest_idle_stamp_cpu |-> prev_cpu[t]] \in Call
      BY CallIn DEF ScanCall, NoStamp
    <2> QED BY <1>2, <2>1, <2>2 DEF TestPrev, Choose, Scan, queues
  <1>3. CASE ScanCpu(t)
    <2>1. call[t] \in ScanCall
      BY <1>3, <1>0, CallCases DEF ScanCpu
    <2>2. /\ [call[t] EXCEPT !.pc = "stamp"] \in ScanCall
          /\ \A c \in CPU : [call[t] EXCEPT !.todo = @ \ {c}] \in ScanCall
      BY <2>1 DEF ScanCall
    <2>3. PICK c \in CPU :
            call' = IF PassedOver(t, c) THEN [call EXCEPT ![t].todo = @ \ {c}]
                                        ELSE [call EXCEPT ![t].pc = "stamp"]
      BY <1>3 DEF ScanCpu
    <2>4. PICK k \in ScanCall : call' = [call EXCEPT ![t] = k]
      BY <2>2, <2>3
    <2> QED BY <1>3, <2>4, CallIn DEF ScanCpu, queues
  <1>4. CASE ScanStamp(t)
    <2>1. call[t] \in ScanCall
      BY <1>4, <1>0, CallCases DEF ScanStamp
    <2>2. \A c, d \in CPU, s \in 0 .. NoStamp :
            [pc |-> "scan", todo |-> call[t].todo \ {c},
             oldest_idle_stamp |-> s, oldest_idle_stamp_cpu |-> d] \in ScanCall
      BY <2>1 DEF ScanCall
    <2>3. /\ \A c \in CPU : idle_stamp[c] \in 0 .. NoStamp
          /\ call[t].oldest_idle_stamp \in 0 .. NoStamp
          /\ call[t].oldest_idle_stamp_cpu \in CPU
      BY <2>1 DEF ScanCall, NoStamp
    <2> QED BY <1>4, <2>2, <2>3, CallIn DEF ScanStamp, Scan, queues
  <1>5. CASE ScanDone(t)
    <2>1. call[t] \in ScanCall
      BY <1>5, <1>0, CallCases DEF ScanDone
    <2>2. \A b \in {"prev", "stamp", "kernel"}, c \in CPU :
            [pc |-> "chosen", new_cpu |-> c, by |-> b] \in Call
      BY CallIn DEF ChosenCall
    <2>3. call[t].oldest_idle_stamp_cpu \in CPU
      BY <2>1 DEF ScanCall
    <2> QED BY <1>5, <2>2, <2>3 DEF ScanDone, Choose, queues
  <1>6. CASE Enqueue(t)
    <2>1. PICK c \in allowed[t] :
            /\ rq' = [rq EXCEPT ![c] = @ \cup {t}]
            /\ idle_stamp' = [idle_stamp EXCEPT ![c] = 0]
            /\ prev_cpu' = [prev_cpu EXCEPT ![t] = c]
      BY <1>6 DEF Enqueue
    <2>2. c \in CPU
      OBVIOUS
    <2> QED BY <1>6, <2>1, <2>2, CallIn DEF Enqueue
  <1>7. CASE SetAffinity(t)
    BY <1>7 DEF SetAffinity, queues
  <1> QED BY <1>1, <1>2, <1>3, <1>4, <1>5, <1>6, <1>7 DEF Step

\* The two halves of TypeCorrect.
LEMMA InitTyped == Init => TypeOK
  BY CallIn DEF Init, TypeOK

LEMMA NextTyped == TypeOK /\ [Next]_vars => TypeOK'
  <1> SUFFICES ASSUME TypeOK, [Next]_vars
               PROVE  TypeOK'
    OBVIOUS
  <1>1. CASE Remember /\ \E t \in Task : Step(t)
    BY <1>1, StepTyped, RememberTyped DEF TypeOK
  <1>2. CASE Remember /\ \E t \in Task, c \in CPU : Block(t, c)
    BY <1>2, RememberTyped DEF TypeOK, Block
  <1>3. CASE Remember /\ \E c \in CPU : GoIdle(c)
    BY <1>3, RememberTyped DEF TypeOK, GoIdle
  <1>4. CASE UNCHANGED vars
    BY <1>4 DEF vars, queues, history, TypeOK
  <1> QED BY <1>1, <1>2, <1>3, <1>4 DEF Next, Step

\* The types of the wakeup path's state hold in every reachable state.
THEOREM TypeCorrect == Spec => []TypeOK
  BY InitTyped, NextTyped, PTL DEF Spec

-----------------------------------------------------------------------------
(***************************************************************************)
(* What the loop knows.                                                    *)
(***************************************************************************)
\* About the CPUs it has visited: none that stayed idle has an older stamp,
\* and the one kept was idle and is allowed.
Kept(t) ==
  Scanning(t) =>
    /\ \A c \in (idle_since[t] \cap allowed[t]) \ call[t].todo :
         call[t].oldest_idle_stamp <= idle_stamp[c]
    /\ call[t].oldest_idle_stamp # NoStamp =>
         call[t].oldest_idle_stamp_cpu \in idle_once[t] \cap allowed[t]

\* About the CPU whose stamp it reads next.
Passed(t) ==
  At(t, "stamp") =>
    \A c \in CPU : Due(c, call[t].todo) => c \in idle_once[t] \cap allowed[t]

\* About its choice.
Chosen(t) ==
  At(t, "chosen") =>
    /\ call[t].by # "kernel" => call[t].new_cpu \in idle_once[t]
    /\ call[t].by = "stamp" => call[t].new_cpu \in allowed[t]
    /\ call[t].by = "kernel" => idle_since[t] \cap allowed[t] = {}

LoopInv == \A t \in Task : Kept(t) /\ Passed(t) /\ Chosen(t)

\* How a step changes the histories of a call in progress, or made.
LEMMA Histories ==
  ASSUME TypeOK, Remember, NEW t \in Task
  PROVE  /\ Choosing(t) => /\ idle_since'[t] = idle_since[t] \cap IdleCPUs'
                          /\ idle_once'[t] = idle_once[t] \cup IdleCPUs'
         /\ At(t, "chosen") => /\ idle_since'[t] = idle_since[t]
                              /\ idle_once'[t] = idle_once[t]
  BY DEF Remember, Choosing, At

\* What other tasks and CPUs do leaves a call's knowledge intact: a stamp is
\* only reset when its CPU is given a task.
LEMMA Undisturbed ==
  ASSUME TypeOK, TypeOK', Remember, NEW t \in Task,
         Kept(t), Passed(t), Chosen(t),
         call'[t] = call[t], allowed'[t] = allowed[t] \/ At(t, "out"),
         \A c \in IdleCPUs' : idle_stamp[c] <= idle_stamp'[c]
  PROVE  Kept(t)' /\ Passed(t)' /\ Chosen(t)'
  <1>1. CASE Scanning(t)
    <2>1. /\ idle_since'[t] = idle_since[t] \cap IdleCPUs'
          /\ idle_once'[t] = idle_once[t] \cup IdleCPUs'
          /\ allowed'[t] = allowed[t]
          /\ ~At(t, "chosen")
      BY <1>1, Histories DEF Scanning, Choosing, At
    <2>2. call[t] \in ScanCall
      BY <1>1, CallCases DEF Scanning, At, TypeOK
    <2>3. ASSUME NEW c \in (idle_since'[t] \cap allowed'[t]) \ call[t].todo
          PROVE  call[t].oldest_idle_stamp <= idle_stamp'[c]
      <3>1. /\ c \in IdleCPUs' /\ c \in CPU
            /\ call[t].oldest_idle_stamp <= idle_stamp[c]
            /\ idle_stamp[c] <= idle_stamp'[c]
        BY <1>1, <2>1, <2>3 DEF Kept, TypeOK, IdleCPUs
      <3>2. /\ call[t].oldest_idle_stamp \in Int
            /\ idle_stamp[c] \in Int /\ idle_stamp'[c] \in Int
        BY <2>2, <3>1 DEF TypeOK, ScanCall, NoStamp
      <3> QED BY <3>1, <3>2
    <2>4. Kept(t)'
      BY <1>1, <2>1, <2>3 DEF Kept, Scanning, At
    <2>5. Passed(t)'
      BY <2>1 DEF Passed, At, Due
    <2> QED BY <2>1, <2>4, <2>5 DEF Chosen, At
  <1>2. CASE At(t, "chosen")
    BY <1>2, Histories DEF At, Kept, Passed, Chosen, Scanning
  <1>3. CASE ~Scanning(t) /\ ~At(t, "chosen")
    BY <1>3 DEF At, Kept, Passed, Chosen, Scanning
  <1> QED BY <1>1, <1>2, <1>3

\* The steps that only touch the queues: a CPU that is idle afterwards keeps
\* its stamp or gets a first one.
LEMMA QueueStep ==
  ASSUME TypeOK, TypeOK',
         \/ \E t \in Task, c \in CPU : Block(t, c)
         \/ \E c \in CPU : GoIdle(c)
         \/ \E t \in Task : Step(t)
  PROVE  \A c \in IdleCPUs' : idle_stamp[c] <= idle_stamp'[c]
  <1> USE DEF TypeOK, IdleCPUs, Idle
  <1>1. CASE \E t \in Task, c \in CPU : Block(t, c)
    BY <1>1 DEF Block
  <1>2. CASE \E c \in CPU : GoIdle(c)
    BY <1>2 DEF GoIdle
  <1>3. ASSUME NEW t \in Task, Enqueue(t)
        PROVE  \A c \in IdleCPUs' : idle_stamp[c] <= idle_stamp'[c]
    <2>1. PICK d \in allowed[t] : /\ rq' = [rq EXCEPT ![d] = @ \cup {t}]
                                  /\ idle_stamp' = [idle_stamp EXCEPT ![d] = 0]
      BY <1>3 DEF Enqueue
    <2>2. d \in CPU
      OBVIOUS
    <2>3. d \notin IdleCPUs'
      BY <2>1, <2>2
    <2>4. ASSUME NEW c \in IdleCPUs'
          PROVE  idle_stamp'[c] = idle_stamp[c] /\ idle_stamp[c] \in Int
      <3>1. c \in CPU /\ c # d
        BY <2>3, <2>4
      <3> QED BY <3>1, <2>1, <2>2
    <2> QED BY SMTT(30), <2>4
  <1>4. ASSUME NEW t \in Task, Step(t), ~Enqueue(t)
        PROVE  idle_stamp' = idle_stamp
    BY <1>4 DEF Step, WakeUp, TestPrev, ScanCpu, ScanStamp, ScanDone, SetAffinity,
                queues
  <1> QED BY <1>1, <1>2, <1>3, <1>4

\* A step of the loop itself reads the queues and leaves them alone.
LEMMA OwnStep ==
  ASSUME TypeOK, TypeOK', Remember, NEW t \in Task,
         Kept(t), Passed(t), Chosen(t), Step(t)
  PROVE  Kept(t)' /\ Passed(t)' /\ Chosen(t)'
  <1>1. CASE WakeUp(t)
    <2>1. call'[t] = [pc |-> "prev"]
      BY <1>1 DEF WakeUp, TypeOK
    <2> QED BY <2>1 DEF Kept, Passed, Chosen, Scanning, At
  <1>2. CASE TestPrev(t)
    <2>1. /\ rq' = rq /\ IdleCPUs' = IdleCPUs
          /\ idle_once'[t] = idle_once[t] \cup IdleCPUs
          /\ allowed' = allowed
      BY <1>2, Histories DEF TestPrev, queues, Choosing, At, IdleCPUs, Idle
    <2>2. CASE Idle(prev_cpu[t])
      <3>1. call'[t] = [pc |-> "chosen", new_cpu |-> prev_cpu[t], by |-> "prev"]
        BY <1>2, <2>2 DEF TestPrev, Choose, TypeOK
      <3>2. prev_cpu[t] \in IdleCPUs
        BY <2>2 DEF IdleCPUs, TypeOK
      <3> QED BY <2>1, <3>1, <3>2 DEF Kept, Passed, Chosen, Scanning, At
    <2>3. CASE ~Idle(prev_cpu[t])
      <3>1. call'[t] = [pc |-> "scan", todo |-> CPU, oldest_idle_stamp |-> NoStamp,
                        oldest_idle_stamp_cpu |-> prev_cpu[t]]
        BY <1>2, <2>3 DEF TestPrev, Scan, TypeOK
      <3>2. idle_since'[t] \subseteq CPU
        BY DEF TypeOK
      <3> QED BY <3>1, <3>2 DEF Kept, Passed, Chosen, Scanning, At, NoStamp
    <2> QED BY <2>2, <2>3
  <1>3. CASE ScanCpu(t)
    <2>1. /\ rq' = rq /\ IdleCPUs' = IdleCPUs
          /\ idle_since'[t] = idle_since[t] \cap IdleCPUs
          /\ idle_once'[t] = idle_once[t] \cup IdleCPUs
          /\ allowed' = allowed /\ idle_stamp' = idle_stamp
      BY <1>3, Histories DEF ScanCpu, queues, Choosing, At, IdleCPUs, Idle
    <2>2. PICK c \in CPU :
            /\ Due(c, call[t].todo)
            /\ call' = IF PassedOver(t, c) THEN [call EXCEPT ![t].todo = @ \ {c}]
                                           ELSE [call EXCEPT ![t].pc = "stamp"]
      BY <1>3 DEF ScanCpu
    <2>3. call[t] \in ScanCall /\ call[t].pc = "scan"
      BY <1>3, CallCases DEF ScanCpu, At, TypeOK
    <2>4. CASE PassedOver(t, c)
      <3>1. call'[t] = [call[t] EXCEPT !.todo = @ \ {c}]
        BY <2>2, <2>4 DEF TypeOK
      <3>2. /\ call'[t].pc = "scan"
            /\ call'[t].todo = call[t].todo \ {c}
            /\ call'[t].oldest_idle_stamp = call[t].oldest_idle_stamp
            /\ call'[t].oldest_idle_stamp_cpu = call[t].oldest_idle_stamp_cpu
        BY <2>3, <3>1 DEF ScanCall
      <3>3. c \notin idle_since'[t] \cap allowed'[t]
        BY <2>1, <2>4 DEF PassedOver, IdleCPUs
      <3> QED BY <2>1, <2>3, <3>2, <3>3 DEF Kept, Passed, Chosen, Scanning, At
    <2>5. CASE ~PassedOver(t, c)
      <3>1. call'[t] = [call[t] EXCEPT !.pc = "stamp"]
        BY <2>2, <2>5 DEF TypeOK
      <3>2. /\ call'[t].pc = "stamp"
            /\ call'[t].todo = call[t].todo
            /\ call'[t].oldest_idle_stamp = call[t].oldest_idle_stamp
            /\ call'[t].oldest_idle_stamp_cpu = call[t].oldest_idle_stamp_cpu
        BY <2>3, <3>1 DEF ScanCall
      <3>3. c \in idle_once'[t] \cap allowed'[t]
        BY <2>1, <2>5 DEF PassedOver, IdleCPUs
      <3>4. Passed(t)'
        BY <2>2, <3>2, <3>3 DEF Passed, Due, CPU
      <3>5. Kept(t)'
        BY <2>1, <2>3, <3>2 DEF Kept, Scanning, At
      <3> QED BY <3>2, <3>4, <3>5 DEF Chosen, At
    <2> QED BY <2>4, <2>5
  <1>4. CASE ScanStamp(t)
    <2>1. /\ idle_since'[t] \subseteq idle_since[t]
          /\ idle_once[t] \subseteq idle_once'[t]
          /\ allowed' = allowed /\ idle_stamp' = idle_stamp
      BY <1>4, Histories DEF ScanStamp, queues, Choosing, At
    <2>2. PICK c \in CPU :
            /\ Due(c, call[t].todo)
            /\ IF Older(idle_stamp[c], call[t].oldest_idle_stamp)
               THEN Scan(t, call[t].todo \ {c}, idle_stamp[c], c)
               ELSE Scan(t, call[t].todo \ {c}, call[t].oldest_idle_stamp,
                         call[t].oldest_idle_stamp_cpu)
      BY <1>4 DEF ScanStamp
    <2>3. call[t] \in ScanCall /\ call[t].pc = "stamp"
      BY <1>4, CallCases DEF ScanStamp, At, TypeOK
    <2>4. /\ call[t].oldest_idle_stamp \in Int
          /\ \A d \in CPU : idle_stamp[d] \in Int
          /\ idle_since[t] \subseteq CPU
      BY <2>3 DEF ScanCall, TypeOK, NoStamp
    <2>5. c \in idle_once[t] \cap allowed[t]
      BY <2>2, <2>3 DEF Passed, At
    <2>6. /\ \A d \in (idle_since[t] \cap allowed[t]) \ call[t].todo :
               call[t].oldest_idle_stamp <= idle_stamp[d]
          /\ call[t].oldest_idle_stamp # NoStamp =>
               call[t].oldest_idle_stamp_cpu \in idle_once[t] \cap allowed[t]
      BY <2>3 DEF Kept, Scanning, At
    <2>7. CASE idle_stamp[c] < call[t].oldest_idle_stamp
      <3>1. call'[t] = [pc |-> "scan", todo |-> call[t].todo \ {c},
                        oldest_idle_stamp |-> idle_stamp[c],
                        oldest_idle_stamp_cpu |-> c]
        BY <2>2, <2>7 DEF Older, Scan, TypeOK
      <3>2. ASSUME NEW d \in (idle_since'[t] \cap allowed'[t]) \ (call[t].todo \ {c})
            PROVE  idle_stamp[c] <= idle_stamp[d]
        <4>1. CASE d = c
          BY <4>1, <2>4
        <4>2. CASE d # c
          BY <4>2, <2>1, <2>4, <2>6, <2>7
        <4> QED BY <4>1, <4>2
      <3>3. Kept(t)'
        BY <2>1, <2>5, <3>1, <3>2 DEF Kept, Scanning, At
      <3> QED BY <3>1, <3>3 DEF Passed, Chosen, At
    <2>8. CASE ~(idle_stamp[c] < call[t].oldest_idle_stamp)
      <3>1. call'[t] = [pc |-> "scan", todo |-> call[t].todo \ {c},
                        oldest_idle_stamp |-> call[t].oldest_idle_stamp,
                        oldest_idle_stamp_cpu |-> call[t].oldest_idle_stamp_cpu]
        BY <2>2, <2>8 DEF Older, Scan, TypeOK
      <3>2. ASSUME NEW d \in (idle_since'[t] \cap allowed'[t]) \ (call[t].todo \ {c})
            PROVE  call[t].oldest_idle_stamp <= idle_stamp[d]
        <4>1. CASE d = c
          BY <4>1, <2>4, <2>8
        <4>2. CASE d # c
          BY <4>2, <2>1, <2>6
        <4> QED BY <4>1, <4>2
      <3>3. Kept(t)'
        BY <2>1, <2>6, <3>1, <3>2 DEF Kept, Scanning, At
      <3> QED BY <3>1, <3>3 DEF Passed, Chosen, At
    <2> QED BY <2>7, <2>8
  <1>5. CASE ScanDone(t)
    <2>1. /\ idle_since'[t] \subseteq idle_since[t]
          /\ idle_once[t] \subseteq idle_once'[t]
          /\ allowed' = allowed
      BY <1>5, Histories DEF ScanDone, Choosing, At
    <2>2. call[t] \in ScanCall /\ call[t].pc = "scan" /\ call[t].todo = {}
      BY <1>5, CallCases DEF ScanDone, At, TypeOK
    <2>3. CASE call[t].oldest_idle_stamp # NoStamp
      <3>1. call'[t] = [pc |-> "chosen", by |-> "stamp",
                        new_cpu |-> call[t].oldest_idle_stamp_cpu]
        BY <1>5, <2>3 DEF ScanDone, Choose, TypeOK
      <3>2. call[t].oldest_idle_stamp_cpu \in idle_once[t] \cap allowed[t]
        BY <2>2, <2>3 DEF Kept, Scanning, At
      <3> QED BY <2>1, <3>1, <3>2 DEF Kept, Passed, Chosen, Scanning, At
    <2>4. CASE call[t].oldest_idle_stamp = NoStamp
      <3>1. PICK c \in CPU :
              call'[t] = [pc |-> "chosen", by |-> "kernel", new_cpu |-> c]
        BY <1>5, <2>4 DEF ScanDone, Choose, TypeOK
      <3>2. \A d \in CPU : ~(NoStamp <= idle_stamp[d])
        BY DEF TypeOK, NoStamp
      <3>3. idle_since[t] \cap allowed[t] = {}
        BY <2>2, <2>4, <3>2 DEF Kept, Scanning, At, TypeOK
      <3> QED BY <2>1, <3>1, <3>3 DEF Kept, Passed, Chosen, Scanning, At
    <2> QED BY <2>3, <2>4
  <1>6. CASE Enqueue(t)
    <2>1. call'[t] = Out
      BY <1>6 DEF Enqueue, TypeOK
    <2> QED BY <2>1 DEF Out, Kept, Passed, Chosen, Scanning, At
  <1>7. CASE SetAffinity(t)
    BY <1>7 DEF SetAffinity, Kept, Passed, Chosen, Scanning, At
  <1> QED BY <1>1, <1>2, <1>3, <1>4, <1>5, <1>6, <1>7 DEF Step

\* The two halves of LoopCorrect.
LEMMA InitLoop == Init => LoopInv
  BY DEF Init, Out, LoopInv, Kept, Passed, Chosen, Scanning, At

LEMMA NextLoop == TypeOK /\ TypeOK' /\ LoopInv /\ [Next]_vars => LoopInv'
  <1> SUFFICES ASSUME TypeOK, TypeOK', LoopInv, [Next]_vars
               PROVE  LoopInv'
    OBVIOUS
  <1>1. ASSUME Remember, NEW u \in Task, Step(u)
        PROVE  LoopInv'
    <2>1. Kept(u)' /\ Passed(u)' /\ Chosen(u)'
      BY <1>1, OwnStep DEF LoopInv
    <2>2. \A c \in IdleCPUs' : idle_stamp[c] <= idle_stamp'[c]
      BY <1>1, QueueStep
    <2>3. ASSUME NEW t \in Task, t # u
          PROVE  call'[t] = call[t] /\ allowed'[t] = allowed[t]
      BY <1>1, <2>3 DEF TypeOK, Step, WakeUp, TestPrev, ScanCpu, ScanStamp, ScanDone,
                        Enqueue, SetAffinity, Choose, Scan
    <2>4. ASSUME NEW t \in Task, t # u
          PROVE  Kept(t)' /\ Passed(t)' /\ Chosen(t)'
      BY <1>1, <2>2, <2>3, <2>4, Undisturbed DEF LoopInv
    <2> QED BY <2>1, <2>4 DEF LoopInv
  <1>2. ASSUME Remember,
               \/ \E t \in Task, c \in CPU : Block(t, c)
               \/ \E c \in CPU : GoIdle(c)
        PROVE  LoopInv'
    <2>1. \A c \in IdleCPUs' : idle_stamp[c] <= idle_stamp'[c]
      BY <1>2, QueueStep
    <2>2. call' = call /\ allowed' = allowed
      BY <1>2 DEF Block, GoIdle
    <2> QED BY <1>2, <2>1, <2>2, Undisturbed DEF LoopInv
  <1>3. CASE UNCHANGED vars
    BY <1>3 DEF vars, queues, history, LoopInv, Kept, Passed, Chosen, Scanning, At, Due
  <1> QED BY <1>1, <1>2, <1>3 DEF Next, Step

\* What the loop of select_task_rq_fair knows is true however long ago it read
\* it.
THEOREM LoopCorrect == Spec => []LoopInv
  BY InitLoop, NextLoop, TypeCorrect, PTL DEF Spec

\* A task the patch chooses a CPU for gets one that was idle during the call
\* and, unless it is its previous one, that it may run on.
THEOREM ChoiceWasIdleTheorem == Spec => []ChoiceWasIdle
  <1>1. LoopInv => ChoiceWasIdle
    BY DEF LoopInv, Chosen, ChoiceWasIdle
  <1> QED BY <1>1, LoopCorrect, PTL

\* A CPU the task may use that stays idle during the call is never missed.
THEOREM IdleCpuNotMissedTheorem == Spec => []IdleCpuNotMissed
  <1>1. LoopInv => IdleCpuNotMissed
    BY DEF LoopInv, Chosen, IdleCpuNotMissed, At
  <1> QED BY <1>1, LoopCorrect, PTL

\* The CPU the loop keeps has been idle longest of those that stayed idle.
THEOREM OldestKeptTheorem == Spec => []OldestKept
  <1>1. LoopInv => OldestKept
    BY DEF LoopInv, Kept, OldestKept, Scanning
  <1> QED BY <1>1, LoopCorrect, PTL
=============================================================================
