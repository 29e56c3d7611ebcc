---------------------------- MODULE WakeupHooks ----------------------------
(***************************************************************************)
(* The 9 handlers of sched_wakeup/sched_profiler.c: pure definitions, the  *)
(* parameters SampleProfiler is instantiated with, in the form of module   *)
(* VisualizationHooks.                                                     *)
(***************************************************************************)
EXTENDS Sequences

EntryTypes ==
  { "WAKEUP_PARAS_SAMPLE", "CPUS_ALLOWED_SAMPLE", "FORBID_TASK_CPU_SAMPLE",
    "SELECT_TASK_SAMPLE", "TOP_SD_SAMPLE", "EACH_SD_SAMPLE",
    "IDLEST_GROUP_SAMPLE", "RQ_SIZE_SAMPLE", "CPU_SELECTED_SAMPLE" }

\* Every member of the union has fields.
Members == EntryTypes

\* rq_stats_do_work has a branch for each type, that prints its own member.
PrintedAs(type) == {type} \cap Members

\* In the order of init_module and of clear_all_modules.
AllHooks ==
  << "wakeup_paras", "cpus_allowed", "forbid_task_cpu", "select_task_func",
     "top_sd", "each_sd", "idlest_group", "nr_running", "cpu_selected" >>

\* clear_all_modules, which every handler calls when the buffer is full and then
\* returns, forgets no hook.
Forgotten == {}
Recording(parts) ==
  [stores |-> parts, forgets |-> Forgotten, returns |-> TRUE]
Usual(type) == Recording(<< <<"clock">>, <<"type", type>>, <<"data", type>> >>)

wakeup_paras     == Usual("WAKEUP_PARAS_SAMPLE")
cpus_allowed     == Usual("CPUS_ALLOWED_SAMPLE")
\* The handler that also moves the task to the other socket: it fills the mask
\* before the type and the task's CPU after it.
forbid_task_cpu  ==
  Recording(<< <<"clock">>, <<"data", "FORBID_TASK_CPU_SAMPLE">>,
               <<"type", "FORBID_TASK_CPU_SAMPLE">>,
               <<"data", "FORBID_TASK_CPU_SAMPLE">> >>)
select_task_func == Usual("SELECT_TASK_SAMPLE")
top_sd           == Usual("TOP_SD_SAMPLE")
each_sd          == Usual("EACH_SD_SAMPLE")
idlest_group     == Usual("IDLEST_GROUP_SAMPLE")
nr_running       == Usual("RQ_SIZE_SAMPLE")
\* The type is that of select_task_func's samples.
cpu_selected     ==
  Recording(<< <<"clock">>, <<"type", "SELECT_TASK_SAMPLE">>,
               <<"data", "CPU_SELECTED_SAMPLE">> >>)

Handlers ==
  [ wakeup_paras |-> wakeup_paras, cpus_allowed |-> cpus_allowed,
    forbid_task_cpu |-> forbid_task_cpu, select_task_func |-> select_task_func,
    top_sd |-> top_sd, each_sd |-> each_sd, idlest_group |-> idlest_group,
    nr_running |-> nr_running, cpu_selected |-> cpu_selected ]

StoppedByReader == {"wakeup_paras", "cpus_allowed"}
=============================================================================
