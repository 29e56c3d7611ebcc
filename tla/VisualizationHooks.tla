------------------------- MODULE VisualizationHooks -------------------------
(***************************************************************************)
(* The 17 handlers of tools/visualizations_4.1/sched_profiler/             *)
(* sched_profiler.c: pure definitions, the parameters SampleProfiler is    *)
(* instantiated with.  A member of the union in an entry goes by the name  *)
(* of the entry type it belongs to; its fields are one part of the entry.  *)
(***************************************************************************)
EXTENDS Sequences

EntryTypes ==
  { "RQ_SIZE_SAMPLE", "LOAD_SAMPLE", "LOAD_BALANCE_SAMPLE",
    "FILE_WRITING_SAMPLE", "CPUALLOWED_SAMPLE", "REBALANCE_SAMPLE",
    "DOMAINCPU_SAMPLE", "IDLE_BALANCE_SAMPLE", "HOTCAHCE_SAMPLE",
    "DOMAIN_FLAG_SAMPLE", "DOMIAN_INTERVAL_SAMPLE", "CGROUP_CPUMASK_SAMPLE",
    "START_MIGRATION_SAMPLE", "END_MIGRATION_SAMPLE", "BUSIEST_SAMPLE",
    "DETACH_STATUS_SAMPLE", "DETACH_LOAD_SAMPLE" }

\* The members that have fields.
Members == EntryTypes \ {"FILE_WRITING_SAMPLE"}

\* The members rq_stats_do_work prints of an entry of a type: a chain of tests
\* with one branch per type, each for its own member.
PrintedAs(type) == {type} \cap Members

\* In the order of init_module, cleanup_module and the handlers' overflow code.
AllHooks ==
  << "set_nr_running", "load_change", "load_balance", "file_writing",
     "cpuallowed_change", "rebalance", "sd_cpus", "hotcache_rej",
     "idle_balance", "sd_flag", "sd_interval", "cgroup_cpumask",
     "start_migration", "end_migration", "busiest", "detach_status",
     "detach_load" >>

(***************************************************************************)
(* A handler: the parts of an entry in the order it writes them, the hooks *)
(* it forgets when it clears them because the buffer is full, and whether  *)
(* it then returns.                                                        *)
(***************************************************************************)
Parts(type) == << <<"clock">>, <<"type", type>>, <<"data", type>> >>
Usual(type) == [stores |-> Parts(type), forgets |-> {}, returns |-> TRUE]

set_nr_running    == Usual("RQ_SIZE_SAMPLE")
load_change       == Usual("LOAD_SAMPLE")
load_balance      ==  \* the type before the time; falls through when full
  [stores  |-> << <<"type", "LOAD_BALANCE_SAMPLE">>, <<"clock">>,
                  <<"data", "LOAD_BALANCE_SAMPLE">> >>,
   forgets |-> {}, returns |-> FALSE]
file_writing      ==
  [stores  |-> << <<"clock">>, <<"type", "FILE_WRITING_SAMPLE">> >>,
   forgets |-> {}, returns |-> TRUE]
cpuallowed_change == Usual("CPUALLOWED_SAMPLE")
rebalance         == Usual("REBALANCE_SAMPLE")
sd_cpus           == Usual("DOMAINCPU_SAMPLE")
hotcache_rej      == Usual("HOTCAHCE_SAMPLE")
idle_balance      == Usual("IDLE_BALANCE_SAMPLE")
sd_flag           == Usual("DOMAIN_FLAG_SAMPLE")
sd_interval       == Usual("DOMIAN_INTERVAL_SAMPLE")
cgroup_cpumask    == Usual("CGROUP_CPUMASK_SAMPLE")
start_migration   ==
  [Usual("START_MIGRATION_SAMPLE") EXCEPT !.forgets = {"detach_load"}]
end_migration     == Usual("END_MIGRATION_SAMPLE")
busiest           ==
  [Usual("BUSIEST_SAMPLE") EXCEPT !.forgets = {"detach_status"}]
detach_status     ==
  [Usual("DETACH_STATUS_SAMPLE") EXCEPT !.forgets = {"detach_status"}]
detach_load       ==
  [Usual("DETACH_LOAD_SAMPLE") EXCEPT !.forgets = {"detach_status"}]

Handlers ==
  [ set_nr_running |-> set_nr_running, load_change |-> load_change,
    load_balance |-> load_balance, file_writing |-> file_writing,
    cpuallowed_change |-> cpuallowed_change, rebalance |-> rebalance,
    sd_cpus |-> sd_cpus, hotcache_rej |-> hotcache_rej,
    idle_balance |-> idle_balance, sd_flag |-> sd_flag,
    sd_interval |-> sd_interval, cgroup_cpumask |-> cgroup_cpumask,
    start_migration |-> start_migration, end_migration |-> end_migration,
    busiest |-> busiest, detach_status |-> detach_status,
    detach_load |-> detach_load ]

\* rq_stats_do_work stops two of the hooks only.
StoppedByReader == {"set_nr_running", "load_change"}
=============================================================================
