----------------------------- MODULE BugReport -----------------------------
(***************************************************************************)
(* The bug report of the sanity checker, in the detail SanityChecker       *)
(* leaves out: generate_bug_report allocates one report per CPU and        *)
(* scheduling domain and then asks for them, load_balance fills them in    *)
(* (fill_bug_report), a process prints them with cat /proc/stap_cntl       *)
(* (stap_do_work).  Nothing but the flag _generate_bug_report and the      *)
(* pointers themselves orders the three.                                   *)
(*                                                                         *)
(* The reports and that flag belong to the kernel; the flag that keeps the *)
(* reports to one belongs to the module stap_monitor, which may be loaded  *)
(* again.                                                                  *)
(***************************************************************************)
EXTENDS Integers, Sequences, FiniteSets

CONSTANTS
  NrCpus,      \* the online CPUs are 0 .. NrCpus - 1
  NrDomains,   \* levels of scheduling domains in use
  Timer,       \* the timer's tasklet, which may find a CPU buggy
  Users,       \* the processes that may write to stap_cntl that it is
  Balancer,    \* the contexts that run load_balance
  BalancesFor, \* per balancer, the CPUs it calls load_balance for
  MayFail,     \* whether an allocation may fail
  MaxReads,    \* bound: how often stap_cntl is read
  MaxLoads,    \* bound: how often stap_monitor is loaded
  MaxArrays    \* bound: how often reports are generated

CPU    == 0 .. NrCpus - 1
Domain == 0 .. NrDomains - 1

ASSUME SizesAssumption ==
  /\ NrCpus \in Nat \ {0} /\ NrDomains \in 1 .. 5
  /\ MayFail \in BOOLEAN /\ MaxReads \in Nat /\ MaxLoads \in Nat
  /\ MaxArrays \in Nat
ASSUME BalancersAssumption == BalancesFor \in [Balancer -> SUBSET CPU]
ASSUME UsersAssumption == IsFiniteSet(Users) /\ Timer \notin Users

Generator == {Timer} \cup Users

NULL == 0

VARIABLES
  module,                \* where stap_monitor's load or unload is
  loads,
  bug_report_generated,  \* static flag of generate_bug_report_module
  _generate_bug_report,  \* the flag load_balance tests
  sched_reports,         \* NULL or the array allocated last
  generations,           \* how many arrays have been asked for
  rows,                  \* per array, the CPUs whose row is not NULL
  texts,                 \* per array, the CPUs whose bug_report are not NULL
  rdt,                   \* the reports whose rdt is set: <<array, cpu, domain>>
  lines,                 \* per report, the runqueues written, in order
  gen,                   \* per generator, where it is
  filler,                \* per balancer, where it is
  cat,                   \* where the process that reads is
  reads,
  faults                 \* history: uses of NULL, and missing texts per array

life      == <<module, loads>>
flags     == <<bug_report_generated, _generate_bug_report>>
allocated == <<sched_reports, generations, rows, texts>>
written   == <<rdt, lines>>
reader    == <<cat, reads>>
vars == <<life, flags, allocated, written, gen, filler, reader, faults>>

Array  == 1 .. MaxArrays
Report == Array \X CPU \X Domain
Idle   == [pc |-> "idle"]
Oops   == [pc |-> "oops"]    \* it dereferenced NULL and does not come back
At(p, loc) == p.pc = loc
Due(c, S)  == c \in S /\ \A d \in S : c <= d
Rows(a)    == IF a = NULL THEN {} ELSE rows[a]
Fault(f)   == faults' = faults \cup {f}

Init ==
  /\ module = "out"
  /\ loads = 0
  /\ bug_report_generated = FALSE
  /\ _generate_bug_report = FALSE
  /\ sched_reports = NULL
  /\ generations = 0
  /\ rows = [a \in Array |-> {}]
  /\ texts = [a \in Array |-> {}]
  /\ rdt = {}
  /\ lines = [r \in Report |-> <<>>]
  /\ gen = [g \in Generator |-> Idle]
  /\ filler = [b \in Balancer |-> Idle]
  /\ cat = Idle
  /\ reads = 0
  /\ faults = {}

(***************************************************************************)
(* stap_init_module and stap_exit_module.                                  *)
(***************************************************************************)
\* insmod: the module's static variables start anew, then stap_cntl exists.
CreateProc ==
  /\ module = "out"
  /\ loads < MaxLoads
  /\ loads' = loads + 1
  /\ module' = "created"
  /\ bug_report_generated' = FALSE
  /\ UNCHANGED <<_generate_bug_report, allocated, written, gen, filler, reader,
                 faults>>

TimerInit ==
  /\ module = "created"
  /\ module' = "loaded"
  /\ UNCHANGED <<loads, flags, allocated, written, gen, filler, reader, faults>>

\* rmmod: tasklet_hrtimer_cancel waits for the tasklet, remove_proc_entry for
\* the calls in progress.
TimerCleanup ==
  /\ module = "loaded"
  /\ At(gen[Timer], "idle")
  /\ module' = "cancelled"
  /\ UNCHANGED <<loads, flags, allocated, written, gen, filler, reader, faults>>

RemoveProc ==
  /\ module = "cancelled"
  /\ \A u \in Users : At(gen[u], "idle")
  /\ At(cat, "idle")
  /\ module' = "out"
  /\ UNCHANGED <<loads, flags, allocated, written, gen, filler, reader, faults>>

Module == CreateProc \/ TimerInit \/ TimerCleanup \/ RemoveProc

\* Who can run: the timer between its start and its end, the users of
\* stap_cntl as long as the file exists.
Running(g) == IF g = Timer THEN module = "loaded" ELSE module # "out"

(***************************************************************************)
(* generate_bug_report_module and generate_bug_report.                     *)
(***************************************************************************)
Starting == {g \in Generator : gen[g].pc \in {"begin", "array"}}

\* A CPU is buggy: the static flag is tested, then set.
BuggyCpuFound(g) ==
  /\ generations + Cardinality(Starting) < MaxArrays
  /\ At(gen[g], "idle")
  /\ Running(g)
  /\ ~bug_report_generated
  /\ gen' = [gen EXCEPT ![g] = [pc |-> "begin"]]
  /\ UNCHANGED <<life, flags, allocated, written, filler, reader, faults>>

BeginReport(g) ==
  /\ At(gen[g], "begin")
  /\ bug_report_generated' = TRUE
  /\ gen' = [gen EXCEPT ![g] = [pc |-> "array"]]
  /\ UNCHANGED <<life, _generate_bug_report, allocated, written, filler, reader,
                 faults>>

\* Mutants: the loop over the CPUs goes one too far, or not to the end.
RowsBeyond == 0 .. NrCpus
RowsShort  == CPU \ {NrCpus - 1}
RowsToAllocate == CPU      \* for_each_online_cpu(cpu)

\* sched_reports = kzalloc(...): published at once, with every row NULL.
AllocateArray(g) ==
  /\ At(gen[g], "array")
  /\ generations' = generations + 1
  /\ sched_reports' = generations + 1
  /\ gen' = [gen EXCEPT ![g] = [pc |-> "rows", todo |-> RowsToAllocate]]
  /\ UNCHANGED <<life, flags, rows, texts, written, filler, reader, faults>>

\* sched_reports[cpu] = kzalloc(...), in the array the global points to now.
AllocateRow(g) ==
  /\ At(gen[g], "rows")
  /\ sched_reports # NULL
  /\ \E c \in CPU :
       /\ Due(c, gen[g].todo)
       /\ rows' = [rows EXCEPT ![sched_reports] = @ \cup {c}]
       /\ gen' = [gen EXCEPT ![g] =
                    [pc |-> "texts", cpu |-> c, todo |-> @.todo \ {c}]]
  /\ UNCHANGED <<life, flags, sched_reports, generations, texts, written,
                 filler, reader, faults>>

\* sched_reports[cpu][sd] for every sd, the global read again: the sizes, and
\* kzalloc of the texts, whose failure shows only when they are written.
AllocateTexts(g) ==
  /\ At(gen[g], "texts")
  /\ gen[g].cpu \in Rows(sched_reports)
  /\ \/ /\ texts' = [texts EXCEPT ![sched_reports] = @ \cup {gen[g].cpu}]
        /\ UNCHANGED faults
     \/ MayFail /\ Fault(<<"no_text", sched_reports>>) /\ UNCHANGED texts
  /\ gen' = [gen EXCEPT ![g] = [pc |-> "rows", todo |-> @.todo]]
  /\ UNCHANGED <<life, flags, sched_reports, generations, rows, written, filler,
                 reader>>

\* The generator writes through NULL: kzalloc of the array or of a row has
\* failed, or the other generator has changed sched_reports.
GenerateFaults(g) ==
  /\ \/ /\ At(gen[g], "array") /\ MayFail
        /\ sched_reports' = NULL /\ generations' = generations + 1
     \/ /\ \/ /\ At(gen[g], "rows") /\ gen[g].todo # {}
              /\ MayFail \/ sched_reports = NULL
           \/ At(gen[g], "texts") /\ gen[g].cpu \notin Rows(sched_reports)
        /\ UNCHANGED <<sched_reports, generations>>
  /\ gen' = [gen EXCEPT ![g] = Oops]
  /\ UNCHANGED <<life, flags, rows, texts, written, filler, reader, faults>>

\* Mutant: asks before the rows exist.
AskForReportsEarly(g) ==
  /\ At(gen[g], "rows")
  /\ ~_generate_bug_report
  /\ _generate_bug_report' = TRUE
  /\ UNCHANGED <<life, bug_report_generated, allocated, written, gen, filler,
                 reader, faults>>

AskForReports(g) ==
  /\ At(gen[g], "rows")
  /\ gen[g].todo = {}
  /\ _generate_bug_report' = TRUE
  /\ gen' = [gen EXCEPT ![g] = Idle]
  /\ UNCHANGED <<life, bug_report_generated, allocated, written, filler, reader,
                 faults>>

Generate(g) ==
  \/ BeginReport(g) \/ AllocateArray(g) \/ AllocateRow(g) \/ AllocateTexts(g)
  \/ GenerateFaults(g) \/ AskForReports(g)

(***************************************************************************)
(* fill_bug_report, called from load_balance once the flag is set.         *)
(***************************************************************************)
\* Mutant: the report of another CPU.
ReportOfOther(c, d) == <<sched_reports, 0, d>>
ReportOf(c, d)      == <<sched_reports, c, d>>

\* Mutant: whether the report has been made is not looked at.
TakenNever(r) == FALSE
Taken(r)      == r \in rdt

\* &sched_reports[lb_cpu][sd->level], then "if(r->rdt) return".
FillTest(b, c, d) ==
  /\ At(filler[b], "idle")
  /\ _generate_bug_report
  /\ c \in BalancesFor[b]
  /\ IF c \notin Rows(sched_reports)
     THEN /\ Fault(<<"fill", NULL>>)
          /\ filler' = [filler EXCEPT ![b] = Oops]
     ELSE /\ ~Taken(ReportOf(c, d))
          /\ filler' = [filler EXCEPT ![b] =
                          [pc |-> "claim", report |-> ReportOf(c, d)]]
          /\ UNCHANGED faults
  /\ UNCHANGED <<life, flags, allocated, written, gen, reader>>

\* rdt, which says that there is a report, is set before the report's text.
FillClaim(b) ==
  /\ At(filler[b], "claim")
  /\ rdt' = rdt \cup {filler[b].report}
  /\ filler' = [filler EXCEPT ![b] =
                  [pc |-> "write", report |-> @.report, cpu |-> 0]]
  /\ UNCHANGED <<life, flags, allocated, lines, gen, reader, faults>>

\* Mutant: the loop ends one CPU early.
LastCpuEarly(c) == c + 2 >= NrCpus
LastCpu(c)      == c + 1 = NrCpus

\* One turn of the loop: the runqueue and the domains of one CPU, printed at
\* the end of the text, if there is a buffer for it.
FillCpu(b) ==
  /\ At(filler[b], "write")
  /\ LET r == filler[b].report
         c == filler[b].cpu
     IN
     IF r[2] \in texts[r[1]]
     THEN /\ lines' = [lines EXCEPT ![r] = Append(@, c)]
          /\ filler' = [filler EXCEPT ![b] = IF LastCpu(c) THEN Idle
                                             ELSE [@ EXCEPT !.cpu = c + 1]]
          /\ UNCHANGED faults
     ELSE /\ Fault(<<"text", r[1]>>)
          /\ filler' = [filler EXCEPT ![b] = Oops]
          /\ UNCHANGED lines
  /\ UNCHANGED <<life, flags, allocated, rdt, gen, reader>>

Fill(b) == FillClaim(b) \/ FillCpu(b)

(***************************************************************************)
(* stap_do_work: get_reports(), then every report that has an rdt.         *)
(***************************************************************************)
Read ==
  /\ At(cat, "idle")
  /\ module # "out"
  /\ reads < MaxReads
  /\ reads' = reads + 1
  /\ cat' = IF sched_reports = NULL THEN Idle
            ELSE [pc |-> "print", array |-> sched_reports, todo |-> CPU,
                  asked |-> _generate_bug_report]
  /\ UNCHANGED <<life, flags, allocated, written, gen, filler, faults>>

\* r[cpu][sd].rdt of one CPU, and the text of those that are set.
Readable(a, c) ==
  /\ c \in rows[a]
  /\ c \in texts[a] \/ \A d \in Domain : <<a, c, d>> \notin rdt

PrintCpu ==
  /\ At(cat, "print")
  /\ \E c \in CPU :
       /\ Due(c, cat.todo)
       /\ IF Readable(cat.array, c)
          THEN /\ cat' = IF cat.todo = {c} THEN Idle
                         ELSE [cat EXCEPT !.todo = @ \ {c}]
               /\ UNCHANGED faults
          ELSE /\ cat' = Oops
               /\ Fault(<<IF cat.asked THEN "read" ELSE "early", NULL>>)
  /\ UNCHANGED <<life, flags, allocated, written, gen, filler, reads>>

Next ==
  \/ Module
  \/ \E g \in Generator : BuggyCpuFound(g) \/ Generate(g)
  \/ \E b \in Balancer : \/ Fill(b)
                       \/ \E c \in CPU, d \in Domain : FillTest(b, c, d)
  \/ Read \/ PrintCpu

Spec == Init /\ [][Next]_vars

\* A CPU does not stop inside fill_bug_report.
FairSpec == Spec /\ \A b \in Balancer : WF_vars(Fill(b))

-----------------------------------------------------------------------------
(***************************************************************************)
(* Properties.                                                             *)
(***************************************************************************)
\* Every variable holds a value of its type.
TypeOK ==
  /\ module \in {"out", "created", "loaded", "cancelled"}
  /\ loads \in 0 .. MaxLoads
  /\ bug_report_generated \in BOOLEAN
  /\ _generate_bug_report \in BOOLEAN
  /\ generations \in 0 .. MaxArrays
  /\ sched_reports \in 0 .. generations
  /\ rows \in [Array -> SUBSET CPU]
  /\ texts \in [Array -> SUBSET CPU]
  /\ rdt \subseteq Report
  /\ lines \in [Report -> Seq(CPU)]
  /\ gen \in [Generator -> {Idle, Oops} \cup [pc : {"begin", "array"}]
                 \cup [pc : {"rows"}, todo : SUBSET CPU]
                 \cup [pc : {"texts"}, cpu : CPU, todo : SUBSET CPU]]
  /\ filler \in [Balancer -> {Idle, Oops}
                 \cup [pc : {"claim"}, report : Report]
                 \cup [pc : {"write"}, report : Report, cpu : CPU]]
  /\ cat \in {Idle, Oops}
            \cup [pc : {"print"}, array : Array, todo : SUBSET CPU,
                  asked : BOOLEAN]
  /\ reads \in 0 .. MaxReads
  /\ faults \subseteq {"no_text", "fill", "text", "read", "early"}
                        \X (Array \cup {NULL})

\* As long as one report has been generated, load_balance follows no NULL row,
\* and it never writes through a NULL text in the first array but where that
\* allocation failed: the reports are asked for when all of them exist.  (A
\* second generation, of a user's or after another insmod, replaces the array
\* while load_balance already fills reports.)
FillSeesRows ==
  generations <= 1 =>
    /\ <<"fill", NULL>> \notin faults
    /\ <<"text", 1>> \in faults => <<"no_text", 1>> \in faults

\* A process that begins to read the only report there has been after it was
\* asked for follows no NULL row or text, also while load_balance fills the
\* report in.  (One that begins earlier may: the array is published before its
\* rows, the fault "early".)
ReadSeesRows ==
  generations <= 1 /\ <<"no_text", 1>> \notin faults
    => <<"read", NULL>> \notin faults

\* A report is filled by one load_balance call: no two write to it at once.
Filling(b) == filler[b].pc \in {"claim", "write"}
OneFillerPerReport ==
  \A b1, b2 \in Balancer :
    b1 # b2 /\ Filling(b1) /\ Filling(b2)
      => filler[b1].report # filler[b2].report

\* The reports a reader finds are a ReportBook: each is announced once, written
\* from the first CPU to the last and then left alone, also when stap_monitor
\* is unloaded and loaded again.
Book == INSTANCE ReportBook WITH
  Reports <- Report, Chapters <- NrCpus, announced <- rdt, text <- lines
ImplementsReportBook == Book!Spec

\* A report that has been announced (rdt) is eventually complete, unless its
\* text was missing when it was written.
ReportsCompleted ==
  \A r \in Report : r \in rdt ~> \/ Len(lines[r]) = NrCpus
                                 \/ <<"text", r[1]>> \in faults
=============================================================================
