--------------------------- MODULE BugReportProofs ---------------------------
(***************************************************************************)
(* Proofs about BugReport, for any number of CPUs, domains, users and      *)
(* loads of the module: its types, that nobody follows a missing row of    *)
(* the only array, that a report has one writer, and that what readers     *)
(* find is a ReportBook.                                                   *)
(***************************************************************************)
EXTENDS BugReport, FiniteSetTheorems, TLAPS

-----------------------------------------------------------------------------
(***************************************************************************)
(* Types.  The guard of BuggyCpuFound bounds the arrays there are and the  *)
(* generators about to allocate one.                                       *)
(***************************************************************************)
GenState ==
  {Idle, Oops} \cup [pc : {"begin", "array"}]
    \cup [pc : {"rows"}, todo : SUBSET CPU]
    \cup [pc : {"texts"}, cpu : CPU, todo : SUBSET CPU]
FillState ==
  {Idle, Oops} \cup [pc : {"claim"}, report : Report]
    \cup [pc : {"write"}, report : Report, cpu : CPU]
CatState ==
  {Idle, Oops}
    \cup [pc : {"print"}, array : Array, todo : SUBSET CPU, asked : BOOLEAN]

FaultsOK ==
  faults \subseteq {"no_text", "fill", "text", "read", "early"}
                    \X (Array \cup {NULL})
FillTypeOK ==
  /\ filler \in [Balancer -> FillState]
  /\ rdt \subseteq Report
  /\ lines \in [Report -> Seq(CPU)]
  /\ FaultsOK

TypeInv == TypeOK /\ generations + Cardinality(Starting) <= MaxArrays

\* The generators about to allocate are finitely many.
LEMMA StartingFinite ==
  IsFiniteSet(Generator) /\ IsFiniteSet(Starting) /\ Cardinality(Starting) \in Nat
<1>1. IsFiniteSet(Generator)
  BY UsersAssumption, FS_Singleton, FS_Union DEF Generator
<1>2. Starting \subseteq Generator BY DEF Starting
<1> QED BY <1>1, <1>2, FS_Subset, FS_CardinalityType

\* The same one step later.
LEMMA StartingFiniteNext == IsFiniteSet(Starting') /\ Cardinality(Starting') \in Nat
<1>1. Starting' \subseteq Generator BY DEF Starting
<1> QED BY <1>1, StartingFinite, FS_Subset, FS_CardinalityType

\* An array can be allocated only while there is room for one.
LEMMA RoomForArray ==
  ASSUME TypeInv, NEW g \in Generator, g \in Starting
  PROVE  generations + 1 <= MaxArrays /\ generations + 1 \in Array
<1>1. Cardinality(Starting) >= 1
  <2>1. Cardinality(Starting \ {g}) = Cardinality(Starting) - 1
    BY StartingFinite, FS_RemoveElement
  <2>2. Cardinality(Starting \ {g}) \in Nat
    BY StartingFinite, FS_RemoveElement, FS_CardinalityType
  <2> QED BY <2>1, <2>2, StartingFinite
<1>2. generations \in 0 .. MaxArrays BY DEF TypeInv, TypeOK
<1> QED BY <1>1, <1>2, StartingFinite, SizesAssumption DEF TypeInv, Array

\* Who is about to allocate changes by the generator that takes the step.
LEMMA StartingStep ==
  ASSUME TypeInv, NEW g \in Generator
  PROVE  /\ BuggyCpuFound(g) => Starting' = Starting \cup {g}
         /\ BeginReport(g) => Starting' = Starting
         /\ AllocateArray(g) => g \in Starting /\ Starting' = Starting \ {g}
         /\ AllocateRow(g) => Starting' = Starting
         /\ AllocateTexts(g) => Starting' = Starting
         /\ GenerateFaults(g) =>
              IF At(gen[g], "array")
              THEN g \in Starting /\ Starting' = Starting \ {g}
              ELSE Starting' = Starting
         /\ AskForReports(g) => Starting' = Starting
<1> USE DEF TypeInv, TypeOK, At, Starting, Idle, Oops
<1>1. BuggyCpuFound(g) => Starting' = Starting \cup {g} BY DEF BuggyCpuFound
<1>2. BeginReport(g) => Starting' = Starting BY DEF BeginReport
<1>3. AllocateArray(g) => g \in Starting /\ Starting' = Starting \ {g}
  BY DEF AllocateArray
<1>4. AllocateRow(g) => Starting' = Starting BY DEF AllocateRow
<1>5. AllocateTexts(g) => Starting' = Starting BY DEF AllocateTexts
<1>6. GenerateFaults(g) =>
        IF At(gen[g], "array") THEN g \in Starting /\ Starting' = Starting \ {g}
        ELSE Starting' = Starting
  BY DEF GenerateFaults
<1>7. AskForReports(g) => Starting' = Starting BY DEF AskForReports
<1> QED BY <1>1, <1>2, <1>3, <1>4, <1>5, <1>6, <1>7

\* What the actions that are not a generator's leave alone.
LEMMA NotGenerating ==
  ASSUME \/ Module \/ Read \/ PrintCpu \/ UNCHANGED vars
         \/ \E b \in Balancer : \/ Fill(b)
                              \/ \E c \in CPU, d \in Domain : FillTest(b, c, d)
  PROVE  UNCHANGED <<allocated, gen, _generate_bug_report>>
  BY DEF Module, CreateProc, TimerInit, TimerCleanup, RemoveProc, Read,
     PrintCpu, Fill, FillClaim, FillCpu, FillTest, vars, allocated, flags

-----------------------------------------------------------------------------
\* A generator's step keeps the types.
LEMMA GeneratorType ==
  ASSUME TypeInv, NEW g \in Generator, BuggyCpuFound(g) \/ Generate(g)
  PROVE  TypeInv'
<1> USE DEF TypeInv, At
<1>0. /\ generations \in 0 .. MaxArrays /\ sched_reports \in 0 .. generations
      /\ gen \in [Generator -> GenState]
      /\ rows \in [Array -> SUBSET CPU] /\ texts \in [Array -> SUBSET CPU]
      /\ faults \subseteq {"no_text", "fill", "text", "read", "early"}
                          \X (Array \cup {NULL})
      /\ MaxArrays \in Nat
  BY SizesAssumption DEF TypeOK, GenState
<1>1. generations' + Cardinality(Starting') <= MaxArrays
  <2>1. CASE BuggyCpuFound(g)
    <3>1. Cardinality(Starting') <= Cardinality(Starting) + 1
      BY <2>1, StartingStep, StartingFinite, FS_AddElement
    <3>2. generations' = generations
          /\ generations + Cardinality(Starting) < MaxArrays
      BY <2>1 DEF BuggyCpuFound, allocated
    <3> QED BY <1>0, <3>1, <3>2, StartingFinite, StartingFiniteNext
  <2>2. CASE AllocateArray(g) \/ (GenerateFaults(g) /\ gen[g].pc = "array")
    <3>1. Cardinality(Starting') = Cardinality(Starting) - 1
      BY <2>2, StartingStep, StartingFinite, FS_RemoveElement
    <3>2. generations' = generations + 1
      BY <2>2 DEF AllocateArray, GenerateFaults
    <3> QED BY <1>0, <3>1, <3>2, StartingFinite
  <2>3. CASE \/ BeginReport(g) \/ AllocateRow(g) \/ AllocateTexts(g)
             \/ (GenerateFaults(g) /\ gen[g].pc # "array") \/ AskForReports(g)
    <3>1. Starting' = Starting BY <2>3, StartingStep
    <3>2. generations' = generations
      BY <2>3 DEF BeginReport, AllocateRow, AllocateTexts, GenerateFaults,
         AskForReports, allocated
    <3> QED BY <3>1, <3>2
  <2> QED BY <2>1, <2>2, <2>3, Zenon DEF Generate
<1>2. generations' \in 0 .. MaxArrays /\ sched_reports' \in 0 .. generations'
  <2>1. CASE AllocateArray(g) \/ (GenerateFaults(g) /\ gen[g].pc = "array")
    <3>1. g \in Starting BY <2>1, StartingStep
    <3> QED BY <1>0, <2>1, <3>1, RoomForArray
            DEF AllocateArray, GenerateFaults, NULL
  <2>2. CASE \/ BuggyCpuFound(g) \/ BeginReport(g) \/ AllocateRow(g)
             \/ AllocateTexts(g) \/ AskForReports(g)
             \/ (GenerateFaults(g) /\ gen[g].pc # "array")
    BY <1>0, <2>2 DEF BuggyCpuFound, BeginReport, AllocateRow, AllocateTexts,
       GenerateFaults, AskForReports, allocated
  <2> QED BY <2>1, <2>2, Zenon DEF Generate
<1>3. gen' \in [Generator -> GenState]
  <2>1. CASE BuggyCpuFound(g) BY <1>0, <2>1 DEF BuggyCpuFound, GenState
  <2>2. CASE BeginReport(g) BY <1>0, <2>2 DEF BeginReport, GenState
  <2>3. CASE AllocateArray(g)
    BY <1>0, <2>3 DEF AllocateArray, GenState, RowsToAllocate
  <2>4. CASE AllocateRow(g)
    <3>1. gen[g].todo \in SUBSET CPU
      BY <1>0, <2>4 DEF AllocateRow, GenState, Idle, Oops
    <3>2. PICK c \in CPU : gen' = [gen EXCEPT ![g] =
            [pc |-> "texts", cpu |-> c, todo |-> @.todo \ {c}]]
      BY <2>4 DEF AllocateRow
    <3>3. gen'[g] = [pc |-> "texts", cpu |-> c, todo |-> gen[g].todo \ {c}]
      BY <1>0, <3>2
    <3> QED BY <1>0, <3>1, <3>2, <3>3 DEF GenState
  <2>5. CASE AllocateTexts(g)
    <3>1. gen[g].todo \in SUBSET CPU
      BY <1>0, <2>5 DEF AllocateTexts, GenState, Idle, Oops
    <3> QED BY <1>0, <2>5, <3>1 DEF AllocateTexts, GenState
  <2>6. CASE GenerateFaults(g) BY <1>0, <2>6 DEF GenerateFaults, GenState
  <2>7. CASE AskForReports(g) BY <1>0, <2>7 DEF AskForReports, GenState
  <2> QED BY <2>1, <2>2, <2>3, <2>4, <2>5, <2>6, <2>7 DEF Generate
<1>4. rows' \in [Array -> SUBSET CPU] /\ texts' \in [Array -> SUBSET CPU]
  <2>1. CASE AllocateRow(g)
    <3>1. PICK c \in CPU : rows' = [rows EXCEPT ![sched_reports] = @ \cup {c}]
      BY <2>1 DEF AllocateRow
    <3>2. UNCHANGED texts BY <2>1 DEF AllocateRow
    <3> QED BY <1>0, <3>1, <3>2
  <2>2. CASE AllocateTexts(g)
    <3>1. gen[g].cpu \in CPU
      BY <1>0, <2>2 DEF AllocateTexts, GenState, Idle, Oops
    <3> QED BY <1>0, <2>2, <3>1 DEF AllocateTexts
  <2>3. CASE \/ BuggyCpuFound(g) \/ BeginReport(g) \/ AllocateArray(g)
             \/ GenerateFaults(g) \/ AskForReports(g)
    BY <1>0, <2>3 DEF BuggyCpuFound, BeginReport, AllocateArray,
       GenerateFaults, AskForReports, allocated
  <2> QED BY <2>1, <2>2, <2>3 DEF Generate
<1>5. faults' \subseteq {"no_text", "fill", "text", "read", "early"}
                        \X (Array \cup {NULL})
  <2>1. sched_reports \in Array \cup {NULL} BY <1>0 DEF Array, NULL
  <2>2. faults' = faults \/ faults' = faults \cup {<<"no_text", sched_reports>>}
    BY DEF BuggyCpuFound, Generate, BeginReport, AllocateArray, AllocateRow,
       AllocateTexts, GenerateFaults, AskForReports, Fault
  <2> QED BY <1>0, <2>1, <2>2
<1>6. UNCHANGED <<life, written, filler, reader>>
      /\ bug_report_generated' \in BOOLEAN /\ _generate_bug_report' \in BOOLEAN
  BY DEF TypeOK, BuggyCpuFound, Generate, BeginReport, AllocateArray,
     AllocateRow, AllocateTexts, GenerateFaults, AskForReports, flags
<1>7. UNCHANGED <<module, loads, rdt, lines, filler, cat, reads>>
  BY <1>6 DEF life, written, reader
<1> QED BY <1>1, <1>2, <1>3, <1>4, <1>5, <1>6, <1>7 DEF TypeOK, GenState

\* A balancer's step keeps the types.
LEMMA BalancerType ==
  ASSUME TypeOK, NEW b \in Balancer,
         Fill(b) \/ \E c \in CPU, d \in Domain : FillTest(b, c, d)
  PROVE  TypeOK'
<1> USE DEF FillTypeOK, FaultsOK
<1>0. FillTypeOK BY DEF TypeOK, FillState
<1>1. FillTypeOK'
  <2>1. ASSUME NEW c \in CPU, NEW d \in Domain, FillTest(b, c, d) PROVE FillTypeOK'
    <3>1. CASE c \notin Rows(sched_reports)
      BY <1>0, <2>1, <3>1 DEF FillTest, Fault, FillState, written
    <3>2. CASE c \in Rows(sched_reports)
      <4>1. sched_reports \in Array
        BY <3>2, SizesAssumption DEF Rows, TypeOK, Array, NULL
      <4>2. ReportOf(c, d) \in Report BY <4>1 DEF ReportOf, Report
      <4> QED BY <1>0, <2>1, <3>2, <4>2 DEF FillTest, FillState, written
    <3> QED BY <3>1, <3>2
  <2>2. CASE FillClaim(b)
    <3>1. filler[b].report \in Report
      BY <1>0, <2>2 DEF FillClaim, At, FillState, Idle, Oops
    <3>2. 0 \in CPU BY SizesAssumption DEF CPU
    <3> QED BY <1>0, <2>2, <3>1, <3>2 DEF FillClaim, FillState
  <2>3. CASE FillCpu(b)
    <3>1. filler[b] \in [pc : {"write"}, report : Report, cpu : CPU]
      BY <1>0, <2>3 DEF FillCpu, At, FillState, Idle, Oops
    <3> DEFINE r == filler[b].report
               c == filler[b].cpu
    <3>2. r \in Report /\ c \in CPU /\ r[1] \in Array BY <3>1 DEF Report
    <3>3. CASE r[2] \in texts[r[1]]
      <4>1. lines' = [lines EXCEPT ![r] = Append(@, c)]
            /\ filler' = [filler EXCEPT ![b] = IF LastCpu(c) THEN Idle
                                               ELSE [@ EXCEPT !.cpu = c + 1]]
            /\ UNCHANGED <<rdt, faults>>
        BY <2>3, <3>3 DEF FillCpu
      <4>2. ~LastCpu(c) => c + 1 \in CPU
        BY <3>2, SizesAssumption DEF LastCpu, CPU
      <4>3. ~LastCpu(c) => [filler[b] EXCEPT !.cpu = c + 1] \in
              [pc : {"write"}, report : Report, cpu : CPU]
        BY <3>1, <4>2
      <4>4. Append(lines[r], c) \in Seq(CPU) BY <1>0, <3>2
      <4>5. filler'[b] \in FillState BY <1>0, <4>1, <4>3 DEF FillState
      <4> QED BY <1>0, <3>2, <4>1, <4>4, <4>5
    <3>4. CASE r[2] \notin texts[r[1]]
      BY <1>0, <2>3, <3>2, <3>4 DEF FillCpu, Fault, FillState
    <3> QED BY <3>3, <3>4
  <2> HIDE DEF FillTypeOK
  <2> QED BY <2>1, <2>2, <2>3 DEF Fill
<1>2. UNCHANGED <<life, flags, allocated, gen, reader>>
  BY DEF Fill, FillClaim, FillCpu, FillTest
<1>3. UNCHANGED <<module, loads, bug_report_generated, _generate_bug_report,
                  sched_reports, generations, rows, texts, gen, cat, reads>>
  BY <1>2 DEF life, flags, allocated, reader
<1> QED BY <1>1, <1>3 DEF TypeOK, FillState

\* A step of the reader keeps the types.
LEMMA ReaderType ==
  ASSUME TypeOK, Read \/ PrintCpu
  PROVE  TypeOK'
<1>0. cat \in CatState
      /\ faults \subseteq {"no_text", "fill", "text", "read", "early"}
                          \X (Array \cup {NULL})
  BY DEF TypeOK, CatState
<1>1. cat' \in CatState /\ reads' \in 0 .. MaxReads
      /\ faults' \subseteq {"no_text", "fill", "text", "read", "early"}
                           \X (Array \cup {NULL})
  <2>1. CASE Read
    <3>1. sched_reports # NULL => sched_reports \in Array
      BY SizesAssumption DEF TypeOK, Array, NULL
    <3>2. reads' \in 0 .. MaxReads
      BY <2>1, SizesAssumption DEF Read, TypeOK
    <3> QED BY <1>0, <2>1, <3>1, <3>2 DEF Read, CatState, TypeOK
  <2>2. CASE PrintCpu
    <3>1. cat \in [pc : {"print"}, array : Array, todo : SUBSET CPU,
                   asked : BOOLEAN]
      BY <1>0, <2>2 DEF PrintCpu, At, CatState, Idle, Oops
    <3>2. \A c : [cat EXCEPT !.todo = @ \ {c}] \in CatState
      BY <3>1 DEF CatState
    <3>3. cat' \in CatState BY <2>2, <3>2 DEF PrintCpu, CatState
    <3>4. reads' \in 0 .. MaxReads BY <2>2 DEF PrintCpu, TypeOK
    <3>5. faults' \subseteq {"no_text", "fill", "text", "read", "early"}
                            \X (Array \cup {NULL})
      BY <1>0, <2>2 DEF PrintCpu, Fault
    <3> QED BY <3>3, <3>4, <3>5
  <2> QED BY <2>1, <2>2
<1>2. UNCHANGED <<life, flags, allocated, written, gen, filler>>
  BY DEF Read, PrintCpu
<1>3. UNCHANGED <<module, loads, bug_report_generated, _generate_bug_report,
                  sched_reports, generations, rows, texts, rdt, lines, gen,
                  filler>>
  BY <1>2 DEF life, flags, allocated, written
<1> QED BY <1>1, <1>3 DEF TypeOK, CatState

\* Every step keeps the types and the room for the arrays still to come.
LEMMA TypeInvariant == Spec => []TypeInv
<1>1. Init => TypeInv
  <2> SUFFICES ASSUME Init PROVE TypeInv OBVIOUS
  <2>1. Starting = {} BY DEF Init, Starting, Idle
  <2>2. TypeOK
    <3>1. lines \in [Report -> Seq(CPU)] BY DEF Init
    <3>2. rows \in [Array -> SUBSET CPU] /\ texts \in [Array -> SUBSET CPU]
      BY DEF Init
    <3>3. gen \in [Generator -> GenState] /\ filler \in [Balancer -> FillState]
          /\ cat \in CatState
      BY DEF Init, GenState, FillState, CatState
    <3>4. /\ module \in {"out", "created", "loaded", "cancelled"}
          /\ loads \in 0 .. MaxLoads /\ generations \in 0 .. MaxArrays
          /\ sched_reports \in 0 .. generations /\ rdt \subseteq Report
          /\ reads \in 0 .. MaxReads /\ FaultsOK
      BY SizesAssumption DEF Init, FaultsOK, NULL
    <3>5. bug_report_generated \in BOOLEAN /\ _generate_bug_report \in BOOLEAN
      BY Zenon DEF Init
    <3> QED BY <3>1, <3>2, <3>3, <3>4, <3>5
            DEF TypeOK, GenState, FillState, CatState, FaultsOK
  <2> QED BY <2>1, <2>2, FS_EmptySet, SizesAssumption DEF Init, TypeInv
<1>2. TypeInv /\ [Next]_vars => TypeInv'
  <2> SUFFICES ASSUME TypeInv, [Next]_vars PROVE TypeInv' OBVIOUS
  <2>1. ASSUME NEW g \in Generator, BuggyCpuFound(g) \/ Generate(g)
        PROVE  TypeInv'
    BY <2>1, GeneratorType
  <2>2. CASE \/ Module \/ Read \/ PrintCpu \/ UNCHANGED vars
             \/ \E b \in Balancer :
                  Fill(b) \/ \E c \in CPU, d \in Domain : FillTest(b, c, d)
    <3>1. TypeOK'
      <4>1. CASE Module
        <5>3. bug_report_generated' \in BOOLEAN
          <6>1. bug_report_generated' = FALSE
                \/ bug_report_generated' = bug_report_generated
            BY <4>1, Zenon DEF Module, CreateProc, TimerInit, TimerCleanup,
               RemoveProc, flags
          <6> QED BY <6>1, Zenon DEF TypeInv, TypeOK
        <5>1. /\ module' \in {"out", "created", "loaded", "cancelled"}
              /\ loads' \in 0 .. MaxLoads
          BY <4>1, SizesAssumption DEF TypeInv, TypeOK, Module, CreateProc,
             TimerInit, TimerCleanup, RemoveProc, flags
        <5>2. UNCHANGED <<_generate_bug_report, sched_reports, generations,
                          rows, texts, rdt, lines, gen, filler, cat, reads,
                          faults>>
          BY <4>1 DEF Module, CreateProc, TimerInit, TimerCleanup, RemoveProc,
             flags, allocated, written, reader
        <5> QED BY <5>1, <5>2, <5>3 DEF TypeInv, TypeOK
      <4>2. CASE Read \/ PrintCpu BY <4>2, ReaderType DEF TypeInv
      <4>3. CASE UNCHANGED vars
        BY <4>3 DEF TypeInv, TypeOK, vars, life, flags, allocated, written,
           reader
      <4>4. ASSUME NEW b \in Balancer,
                   Fill(b) \/ \E c \in CPU, d \in Domain : FillTest(b, c, d)
            PROVE  TypeOK'
        BY <4>4, BalancerType DEF TypeInv
      <4> QED BY ONLY <2>2, <4>1, <4>2, <4>3, <4>4
    <3>2. generations' = generations /\ Starting' = Starting
      BY <2>2, NotGenerating DEF allocated, Starting
    <3> QED BY <3>1, <3>2 DEF TypeInv
  <2> QED BY <2>1, <2>2 DEF Next
<1> QED BY <1>1, <1>2, PTL DEF Spec

\* The types of the reports, of the module's load and of all who use them hold
\* in every reachable state.
THEOREM TypeCorrect == Spec => []TypeOK
<1>1. TypeInv => TypeOK BY DEF TypeInv
<1> QED BY <1>1, TypeInvariant, PTL

-----------------------------------------------------------------------------
(***************************************************************************)
(* Who fills a report.  What it takes is that no two balancers call        *)
(* load_balance for the same CPU.                                          *)
(***************************************************************************)
OwnCpus ==
  \A b1, b2 \in Balancer : b1 # b2 => BalancesFor[b1] \cap BalancesFor[b2] = {}

OwnReport == \A b \in Balancer : Filling(b) => filler[b].report[2] \in BalancesFor[b]

\* A balancer fills reports of the CPUs it balances for.
LEMMA OwnReportInvariant == Spec => []OwnReport
<1>1. Init => OwnReport BY DEF Init, OwnReport, Filling, Idle
<1>2. TypeOK /\ OwnReport /\ [Next]_vars => OwnReport'
  <2> SUFFICES ASSUME TypeOK, OwnReport, [Next]_vars, NEW a \in Balancer,
                      Filling(a)'
               PROVE  filler'[a].report[2] \in BalancesFor[a]
    BY DEF OwnReport
  <2> USE DEF OwnReport, Filling, At
  <2>0. filler \in [Balancer -> FillState] BY DEF TypeOK, FillState
  <2>1. CASE UNCHANGED filler BY <2>1
  <2>2. ASSUME NEW b \in Balancer, NEW c \in CPU, NEW d \in Domain,
               FillTest(b, c, d)
        PROVE  filler'[a].report[2] \in BalancesFor[a]
    BY <2>0, <2>2 DEF FillTest, Oops, ReportOf
  <2>3. ASSUME NEW b \in Balancer, Fill(b)
        PROVE  filler'[a].report[2] \in BalancesFor[a]
    <3>1. CASE FillClaim(b) BY <2>0, <3>1 DEF FillClaim
    <3>2. CASE FillCpu(b)
      <4>1. filler[b] \in [pc : {"write"}, report : Report, cpu : CPU]
        BY <2>0, <3>2 DEF FillCpu, FillState, Idle, Oops
      <4>2. a # b => filler'[a] = filler[a] BY <2>0, <3>2 DEF FillCpu
      <4>3. a = b => filler'[a] \in {Idle, Oops}
                     \/ filler'[a] = [filler[a] EXCEPT !.cpu = filler[a].cpu + 1]
        BY <2>0, <3>2 DEF FillCpu
      <4>4. a = b => filler'[a].report = filler[a].report
        BY <4>1, <4>3 DEF Idle, Oops
      <4> QED BY <4>1, <4>2, <4>4
    <3> QED BY <2>3, <3>1, <3>2 DEF Fill
  <2>4. CASE \/ Module \/ Read \/ PrintCpu \/ UNCHANGED vars
             \/ \E g \in Generator : BuggyCpuFound(g) \/ Generate(g)
    <3>1. UNCHANGED filler
      BY <2>4 DEF Module, CreateProc, TimerInit, TimerCleanup, RemoveProc, Read,
         PrintCpu, vars, BuggyCpuFound, Generate, BeginReport, AllocateArray,
         AllocateRow, AllocateTexts, GenerateFaults, AskForReports
    <3> QED BY <2>1, <3>1
  <2> QED BY <2>2, <2>3, <2>4 DEF Next
<1> QED BY <1>1, <1>2, TypeCorrect, PTL DEF Spec

\* Where no two balancers share a CPU, a report is filled by one of them.
LEMMA OneFiller ==
  ASSUME OwnCpus, OwnReport PROVE OneFillerPerReport
  BY DEF OwnCpus, OwnReport, OneFillerPerReport

\* Where no two balancers call load_balance for the same CPU, no two write to
\* the same report at once, however many CPUs and generators there are.
THEOREM OneFillerPerReportTheorem == OwnCpus => (Spec => []OneFillerPerReport)
<1> SUFFICES ASSUME OwnCpus PROVE Spec => []OneFillerPerReport OBVIOUS
<1>1. OwnReport => OneFillerPerReport BY OneFiller
<1> QED BY <1>1, OwnReportInvariant, PTL

-----------------------------------------------------------------------------
(***************************************************************************)
(* Why nobody follows a missing row of the only array.  The generator that *)
(* allocates it is alone: the others have still to allocate theirs.  What  *)
(* it has visited has a row, and a text unless that allocation failed; it  *)
(* asks for the reports when it has visited every CPU.                     *)
(***************************************************************************)
NoText == <<"no_text", 1>> \in faults
Inside(g) == At(gen[g], "rows") \/ At(gen[g], "texts")

NoneYet ==
  /\ sched_reports = NULL /\ ~_generate_bug_report
  /\ \A a \in Array : rows[a] = {} /\ texts[a] = {}
  /\ \A g \in Generator : ~Inside(g)

Allocating ==
  /\ \A g, h \in Generator : Inside(g) /\ Inside(h) => g = h
  /\ \A g \in Generator : Inside(g) =>
       sched_reports = 1 /\ CPU \subseteq rows[1] \cup gen[g].todo
  /\ \A g \in Generator : At(gen[g], "rows") => NoText \/ rows[1] \subseteq texts[1]
  /\ \A g \in Generator : At(gen[g], "texts") =>
       /\ gen[g].cpu \in rows[1]
       /\ NoText \/ rows[1] \ {gen[g].cpu} \subseteq texts[1]
  /\ _generate_bug_report =>
       /\ sched_reports = 1 /\ rows[1] = CPU
       /\ NoText \/ texts[1] = CPU

RowsInv ==
  /\ generations = 0 => NoneYet
  /\ generations = 1 => Allocating

\* Only generators touch what RowsInv speaks of.
LEMMA RowsInvariant == Spec => []RowsInv
<1>1. Init => RowsInv
  BY DEF Init, RowsInv, NoneYet, Inside, At, Idle
<1>2. TypeInv /\ RowsInv /\ [Next]_vars => RowsInv'
  <2> SUFFICES ASSUME TypeInv, RowsInv, [Next]_vars PROVE RowsInv' OBVIOUS
  <2>0. /\ gen \in [Generator -> GenState] /\ generations \in 0 .. MaxArrays
        /\ rows \in [Array -> SUBSET CPU] /\ texts \in [Array -> SUBSET CPU]
        /\ sched_reports \in 0 .. generations
        /\ MaxArrays \in Nat /\ (generations >= 1 => 1 \in Array)
    BY SizesAssumption DEF TypeInv, TypeOK, GenState, Array
  <2> USE DEF At, Inside
  <2>1. CASE \/ Module \/ Read \/ PrintCpu \/ UNCHANGED vars
             \/ \E b \in Balancer :
                  Fill(b) \/ \E c \in CPU, d \in Domain : FillTest(b, c, d)
    <3>1. UNCHANGED <<sched_reports, generations, rows, texts, gen,
                      _generate_bug_report>>
      BY <2>1, NotGenerating DEF allocated
    <3>2. faults \subseteq faults'
      BY <2>1 DEF Module, CreateProc, TimerInit, TimerCleanup, RemoveProc, Read,
         PrintCpu, Fill, FillClaim, FillCpu, FillTest, vars, Fault
    <3> QED BY <3>1, <3>2 DEF RowsInv, NoneYet, Allocating, NoText
  <2>2. ASSUME NEW g \in Generator, BuggyCpuFound(g) \/ BeginReport(g)
        PROVE  RowsInv'
    BY <2>0, <2>2 DEF BuggyCpuFound, BeginReport, allocated, flags, RowsInv,
       NoneYet, Allocating, NoText, Idle
  <2>3. ASSUME NEW g \in Generator, AllocateArray(g) PROVE RowsInv'
    <3>1. generations' = generations + 1 /\ sched_reports' = generations + 1
          /\ gen' = [gen EXCEPT ![g] = [pc |-> "rows", todo |-> CPU]]
          /\ UNCHANGED <<rows, texts, faults, _generate_bug_report>>
      BY <2>3 DEF AllocateArray, RowsToAllocate, flags
    <3>2. CASE generations = 0
      <4>1. g \in Starting BY <2>3, StartingStep
      <4>2. 1 \in Array BY <3>2, <4>1, RoomForArray
      <4> QED BY <2>0, <3>1, <3>2, <4>2 DEF RowsInv, NoneYet, Allocating
    <3>3. CASE generations # 0 BY <2>0, <3>1, <3>3 DEF RowsInv
    <3> QED BY <3>2, <3>3
  <2>4. ASSUME NEW g \in Generator, AllocateRow(g) PROVE RowsInv'
    <3>1. PICK c \in CPU :
            /\ c \in gen[g].todo
            /\ rows' = [rows EXCEPT ![sched_reports] = @ \cup {c}]
            /\ gen' = [gen EXCEPT ![g] =
                         [pc |-> "texts", cpu |-> c, todo |-> @.todo \ {c}]]
      BY <2>4 DEF AllocateRow, Due
    <3>2. UNCHANGED <<generations, sched_reports, texts, faults,
                      _generate_bug_report>> /\ gen[g].pc = "rows"
      BY <2>4 DEF AllocateRow, flags
    <3>3. gen[g].todo \in SUBSET CPU BY <2>0, <3>2 DEF GenState, Idle, Oops
    <3>4. CASE generations = 1
      <4>1. sched_reports = 1 /\ rows'[1] = rows[1] \cup {c}
        BY <2>0, <3>1, <3>2, <3>4 DEF RowsInv, Allocating
      <4>2. gen'[g] = [pc |-> "texts", cpu |-> c, todo |-> gen[g].todo \ {c}]
            /\ \A h \in Generator \ {g} : gen'[h] = gen[h]
        BY <2>0, <3>1
      <4>3. \A h \in Generator : Inside(h)' <=> Inside(h)
        BY <3>2, <4>2
      <4>4. Allocating /\ rows[1] \subseteq CPU /\ (NoText' <=> NoText)
        BY <2>0, <3>2, <3>4 DEF RowsInv, NoText
      <4>5. \A h \in Generator : Inside(h)' => h = g
        BY <3>2, <4>3, <4>4 DEF Allocating
      <4>6. CPU \subseteq rows'[1] \cup gen'[g].todo
        BY <3>2, <4>1, <4>2, <4>4 DEF Allocating
      <4>7. /\ gen'[g].cpu \in rows'[1]
            /\ NoText' \/ (rows'[1] \ {gen'[g].cpu} \subseteq texts'[1])
        BY <3>2, <4>1, <4>2, <4>4 DEF Allocating
      <4>8. _generate_bug_report' =>
              /\ sched_reports' = 1 /\ rows'[1] = CPU
              /\ NoText' \/ (texts'[1] = CPU)
        BY <3>1, <3>2, <4>1, <4>4 DEF Allocating
      <4>9. Allocating'
        BY <3>2, <4>1, <4>2, <4>5, <4>6, <4>7, <4>8 DEF Allocating
      <4> QED BY <3>2, <3>4, <4>9 DEF RowsInv
    <3>5. CASE generations # 1
      BY <3>2, <3>5 DEF RowsInv, NoneYet
    <3> QED BY <3>4, <3>5
  <2>5. ASSUME NEW g \in Generator, AllocateTexts(g) PROVE RowsInv'
    <3>1. /\ gen' = [gen EXCEPT ![g] = [pc |-> "rows", todo |-> @.todo]]
          /\ \/ /\ texts' = [texts EXCEPT ![sched_reports] = @ \cup {gen[g].cpu}]
                /\ faults' = faults
             \/ /\ faults' = faults \cup {<<"no_text", sched_reports>>}
                /\ texts' = texts
          /\ UNCHANGED <<generations, sched_reports, rows, _generate_bug_report>>
          /\ gen[g].pc = "texts"
      BY <2>5 DEF AllocateTexts, Fault, flags
    <3>2. CASE generations = 1
      <4>1. sched_reports = 1 BY <3>1, <3>2 DEF RowsInv, Allocating
      <4>2. gen'[g] = [pc |-> "rows", todo |-> gen[g].todo]
            /\ \A h \in Generator \ {g} : gen'[h] = gen[h]
        BY <2>0, <3>1
      <4>3. NoText' \/ (texts'[1] = texts[1] \cup {gen[g].cpu} /\ (NoText => NoText'))
        BY <2>0, <3>1, <3>2, <4>1 DEF NoText
      <4>4. gen[g].cpu \in CPU BY <2>0, <3>1 DEF GenState, Idle, Oops
      <4>5. Allocating BY <3>2 DEF RowsInv
      <4>6. \A h \in Generator : Inside(h)' => h = g
        BY <3>1, <4>2, <4>5 DEF Allocating
      <4>7. CPU \subseteq rows'[1] \cup gen'[g].todo
        BY <3>1, <4>2, <4>5 DEF Allocating
      <4>8. NoText' \/ (rows'[1] \subseteq texts'[1])
        <5>1. NoText \/ (rows[1] \ {gen[g].cpu} \subseteq texts[1])
          BY <3>1, <4>5 DEF Allocating
        <5> QED BY <3>1, <4>3, <5>1
      <4>9. _generate_bug_report' =>
              /\ sched_reports' = 1 /\ rows'[1] = CPU
              /\ NoText' \/ (texts'[1] = CPU)
        <5>1. _generate_bug_report =>
                rows[1] = CPU /\ (NoText \/ (texts[1] = CPU))
          BY <4>5 DEF Allocating
        <5> QED BY <3>1, <4>1, <4>3, <4>4, <5>1
      <4>10. Allocating'
        BY <3>1, <4>1, <4>2, <4>6, <4>7, <4>8, <4>9 DEF Allocating
      <4> QED BY <3>1, <3>2, <4>10 DEF RowsInv
    <3>3. CASE generations # 1 BY <3>1, <3>3 DEF RowsInv, NoneYet
    <3> QED BY <3>2, <3>3
  <2>6. ASSUME NEW g \in Generator, GenerateFaults(g) PROVE RowsInv'
    <3>1. gen' = [gen EXCEPT ![g] = Oops]
          /\ UNCHANGED <<rows, texts, faults, _generate_bug_report>>
      BY <2>6 DEF GenerateFaults, flags
    <3>2. CASE UNCHANGED <<sched_reports, generations>>
      BY <2>0, <3>1, <3>2 DEF RowsInv, NoneYet, Allocating, NoText, Oops
    <3>3. CASE gen[g].pc = "array" /\ sched_reports' = NULL
               /\ generations' = generations + 1
      BY <2>0, <3>1, <3>3 DEF RowsInv, NoneYet, Allocating, NoText, Oops
    <3> QED BY <2>6, <3>2, <3>3 DEF GenerateFaults
  <2>7. ASSUME NEW g \in Generator, AskForReports(g) PROVE RowsInv'
    <3>1. /\ gen' = [gen EXCEPT ![g] = Idle] /\ _generate_bug_report' = TRUE
          /\ gen[g].pc = "rows" /\ gen[g].todo = {}
          /\ UNCHANGED <<rows, texts, faults, sched_reports, generations>>
      BY <2>7 DEF AskForReports, allocated
    <3>2. generations # 0 BY <3>1 DEF RowsInv, NoneYet
    <3>3. CASE generations = 1
      <4>1. Allocating /\ rows[1] \subseteq CPU /\ texts[1] \subseteq CPU
        BY <2>0, <3>3 DEF RowsInv
      <4>2. \A h \in Generator : ~Inside(h)'
        <5>1. \A h \in Generator : Inside(h) => h = g
          BY <3>1, <4>1 DEF Allocating
        <5> QED BY <2>0, <3>1, <5>1 DEF Idle
      <4>3. sched_reports = 1 /\ rows[1] = CPU BY <3>1, <4>1 DEF Allocating
      <4>4. NoText \/ (texts[1] = CPU) BY <3>1, <4>1, <4>3 DEF Allocating
      <4>5. Allocating' BY <3>1, <4>2, <4>3, <4>4 DEF Allocating, NoText
      <4> QED BY <3>1, <3>3, <4>5 DEF RowsInv
    <3> QED BY <3>1, <3>2, <3>3 DEF RowsInv
  <2> QED BY <2>1, <2>2, <2>3, <2>4, <2>5, <2>6, <2>7 DEF Next, Generate
<1> QED BY <1>1, <1>2, TypeInvariant, PTL DEF Spec


(***************************************************************************)
(* Whoever uses the reports does so once they have been asked for, and     *)
(* RowsInv says what exists by then.                                       *)
(***************************************************************************)
Printing == At(cat, "print") /\ cat.asked

UsesInv ==
  /\ \A b \in Balancer : Filling(b) => _generate_bug_report
  /\ Printing => _generate_bug_report /\ cat.array <= generations
  /\ FillSeesRows
  /\ ReadSeesRows

\* While there is one array at most and the reports are asked for, it is the
\* first, complete but for the texts whose allocation failed.
LEMMA AskedIsComplete ==
  ASSUME TypeInv, RowsInv, _generate_bug_report, generations <= 1
  PROVE  /\ generations = 1 /\ sched_reports = 1 /\ rows[1] = CPU
         /\ NoText \/ (texts[1] = CPU)
<1>1. generations \in 0 .. MaxArrays /\ MaxArrays \in Nat
  BY SizesAssumption DEF TypeInv, TypeOK
<1>2. generations = 1 BY <1>1 DEF RowsInv, NoneYet
<1> QED BY <1>2 DEF RowsInv, Allocating

\* What a step that uses no report leaves of UsesInv.
LEMMA UsesKept ==
  ASSUME TypeInv, UsesInv, UNCHANGED <<filler, cat>>,
         _generate_bug_report => _generate_bug_report',
         generations' \in Nat, generations <= generations',
         NEW f, faults' = faults \/ faults' = faults \cup {<<"no_text", f>>}
  PROVE  UsesInv'
<1>1. generations \in Nat BY SizesAssumption DEF TypeInv, TypeOK
<1>2. (\A b \in Balancer : Filling(b) => _generate_bug_report)'
  BY DEF UsesInv, Filling
<1>3. (Printing => _generate_bug_report /\ cat.array <= generations)'
  <2> SUFFICES ASSUME Printing' PROVE _generate_bug_report'
                                       /\ cat'.array <= generations'
    OBVIOUS
  <2>1. At(cat, "print") /\ cat.asked BY DEF Printing, At
  <2>2. cat \in CatState BY DEF TypeInv, TypeOK, CatState
  <2>3. cat.array \in Nat
    BY <2>1, <2>2, SizesAssumption DEF CatState, Array, At, Idle, Oops
  <2>4. _generate_bug_report /\ cat.array <= generations
    BY <2>1 DEF UsesInv, Printing
  <2> QED BY <1>1, <2>3, <2>4
<1>4. FillSeesRows' BY <1>1 DEF UsesInv, FillSeesRows
<1>5. ReadSeesRows' BY <1>1 DEF UsesInv, ReadSeesRows
<1> QED BY <1>2, <1>3, <1>4, <1>5 DEF UsesInv

\* A balancer's step.
LEMMA FillUses ==
  ASSUME TypeInv, RowsInv, UsesInv, NEW b \in Balancer,
         Fill(b) \/ \E c \in CPU, d \in Domain : FillTest(b, c, d)
  PROVE  UsesInv'
<1>0. /\ filler \in [Balancer -> FillState]
      /\ UNCHANGED <<cat, generations, _generate_bug_report>>
  BY DEF TypeInv, TypeOK, FillState, Fill, FillClaim, FillCpu, FillTest,
     allocated, flags, reader
<1>1. _generate_bug_report /\ \A a \in Balancer \ {b} : filler'[a] = filler[a]
  BY <1>0 DEF UsesInv, Filling, Fill, FillClaim, FillCpu, FillTest, At
<1>2. (\A a \in Balancer : Filling(a) => _generate_bug_report)'
  BY <1>0, <1>1
<1>3. (Printing => _generate_bug_report /\ cat.array <= generations)'
  BY <1>0 DEF UsesInv, Printing, At
<1>4. ASSUME generations <= 1
      PROVE  \/ faults' = faults
             \/ \E a : faults' = faults \cup {<<"text", a>>} /\ (a = 1 => NoText)
  <2>1. sched_reports = 1 /\ rows[1] = CPU /\ (NoText \/ (texts[1] = CPU))
    BY <1>1, <1>4, AskedIsComplete
  <2>2. ASSUME NEW c \in CPU, NEW d \in Domain, FillTest(b, c, d)
        PROVE  faults' = faults
    BY <2>1, <2>2 DEF FillTest, Rows, NULL
  <2>3. CASE FillClaim(b) BY <2>3 DEF FillClaim
  <2>4. CASE FillCpu(b)
    <3>1. filler[b].report[2] \in CPU
      BY <1>0, <2>4 DEF FillCpu, At, FillState, Idle, Oops, Report
    <3> QED BY <2>1, <2>4, <3>1 DEF FillCpu, Fault
  <2> QED BY <2>2, <2>3, <2>4 DEF Fill
<1>5. FillSeesRows' BY <1>0, <1>4 DEF UsesInv, FillSeesRows, NoText
<1>6. ReadSeesRows' BY <1>0, <1>4 DEF UsesInv, ReadSeesRows
<1> QED BY <1>2, <1>3, <1>5, <1>6 DEF UsesInv

\* A step of the reader.
LEMMA ReadUses ==
  ASSUME TypeInv, RowsInv, UsesInv, Read \/ PrintCpu
  PROVE  UsesInv'
<1>0. UNCHANGED <<filler, generations, _generate_bug_report>>
      /\ generations \in Nat /\ sched_reports <= generations
  BY SizesAssumption DEF TypeInv, TypeOK, Read, PrintCpu, allocated, flags
<1>1. (\A a \in Balancer : Filling(a) => _generate_bug_report)'
  BY <1>0 DEF UsesInv, Filling
<1>2. CASE Read
  <2>1. faults' = faults BY <1>2 DEF Read
  <2>2. (Printing => _generate_bug_report /\ cat.array <= generations)'
    BY <1>0, <1>2 DEF Read, Printing, At, Idle
  <2> QED BY <1>0, <1>1, <2>1, <2>2 DEF UsesInv, FillSeesRows, ReadSeesRows
<1>3. CASE PrintCpu
  <2>1. cat \in [pc : {"print"}, array : Array, todo : SUBSET CPU,
                 asked : BOOLEAN]
    BY <1>3 DEF TypeInv, TypeOK, PrintCpu, At, Idle, Oops
  <2>2. \/ cat' \in {Idle, Oops}
        \/ \E t : cat' = [cat EXCEPT !.todo = t]
    BY <1>3 DEF PrintCpu
  <2>3. (Printing => _generate_bug_report /\ cat.array <= generations)'
    <3>1. CASE cat' \in {Idle, Oops}
      BY <3>1 DEF Printing, At, Idle, Oops
    <3>2. ASSUME NEW t, cat' = [cat EXCEPT !.todo = t]
          PROVE  Printing' => Printing /\ cat'.array = cat.array
      <4>1. cat'.array = cat.array /\ cat'.asked = cat.asked
        BY <2>1, <3>2
      <4> QED BY <1>3, <4>1, Zenon DEF Printing, PrintCpu, At
    <3> QED BY <1>0, <2>2, <3>1, <3>2 DEF UsesInv
  <2>4. ASSUME generations <= 1, ~NoText
        PROVE  <<"read", NULL>> \in faults' => <<"read", NULL>> \in faults
    <3>1. CASE cat.asked
      <4>1. _generate_bug_report /\ cat.array <= generations
        BY <1>3, <3>1 DEF UsesInv, Printing, PrintCpu
      <4>2. rows[1] = CPU /\ texts[1] = CPU
        BY <2>4, <4>1, AskedIsComplete
      <4>3. cat.array = 1
        BY <1>0, <2>1, <2>4, <4>1, SizesAssumption DEF Array
      <4>4. \A c \in CPU : Readable(cat.array, c) BY <4>2, <4>3 DEF Readable
      <4> QED BY <1>3, <4>4 DEF PrintCpu
    <3>2. CASE ~cat.asked
      BY <1>3, <3>2 DEF PrintCpu, Fault
    <3> QED BY <3>1, <3>2
  <2>5. /\ faults \subseteq faults'
        /\ \A a : <<"text", a>> \in faults' => <<"text", a>> \in faults
        /\ <<"fill", NULL>> \in faults' => <<"fill", NULL>> \in faults
    BY <1>3 DEF PrintCpu, Fault
  <2>6. FillSeesRows' BY <1>0, <2>5 DEF UsesInv, FillSeesRows
  <2>7. ReadSeesRows' BY <1>0, <2>4, <2>5 DEF UsesInv, ReadSeesRows, NoText
  <2> QED BY <1>1, <2>3, <2>6, <2>7 DEF UsesInv
<1> QED BY <1>2, <1>3

\* Every step keeps that reports are used only once they are complete.
LEMMA UsesInvariant == Spec => []UsesInv
<1>1. Init => UsesInv
  BY DEF Init, UsesInv, Filling, Printing, At, Idle, FillSeesRows, ReadSeesRows
<1>2. TypeInv /\ TypeInv' /\ RowsInv /\ UsesInv /\ [Next]_vars => UsesInv'
  <2> SUFFICES ASSUME TypeInv, TypeInv', RowsInv, UsesInv, [Next]_vars
               PROVE UsesInv'
    OBVIOUS
  <2>0. generations \in Nat /\ generations' \in Nat
    BY SizesAssumption DEF TypeInv, TypeOK
  <2>1. ASSUME NEW g \in Generator, BuggyCpuFound(g) \/ Generate(g)
        PROVE  UsesInv'
    <3>1. UNCHANGED <<filler, cat>>
          /\ (_generate_bug_report => _generate_bug_report')
      BY <2>1 DEF BuggyCpuFound, Generate, BeginReport, AllocateArray,
         AllocateRow, AllocateTexts, GenerateFaults, AskForReports, flags,
         reader
    <3>2. generations' = generations \/ generations' = generations + 1
      BY <2>1 DEF BuggyCpuFound, Generate, BeginReport, AllocateArray,
         AllocateRow, AllocateTexts, GenerateFaults, AskForReports, allocated
    <3>3. faults' = faults \/ faults' = faults \cup {<<"no_text", sched_reports>>}
      BY <2>1 DEF BuggyCpuFound, Generate, BeginReport, AllocateArray,
         AllocateRow, AllocateTexts, GenerateFaults, AskForReports, Fault
    <3>4. generations <= generations' BY <2>0, <3>2
    <3> QED BY <2>0, <3>1, <3>3, <3>4, UsesKept
  <2>2. CASE Module \/ UNCHANGED vars
    <3>1. UNCHANGED <<filler, cat, _generate_bug_report, generations, faults>>
      BY <2>2 DEF Module, CreateProc, TimerInit, TimerCleanup, RemoveProc, vars,
         flags, allocated, reader
    <3> QED BY <2>0, <3>1, UsesKept
  <2>3. CASE Read \/ PrintCpu BY <2>3, ReadUses
  <2>4. ASSUME NEW b \in Balancer,
               Fill(b) \/ \E c \in CPU, d \in Domain : FillTest(b, c, d)
        PROVE  UsesInv'
    BY <2>4, FillUses
  <2> QED BY <2>1, <2>2, <2>3, <2>4 DEF Next
<1> QED BY <1>1, <1>2, TypeInvariant, RowsInvariant, PTL DEF Spec

\* load_balance follows no NULL row of the only array, and writes through no
\* NULL text of the first but where its allocation failed: generate_bug_report
\* asks for the reports after its loop over the CPUs.
THEOREM FillSeesRowsTheorem == Spec => []FillSeesRows
<1>1. UsesInv => FillSeesRows BY DEF UsesInv
<1> QED BY <1>1, UsesInvariant, PTL

\* A process that reads stap_cntl after the only reports were asked for follows
\* no NULL row or text, however many CPUs and levels of domains there are.
THEOREM ReadSeesRowsTheorem == Spec => []ReadSeesRows
<1>1. UsesInv => ReadSeesRows BY DEF UsesInv
<1> QED BY <1>1, UsesInvariant, PTL

-----------------------------------------------------------------------------
(***************************************************************************)
(* The refinement.  A filler's cpu is the length of what it has written,   *)
(* and its report is announced from its claim on.                          *)
(***************************************************************************)
BookInv ==
  /\ \A r \in Report : r \notin rdt => lines[r] = <<>>
  /\ \A b \in Balancer : At(filler[b], "claim") => filler[b].report \notin rdt
  /\ \A b \in Balancer : At(filler[b], "write") =>
       filler[b].report \in rdt /\ filler[b].cpu = Len(lines[filler[b].report])

\* A step of load_balance keeps BookInv and is a step of the book or none.
LEMMA FillIsBook ==
  ASSUME TypeOK, OneFillerPerReport, BookInv, NEW b \in Balancer,
         Fill(b) \/ \E c \in CPU, d \in Domain : FillTest(b, c, d)
  PROVE  BookInv' /\ (Book!Next \/ UNCHANGED Book!book)
<1> USE DEF At
<1>0. /\ filler \in [Balancer -> FillState] /\ lines \in [Report -> Seq(CPU)]
      /\ \A a \in Balancer \ {b} : filler'[a] = filler[a]
  BY DEF TypeOK, FillState, Fill, FillClaim, FillCpu, FillTest
<1>1. ASSUME NEW c \in CPU, NEW d \in Domain, FillTest(b, c, d)
      PROVE  BookInv' /\ (Book!Next \/ UNCHANGED Book!book)
  <2>1. UNCHANGED <<rdt, lines>> BY <1>1 DEF FillTest, written
  <2>2. \/ filler'[b] = Oops
        \/ /\ filler'[b] = [pc |-> "claim", report |-> ReportOf(c, d)]
           /\ ReportOf(c, d) \notin rdt
    BY <1>0, <1>1 DEF FillTest, Taken
  <2>3. ~At(filler[b], "write")'
        /\ (At(filler[b], "claim")' => filler'[b].report \notin rdt')
    BY <2>1, <2>2 DEF Oops
  <2>4. (\A r \in Report : r \notin rdt => lines[r] = <<>>)'
    BY <2>1 DEF BookInv
  <2>5. (\A a \in Balancer : At(filler[a], "claim") => filler[a].report \notin rdt)'
    BY <1>0, <2>1, <2>3 DEF BookInv
  <2>6. (\A a \in Balancer : At(filler[a], "write") =>
           filler[a].report \in rdt
           /\ filler[a].cpu = Len(lines[filler[a].report]))'
    BY <1>0, <2>1, <2>3 DEF BookInv
  <2>7. BookInv' BY <2>4, <2>5, <2>6 DEF BookInv
  <2> QED BY <2>1, <2>7 DEF Book!book
<1>2. CASE FillClaim(b)
  <2> DEFINE r == filler[b].report
  <2>1. r \in Report BY <1>0, <1>2 DEF FillClaim, FillState, Idle, Oops
  <2>2. /\ r \notin rdt /\ lines[r] = <<>>
        /\ rdt' = rdt \cup {r} /\ UNCHANGED lines
        /\ filler'[b] = [pc |-> "write", report |-> r, cpu |-> 0]
    BY <1>0, <1>2, <2>1 DEF FillClaim, BookInv
  <2>3. \A a \in Balancer \ {b} : At(filler[a], "claim") => filler[a].report # r
    BY <1>2 DEF OneFillerPerReport, Filling, FillClaim
  <2>4. (\A q \in Report : q \notin rdt => lines[q] = <<>>)'
    BY <2>2 DEF BookInv
  <2>5. (\A a \in Balancer : At(filler[a], "claim") => filler[a].report \notin rdt)'
    BY <1>0, <2>2, <2>3 DEF BookInv
  <2>6. (\A a \in Balancer : At(filler[a], "write") =>
           filler[a].report \in rdt
           /\ filler[a].cpu = Len(lines[filler[a].report]))'
    BY <1>0, <2>2 DEF BookInv
  <2>7. Book!Announce(r) BY <2>2 DEF Book!Announce
  <2> QED BY <2>1, <2>4, <2>5, <2>6, <2>7 DEF BookInv, Book!Next
<1>3. CASE FillCpu(b)
  <2>1. filler[b] \in [pc : {"write"}, report : Report, cpu : CPU]
    BY <1>0, <1>3 DEF FillCpu, FillState, Idle, Oops
  <2> DEFINE r == filler[b].report
             c == filler[b].cpu
  <2>2. /\ r \in Report /\ c \in CPU /\ r \in rdt /\ c = Len(lines[r])
        /\ lines[r] \in Seq(CPU) /\ UNCHANGED rdt
    BY <1>0, <1>3, <2>1 DEF FillCpu, BookInv
  <2>3. CASE UNCHANGED lines /\ filler'[b] = Oops
    <3>1. ~At(filler[b], "claim")' /\ ~At(filler[b], "write")'
      BY <2>3 DEF Oops
    <3>2. (\A q \in Report : q \notin rdt => lines[q] = <<>>)'
      BY <2>2, <2>3 DEF BookInv
    <3>3. (\A a \in Balancer :
             At(filler[a], "claim") => filler[a].report \notin rdt)'
      BY <1>0, <2>2, <3>1 DEF BookInv
    <3>4. (\A a \in Balancer : At(filler[a], "write") =>
             filler[a].report \in rdt
             /\ filler[a].cpu = Len(lines[filler[a].report]))'
      BY <1>0, <2>2, <2>3, <3>1 DEF BookInv
    <3>5. BookInv' BY <3>2, <3>3, <3>4 DEF BookInv
    <3> QED BY <2>2, <2>3, <3>5 DEF Book!book
  <2>4. CASE lines' = [lines EXCEPT ![r] = Append(@, c)]
             /\ filler'[b] = IF LastCpu(c) THEN Idle
                             ELSE [filler[b] EXCEPT !.cpu = c + 1]
    <3>1. lines'[r] = Append(lines[r], c) /\ Len(lines'[r]) = c + 1
      BY <1>0, <2>2, <2>4
    <3>2. \A q \in Report \ {r} : lines'[q] = lines[q] BY <1>0, <2>4
    <3>3. \A a \in Balancer \ {b} : At(filler[a], "write") => filler[a].report # r
      BY <1>3 DEF OneFillerPerReport, Filling, FillCpu
    <3>4. \/ filler'[b] = Idle
          \/ filler'[b] = [pc |-> "write", report |-> r, cpu |-> c + 1]
      BY <2>1, <2>4
    <3>5. \A a \in Balancer : At(filler[a], "write") => filler[a].report \in Report
      BY <1>0 DEF FillState, Idle, Oops
    <3>6. (\A q \in Report : q \notin rdt => lines[q] = <<>>)'
      BY <2>2, <3>2 DEF BookInv
    <3>7. (\A a \in Balancer :
             At(filler[a], "claim") => filler[a].report \notin rdt)'
      BY <1>0, <2>2, <3>4 DEF BookInv, Idle
    <3>8. (\A a \in Balancer : At(filler[a], "write") =>
             filler[a].report \in rdt
             /\ filler[a].cpu = Len(lines[filler[a].report]))'
      BY <1>0, <2>2, <3>1, <3>2, <3>3, <3>4, <3>5 DEF BookInv, Idle
    <3>9. Book!Write(r)
      <4>1. c < NrCpus BY <2>2, SizesAssumption DEF CPU
      <4>2. lines' = [lines EXCEPT ![r] = Append(@, Len(@))] BY <2>2, <2>4
      <4> QED BY <2>2, <4>1, <4>2 DEF Book!Write
    <3> QED BY <2>2, <3>6, <3>7, <3>8, <3>9 DEF BookInv, Book!Next
  <2> QED BY <1>0, <1>3, <2>3, <2>4 DEF FillCpu
<1> QED BY <1>1, <1>2, <1>3 DEF Fill

\* The reports that load_balance fills are a ReportBook, where no two balancers
\* call it for the same CPU: however generators, fillers, readers and loads of
\* stap_monitor interleave, a report is announced once, written from the first
\* CPU to the last and left alone, and no unload or second array takes one back.
THEOREM Refinement == OwnCpus => (Spec => ImplementsReportBook)
<1> SUFFICES ASSUME OwnCpus PROVE Spec => ImplementsReportBook OBVIOUS
<1>1. Init => BookInv /\ Book!Init
  BY DEF Init, BookInv, Book!Init, At, Idle
<1>2. TypeOK /\ OwnReport /\ BookInv /\ [Next]_vars
        => BookInv' /\ [Book!Next]_(Book!book)
  <2> SUFFICES ASSUME TypeOK, OwnReport, BookInv, [Next]_vars
               PROVE  BookInv' /\ (Book!Next \/ UNCHANGED Book!book)
    OBVIOUS
  <2>1. ASSUME NEW b \in Balancer,
               Fill(b) \/ \E c \in CPU, d \in Domain : FillTest(b, c, d)
        PROVE  BookInv' /\ (Book!Next \/ UNCHANGED Book!book)
    BY <2>1, OneFiller, FillIsBook
  <2>2. CASE \/ Module \/ Read \/ PrintCpu \/ UNCHANGED vars
             \/ \E g \in Generator : BuggyCpuFound(g) \/ Generate(g)
    <3>1. UNCHANGED <<rdt, lines, filler>>
      BY <2>2 DEF Module, CreateProc, TimerInit, TimerCleanup, RemoveProc, Read,
         PrintCpu, vars, written, BuggyCpuFound, Generate, BeginReport,
         AllocateArray, AllocateRow, AllocateTexts, GenerateFaults, AskForReports
    <3> QED BY <3>1 DEF BookInv, Book!book
  <2> QED BY <2>1, <2>2 DEF Next
<1> QED BY <1>1, <1>2, TypeCorrect, OwnReportInvariant, PTL
        DEF Spec, ImplementsReportBook, Book!Spec
=============================================================================
