--------------------------- MODULE SampleProfiler ---------------------------
(***************************************************************************)
(* A sched_profiler module: hooks the patched kernel calls through function *)
(* pointers, handlers that append to one buffer of sample entries, the     *)
(* /proc/sched_profiler file that prints it, insmod and rmmod.  The two    *)
(* profilers of the repository are this program with different hooks and   *)
(* handlers, which modules VisualizationHooks and WakeupHooks give as the  *)
(* constants below.  What the log they keep promises is module SampleLog.  *)
(*                                                                         *)
(* No lock is taken anywhere.  A CPU tests a hook, loads it again to call  *)
(* it, claims an entry by fetch-and-add and fills it field by field; other *)
(* CPUs, the reader and rmmod run in between.  The value a sample carries  *)
(* is not modelled, which fields of an entry have been written is.         *)
(***************************************************************************)
EXTENDS Integers, Sequences, FiniteSets

CONSTANTS
  Cpu,             \* the CPUs that run scheduler code
  Hooks,           \* the hooks, in the order init_module sets them
  MaxEntries,      \* MAX_SAMPLE_ENTRIES
  ClearedWhenFull, \* per hook, the hooks its handler clears when full
  ReturnsWhenFull, \* per hook, whether its handler then returns
  Types,           \* the entry types, which also name the union's members
  Stores,          \* per hook, the parts of an entry, in the order written
  Prints,          \* per type, the members of the union the reader prints
  ClearedByReader, \* the hooks rq_stats_do_work clears
  Session,         \* the reader and rmmod follow the README's session
  MaxId,           \* bound: samples claimed
  MaxReads,        \* bound: opens of the file
  MaxLoads         \* bound: successful insmods

Hook == {Hooks[i] : i \in 1 .. Len(Hooks)}
Part == {<<"clock">>} \cup ({"type", "data"} \X Types)

ASSUME HooksAssumption ==
  /\ ClearedWhenFull \in [Hook -> SUBSET Hook]
  /\ ReturnsWhenFull \in [Hook -> BOOLEAN]
  /\ Hooks \in Seq(Hook)
  /\ \A h \in Hook : Stores[h] \in Seq(Part)
  /\ ClearedByReader \subseteq Hook
  /\ Prints \in [Types -> SUBSET Types]
ASSUME BoundsAssumption ==
  /\ MaxEntries \in Nat \ {0}
  /\ MaxId \in Nat /\ MaxReads \in Nat /\ MaxLoads \in Nat
  /\ Session \in BOOLEAN

VARIABLES
  hooks,        \* the hooks that are not NULL
  w,            \* per CPU, where it is in a hook's wrapper or handler
  current_sample_entry_id,
  sample_entries,   \* per index, the parts written since the allocation
  buffer,       \* "none", "allocated" or "freed"
  module,       \* where init_module or cleanup_module is
  setting,      \* how many hooks init_module has set
  loads,
  proc,         \* /proc/sched_profiler exists
  reader,       \* where the process reading the file is
  pos,          \* the file position seq_read keeps
  iteration,    \* the static variable of my_seq_start
  n_sample_entries,
  reads,
  printed,      \* history: the indices printed by the first reader
  faults        \* history: what went wrong, by kind

writers == <<w, current_sample_entry_id, sample_entries>>
life    == <<buffer, module, setting, loads, proc>>
file    == <<reader, pos, iteration, n_sample_entries, reads, printed>>
vars    == <<hooks, writers, life, file, faults>>

\* Outside any hook.
Out == [pc |-> "out"]
At(c, p) == w[c].pc = p
Index == 0 .. MaxEntries - 1
Blank == [i \in Index |-> {}]

Init ==
  /\ hooks = {}
  /\ w = [c \in Cpu |-> Out]
  /\ current_sample_entry_id = 0
  /\ sample_entries = Blank
  /\ buffer = "none"
  /\ module = "out"
  /\ setting = 0
  /\ loads = 0
  /\ proc = FALSE
  /\ reader = "closed"
  /\ pos = 0
  /\ iteration = 0
  /\ n_sample_entries = 0
  /\ reads = 0
  /\ printed = <<>>
  /\ faults = {}

Fault(f) == faults' = faults \cup {f}

(***************************************************************************)
(* The hooks, on each CPU.                                                 *)
(***************************************************************************)
\* if (sp_module_record_...): nothing happens when the hook is NULL.  (The
\* run queue length itself is stored on either path of sp_set_nr_running.)
TestHook(c, h) ==
  /\ At(c, "out")
  /\ h \in hooks
  /\ w' = [w EXCEPT ![c] = [pc |-> "tested", hook |-> h]]
  /\ UNCHANGED <<hooks, current_sample_entry_id, sample_entries, life, file,
                 faults>>

\* ( *sp_module_record_...)(...): the pointer is volatile and loaded again.  A
\* CPU that calls NULL does not come back.
CallHook(c) ==
  /\ At(c, "tested")
  /\ w' = [w EXCEPT ![c].pc = IF w[c].hook \in hooks THEN "claim" ELSE "oops"]
  /\ UNCHANGED <<hooks, current_sample_entry_id, sample_entries, life, file,
                 faults>>

\* Mutant: an increment made while another CPU is at it may be lost.
NextIdTorn == IF \E c, d \in Cpu : c # d /\ At(c, "claim") /\ At(d, "claim")
              THEN current_sample_entry_id
              ELSE current_sample_entry_id + 1
NextId     == current_sample_entry_id + 1

\* Mutants: the buffer is found full one entry too late, or too early.
IsFullLate(id)  == id > MaxEntries
IsFullEarly(id) == id + 1 >= MaxEntries
IsFull(id)      == id >= MaxEntries

\* __sync_fetch_and_add, then the test that the buffer is full.
Claim(c) ==
  /\ At(c, "claim")
  /\ current_sample_entry_id < MaxId
  /\ LET h  == w[c].hook
         id == current_sample_entry_id
     IN  w' = [w EXCEPT ![c] =
                 IF IsFull(id)
                 THEN [pc |-> "clear", hook |-> h, id |-> id,
                       todo |-> ClearedWhenFull[h]]
                 ELSE [pc |-> "store", hook |-> h, id |-> id,
                       todo |-> Stores[h]]]
  /\ current_sample_entry_id' = NextId
  /\ UNCHANGED <<hooks, sample_entries, life, file, faults>>

\* One set_sp_module_...(NULL) of a full buffer, in the order of Hooks.
ClearHook(c) ==
  /\ At(c, "clear")
  /\ \E i \in 1 .. Len(Hooks) :
       /\ Hooks[i] \in w[c].todo
       /\ \A j \in 1 .. i - 1 : Hooks[j] \notin w[c].todo
       /\ hooks' = hooks \ {Hooks[i]}
       /\ w' = [w EXCEPT ![c].todo = @ \ {Hooks[i]}]
  /\ UNCHANGED <<current_sample_entry_id, sample_entries, life, file, faults>>

\* Mutant: the handler returns before it has cleared the hooks.
FullDoneEarly(c) ==
  /\ At(c, "clear")
  /\ w' = [w EXCEPT ![c] = Out]
  /\ UNCHANGED <<hooks, current_sample_entry_id, sample_entries, life, file,
                 faults>>

\* The handler returns, unless its return statement is missing.
FullDone(c) ==
  /\ At(c, "clear")
  /\ w[c].todo = {}
  /\ w' = [w EXCEPT ![c] =
             IF ReturnsWhenFull[w[c].hook] THEN Out
             ELSE [pc |-> "store", hook |-> w[c].hook, id |-> w[c].id,
                   todo |-> Stores[w[c].hook]]]
  /\ UNCHANGED <<hooks, current_sample_entry_id, sample_entries, life, file,
                 faults>>

\* sample_entries[id].<part> = ...
Store(c) ==
  /\ At(c, "store")
  /\ w[c].todo # <<>>
  /\ LET id == w[c].id IN
     /\ sample_entries' =
          IF buffer = "allocated" /\ id \in Index
          THEN [sample_entries EXCEPT ![id] = @ \cup {Head(w[c].todo)}]
          ELSE sample_entries
     /\ CASE buffer # "allocated" -> Fault("store_to_freed")
          [] id \notin Index      -> Fault("store_past_end")
          [] OTHER                -> UNCHANGED faults
  /\ w' = [w EXCEPT ![c].todo = Tail(@)]
  /\ UNCHANGED <<hooks, current_sample_entry_id, life, file>>

Return(c) ==
  /\ At(c, "store")
  /\ w[c].todo = <<>>
  /\ w' = [w EXCEPT ![c] = Out]
  /\ UNCHANGED <<hooks, current_sample_entry_id, sample_entries, life, file,
                 faults>>

Handler(c) == CallHook(c) \/ Claim(c) \/ ClearHook(c) \/ FullDone(c)
              \/ Store(c) \/ Return(c)

(***************************************************************************)
(* init_module and cleanup_module.  Loading starts from the module's       *)
(* initial data.                                                           *)
(***************************************************************************)
ProcCreate ==
  /\ module = "out"
  /\ loads < MaxLoads
  /\ proc' = TRUE
  /\ module' = "created"
  /\ buffer' = "none"
  /\ current_sample_entry_id' = 0
  /\ iteration' = 0
  /\ n_sample_entries' = 0
  /\ loads' = loads + 1
  /\ UNCHANGED <<hooks, w, sample_entries, setting, reader, pos, reads,
                 printed, faults>>

Vmalloc ==
  /\ module = "created"
  /\ buffer' = "allocated"
  /\ sample_entries' = Blank
  /\ module' = "setting"
  /\ setting' = 0
  /\ UNCHANGED <<hooks, w, current_sample_entry_id, loads, proc, file, faults>>

\* vmalloc returns NULL: init_module removes an entry of another name,
\* "sched_profile", so /proc/sched_profiler stays.
VmallocFails ==
  /\ module = "created"
  /\ module' = "out"
  /\ UNCHANGED <<hooks, writers, buffer, setting, loads, proc, file, faults>>

SetHook ==
  /\ module = "setting"
  /\ setting < Len(Hooks)
  /\ hooks' = hooks \cup {Hooks[setting + 1]}
  /\ setting' = setting + 1
  /\ UNCHANGED <<writers, buffer, module, loads, proc, file, faults>>

Loaded ==
  /\ module = "setting"
  /\ setting = Len(Hooks)
  /\ module' = "loaded"
  /\ UNCHANGED <<hooks, writers, buffer, setting, loads, proc, file, faults>>

\* The experiment drivers run the README's session: cat /proc/sched_profiler
\* after insmod has returned, rmmod after cat has ended.
InsmodReturned == Session => module = "loaded"
CatDone        == Session => reader = "closed" /\ reads > 0

\* Mutant: the first hook is not cleared.
RmmodFromSecond ==
  /\ module = "loaded"
  /\ CatDone
  /\ module' = "unsetting"
  /\ setting' = 1
  /\ UNCHANGED <<hooks, writers, buffer, loads, proc, file, faults>>

\* rmmod: the hooks are cleared in the order they were set.
Rmmod ==
  /\ module = "loaded"
  /\ CatDone
  /\ module' = "unsetting"
  /\ setting' = 0
  /\ UNCHANGED <<hooks, writers, buffer, loads, proc, file, faults>>

UnsetHook ==
  /\ module = "unsetting"
  /\ setting < Len(Hooks)
  /\ hooks' = hooks \ {Hooks[setting + 1]}
  /\ setting' = setting + 1
  /\ UNCHANGED <<writers, buffer, module, loads, proc, file, faults>>

\* Mutant: no sleep.
NoSleep == TRUE

\* ssleep(1), then vfree.  What cleanup_module relies on: whoever had tested a
\* hook before it was cleared has left the handler within that second.
Quiescent == \A c \in Cpu : At(c, "out") \/ At(c, "oops")

SleepAndFree ==
  /\ module = "unsetting"
  /\ setting = Len(Hooks)
  /\ Quiescent
  /\ buffer' = "freed"
  /\ module' = "freed"
  /\ UNCHANGED <<hooks, writers, setting, loads, proc, file, faults>>

\* remove_proc_entry waits for a read in progress and closes the file.
RemoveProcEntry ==
  /\ module = "freed"
  /\ reader \in {"closed", "start"}
  /\ proc' = FALSE
  /\ reader' = "closed"
  /\ module' = "out"
  /\ UNCHANGED <<hooks, writers, buffer, setting, loads, pos, iteration,
                 n_sample_entries, reads, printed, faults>>

Module == ProcCreate \/ Vmalloc \/ VmallocFails \/ SetHook \/ Loaded
          \/ Rmmod \/ UnsetHook \/ SleepAndFree \/ RemoveProcEntry

(***************************************************************************)
(* cat /proc/sched_profiler: seq_read calls start, then show and next      *)
(* until its buffer is full or next ends, and start again for the next     *)
(* read.  iteration is static: it outlives the reader, pos does not.       *)
(***************************************************************************)
Open ==
  /\ reader = "closed"
  /\ proc
  /\ InsmodReturned
  /\ reads < MaxReads
  /\ reads' = reads + 1
  /\ reader' = "start"
  /\ pos' = 0
  /\ UNCHANGED <<hooks, writers, life, iteration, n_sample_entries, printed,
                 faults>>

\* Mutants: the last entry is forgotten; one too many is read.
MoreShort  == pos = 0 \/ pos + 1 < n_sample_entries
MoreBeyond == pos = 0 \/ pos <= n_sample_entries
More       == pos = 0 \/ pos < n_sample_entries

my_seq_start ==
  /\ reader = "start"
  /\ IF More
     THEN reader' = "show" /\ UNCHANGED pos
     ELSE reader' = "closed" /\ pos' = 0
  /\ UNCHANGED <<hooks, writers, life, iteration, n_sample_entries, reads,
                 printed, faults>>

Least(a, b) == IF a < b THEN a ELSE b

\* Mutant: the number of entries is not cut at the size of the buffer.
CountedUncut == current_sample_entry_id
Counted      == Least(current_sample_entry_id, MaxEntries)

\* rq_stats_do_work(iteration).
my_seq_show ==
  /\ reader = "show"
  /\ hooks' = hooks \ ClearedByReader
  /\ n_sample_entries' = Counted
  /\ printed' = IF reads = 1 THEN Append(printed, iteration) ELSE printed
  /\ CASE buffer = "none"        -> Fault("read_without_buffer")
       [] buffer = "freed"       -> Fault("read_of_freed")
       [] iteration \notin Index -> Fault("read_past_end")
       [] OTHER                  -> UNCHANGED faults
  /\ reader' = "next"
  /\ UNCHANGED <<writers, life, pos, iteration, reads>>

\* Mutant: the iteration follows the file position it is about to leave.
FollowingOld == pos
Following    == iteration + 1

\* Mutant: next waits at the last entry instead of ending.
my_seq_next_waits ==
  /\ reader = "next"
  /\ iteration + 1 < n_sample_entries
  /\ iteration' = iteration + 1
  /\ pos' = pos + 1
  /\ reader' = "show"
  /\ UNCHANGED <<hooks, writers, life, n_sample_entries, reads, printed,
                 faults>>

my_seq_next ==
  /\ reader = "next"
  /\ iteration' = Following
  /\ pos' = pos + 1
  /\ \/ iteration' < n_sample_entries /\ reader' = "show"
     \/ reader' = "start"       \* the end, or seq_read's buffer is full
  /\ UNCHANGED <<hooks, writers, life, n_sample_entries, reads, printed,
                 faults>>

Reader == Open \/ my_seq_start \/ my_seq_show \/ my_seq_next

Next ==
  \/ \E c \in Cpu : Handler(c) \/ \E h \in Hook : TestHook(c, h)
  \/ Module
  \/ Reader

Spec == Init /\ [][Next]_vars

\* A CPU that entered a hook gets on with it; the reader reads to the end.
FairSpec ==
  /\ Spec
  /\ \A c \in Cpu : WF_vars(Handler(c))
  /\ WF_vars(my_seq_start \/ my_seq_show \/ my_seq_next)

-----------------------------------------------------------------------------
(***************************************************************************)
(* Properties.                                                             *)
(***************************************************************************)
Claimed(c) == At(c, "store") \/ At(c, "clear")

Writer ==
  {Out}
    \cup [pc : {"tested", "claim", "oops"}, hook : Hook]
    \cup [pc : {"store"}, hook : Hook, id : Nat, todo : Seq(Part)]
    \cup [pc : {"clear"}, hook : Hook, id : Nat, todo : SUBSET Hook]

\* Every variable holds a value of its type.
TypeOK ==
  /\ hooks \subseteq Hook
  /\ w \in [Cpu -> Writer]
  /\ current_sample_entry_id \in Nat
  /\ sample_entries \in [Index -> SUBSET Part]
  /\ buffer \in {"none", "allocated", "freed"}
  /\ module \in {"out", "created", "setting", "loaded", "unsetting", "freed"}
  /\ setting \in 0 .. Len(Hooks)
  /\ loads \in Nat
  /\ proc \in BOOLEAN
  /\ reader \in {"closed", "start", "show", "next"}
  /\ pos \in Nat
  /\ iteration \in Nat
  /\ n_sample_entries \in 0 .. MaxEntries
  /\ reads \in Nat
  /\ printed \in Seq(Nat)

\* No two CPUs ever fill the same entry, and none fills an entry that the
\* counter has not passed: claiming by fetch-and-add hands out each once.
EntryOwnedOnce ==
  \A c \in Cpu : Claimed(c) =>
    /\ w[c].id < current_sample_entry_id
    /\ \A d \in Cpu \ {c} : Claimed(d) => w[c].id # w[d].id

\* rmmod frees the buffer only when no handler can still store into it: the
\* hooks are cleared before the second's sleep, and that before vfree.
NoStoreAfterFree == "store_to_freed" \notin faults

\* Between insmod's end and rmmod, handlers and hooks only exist with a buffer.
HandlersHaveBuffer ==
  /\ hooks # {} => buffer = "allocated"
  /\ \A c \in Cpu : Claimed(c) => buffer = "allocated"

\* A handler that finds the buffer full stores nothing past its end, as the
\* test at the top of every handler intends.
NoStorePastEnd == "store_past_end" \notin faults

\* In the README's session a CPU calls a hook that is NULL only if cat had begun
\* and stops that hook, or the buffer was full, or rmmod had begun: a profile
\* that nobody reads and that fits the buffer harms no CPU.
NullCallsExplained ==
  \A c \in Cpu : At(c, "oops") =>
    \/ reads > 0 /\ w[c].hook \in ClearedByReader
    \/ current_sample_entry_id > MaxEntries
    \/ module \notin {"setting", "loaded"}

\* The first reader after insmod prints the entries in order, none twice and
\* none skipped, however many reads seq_file cuts the output into and while
\* the other CPUs go on recording.
FirstReadInOrder ==
  loads = 1 => \A i \in DOMAIN printed : printed[i] = i - 1

\* When the first reader closes the file it has printed every entry that the
\* last refresh of n_sample_entries counted (one, unwritten, if there is none).
FirstReadComplete ==
  loads = 1 /\ reads = 1 /\ reader = "closed" =>
    Len(printed) = (IF n_sample_entries = 0 THEN 1 ELSE n_sample_entries)

\* In the session the README describes, the reader reads the buffer only
\* while it is allocated and, the first time, only inside it.
SessionReadsBuffer ==
  /\ "read_without_buffer" \notin faults
  /\ "read_of_freed" \notin faults
  /\ reads <= 1 => "read_past_end" \notin faults

\* Once the buffer is full every CPU inside a handler comes out of it, with
\* its own hook cleared: recording stops rather than keeps every event paying
\* for a claim (rmmod may have reloaded the hooks in the meantime).
FullStopsHook ==
  [][\A c \in Cpu :
       At(c, "clear") /\ w'[c].pc # "clear" /\ module = "loaded" /\ loads = 1
         => \/ w[c].hook \notin hooks
            \/ w[c].hook \notin ClearedWhenFull[w[c].hook]]_vars

Filling(i) ==
  \E c \in Cpu : At(c, "store") /\ w[c].id = i /\ w[c].todo # <<>>

\* What the reader takes an entry for in which these parts are written: a sample
\* of the type it finds there, if what it prints for that type is what was
\* recorded.
SampleParts(t) ==
  {<<"clock">>, <<"type", t>>} \cup {<<"data", m>> : m \in Prints[t]}
Sample(parts) ==
  IF \E t \in Types : parts = SampleParts(t)
  THEN CHOOSE t \in Types : parts = SampleParts(t)
  ELSE "garbage"

\* The profile as SampleLog sees it.
live    == buffer = "allocated"
claimed == IF live THEN Counted ELSE 0
entry   == [i \in Index |-> IF i >= claimed THEN "free"
                           ELSE IF Filling(i) THEN "open"
                           ELSE Sample(sample_entries[i])]

Log == INSTANCE SampleLog WITH Kinds <- Types, Entries <- MaxEntries

\* The entries the counter has passed are those of the log SampleLog describes,
\* whatever the CPUs, the reader and rmmod interleave: each is written by one
\* handler, from its first part to its last, is then a sample the reader prints
\* as what it is, and stays so until the buffer is freed, when none is half
\* written.
ImplementsSampleLog == Log!Spec

\* The reader of a loaded module reaches the end of the file.
ReadEnds == reader # "closed" ~> reader = "closed"
=============================================================================
