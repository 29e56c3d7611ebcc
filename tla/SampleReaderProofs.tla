------------------------- MODULE SampleReaderProofs -------------------------
(***************************************************************************)
(* Proofs about the reader of a SampleProfiler, for any hooks, any number  *)
(* of CPUs and any bounds: all the types, and what the first reader prints *)
(* while the CPUs go on recording.                                         *)
(***************************************************************************)
EXTENDS SampleProfilerProofs

USE DEF At, Out

-----------------------------------------------------------------------------
(***************************************************************************)
(* Types: those of the reader and of the buffer join those of the writers. *)
(***************************************************************************)
BufferTypeOK ==
  /\ sample_entries \in [Index -> SUBSET Part]
  /\ buffer \in {"none", "allocated", "freed"}
  /\ loads \in Nat
ProcTypeOK == proc \in BOOLEAN
FileTypeOK ==
  /\ reader \in {"closed", "start", "show", "next"}
  /\ pos \in Nat
  /\ iteration \in Nat
  /\ n_sample_entries \in 0 .. MaxEntries
  /\ reads \in Nat
  /\ printed \in Seq(Nat)

\* What the handlers leave alone.
LEMMA HandlersLeave ==
  ASSUME NEW c \in Cpu, Handler(c) \/ \E h \in Hook : TestHook(c, h)
  PROVE  UNCHANGED <<life, file>>
  BY DEF Handler, TestHook, CallHook, Claim, ClearHook, FullDone, Store, Return

\* Every step keeps the type of the buffer.
LEMMA BufferType == Spec => []BufferTypeOK
<1>1. Init => BufferTypeOK BY DEF Init, BufferTypeOK, Blank
<1>2. WritersTypeOK /\ BufferTypeOK /\ [Next]_vars => BufferTypeOK'
  <2> SUFFICES ASSUME WritersTypeOK, BufferTypeOK, [Next]_vars
               PROVE  BufferTypeOK'
    OBVIOUS
  <2> USE DEF BufferTypeOK
  <2>1. ASSUME NEW c \in Cpu, Handler(c) \/ \E h \in Hook : TestHook(c, h)
        PROVE  BufferTypeOK'
    <3>1. UNCHANGED <<buffer, loads>> BY <2>1, HandlersLeave DEF life
    <3>2. CASE Store(c)
      <4>1. w[c] \in Writer /\ w[c].pc = "store" /\ w[c].todo # <<>>
        BY <3>2 DEF Store, WritersTypeOK
      <4>2. w[c] \in [pc : {"store"}, hook : Hook, id : Nat, todo : Seq(Part)]
        BY <4>1 DEF Writer
      <4>3. Head(w[c].todo) \in Part BY <4>1, <4>2
      <4>4. \/ UNCHANGED sample_entries
            \/ sample_entries' =
                 [sample_entries EXCEPT ![w[c].id] = @ \cup {Head(w[c].todo)}]
        BY <3>2 DEF Store
      <4> QED BY <3>1, <4>3, <4>4
    <3>3. CASE ~Store(c)
      BY <2>1, <3>1, <3>3 DEF Handler, TestHook, CallHook, Claim, ClearHook,
         FullDone, Return
    <3> QED BY <3>2, <3>3
  <2>2. CASE Module
    BY <2>2 DEF Module, ProcCreate, Vmalloc, VmallocFails, SetHook, Loaded,
       Rmmod, UnsetHook, SleepAndFree, RemoveProcEntry, writers, Blank
  <2>3. CASE Reader BY <2>3, ReaderStep DEF writers, life
  <2>4. CASE UNCHANGED vars BY <2>4 DEF vars, writers, life
  <2> QED BY <2>1, <2>2, <2>3, <2>4 DEF Next
<1> QED BY <1>1, <1>2, WritersType, PTL DEF Spec

\* Every step keeps that the file exists or does not.
LEMMA ProcType == Spec => []ProcTypeOK
<1>1. Init => ProcTypeOK BY Zenon DEF Init, ProcTypeOK
<1>2. ProcTypeOK /\ [Next]_vars => ProcTypeOK'
  <2> SUFFICES ASSUME ProcTypeOK, [Next]_vars PROVE ProcTypeOK' OBVIOUS
  <2>1. ASSUME NEW c \in Cpu, Handler(c) \/ \E h \in Hook : TestHook(c, h)
        PROVE  proc' = proc
    BY <2>1, HandlersLeave DEF life
  <2>2. CASE Module
    <3>1. proc' = TRUE \/ proc' = FALSE \/ proc' = proc
      BY <2>2, Zenon DEF Module, ProcCreate, Vmalloc, VmallocFails, SetHook,
         Loaded, Rmmod, UnsetHook, SleepAndFree, RemoveProcEntry
    <3> QED BY <3>1, Zenon DEF ProcTypeOK
  <2>3. Reader \/ UNCHANGED vars => proc' = proc
    BY ReaderStep DEF vars, life
  <2> QED BY <2>1, <2>2, <2>3, Zenon DEF Next, ProcTypeOK
<1> QED BY <1>1, <1>2, PTL DEF Spec

\* Every step keeps the types of the reader's variables.
LEMMA FileType == Spec => []FileTypeOK
<1>1. Init => FileTypeOK BY BoundsAssumption DEF Init, FileTypeOK
<1>2. WritersTypeOK /\ FileTypeOK /\ [Next]_vars => FileTypeOK'
  <2> SUFFICES ASSUME WritersTypeOK, FileTypeOK, [Next]_vars PROVE FileTypeOK'
    OBVIOUS
  <2> USE BoundsAssumption DEF FileTypeOK
  <2>1. ASSUME NEW c \in Cpu, Handler(c) \/ \E h \in Hook : TestHook(c, h)
        PROVE  FileTypeOK'
    BY <2>1, HandlersLeave DEF file
  <2>2. CASE Module
    BY <2>2 DEF Module, ProcCreate, Vmalloc, VmallocFails, SetHook, Loaded,
       Rmmod, UnsetHook, SleepAndFree, RemoveProcEntry, file
  <2>3. CASE Reader
    <3>1. CASE Open BY <3>1 DEF Open
    <3>2. CASE my_seq_start BY <3>2 DEF my_seq_start
    <3>3. CASE my_seq_show
      <4>1. Counted \in 0 .. MaxEntries BY DEF Counted, Least, WritersTypeOK
      <4>2. Append(printed, iteration) \in Seq(Nat) OBVIOUS
      <4> QED BY <3>3, <4>1, <4>2 DEF my_seq_show
    <3>4. CASE my_seq_next BY <3>4 DEF my_seq_next, Following
    <3> QED BY <2>3, <3>1, <3>2, <3>3, <3>4 DEF Reader
  <2>4. CASE UNCHANGED vars BY <2>4 DEF vars, file
  <2> QED BY <2>1, <2>2, <2>3, <2>4 DEF Next
<1> QED BY <1>1, <1>2, WritersType, PTL DEF Spec

\* The types of the hooks, of the CPUs inside them, of the buffer, the module
\* and the reader hold in every reachable state.
THEOREM TypeCorrect == Spec => []TypeOK
<1>1. WritersTypeOK /\ BufferTypeOK /\ ProcTypeOK /\ FileTypeOK => TypeOK
  BY DEF WritersTypeOK, BufferTypeOK, ProcTypeOK, FileTypeOK, TypeOK
<1> QED BY <1>1, WritersType, BufferType, ProcType, FileType, PTL

-----------------------------------------------------------------------------
(***************************************************************************)
(* The order of what is printed.  iteration is the number of entries the   *)
(* first reader has printed, and one less between show and next, across    *)
(* all the restarts of seq_read.                                           *)
(***************************************************************************)
OrderInv ==
  /\ reader # "closed" => reads > 0
  /\ loads = 0 => ~proc /\ reads = 0
  /\ loads <= 1 /\ reads = 0 => iteration = 0 /\ printed = <<>>
  /\ loads = 1 /\ reads = 1 =>
       /\ reader \in {"start", "show"} => iteration = Len(printed)
       /\ reader = "next" => iteration + 1 = Len(printed)
  /\ FirstReadInOrder

\* What init_module and cleanup_module do to the reader.
LEMMA ModuleStep ==
  ASSUME Module
  PROVE  /\ UNCHANGED <<w, pos, reads, printed, faults>>
         /\ \/ /\ UNCHANGED <<loads, iteration, n_sample_entries,
                              current_sample_entry_id>>
               /\ reader' = reader \/ (RemoveProcEntry /\ reader' = "closed")
               /\ proc' = proc \/ RemoveProcEntry
            \/ ProcCreate /\ loads' = loads + 1 /\ UNCHANGED reader
  BY DEF Module, ProcCreate, Vmalloc, VmallocFails, SetHook, Loaded,
     Rmmod, UnsetHook, SleepAndFree, RemoveProcEntry, writers, file

\* Every step keeps the order.
LEMMA OrderInvariant == Spec => []OrderInv
<1>1. Init => OrderInv BY DEF Init, OrderInv, FirstReadInOrder
<1>2. BufferTypeOK /\ FileTypeOK /\ OrderInv /\ [Next]_vars => OrderInv'
  <2> SUFFICES ASSUME BufferTypeOK, FileTypeOK, OrderInv, [Next]_vars
               PROVE  OrderInv'
    OBVIOUS
  <2> USE DEF OrderInv, FirstReadInOrder, BufferTypeOK, FileTypeOK
  <2>1. ASSUME NEW c \in Cpu, Handler(c) \/ \E h \in Hook : TestHook(c, h)
        PROVE  OrderInv'
    BY <2>1, HandlersLeave DEF file, life
  <2>2. CASE Module
    <3>1. CASE ProcCreate BY <3>1 DEF ProcCreate
    <3>2. CASE RemoveProcEntry BY <3>2 DEF RemoveProcEntry
    <3>3. CASE ~ProcCreate /\ ~RemoveProcEntry
      BY <2>2, <3>3, ModuleStep
    <3> QED BY <3>1, <3>2, <3>3
  <2>3. CASE Open BY <2>3 DEF Open, life
  <2>4. CASE my_seq_start BY <2>4 DEF my_seq_start, life
  <2>5. CASE my_seq_show
    <3>1. /\ reader = "show" /\ reader' = "next"
          /\ printed' = (IF reads = 1 THEN Append(printed, iteration)
                         ELSE printed)
          /\ UNCHANGED <<loads, proc, iteration, reads>>
      BY <2>5 DEF my_seq_show, life
    <3>2. reads = 1 =>
            /\ Len(printed') = Len(printed) + 1
            /\ printed'[Len(printed) + 1] = iteration
            /\ \A i \in 1 .. Len(printed) : printed'[i] = printed[i]
      BY <3>1
    <3>3. DOMAIN printed = 1 .. Len(printed)
          /\ DOMAIN printed' = 1 .. Len(printed') /\ Len(printed) \in Nat
      BY <3>1
    <3>4. loads = 1 => \A i \in DOMAIN printed' : printed'[i] = i - 1
      <4>1. CASE reads = 1 BY <3>1, <3>2, <3>3, <4>1
      <4>2. CASE reads # 1 BY <3>1, <4>2
      <4> QED BY <4>1, <4>2
    <3> QED BY <3>1, <3>2, <3>4
  <2>6. CASE my_seq_next BY <2>6 DEF my_seq_next, Following, life
  <2>7. CASE UNCHANGED vars BY <2>7 DEF vars, file, life
  <2> QED BY <2>1, <2>2, <2>3, <2>4, <2>5, <2>6, <2>7 DEF Next, Reader
<1> QED BY <1>1, <1>2, BufferType, FileType, PTL DEF Spec

\* The first reader after insmod prints the entries in order, none twice and
\* none skipped, for any size of the buffer and any cuts of seq_read.
THEOREM FirstReadInOrderTheorem == Spec => []FirstReadInOrder
<1>1. OrderInv => FirstReadInOrder BY DEF OrderInv
<1> QED BY <1>1, OrderInvariant, PTL

-----------------------------------------------------------------------------
(***************************************************************************)
(* The README's session.  A file is open only while the module is loaded;  *)
(* the first time, the position follows the iteration and n_sample_entries *)
(* only grows, so the position is inside the entries counted.              *)
(***************************************************************************)
SessionInv ==
  /\ reader # "closed" => module = "loaded"
  /\ n_sample_entries <= current_sample_entry_id
  /\ reads = 0 => iteration = 0
  /\ reads = 1 /\ reader # "closed" => pos = iteration
  /\ reads = 1 /\ reader = "start" => pos <= 1 \/ pos <= n_sample_entries
  /\ reads = 1 /\ reader \in {"show", "next"} => pos = 0 \/ pos < n_sample_entries
  /\ FirstReadComplete
  /\ SessionReadsBuffer

\* Every step of a session keeps it.
LEMMA SessionInvariant == ASSUME Session = TRUE PROVE Spec => []SessionInv
<1>1. Init => SessionInv
  BY DEF Init, SessionInv, FirstReadComplete, SessionReadsBuffer
<1> DEFINE Known == WritersTypeOK /\ BufferTypeOK /\ FileTypeOK /\ LifeInv
                    /\ OrderInv
<1>2. Known /\ SessionInv /\ [Next]_vars => SessionInv'
  <2> SUFFICES ASSUME WritersTypeOK, BufferTypeOK, FileTypeOK, LifeInv, OrderInv,
                      SessionInv, [Next]_vars
               PROVE  SessionInv'
    OBVIOUS
  <2>0. /\ current_sample_entry_id \in Nat /\ n_sample_entries \in 0 .. MaxEntries
        /\ pos \in Nat /\ iteration \in Nat /\ reads \in Nat /\ loads \in Nat
        /\ MaxEntries \in Nat \ {0} /\ Len(printed) \in Nat
        /\ reader \in {"closed", "start", "show", "next"}
        /\ (reader # "closed" => reads > 0)
    BY BoundsAssumption DEF WritersTypeOK, BufferTypeOK, FileTypeOK, OrderInv
  <2> USE DEF SessionInv, FirstReadComplete, SessionReadsBuffer
  <2>1. ASSUME NEW c \in Cpu, Handler(c) \/ \E h \in Hook : TestHook(c, h)
        PROVE  SessionInv'
    <3>1. /\ UNCHANGED <<reader, pos, iteration, n_sample_entries, reads, printed,
                         module, loads>>
          /\ current_sample_entry_id' \in {current_sample_entry_id,
                                           current_sample_entry_id + 1}
          /\ faults' \subseteq faults \cup {"store_to_freed", "store_past_end"}
      BY <2>1, HandlersLeave DEF file, life, Handler, TestHook, CallHook, Claim,
         NextId, ClearHook, FullDone, Store, Return, Fault
    <3> QED BY <2>0, <3>1
  <2>2. CASE Module
    <3>1. CASE ProcCreate
      <4>1. reader = "closed" BY <3>1 DEF ProcCreate
      <4> QED BY <2>0, <3>1, <4>1 DEF ProcCreate, OrderInv
    <3>2. CASE RemoveProcEntry
      <4>1. reader = "closed" BY <3>2 DEF RemoveProcEntry
      <4> QED BY <2>0, <3>2, <4>1 DEF RemoveProcEntry, writers
    <3>3. CASE ~ProcCreate /\ ~RemoveProcEntry
      <4>1. UNCHANGED <<loads, reader, pos, iteration, n_sample_entries, reads,
                        printed, faults, current_sample_entry_id>>
        BY <2>2, <3>3, ModuleStep
      <4>2. reader # "closed" => module' = "loaded"
        BY <2>2, <3>3 DEF Module, Vmalloc, VmallocFails, SetHook, Loaded, Rmmod,
           CatDone, UnsetHook, SleepAndFree
      <4> QED BY <2>0, <4>1, <4>2
    <3> QED BY <3>1, <3>2, <3>3
  <2>3. CASE Reader
    <3>0. UNCHANGED <<module, buffer, loads, current_sample_entry_id>>
      BY <2>3, ReaderStep DEF life, writers
    <3>1. CASE Open
      BY <2>0, <3>0, <3>1 DEF Open, InsmodReturned
    <3>2. CASE my_seq_start
      <4>1. CASE More
        BY <2>0, <3>0, <3>2, <4>1 DEF my_seq_start, More
      <4>2. CASE ~More
        <5>1. /\ reader = "start" /\ reader' = "closed" /\ pos # 0
              /\ ~(pos < n_sample_entries)
              /\ UNCHANGED <<iteration, n_sample_entries, reads, printed, faults>>
          BY <3>2, <4>2 DEF my_seq_start, More
        <5>2. loads = 1 /\ reads = 1 => pos = Len(printed)
          BY <5>1 DEF OrderInv
        <5>3. FirstReadComplete' BY <2>0, <3>0, <5>1, <5>2
        <5> QED BY <2>0, <3>0, <5>1, <5>3
      <4> QED BY <4>1, <4>2
    <3>3. CASE my_seq_show
      <4>1. buffer = "allocated" BY <3>3 DEF my_seq_show, LifeInv, Live
      <4>2. n_sample_entries <= n_sample_entries'
            /\ n_sample_entries' <= current_sample_entry_id
        BY <2>0, <3>3 DEF my_seq_show, Counted, Least
      <4>3. reads = 1 => iteration \in Index
        BY <2>0, <3>3 DEF my_seq_show, Index
      <4>4. /\ UNCHANGED <<pos, iteration, reads>>
            /\ reader = "show" /\ reader' = "next"
            /\ \/ faults' = faults
               \/ iteration \notin Index /\ faults' = faults \cup {"read_past_end"}
        BY <3>3, <4>1 DEF my_seq_show, Fault
      <4>5. SessionReadsBuffer' BY <2>0, <4>3, <4>4
      <4>6. n_sample_entries' \in Nat
        BY <2>0, <3>3 DEF my_seq_show, Counted, Least
      <4> QED BY <2>0, <3>0, <4>2, <4>4, <4>5, <4>6
    <3>4. CASE my_seq_next
      BY <2>0, <3>0, <3>4 DEF my_seq_next, Following
    <3> QED BY <2>3, <3>1, <3>2, <3>3, <3>4 DEF Reader
  <2>4. CASE UNCHANGED vars BY <2>4 DEF vars, file, life, writers
  <2> QED BY <2>1, <2>2, <2>3, <2>4 DEF Next
<1> QED BY <1>1, <1>2, WritersType, BufferType, FileType, LifeInvariant,
           OrderInvariant, PTL DEF Spec

\* In the README's session the first reader has printed, when it closes the
\* file, every entry that its last show counted.
THEOREM FirstReadCompleteTheorem ==
  ASSUME Session = TRUE PROVE Spec => []FirstReadComplete
<1>1. SessionInv => FirstReadComplete BY DEF SessionInv
<1> QED BY <1>1, SessionInvariant, PTL

\* In the README's session the reader reads the buffer only while there is one
\* and, the first time, only inside it.
THEOREM SessionReadsBufferTheorem ==
  ASSUME Session = TRUE PROVE Spec => []SessionReadsBuffer
<1>1. SessionInv => SessionReadsBuffer BY DEF SessionInv
<1> QED BY <1>1, SessionInvariant, PTL

-----------------------------------------------------------------------------
(***************************************************************************)
(* Who makes a CPU call a hook that is NULL.  A CPU that has tested a hook *)
(* which is no longer set, or has called it, has been overtaken by one of  *)
(* the three that clear hooks.                                             *)
(***************************************************************************)
Explained(c) ==
  \/ reads > 0 /\ w[c].hook \in ClearedByReader
  \/ current_sample_entry_id > MaxEntries
  \/ module \notin {"setting", "loaded"}

ExplainInv ==
  /\ \A c \in Cpu : At(c, "clear") => w[c].id >= MaxEntries
  /\ \A c \in Cpu :
       At(c, "oops") \/ (At(c, "tested") /\ w[c].hook \notin hooks)
         => Explained(c)
  /\ loads = 0 \/ module = "created" => \A c \in Cpu : At(c, "out")
  /\ loads = 0 => module = "out"

\* Every step of the only load keeps it.
LEMMA ExplainInvariant == ASSUME MaxLoads = 1 PROVE Spec => []ExplainInv
<1>1. Init => ExplainInv BY DEF Init, ExplainInv
<1> DEFINE Known == WritersTypeOK /\ BufferTypeOK /\ FileTypeOK /\ LifeInv
                    /\ OrderInv /\ EntryOwnedOnce
<1>2. Known /\ ExplainInv /\ [Next]_vars => ExplainInv'
  <2> SUFFICES ASSUME WritersTypeOK, BufferTypeOK, FileTypeOK, LifeInv, OrderInv,
                      EntryOwnedOnce, ExplainInv, [Next]_vars
               PROVE  ExplainInv'
    OBVIOUS
  <2>0. /\ current_sample_entry_id \in Nat /\ MaxEntries \in Nat
        /\ w \in [Cpu -> Writer] /\ loads \in Nat /\ reads \in Nat
        /\ (reader # "closed" => reads > 0)
    BY BoundsAssumption DEF WritersTypeOK, BufferTypeOK, FileTypeOK, OrderInv
  <2> USE DEF ExplainInv, Explained
  <2>1. ASSUME NEW c \in Cpu, NEW h \in Hook, TestHook(c, h)
        PROVE  ExplainInv'
    <3>1. module \in Live BY <2>1 DEF TestHook, LifeInv
    <3>2. loads # 0 /\ module # "created" BY <3>1 DEF Live
    <3>3. /\ w'[c] = [pc |-> "tested", hook |-> h] /\ h \in hooks
          /\ \A d \in Cpu \ {c} : w'[d] = w[d]
          /\ UNCHANGED <<hooks, current_sample_entry_id, module, loads, reads>>
      BY <2>0, <2>1 DEF TestHook, life, file
    <3> QED BY <3>2, <3>3
  <2>2. ASSUME NEW c \in Cpu, Handler(c) PROVE ExplainInv'
    <3>0. /\ \A d \in Cpu \ {c} : w'[d] = w[d]
          /\ UNCHANGED <<module, loads, reads>> /\ w[c] \in Writer
          /\ ~At(c, "out")
      BY <2>0, <2>2, HandlersLeave, HandlerClaims DEF life, file, Handler,
         CallHook, Claim, ClearHook, FullDone, Store, Return
    <3>1. CASE CallHook(c)
      <4>1. w[c] \in [pc : {"tested", "claim", "oops"}, hook : Hook]
            /\ w[c].pc = "tested"
        BY <3>0, <3>1 DEF CallHook, Writer
      <4>2. w'[c].hook = w[c].hook
            /\ w'[c].pc = (IF w[c].hook \in hooks THEN "claim" ELSE "oops")
        BY <2>0, <3>1, <4>1 DEF CallHook
      <4>3. UNCHANGED <<hooks, current_sample_entry_id>> BY <3>1 DEF CallHook
      <4> QED BY <3>0, <4>1, <4>2, <4>3
    <3>2. CASE Claim(c)
      <4>1. current_sample_entry_id' = current_sample_entry_id + 1
            /\ UNCHANGED hooks
        BY <3>2 DEF Claim, NextId
      <4>2. /\ At(c, "clear")' => w'[c].id >= MaxEntries
            /\ ~At(c, "oops")' /\ ~At(c, "tested")'
        BY <2>0, <3>2 DEF Claim, IsFull
      <4> QED BY <2>0, <3>0, <4>1, <4>2
    <3>3. CASE ClearHook(c)
      <4>1. w[c] \in [pc : {"clear"}, hook : Hook, id : Nat, todo : SUBSET Hook]
        BY <3>0, <3>3 DEF ClearHook, Writer
      <4>2. w'[c].pc = "clear" /\ w'[c].id = w[c].id
        BY <2>0, <3>3, <4>1 DEF ClearHook
      <4>3. current_sample_entry_id > MaxEntries
        BY <2>0, <4>1 DEF EntryOwnedOnce, Claimed
      <4>4. UNCHANGED current_sample_entry_id BY <3>3 DEF ClearHook
      <4> QED BY <3>0, <4>1, <4>2, <4>3, <4>4
    <3>4. CASE FullDone(c) \/ Store(c) \/ Return(c)
      <4>1. UNCHANGED <<hooks, current_sample_entry_id>>
        BY <3>4 DEF FullDone, Store, Return
      <4>2. ~At(c, "clear")' /\ ~At(c, "oops")' /\ ~At(c, "tested")'
        <5>1. CASE FullDone(c) BY <2>0, <5>1 DEF FullDone
        <5>2. CASE Return(c) BY <2>0, <5>2 DEF Return
        <5>3. CASE Store(c)
          <6>1. w[c] \in [pc : {"store"}, hook : Hook, id : Nat, todo : Seq(Part)]
            BY <3>0, <5>3 DEF Store, Writer
          <6>2. w'[c].pc = "store" BY <2>0, <5>3, <6>1 DEF Store
          <6> QED BY <6>2
        <5> QED BY <3>4, <5>1, <5>2, <5>3
      <4> QED BY <3>0, <4>1, <4>2
    <3> QED BY <2>2, <3>1, <3>2, <3>3, <3>4 DEF Handler
  <2>3. CASE Module
    <3>1. CASE ProcCreate
      <4>1. loads = 0 BY <2>0, <3>1 DEF ProcCreate
      <4> QED BY <2>0, <3>1, <4>1 DEF ProcCreate
    <3>2. CASE Vmalloc BY <2>0, <3>2 DEF Vmalloc, file
    <3>3. CASE ~ProcCreate /\ ~Vmalloc
      <4>1. UNCHANGED <<w, current_sample_entry_id, loads, reads>>
        BY <2>3, <3>3, ModuleStep
      <4>2. /\ loads # 0 /\ module' # "created"
            /\ \/ hooks \subseteq hooks' /\ (module \in {"setting", "loaded"}
                                             \/ module' \notin {"setting", "loaded"})
               \/ module' = "unsetting"
        BY <2>3, <3>3 DEF Module, VmallocFails, SetHook, Loaded, Rmmod, UnsetHook,
           SleepAndFree, RemoveProcEntry
      <4> QED BY <4>1, <4>2
    <3> QED BY <3>1, <3>2, <3>3
  <2>4. CASE Reader
    <3>1. UNCHANGED <<w, current_sample_entry_id, module, loads>>
      BY <2>4, ReaderStep DEF life, writers
    <3>2. /\ reads' = reads \/ reads' = reads + 1
          /\ \/ UNCHANGED hooks
             \/ reads > 0 /\ hooks' = hooks \ ClearedByReader
      BY <2>0, <2>4 DEF Reader, Open, my_seq_start, my_seq_show, my_seq_next
    <3> QED BY <2>0, <3>1, <3>2
  <2>5. CASE UNCHANGED vars BY <2>5 DEF vars, file, life, writers
  <2> QED BY <2>1, <2>2, <2>3, <2>4, <2>5 DEF Next
<1> QED BY <1>1, <1>2, WritersType, BufferType, FileType, LifeInvariant,
           OrderInvariant, EntryOwnedOnceTheorem, PTL DEF Spec

\* In the first load a CPU calls a NULL hook only where cat stops that hook, the
\* buffer was full or rmmod had begun.  (A CPU that was lost that way is still
\* lost in the next load, whose profile explains nothing of it.)
THEOREM NullCallsExplainedTheorem ==
  ASSUME MaxLoads = 1 PROVE Spec => []NullCallsExplained
<1>1. ExplainInv => NullCallsExplained
  BY DEF ExplainInv, Explained, NullCallsExplained
<1> QED BY <1>1, ExplainInvariant, PTL
=============================================================================
