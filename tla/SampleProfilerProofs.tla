------------------------ MODULE SampleProfilerProofs ------------------------
(***************************************************************************)
(* Proofs about SampleProfiler, for any hooks, any number of CPUs and any  *)
(* bounds: who owns an entry, and why rmmod may free the buffer.           *)
(***************************************************************************)
EXTENDS SampleProfiler, TLAPS

USE DEF At, Out

Busy(c) == ~At(c, "out") /\ ~At(c, "oops")
Live    == {"setting", "loaded", "unsetting"}

-----------------------------------------------------------------------------
(***************************************************************************)
(* Types.  Only what the proofs below need: the writers, the hooks and the *)
(* module's life; the reader touches none of them but the hooks.           *)
(***************************************************************************)
WritersTypeOK ==
  /\ hooks \subseteq Hook
  /\ w \in [Cpu -> Writer]
  /\ current_sample_entry_id \in Nat
  /\ setting \in 0 .. Len(Hooks)
  /\ module \in {"out", "created", "setting", "loaded", "unsetting", "freed"}

\* The list of hooks has a length, which init_module counts up to.
LEMMA LenHooks ==
  Len(Hooks) \in Nat /\ \A i \in 1 .. Len(Hooks) : Hooks[i] \in Hook
  BY HooksAssumption DEF Hook

\* What a step of the reader or of rmmod that leaves the CPUs alone changes.
LEMMA ReaderStep ==
  ASSUME Reader
  PROVE  /\ UNCHANGED <<writers, life>>
         /\ hooks' \subseteq hooks
         /\ faults' \subseteq faults \cup {"read_without_buffer",
              "read_of_freed", "read_past_end"}
  BY DEF Reader, Open, my_seq_start, my_seq_show, my_seq_next, Fault, life

\* init_module and cleanup_module leave the CPUs where they are.
LEMMA ModuleKeepsWriters == Module => UNCHANGED w
  BY DEF Module, ProcCreate, Vmalloc, VmallocFails, SetHook, Loaded, Rmmod,
     UnsetHook, SleepAndFree, RemoveProcEntry, writers

\* The part of the state the handlers use keeps its type.
LEMMA WritersType == Spec => []WritersTypeOK
<1>1. Init => WritersTypeOK
  BY LenHooks DEF Init, WritersTypeOK, Writer
<1>2. WritersTypeOK /\ [Next]_vars => WritersTypeOK'
  <2> SUFFICES ASSUME WritersTypeOK, [Next]_vars PROVE WritersTypeOK' OBVIOUS
  <2> USE LenHooks DEF WritersTypeOK
  <2>1. ASSUME NEW c \in Cpu, NEW h \in Hook, TestHook(c, h)
        PROVE  WritersTypeOK'
    BY <2>1 DEF TestHook, Writer, life
  <2>2. ASSUME NEW c \in Cpu, Handler(c) PROVE WritersTypeOK'
    <3>1. CASE CallHook(c)
      <4>0. w[c] \in Writer /\ w[c].pc = "tested" BY <3>1 DEF CallHook
      <4>1. w[c].hook \in Hook BY <4>0 DEF Writer
      <4>3. w' = [w EXCEPT ![c].pc = IF w[c].hook \in hooks
                                    THEN "claim" ELSE "oops"]
        BY <3>1 DEF CallHook
      <4>5. w[c] \in [pc : {"tested", "claim", "oops"}, hook : Hook]
        BY <4>0 DEF Writer
      <4>6. w'[c] \in [pc : {"tested", "claim", "oops"}, hook : Hook]
        BY <4>3, <4>5
      <4>4. w'[c] \in Writer BY <4>6 DEF Writer
      <4>2. w' \in [Cpu -> Writer] BY <4>3, <4>4
      <4> QED BY <3>1, <4>2 DEF CallHook, life
    <3>2. CASE Claim(c)
      <4>1. w[c].hook \in Hook BY <3>2 DEF Claim, Writer
      <4>2. w'[c] \in Writer
        BY <3>2, <4>1, HooksAssumption DEF Claim, Writer
      <4>3. w' \in [Cpu -> Writer] BY <3>2, <4>2 DEF Claim
      <4> QED BY <3>2, <4>3 DEF Claim, NextId, life
    <3>3. CASE ClearHook(c)
      <4>1. w[c] \in [pc : {"clear"}, hook : Hook, id : Nat, todo : SUBSET Hook]
        BY <3>3 DEF ClearHook, Writer
      <4>2. PICK i \in 1 .. Len(Hooks) :
              /\ hooks' = hooks \ {Hooks[i]}
              /\ w' = [w EXCEPT ![c].todo = @ \ {Hooks[i]}]
        BY <3>3 DEF ClearHook
      <4>3. w'[c] \in [pc : {"clear"}, hook : Hook, id : Nat,
                       todo : SUBSET Hook]
        BY <4>1, <4>2
      <4>4. w' \in [Cpu -> Writer] BY <4>2, <4>3 DEF Writer
      <4> QED BY <3>3, <4>2, <4>4 DEF ClearHook, life
    <3>4. CASE FullDone(c)
      <4>1. w[c] \in [pc : {"clear"}, hook : Hook, id : Nat, todo : SUBSET Hook]
        BY <3>4 DEF FullDone, Writer
      <4>2. w'[c] \in Writer
        BY <3>4, <4>1, HooksAssumption DEF FullDone, Writer
      <4>3. w' \in [Cpu -> Writer] BY <3>4, <4>2 DEF FullDone
      <4> QED BY <3>4, <4>3 DEF FullDone, life
    <3>5. CASE Store(c)
      <4>0. w[c] \in Writer /\ w[c].pc = "store" BY <3>5 DEF Store
      <4>1. w[c] \in [pc : {"store"}, hook : Hook, id : Nat, todo : Seq(Part)]
        BY <4>0 DEF Writer
      <4>2. w[c].todo # <<>> /\ w' = [w EXCEPT ![c].todo = Tail(@)]
        BY <3>5 DEF Store
      <4>3. Tail(w[c].todo) \in Seq(Part) BY <4>1, <4>2
      <4>4. w'[c] \in [pc : {"store"}, hook : Hook, id : Nat, todo : Seq(Part)]
        BY <4>1, <4>2, <4>3
      <4>5. w' \in [Cpu -> Writer] BY <4>2, <4>4 DEF Writer
      <4> QED BY <3>5, <4>5 DEF Store, life
    <3>6. CASE Return(c) BY <3>6 DEF Return, Writer, life
    <3> QED BY <2>2, <3>1, <3>2, <3>3, <3>4, <3>5, <3>6 DEF Handler
  <2>3. CASE Module
    <3>1. UNCHANGED w /\ hooks' \subseteq Hook
          /\ current_sample_entry_id' \in Nat
      BY <2>3 DEF Module, ProcCreate, Vmalloc, VmallocFails, SetHook, Loaded,
         Rmmod, UnsetHook, SleepAndFree, RemoveProcEntry, writers
    <3>2. setting' \in 0 .. Len(Hooks)
      BY <2>3 DEF Module, ProcCreate, Vmalloc, VmallocFails, SetHook, Loaded,
         Rmmod, UnsetHook, SleepAndFree, RemoveProcEntry
    <3>3. module' \in {"out", "created", "setting", "loaded", "unsetting",
                       "freed"}
      BY <2>3 DEF Module, ProcCreate, Vmalloc, VmallocFails, SetHook, Loaded,
         Rmmod, UnsetHook, SleepAndFree, RemoveProcEntry
    <3> QED BY <3>1, <3>2, <3>3
  <2>4. CASE Reader BY <2>4, ReaderStep DEF writers, life
  <2>5. CASE UNCHANGED vars BY <2>5 DEF vars, writers, life
  <2> QED BY <2>1, <2>2, <2>3, <2>4, <2>5 DEF Next
<1> QED BY <1>1, <1>2, PTL DEF Spec

-----------------------------------------------------------------------------
(***************************************************************************)
(* The life of the buffer.  A hook is set, and a CPU inside one, only      *)
(* while the module is live, which the buffer is for; the hooks rmmod has  *)
(* passed are NULL, so past the last one no CPU can enter a handler and    *)
(* the sleep lets out those that have.                                     *)
(***************************************************************************)
LifeInv ==
  /\ module \in Live => buffer = "allocated"
  /\ module \notin Live => hooks = {}
  /\ module = "unsetting" => \A i \in 1 .. setting : Hooks[i] \notin hooks
  /\ \A c \in Cpu : Busy(c) => module \in Live
  /\ "store_to_freed" \notin faults

\* Hooks and handlers exist only while the module holds a buffer.
LEMMA LifeInvariant == Spec => []LifeInv
<1>1. Init => LifeInv BY DEF Init, LifeInv, Live, Busy
<1>2. WritersTypeOK /\ LifeInv /\ [Next]_vars => LifeInv'
  <2> SUFFICES ASSUME WritersTypeOK, LifeInv, [Next]_vars PROVE LifeInv'
    OBVIOUS
  <2> USE LenHooks DEF LifeInv, Live, Busy, WritersTypeOK
  <2>1. ASSUME NEW c \in Cpu, NEW h \in Hook, TestHook(c, h) PROVE LifeInv'
    BY <2>1 DEF TestHook, life
  <2>2. ASSUME NEW c \in Cpu, Handler(c) PROVE LifeInv'
    <3>1. UNCHANGED life /\ hooks' \subseteq hooks
      BY <2>2 DEF Handler, CallHook, Claim, ClearHook, FullDone, Store, Return
    <3>2. Busy(c)
      BY <2>2 DEF Handler, CallHook, Claim, ClearHook, FullDone, Store, Return
    <3>3. \A d \in Cpu \ {c} : w'[d] = w[d]
      BY <2>2 DEF Handler, CallHook, Claim, ClearHook, FullDone, Store, Return
    <3>4. "store_to_freed" \notin faults'
      <4>1. buffer = "allocated" BY <3>2
      <4>2. Store(c) => \/ UNCHANGED faults
                        \/ Fault("store_past_end")
        BY <4>1 DEF Store
      <4>3. CallHook(c) => UNCHANGED faults
        BY DEF CallHook
      <4>4. Claim(c) \/ ClearHook(c) \/ FullDone(c) \/ Return(c)
              => UNCHANGED faults
        BY DEF Claim, ClearHook, FullDone, Return
      <4> QED BY <2>2, <4>2, <4>3, <4>4 DEF Handler, Fault
    <3> QED BY <3>1, <3>2, <3>3, <3>4 DEF life
  <2>3. CASE Module
    <3>1. CASE ProcCreate BY <3>1 DEF ProcCreate
    <3>2. CASE Vmalloc BY <3>2 DEF Vmalloc
    <3>3. CASE VmallocFails BY <3>3 DEF VmallocFails, writers
    <3>4. CASE SetHook BY <3>4 DEF SetHook, writers
    <3>5. CASE Loaded BY <3>5 DEF Loaded, writers
    <3>6. CASE Rmmod
      <4>1. setting' = 0 BY <3>6 DEF Rmmod
      <4>2. \A i \in 1 .. 0 : Hooks[i] \notin hooks' OBVIOUS
      <4> QED BY <3>6, <4>1, <4>2 DEF Rmmod, writers
    <3>7. CASE UnsetHook
      <4>1. \A i \in 1 .. setting' : Hooks[i] \notin hooks'
        <5>1. /\ setting' = setting + 1 /\ hooks' = hooks \ {Hooks[setting']}
              /\ \A i \in 1 .. setting : Hooks[i] \notin hooks
          BY <3>7 DEF UnsetHook
        <5>0. setting \in Nat OBVIOUS
        <5>2. \A i \in 1 .. setting + 1 : i \in 1 .. setting \/ i = setting + 1
          BY <5>0
        <5> QED BY <5>1, <5>2
      <4> QED BY <3>7, <4>1 DEF UnsetHook, writers
    <3>8. CASE SleepAndFree
      <4>1. hooks = {} BY <3>8 DEF SleepAndFree, Hook
      <4>2. \A c \in Cpu : ~Busy(c) BY <3>8 DEF SleepAndFree, Quiescent
      <4> QED BY <3>8, <4>1, <4>2 DEF SleepAndFree, writers
    <3>9. CASE RemoveProcEntry BY <3>9 DEF RemoveProcEntry, writers
    <3> QED BY <2>3, <3>1, <3>2, <3>3, <3>4, <3>5, <3>6, <3>7, <3>8, <3>9
           DEF Module
  <2>4. CASE Reader BY <2>4, ReaderStep DEF writers, life
  <2>5. CASE UNCHANGED vars BY <2>5 DEF vars, writers, life
  <2> QED BY <2>1, <2>2, <2>3, <2>4, <2>5 DEF Next
<1> QED BY <1>1, <1>2, WritersType, PTL DEF Spec

\* No handler ever stores into a freed buffer, for any hooks and handlers,
\* granted that those inside one leave it within cleanup_module's sleep.
THEOREM NoStoreAfterFreeTheorem == Spec => []NoStoreAfterFree
<1>1. LifeInv => NoStoreAfterFree BY DEF LifeInv, NoStoreAfterFree
<1> QED BY <1>1, LifeInvariant, PTL

\* Hooks and handlers exist only while the buffer is allocated.
THEOREM HandlersHaveBufferTheorem == Spec => []HandlersHaveBuffer
<1>1. LifeInv => HandlersHaveBuffer
  BY DEF LifeInv, HandlersHaveBuffer, Claimed, Busy
<1> QED BY <1>1, LifeInvariant, PTL

-----------------------------------------------------------------------------
(***************************************************************************)
(* Entries.  A handler keeps the entry it claimed until it returns.        *)
(***************************************************************************)
\* What a step of a CPU inside a handler does to what it has claimed.
LEMMA HandlerClaims ==
  ASSUME WritersTypeOK, NEW c \in Cpu, Handler(c)
  PROVE  /\ \A d \in Cpu \ {c} : w'[d] = w[d]
         /\ UNCHANGED life
         /\ \/ /\ UNCHANGED current_sample_entry_id
               /\ Claimed(c)' => Claimed(c) /\ w'[c].id = w[c].id
            \/ /\ current_sample_entry_id' = current_sample_entry_id + 1
               /\ Claimed(c)' => w'[c].id = current_sample_entry_id
<1> USE DEF WritersTypeOK, Claimed
<1>0. w[c] \in Writer OBVIOUS
<1>1. CASE CallHook(c) BY <1>1 DEF CallHook
<1>2. CASE Claim(c) BY <1>2 DEF Claim, NextId
<1>3. CASE ClearHook(c) BY <1>0, <1>3 DEF ClearHook, Writer
<1>4. CASE FullDone(c) BY <1>0, <1>4 DEF FullDone, Writer
<1>5. CASE Store(c) BY <1>0, <1>5 DEF Store, Writer
<1>6. CASE Return(c) BY <1>6 DEF Return
<1> QED BY <1>1, <1>2, <1>3, <1>4, <1>5, <1>6 DEF Handler

\* No two CPUs fill the same entry, across overflows, reads and reloads of the
\* module: the counter restarts only when no handler holds a claim.
THEOREM EntryOwnedOnceTheorem == Spec => []EntryOwnedOnce
<1>1. Init => EntryOwnedOnce BY DEF Init, EntryOwnedOnce, Claimed
<1>2. WritersTypeOK /\ LifeInv /\ EntryOwnedOnce /\ [Next]_vars
        => EntryOwnedOnce'
  <2> SUFFICES ASSUME WritersTypeOK, LifeInv, EntryOwnedOnce, [Next]_vars
               PROVE  EntryOwnedOnce'
    OBVIOUS
  <2> USE DEF WritersTypeOK, EntryOwnedOnce, Claimed
  <2>1. ASSUME NEW c \in Cpu, NEW h \in Hook, TestHook(c, h)
        PROVE  EntryOwnedOnce'
    BY <2>1 DEF TestHook
  <2>2. ASSUME NEW c \in Cpu, Handler(c) PROVE EntryOwnedOnce'
    <3>1. ASSUME NEW d \in Cpu, Claimed(d)' PROVE w'[d].id \in Nat
      <4>1. w[d] \in Writer OBVIOUS
      <4>2. Claimed(d) => w[d].id \in Nat BY <4>1 DEF Writer
      <4> QED BY <2>2, <3>1, <4>2, HandlerClaims
    <3> QED BY <2>2, <3>1, HandlerClaims
  <2>3. CASE ProcCreate
    <3>1. \A c \in Cpu : ~Claimed(c) /\ UNCHANGED w
      BY <2>3 DEF ProcCreate, LifeInv, Live, Busy
    <3> QED BY <3>1
  <2>4. CASE Module /\ ~ProcCreate
    <3>1. UNCHANGED <<w, current_sample_entry_id>>
      BY <2>4 DEF Module, Vmalloc, VmallocFails, SetHook, Loaded, Rmmod,
         UnsetHook, SleepAndFree, RemoveProcEntry, writers
    <3> QED BY <3>1
  <2>5. CASE Reader BY <2>5, ReaderStep DEF writers
  <2>6. CASE UNCHANGED vars BY <2>6 DEF vars, writers
  <2> QED BY <2>1, <2>2, <2>3, <2>4, <2>5, <2>6 DEF Next
<1> QED BY <1>1, <1>2, WritersType, LifeInvariant, PTL DEF Spec

StoresInside ==
  /\ \A c \in Cpu : At(c, "store") => w[c].id \in Index
  /\ "store_past_end" \notin faults

\* If every handler returns when it finds the buffer full (all do but one of the
\* visualization profiler's), nothing is stored past the end of the buffer.
THEOREM NoStorePastEndTheorem ==
  ASSUME \A h \in Hook : ReturnsWhenFull[h] = TRUE
  PROVE  Spec => []NoStorePastEnd
<1>1. Init => StoresInside BY DEF Init, StoresInside
<1>2. WritersTypeOK /\ StoresInside /\ [Next]_vars => StoresInside'
  <2> SUFFICES ASSUME WritersTypeOK, StoresInside, [Next]_vars
               PROVE  StoresInside'
    OBVIOUS
  <2> USE DEF WritersTypeOK, StoresInside
  <2>1. ASSUME NEW c \in Cpu, NEW h \in Hook, TestHook(c, h)
        PROVE  StoresInside'
    BY <2>1 DEF TestHook
  <2>2. ASSUME NEW c \in Cpu, Handler(c) PROVE StoresInside'
    <3>0. w[c] \in Writer OBVIOUS
    <3>1. CASE CallHook(c) BY <3>1 DEF CallHook, Fault
    <3>2. CASE Claim(c) BY <3>2, BoundsAssumption DEF Claim, IsFull, Index
    <3>3. CASE ClearHook(c) BY <3>0, <3>3 DEF ClearHook, Writer
    <3>4. CASE FullDone(c)
      <4>1. w[c].hook \in Hook BY <3>0, <3>4 DEF FullDone, Writer
      <4> QED BY <3>4, <4>1 DEF FullDone
    <3>5. CASE Store(c) BY <3>0, <3>5 DEF Store, Writer, Fault
    <3>6. CASE Return(c) BY <3>6 DEF Return
    <3> QED BY <2>2, <3>1, <3>2, <3>3, <3>4, <3>5, <3>6 DEF Handler
  <2>3. CASE Module
    BY <2>3 DEF Module, ProcCreate, Vmalloc, VmallocFails, SetHook, Loaded,
       Rmmod, UnsetHook, SleepAndFree, RemoveProcEntry, writers
  <2>4. CASE Reader BY <2>4, ReaderStep DEF writers
  <2>5. CASE UNCHANGED vars BY <2>5 DEF vars, writers
  <2> QED BY <2>1, <2>2, <2>3, <2>4, <2>5 DEF Next
<1>3. StoresInside => NoStorePastEnd BY DEF StoresInside, NoStorePastEnd
<1> QED BY <1>1, <1>2, <1>3, WritersType, PTL DEF Spec

-----------------------------------------------------------------------------
(***************************************************************************)
(* A full buffer stops the hooks.  The hook a CPU is inside was set when   *)
(* it entered, so init_module is past it and does not set it again.        *)
(***************************************************************************)
SetSoFar == {Hooks[i] : i \in 1 .. setting}
HooksOnce == \A i, j \in 1 .. Len(Hooks) : Hooks[i] = Hooks[j] => i = j

OwnHookInv ==
  /\ module = "setting" => hooks \subseteq SetSoFar
  /\ module = "setting" => \A c \in Cpu : Busy(c) => w[c].hook \in SetSoFar
  /\ \A c \in Cpu : At(c, "clear") /\ w[c].hook \in hooks
       => \/ w[c].hook \in w[c].todo
          \/ w[c].hook \notin ClearedWhenFull[w[c].hook]

\* Every step keeps it.
LEMMA OwnHookInvariant == ASSUME HooksOnce PROVE Spec => []OwnHookInv
<1>1. Init => OwnHookInv BY DEF Init, OwnHookInv
<1>2. WritersTypeOK /\ LifeInv /\ OwnHookInv /\ [Next]_vars => OwnHookInv'
  <2> SUFFICES ASSUME WritersTypeOK, LifeInv, OwnHookInv, [Next]_vars
               PROVE  OwnHookInv'
    OBVIOUS
  <2>0. /\ w \in [Cpu -> Writer] /\ setting \in Nat /\ setting <= Len(Hooks)
        /\ Len(Hooks) \in Nat
    BY LenHooks DEF WritersTypeOK
  <2> USE DEF OwnHookInv, Busy, SetSoFar
  <2>1. ASSUME NEW c \in Cpu, NEW h \in Hook, TestHook(c, h)
        PROVE  OwnHookInv'
    BY <2>0, <2>1 DEF TestHook, life
  <2>2. ASSUME NEW c \in Cpu, Handler(c) PROVE OwnHookInv'
    <3>0. /\ UNCHANGED <<module, setting>> /\ hooks' \subseteq hooks
          /\ \A d \in Cpu \ {c} : w'[d] = w[d]
          /\ Busy(c) /\ w[c] \in Writer
      BY <2>0, <2>2 DEF life, Handler, CallHook, Claim, ClearHook, FullDone,
         Store, Return
    <3>1. Busy(c)' => w'[c].hook = w[c].hook
      <4>1. CASE CallHook(c)
        <5>1. w[c] \in [pc : {"tested", "claim", "oops"}, hook : Hook]
          BY <3>0, <4>1 DEF CallHook, Writer
        <5> QED BY <2>0, <4>1, <5>1 DEF CallHook
      <4>2. CASE Claim(c) BY <2>0, <4>2 DEF Claim
      <4>3. CASE ClearHook(c)
        <5>1. w[c] \in [pc : {"clear"}, hook : Hook, id : Nat,
                        todo : SUBSET Hook]
          BY <3>0, <4>3 DEF ClearHook, Writer
        <5> QED BY <2>0, <4>3, <5>1 DEF ClearHook
      <4>4. CASE FullDone(c) BY <2>0, <4>4 DEF FullDone
      <4>5. CASE Store(c)
        <5>1. w[c] \in [pc : {"store"}, hook : Hook, id : Nat, todo : Seq(Part)]
          BY <3>0, <4>5 DEF Store, Writer
        <5> QED BY <2>0, <4>5, <5>1 DEF Store
      <4>6. CASE Return(c) BY <2>0, <4>6 DEF Return
      <4> QED BY <2>2, <4>1, <4>2, <4>3, <4>4, <4>5, <4>6 DEF Handler
    <3>2. At(c, "clear")' /\ w'[c].hook \in hooks'
            => \/ w'[c].hook \in w'[c].todo
               \/ w'[c].hook \notin ClearedWhenFull[w'[c].hook]
      <4>1. CASE CallHook(c)
        <5>1. w[c] \in [pc : {"tested", "claim", "oops"}, hook : Hook]
          BY <3>0, <4>1 DEF CallHook, Writer
        <5> QED BY <2>0, <4>1, <5>1 DEF CallHook
      <4>2. CASE Claim(c) BY <2>0, <4>2 DEF Claim
      <4>3. CASE ClearHook(c)
        <5>1. w[c] \in [pc : {"clear"}, hook : Hook, id : Nat,
                        todo : SUBSET Hook]
          BY <3>0, <4>3 DEF ClearHook, Writer
        <5>2. PICK i \in 1 .. Len(Hooks) :
                /\ hooks' = hooks \ {Hooks[i]}
                /\ w' = [w EXCEPT ![c].todo = @ \ {Hooks[i]}]
          BY <4>3 DEF ClearHook
        <5>3. w'[c].hook = w[c].hook /\ w'[c].todo = w[c].todo \ {Hooks[i]}
          BY <2>0, <5>1, <5>2
        <5> QED BY <5>1, <5>2, <5>3
      <4>4. CASE FullDone(c) BY <2>0, <4>4 DEF FullDone
      <4>5. CASE Store(c)
        <5>1. w[c] \in [pc : {"store"}, hook : Hook, id : Nat, todo : Seq(Part)]
          BY <3>0, <4>5 DEF Store, Writer
        <5> QED BY <2>0, <4>5, <5>1 DEF Store
      <4>6. CASE Return(c) BY <2>0, <4>6 DEF Return
      <4> QED BY <2>2, <4>1, <4>2, <4>3, <4>4, <4>5, <4>6 DEF Handler
    <3> QED BY <3>0, <3>1, <3>2
  <2>3. CASE Module
    <3>1. CASE Vmalloc
      <4>1. hooks = {} /\ \A c \in Cpu : ~Busy(c)
        BY <3>1 DEF Vmalloc, LifeInv, Live
      <4> QED BY <3>1, <4>1 DEF Vmalloc
    <3>2. CASE SetHook
      <4>1. /\ module = "setting" /\ module' = "setting" /\ UNCHANGED w
            /\ hooks' = hooks \cup {Hooks[setting + 1]}
            /\ setting' = setting + 1 /\ setting < Len(Hooks)
        BY <3>2 DEF SetHook, writers
      <4>2. SetSoFar' = SetSoFar \cup {Hooks[setting + 1]}
        <5>1. \A i \in Int : i \in 1 .. setting + 1
                              <=> (i \in 1 .. setting \/ i = setting + 1)
          BY <2>0
        <5> QED BY <4>1, <5>1
      <4>3. Hooks[setting + 1] \notin SetSoFar BY <2>0, <4>1 DEF HooksOnce
      <4> HIDE DEF SetSoFar
      <4> QED BY <4>1, <4>2, <4>3
    <3>3. CASE ~Vmalloc /\ ~SetHook
      <4>1. /\ UNCHANGED w /\ hooks' \subseteq hooks
            /\ module' # "setting"
        BY <2>3, <3>3 DEF Module, ProcCreate, VmallocFails, Loaded, Rmmod,
           UnsetHook, SleepAndFree, RemoveProcEntry, writers
      <4> QED BY <4>1
    <3> QED BY <3>1, <3>2, <3>3
  <2>4. CASE Reader
    <3>1. UNCHANGED <<w, module, setting>> /\ hooks' \subseteq hooks
      BY <2>4, ReaderStep DEF writers, life
    <3> QED BY <3>1
  <2>5. CASE UNCHANGED vars BY <2>5 DEF vars, writers, life
  <2> QED BY <2>1, <2>2, <2>3, <2>4, <2>5 DEF Next
<1> QED BY <1>1, <1>2, WritersType, LifeInvariant, PTL DEF Spec

\* A CPU that found the buffer full leaves its handler's overflow code with its
\* own hook cleared, if it is one that the handler clears, whatever the other
\* CPUs, the reader and insmod do meanwhile.
THEOREM FullStopsHookTheorem == ASSUME HooksOnce PROVE Spec => FullStopsHook
<1> DEFINE Stops ==
      \A c \in Cpu :
        At(c, "clear") /\ w'[c].pc # "clear" /\ module = "loaded" /\ loads = 1
          => \/ w[c].hook \notin hooks
             \/ w[c].hook \notin ClearedWhenFull[w[c].hook]
<1>1. WritersTypeOK /\ OwnHookInv /\ [Next]_vars => [Stops]_vars
  <2> SUFFICES ASSUME WritersTypeOK, OwnHookInv, Next, NEW c \in Cpu,
                      At(c, "clear"), w'[c].pc # "clear"
               PROVE  \/ w[c].hook \notin hooks
                      \/ w[c].hook \notin ClearedWhenFull[w[c].hook]
    OBVIOUS
  <2>0. w \in [Cpu -> Writer] /\ w[c] \in Writer BY DEF WritersTypeOK
  <2>1. FullDone(c)
    <3>1. w' # w OBVIOUS
    <3>2. ~Module /\ ~Reader BY <3>1, ModuleKeepsWriters, ReaderStep DEF writers
    <3>3. PICK d \in Cpu : Handler(d) \/ \E h \in Hook : TestHook(d, h)
      BY <3>2 DEF Next
    <3>4. \A e \in Cpu \ {d} : w'[e] = w[e]
      BY <2>0, <3>3, HandlerClaims DEF TestHook
    <3>5. d = c BY <3>4
    <3>6. ~ClearHook(c)
      <4>1. w[c] \in [pc : {"clear"}, hook : Hook, id : Nat, todo : SUBSET Hook]
        BY <2>0 DEF Writer
      <4> QED BY <2>0, <4>1 DEF ClearHook
    <3> QED BY <3>3, <3>5, <3>6 DEF Handler, TestHook, CallHook, Claim, Store,
            Return
  <2> QED BY <2>1 DEF FullDone, OwnHookInv
<1> QED BY <1>1, WritersType, OwnHookInvariant, PTL DEF Spec, FullStopsHook
=============================================================================
