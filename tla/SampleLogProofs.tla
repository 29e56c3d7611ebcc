-------------------------- MODULE SampleLogProofs --------------------------
(***************************************************************************)
(* That a SampleProfiler keeps a SampleLog, for any number of CPUs, any    *)
(* buffer and any hooks whose handlers each fill what the reader prints of *)
(* one type.                                                               *)
(***************************************************************************)
EXTENDS SampleReaderProofs

USE DEF At, Out

\* The parts in a sequence of them.
Parts(s) == {s[j] : j \in 1 .. Len(s)}

\* What the theorem needs of the hooks: each handler writes the parts of a
\* sample of one type; "open" is no type.
HandlersFillSamples ==
  /\ \A h \in Hook : \E t \in Types : Parts(Stores[h]) = SampleParts(t)
  /\ "open" \notin Types

\* Writing the head of what is to do leaves the same parts in all.
LEMMA PartsOfTail ==
  ASSUME NEW S, NEW s \in Seq(S), s # <<>>
  PROVE  Parts(s) = {Head(s)} \cup Parts(Tail(s))
<1>1. Len(s) \in Nat \ {0} /\ Head(s) = s[1] /\ Len(Tail(s)) = Len(s) - 1
      /\ \A j \in 1 .. Len(s) - 1 : Tail(s)[j] = s[j + 1]
  OBVIOUS
<1>2. ASSUME NEW x \in Parts(s) PROVE x \in {Head(s)} \cup Parts(Tail(s))
  <2>1. PICK j \in 1 .. Len(s) : x = s[j] BY <1>2 DEF Parts
  <2>2. CASE j = 1 BY <1>1, <2>1, <2>2
  <2>3. CASE j # 1
    <3>1. j - 1 \in 1 .. Len(Tail(s)) /\ x = Tail(s)[j - 1]
      BY <1>1, <2>1, <2>3
    <3> QED BY <3>1 DEF Parts
  <2> QED BY <2>2, <2>3
<1>3. ASSUME NEW x \in Parts(Tail(s)) PROVE x \in Parts(s)
  <2>1. PICK j \in 1 .. Len(s) - 1 : x = Tail(s)[j] BY <1>1, <1>3 DEF Parts
  <2>2. j + 1 \in 1 .. Len(s) /\ x = s[j + 1] BY <1>1, <2>1
  <2> QED BY <2>2 DEF Parts
<1>4. Head(s) \in Parts(s) BY <1>1 DEF Parts
<1> QED BY <1>2, <1>3, <1>4

\* Nothing is left of nothing.
LEMMA NoParts == Parts(<<>>) = {} /\ \A t : SampleParts(t) # {}
<1>1. Len(<<>>) = 0 /\ \A j \in 1 .. 0 : FALSE OBVIOUS
<1>2. Parts(<<>>) = {} BY <1>1 DEF Parts
<1>3. \A t : <<"clock">> \in SampleParts(t) BY DEF SampleParts
<1> QED BY <1>2, <1>3

\* A complete sample is taken for one of some type.
LEMMA SampleIsType ==
  ASSUME NEW parts, \E t \in Types : parts = SampleParts(t)
  PROVE  Sample(parts) \in Types
<1>1. Sample(parts) = CHOOSE t \in Types : parts = SampleParts(t) BY DEF Sample
<1> QED BY <1>1, Zenon

-----------------------------------------------------------------------------
(***************************************************************************)
(* The entries.  One that is not claimed is blank; one that is has, with   *)
(* what its handler has still to write, the parts of a sample, and all of  *)
(* them when no handler is at it.                                          *)
(***************************************************************************)
Whole(parts) == \E t \in Types : parts = SampleParts(t)

LogInv ==
  /\ module = "created" => current_sample_entry_id = 0
  /\ buffer = "allocated" => module \in Live
  /\ \A c \in Cpu : At(c, "clear") => w[c].id >= MaxEntries
  /\ \A c \in Cpu : At(c, "store") /\ w[c].id \in Index =>
       Whole(sample_entries[w[c].id] \cup Parts(w[c].todo))
  /\ buffer = "allocated" => \A i \in Index :
       IF i >= current_sample_entry_id THEN sample_entries[i] = {}
       ELSE Filling(i) \/ Whole(sample_entries[i])

Step == Log!Next \/ UNCHANGED Log!log

\* What no entry of the log shows.
LEMMA Unseen ==
  ASSUME UNCHANGED <<buffer, current_sample_entry_id, sample_entries>>,
         \A i \in Index : Filling(i)' <=> Filling(i)
  PROVE  UNCHANGED Log!log
<1>1. claimed' = claimed BY DEF claimed, live, Counted
<1>2. entry' = [i \in Index |-> IF i >= claimed THEN "free"
                               ELSE IF Filling(i) THEN "open"
                               ELSE Sample(sample_entries[i])]
  BY <1>1 DEF entry
<1>3. entry' = entry BY <1>2 DEF entry
<1>4. live' = live BY DEF live
<1> QED BY <1>1, <1>3, <1>4 DEF Log!log

\* The same where no profile is being taken, before and after the step.
LEMMA NoProfile ==
  ASSUME buffer # "allocated", buffer' # "allocated"
  PROVE  UNCHANGED Log!log
<1>1. claimed = 0 /\ claimed' = 0 BY DEF claimed, live
<1>2. \A i \in Index : i >= 0 BY BoundsAssumption DEF Index
<1>3. entry = [i \in Index |-> "free"] BY <1>1, <1>2 DEF entry
<1>4. entry' = [i \in Index |-> "free"] BY <1>1, <1>2 DEF entry
<1>5. live' = live BY DEF live
<1> QED BY <1>1, <1>3, <1>4, <1>5 DEF Log!log

\* A handler claims an entry: the log takes the next, if one is left.
LEMMA ClaimLogs ==
  ASSUME WritersTypeOK, BufferTypeOK, LifeInv, EntryOwnedOnce, LogInv,
         HandlersFillSamples, NEW c \in Cpu, Claim(c)
  PROVE  LogInv' /\ Step
<1>0. /\ current_sample_entry_id \in Nat /\ MaxEntries \in Nat \ {0}
      /\ w \in [Cpu -> Writer] /\ w[c] \in Writer
      /\ \A i \in Index : i \in Nat /\ i < MaxEntries
  BY BoundsAssumption DEF WritersTypeOK, Index
<1>1. /\ buffer = "allocated" /\ module \in Live
      /\ UNCHANGED <<buffer, module, sample_entries>>
      /\ current_sample_entry_id' = current_sample_entry_id + 1
      /\ \A d \in Cpu \ {c} : w'[d] = w[d]
      /\ w[c].pc = "claim" /\ w[c].hook \in Hook
  BY <1>0 DEF LifeInv, Busy, Live, Claim, NextId, life, Writer
<1>n. PICK n \in Nat : n = current_sample_entry_id BY <1>0
<1>2. CASE n >= MaxEntries
  <2>1. w'[c].pc = "clear" /\ w'[c].id >= MaxEntries
    BY <1>n, <1>0, <1>2 DEF Claim, IsFull
  <2>2. \A i \in Index : Filling(i)' <=> Filling(i)
    BY <1>n, <1>1, <2>1 DEF Filling
  <2>3. live /\ claimed = MaxEntries /\ claimed' = MaxEntries /\ live'
    BY <1>n, <1>0, <1>1, <1>2 DEF live, claimed, Counted, Least
  <2>4. entry' = [i \in Index |-> IF i >= claimed THEN "free"
                                 ELSE IF Filling(i) THEN "open"
                                 ELSE Sample(sample_entries[i])]
    BY <1>n, <1>1, <2>2, <2>3 DEF entry
  <2>5. UNCHANGED Log!log
    <3>1. entry' = entry BY <2>4 DEF entry
    <3>2. live' = live BY <1>1 DEF live
    <3> QED BY <2>3, <3>1, <3>2 DEF Log!log
  <2>6. \A i \in Index : ~(i >= n) /\ ~(i >= current_sample_entry_id')
    BY <1>n, <1>0, <1>1, <1>2
  <2>7. LogInv' BY <1>n, <1>0, <1>1, <2>1, <2>2, <2>6 DEF LogInv, Live
  <2> QED BY <2>5, <2>7 DEF Step
<1>3. CASE n < MaxEntries
  <2>1. w'[c] = [pc |-> "store", hook |-> w[c].hook, id |-> n,
                 todo |-> Stores[w[c].hook]]
    BY <1>n, <1>0, <1>3 DEF Claim, IsFull
  <2>2. n \in Index BY <1>n, <1>0, <1>3 DEF Index
  <2>3. PICK t \in Types : Parts(w'[c].todo) = SampleParts(t)
    BY <1>n, <1>1, <2>1 DEF HandlersFillSamples
  <2>4. w'[c].todo # <<>> BY <2>3, NoParts
  <2>5. sample_entries[n] = {} BY <1>n, <1>0, <1>1, <2>2 DEF LogInv
  <2>6. /\ Filling(n)'
        /\ \A i \in Index : i # n => (Filling(i)' <=> Filling(i))
    BY <1>n, <1>1, <2>1, <2>4 DEF Filling
  <2>7. live /\ claimed = n /\ claimed' = n + 1
    <3>1. claimed = n BY <1>n, <1>0, <1>1, <1>3 DEF live, claimed, Counted, Least
    <3>2. claimed' = n + 1 BY <1>n, <1>0, <1>1, <1>3 DEF live, claimed, Counted, Least
    <3> QED BY <1>1, <3>1, <3>2 DEF live
  <2>8. entry' = [entry EXCEPT ![claimed] = "open"]
    <3>1. entry' = [i \in Index |->
                      IF i >= n + 1 THEN "free"
                      ELSE IF i = n THEN "open"
                      ELSE IF Filling(i) THEN "open"
                      ELSE Sample(sample_entries[i])]
      BY <1>n, <1>1, <2>6, <2>7 DEF entry
    <3>2. \A i \in Index : i # n => (i >= n + 1 <=> i >= n)
      BY <1>0
    <3>3. entry = [i \in Index |->
                     IF i >= n THEN "free"
                     ELSE IF Filling(i) THEN "open"
                     ELSE Sample(sample_entries[i])]
      BY <2>7 DEF entry
    <3>4. ~(n >= n + 1) BY <1>0
    <3> QED BY <2>2, <2>7, <3>1, <3>2, <3>3, <3>4
  <2>9. Log!Take
    <3>1. live' = live BY <1>1 DEF live
    <3> QED BY <1>n, <1>3, <2>7, <2>8, <3>1 DEF Log!Take
  <2>10. Whole(sample_entries'[n] \cup Parts(w'[c].todo))
    BY <1>n, <1>1, <2>3, <2>5 DEF Whole
  <2>11. (\A d \in Cpu : At(d, "store") /\ w[d].id \in Index =>
            Whole(sample_entries[w[d].id] \cup Parts(w[d].todo)))'
    <3>1. ASSUME NEW d \in Cpu, w'[d].pc = "store", w'[d].id \in Index
          PROVE  Whole(sample_entries'[w'[d].id] \cup Parts(w'[d].todo))
      <4>1. CASE d = c BY <2>1, <2>10, <4>1
      <4>2. CASE d # c
        <5>1. w'[d] = w[d] /\ sample_entries' = sample_entries BY <1>1, <4>2
        <5>2. Whole(sample_entries[w[d].id] \cup Parts(w[d].todo))
          BY <3>1, <5>1 DEF LogInv
        <5> QED BY <5>1, <5>2
      <4> QED BY <4>1, <4>2
    <3> QED BY <3>1
  <2>12. (\A i \in Index :
            IF i >= current_sample_entry_id THEN sample_entries[i] = {}
            ELSE Filling(i) \/ Whole(sample_entries[i]))'
    BY <1>n, <1>0, <1>1, <2>6 DEF LogInv
  <2>13. LogInv'
    BY <1>n, <1>1, <2>1, <2>11, <2>12 DEF LogInv, Live
  <2> QED BY <2>9, <2>13 DEF Step, Log!Next
<1> QED BY <1>n, <1>0, <1>2, <1>3

\* A handler writes a part: the log completes the entry with the last one.
LEMMA StoreLogs ==
  ASSUME WritersTypeOK, BufferTypeOK, LifeInv, EntryOwnedOnce, LogInv,
         HandlersFillSamples, NEW c \in Cpu, Store(c)
  PROVE  LogInv' /\ Step
<1>0. /\ current_sample_entry_id \in Nat /\ MaxEntries \in Nat \ {0}
      /\ w \in [Cpu -> Writer] /\ w[c] \in Writer
      /\ \A i \in Index : i \in Nat /\ i < MaxEntries
      /\ sample_entries \in [Index -> SUBSET Part]
  BY BoundsAssumption DEF WritersTypeOK, BufferTypeOK, Index
<1>1. w[c] \in [pc : {"store"}, hook : Hook, id : Nat, todo : Seq(Part)]
      /\ w[c].todo # <<>>
  BY <1>0 DEF Store, Writer
<1>s. PICK id \in Nat, s \in Seq(Part) : id = w[c].id /\ s = w[c].todo
  BY <1>1
<1>2. /\ buffer = "allocated" /\ module \in Live
      /\ UNCHANGED <<buffer, module, current_sample_entry_id>>
      /\ \A d \in Cpu \ {c} : w'[d] = w[d]
      /\ w'[c] = [pc |-> "store", hook |-> w[c].hook, id |-> id,
                  todo |-> Tail(s)]
  BY <1>s, <1>0, <1>1 DEF LifeInv, Busy, Live, Store, life
<1>3. /\ Parts(s) = {Head(s)} \cup Parts(Tail(s)) /\ Tail(s) \in Seq(Part)
      /\ id < current_sample_entry_id
      /\ \A d \in Cpu \ {c} : At(d, "store") => w[d].id # id
  BY <1>s, <1>1, PartsOfTail DEF EntryOwnedOnce, Claimed
<1>4. CASE id \notin Index
  <2>1. UNCHANGED sample_entries BY <1>s, <1>4 DEF Store
  <2>2. \A i \in Index : Filling(i)' <=> Filling(i)
    BY <1>s, <1>2, <1>4 DEF Filling
  <2>3. LogInv' BY <1>s, <1>2, <1>4, <2>1, <2>2 DEF LogInv
  <2> QED BY <1>s, <1>2, <2>1, <2>2, <2>3, Unseen DEF Step
<1>5. CASE id \in Index
  <2>1. sample_entries' = [sample_entries EXCEPT ![id] = @ \cup {Head(s)}]
    BY <1>s, <1>2, <1>5 DEF Store
  <2>2. /\ sample_entries'[id] = sample_entries[id] \cup {Head(s)}
        /\ \A i \in Index : i # id => sample_entries'[i] = sample_entries[i]
    BY <1>s, <1>0, <1>5, <2>1
  <2>3. Whole(sample_entries[id] \cup Parts(s))
    BY <1>s, <1>1, <1>5 DEF LogInv
  <2>4. Whole(sample_entries'[id] \cup Parts(Tail(s)))
    <3>1. sample_entries[id] \cup Parts(s)
            = sample_entries'[id] \cup Parts(Tail(s))
      BY <1>s, <1>3, <2>2
    <3> QED BY <2>3, <3>1
  <2>5. /\ Filling(id)
        /\ Filling(id)' <=> Tail(s) # <<>>
        /\ \A i \in Index : i # id => (Filling(i)' <=> Filling(i))
    BY <1>s, <1>1, <1>2, <1>3 DEF Filling
  <2>6. Tail(s) = <<>> => Whole(sample_entries'[id]) BY <2>4, NoParts
  <2>7. LogInv'
    <3>1. (\A d \in Cpu : At(d, "store") /\ w[d].id \in Index =>
             Whole(sample_entries[w[d].id] \cup Parts(w[d].todo)))'
      <4>1. ASSUME NEW d \in Cpu, w'[d].pc = "store", w'[d].id \in Index
            PROVE  Whole(sample_entries'[w'[d].id] \cup Parts(w'[d].todo))
        <5>1. CASE d = c
          <6>1. w'[d].id = id /\ w'[d].todo = Tail(s) BY <1>2, <5>1
          <6> QED BY <2>4, <6>1
        <5>2. CASE d # c
          <6>1. w'[d] = w[d] /\ w[d].id # id BY <1>2, <1>3, <4>1, <5>2
          <6>2. sample_entries'[w[d].id] = sample_entries[w[d].id]
            BY <2>2, <4>1, <6>1
          <6>3. Whole(sample_entries[w[d].id] \cup Parts(w[d].todo))
            BY <4>1, <6>1 DEF LogInv
          <6> QED BY <6>1, <6>2, <6>3
        <5> QED BY <5>1, <5>2
      <4> QED BY <4>1
    <3>2. (\A i \in Index :
             IF i >= current_sample_entry_id THEN sample_entries[i] = {}
             ELSE Filling(i) \/ Whole(sample_entries[i]))'
      <4>1. ASSUME NEW i \in Index, i # id
            PROVE  (IF i >= current_sample_entry_id THEN sample_entries[i] = {}
                    ELSE Filling(i) \/ Whole(sample_entries[i]))'
        <5>1. sample_entries'[i] = sample_entries[i]
              /\ (Filling(i)' <=> Filling(i))
          BY <2>2, <2>5, <4>1
        <5>2. IF i >= current_sample_entry_id THEN sample_entries[i] = {}
              ELSE Filling(i) \/ Whole(sample_entries[i])
          BY <1>2 DEF LogInv
        <5> QED BY <1>2, <5>1, <5>2
      <4>2. /\ ~(id >= current_sample_entry_id)
            /\ Filling(id)' \/ Whole(sample_entries'[id])
        BY <1>0, <1>3, <2>5, <2>6
      <4> QED BY <1>2, <4>1, <4>2
    <3> QED BY <1>s, <1>2, <3>1, <3>2 DEF LogInv
  <2>8. live /\ claimed' = claimed /\ live' = live
    BY <1>2 DEF live, claimed, Counted
  <2>9. id < claimed BY <1>s, <1>0, <1>3, <1>5, <2>8 DEF claimed, Counted, Least
  <2>10. entry[id] = "open"
    <3>1. ~(id >= claimed)
      BY <1>0, <2>9 DEF claimed, Counted, Least
    <3>2. Filling(id) BY <2>5
    <3> QED BY <1>5, <3>1, <3>2 DEF entry
  <2>11. entry' = [entry EXCEPT ![id] = IF Tail(s) = <<>>
                                       THEN Sample(sample_entries'[id])
                                       ELSE "open"]
    <3>1. entry' = [i \in Index |->
                      IF i >= claimed THEN "free"
                      ELSE IF i = id
                      THEN IF Tail(s) = <<>> THEN Sample(sample_entries'[id])
                                             ELSE "open"
                      ELSE IF Filling(i) THEN "open"
                      ELSE Sample(sample_entries[i])]
      BY <2>2, <2>5, <2>8 DEF entry
    <3>2. ~(id >= claimed)
      BY <1>s, <1>0, <1>1, <2>9 DEF claimed, Counted, Least
    <3>3. entry = [i \in Index |->
                      IF i >= claimed THEN "free"
                      ELSE IF Filling(i) THEN "open"
                      ELSE Sample(sample_entries[i])]
      BY DEF entry
    <3> QED BY <1>5, <3>1, <3>2, <3>3
  <2>12. CASE Tail(s) = <<>>
    <3>1. Sample(sample_entries'[id]) \in Types
      BY <2>6, <2>12, SampleIsType DEF Whole
    <3>2. Log!Complete(id)
      BY <2>8, <2>10, <2>11, <2>12, <3>1 DEF Log!Complete
    <3>3. id \in DOMAIN entry BY <1>5 DEF entry
    <3> QED BY <2>7, <3>2, <3>3 DEF Step, Log!Next
  <2>13. CASE Tail(s) # <<>>
    <3>1. entry' = entry BY <2>10, <2>11, <2>13 DEF entry
    <3> QED BY <2>7, <2>8, <3>1 DEF Step, Log!log
  <2> QED BY <2>12, <2>13
<1> QED BY <1>4, <1>5

\* The other steps inside a hook: the log sees none of them.
LEMMA OtherLogs ==
  ASSUME WritersTypeOK, LogInv, NEW c \in Cpu,
         \/ \E h \in Hook : TestHook(c, h)
         \/ CallHook(c) \/ ClearHook(c) \/ FullDone(c) \/ Return(c)
  PROVE  LogInv' /\ Step
<1>0. /\ UNCHANGED <<buffer, module, current_sample_entry_id, sample_entries>>
      /\ w \in [Cpu -> Writer] /\ w[c] \in Writer
      /\ \A d \in Cpu \ {c} : w'[d] = w[d]
  BY DEF WritersTypeOK, TestHook, CallHook, ClearHook, FullDone, Return, life
<1>1. /\ At(c, "clear")' => w'[c].id >= MaxEntries
      /\ At(c, "store")' => w'[c].id \notin Index
      /\ At(c, "store") => w[c].todo = <<>> \/ w[c].id \notin Index
  <2>1. CASE \E h \in Hook : TestHook(c, h) BY <1>0, <2>1 DEF TestHook
  <2>2. CASE CallHook(c)
    <3>1. w[c] \in [pc : {"tested", "claim", "oops"}, hook : Hook]
      BY <1>0, <2>2 DEF CallHook, Writer
    <3>2. w'[c].pc \in {"claim", "oops"} BY <1>0, <2>2, <3>1 DEF CallHook
    <3> QED BY <2>2, <3>2 DEF CallHook
  <2>3. CASE ClearHook(c)
    <3>1. w[c] \in [pc : {"clear"}, hook : Hook, id : Nat, todo : SUBSET Hook]
      BY <1>0, <2>3 DEF ClearHook, Writer
    <3>2. w'[c].pc = "clear" /\ w'[c].id = w[c].id
      BY <1>0, <2>3, <3>1 DEF ClearHook
    <3> QED BY <3>1, <3>2 DEF LogInv
  <2>4. CASE FullDone(c)
    <3>1. w[c] \in [pc : {"clear"}, hook : Hook, id : Nat, todo : SUBSET Hook]
      BY <1>0, <2>4 DEF FullDone, Writer
    <3>2. w[c].id \notin Index
      BY <3>1, BoundsAssumption DEF LogInv, Index
    <3> QED BY <1>0, <2>4, <3>1, <3>2 DEF FullDone
  <2>5. CASE Return(c) BY <1>0, <2>5 DEF Return
  <2> QED BY <2>1, <2>2, <2>3, <2>4, <2>5
<1>2. \A i \in Index : Filling(i)' <=> Filling(i)
  BY <1>0, <1>1 DEF Filling
<1>3. LogInv' BY <1>0, <1>1, <1>2 DEF LogInv
<1> QED BY <1>0, <1>2, <1>3, Unseen DEF Step

\* insmod starts the log, vfree ends it.
LEMMA ModuleLogs ==
  ASSUME WritersTypeOK, LifeInv, LogInv, HandlersFillSamples, Module
  PROVE  LogInv' /\ Step
<1>0. UNCHANGED w BY ModuleStep
<1>1. CASE ProcCreate
  <2>1. buffer # "allocated" /\ buffer' # "allocated" /\ module' = "created"
        /\ current_sample_entry_id' = 0
    BY <1>1 DEF ProcCreate, LogInv, Live
  <2>2. \A c \in Cpu : ~At(c, "clear") /\ ~At(c, "store")
    BY <1>1 DEF ProcCreate, LifeInv, Live, Busy
  <2>3. LogInv' BY <1>0, <2>1, <2>2 DEF LogInv
  <2> QED BY <2>1, <2>3, NoProfile DEF Step
<1>2. CASE Vmalloc
  <2>1. /\ buffer # "allocated" /\ buffer' = "allocated" /\ module' = "setting"
        /\ current_sample_entry_id' = 0 /\ current_sample_entry_id = 0
        /\ sample_entries' = Blank
    BY <1>2 DEF Vmalloc, LogInv, Live
  <2>2. \A c \in Cpu : ~At(c, "clear") /\ ~At(c, "store")
    BY <1>2 DEF Vmalloc, LifeInv, Live, Busy
  <2>3. \A i \in Index : i >= 0 /\ sample_entries'[i] = {}
    BY <2>1, BoundsAssumption DEF Index, Blank
  <2>4. LogInv' BY <1>0, <2>1, <2>2, <2>3 DEF LogInv, Live
  <2>5. claimed = 0 /\ claimed' = 0
    BY <2>1, BoundsAssumption DEF claimed, live, Counted, Least
  <2>6. entry = [i \in Index |-> "free"]
    BY <2>3, <2>5 DEF entry
  <2>7. entry' = [i \in Index |-> "free"]
    BY <2>3, <2>5 DEF entry
  <2>8. ~live /\ live' = TRUE BY <2>1 DEF live
  <2>9. Log!Start BY <2>5, <2>6, <2>7, <2>8 DEF Log!Start
  <2> QED BY <2>4, <2>9 DEF Step, Log!Next
<1>3. CASE SleepAndFree
  <2>1. /\ buffer = "allocated" /\ buffer' = "freed" /\ module' = "freed"
        /\ \A c \in Cpu : ~At(c, "clear") /\ ~At(c, "store")
        /\ UNCHANGED <<current_sample_entry_id, sample_entries>>
    BY <1>3 DEF SleepAndFree, Quiescent, LifeInv, Live, writers
  <2>2. LogInv' BY <1>0, <2>1 DEF LogInv
  <2>3. \A i \in Index : entry[i] # "open"
    <3>1. ASSUME NEW i \in Index, ~(i >= claimed)
          PROVE  Sample(sample_entries[i]) # "open"
      <4>1. ~(i >= current_sample_entry_id)
        BY <2>1, <3>1, BoundsAssumption
           DEF claimed, live, Counted, Least, WritersTypeOK, Index
      <4>2. Whole(sample_entries[i]) BY <2>1, <4>1 DEF LogInv, Filling
      <4> QED BY <4>2, SampleIsType DEF Whole, HandlersFillSamples
    <3>2. \A i \in Index : ~Filling(i) BY <2>1 DEF Filling
    <3> QED BY <3>1, <3>2 DEF entry
  <2>4. live /\ live' = FALSE /\ claimed' = 0 BY <2>1 DEF live, claimed
  <2>5. \A i \in Index : i >= 0 BY BoundsAssumption DEF Index
  <2>6. entry' = [i \in Index |-> "free"] BY <2>4, <2>5 DEF entry
  <2>7. Log!End
    BY <2>3, <2>4, <2>6 DEF Log!End, Log!Free, Index, entry
  <2> QED BY <2>2, <2>7 DEF Step, Log!Next
<1>4. CASE ~ProcCreate /\ ~Vmalloc /\ ~SleepAndFree
  <2>1. /\ UNCHANGED <<buffer, current_sample_entry_id, sample_entries>>
        /\ module' # "created"
        /\ module \in Live => module' \in Live
    BY <1>4 DEF Module, VmallocFails, SetHook, Loaded, Rmmod, UnsetHook,
       RemoveProcEntry, writers, Live
  <2>2. \A i \in Index : Filling(i)' <=> Filling(i) BY <1>0 DEF Filling
  <2>3. LogInv' BY <1>0, <2>1, <2>2 DEF LogInv
  <2> QED BY <2>1, <2>2, <2>3, Unseen DEF Step
<1> QED BY <1>1, <1>2, <1>3, <1>4

\* Where every handler fills a sample of one type, the profile is a SampleLog,
\* however CPUs, the reader, insmod and rmmod interleave: no entry is claimed
\* twice, half written when the buffer is freed, or changed once it is complete.
THEOREM Refinement ==
  ASSUME HandlersFillSamples PROVE Spec => ImplementsSampleLog
<1>1. Init => LogInv /\ Log!Init
  <2> SUFFICES ASSUME Init PROVE LogInv /\ Log!Init OBVIOUS
  <2>1. LogInv BY DEF Init, LogInv
  <2>2. claimed = 0 /\ live = FALSE BY DEF Init, claimed, live
  <2>3. \A i \in Index : i >= 0 BY BoundsAssumption DEF Index
  <2>4. entry = [i \in Index |-> "free"] BY <2>2, <2>3 DEF entry
  <2> QED BY <2>1, <2>2, <2>4 DEF Log!Init, Log!Free, Index
<1> DEFINE Known == WritersTypeOK /\ BufferTypeOK /\ LifeInv /\ EntryOwnedOnce
<1>2. Known /\ LogInv /\ [Next]_vars => LogInv' /\ [Log!Next]_(Log!log)
  <2> SUFFICES ASSUME WritersTypeOK, BufferTypeOK, LifeInv, EntryOwnedOnce,
                      LogInv, [Next]_vars
               PROVE  LogInv' /\ Step
    BY DEF Step
  <2>1. ASSUME NEW c \in Cpu, Handler(c) \/ \E h \in Hook : TestHook(c, h)
        PROVE  LogInv' /\ Step
    BY <2>1, ClaimLogs, StoreLogs, OtherLogs DEF Handler
  <2>2. CASE Module BY <2>2, ModuleLogs
  <2>3. CASE Reader \/ UNCHANGED vars
    <3>1. UNCHANGED <<w, buffer, module, current_sample_entry_id,
                      sample_entries>>
      BY <2>3, ReaderStep DEF vars, writers, life
    <3>2. \A i \in Index : Filling(i)' <=> Filling(i) BY <3>1 DEF Filling
    <3>3. LogInv' BY <3>1, <3>2 DEF LogInv
    <3> QED BY <3>1, <3>2, <3>3, Unseen DEF Step
  <2> QED BY <2>1, <2>2, <2>3 DEF Next
<1> QED BY <1>1, <1>2, WritersType, BufferType, LifeInvariant,
           EntryOwnedOnceTheorem, PTL DEF Spec, ImplementsSampleLog, Log!Spec
=============================================================================
