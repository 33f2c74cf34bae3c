---------------------------- MODULE DduLink_proofs ----------------------------
(***************************************************************************)
(* Proofs about DduLink, for every set of documents, settings, scenarios    *)
(* and budgets: a start finds of every document what was stored, wherever   *)
(* the power fails (StoredSurvives), and the tap that wakes the panels       *)
(* presses no button (WakeTapSilent).  Those about the layout editor follow *)
(* at the end: its layouts go where the documents go.                       *)
(*                                                                         *)
(* What survives says nothing of the entries a handler has still to write,  *)
(* so that it is not inductive.  WorkInv says what they are: the new copy   *)
(* before the removal of the old one, of the documents the memory already   *)
(* has, and more than one document only in the default partition, where a   *)
(* write that fails does not end the handler.  KeptInv says what of them    *)
(* the flash has: a document that is still to be written has its old copy,  *)
(* one that is only to be removed has its new one.                          *)
(*                                                                         *)
(* Nil stands for nothing stored and is no document; as a model value it    *)
(* cannot be asked for that by TLC, so that theorem assumes it.             *)
(*                                                                         *)
(* A tap in the dark is silent because the task remembers the finger: as    *)
(* long as it is on the glass, the task has it down or sleeps (TaskInv).    *)
(***************************************************************************)
EXTENDS DduLink, SequenceTheorems, FiniteSetTheorems, WellFoundedInduction, TLAPS

NilIsNoRecord == Nil # [x \in DOMAIN Nil |-> Nil[x]]

Commands == {"RS", "UI", "EL", "C", "BS", "PINS", "DO"}

IsPut(k, i)    == work.todo[i].op = "put" /\ work.todo[i].key = k
IsRetire(k, i) == work.todo[i].op = "retire" /\ work.todo[i].key = k
PutPending(k) == \E i \in DOMAIN work.todo : IsPut(k, i)

TypedInv ==
  /\ on \in BOOLEAN
  /\ DOMAIN blob = BlobKeys /\ DOMAIN nvs = Keys /\ DOMAIN ram = Keys
  /\ DOMAIN work = {"todo", "answer", "restart"} /\ \E S : work.todo \in Seq(S)

\* The entries of `writes` bring what the memory `m` has.
Entries(writes, m) ==
  /\ \A i \in DOMAIN writes :
       /\ writes[i].op \in {"put", "retire"} /\ writes[i].key \in Keys
       /\ writes[i].op = "put" => writes[i].val = m[writes[i].key] /\ writes[i].val # Nil
       /\ writes[i].op = "retire" => InBlob(writes[i].key)
  /\ \A i, j \in DOMAIN writes :
       i < j /\ writes[i].key = writes[j].key => writes[i].op = "put" /\ writes[j].op = "retire"
  /\ \A i, j \in DOMAIN writes : InBlob(writes[i].key) => writes[j].key = writes[i].key

WorkInv ==
  /\ ~on => work = NoWork
  /\ work # NoWork => work.answer # "none"
  /\ Entries(work.todo, ram)

AsKept(k) == Stored(k) = kept[k] /\ ram[k] = Found(k)

KeptInv ==
  /\ work = NoWork => \A k \in Keys \ failed : Stored(k) = kept[k] /\ (on => ram[k] = Found(k))
  /\ work # NoWork => \A k \in Keys \ failed :
       IF PutPending(k) THEN Stored(k) = kept[k] ELSE (Stored(k) = ram[k] /\ ram[k] # Nil) \/ AsKept(k)
  /\ \A i \in DOMAIN work.todo : \A k \in Keys :
       IsRetire(k, i) /\ ~PutPending(k) => blob[k] = ram[k] /\ ram[k] # Nil

StoreInv == TypedInv /\ WorkInv /\ KeptInv

-----------------------------------------------------------------------------
(* The flash, entry by entry                                                *)

\* The steps that leave flash, memory and handler alone keep all that.
LEMMA StoreUntouched ==
  ASSUME StoreInv, UNCHANGED <<flash, ram, work, on, kept, failed>>
  PROVE  StoreInv'
BY DEF StoreInv, TypedInv, WorkInv, KeptInv, Entries, PutPending, IsPut, IsRetire, AsKept, flash, Stored, Found, InBlob

LEMMA TailOf ==
  ASSUME NEW S, NEW s \in Seq(S), s # <<>>
  PROVE  /\ Len(s) \in Nat /\ Len(s) >= 1 /\ DOMAIN s = 1..Len(s)
         /\ Tail(s) \in Seq(S) /\ DOMAIN Tail(s) = 1..(Len(s) - 1)
         /\ \A i \in 1..(Len(s) - 1) : Tail(s)[i] = s[i + 1]
         /\ Head(s) = s[1]
BY HeadTailProperties

\* What is left of the entries after the first.
LEMMA EntriesLeft ==
  ASSUME NEW S, NEW s \in Seq(S), NEW m, s # <<>>, Entries(s, m)
  PROVE  /\ Entries(Tail(s), m)
         /\ \A i \in DOMAIN Tail(s) : i + 1 \in DOMAIN s /\ Tail(s)[i] = s[i + 1]
         /\ \A i \in DOMAIN s : i = 1 \/ (i - 1 \in DOMAIN Tail(s) /\ Tail(s)[i - 1] = s[i])
<1> DEFINE t == Tail(s)
<1>1. /\ Len(s) \in Nat /\ Len(s) >= 1 /\ DOMAIN s = 1..Len(s) /\ DOMAIN t = 1..(Len(s) - 1)
      /\ \A i \in 1..(Len(s) - 1) : t[i] = s[i + 1]
  BY TailOf
<1> HIDE DEF t
<1>2. \A i \in DOMAIN t : i \in Int /\ i + 1 \in DOMAIN s /\ t[i] = s[i + 1]
  BY <1>1
<1>3. \A i \in DOMAIN s : i = 1 \/ (i - 1 \in DOMAIN t /\ t[i - 1] = s[i])
  BY <1>1
<1>4. Entries(t, m)
  <2>1. \A i, j \in DOMAIN t : i < j => i + 1 < j + 1
    BY <1>2
  <2> QED BY <1>2, <2>1 DEF Entries
<1> QED BY <1>2, <1>3, <1>4 DEF t

LEMMA EmptyEntries ==
  ASSUME NEW m
  PROVE  Entries(<<>>, m)
BY DEF Entries

\* The next entry, and what its being written leaves pending.
LEMMA FirstEntry ==
  ASSUME StoreInv, work.todo # <<>>
  PROVE  /\ work # NoWork /\ on
         /\ FlashOp = work.todo[1] /\ 1 \in DOMAIN work.todo
         /\ FlashOp.op \in {"put", "retire"} /\ FlashOp.key \in Keys
         /\ FlashOp.op = "put" => FlashOp.val = ram[FlashOp.key] /\ FlashOp.val # Nil
         /\ FlashOp.op = "retire" => InBlob(FlashOp.key)
<1>1. PICK S : work.todo \in Seq(S)
  BY DEF StoreInv, TypedInv
<1>2. FlashOp = work.todo[1] /\ 1 \in DOMAIN work.todo
  BY <1>1, TailOf DEF FlashOp
<1>3. work # NoWork /\ on
  BY DEF NoWork, StoreInv, WorkInv, TypedInv
<1> QED BY <1>2, <1>3 DEF StoreInv, WorkInv, Entries

LEMMA PendingAfter ==
  ASSUME StoreInv, work.todo # <<>>, work'.todo = Tail(work.todo)
  PROVE  /\ \A k : PutPending(k)' => PutPending(k)
         /\ \A k : k # FlashOp.key \/ FlashOp.op # "put" => (PutPending(k)' <=> PutPending(k))
         /\ \A k : FlashOp.op = "put" /\ k = FlashOp.key => PutPending(k) /\ ~PutPending(k)'
         /\ Entries(work'.todo, ram)
         /\ \A i \in DOMAIN work'.todo : i + 1 \in DOMAIN work.todo /\ work'.todo[i] = work.todo[i + 1]
<1>1. PICK S : work.todo \in Seq(S)
  BY DEF StoreInv, TypedInv
<1>2. Entries(work.todo, ram)
  BY DEF StoreInv, WorkInv
<1>3. /\ Entries(work'.todo, ram)
      /\ \A i \in DOMAIN work'.todo : i + 1 \in DOMAIN work.todo /\ work'.todo[i] = work.todo[i + 1]
      /\ \A i \in DOMAIN work.todo : i = 1 \/ (i - 1 \in DOMAIN work'.todo /\ work'.todo[i - 1] = work.todo[i])
  BY <1>1, <1>2, EntriesLeft
<1>4. FlashOp = work.todo[1] /\ 1 \in DOMAIN work.todo
  BY FirstEntry
<1>5. \A k : PutPending(k)' => PutPending(k)
  BY <1>3 DEF PutPending, IsPut
<1>6. ASSUME NEW k, k # FlashOp.key \/ FlashOp.op # "put", PutPending(k) PROVE PutPending(k)'
  <2>1. PICK i \in DOMAIN work.todo : IsPut(k, i)
    BY <1>6 DEF PutPending
  <2>2. i # 1
    BY <2>1, <1>4, <1>6 DEF IsPut
  <2> QED BY <2>1, <2>2, <1>3 DEF PutPending, IsPut
<1>7. \A k : FlashOp.op = "put" /\ k = FlashOp.key => PutPending(k)
  BY <1>4 DEF PutPending, IsPut
<1>8. ASSUME NEW k, FlashOp.op = "put", k = FlashOp.key, PutPending(k)' PROVE FALSE
  <2>1. PICK i \in DOMAIN work'.todo : work'.todo[i].op = "put" /\ work'.todo[i].key = k
    BY <1>8 DEF PutPending, IsPut
  <2>2. i + 1 \in DOMAIN work.todo /\ work'.todo[i] = work.todo[i + 1]
    BY <1>3
  <2>3. i \in Nat /\ i >= 1
    BY <1>1, TailOf
  <2>4. work.todo[i + 1].op = "retire"
    BY <2>1, <2>2, <2>3, <1>2, <1>4, <1>8 DEF Entries
  <2> QED BY <2>1, <2>2, <2>4
<1> QED BY <1>3, <1>5, <1>6, <1>7, <1>8

LEMMA WorkLeft ==
  ASSUME StoreInv, work.todo # <<>>, UNCHANGED <<ram, on, table>>, NEW t,
         work' = [work EXCEPT !.todo = t], t = Tail(work.todo) \/ t = <<>>,
         DOMAIN blob' = BlobKeys, DOMAIN nvs' = Keys
  PROVE  TypedInv' /\ WorkInv' /\ work' # NoWork /\ work'.todo = t
<1>1. PICK S : work.todo \in Seq(S)
  BY DEF StoreInv, TypedInv
<1>2. t \in Seq(S)
  BY <1>1, TailOf, EmptySeq
<1>3. DOMAIN work' = DOMAIN work /\ work'.todo = t /\ work'.answer = work.answer
  BY DEF StoreInv, TypedInv
<1>4. work # NoWork /\ on
  BY FirstEntry
<1>5. Entries(t, ram)
  BY <1>1, EntriesLeft, EmptyEntries DEF StoreInv, WorkInv
<1>7. work' # NoWork
  BY <1>3, <1>4 DEF StoreInv, WorkInv, NoWork
<1>8. TypedInv'
  BY <1>2, <1>3 DEF StoreInv, TypedInv
<1>9. WorkInv'
  BY <1>3, <1>4, <1>5, <1>7 DEF StoreInv, WorkInv, Entries, InBlob
<1> QED BY <1>3, <1>7, <1>8, <1>9

LEMMA WriteDoneStep ==
  ASSUME StoreInv, WriteDone
  PROVE  StoreInv'
<1> DEFINE o == FlashOp
<1>1. work.todo # <<>> /\ UNCHANGED <<table, ram, on, kept, failed>>
  BY DEF WriteDone, memory
<1>2. /\ work # NoWork /\ on /\ o = work.todo[1] /\ 1 \in DOMAIN work.todo
      /\ o.op \in {"put", "retire"} /\ o.key \in Keys
      /\ o.op = "put" => o.val = ram[o.key] /\ o.val # Nil
      /\ o.op = "retire" => InBlob(o.key)
  BY <1>1, FirstEntry
<1>3. /\ blob' = IF o.op = "put" /\ InBlob(o.key) THEN [blob EXCEPT ![o.key] = o.val] ELSE blob
      /\ nvs' = IF o.op = "put" /\ InBlob(o.key) THEN nvs ELSE [nvs EXCEPT ![o.key] = o.val]
      /\ work' = [work EXCEPT !.todo = Tail(@)]
  BY DEF WriteDone
<1>4. DOMAIN blob' = BlobKeys /\ DOMAIN nvs' = Keys
  BY <1>3 DEF StoreInv, TypedInv
<1>5. TypedInv' /\ WorkInv' /\ work' # NoWork /\ work'.todo = Tail(work.todo)
  <2>1. work' = [work EXCEPT !.todo = Tail(work.todo)]
    BY <1>3
  <2> QED BY <2>1, <1>1, <1>4, WorkLeft
<1>6. /\ \A k : k # o.key \/ o.op # "put" => (PutPending(k)' <=> PutPending(k))
      /\ \A k : o.op = "put" /\ k = o.key => PutPending(k) /\ ~PutPending(k)'
      /\ \A i \in DOMAIN work'.todo : i + 1 \in DOMAIN work.todo /\ work'.todo[i] = work.todo[i + 1]
  BY <1>1, <1>5, PendingAfter
<1>7. \A k \in Keys : InBlob(k)' = InBlob(k) /\ (InBlob(k) => k \in BlobKeys)
  BY <1>1 DEF InBlob
<1>8. /\ \A k \in Keys \ failed :
            IF PutPending(k) THEN Stored(k) = kept[k] ELSE (Stored(k) = ram[k] /\ ram[k] # Nil) \/ AsKept(k)
      /\ \A i \in DOMAIN work.todo : \A k \in Keys :
           IsRetire(k, i) /\ ~PutPending(k) => blob[k] = ram[k] /\ ram[k] # Nil
      /\ DOMAIN blob = BlobKeys /\ DOMAIN nvs = Keys
  BY <1>2 DEF StoreInv, KeptInv, TypedInv
<1> HIDE DEF o
\* A put stores the document.
<1>9. CASE o.op = "put"
  <2>1. \A k \in Keys : Stored(k)' = IF k = o.key THEN o.val ELSE Stored(k)
    BY <1>2, <1>3, <1>7, <1>8, <1>9 DEF Stored
  <2>2. ASSUME NEW k \in Keys \ failed
        PROVE  IF PutPending(k)' THEN Stored(k)' = kept[k] ELSE (Stored(k)' = ram[k] /\ ram[k] # Nil) \/ AsKept(k)'
    <3>1. CASE k = o.key
      BY <3>1, <2>1, <1>2, <1>6, <1>9
    <3>2. CASE k # o.key
      <4>1. Stored(k)' = Stored(k) /\ (PutPending(k)' <=> PutPending(k))
        BY <3>2, <2>1, <1>6
      <4>2. AsKept(k) => AsKept(k)'
        BY <4>1, <1>1 DEF AsKept, Found
      <4> QED BY <4>1, <4>2, <1>8
    <3> QED BY <3>1, <3>2
  <2>3. ASSUME NEW i \in DOMAIN work'.todo, NEW k \in Keys, IsRetire(k, i)', ~PutPending(k)'
        PROVE  blob'[k] = ram[k] /\ ram[k] # Nil
    <3>1. i + 1 \in DOMAIN work.todo /\ IsRetire(k, i + 1)
      BY <2>3, <1>6 DEF IsRetire
    <3>2. InBlob(k) /\ k \in Keys
      BY <3>1 DEF StoreInv, WorkInv, Entries, IsRetire
    <3>3. CASE k = o.key
      BY <3>2, <3>3, <1>2, <1>3, <1>7, <1>8, <1>9
    <3>4. CASE k # o.key
      <4>1. ~PutPending(k)
        BY <2>3, <3>4, <1>6
      <4>2. blob[k] = ram[k] /\ ram[k] # Nil
        BY <4>1, <3>1, <1>8
      <4> QED BY <4>2, <3>4, <1>3, <1>9
    <3> QED BY <3>3, <3>4
  <2>4. KeptInv'
    BY <2>2, <2>3, <1>1, <1>5 DEF KeptInv
  <2> QED BY <2>4, <1>5 DEF StoreInv
\* What is removed is the old copy of a document whose new one is stored.
<1>10. CASE o.op = "retire"
  <2>1. ~PutPending(o.key)
    <3>1. SUFFICES ASSUME NEW j \in DOMAIN work.todo, IsPut(o.key, j) PROVE FALSE
      BY DEF PutPending
    <3>2. j \in Nat /\ j >= 1 /\ j # 1
      <4>1. PICK S : work.todo \in Seq(S)
        BY DEF StoreInv, TypedInv
      <4> QED BY <4>1, TailOf, <3>1, <1>1, <1>2, <1>10 DEF IsPut
    <3>3. work.todo[j].op = "retire"
      BY <3>1, <3>2, <1>2 DEF IsPut, StoreInv, WorkInv, Entries
    <3> QED BY <3>1, <3>3 DEF IsPut
  <2>2. InBlob(o.key) /\ blob[o.key] # Nil
    BY <2>1, <1>2, <1>8, <1>10 DEF IsRetire
  <2>3. \A k \in Keys : Stored(k)' = Stored(k)
    BY <2>2, <1>2, <1>3, <1>7, <1>8, <1>10 DEF Stored
  <2>4. \A k : PutPending(k)' <=> PutPending(k)
    BY <1>6, <1>10
  <2>5. ASSUME NEW k \in Keys \ failed
        PROVE  IF PutPending(k)' THEN Stored(k)' = kept[k] ELSE (Stored(k)' = ram[k] /\ ram[k] # Nil) \/ AsKept(k)'
    <3>1. AsKept(k) => AsKept(k)'
      BY <2>3, <1>1 DEF AsKept, Found
    <3> QED BY <3>1, <2>3, <2>4, <1>8
  <2>6. ASSUME NEW i \in DOMAIN work'.todo, NEW k \in Keys, IsRetire(k, i)', ~PutPending(k)'
        PROVE  blob'[k] = ram[k] /\ ram[k] # Nil
    <3>1. i + 1 \in DOMAIN work.todo /\ IsRetire(k, i + 1)
      BY <2>6, <1>6 DEF IsRetire
    <3> QED BY <3>1, <2>4, <2>6, <1>3, <1>8, <1>10
  <2>7. KeptInv'
    BY <2>5, <2>6, <1>1, <1>5 DEF KeptInv
  <2> QED BY <2>7, <1>5 DEF StoreInv
<1> QED BY <1>2, <1>9, <1>10

\* A write that fails takes its document out of the promise, and only in the
\* large partition, where nothing else is pending, the rest of the handler.
LEMMA WriteFailsStep ==
  ASSUME StoreInv, WriteFails
  PROVE  StoreInv'
<1> DEFINE o == FlashOp
           t == IF InBlob(o.key) THEN <<>> ELSE Tail(work.todo)
<1>1. /\ work.todo # <<>> /\ o.op = "put" /\ failed' = failed \cup {o.key}
      /\ work' = [work EXCEPT !.todo = t] /\ UNCHANGED <<table, blob, nvs, ram, on, kept>>
  BY DEF WriteFails, memory, flash
<1>2. work # NoWork /\ on /\ o = work.todo[1] /\ 1 \in DOMAIN work.todo /\ o.key \in Keys
  BY <1>1, FirstEntry
<1>3. TypedInv' /\ WorkInv' /\ work' # NoWork /\ work'.todo = t
  BY <1>1, WorkLeft DEF StoreInv, TypedInv
<1>4. /\ \A k \in Keys \ failed :
            IF PutPending(k) THEN Stored(k) = kept[k] ELSE (Stored(k) = ram[k] /\ ram[k] # Nil) \/ AsKept(k)
      /\ \A i \in DOMAIN work.todo : \A k \in Keys :
            IsRetire(k, i) /\ ~PutPending(k) => blob[k] = ram[k] /\ ram[k] # Nil
      /\ \A i, j \in DOMAIN work.todo : InBlob(work.todo[i].key) => work.todo[j].key = work.todo[i].key
  BY <1>2 DEF StoreInv, KeptInv, WorkInv, Entries
<1>5. \A k : Stored(k)' = Stored(k) /\ (AsKept(k)' <=> AsKept(k))
  BY <1>1 DEF Stored, InBlob, AsKept, Found
<1>6. \A k \in Keys : k # o.key => (PutPending(k)' <=> PutPending(k))
  <2>1. CASE InBlob(o.key)
    <3>1. \A k : ~PutPending(k)'
      BY <2>1, <1>3 DEF PutPending
    <3>2. \A k : k # o.key => ~PutPending(k)
      BY <2>1, <1>2, <1>4 DEF PutPending, IsPut
    <3> QED BY <3>1, <3>2
  <2>2. CASE ~InBlob(o.key)
    BY <2>2, <1>1, <1>3, PendingAfter
  <2> QED BY <2>1, <2>2
<1> HIDE DEF o
<1>7. ASSUME NEW k \in Keys \ failed'
      PROVE  IF PutPending(k)' THEN Stored(k)' = kept[k] ELSE (Stored(k)' = ram[k] /\ ram[k] # Nil) \/ AsKept(k)'
  BY <1>1, <1>4, <1>5, <1>6
<1>8. ASSUME NEW i \in DOMAIN work'.todo, NEW k \in Keys, IsRetire(k, i)', ~PutPending(k)'
      PROVE  blob'[k] = ram[k] /\ ram[k] # Nil
  <2>1. ~InBlob(o.key)
    BY <1>3, <1>8
  <2>2. i + 1 \in DOMAIN work.todo /\ IsRetire(k, i + 1)
    BY <2>1, <1>1, <1>3, <1>8, PendingAfter DEF IsRetire
  <2>3. InBlob(k)
    BY <2>2 DEF StoreInv, WorkInv, Entries, IsRetire
  <2>4. ~PutPending(k)
    BY <2>1, <2>3, <1>6, <1>8
  <2> QED BY <2>2, <2>4, <1>1, <1>4
<1>9. KeptInv'
  BY <1>1, <1>3, <1>7, <1>8 DEF KeptInv
<1> QED BY <1>3, <1>9 DEF StoreInv

\* The handler ends: everything it had to write is stored.
LEMMA ReturnStep ==
  ASSUME StoreInv, Return
  PROVE  StoreInv'
<1>1. /\ work # NoWork /\ work.todo = <<>> /\ work' = NoWork /\ kept' = [k \in Keys |-> Stored(k)]
      /\ UNCHANGED <<table, blob, nvs, ram, on, failed>>
  BY DEF Return, memory, flash
<1>2. \A k : ~PutPending(k)
  BY <1>1 DEF PutPending
<1>3. \A k \in Keys : Stored(k)' = Stored(k) /\ Found(k)' = Found(k)
  BY <1>1 DEF Stored, InBlob, Found
<1>4. \A k \in Keys \ failed : ram[k] = Found(k)
  BY <1>1, <1>2 DEF StoreInv, KeptInv, AsKept, Found
<1>5. DOMAIN NoWork = {"todo", "answer", "restart"} /\ NoWork.todo = <<>> /\ NoWork.todo \in Seq({})
  BY EmptySeq DEF NoWork
<1>6. TypedInv'
  BY <1>1, <1>5 DEF StoreInv, TypedInv
<1>7. WorkInv'
  BY <1>1, <1>5 DEF WorkInv, Entries
<1>8. KeptInv'
  BY <1>1, <1>3, <1>4, <1>5 DEF KeptInv
<1> QED BY <1>6, <1>7, <1>8 DEF StoreInv

\* A start finds what the flash holds.
LEMMA BootStep ==
  ASSUME StoreInv, Boot
  PROVE  StoreInv'
<1>1. /\ ~on /\ on' = TRUE /\ ram' = Loaded /\ UNCHANGED <<table, blob, nvs, work, kept, failed>>
  BY DEF Boot, Load, flash
<1>2. work = NoWork /\ DOMAIN NoWork = {"todo", "answer", "restart"} /\ NoWork.todo = <<>> /\ NoWork.todo \in Seq({})
  BY <1>1, EmptySeq DEF StoreInv, WorkInv, NoWork
<1>3. \A k \in Keys : Stored(k)' = Stored(k) /\ Found(k)' = Found(k) /\ ram'[k] = Found(k)
  BY <1>1 DEF Stored, InBlob, Found, Loaded
<1>4. DOMAIN ram' = Keys
  BY <1>1 DEF Loaded
<1>5. TypedInv'
  BY <1>1, <1>2, <1>4 DEF StoreInv, TypedInv
<1>6. WorkInv'
  BY <1>1, <1>2 DEF WorkInv, Entries
<1>7. KeptInv'
  BY <1>1, <1>2, <1>3 DEF StoreInv, KeptInv
<1> QED BY <1>5, <1>6, <1>7 DEF StoreInv

LEMMA StopStep ==
  ASSUME StoreInv, Stop
  PROVE  StoreInv'
<1>1. /\ on' = FALSE /\ work' = NoWork /\ kept' = [k \in Keys |-> Stored(k)]
      /\ UNCHANGED <<table, blob, nvs, ram, failed>>
  BY DEF Stop, flash, memory
<1>2. DOMAIN NoWork = {"todo", "answer", "restart"} /\ NoWork.todo = <<>> /\ NoWork.todo \in Seq({})
  BY EmptySeq DEF NoWork
<1>3. \A k \in Keys : Stored(k)' = Stored(k)
  BY <1>1 DEF Stored, InBlob
<1>4. TypedInv'
  BY <1>1, <1>2 DEF StoreInv, TypedInv
<1>5. WorkInv'
  BY <1>1, <1>2 DEF WorkInv, Entries
<1>6. KeptInv'
  BY <1>1, <1>2, <1>3 DEF KeptInv
<1> QED BY <1>4, <1>5, <1>6 DEF StoreInv

-----------------------------------------------------------------------------
(* The commands                                                             *)

\* A handler that brings `values` to the memory and writes each of them.
LEMMA AcceptStep ==
  ASSUME StoreInv, Listening, NEW values, NEW writes, NEW restart, Accept(values, writes, restart),
         DOMAIN values \subseteq Keys, \A k \in DOMAIN values : values[k] # Nil,
         \E S : writes \in Seq(S), Entries(writes, values),
         \A i \in DOMAIN writes : writes[i].key \in DOMAIN values,
         \A k \in DOMAIN values : \E i \in DOMAIN writes : writes[i].op = "put" /\ writes[i].key = k
  PROVE  StoreInv'
<1>1. /\ on /\ work = NoWork
      /\ ram' = [k \in Keys |-> IF k \in DOMAIN values THEN values[k] ELSE ram[k]]
      /\ work' = [todo |-> writes, answer |-> "OK", restart |-> restart]
      /\ UNCHANGED <<table, blob, nvs, on, kept, failed>>
  BY DEF Accept, Listening, flash
<1>2. DOMAIN ram' = Keys /\ \A k \in Keys : ram'[k] = IF k \in DOMAIN values THEN values[k] ELSE ram[k]
  BY <1>1
<1>3. work' # NoWork /\ work'.todo = writes /\ work'.answer = "OK" /\ DOMAIN work' = {"todo", "answer", "restart"}
  BY <1>1 DEF NoWork
<1>4. TypedInv'
  BY <1>1, <1>2, <1>3 DEF StoreInv, TypedInv
<1>5. \A k : InBlob(k)' = InBlob(k) /\ Stored(k)' = Stored(k) /\ Found(k)' = Found(k)
  BY <1>1 DEF InBlob, Stored, Found
<1>6. Entries(work'.todo, ram')
  BY <1>2, <1>3 DEF Entries
<1>7. WorkInv'
  BY <1>1, <1>3, <1>5, <1>6 DEF WorkInv, Entries
<1>8. \A k \in DOMAIN values : PutPending(k)'
  BY <1>3 DEF PutPending, IsPut
<1>9. ASSUME NEW k \in Keys \ failed
      PROVE  IF PutPending(k)' THEN Stored(k)' = kept[k] ELSE AsKept(k)'
  <2>1. Stored(k)' = kept[k] /\ ram[k] = Found(k)
    BY <1>1, <1>5 DEF StoreInv, KeptInv
  <2>2. CASE k \in DOMAIN values
    BY <2>1, <2>2, <1>8
  <2>3. CASE k \notin DOMAIN values
    <3>1. ram'[k] = Found(k)'
      BY <2>1, <2>3, <1>2, <1>5
    <3> QED BY <3>1, <2>1, <1>1 DEF AsKept
  <2> QED BY <2>2, <2>3
<1>10. ASSUME NEW i \in DOMAIN work'.todo, NEW k \in Keys, IsRetire(k, i)' PROVE PutPending(k)'
  BY <1>3, <1>8, <1>10 DEF IsRetire
<1>11. KeptInv'
  BY <1>1, <1>3, <1>9, <1>10 DEF KeptInv
<1> QED BY <1>4, <1>7, <1>11 DEF StoreInv

\* set_str of one document.
LEMMA SetStrStep ==
  ASSUME StoreInv, Listening, NEW k \in Keys, NEW v, v # Nil, NEW restart,
         Accept(One(k, v), SetStr(k, v), restart)
  PROVE  StoreInv'
<1> DEFINE values == One(k, v)
           writes == SetStr(k, v)
<1>1. DOMAIN values = {k} /\ values[k] = v
  BY DEF One
<1>2. writes \in Seq({Put(k, v), Retire(k)})
  <2> DEFINE a == Put(k, v)  b == Retire(k)
  <2>1. writes = <<a, b>> \/ writes = <<a>>
    BY DEF SetStr
  <2> HIDE DEF a, b, writes
  <2>2. <<a, b>> \in Seq({a, b}) /\ <<a>> \in Seq({a, b})
    OBVIOUS
  <2> QED BY <2>1, <2>2 DEF a, b
<1>3. \/ ~InBlob(k) /\ DOMAIN writes = {1} /\ writes[1] = Put(k, v)
      \/ InBlob(k) /\ DOMAIN writes = {1, 2} /\ writes[1] = Put(k, v) /\ writes[2] = Retire(k)
  BY DEF SetStr
<1>4. /\ Put(k, v).op = "put" /\ Put(k, v).key = k /\ Put(k, v).val = v
      /\ Retire(k).op = "retire" /\ Retire(k).key = k
  BY DEF Put, Retire
<1> HIDE DEF values, writes
<1>5. Entries(writes, values)
  BY <1>1, <1>3, <1>4 DEF Entries
<1>6. \A i \in DOMAIN writes : writes[i].key \in DOMAIN values
  BY <1>1, <1>3, <1>4
<1>7. \A x \in DOMAIN values : \E i \in DOMAIN writes : writes[i].op = "put" /\ writes[i].key = x
  <2>1. 1 \in DOMAIN writes /\ writes[1] = Put(k, v)
    BY <1>3
  <2> QED BY <2>1, <1>1, <1>4
<1>8. Accept(values, writes, restart)
  BY DEF values, writes
<1> QED BY <1>1, <1>2, <1>5, <1>6, <1>7, <1>8, AcceptStep

LEMMA ButtonsStep ==
  ASSUME StoreInv, Listening, NEW v, v # Nil, v.n # Nil, HandleButtons(v)
  PROVE  StoreInv'
<1> DEFINE values == [k \in {"btn", Pages} |-> IF k = "btn" THEN v ELSE v.n]
           writes == Append(SetStr("btn", v), Put(Pages, v.n))
<1>1. DOMAIN values = {"btn", Pages} /\ values["btn"] = v /\ values[Pages] = v.n /\ "btn" # Pages
  BY DEF Pages
<1>2. ~InBlob("btn") /\ ~InBlob(Pages) /\ {"btn", Pages} \subseteq Keys
  BY DEF InBlob, BlobKeys, Pages, Keys
<1>4. /\ Put("btn", v).op = "put" /\ Put("btn", v).key = "btn" /\ Put("btn", v).val = v
      /\ Put(Pages, v.n).op = "put" /\ Put(Pages, v.n).key = Pages /\ Put(Pages, v.n).val = v.n
  BY DEF Put
<1> DEFINE a == Put("btn", v)  b == Put(Pages, v.n)
<1>5. writes \in Seq({a, b}) /\ DOMAIN writes = {1, 2} /\ writes[1] = a /\ writes[2] = b
  <2>1. writes = Append(<<a>>, b)
    BY <1>2 DEF SetStr
  <2> HIDE DEF a, b, writes
  <2>2. <<a>> \in Seq({a, b}) /\ Len(<<a>>) = 1 /\ b \in {a, b} /\ <<a>>[1] = a
    OBVIOUS
  <2>3. /\ Append(<<a>>, b) \in Seq({a, b}) /\ Len(Append(<<a>>, b)) = 2
        /\ Append(<<a>>, b)[1] = a /\ Append(<<a>>, b)[2] = b
    BY <2>2, AppendProperties
  <2>4. DOMAIN writes = 1..2
    BY <2>1, <2>3
  <2> QED BY <2>1, <2>3, <2>4
<1>6. Accept(values, writes, FALSE)
  BY DEF HandleButtons
<1> HIDE DEF values, writes
<1>7. Entries(writes, values)
  BY <1>1, <1>2, <1>4, <1>5 DEF Entries
<1>8. \A i \in DOMAIN writes : writes[i].key \in DOMAIN values
  BY <1>1, <1>4, <1>5
<1>9. \A x \in DOMAIN values : \E i \in DOMAIN writes : writes[i].op = "put" /\ writes[i].key = x
  BY <1>1, <1>4, <1>5
<1>10. \A x \in DOMAIN values : values[x] # Nil
  BY <1>1
<1> QED BY <1>1, <1>2, <1>5, <1>6, <1>7, <1>8, <1>9, <1>10, AcceptStep

LEMMA PanelStep ==
  ASSUME StoreInv, Listening, NEW v, \A k \in Panel : v[k] # Nil, HandlePanel(v)
  PROVE  StoreInv'
<1> DEFINE values == [k \in Panel |-> v[k]]
           a == Put("orient", v.orient)  b == Put("flip", v.flip)  c == Put("colour", v.colour)
           writes == <<a, b, c>>
<1>1. Panel = {"orient", "flip", "colour"} /\ Panel \subseteq Keys /\ \A k \in Panel : ~InBlob(k)
  BY DEF Panel, Keys, InBlob, BlobKeys
<1>2. /\ a.op = "put" /\ a.key = "orient" /\ a.val = values["orient"]
      /\ b.op = "put" /\ b.key = "flip" /\ b.val = values["flip"]
      /\ c.op = "put" /\ c.key = "colour" /\ c.val = values["colour"]
  BY <1>1 DEF Put
<1>3. Accept(values, writes, v.colour # ram["colour"])
  BY DEF HandlePanel
<1>4. DOMAIN values = Panel /\ \A k \in Panel : values[k] # Nil
  OBVIOUS
<1> HIDE DEF a, b, c, values
<1>5. writes \in Seq({a, b, c}) /\ DOMAIN writes = {1, 2, 3} /\ writes[1] = a /\ writes[2] = b /\ writes[3] = c
  OBVIOUS
<1> HIDE DEF writes
<1>6. Entries(writes, values)
  BY <1>1, <1>2, <1>4, <1>5 DEF Entries
<1>7. \A i \in DOMAIN writes : writes[i].key \in DOMAIN values
  BY <1>1, <1>2, <1>4, <1>5
<1>8. \A x \in DOMAIN values : \E i \in DOMAIN writes : writes[i].op = "put" /\ writes[i].key = x
  BY <1>1, <1>2, <1>4, <1>5
<1> QED BY <1>1, <1>3, <1>4, <1>5, <1>6, <1>7, <1>8, AcceptStep

\* Nothing but the memory's other parts and the answer.
LEMMA NothingStored ==
  ASSUME StoreInv, Listening, NEW a, NEW restart, a # "none",
         work' = [todo |-> <<>>, answer |-> a, restart |-> restart],
         \A k \in Keys : ram'[k] = ram[k], DOMAIN ram' = Keys,
         UNCHANGED <<flash, on, kept, failed>>
  PROVE  StoreInv'
<1>1. on /\ work = NoWork
  BY DEF Listening
<1>2. /\ DOMAIN work' = {"todo", "answer", "restart"} /\ work'.todo = <<>> /\ work'.todo \in Seq({})
      /\ work'.answer # "none" /\ work' # NoWork
  BY EmptySeq DEF NoWork
<1>3. \A k \in Keys : Stored(k)' = Stored(k) /\ Found(k)' = Found(k) /\ ~PutPending(k)'
  BY <1>2 DEF flash, Stored, InBlob, Found, PutPending
<1>4. \A k \in Keys \ failed : AsKept(k)'
  BY <1>1, <1>3 DEF StoreInv, KeptInv, AsKept
<1>5. TypedInv'
  BY <1>2 DEF StoreInv, TypedInv, flash
<1>6. WorkInv'
  BY <1>1, <1>2 DEF WorkInv, Entries
<1>7. KeptInv'
  BY <1>2, <1>3, <1>4 DEF KeptInv
<1> QED BY <1>5, <1>6, <1>7 DEF StoreInv

LEMMA CarStep ==
  ASSUME StoreInv, Listening, NEW v, v # Nil, HandleCar(v)
  PROVE  StoreInv'
<1>1. "car" \in Keys
  BY DEF Keys, BlobKeys
<1>2. CASE ram["car"] = v
  <2>1. Accept(<<>>, <<>>, FALSE)
    BY <1>2 DEF HandleCar
  <2>2. /\ ram' = [k \in Keys |-> IF k \in DOMAIN <<>> THEN <<>>[k] ELSE ram[k]]
        /\ work' = [todo |-> <<>>, answer |-> "OK", restart |-> FALSE] /\ UNCHANGED <<flash, on, kept, failed>>
    BY <2>1 DEF Accept
  <2>3. DOMAIN <<>> = {}
    OBVIOUS
  <2>4. DOMAIN ram' = Keys /\ \A k \in Keys : ram'[k] = ram[k]
    BY <2>2, <2>3
  <2> QED BY <2>2, <2>4, NothingStored
<1>3. CASE ram["car"] # v
  BY <1>1, <1>3, SetStrStep DEF HandleCar
<1> QED BY <1>2, <1>3

\* dispatch: a command brings a document, or is refused.
LEMMA HandleStep ==
  ASSUME StoreInv, Listening, NEW cmd \in Commands, NEW v, v # Nil, Handle(cmd, v),
         v.text = "torn" \/ ((cmd = "BS" => v.n # Nil) /\ (cmd = "DO" => \A k \in Panel : v[k] # Nil))
  PROVE  StoreInv'
<1>0. Key("RS") \in Keys /\ Key("EL") \in Keys /\ Key("PINS") \in Keys /\ "ui" \in Keys
  BY DEF Key, Keys, BlobKeys
<1>1. CASE v.text = "torn" /\ cmd \in Validated
  <2>1. Refuse
    BY <1>1 DEF Handle
  <2>2. /\ work' = [todo |-> <<>>, answer |-> "ERR", restart |-> FALSE] /\ UNCHANGED <<flash, on, kept, failed>>
        /\ ram' = ram
    BY <2>1 DEF Refuse, NoWork, memory
  <2>3. DOMAIN ram' = Keys
    BY <2>2 DEF StoreInv, TypedInv
  <2> QED BY <2>2, <2>3, NothingStored
<1>2. CASE ~(v.text = "torn" /\ cmd \in Validated)
  <2>1. CASE cmd = "UI"
    <3>1. Accept(One("ui", v), SetStr("ui", v), FALSE)
      BY <1>2, <2>1 DEF Handle, HandleUi
    <3> QED BY <3>1, <1>0, SetStrStep
  <2>2. CASE cmd = "C"
    BY <1>2, <2>2, CarStep DEF Handle
  <2>3. CASE cmd = "BS"
    BY <1>2, <2>3, ButtonsStep DEF Handle, Validated
  <2>4. CASE cmd = "DO"
    BY <1>2, <2>4, PanelStep DEF Handle, Validated
  <2>5. CASE cmd \in {"RS", "EL", "PINS"}
    <3>1. Accept(One(Key(cmd), v), SetStr(Key(cmd), v), cmd = "PINS")
      BY <1>2, <2>5 DEF Handle
    <3>2. Key(cmd) \in Keys
      BY <2>5, <1>0
    <3> QED BY <3>1, <3>2, SetStrStep
  <2> QED BY <2>1, <2>2, <2>3, <2>4, <2>5 DEF Commands
<1> QED BY <1>1, <1>2

-----------------------------------------------------------------------------
(* The dashboard                                                            *)

IsDoc(c, v) ==
  /\ c \in Commands /\ v # Nil
  /\ TextOf(Received(v)) = "torn" \/ ((c = "BS" => v.n # Nil) /\ (c = "DO" => \A k \in Panel : v[k] # Nil))

\* What is on its way to the device are documents.
SendInv ==
  /\ line # NoLine => line.by \in {"ui", "task"}
  /\ DOMAIN ui = {"at", "todo", "ok"}
  /\ \E S : ui.todo \in Seq(S) /\ \A p \in S : IsDoc(p[1], p[2])
  /\ \E S : cars \in Seq(S) /\ \A v \in S : IsDoc("C", v)

IInv == StoreInv /\ SendInv

LEMMA SentIsDoc ==
  ASSUME NilIsNoRecord, StoreInv, NEW by, NEW c, NEW v, IsDoc(c, v), Send(by, c, v)
  PROVE  StoreInv'
<1>1. CASE Reaches /\ TextOf(v) # "long"
  <2>1. Handle(c, Received(v)) /\ Listening
    BY <1>1 DEF Send, Reaches
  <2>2. Received(v) # Nil
    BY DEF NilIsNoRecord, Received, IsDoc
  <2>3. Received(v).text = "torn" \/ ((c = "BS" => Received(v).n # Nil) /\ (c = "DO" => \A k \in Panel : Received(v)[k] # Nil))
    BY DEF IsDoc, TextOf, Received
  <2> QED BY <2>1, <2>2, <2>3, HandleStep DEF IsDoc
<1>2. CASE ~(Reaches /\ TextOf(v) # "long")
  <2>1. UNCHANGED device
    BY <1>2 DEF Send
  <2> QED BY <2>1, StoreUntouched DEF device, store, memory
<1> QED BY <1>1, <1>2

LEMMA DocumentIsDoc ==
  ASSUME NEW c \in DOMAIN Documents, NEW v \in Documents[c]
  PROVE  IsDoc(c, v)
BY DocumentsAssumption DEF Document, IsDoc, Commands

\* What the editor saves.
LEMMA SavedIsDoc ==
  ASSUME NilIsNoRecord, NEW l
  PROVE  IsDoc("RS", RaceDoc) /\ IsDoc("UI", UiDoc(l)) /\ IsDoc("EL", EdDoc(l))
<1>1. RaceDoc # Nil
  BY DEF NilIsNoRecord, RaceDoc
<1>2. UiDoc(l) # Nil
  BY DEF NilIsNoRecord, UiDoc
<1>3. EdDoc(l) # Nil
  BY DEF NilIsNoRecord, EdDoc
<1> QED BY <1>1, <1>2, <1>3 DEF IsDoc, Commands

LEMMA EmptyTodo == \E S : <<>> \in Seq(S) /\ \A p \in S : IsDoc(p[1], p[2])
<1> DEFINE none == {}
<1>1. <<>> \in Seq(none)
  BY EmptySeq
<1>2. \A p \in none : IsDoc(p[1], p[2])
  OBVIOUS
<1> HIDE DEF none
<1> QED BY <1>1, <1>2

LEMMA EmptyCars == \E S : <<>> \in Seq(S) /\ \A v \in S : IsDoc("C", v)
<1> DEFINE none == {}
<1>1. <<>> \in Seq(none)
  BY EmptySeq
<1>2. \A v \in none : IsDoc("C", v)
  OBVIOUS
<1> HIDE DEF none
<1> QED BY <1>1, <1>2

LEMMA InitInv == Init => IInv
<1> SUFFICES ASSUME Init PROVE IInv
  OBVIOUS
<1>1. PICK s \in Scenarios :
        /\ blob = [k \in BlobKeys |-> Nil]
        /\ nvs = [k \in Keys |-> IF k \in DOMAIN s.flash THEN s.flash[k] ELSE Nil]
        /\ on = FALSE /\ ram = [k \in Keys |-> Nil] /\ work = NoWork /\ kept = nvs /\ failed = {}
        /\ ui = Idle /\ cars = <<>> /\ line = NoLine
  BY DEF Init
<1>2. DOMAIN NoWork = {"todo", "answer", "restart"} /\ NoWork.todo = <<>> /\ NoWork.todo \in Seq({})
  BY EmptySeq DEF NoWork
<1>3. TypedInv
  BY <1>1, <1>2 DEF TypedInv
<1>4. WorkInv
  BY <1>1, <1>2 DEF WorkInv, Entries
<1>5. \A k \in Keys : Stored(k) = nvs[k]
  BY <1>1 DEF Stored, InBlob
<1>6. KeptInv
  BY <1>1, <1>2, <1>5 DEF KeptInv
<1>7. SendInv
  BY <1>1, EmptyTodo, EmptyCars DEF SendInv, Idle
<1> QED BY <1>3, <1>4, <1>6, <1>7 DEF IInv, StoreInv

\* The steps of the device.
LEMMA DeviceStep ==
  ASSUME IInv, DeviceWrites \/ DeviceFails \/ DeviceBoots \/ DeviceStops \/ PanelRuns \/ PanelWorld \/ Unplug
  PROVE  IInv'
<1>1. SendInv'
  <2>1. UNCHANGED <<line, ui, cars>>
    BY DEF DeviceWrites, DeviceFails, DeviceBoots, DeviceStops, PanelRuns, PanelWorld, Unplug, host
  <2> QED BY <2>1 DEF IInv, SendInv
<1>2. CASE DeviceWrites
  BY <1>1, <1>2, WriteDoneStep DEF DeviceWrites, IInv
<1>3. CASE DeviceFails
  BY <1>1, <1>3, WriteFailsStep DEF DeviceFails, IInv
<1>4. CASE DeviceBoots
  BY <1>1, <1>4, BootStep DEF DeviceBoots, IInv
<1>5. CASE DeviceStops
  BY <1>1, <1>5, StopStep DEF DeviceStops, PowerLoss, Restart, RestartTapped, IInv
<1>6. CASE PanelRuns
  <2>1. CASE Frame
    BY <2>1, <1>1, StoreUntouched DEF Frame, IInv
  <2>2. CASE Doze \/ Service \/ Lift \/ Cools \/ Simulated
    BY <2>2, <1>1, StoreUntouched DEF Doze, Service, Lift, Cools, Simulated, Telemetry, store, memory, IInv
  <2> QED BY <2>1, <2>2, <1>6 DEF PanelRuns
<1>7. CASE PanelWorld
  BY <1>1, <1>7, StoreUntouched
     DEF PanelWorld, TouchDown, Waits, FromGame, Telemetry, OtaTurns, Enumerates, store, memory, IInv
<1>8. CASE Unplug
  BY <1>1, <1>8, StoreUntouched DEF Unplug, store, memory, IInv
<1> QED BY <1>2, <1>3, <1>4, <1>5, <1>6, <1>7, <1>8

\* Answers, and the dashboard's steps that send nothing.
LEMMA DashboardStep ==
  ASSUME IInv, NilIsNoRecord,
         \/ Answer \/ Silence \/ Scan \/ Greet \/ Poll \/ AskAny \/ UiRun \/ Save \/ PushOther \/ ChooseCar
         \/ UiReturns \/ Read \/ Sync \/ EditLayout \/ ChoosePreset \/ CloseAndOpen \/ UNCHANGED vars
  PROVE  IInv'
<1>1. CASE Answer \/ Silence
  <2>1. StoreInv'
    <3>1. CASE Answer
      BY <3>1, ReturnStep DEF Answer, IInv
    <3>2. CASE Silence
      BY <3>2, StoreUntouched DEF Silence, device, store, memory, IInv
    <3> QED BY <1>1, <3>1, <3>2
  <2>2. PICK ok : Answered(ok)
    BY <1>1 DEF Answer, Silence
  <2>3. cars' = cars /\ DOMAIN ui' = DOMAIN ui /\ ui'.todo = ui.todo /\ line' = NoLine
    <3>1. line.by \in {"ui", "task"}
      BY <1>1 DEF Answer, Silence, IInv, SendInv
    <3>2. CASE line.by = "ui"
      BY <3>2, <2>2 DEF Answered, IInv, SendInv
    <3>3. CASE line.by = "task"
      BY <3>3, <2>2 DEF Answered
    <3> QED BY <3>1, <3>2, <3>3
  <2> QED BY <2>1, <2>3 DEF IInv, SendInv
<1>2. ASSUME UNCHANGED device, UNCHANGED line,
             UNCHANGED ui \/ ui' = Idle \/ (DOMAIN ui' = {"at", "todo", "ok"} /\ \E S : ui'.todo \in Seq(S) /\ \A p \in S : IsDoc(p[1], p[2])),
             UNCHANGED cars \/ cars' = <<>> \/ \E S : cars' \in Seq(S) /\ \A v \in S : IsDoc("C", v)
      PROVE  IInv'
  <2>1. StoreInv'
    BY <1>2, StoreUntouched DEF device, store, memory, IInv
  <2>2. /\ DOMAIN ui' = {"at", "todo", "ok"}
        /\ \E S : ui'.todo \in Seq(S) /\ \A p \in S : IsDoc(p[1], p[2])
    <3>1. CASE UNCHANGED ui
      BY <3>1 DEF IInv, SendInv
    <3>2. CASE ui' = Idle
      BY <3>2, EmptyTodo DEF Idle
    <3> QED BY <1>2, <3>1, <3>2
  <2>3. \E S : cars' \in Seq(S) /\ \A v \in S : IsDoc("C", v)
    <3>1. CASE UNCHANGED cars
      BY <3>1 DEF IInv, SendInv
    <3>2. CASE cars' = <<>>
      BY <3>2, EmptyCars
    <3> QED BY <1>2, <3>1, <3>2
  <2>4. SendInv'
    BY <1>2, <2>2, <2>3 DEF IInv, SendInv
  <2> QED BY <2>1, <2>4 DEF IInv
<1>3. CASE Scan \/ Greet \/ Poll \/ UiRun \/ Read \/ Sync \/ EditLayout \/ ChoosePreset \/ UNCHANGED vars
  BY <1>2, <1>3 DEF Scan, Greet, Poll, UiRun, Read, Sync, EditLayout, ChoosePreset, vars, host
<1>4. CASE AskAny
  BY <1>2, <1>4 DEF AskAny, Ask
<1>5. CASE UiReturns \/ CloseAndOpen
  BY <1>2, <1>5 DEF UiReturns, CloseAndOpen
<1>6. CASE Save
  <2> DEFINE a == <<"RS", RaceDoc>>  b == <<"UI", UiDoc(lay)>>  c == <<"EL", EdDoc(lay)>>  S == {a, b, c}
  <2>1. DOMAIN ui' = {"at", "todo", "ok"} /\ ui'.todo = <<a, b, c>> /\ UNCHANGED <<device, line, cars>>
    BY <1>6 DEF Save
  <2>2. \A p \in S : IsDoc(p[1], p[2])
    BY SavedIsDoc
  <2> HIDE DEF a, b, c
  <2>3. <<a, b, c>> \in Seq(S)
    OBVIOUS
  <2> HIDE DEF S
  <2> QED BY <2>1, <2>2, <2>3, <1>2
<1>7. CASE PushOther
  <2>1. PICK c \in DOMAIN Documents : \E v \in Documents[c] : ui' = [at |-> "push", ok |-> FALSE, todo |-> <<<<c, v>>>>]
    BY <1>7 DEF PushOther
  <2>2. PICK v \in Documents[c] : ui' = [at |-> "push", ok |-> FALSE, todo |-> <<<<c, v>>>>]
    BY <2>1
  <2> DEFINE a == <<c, v>>  S == {a}
  <2>3. DOMAIN ui' = {"at", "todo", "ok"} /\ ui'.todo = <<a>> /\ UNCHANGED <<device, line, cars>>
    BY <1>7, <2>2 DEF PushOther
  <2>4. \A p \in S : IsDoc(p[1], p[2])
    BY DocumentIsDoc
  <2> HIDE DEF a
  <2>5. <<a>> \in Seq(S)
    OBVIOUS
  <2> HIDE DEF S
  <2> QED BY <2>3, <2>4, <2>5, <1>2
<1>8. CASE ChooseCar
  <2>1. PICK v \in Documents["C"] : cars' = Append(cars, v)
    BY <1>8 DEF ChooseCar
  <2>2. PICK S : cars \in Seq(S) /\ \A x \in S : IsDoc("C", x)
    BY DEF IInv, SendInv
  <2>3. IsDoc("C", v)
    BY DocumentIsDoc, DocumentsAssumption
  <2> DEFINE T == S \cup {v}
  <2>4. \A x \in T : IsDoc("C", x)
    BY <2>2, <2>3
  <2>5. cars' \in Seq(T)
    <3>1. cars \in Seq(T) /\ v \in T
      BY <2>2
    <3> HIDE DEF T
    <3> QED BY <2>1, <3>1, AppendProperties
  <2> HIDE DEF T
  <2>6. UNCHANGED <<device, line, ui>>
    BY <1>8 DEF ChooseCar
  <2> QED BY <2>4, <2>5, <2>6, <1>2
<1> QED BY <1>1, <1>3, <1>4, <1>5, <1>6, <1>7, <1>8

\* The two that send a command.
LEMMA SendStep ==
  ASSUME IInv, NilIsNoRecord, PushCar \/ UiSends
  PROVE  IInv'
<1>1. CASE PushCar
  <2>1. PICK S : cars \in Seq(S) /\ \A v \in S : IsDoc("C", v)
    BY DEF IInv, SendInv
  <2>2. cars # <<>> /\ cars' = Tail(cars) /\ UNCHANGED ui
    BY <1>1 DEF PushCar
  <2>3. Head(cars) \in S /\ Tail(cars) \in Seq(S)
    BY <2>1, <2>2, HeadTailProperties
  <2>4. UNCHANGED <<line, device>> \/ Send("task", "C", Head(cars))
    BY <1>1 DEF PushCar
  <2>5. StoreInv'
    <3>1. CASE UNCHANGED <<line, device>>
      BY <3>1, StoreUntouched DEF device, store, memory, IInv
    <3>2. CASE Send("task", "C", Head(cars))
      BY <3>2, <2>1, <2>3, SentIsDoc DEF IInv
    <3> QED BY <2>4, <3>1, <3>2
  <2>6. line' # NoLine => line'.by \in {"ui", "task"}
    BY <2>4 DEF Send, IInv, SendInv
  <2> QED BY <2>1, <2>2, <2>3, <2>5, <2>6 DEF IInv, SendInv
<1>2. CASE UiSends
  <2>1. PICK S : ui.todo \in Seq(S) /\ \A p \in S : IsDoc(p[1], p[2])
    BY DEF IInv, SendInv
  <2>2. /\ ui.todo # <<>> /\ Send("ui", Head(ui.todo)[1], Head(ui.todo)[2])
        /\ ui' = [ui EXCEPT !.todo = Tail(@)] /\ UNCHANGED cars
    BY <1>2 DEF UiSends
  <2>3. Head(ui.todo) \in S /\ Tail(ui.todo) \in Seq(S)
    BY <2>1, <2>2, HeadTailProperties
  <2>4. StoreInv'
    BY <2>1, <2>2, <2>3, SentIsDoc DEF IInv
  <2>5. DOMAIN ui' = DOMAIN ui /\ ui'.todo = Tail(ui.todo)
    BY <2>2 DEF IInv, SendInv
  <2>6. line' # NoLine => line'.by \in {"ui", "task"}
    BY <2>2 DEF Send
  <2> QED BY <2>1, <2>2, <2>3, <2>4, <2>5, <2>6 DEF IInv, SendInv
<1> QED BY <1>1, <1>2

LEMMA NextInv ==
  ASSUME NilIsNoRecord
  PROVE  IInv /\ [Next]_vars => IInv'
<1> SUFFICES ASSUME IInv, [Next]_vars PROVE IInv'
  OBVIOUS
<1> QED BY DeviceStep, DashboardStep, SendStep DEF Next

LEMMA StoreSurvives == IInv => StoredSurvives
<1> SUFFICES ASSUME IInv, NEW k \in Keys \ failed
             PROVE  /\ Stored(k) = kept[k] \/ (on /\ work # NoWork /\ Stored(k) = ram[k])
                    /\ on /\ work = NoWork => ram[k] = Found(k)
  BY DEF StoredSurvives
<1> QED BY DEF IInv, StoreInv, KeptInv, WorkInv, TypedInv, AsKept

\* Wherever the power fails between two entries of the flash, a start finds of
\* every document what was stored, or what the command in progress brings
\* (set_str, get_str_owned).
THEOREM DocumentsSurvive ==
  ASSUME NilIsNoRecord
  PROVE  Spec => []StoredSurvives
<1>1. Init => IInv
  BY InitInv
<1>2. IInv /\ [Next]_vars => IInv'
  BY NextInv
<1>3. IInv => StoredSurvives
  BY StoreSurvives
<1> QED BY <1>1, <1>2, <1>3, PTL DEF Spec

-----------------------------------------------------------------------------
(* The tap that wakes the panels                                            *)

\* A finger that came down in the dark is up again, or the task has seen it
\* down: the guard against a press is the memory of an earlier iteration.
Noticed(t, p) == finger[p] = Nil \/ t.down[p]

TaskInv ==
  /\ dark \subseteq Panels
  /\ DOMAIN task = DOMAIN Started /\ DOMAIN task.down = Panels /\ DOMAIN task.held = Panels
  /\ \A p \in dark : task.asleep \/ Noticed(task, p)

Scratch(s) ==
  /\ DOMAIN s = {"task", "mask", "sim"}
  /\ DOMAIN s.task = DOMAIN Started /\ DOMAIN s.task.down = Panels /\ DOMAIN s.task.held = Panels

\* From `s` to `t`, panel `p` presses nothing new and forgets no finger.
QuietAt(s, t, p) == Noticed(s.task, p) => Noticed(t.task, p) /\ (t.task.held[p] = 0 \/ t.task.held[p] = s.task.held[p])
Quiet(s, t) == Scratch(t) /\ \A p \in Panels : QuietAt(s, t, p)

LEMMA QuietTwice ==
  ASSUME NEW s, NEW t, NEW u, Quiet(s, t), Quiet(t, u)
  PROVE  Quiet(s, u)
BY DEF Quiet, QuietAt

LEMMA ReleasedQuiet ==
  ASSUME NEW s, Scratch(s), NEW p \in Panels
  PROVE  /\ Quiet(s, Released(s, p))
         /\ finger[p] = Nil => Quiet(s, Released([s EXCEPT !.task.down[p] = FALSE], p))
<1>1. Quiet(s, Released(s, p))
  BY DEF Quiet, QuietAt, Noticed, Scratch, Released, Started
<1>2. ASSUME finger[p] = Nil PROVE Quiet(s, Released([s EXCEPT !.task.down[p] = FALSE], p))
  <2> DEFINE t == [s EXCEPT !.task.down[p] = FALSE]
  <2>1. Quiet(s, t) /\ Scratch(t)
    BY <1>2 DEF Quiet, QuietAt, Noticed, Scratch, Started
  <2>2. Quiet(t, Released(t, p))
    BY <2>1 DEF Quiet, QuietAt, Noticed, Scratch, Released, Started
  <2> QED BY <2>1, <2>2, QuietTwice
<1> QED BY <1>1, <1>2

LEMMA TouchedQuiet ==
  ASSUME NEW s, Scratch(s)
  PROVE  Quiet(s, Touched(s))
BY DEF Quiet, QuietAt, Noticed, Scratch, Touched, Started

\* A tap presses a button of its own panel only, and forgets no finger.
Aside(s, t, p) ==
  /\ Scratch(t) /\ t.task.down = s.task.down
  /\ \A q \in Panels \ {p} : t.task.held[q] = s.task.held[q]

LEMMA TapAside ==
  ASSUME NEW s, Scratch(s), NEW p \in Panels, NEW scr
  PROVE  Aside(s, Tap(s, p, scr), p)
<1>1. Aside(s, [s EXCEPT !.task.tab[p] = TabAt(scr, finger[p])], p)
  BY DEF Aside, Scratch, Started
<1>2. \A h : Aside(s, Pressed(s, p, h), p)
  BY DEF Aside, Scratch, Started, Pressed
<1> QED BY <1>1, <1>2 DEF Tap

LEMMA RaceTapAside ==
  ASSUME NEW s, Scratch(s), NEW doc, NEW b
  PROVE  Aside(s, RaceTap(s, doc, b), Race)
<1>1. Aside(s, ConfigTap(s, b), Race)
  BY DEF Aside, Scratch, Started, ConfigTap
<1>2. Aside(s, [s EXCEPT !.task.mode = "config"], Race)
  BY DEF Aside, Scratch, Started
<1>3. Aside(s, Tap(s, Race, ScreenOf(doc, Race)), Race)
  BY TapAside DEF Panels
<1>4. Aside(s, s, Race)
  BY DEF Aside
<1> QED BY <1>1, <1>2, <1>3, <1>4 DEF RaceTap

\* A new touch of one panel is no touch of the other.
LEMMA NewTouchQuiet ==
  ASSUME NEW s, Scratch(s), NEW p \in Panels, finger[p] # Nil, ~s.task.down[p],
         NEW t, Aside([s EXCEPT !.task.down[p] = TRUE], t, p)
  PROVE  Quiet(s, t)
BY DEF Quiet, QuietAt, Noticed, Aside, Scratch, Started

LEMMA RaceTouchQuiet ==
  ASSUME NEW s, Scratch(s), NEW doc, NEW b
  PROVE  Quiet(s, RaceTouch(s, doc, b))
<1>1. CASE finger[Race] = Nil
  BY <1>1, ReleasedQuiet DEF RaceTouch, Panels
<1>2. CASE finger[Race] # Nil /\ s.task.down[Race]
  BY <1>2, TouchedQuiet DEF RaceTouch
<1>3. CASE finger[Race] # Nil /\ ~s.task.down[Race]
  <2> DEFINE d == [s EXCEPT !.task.down[Race] = TRUE]  t == Touched(d)  u == RaceTap(t, doc, b)
  <2>1. Scratch(d)
    BY DEF Scratch, Started
  <2>2. Scratch(t) /\ t.task.down = d.task.down /\ t.task.held = d.task.held
    BY <2>1 DEF Scratch, Touched, Started
  <2> HIDE DEF t
  <2>3. Aside(t, u, Race)
    BY <2>2, RaceTapAside
  <2>4. Aside(d, u, Race)
    BY <2>2, <2>3 DEF Aside
  <2>5. Quiet(s, u)
    <3> HIDE DEF u
    <3> QED BY <1>3, <2>4, NewTouchQuiet DEF Panels
  <2> QED BY <1>3, <2>5 DEF RaceTouch, t
<1> QED BY <1>1, <1>2, <1>3

LEMMA ButtonTouchQuiet ==
  ASSUME NEW s, Scratch(s), NEW scr
  PROVE  Quiet(s, ButtonTouch(s, scr))
<1>1. CASE finger[Side] = Nil
  BY <1>1, ReleasedQuiet DEF ButtonTouch, Panels
<1>2. CASE finger[Side] # Nil /\ s.task.down[Side]
  BY <1>2 DEF ButtonTouch, Quiet, QuietAt
<1>3. CASE finger[Side] # Nil /\ ~s.task.down[Side]
  <2> DEFINE d == [s EXCEPT !.task.down[Side] = TRUE]
  <2>1. Scratch(d)
    BY DEF Scratch, Started
  <2>2. Aside(d, Tap(d, Side, scr), Side)
    BY <2>1, TapAside DEF Panels
  <2>3. Quiet(s, Tap(d, Side, scr))
    BY <1>3, <2>2, NewTouchQuiet DEF Panels
  <2> QED BY <1>3, <2>3 DEF ButtonTouch
<1> QED BY <1>1, <1>2, <1>3

LEMMA SideTouchQuiet ==
  ASSUME NEW s, Scratch(s), NEW doc
  PROVE  Quiet(s, SideTouch(s, doc))
<1> DEFINE t == IF HasScreen(doc, Side) THEN ButtonTouch(s, ScreenOf(doc, Side)) ELSE s
<1>1. Quiet(s, t)
  BY ButtonTouchQuiet DEF Quiet, QuietAt
<1> HIDE DEF t
<1>2. Scratch(t)
  BY <1>1 DEF Quiet
<1>3. Quiet(t, Released(t, Side)) /\ Quiet(t, Touched(t))
  BY <1>2, ReleasedQuiet, TouchedQuiet DEF Panels
<1>4. Quiet(s, Released(t, Side)) /\ Quiet(s, Touched(t))
  BY <1>1, <1>3, QuietTwice
<1>5. SideTouch(s, doc) = IF finger[Side] = Nil THEN Released(t, Side) ELSE Touched(t)
  BY DEF SideTouch, t
<1> QED BY <1>4, <1>5

LEMMA IterationQuiet ==
  ASSUME TaskInv, NEW doc, NEW b
  PROVE  Quiet([task |-> task, mask |-> mask, sim |-> sim], Iteration(doc, b))
<1> DEFINE z == [task |-> task, mask |-> mask, sim |-> sim]
           s == RaceTouch(z, doc, b)
           asked == NewTouch(Race) /\ task.mode = "config" /\ b = "sleep"
           t == ConfigReturn(s)
           u == SideTouch(t, doc)
<1>1. Quiet(z, s)
  <2>1. Scratch(z)
    BY DEF Scratch, TaskInv
  <2> HIDE DEF z
  <2> QED BY <2>1, RaceTouchQuiet
<1>2. Iteration(doc, b) = IF s.task.mode = "restart" THEN s ELSE SleepEntry(u, asked)
  BY DEF Iteration
<1> HIDE DEF z, s, asked
<1>3. Quiet(s, t)
  BY <1>1 DEF Quiet, QuietAt, Noticed, Scratch, Started, ConfigReturn
<1>4. Quiet(t, u)
  <2> HIDE DEF t
  <2> QED BY <1>3, SideTouchQuiet DEF Quiet
<1> HIDE DEF t, u
<1>5. Quiet(u, SleepEntry(u, asked))
  BY <1>4 DEF Quiet, QuietAt, Noticed, Scratch, Started, SleepEntry
<1>6. Quiet(z, SleepEntry(u, asked))
  BY <1>1, <1>3, <1>4, <1>5, QuietTwice
<1> QED BY <1>1, <1>2, <1>6 DEF z

\* What no step of the display task changes.
LEMMA TaskUntouched ==
  ASSUME TaskInv, UNCHANGED <<task, finger, dark>>
  PROVE  TaskInv'
BY DEF TaskInv, Noticed

SilentStep == \A p \in dark : task'.held[p] # 0 => task'.held[p] = task.held[p]

LEMMA FrameSilent ==
  ASSUME TaskInv, Frame
  PROVE  TaskInv' /\ SilentStep
<1> DEFINE z == [task |-> task, mask |-> mask, sim |-> sim]
<1>1. PICK b \in ConfigButtons : task' = Iteration(Parsed, b).task
  BY DEF Frame
<1> DEFINE s == Iteration(Parsed, b)
<1>2. Quiet(z, s)
  BY IterationQuiet
<1>3. task' = s.task /\ ~task.asleep /\ UNCHANGED <<finger, dark>>
  BY <1>1 DEF Frame, Awake
<1>4. z.task = task
  OBVIOUS
<1> HIDE DEF z, s
<1>5. \A p \in dark : Noticed(task, p) /\ p \in Panels
  BY <1>3 DEF TaskInv
<1>6. \A p \in dark : Noticed(s.task, p) /\ (s.task.held[p] = 0 \/ s.task.held[p] = task.held[p])
  BY <1>2, <1>4, <1>5 DEF Quiet, QuietAt
<1>7. SilentStep
  BY <1>3, <1>6 DEF SilentStep
<1>8. TaskInv'
  BY <1>2, <1>3, <1>6 DEF TaskInv, Quiet, Scratch, Noticed
<1> QED BY <1>7, <1>8

LEMMA DozeSilent ==
  ASSUME TaskInv, Doze
  PROVE  TaskInv' /\ SilentStep
<1> DEFINE t == [task EXCEPT !.guard = @ /\ AnyTouch]
<1>1. task' = t \/ task' = Wake(t)
  BY DEF Doze, Dozed
<1>2. task.asleep /\ UNCHANGED <<finger, dark>>
  BY DEF Doze
<1>3. DOMAIN t = DOMAIN Started /\ t.down = task.down /\ t.held = task.held /\ t.asleep = task.asleep
  BY DEF TaskInv, Started
<1> HIDE DEF t
<1>4. CASE task' = t
  BY <1>2, <1>3, <1>4 DEF TaskInv, SilentStep, Noticed
<1>5. CASE task' = Wake(t)
  <2>1. /\ DOMAIN task' = DOMAIN Started /\ task'.held = task.held
        /\ task'.down = IF AnyTouch THEN [p \in Panels |-> TRUE] ELSE task.down
    BY <1>3, <1>5 DEF Wake, Woken, Started
  <2>2. \A p \in Panels : AnyTouch \/ finger[p] = Nil
    BY DEF AnyTouch
  <2>3. DOMAIN task'.down = Panels /\ \A p \in Panels : finger[p] = Nil \/ task'.down[p]
    BY <2>1, <2>2 DEF TaskInv
  <2> QED BY <1>2, <2>1, <2>3 DEF TaskInv, SilentStep, Noticed
<1> QED BY <1>1, <1>4, <1>5

\* The world moves fingers and timers.
LEMMA WorldSilent ==
  ASSUME TaskInv, TouchDown \/ Lift \/ Waits \/ Cools \/ Telemetry
  PROVE  TaskInv' /\ SilentStep
<1>1. CASE TouchDown
  <2>1. PICK p \in Panels, at \in Places :
          finger' = [finger EXCEPT ![p] = at] /\ dark' = IF task.asleep THEN dark \cup {p} ELSE dark \ {p}
    BY <1>1 DEF TouchDown
  <2>2. \A q \in dark' \ {p} : q \in dark /\ finger'[q] = finger[q]
    BY <2>1
  <2> QED BY <1>1, <2>1, <2>2 DEF TouchDown, TaskInv, Noticed, SilentStep
<1>2. CASE Lift
  <2>1. PICK p \in Panels : finger' = [finger EXCEPT ![p] = Nil]
    BY <1>2 DEF Lift
  <2>2. \A q : finger'[q] = finger[q] \/ finger'[q] = Nil
    BY <2>1
  <2> QED BY <1>2, <2>2 DEF Lift, TaskInv, Noticed, SilentStep
<1>3. CASE Waits \/ Cools \/ Telemetry
  <2>1. /\ DOMAIN task' = DOMAIN Started /\ UNCHANGED <<finger, dark>>
        /\ task'.down = task.down /\ task'.held = task.held /\ task'.asleep = task.asleep
    BY <1>3 DEF Waits, Cools, Telemetry, TaskInv, Started
  <2> QED BY <2>1 DEF TaskInv, Noticed, SilentStep
<1> QED BY <1>1, <1>2, <1>3

LEMMA ForgetsSilent ==
  ASSUME TaskInv, Forgets
  PROVE  TaskInv' /\ SilentStep
BY DEF TaskInv, Forgets, SilentStep, Started, Panels

\* The steps of the dashboard are none of the panels'.
LEMMA LinkKeepsPanel ==
  ASSUME \/ DeviceBoots \/ DeviceWrites \/ DeviceFails \/ Answer \/ Silence \/ Unplug
         \/ Scan \/ Greet \/ Poll \/ AskAny \/ PushCar
         \/ UiRun \/ Save \/ PushOther \/ ChooseCar \/ UiSends \/ UiReturns \/ Read \/ Sync
         \/ EditLayout \/ ChoosePreset \/ CloseAndOpen \/ UNCHANGED vars
  PROVE  UNCHANGED <<task, finger, dark>>
BY DEF DeviceBoots, DeviceWrites, DeviceFails, Answer, Silence, Unplug, Scan, Greet, Poll, AskAny, Ask, PushCar,
       UiRun, Save, PushOther, ChooseCar, UiSends, UiReturns, Read, Sync, EditLayout, ChoosePreset, CloseAndOpen,
       Send, vars, device, glass

LEMMA GlassStep == TaskInv /\ [Next]_vars => TaskInv' /\ SilentStep
<1> SUFFICES ASSUME TaskInv, [Next]_vars PROVE TaskInv' /\ SilentStep
  OBVIOUS
<1>1. CASE DeviceStops
  BY <1>1, ForgetsSilent DEF DeviceStops
<1>2. CASE PanelRuns
  <2>1. Service => UNCHANGED <<task, finger, dark>>
    BY DEF Service
  <2> QED BY <1>2, <2>1, FrameSilent, DozeSilent, WorldSilent, TaskUntouched DEF PanelRuns, Simulated, SilentStep
<1>3. CASE PanelWorld
  <2>1. OtaTurns \/ Enumerates => UNCHANGED <<task, finger, dark>>
    BY DEF OtaTurns, Enumerates
  <2> QED BY <1>3, <2>1, WorldSilent, TaskUntouched DEF PanelWorld, FromGame, SilentStep
<1>4. CASE UNCHANGED <<task, finger, dark>>
  BY <1>4, TaskUntouched DEF SilentStep
<1> QED BY <1>1, <1>2, <1>3, <1>4, LinkKeepsPanel DEF Next

\* Whatever is on the panels, however fingers and telemetry come and go: a tap
\* that wakes them presses no button for as long as the finger stays
\* (display_task).
THEOREM WakesInSilence == Spec => WakeTapSilent
<1>1. Init => TaskInv
  BY DEF Init, InitPanel, TaskInv, Started
<1>2. TaskInv /\ [Next]_vars => TaskInv'
  BY GlassStep
<1>3. TaskInv /\ [Next]_vars => [\A p \in dark : task'.held[p] # 0 => task'.held[p] = task.held[p]]_task
  BY GlassStep DEF SilentStep
<1> QED BY <1>1, <1>2, <1>3, PTL DEF Spec, WakeTapSilent

-----------------------------------------------------------------------------
(***************************************************************************)
(* Proofs about the layout editor, for every canvas, set of kinds, numbers  *)
(* and scenario: widgets stay on the canvas, buttons keep numbers of their  *)
(* own, and no widget is left on a page that does not exist.                *)
(*                                                                         *)
(* The three are kept by every edit only when they hold of all layouts the  *)
(* editor may come to: the presets, the file, and the documents it has sent *)
(* to the device, wherever these are (EditorInv, DocInv).  A drag needs     *)
(* that the geometry it started with is that of the widget (GestureInv),    *)
(* and a change of page that the selected widget is on the display whose    *)
(* pages are counted (ViewInv).                                             *)
(***************************************************************************)

\* Its pages, while every widget is found by its id.
Ordered(l) == UniqueIds(l) /\ Paged(l)

LayInv == Fine(lay, rekinded) /\ (~foreign => Ordered(lay))

GestureInv ==
  view.drag # NoDrag =>
    /\ view.drag.by \in {"box", "corner"} /\ view.drag.x \in Nat /\ view.drag.w \in Nat
    /\ view.drag.w >= MinSize /\ view.drag.x + view.drag.w <= Canvas
    /\ view.drag.by = "box" /\ view.drag.id \in IdSet(lay) => Dragged.w = view.drag.w

\* The selected widget is on the display that is edited.
ViewInv ==
  /\ DOMAIN view = {"disp", "tab", "sel", "elem", "drag"}
  /\ view.disp \in Displays /\ view.tab \in Nat /\ view.elem \in Nat
  /\ view.sel \in IdSet(lay) \cup {NoSel}
  /\ ~foreign => /\ view.tab = 0 \/ view.tab < lay.tabs[view.disp]
                 /\ \A n \in Range(lay.nodes) : n.id = view.sel => n.disp = view.disp

Presets == [builtin : BOOLEAN, zone : Ids, nodes : Seq(Nodes)]
PresetInv ==
  /\ presets \in Seq(Presets) /\ active \in DOMAIN presets /\ presets[1].builtin
  /\ \A i \in DOMAIN presets : ~rekinded => Distinct(presets[i].nodes)
  /\ uid \in Nat /\ dirty \in BOOLEAN /\ rekinded \in BOOLEAN /\ foreign \in BOOLEAN

FileInv ==
  /\ file.there \in BOOLEAN /\ pfile.there \in BOOLEAN
  /\ file.there => Fine(file.lay, rekinded) /\ (~foreign => Ordered(file.lay))
  /\ pfile.there => pfile.presets \in Seq([builtin : BOOLEAN, zone : Ids]) /\ pfile.presets # <<>> /\ pfile.presets[1].builtin

EditorInv == LayInv /\ GestureInv /\ ViewInv /\ PresetInv /\ FileInv

Sent(c, v) == c \in Commands /\ (c = "EL" => "text" \in DOMAIN v /\ EdOk(v, rekinded))

FlashDocs ==
  /\ DOMAIN blob = BlobKeys /\ DOMAIN nvs = Keys
  /\ EdOk(blob["ed"], rekinded) /\ EdOk(nvs["ed"], rekinded) /\ EdOk(ram["ed"], rekinded)
WorkDocs  == "todo" \in DOMAIN work /\ \E S : work.todo \in Seq(S) /\ \A e \in S : e.key = "ed" => EdOk(e.val, rekinded)
SentDocs  ==
  /\ line # NoLine => line.by \in {"ui", "task"}
  /\ "todo" \in DOMAIN ui /\ \E S : ui.todo \in Seq(S) /\ \A p \in S : Sent(p[1], p[2])
TaskDocs  == \E S : tasks \in Seq(S) /\ \A t \in S : DOMAIN t = {"ask", "ed"} /\ EdOk(t.ed, rekinded)
QueueDocs == \E S : uiq \in Seq(S) /\ \A f \in S : f.do = "layout" => EdOk(f.ed, rekinded)

DocInv == FlashDocs /\ WorkDocs /\ SentDocs /\ TaskDocs /\ QueueDocs

-----------------------------------------------------------------------------
(* Numbers                                                                  *)

LEMMA EditorConstants ==
  /\ Canvas \in Nat /\ MinSize \in Nat /\ 1 <= MinSize /\ MinSize <= Canvas /\ Snap \in Nat /\ Nudges \subseteq Int
  /\ "stat" \in DOMAIN Size /\ "button" \in DOMAIN Size
  /\ \A k \in DOMAIN Size : Size[k] \in Nat /\ MinSize <= Size[k] /\ Size[k] <= Canvas
  /\ Corner \in Nat /\ Step \in Nat /\ Gap \in Nat /\ SeedUid \in Nat /\ RestartUid \in Nat
  /\ MaxHid \in Nat /\ MaxTabs \in Nat /\ MaxTabs # 0 /\ Around \in Nat /\ Around # 0
  /\ Columns \in Nat /\ Columns # 0
<1>1. /\ Canvas \in Nat /\ MinSize \in 1..Canvas /\ Snap \in Nat /\ Nudges \subseteq Int
      /\ {"stat", "button"} \subseteq DOMAIN Size
      /\ \A k \in DOMAIN Size : Size[k] \in MinSize..Canvas
      /\ {Corner, Step, Gap, SeedUid, RestartUid} \subseteq Nat
      /\ MaxHid \in Nat /\ MaxTabs \in Nat \ {0} /\ Around \in Nat \ {0} /\ Columns \in Nat \ {0}
  BY EditorAssumption
<1> QED BY <1>1

\* A cell of the grid is big enough, and Columns of them fit with their gaps.
LEMMA GridFits ==
  ASSUME NEW cell, cell = (Canvas - Gap * (Columns + 1)) \div Columns, NEW c \in 1..Columns
  PROVE  /\ cell \in Nat /\ MinSize <= cell
         /\ Gap + (c - 1) * (cell + Gap) \in Nat
         /\ Gap + (c - 1) * (cell + Gap) + cell <= Canvas
<1>1. cell >= MinSize
  BY EditorAssumption, Zenon
<1>2. cell \in Int /\ cell * Columns <= Canvas - Gap * (Columns + 1)
  <2> DEFINE room == Canvas - Gap * (Columns + 1)
  <2>1. room \in Int
    BY EditorConstants
  <2>2. cell = room \div Columns
    OBVIOUS
  <2> HIDE DEF room
  <2>3. cell \in Int /\ cell * Columns <= room
    BY <2>1, <2>2, EditorConstants
  <2> QED BY <2>3 DEF room
<1>3. cell \in Nat /\ MinSize <= cell
  BY <1>1, <1>2, EditorConstants
<1> DEFINE g == cell + Gap
<1>4. g \in Nat /\ c - 1 \in Nat /\ (c - 1) * g \in Nat
  BY <1>3, EditorConstants
<1>5. c * g <= Columns * g
  <2>1. Columns - c \in Nat /\ (Columns - c) * g \in Nat
    BY <1>4, EditorConstants
  <2>2. (Columns - c) * g = Columns * g - c * g
    BY <1>4, EditorConstants
  <2> HIDE DEF g
  <2> QED BY <2>1, <2>2, <1>4, EditorConstants
<1>6. (c - 1) * g = c * g - g
  BY <1>4
<1>7. Columns * g = cell * Columns + Gap * Columns /\ Gap * (Columns + 1) = Gap * Columns + Gap
  BY <1>3, EditorConstants
<1>8. /\ c * g \in Int /\ Columns * g \in Int /\ cell * Columns \in Int /\ Gap * Columns \in Int /\ Gap \in Nat
      /\ Gap * (Columns + 1) \in Int /\ Canvas \in Nat
  BY <1>3, <1>4, EditorConstants
<1>9. Gap + (c - 1) * g + cell <= Canvas /\ Gap + (c - 1) * g \in Nat
  <2> DEFINE a == c * g  b == Columns * g  d == cell * Columns  e == Gap * Columns  f == (c - 1) * g  h == Gap * (Columns + 1)
  <2>1. /\ a \in Int /\ b \in Int /\ d \in Int /\ e \in Int /\ f \in Nat /\ Gap \in Nat /\ h \in Int
        /\ a <= b /\ f = a - g /\ b = d + e /\ h = e + Gap /\ d <= Canvas - h /\ g = cell + Gap
    BY <1>2, <1>4, <1>5, <1>6, <1>7, <1>8
  <2> HIDE DEF a, b, d, e, f, g, h
  <2>2. Gap + f + cell <= Canvas /\ Gap + f \in Nat
    BY <2>1, <1>3, <1>8
  <2> QED BY <2>2 DEF f
<1> QED BY <1>3, <1>9 DEF g

LEMMA ClampIn ==
  ASSUME NEW v \in Int, NEW lo \in Int, NEW hi \in Int, lo <= hi
  PROVE  Clamp(v, lo, hi) \in lo..hi
BY DEF Clamp

LEMMA HalfOf ==
  ASSUME NEW n \in Int
  PROVE  n \div 2 \in Int /\ 2 * (n \div 2) <= n /\ n <= 2 * (n \div 2) + 1
OBVIOUS

LEMMA NatHasMin ==
  ASSUME NEW T, T \subseteq Nat, T # {}
  PROVE  \E m \in T : \A x \in T : m <= x
<1> DEFINE Less == {p \in Nat \X Nat : p[1] < p[2]}
<1>1. IsWellFoundedOn(Less, Nat)
  BY NatLessThanWellFounded DEF OpToRel
<1> HIDE DEF Less
<1>2. PICK m \in T : \A y \in T : ~(<<y, m>> \in Less)
  BY <1>1, WFMin
<1>3. \A y \in T : ~(y < m)
  BY <1>2 DEF Less
<1> QED BY <1>3

LEMMA HasMax ==
  ASSUME NEW n \in Nat, NEW T, T \subseteq 1..n, T # {}
  PROVE  \E m \in T : \A x \in T : x <= m
<1> DEFINE U == {n - x : x \in T}
<1>1. U \subseteq Nat /\ U # {}
  OBVIOUS
<1> HIDE DEF U
<1>2. PICK u \in U : \A v \in U : u <= v
  BY <1>1, NatHasMin
<1>3. PICK m \in T : u = n - m
  BY DEF U
<1>4. ASSUME NEW x \in T PROVE x <= m
  <2>1. n - x \in U
    BY DEF U
  <2> QED BY <1>2, <1>3, <2>1
<1> QED BY <1>4

\* The a-th smallest number of a finite set is a number of the set.
LEMMA NthIsThere ==
  ASSUME NEW n \in Nat, NEW K \in SUBSET (1..n), NEW a \in 1..Cardinality(K)
  PROVE  Nth(K, a) \in K /\ Cardinality({j \in K : j <= Nth(K, a)}) = a
<1> DEFINE Upto(i) == {j \in K : j <= i}
           rank(i) == Cardinality(Upto(i))
<1>0. IsFiniteSet(K) /\ Cardinality(K) \in Nat
  <2>1. IsFiniteSet(1..n)
    BY FS_Interval
  <2>2. IsFiniteSet(K)
    BY <2>1, FS_Subset
  <2> QED BY <2>2, FS_CardinalityType
<1>1. ASSUME NEW i PROVE IsFiniteSet(Upto(i)) /\ rank(i) \in Nat
  BY <1>0, FS_Subset, FS_CardinalityType
<1> DEFINE T == {i \in K : a <= rank(i)}
<1>2. T \subseteq Nat /\ T # {}
  <2>1. K # {}
    BY FS_EmptySet
  <2>2. PICK m \in K : \A x \in K : x <= m
    BY <2>1, HasMax
  <2>3. Upto(m) = K
    BY <2>2
  <2>4. m \in T
    BY <2>3
  <2>5. T \subseteq K
    BY Zenon
  <2> HIDE DEF T
  <2> QED BY <2>4, <2>5
<1> HIDE DEF T
<1>3. PICK m \in T : \A x \in T : m <= x
  BY <1>2, NatHasMin
<1>4. m \in K /\ a <= rank(m)
  BY DEF T
<1>5. rank(m) <= a
  <2> SUFFICES ASSUME ~(rank(m) <= a) PROVE FALSE
    OBVIOUS
  <2> DEFINE below == Upto(m) \ {m}
  <2>1. IsFiniteSet(Upto(m)) /\ m \in Upto(m)
    BY <1>1, <1>4
  <2>2. Cardinality(below) = rank(m) - 1
    BY <2>1, FS_RemoveElement
  <2>3. a <= Cardinality(below)
    <3> HIDE DEF below
    <3>1. rank(m) \in Nat
      BY <1>1
    <3> HIDE DEF rank
    <3> QED BY <2>2, <3>1
  <2>4. below # {}
    <3> HIDE DEF below
    <3> QED BY <2>3, FS_EmptySet
  <2>5. PICK p \in below : \A x \in below : x <= p
    <3>1. below \subseteq 1..n
      OBVIOUS
    <3> HIDE DEF below
    <3> QED BY <2>4, <3>1, HasMax
  <2>6. Upto(p) = below
    <3>1. p \in K /\ p <= m /\ p # m
      BY <2>5
    <3>a. p \in Nat /\ m \in Nat /\ \A x \in K : x \in Nat
      BY <1>4, <3>1
    <3>b. \A x \in K : x < m => x <= p
      <4> SUFFICES ASSUME NEW x \in K, x < m PROVE x <= p
        OBVIOUS
      <4>1. x \in below
        BY <3>a
      <4> QED BY <2>5, <4>1
    <3>2. \A x \in K : x <= p <=> x <= m /\ x # m
      BY <3>1, <3>a, <3>b
    <3> QED BY <3>2
  <2>7. p \in T /\ p <= m /\ p # m /\ p \in Nat /\ m \in Nat
    BY <2>3, <2>5, <2>6, <1>4 DEF T
  <2> QED BY <1>3, <1>4, <2>7
<1>6. rank(m) = a
  <2>1. rank(m) \in Nat
    BY <1>1
  <2> HIDE DEF rank
  <2> QED BY <1>4, <1>5, <2>1
<1>7. \E i \in K : Cardinality({j \in K : j <= i}) = a
  BY <1>4, <1>6
<1> QED BY <1>7 DEF Nth

-----------------------------------------------------------------------------
(* Lists of widgets                                                         *)

LEMMA SeqFacts ==
  ASSUME NEW S, NEW s \in Seq(S)
  PROVE  /\ Len(s) \in Nat /\ DOMAIN s = 1..Len(s)
         /\ \A i \in DOMAIN s : s[i] \in S
         /\ \A x \in Range(s) : x \in S
         /\ \A i \in DOMAIN s : s[i] \in Range(s)
         /\ \A x \in Range(s) : \E i \in DOMAIN s : x = s[i]
<1>1. Len(s) \in Nat /\ DOMAIN s = 1..Len(s) /\ \A i \in DOMAIN s : s[i] \in S
  OBVIOUS
<1> QED BY <1>1 DEF Range

LEMMA FunctionIsSeq ==
  ASSUME NEW S, NEW n \in Nat, NEW f \in [1..n -> S]
  PROVE  f \in Seq(S) /\ Len(f) = n
<1>1. f \in Seq(S)
  OBVIOUS
<1> QED BY <1>1

\* The elements of d are elements of s, each of its own place.
PickedFrom(d, s) ==
  \A a, b \in DOMAIN d : \E i, j \in DOMAIN s : d[a] = s[i] /\ d[b] = s[j] /\ (i = j => a = b)

LEMMA RetainedSome ==
  ASSUME NEW S, NEW s \in Seq(S), NEW T
  PROVE  /\ Retained(s, T) \in Seq(S) /\ PickedFrom(Retained(s, T), s)
         /\ \A a \in DOMAIN Retained(s, T) : Retained(s, T)[a] \in T
<1> DEFINE K == {i \in DOMAIN s : s[i] \in T}
           n == Cardinality(K)
           d == [a \in 1..n |-> s[Nth(K, a)]]
<1>1. Len(s) \in Nat /\ DOMAIN s = 1..Len(s) /\ (\A i \in DOMAIN s : s[i] \in S) /\ K \in SUBSET (1..Len(s))
  BY SeqFacts
<1>2. n \in Nat
  <2> HIDE DEF K
  <2>1. IsFiniteSet(1..Len(s))
    BY <1>1, FS_Interval
  <2>2. IsFiniteSet(K)
    BY <1>1, <2>1, FS_Subset
  <2> QED BY <2>2, FS_CardinalityType
<1>3. ASSUME NEW a \in 1..n PROVE Nth(K, a) \in K /\ Cardinality({j \in K : j <= Nth(K, a)}) = a
  <2> HIDE DEF K
  <2> QED BY <1>1, NthIsThere
<1>4. \A a \in 1..n : d[a] = s[Nth(K, a)] /\ d[a] \in S /\ d[a] \in T /\ Nth(K, a) \in DOMAIN s
  <2> SUFFICES ASSUME NEW a \in 1..n
               PROVE  d[a] = s[Nth(K, a)] /\ d[a] \in S /\ d[a] \in T /\ Nth(K, a) \in DOMAIN s
    OBVIOUS
  <2>1. d[a] = s[Nth(K, a)]
    BY Zenon
  <2> HIDE DEF d, n
  <2>2. Nth(K, a) \in DOMAIN s /\ s[Nth(K, a)] \in T
    BY <1>3
  <2> QED BY <1>1, <2>1, <2>2
<1>5. DOMAIN d = 1..n
  BY Zenon
<1>6. d \in Seq(S)
  <2>1. d \in [1..n -> S]
    BY <1>4
  <2> HIDE DEF d, n
  <2> QED BY <1>2, <2>1, FunctionIsSeq
<1>7. PickedFrom(d, s)
  <2> SUFFICES ASSUME NEW a \in 1..n, NEW b \in 1..n
               PROVE  \E i, j \in DOMAIN s : d[a] = s[i] /\ d[b] = s[j] /\ (i = j => a = b)
    BY <1>5 DEF PickedFrom
  <2>1. Nth(K, a) = Nth(K, b) => a = b
    <3> HIDE DEF K, n
    <3> QED BY <1>3
  <2> HIDE DEF K, n, d
  <2> QED BY <1>4, <2>1
<1>8. Retained(s, T) = d
  BY Zenon DEF Retained
<1> HIDE DEF d, n
<1> QED BY <1>4, <1>5, <1>6, <1>7, <1>8

\* What holds of pairs of widgets holds of those that stay.
LEMMA PickedKeeps ==
  ASSUME NEW s \in Seq(Nodes), NEW d \in Seq(Nodes), PickedFrom(d, s)
  PROVE  /\ Distinct(s) => Distinct(d)
         /\ \A a, b \in DOMAIN d : (\A i, j \in DOMAIN s : s[i].id = s[j].id => i = j) => (d[a].id = d[b].id => a = b)
         /\ \A a \in DOMAIN d : \E i \in DOMAIN s : d[a] = s[i]
<1>1. ASSUME Distinct(s) PROVE Distinct(d)
  <2> SUFFICES ASSUME NEW a \in DOMAIN d, NEW b \in DOMAIN d,
                      NEW k \in 0..Len(d[a].els), NEW m \in 0..Len(d[b].els),
                      NumberAt(d[a], k) = NumberAt(d[b], m), NumberAt(d[a], k) # 0
               PROVE  a = b /\ k = m
    BY DEF Distinct
  <2>1. PICK i \in DOMAIN s, j \in DOMAIN s : d[a] = s[i] /\ d[b] = s[j] /\ (i = j => a = b)
    BY DEF PickedFrom
  <2>2. i = j /\ k = m
    BY <1>1, <2>1 DEF Distinct
  <2> QED BY <2>1, <2>2
<1> QED BY <1>1 DEF PickedFrom

\* Widgets that differ in what has nothing to do with joystick numbers.
SameNumbers(n, o) == n.kind = o.kind /\ n.hid = o.hid /\ n.els = o.els

LEMMA SameNumbersAt ==
  ASSUME NEW n, NEW o, SameNumbers(n, o), NEW k
  PROVE  NumberAt(n, k) = NumberAt(o, k)
BY DEF SameNumbers, NumberAt

LEMMA RenumberedDistinct ==
  ASSUME NEW s, NEW d, DOMAIN d = DOMAIN s, \A i \in DOMAIN s : SameNumbers(d[i], s[i]), Distinct(s)
  PROVE  Distinct(d)
<1>1. \A i \in DOMAIN s : Len(d[i].els) = Len(s[i].els) /\ \A k : NumberAt(d[i], k) = NumberAt(s[i], k)
  BY SameNumbersAt DEF SameNumbers
<1> QED BY <1>1 DEF Distinct

\* The numbers of n are its own, and each is one of o's or free.
LEMMA ReplacedDistinct ==
  ASSUME NEW l, NEW S, l.nodes \in Seq(S), Distinct(l.nodes), NEW i \in DOMAIN l.nodes, NEW n, NEW d,
         d = [l.nodes EXCEPT ![i] = n],
         \A k, m \in 0..Len(n.els) : NumberAt(n, k) = NumberAt(n, m) => NumberAt(n, k) = 0 \/ k = m,
         \A k \in 0..Len(n.els) : NumberAt(n, k) \in Hids(l.nodes[i]) \/ NumberAt(n, k) \notin Taken(l) \/ NumberAt(n, k) = 0
  PROVE  Distinct(d)
<1>1. \A j \in DOMAIN l.nodes : \A m \in 0..Len(l.nodes[j].els) :
        NumberAt(l.nodes[j], m) # 0 => NumberAt(l.nodes[j], m) \in Hids(l.nodes[j]) /\ NumberAt(l.nodes[j], m) \in Taken(l)
  BY DEF Hids, Taken, Range
<1>2. \A j \in DOMAIN l.nodes : j # i => Hids(l.nodes[j]) \cap Hids(l.nodes[i]) = {}
  <2> SUFFICES ASSUME NEW j \in DOMAIN l.nodes, j # i, NEW h \in Hids(l.nodes[j]), h \in Hids(l.nodes[i]) PROVE FALSE
    OBVIOUS
  <2>1. PICK m \in 0..Len(l.nodes[j].els) : h = NumberAt(l.nodes[j], m) /\ h # 0
    BY DEF Hids
  <2>2. PICK k \in 0..Len(l.nodes[i].els) : h = NumberAt(l.nodes[i], k)
    BY DEF Hids
  <2> QED BY <2>1, <2>2 DEF Distinct
<1>3. \A j \in DOMAIN l.nodes : \A k \in 0..Len(n.els) : \A m \in 0..Len(l.nodes[j].els) :
        j # i => NumberAt(n, k) = 0 \/ NumberAt(n, k) # NumberAt(l.nodes[j], m)
  BY <1>1, <1>2
<1>4. DOMAIN d = DOMAIN l.nodes /\ d[i] = n /\ \A j \in DOMAIN d : j # i => d[j] = l.nodes[j]
  OBVIOUS
<1> SUFFICES ASSUME NEW a \in DOMAIN d, NEW b \in DOMAIN d,
                    NEW k \in 0..Len(d[a].els), NEW m \in 0..Len(d[b].els),
                    NumberAt(d[a], k) = NumberAt(d[b], m), NumberAt(d[a], k) # 0
             PROVE  a = b /\ k = m
  BY DEF Distinct
<1>5. CASE a = i /\ b = i
  BY <1>4, <1>5
<1>6. CASE a = i /\ b # i
  BY <1>3, <1>4, <1>6
<1>7. CASE a # i /\ b = i
  BY <1>3, <1>4, <1>7
<1>8. CASE a # i /\ b # i
  BY <1>4, <1>8 DEF Distinct
<1> QED BY <1>5, <1>6, <1>7, <1>8

\* New widgets with numbers of their own, none of which was taken.
LEMMA AddedDistinct ==
  ASSUME NEW l, l.nodes \in Seq(Nodes), Distinct(l.nodes), NEW g \in Seq(Nodes), Distinct(g),
         \A a \in DOMAIN g : \A k \in 0..Len(g[a].els) : NumberAt(g[a], k) \notin Taken(l)
  PROVE  Distinct(l.nodes \o g)
<1> DEFINE s == l.nodes
           d == s \o g
<1>1. \A j \in DOMAIN s : \A m \in 0..Len(s[j].els) : NumberAt(s[j], m) # 0 => NumberAt(s[j], m) \in Taken(l)
  BY DEF Hids, Taken, Range
<1>2. /\ s \in Seq(Nodes) /\ DOMAIN s = 1..Len(s) /\ DOMAIN g = 1..Len(g) /\ Len(s) \in Nat /\ Len(g) \in Nat
      /\ DOMAIN d = 1..(Len(s) + Len(g))
      /\ \A i \in 1..(Len(s) + Len(g)) : d[i] = IF i <= Len(s) THEN s[i] ELSE g[i - Len(s)]
  <2>1. s \in Seq(Nodes) /\ g \in Seq(Nodes)
    OBVIOUS
  <2>2. DOMAIN s = 1..Len(s) /\ DOMAIN g = 1..Len(g) /\ Len(s) \in Nat /\ Len(g) \in Nat
    BY <2>1
  <2> HIDE DEF s
  <2>3. d \in Seq(Nodes) /\ Len(d) = Len(s) + Len(g)
        /\ \A i \in 1..(Len(s) + Len(g)) : d[i] = IF i <= Len(s) THEN s[i] ELSE g[i - Len(s)]
    BY <2>1, ConcatProperties
  <2> HIDE DEF d
  <2>4. DOMAIN d = 1..Len(d)
    BY <2>3
  <2> QED BY <2>1, <2>2, <2>3, <2>4
<1>3. Distinct(s)
  OBVIOUS
<1> HIDE DEF s, d
<1> SUFFICES ASSUME NEW a \in DOMAIN d, NEW b \in DOMAIN d,
                    NEW k \in 0..Len(d[a].els), NEW m \in 0..Len(d[b].els),
                    NumberAt(d[a], k) = NumberAt(d[b], m), NumberAt(d[a], k) # 0
             PROVE  a = b /\ k = m
  <2>1. Distinct(d)
    BY DEF Distinct
  <2> QED BY <2>1 DEF s, d
<1>4. /\ (a \in DOMAIN s /\ d[a] = s[a]) \/ (a - Len(s) \in DOMAIN g /\ d[a] = g[a - Len(s)])
      /\ (b \in DOMAIN s /\ d[b] = s[b]) \/ (b - Len(s) \in DOMAIN g /\ d[b] = g[b - Len(s)])
      /\ a \in Nat /\ b \in Nat
  BY <1>2, SMTT(30)
<1>5. CASE a \in DOMAIN s /\ d[a] = s[a] /\ b \in DOMAIN s /\ d[b] = s[b]
  BY <1>3, <1>5 DEF Distinct
<1>6. CASE a \in DOMAIN s /\ d[a] = s[a] /\ b - Len(s) \in DOMAIN g /\ d[b] = g[b - Len(s)]
  BY <1>1, <1>6
<1>7. CASE a - Len(s) \in DOMAIN g /\ d[a] = g[a - Len(s)] /\ b \in DOMAIN s /\ d[b] = s[b]
  BY <1>1, <1>7
<1>8. CASE a - Len(s) \in DOMAIN g /\ d[a] = g[a - Len(s)] /\ b - Len(s) \in DOMAIN g /\ d[b] = g[b - Len(s)]
  <2>1. a - Len(s) = b - Len(s) /\ k = m
    BY <1>8 DEF Distinct
  <2> QED BY <1>2, <1>4, <2>1
<1> QED BY <1>4, <1>5, <1>6, <1>7, <1>8


-----------------------------------------------------------------------------
(* Widgets and layouts                                                      *)

LEMMA NodeFields ==
  ASSUME NEW n \in Nodes
  PROVE  /\ n.id \in Ids /\ n.kind \in DOMAIN Size /\ n.disp \in Displays /\ n.page \in Nat /\ n.hid \in 0..MaxHid
         /\ n.x \in Nat /\ n.w \in Nat /\ n.els \in Seq(Elements) /\ n.text \in Texts \cup {"plain"}
         /\ n.w >= MinSize /\ n.x + n.w <= Canvas
BY DEF Nodes

\* A widget with a field changed.
LEMMA NodeWith ==
  ASSUME NEW n \in Nodes
  PROVE  /\ \A x \in Nat : x + n.w <= Canvas => [n EXCEPT !.x = x] \in Nodes
         /\ \A w \in Nat : w >= MinSize /\ n.x + w <= Canvas => [n EXCEPT !.w = w] \in Nodes
         /\ \A x, w \in Nat : w >= MinSize /\ x + w <= Canvas => [n EXCEPT !.w = w, !.x = x] \in Nodes
         /\ \A p \in Nat : [n EXCEPT !.page = p] \in Nodes
         /\ \A h \in 0..MaxHid : [n EXCEPT !.hid = h] \in Nodes
         /\ \A k \in DOMAIN Size : [n EXCEPT !.kind = k] \in Nodes
         /\ \A t \in Texts : [n EXCEPT !.text = t] \in Nodes
         /\ \A e \in Seq(Elements) : [n EXCEPT !.els = e] \in Nodes
         /\ \A i \in Ids : [n EXCEPT !.id = i] \in Nodes
<1> DEFINE Raw == [id : Ids, kind : DOMAIN Size, disp : Displays, page : Nat, hid : 0..MaxHid, x : Nat, w : Nat,
                   els : Seq(Elements), text : Texts \cup {"plain"}]
           Fits(r) == r.w >= MinSize /\ r.x + r.w <= Canvas
<1>0. Nodes = {r \in Raw : Fits(r)}
  BY Zenon DEF Nodes
<1>1. n \in Raw /\ Fits(n)
  BY <1>0, Zenon
<1>2. \A x \in Nat : x + n.w <= Canvas => [n EXCEPT !.x = x] \in Raw /\ Fits([n EXCEPT !.x = x])
  BY <1>1
<1>3. \A w \in Nat : w >= MinSize /\ n.x + w <= Canvas => [n EXCEPT !.w = w] \in Raw /\ Fits([n EXCEPT !.w = w])
  BY <1>1
<1>4. \A x, w \in Nat : w >= MinSize /\ x + w <= Canvas => [n EXCEPT !.w = w, !.x = x] \in Raw /\ Fits([n EXCEPT !.w = w, !.x = x])
  BY <1>1
<1>5. \A p \in Nat : [n EXCEPT !.page = p] \in Raw /\ Fits([n EXCEPT !.page = p])
  BY <1>1
<1>6. \A h \in 0..MaxHid : [n EXCEPT !.hid = h] \in Raw /\ Fits([n EXCEPT !.hid = h])
  BY <1>1
<1>7. \A k \in DOMAIN Size : [n EXCEPT !.kind = k] \in Raw /\ Fits([n EXCEPT !.kind = k])
  BY <1>1
<1>8. \A t \in Texts : [n EXCEPT !.text = t] \in Raw /\ Fits([n EXCEPT !.text = t])
  BY <1>1
<1>9. \A e \in Seq(Elements) : [n EXCEPT !.els = e] \in Raw /\ Fits([n EXCEPT !.els = e])
  BY <1>1
<1>10. \A i \in Ids : [n EXCEPT !.id = i] \in Raw /\ Fits([n EXCEPT !.id = i])
  BY <1>1
<1> HIDE DEF Raw, Fits
<1> QED BY <1>0, <1>2, <1>3, <1>4, <1>5, <1>6, <1>7, <1>8, <1>9, <1>10

\* A new widget.
LEMMA NewWidget ==
  ASSUME NEW id \in Ids, NEW k \in DOMAIN Size, NEW d \in Displays, NEW p \in Nat, NEW h \in 0..MaxHid,
         NEW x \in Nat, NEW w \in Nat, w >= MinSize, x + w <= Canvas
  PROVE  /\ Widget(id, k, d, p, h, x, w) \in Nodes
         /\ Widget(id, k, d, p, h, x, w).id = id /\ Widget(id, k, d, p, h, x, w).disp = d
         /\ Widget(id, k, d, p, h, x, w).page = p
         /\ Widget(id, k, d, p, h, x, w).els = <<>>
         /\ NumberAt(Widget(id, k, d, p, h, x, w), 0) = IF k = "button" THEN h ELSE 0
<1>1. <<>> \in Seq(Elements)
  OBVIOUS
<1>2. Widget(id, k, d, p, h, x, w) \in Nodes
  BY <1>1 DEF Widget, Nodes
<1> QED BY <1>2 DEF Widget, NumberAt

LEMMA AtIsThere ==
  ASSUME NEW S, NEW l, l.nodes \in Seq(S), NEW id \in IdSet(l)
  PROVE  /\ At(l, id) \in DOMAIN l.nodes /\ l.nodes[At(l, id)].id = id /\ At(l, id) \in Nat
         /\ \A j \in 1..(At(l, id) - 1) : l.nodes[j].id # id
<1> DEFINE T == {i \in DOMAIN l.nodes : l.nodes[i].id = id}
<1>1. Len(l.nodes) \in Nat /\ DOMAIN l.nodes = 1..Len(l.nodes)
  BY SeqFacts
<1>2. T \subseteq Nat /\ T # {}
  BY <1>1, SeqFacts DEF IdSet
<1>3. PICK i \in T : \A j \in T : i <= j
  <2> HIDE DEF T
  <2> QED BY <1>2, NatHasMin
<1>4. i \in DOMAIN l.nodes /\ l.nodes[i].id = id /\ \A j \in 1..(i - 1) : l.nodes[j].id # id
  <2>1. i \in Nat /\ i <= Len(l.nodes)
    BY <1>1
  <2>2. \A j \in 1..(i - 1) : j \in DOMAIN l.nodes /\ ~(i <= j)
    BY <1>1, <2>1
  <2> QED BY <1>3, <2>2
<1>5. /\ At(l, id) \in DOMAIN l.nodes /\ l.nodes[At(l, id)].id = id
      /\ \A j \in 1..(At(l, id) - 1) : l.nodes[j].id # id
  BY <1>4, Zenon DEF At
<1> QED BY <1>1, <1>5

LEMMA LayoutFields ==
  ASSUME NEW l \in Layouts
  PROVE  /\ l.nodes \in Seq(Nodes) /\ l.tabs \in [Displays -> 0..MaxTabs] /\ l.zone \in Ids
         /\ \A d \in Displays : l.tabs[d] \in Nat /\ l.tabs[d] <= MaxTabs
         /\ \A s \in Seq(Nodes) : [l EXCEPT !.nodes = s] \in Layouts /\ [l EXCEPT !.nodes = s].nodes = s
                                  /\ [l EXCEPT !.nodes = s].tabs = l.tabs /\ [l EXCEPT !.nodes = s].zone = l.zone
         /\ \A d \in Displays : \A t \in 0..MaxTabs :
              /\ [l EXCEPT !.tabs[d] = t] \in Layouts /\ [l EXCEPT !.tabs[d] = t].nodes = l.nodes
              /\ [l EXCEPT !.tabs[d] = t].tabs = [l.tabs EXCEPT ![d] = t]
<1>1. l.nodes \in Seq(Nodes) /\ l.tabs \in [Displays -> 0..MaxTabs] /\ l.zone \in Ids
  BY DEF Layouts
<1>2. \A d \in Displays : l.tabs[d] \in Nat /\ l.tabs[d] <= MaxTabs
  BY <1>1, EditorConstants
<1>3. \A s \in Seq(Nodes) : [l EXCEPT !.nodes = s] \in Layouts /\ [l EXCEPT !.nodes = s].nodes = s
                            /\ [l EXCEPT !.nodes = s].tabs = l.tabs /\ [l EXCEPT !.nodes = s].zone = l.zone
  BY DEF Layouts
<1>4. \A d \in Displays : \A t \in 0..MaxTabs :
        /\ [l EXCEPT !.tabs[d] = t] \in Layouts /\ [l EXCEPT !.tabs[d] = t].nodes = l.nodes
        /\ [l EXCEPT !.tabs[d] = t].tabs = [l.tabs EXCEPT ![d] = t]
  BY DEF Layouts
<1> QED BY <1>1, <1>2, <1>3, <1>4

\* The first of an id stays the first while the ids stay.
LEMMA SameAt ==
  ASSUME NEW l \in Layouts, NEW m \in Layouts, DOMAIN m.nodes = DOMAIN l.nodes,
         \A i \in DOMAIN l.nodes : m.nodes[i].id = l.nodes[i].id, NEW id \in IdSet(l)
  PROVE  id \in IdSet(m) /\ At(m, id) = At(l, id)
<1> l.nodes \in Seq(Nodes) /\ m.nodes \in Seq(Nodes)
  BY LayoutFields
<1>1. /\ At(l, id) \in DOMAIN l.nodes /\ l.nodes[At(l, id)].id = id /\ At(l, id) \in Nat
      /\ \A j \in 1..(At(l, id) - 1) : l.nodes[j].id # id
  BY AtIsThere
<1>2. id \in IdSet(m)
  BY <1>1 DEF IdSet, Range
<1>3. /\ At(m, id) \in DOMAIN m.nodes /\ m.nodes[At(m, id)].id = id /\ At(m, id) \in Nat
      /\ \A j \in 1..(At(m, id) - 1) : m.nodes[j].id # id
  BY <1>2, AtIsThere
<1>4. Len(l.nodes) \in Nat /\ DOMAIN l.nodes = 1..Len(l.nodes)
  BY SeqFacts
<1>5. ~(At(l, id) < At(m, id)) /\ ~(At(m, id) < At(l, id))
  <2> DEFINE a == At(l, id)  b == At(m, id)
  <2>1. /\ a \in 1..Len(l.nodes) /\ b \in 1..Len(l.nodes) /\ l.nodes[a].id = id /\ l.nodes[b].id = id
        /\ \A j \in 1..(a - 1) : l.nodes[j].id # id
        /\ \A j \in 1..(b - 1) : l.nodes[j].id # id
    <3>1. b \in DOMAIN l.nodes /\ l.nodes[b].id = id
      BY <1>3
    <3>2. \A j \in 1..(b - 1) : j \in DOMAIN l.nodes
      BY <1>4, <3>1
    <3> QED BY <1>1, <1>3, <1>4, <3>1, <3>2
  <2> HIDE DEF a, b
  <2>2. ~(a < b) /\ ~(b < a)
    <3>1. a < b => a \in 1..(b - 1)
      BY <2>1, <1>4
    <3>2. b < a => b \in 1..(a - 1)
      BY <2>1, <1>4
    <3> QED BY <2>1, <3>1, <3>2
  <2> QED BY <2>2 DEF a, b
<1> QED BY <1>1, <1>2, <1>3, <1>5

\* A layout with its i-th widget replaced.
Replaced(s, i, n)  == [s EXCEPT ![i] = n]
PutAt(l, i, n) == [l EXCEPT !.nodes[i] = n]

LEMMA PutWidget ==
  ASSUME NEW l \in Layouts, NEW i \in DOMAIN l.nodes, NEW n \in Nodes, n.id = l.nodes[i].id,
         NEW m, m = PutAt(l, i, n)
  PROVE  /\ m \in Layouts /\ m.nodes = Replaced(l.nodes, i, n) /\ m.tabs = l.tabs
         /\ DOMAIN m.nodes = DOMAIN l.nodes /\ (\A j \in DOMAIN l.nodes : m.nodes[j].id = l.nodes[j].id)
         /\ IdSet(m) = IdSet(l) /\ (UniqueIds(m) <=> UniqueIds(l))
         /\ \A x \in Range(m.nodes) : x = n \/ x \in Range(l.nodes)
         /\ Paged(l) /\ (n.page = 0 \/ n.page < l.tabs[n.disp]) => Paged(m)
<1> DEFINE s == [l.nodes EXCEPT ![i] = n]
<1>0. l.nodes \in Seq(Nodes)
  BY LayoutFields
<1>1. s \in Seq(Nodes) /\ DOMAIN s = DOMAIN l.nodes /\ s[i] = n /\ \A j \in DOMAIN s : j # i => s[j] = l.nodes[j]
  BY <1>0
<1>2. m = [l EXCEPT !.nodes = s]
  BY DEF Layouts, PutAt
<1> HIDE DEF s
<1>3. m \in Layouts /\ m.nodes = s /\ m.tabs = l.tabs
  BY <1>1, <1>2, LayoutFields
<1>4. \A j \in DOMAIN s : s[j].id = l.nodes[j].id
  BY <1>1
<1>5. IdSet(m) = IdSet(l)
  BY <1>1, <1>3, <1>4 DEF IdSet, Range
<1>6. UniqueIds(m) <=> UniqueIds(l)
  BY <1>1, <1>3, <1>4 DEF UniqueIds
<1>7. \A x \in Range(m.nodes) : x = n \/ x \in Range(l.nodes)
  BY <1>1, <1>3 DEF Range
<1>8. Paged(l) /\ (n.page = 0 \/ n.page < l.tabs[n.disp]) => Paged(m)
  BY <1>3, <1>7 DEF Paged
<1>9. m.nodes = Replaced(l.nodes, i, n)
  BY <1>3 DEF s, Replaced
<1> QED BY <1>1, <1>3, <1>4, <1>5, <1>6, <1>7, <1>8, <1>9

\* Of o's numbers n has some, each once.
NumbersOf(n, o) ==
  \A k, m \in 0..Len(n.els) :
    NumberAt(n, k) # 0 /\ NumberAt(n, m) # 0 =>
      \E i, j \in 0..Len(o.els) : NumberAt(n, k) = NumberAt(o, i) /\ NumberAt(n, m) = NumberAt(o, j) /\ (i = j => k = m)

LEMMA PutDistinct ==
  ASSUME NEW l \in Layouts, Distinct(l.nodes), NEW i \in DOMAIN l.nodes, NEW n, NumbersOf(n, l.nodes[i])
  PROVE  Distinct(Replaced(l.nodes, i, n))
<1>1. l.nodes \in Seq(Nodes)
  BY LayoutFields
<1>2. \A k, m \in 0..Len(n.els) : NumberAt(n, k) = NumberAt(n, m) => NumberAt(n, k) = 0 \/ k = m
  <2> SUFFICES ASSUME NEW k \in 0..Len(n.els), NEW m \in 0..Len(n.els), NumberAt(n, k) = NumberAt(n, m), NumberAt(n, k) # 0
               PROVE  k = m
    OBVIOUS
  <2>1. PICK a \in 0..Len(l.nodes[i].els), b \in 0..Len(l.nodes[i].els) :
          NumberAt(n, k) = NumberAt(l.nodes[i], a) /\ NumberAt(n, m) = NumberAt(l.nodes[i], b) /\ (a = b => k = m)
    BY DEF NumbersOf
  <2>2. a = b
    BY <2>1 DEF Distinct
  <2> QED BY <2>1, <2>2
<1>3. \A k \in 0..Len(n.els) : NumberAt(n, k) \in Hids(l.nodes[i]) \/ NumberAt(n, k) \notin Taken(l) \/ NumberAt(n, k) = 0
  BY DEF NumbersOf, Hids
<1> QED BY <1>1, <1>2, <1>3, ReplacedDistinct DEF Replaced

-----------------------------------------------------------------------------
(* Elements of a widget                                                     *)

LEMMA RemovedAt ==
  ASSUME NEW S, NEW s \in Seq(S), NEW n \in Nat, Len(s) = n, NEW k \in 1..n
  PROVE  /\ RemoveAt(s, k) \in Seq(S) /\ Len(RemoveAt(s, k)) = n - 1
         /\ \A j \in 1..n-1 : RemoveAt(s, k)[j] = IF j < k THEN s[j] ELSE s[j+1]
<1> DEFINE a == SubSeq(s, 1, k - 1)
           b == SubSeq(s, k + 1, n)
<1>1. a \in Seq(S) /\ Len(a) = k - 1 /\ \A j \in 1..k-1 : a[j] = s[j]
  OBVIOUS
<1>2. b \in Seq(S) /\ Len(b) = n - k /\ \A j \in 1..n-k : b[j] = s[k + j]
  OBVIOUS
<1>3. RemoveAt(s, k) = a \o b
  BY DEF RemoveAt
<1> HIDE DEF a, b
<1>4. a \o b \in Seq(S) /\ Len(a \o b) = n - 1
  <2>1. a \o b \in Seq(S) /\ Len(a \o b) = Len(a) + Len(b)
    BY <1>1, <1>2, ConcatProperties
  <2> QED BY <1>1, <1>2, <2>1
<1>5. ASSUME NEW j \in 1..n-1
      PROVE  (a \o b)[j] = IF j < k THEN s[j] ELSE s[j+1]
  <2>1. (a \o b)[j] = IF j <= k - 1 THEN a[j] ELSE b[j - (k - 1)]
    BY <1>1, <1>2
  <2>2. CASE j < k
    BY <1>1, <2>1, <2>2
  <2>3. CASE ~(j < k)
    <3>1. j - (k - 1) \in 1..n-k /\ k + (j - (k - 1)) = j + 1
      BY <2>3
    <3>2. b[j - (k - 1)] = s[j + 1]
      BY <1>2, <3>1
    <3> QED BY <2>1, <2>3, <3>2
  <2> QED BY <2>2, <2>3
<1> QED BY <1>3, <1>4, <1>5

LEMMA RemovedPicks ==
  ASSUME NEW S, NEW s \in Seq(S), NEW i \in DOMAIN s
  PROVE  RemoveAt(s, i) \in Seq(S) /\ PickedFrom(RemoveAt(s, i), s)
<1> DEFINE n == Len(s)
           d == RemoveAt(s, i)
<1>1. n \in Nat /\ DOMAIN s = 1..n /\ i \in 1..n
  BY SeqFacts
<1>2. /\ d \in Seq(S) /\ Len(d) = n - 1
      /\ \A j \in 1..n-1 : d[j] = IF j < i THEN s[j] ELSE s[j+1]
  BY <1>1, RemovedAt
<1> HIDE DEF d
<1>3. DOMAIN d = 1..n-1
  BY <1>2
<1>4. \A j \in 1..n-1 : (j < i /\ j \in 1..n /\ d[j] = s[j]) \/ (~(j < i) /\ j + 1 \in 1..n /\ d[j] = s[j+1])
  BY <1>1, <1>2
<1>5. PickedFrom(d, s)
  <2> SUFFICES ASSUME NEW a \in DOMAIN d, NEW b \in DOMAIN d
               PROVE  \E x, y \in DOMAIN s : d[a] = s[x] /\ d[b] = s[y] /\ (x = y => a = b)
    BY Zenon DEF PickedFrom
  <2> DEFINE f(j) == IF j < i THEN j ELSE j + 1
  <2>0. a \in 1..n-1 /\ b \in 1..n-1
    BY <1>3
  <2>1. d[a] = s[f(a)] /\ d[b] = s[f(b)] /\ f(a) \in DOMAIN s /\ f(b) \in DOMAIN s
    BY <1>1, <1>4, <2>0
  <2>2. f(a) = f(b) => a = b
    BY <1>1, <2>0
  <2> QED BY <2>1, <2>2
<1> QED BY <1>2, <1>5 DEF d

\* An element that presses a button.
Presses(e) == e.kind = "button" /\ e.hid # 0

ElsFrom(d, s) ==
  \A a, b \in DOMAIN d : Presses(d[a]) /\ Presses(d[b]) =>
    \E i, j \in DOMAIN s : d[a] = s[i] /\ d[b] = s[j] /\ (i = j => a = b)

LEMMA ElsNumbers ==
  ASSUME NEW o \in Nodes, NEW e \in Seq(Elements), ElsFrom(e, o.els), NEW n, n = [o EXCEPT !.els = e]
  PROVE  n \in Nodes /\ n.id = o.id /\ n.disp = o.disp /\ n.page = o.page /\ NumbersOf(n, o)
<1>1. n \in Nodes /\ n.id = o.id /\ n.disp = o.disp /\ n.page = o.page /\ n.els = e /\ n.kind = o.kind /\ n.hid = o.hid
  BY NodeWith DEF Nodes
<1>2. o.els \in Seq(Elements)
  BY NodeFields
<1>3. Len(e) \in Nat /\ DOMAIN e = 1..Len(e) /\ Len(o.els) \in Nat /\ DOMAIN o.els = 1..Len(o.els)
  BY <1>2
<1>4. NumberAt(n, 0) = NumberAt(o, 0)
  BY <1>1 DEF NumberAt
<1>5. \A k \in 1..Len(e) : NumberAt(n, k) = IF e[k].kind = "button" THEN e[k].hid ELSE 0
  BY <1>1 DEF NumberAt
<1>6. \A k \in 1..Len(o.els) : NumberAt(o, k) = IF o.els[k].kind = "button" THEN o.els[k].hid ELSE 0
  BY DEF NumberAt
<1> SUFFICES ASSUME NEW k \in 0..Len(n.els), NEW m \in 0..Len(n.els), NumberAt(n, k) # 0, NumberAt(n, m) # 0
             PROVE  \E i, j \in 0..Len(o.els) : NumberAt(n, k) = NumberAt(o, i) /\ NumberAt(n, m) = NumberAt(o, j) /\ (i = j => k = m)
  <2>1. NumbersOf(n, o)
    BY DEF NumbersOf
  <2> QED BY <1>1, <2>1
<1>7. ASSUME NEW p \in 1..Len(e), NumberAt(n, p) # 0, NEW q \in 1..Len(e), NumberAt(n, q) # 0
      PROVE  \E i, j \in 1..Len(o.els) : NumberAt(n, p) = NumberAt(o, i) /\ NumberAt(n, q) = NumberAt(o, j) /\ (i = j => p = q)
  <2>1. Presses(e[p]) /\ Presses(e[q])
    BY <1>5, <1>7 DEF Presses
  <2>2. PICK i \in DOMAIN o.els, j \in DOMAIN o.els : e[p] = o.els[i] /\ e[q] = o.els[j] /\ (i = j => p = q)
    <3>1. p \in DOMAIN e /\ q \in DOMAIN e
      BY <1>3
    <3>2. \A a, b \in DOMAIN e : Presses(e[a]) /\ Presses(e[b]) =>
            \E x, y \in DOMAIN o.els : e[a] = o.els[x] /\ e[b] = o.els[y] /\ (x = y => a = b)
      BY Zenon DEF ElsFrom
    <3> QED BY <2>1, <3>1, <3>2, ZenonT(30)
  <2>3. i \in 1..Len(o.els) /\ j \in 1..Len(o.els)
    BY <1>3, <2>2
  <2>4. NumberAt(n, p) = NumberAt(o, i)
    BY <1>5, <1>6, <2>2, <2>3
  <2>5. NumberAt(n, q) = NumberAt(o, j)
    BY <1>5, <1>6, <2>2, <2>3
  <2> QED BY <2>2, <2>3, <2>4, <2>5, Zenon
<1>8. k \in 1..Len(e) \/ k = 0
  BY <1>1, <1>3
<1>9. m \in 1..Len(e) \/ m = 0
  BY <1>1, <1>3
<1>10. 1..Len(o.els) \subseteq 0..Len(o.els) /\ 0 \in 0..Len(o.els) /\ \A i \in 1..Len(o.els) : i # 0
  BY <1>3
<1>11. CASE k = 0 /\ m = 0
  BY <1>4, <1>10, <1>11
<1>12. CASE k = 0 /\ m \in 1..Len(e)
  <2>1. PICK j \in 1..Len(o.els) : NumberAt(n, m) = NumberAt(o, j)
    BY <1>7, <1>12
  <2>2. j \in 0..Len(o.els) /\ 0 \in 0..Len(o.els) /\ j # 0
    BY <1>10
  <2> QED BY <1>4, <1>12, <2>1, <2>2, Zenon
<1>13. CASE k \in 1..Len(e) /\ m = 0
  <2>1. PICK j \in 1..Len(o.els) : NumberAt(n, k) = NumberAt(o, j)
    BY <1>7, <1>13
  <2>2. j \in 0..Len(o.els) /\ 0 \in 0..Len(o.els) /\ j # 0
    BY <1>10
  <2> QED BY <1>4, <1>13, <2>1, <2>2, Zenon
<1>14. CASE k \in 1..Len(e) /\ m \in 1..Len(e)
  <2>1. PICK i \in 1..Len(o.els), j \in 1..Len(o.els) :
          NumberAt(n, k) = NumberAt(o, i) /\ NumberAt(n, m) = NumberAt(o, j) /\ (i = j => k = m)
    BY <1>7, <1>14
  <2> QED BY <1>10, <2>1, Zenon
<1> QED BY <1>8, <1>9, <1>11, <1>12, <1>13, <1>14

\* An element removed, added, moved.
LEMMA ElsEdits ==
  ASSUME NEW s \in Seq(Elements)
  PROVE  /\ \A i \in DOMAIN s : RemoveAt(s, i) \in Seq(Elements) /\ ElsFrom(RemoveAt(s, i), s)
         /\ \A e \in Elements : ~Presses(e) => Append(s, e) \in Seq(Elements) /\ ElsFrom(Append(s, e), s)
         /\ \A i, j \in DOMAIN s : /\ [s EXCEPT ![i] = s[j], ![j] = s[i]] \in Seq(Elements)
                                   /\ ElsFrom([s EXCEPT ![i] = s[j], ![j] = s[i]], s)
         /\ <<>> \in Seq(Elements) /\ ElsFrom(<<>>, s)
<1>0. Len(s) \in Nat /\ DOMAIN s = 1..Len(s)
  OBVIOUS
<1>1. ASSUME NEW i \in DOMAIN s PROVE RemoveAt(s, i) \in Seq(Elements) /\ ElsFrom(RemoveAt(s, i), s)
  BY RemovedPicks DEF PickedFrom, ElsFrom
<1>2. ASSUME NEW e \in Elements, ~Presses(e)
      PROVE  Append(s, e) \in Seq(Elements) /\ ElsFrom(Append(s, e), s)
  <2> DEFINE d == Append(s, e)
  <2>1. d \in Seq(Elements) /\ DOMAIN d = 1..(Len(s) + 1) /\ d[Len(s) + 1] = e /\ \A j \in 1..Len(s) : d[j] = s[j]
    OBVIOUS
  <2> HIDE DEF d
  <2>2. \A a \in DOMAIN d : Presses(d[a]) => a \in DOMAIN s /\ d[a] = s[a]
    <3>1. \A a \in DOMAIN d : a = Len(s) + 1 \/ a \in 1..Len(s)
      BY <1>0, <2>1
    <3> QED BY <1>0, <1>2, <2>1, <3>1
  <2>3. ElsFrom(d, s)
    BY <2>2 DEF ElsFrom
  <2> QED BY <2>1, <2>3 DEF d
<1>3. ASSUME NEW i \in DOMAIN s, NEW j \in DOMAIN s
      PROVE  [s EXCEPT ![i] = s[j], ![j] = s[i]] \in Seq(Elements) /\ ElsFrom([s EXCEPT ![i] = s[j], ![j] = s[i]], s)
  <2> DEFINE d == [s EXCEPT ![i] = s[j], ![j] = s[i]]
             f(a) == IF a = j THEN i ELSE IF a = i THEN j ELSE a
  <2>1. d \in Seq(Elements) /\ DOMAIN d = DOMAIN s
    OBVIOUS
  <2>2. \A a \in DOMAIN s : f(a) \in DOMAIN s /\ d[a] = s[f(a)]
    OBVIOUS
  <2>3. \A a, b \in DOMAIN s : f(a) = f(b) => a = b
    OBVIOUS
  <2> HIDE DEF d, f
  <2>4. ElsFrom(d, s)
    BY <2>1, <2>2, <2>3 DEF ElsFrom
  <2> QED BY <2>1, <2>4 DEF d
<1>4. <<>> \in Seq(Elements) /\ ElsFrom(<<>>, s)
  BY DEF ElsFrom
<1> QED BY <1>1, <1>2, <1>3, <1>4

LEMMA DefaultElsAreFree ==
  ASSUME NEW o \in Nodes, NEW s
  PROVE  DefaultEls(o) \in Seq(Elements) /\ ElsFrom(DefaultEls(o), s)
<1>1. {"label", "value"} \subseteq Kinds /\ o.kind \in Kinds /\ 0 \in 0..MaxHid
  BY NodeFields, EditorConstants DEF Kinds
<1>2. Elem("label") \in Elements /\ Elem("value") \in Elements /\ Elem(o.kind) \in Elements
  BY <1>1 DEF Elem, Elements
<1>3. DefaultEls(o) \in Seq(Elements)
  BY <1>2 DEF DefaultEls
<1>4. \A a \in DOMAIN DefaultEls(o) : DefaultEls(o)[a].hid = 0
  <2>1. CASE o.kind = "stat"
    <3>1. DefaultEls(o) = <<Elem("label"), Elem("value")>>
      BY <2>1 DEF DefaultEls
    <3>2. DOMAIN <<Elem("label"), Elem("value")>> = 1..2
      OBVIOUS
    <3> QED BY <3>1, <3>2 DEF Elem
  <2>2. CASE o.kind # "stat"
    <3>1. DefaultEls(o) = <<Elem(o.kind)>>
      BY <2>2 DEF DefaultEls
    <3>2. DOMAIN <<Elem(o.kind)>> = 1..1
      OBVIOUS
    <3> QED BY <3>1, <3>2 DEF Elem
  <2> QED BY <2>1, <2>2
<1> QED BY <1>3, <1>4 DEF ElsFrom, Presses

-----------------------------------------------------------------------------
(* Free joystick numbers, and places on the canvas                          *)

LEMMA FreeHidIsFree ==
  ASSUME NEW l
  PROVE  \A i \in Nat \ {0} :
           /\ FreeHid(l, i) \in 0..MaxHid /\ (FreeHid(l, i) = 0 \/ FreeHid(l, i) \notin Taken(l))
           /\ \A j \in Nat \ {0} : FreeHid(l, i) = FreeHid(l, j) => FreeHid(l, i) = 0 \/ i = j
<1> DEFINE K == FreeHids(l)
<1>1. K \in SUBSET (1..MaxHid) /\ (\A h \in K : h \notin Taken(l)) /\ MaxHid \in Nat
  BY EditorConstants DEF FreeHids
<1>2. Cardinality(K) \in Nat
  <2> HIDE DEF K
  <2>1. IsFiniteSet(1..MaxHid)
    BY <1>1, FS_Interval
  <2>2. IsFiniteSet(K)
    BY <1>1, <2>1, FS_Subset
  <2> QED BY <2>2, FS_CardinalityType
<1> DEFINE c == Cardinality(K)
<1>3. ASSUME NEW i \in 1..c PROVE Nth(K, i) \in K /\ Cardinality({j \in K : j <= Nth(K, i)}) = i
  <2> HIDE DEF K
  <2> QED BY <1>1, NthIsThere
<1>4. \A i \in Nat \ {0} : FreeHid(l, i) = IF i <= c THEN Nth(K, i) ELSE 0
  BY Zenon DEF FreeHid
<1> HIDE DEF K, c
<1>5. \A i \in Nat \ {0} : i <= c => i \in 1..c
  BY <1>2 DEF c
<1> SUFFICES ASSUME NEW i \in Nat \ {0}
             PROVE  /\ FreeHid(l, i) \in 0..MaxHid /\ (FreeHid(l, i) = 0 \/ FreeHid(l, i) \notin Taken(l))
                    /\ \A j \in Nat \ {0} : FreeHid(l, i) = FreeHid(l, j) => FreeHid(l, i) = 0 \/ i = j
  OBVIOUS
<1>6. FreeHid(l, i) = 0 \/ (i \in 1..c /\ FreeHid(l, i) = Nth(K, i))
  BY <1>4, <1>5
<1>7. FreeHid(l, i) \in 0..MaxHid /\ (FreeHid(l, i) = 0 \/ FreeHid(l, i) \notin Taken(l))
  <2>1. CASE FreeHid(l, i) = 0
    BY <1>1, <2>1
  <2>2. CASE i \in 1..c /\ FreeHid(l, i) = Nth(K, i)
    <3>1. FreeHid(l, i) \in K
      BY <1>3, <2>2
    <3>2. FreeHid(l, i) \in 1..MaxHid
      BY <1>1, <3>1
    <3>3. FreeHid(l, i) \notin Taken(l)
      BY <1>1, <3>1, Zenon
    <3> QED BY <1>1, <3>2, <3>3
  <2> QED BY <1>6, <2>1, <2>2
<1>8. ASSUME NEW j \in Nat \ {0}, FreeHid(l, i) = FreeHid(l, j), FreeHid(l, i) # 0 PROVE i = j
  <2>1. j \in 1..c /\ FreeHid(l, j) = Nth(K, j)
    BY <1>4, <1>5, <1>8
  <2>2. i \in 1..c /\ Nth(K, i) = Nth(K, j)
    BY <1>6, <1>8, <2>1
  <2> QED BY <1>3, <2>1, <2>2
<1> QED BY <1>7, <1>8

\* The edges of the screen are guides, so that what snaps stays on it.
LEMMA SnapStays ==
  ASSUME NEW others, others \subseteq Nodes, NEW x \in Nat, NEW w \in Nat, x + w <= Canvas, NEW y \in Snapped(x, w, others)
  PROVE  y \in Nat /\ y + w <= Canvas
<1> DEFINE G == Guides(others)
           moves == {g - e : g \in G, e \in {x, x + w \div 2, x + w}}
           nearest == {m \in moves : \A o \in moves : Dist(m, 0) <= Dist(o, 0)}
<1>1. y = x \/ \E m \in nearest : y = x + m
  BY DEF Snapped
<1>2. Canvas \in Nat
  BY EditorConstants
<1>3. G \subseteq Int /\ 0 \in G /\ Canvas \in G
  <2>1. \A n \in others : n.x \in Nat /\ n.w \in Nat
    BY NodeFields
  <2>2. \A n \in others : n.w \div 2 \in Int
    BY <2>1, HalfOf
  <2>3. Canvas \div 2 \in Int
    BY <1>2, HalfOf
  <2>4. UNION {{n.x, n.x + n.w \div 2, n.x + n.w} : n \in others} \subseteq Int
    BY <2>1, <2>2
  <2> QED BY <1>2, <2>3, <2>4 DEF Guides
<1> HIDE DEF G
<1>4. 0 - x \in moves /\ Canvas - (x + w) \in moves
  BY <1>3
<1>5. moves \subseteq Int
  <2>1. w \div 2 \in Int
    BY HalfOf
  <2>2. {x, x + w \div 2, x + w} \subseteq Int
    BY <2>1
  <2> DEFINE E == {x, x + w \div 2, x + w}
  <2>3. \A g \in G, e \in E : g - e \in Int
    <3> HIDE DEF E
    <3>1. E \subseteq Int
      BY <2>2 DEF E
    <3> QED BY <1>3, <3>1
  <2>4. moves = {g - e : g \in G, e \in E}
    OBVIOUS
  <2> HIDE DEF E, moves
  <2> QED BY <2>3, <2>4
<1> HIDE DEF moves
<1>6. ASSUME NEW m \in nearest PROVE m \in Int /\ 0 <= x + m /\ x + m + w <= Canvas
  <2>1. m \in Int /\ Dist(m, 0) <= Dist(0 - x, 0) /\ Dist(m, 0) <= Dist(Canvas - (x + w), 0)
    BY <1>4, <1>5
  <2> QED BY <1>2, <2>1 DEF Dist
<1> QED BY <1>1, <1>6

-----------------------------------------------------------------------------
(* What every edit keeps                                                    *)

EditView(v) ==
  /\ DOMAIN v = {"disp", "tab", "sel", "elem", "drag"}
  /\ v.disp \in Displays /\ v.tab \in Nat /\ v.elem \in Nat /\ v.drag = NoDrag

ViewFits(l, v) ==
  /\ v.tab = 0 \/ v.tab < l.tabs[v.disp]
  /\ \A n \in Range(l.nodes) : n.id = v.sel => n.disp = v.disp

LEMMA NobodyIsNoSel ==
  ASSUME NEW l \in Layouts
  PROVE  NoSel \notin IdSet(l) /\ \A n \in Range(l.nodes) : n.id # NoSel /\ n.id \in IdSet(l)
<1>1. \A n \in Range(l.nodes) : n \in Nodes
  BY LayoutFields, SeqFacts
<1>2. \A n \in Range(l.nodes) : n.id \in Ids
  BY <1>1, NodeFields
<1> QED BY <1>2, IdAssumption DEF IdSet

\* The widgets that are selected stay on the display that is edited.
LEMMA SeenFits ==
  ASSUME NEW l \in Layouts, NEW v, EditView(v)
  PROVE  /\ EditView(Seen(l, v)) /\ Seen(l, v).sel \in IdSet(l) \cup {NoSel}
         /\ Seen(l, v).disp = v.disp /\ Seen(l, v).tab = v.tab
         /\ ViewFits(l, v) => ViewFits(l, Seen(l, v))
<1>1. CASE v.sel \in IdSet(l)
  BY <1>1 DEF Seen
<1>2. CASE v.sel \notin IdSet(l)
  <2>1. Seen(l, v) = [v EXCEPT !.sel = NoSel]
    BY <1>2 DEF Seen
  <2> DEFINE u == [v EXCEPT !.sel = NoSel]
  <2>2. EditView(u) /\ u.sel = NoSel /\ u.disp = v.disp /\ u.tab = v.tab
    BY DEF EditView
  <2> HIDE DEF u
  <2>3. ViewFits(l, v) => ViewFits(l, u)
    BY <2>2, NobodyIsNoSel DEF ViewFits
  <2> QED BY <2>1, <2>2, <2>3 DEF u
<1> QED BY <1>1, <1>2

LEMMA FineMonotone ==
  ASSUME NEW l, NEW r \in BOOLEAN, NEW s \in BOOLEAN, r => s, Fine(l, r)
  PROVE  Fine(l, s)
BY DEF Fine

LEMMA PresetsKept ==
  ASSUME PresetInv, UNCHANGED <<presets, active>>, uid' \in Nat, dirty' \in BOOLEAN,
         foreign' \in BOOLEAN, rekinded' \in BOOLEAN, rekinded => rekinded'
  PROVE  PresetInv'
BY DEF PresetInv

LEMMA EditStep ==
  ASSUME EditorInv, NEW l, NEW v, Edit(l, v), Fine(l, rekinded'), EditView(v),
         ~foreign /\ UniqueIds(l) => Paged(l) /\ ViewFits(l, v),
         uid' \in Nat, rekinded' \in BOOLEAN, rekinded => rekinded'
  PROVE  EditorInv'
<1>1. /\ lay' = l /\ view' = Seen(l, v) /\ dirty' = TRUE /\ file' = Snapshot(l)
      /\ foreign' = (foreign \/ ~UniqueIds(l)) /\ UNCHANGED <<presets, active, pfile>>
  BY DEF Edit, MarkDirty
<1>2. foreign \in BOOLEAN /\ foreign' \in BOOLEAN /\ (~foreign' => ~foreign /\ UniqueIds(l))
  BY <1>1 DEF EditorInv, PresetInv
<1>3. l \in Layouts
  BY DEF Fine
<1>4. ~foreign' => Ordered(l) /\ ViewFits(l, v)
  BY <1>2 DEF Ordered
<1>5. LayInv'
  BY <1>1, <1>4 DEF LayInv
<1>6. /\ EditView(view') /\ view'.sel \in IdSet(l) \cup {NoSel} /\ (ViewFits(l, v) => ViewFits(l, view'))
  BY <1>1, <1>3, SeenFits
<1>7. GestureInv'
  BY <1>6 DEF GestureInv, EditView
<1>8. ViewInv'
  BY <1>1, <1>4, <1>6 DEF ViewInv, EditView, ViewFits
<1>9. PresetInv'
  BY <1>1, <1>2, PresetsKept DEF EditorInv
<1>10. FileInv'
  <2>1. file'.there = TRUE /\ file'.lay = l
    BY <1>1 DEF Snapshot
  <2> QED BY <1>1, <1>4, <2>1 DEF EditorInv, FileInv
<1> QED BY <1>5, <1>7, <1>8, <1>9, <1>10 DEF EditorInv

\* The view changes alone.
LEMMA ViewStep ==
  ASSUME EditorInv, NEW v, View(v), EditView(v), v.sel \in IdSet(lay) \cup {NoSel}, ~foreign => ViewFits(lay, v)
  PROVE  EditorInv'
<1>1. view' = v /\ UNCHANGED <<lay, presets, active, uid, dirty, file, pfile, foreign, rekinded>>
  BY DEF View
<1>2. LayInv' /\ PresetInv' /\ FileInv'
  BY <1>1 DEF EditorInv, LayInv, PresetInv, FileInv
<1>3. GestureInv'
  BY <1>1 DEF GestureInv, EditView
<1>4. ViewInv'
  BY <1>1 DEF ViewInv, EditView, ViewFits
<1> QED BY <1>2, <1>3, <1>4 DEF EditorInv

\* What is known before an edit.
LEMMA BeforeEdit ==
  ASSUME EditorInv, view.drag = NoDrag
  PROVE  /\ lay \in Layouts /\ Fine(lay, rekinded) /\ EditView(view) /\ view.sel \in IdSet(lay) \cup {NoSel}
         /\ ~foreign => UniqueIds(lay) /\ Paged(lay) /\ ViewFits(lay, view)
         /\ uid \in Nat /\ rekinded \in BOOLEAN /\ foreign \in BOOLEAN
BY DEF EditorInv, LayInv, ViewInv, PresetInv, Fine, Ordered, EditView, ViewFits

LEMMA PickedIsThere ==
  ASSUME EditorInv, Selected
  PROVE  /\ lay \in Layouts /\ At(lay, view.sel) \in DOMAIN lay.nodes /\ Picked = lay.nodes[At(lay, view.sel)]
         /\ Picked \in Nodes /\ Picked.id = view.sel /\ Picked \in Range(lay.nodes)
         /\ ~foreign => Picked.disp = view.disp /\ (Picked.page = 0 \/ Picked.page < lay.tabs[Picked.disp])
<1>1. lay \in Layouts /\ lay.nodes \in Seq(Nodes)
  BY LayoutFields DEF EditorInv, LayInv, Fine
<1>2. /\ At(lay, view.sel) \in DOMAIN lay.nodes /\ lay.nodes[At(lay, view.sel)].id = view.sel
  BY <1>1, AtIsThere DEF Selected
<1>3. Picked = lay.nodes[At(lay, view.sel)]
  BY DEF Picked
<1>4. Picked \in Nodes /\ Picked \in Range(lay.nodes)
  BY <1>1, <1>2, <1>3, SeqFacts
<1>5. ~foreign => Picked.disp = view.disp /\ (Picked.page = 0 \/ Picked.page < lay.tabs[Picked.disp])
  BY <1>2, <1>3, <1>4 DEF EditorInv, LayInv, ViewInv, Ordered, Paged
<1> QED BY <1>1, <1>2, <1>3, <1>4, <1>5

\* The selected widget is replaced.
LEMMA SelectedStep ==
  ASSUME EditorInv, view.drag = NoDrag, NEW n, NEW v, Edit(WithSelected(n), v), EditView(v),
         v.disp = view.disp, v.tab = view.tab, v.sel = view.sel,
         uid' = uid, rekinded' \in BOOLEAN, rekinded => rekinded',
         Selected => n \in Nodes /\ n.id = Picked.id /\ n.disp = Picked.disp,
         Selected /\ ~rekinded' => Distinct(Replaced(lay.nodes, At(lay, view.sel), n)),
         Selected /\ ~foreign => n.page = 0 \/ n.page < lay.tabs[n.disp]
  PROVE  EditorInv'
<1>1. /\ lay \in Layouts /\ Fine(lay, rekinded) /\ uid \in Nat /\ rekinded \in BOOLEAN
      /\ ~foreign => UniqueIds(lay) /\ Paged(lay) /\ ViewFits(lay, view)
  BY BeforeEdit
<1> DEFINE l == WithSelected(n)
<1>2. CASE ~Selected
  <2>1. l = lay
    BY <1>2 DEF WithSelected
  <2>2. Fine(lay, rekinded')
    BY <1>1, FineMonotone
  <2>3. ~foreign => ViewFits(lay, v)
    BY <1>1 DEF ViewFits
  <2> HIDE DEF l
  <2>4. Edit(lay, v)
    BY <2>1 DEF l
  <2> QED BY <1>1, <2>2, <2>3, <2>4, EditStep
<1>3. CASE Selected
  <2> DEFINE i == At(lay, view.sel)
  <2>1. i \in DOMAIN lay.nodes /\ lay.nodes[i] = Picked /\ Picked.id = view.sel /\ (~foreign => Picked.disp = view.disp)
    BY <1>3, PickedIsThere
  <2>2. l = PutAt(lay, i, n)
    BY <1>3, Zenon DEF WithSelected, PutAt
  <2>3. n \in Nodes /\ n.id = lay.nodes[i].id
    BY <1>3, <2>1
  <2>a. lay \in Layouts
    BY <1>1
  <2> HIDE DEF l, i
  <2>4. /\ l \in Layouts /\ l.nodes = Replaced(lay.nodes, i, n) /\ l.tabs = lay.tabs
        /\ (UniqueIds(l) <=> UniqueIds(lay))
        /\ \A x \in Range(l.nodes) : x = n \/ x \in Range(lay.nodes)
        /\ Paged(lay) /\ (n.page = 0 \/ n.page < lay.tabs[n.disp]) => Paged(l)
    BY <2>1, <2>2, <2>3, <2>a, PutWidget
  <2>5. Fine(l, rekinded')
    BY <1>3, <2>4 DEF Fine, i
  <2>6. ~foreign /\ UniqueIds(l) => Paged(l) /\ ViewFits(l, v)
    <3> SUFFICES ASSUME ~foreign, UniqueIds(l) PROVE Paged(l) /\ ViewFits(l, v)
      OBVIOUS
    <3>1. Paged(l)
      BY <1>1, <1>3, <2>4
    <3>2. n.disp = view.disp
      BY <1>3, <2>1
    <3>3. v.tab = 0 \/ v.tab < l.tabs[v.disp]
      BY <1>1, <2>4 DEF ViewFits
    <3>4. \A x \in Range(l.nodes) : x.id = v.sel => x.disp = v.disp
      BY <1>1, <2>4, <3>2 DEF ViewFits
    <3> QED BY <3>1, <3>3, <3>4 DEF ViewFits
  <2>7. Edit(l, v)
    BY DEF l
  <2> QED BY <1>1, <2>5, <2>6, <2>7, EditStep
<1> QED BY <1>2, <1>3

-----------------------------------------------------------------------------
(* Edits of the selected widget                                             *)

LEMMA SameIsDistinct ==
  ASSUME EditorInv, Selected, ~rekinded, NEW n, SameNumbers(n, Picked)
  PROVE  Distinct(Replaced(lay.nodes, At(lay, view.sel), n))
<1> DEFINE i == At(lay, view.sel)
<1>1. lay \in Layouts /\ i \in DOMAIN lay.nodes /\ Picked = lay.nodes[i]
  BY PickedIsThere
<1>2. Distinct(lay.nodes)
  BY DEF EditorInv, LayInv, Fine
<1>3. lay.nodes \in Seq(Nodes)
  BY <1>1, LayoutFields
<1> DEFINE d == Replaced(lay.nodes, i, n)
<1> HIDE DEF i
<1>4. DOMAIN d = DOMAIN lay.nodes /\ \A j \in DOMAIN lay.nodes : SameNumbers(d[j], lay.nodes[j])
  BY <1>1, <1>3 DEF Replaced, SameNumbers
<1> HIDE DEF d
<1>5. Distinct(d)
  BY <1>2, <1>4, RenumberedDistinct
<1> QED BY <1>5 DEF d, i

LEMMA PlainStep ==
  ASSUME EditorInv, view.drag = NoDrag, NEW n, Edit(WithSelected(n), view), Plainly,
         Selected => n \in Nodes /\ n.id = Picked.id /\ n.disp = Picked.disp /\ SameNumbers(n, Picked),
         Selected /\ ~foreign => n.page = 0 \/ n.page < lay.tabs[n.disp]
  PROVE  EditorInv'
<1>1. EditView(view) /\ uid' = uid /\ rekinded' = rekinded /\ rekinded \in BOOLEAN
  BY BeforeEdit DEF Plainly
<1>2. Selected /\ ~rekinded' => Distinct(Replaced(lay.nodes, At(lay, view.sel), n))
  BY <1>1, SameIsDistinct
<1> QED BY <1>1, <1>2, SelectedStep

\* Geometry and label leave the page and the numbers as they are.
LEMMA PickedWith ==
  ASSUME EditorInv, Selected, NEW n \in Nodes, n.id = Picked.id, n.disp = Picked.disp, n.page = Picked.page
  PROVE  ~foreign => n.page = 0 \/ n.page < lay.tabs[n.disp]
BY PickedIsThere

LEMMA CenterKeeps ==
  ASSUME EditorInv, view.drag = NoDrag, Center
  PROVE  EditorInv'
<1> DEFINE n == [Picked EXCEPT !.x = (Canvas - Picked.w) \div 2]
<1>1. ASSUME Selected
      PROVE  n \in Nodes /\ n.id = Picked.id /\ n.disp = Picked.disp /\ n.page = Picked.page /\ SameNumbers(n, Picked)
  <2>1. Picked \in Nodes
    BY <1>1, PickedIsThere
  <2> DEFINE x == (Canvas - Picked.w) \div 2
  <2>2. x \in Nat /\ x + Picked.w <= Canvas
    <3>1. Picked.w \in Nat /\ Picked.w <= Canvas /\ Canvas \in Nat
      BY <2>1, NodeFields, EditorConstants
    <3>2. Canvas - Picked.w \in Nat /\ 2 * x <= Canvas - Picked.w /\ Canvas - Picked.w <= 2 * x + 1 /\ x \in Int
      BY <3>1, HalfOf
    <3> QED BY <3>1, <3>2
  <2> HIDE DEF x
  <2>3. [Picked EXCEPT !.x = x] \in Nodes
    BY <2>1, <2>2, NodeWith
  <2>4. n = [Picked EXCEPT !.x = x]
    BY DEF x
  <2> QED BY <2>1, <2>3, <2>4 DEF Nodes, SameNumbers
<1>2. Edit(WithSelected(n), view) /\ Plainly
  BY DEF Center
<1> HIDE DEF n
<1>3. Selected /\ ~foreign => n.page = 0 \/ n.page < lay.tabs[n.disp]
  BY <1>1, PickedWith
<1> QED BY <1>1, <1>2, <1>3, PlainStep

LEMMA AlignKeeps ==
  ASSUME EditorInv, view.drag = NoDrag, Align
  PROVE  EditorInv'
<1>1. PICK c : /\ Selected /\ Plainly
               /\ Edit(WithSelected([Picked EXCEPT !.x = Clamp(c - Picked.w \div 2, 0, Canvas - Picked.w)]), view)
               /\ \E m \in Range(lay.nodes) : c = m.x + m.w \div 2
  BY Zenon DEF Align
<1>2. Picked \in Nodes /\ lay \in Layouts
  BY <1>1, PickedIsThere
<1>3. c \in Int
  <2>1. \A m \in Range(lay.nodes) : m \in Nodes
    BY <1>2, LayoutFields, SeqFacts
  <2>2. PICK m \in Nodes : c = m.x + m.w \div 2
    BY <1>1, <2>1
  <2>3. m.x \in Int /\ m.w \in Int
    BY NodeFields
  <2>4. m.w \div 2 \in Int
    BY <2>3, HalfOf
  <2> QED BY <2>2, <2>3, <2>4
<1> DEFINE x == Clamp(c - Picked.w \div 2, 0, Canvas - Picked.w)
           n == [Picked EXCEPT !.x = x]
<1>4. x \in Nat /\ x + Picked.w <= Canvas
  <2>1. Picked.w \in Nat /\ Picked.w <= Canvas /\ Canvas \in Nat
    BY <1>2, NodeFields, EditorConstants
  <2>2. c - Picked.w \div 2 \in Int
    BY <1>3, <2>1, HalfOf
  <2> DEFINE v == c - Picked.w \div 2
  <2>3. Clamp(v, 0, Canvas - Picked.w) \in 0..(Canvas - Picked.w)
    <3>1. v \in Int /\ 0 \in Int /\ Canvas - Picked.w \in Int /\ 0 <= Canvas - Picked.w
      BY <2>1, <2>2
    <3> HIDE DEF v
    <3> QED BY <3>1, ClampIn
  <2> HIDE DEF v
  <2>4. x = Clamp(v, 0, Canvas - Picked.w)
    BY DEF v
  <2> HIDE DEF x
  <2> QED BY <2>1, <2>3, <2>4
<1>5. Edit(WithSelected(n), view)
  BY <1>1
<1> HIDE DEF x
<1>6. n \in Nodes /\ n.id = Picked.id /\ n.disp = Picked.disp /\ n.page = Picked.page /\ SameNumbers(n, Picked)
  <2>1. n \in Nodes
    BY <1>2, <1>4, NodeWith
  <2> QED BY <1>2, <2>1 DEF Nodes, SameNumbers
<1> HIDE DEF n
<1>7. ~foreign => n.page = 0 \/ n.page < lay.tabs[n.disp]
  BY <1>1, <1>6, PickedWith
<1> QED BY <1>1, <1>5, <1>6, <1>7, PlainStep

LEMMA SetGeoKeeps ==
  ASSUME EditorInv, view.drag = NoDrag, SetGeo
  PROVE  EditorInv'
<1>1. PICK a \in Nudges, b \in Nudges :
        Edit(WithSelected([Picked EXCEPT !.w = Clamp(b, MinSize, Canvas), !.x = Clamp(a, 0, Canvas - Clamp(b, MinSize, Canvas))]), view)
  BY Zenon DEF SetGeo
<1>2. Plainly
  BY DEF SetGeo
<1> DEFINE w == Clamp(b, MinSize, Canvas)
           x == Clamp(a, 0, Canvas - w)
           n == [Picked EXCEPT !.w = w, !.x = x]
<1>3. w \in Nat /\ MinSize <= w /\ w <= Canvas
  <2>1. w \in MinSize..Canvas
    BY EditorConstants, ClampIn
  <2> HIDE DEF w
  <2> QED BY <2>1, EditorConstants
<1>4. x \in Nat /\ x + w <= Canvas
  <2> HIDE DEF w
  <2>0. a \in Int /\ 0 \in Int /\ Canvas - w \in Int /\ 0 <= Canvas - w
    BY <1>3, EditorConstants
  <2>1. x \in 0..(Canvas - w)
    BY <2>0, ClampIn
  <2> HIDE DEF x
  <2> QED BY <1>3, <2>1, EditorConstants
<1>5. Edit(WithSelected(n), view)
  BY <1>1
<1> HIDE DEF w, x
<1>6. ASSUME Selected
      PROVE  n \in Nodes /\ n.id = Picked.id /\ n.disp = Picked.disp /\ n.page = Picked.page /\ SameNumbers(n, Picked)
  <2>1. Picked \in Nodes
    BY <1>6, PickedIsThere
  <2>2. n \in Nodes
    BY <1>3, <1>4, <2>1, NodeWith
  <2> QED BY <2>1, <2>2 DEF Nodes, SameNumbers
<1> HIDE DEF n
<1>7. Selected /\ ~foreign => n.page = 0 \/ n.page < lay.tabs[n.disp]
  BY <1>6, PickedWith
<1> QED BY <1>2, <1>5, <1>6, <1>7, PlainStep

LEMMA SetModTextKeeps ==
  ASSUME EditorInv, view.drag = NoDrag, SetModText
  PROVE  EditorInv'
<1>1. PICK t \in Texts : Edit(WithSelected([Picked EXCEPT !.text = t]), view)
  BY DEF SetModText
<1>2. Plainly
  BY DEF SetModText
<1> DEFINE n == [Picked EXCEPT !.text = t]
<1>3. ASSUME Selected
      PROVE  n \in Nodes /\ n.id = Picked.id /\ n.disp = Picked.disp /\ n.page = Picked.page /\ SameNumbers(n, Picked)
  <2>1. Picked \in Nodes
    BY <1>3, PickedIsThere
  <2>2. n \in Nodes
    BY <2>1, NodeWith
  <2> QED BY <2>1, <2>2 DEF Nodes, SameNumbers
<1>4. Edit(WithSelected(n), view)
  BY <1>1
<1> HIDE DEF n
<1>5. Selected /\ ~foreign => n.page = 0 \/ n.page < lay.tabs[n.disp]
  BY <1>3, PickedWith
<1> QED BY <1>2, <1>3, <1>4, <1>5, PlainStep

LEMMA SetModPageKeeps ==
  ASSUME EditorInv, view.drag = NoDrag, SetModPage
  PROVE  EditorInv'
<1> DEFINE last == lay.tabs[view.disp] - 1
           top == IF last < 0 THEN 0 ELSE last
<1>1. PICK p \in 0..MaxTabs : Edit(WithSelected([Picked EXCEPT !.page = Clamp(p, 0, top)]), view)
  BY Zenon DEF SetModPage
<1>2. Plainly
  BY DEF SetModPage
<1> DEFINE q == Clamp(p, 0, top)
           n == [Picked EXCEPT !.page = q]
<1>3. q \in Nat /\ (q = 0 \/ q < lay.tabs[view.disp])
  <2>1. lay \in Layouts /\ EditView(view)
    BY BeforeEdit
  <2>2. lay.tabs[view.disp] \in Nat
    BY <2>1, LayoutFields DEF EditView
  <2>3. top \in Nat /\ (top = 0 \/ top < lay.tabs[view.disp])
    BY <2>2
  <2>4. p \in Int /\ 0 \in Int /\ top \in Int /\ 0 <= top
    BY <2>3, EditorConstants
  <2> HIDE DEF top
  <2>5. q \in 0..top
    BY <2>4, ClampIn
  <2> HIDE DEF q
  <2> QED BY <2>2, <2>3, <2>5
<1>4. Edit(WithSelected(n), view)
  BY <1>1
<1> HIDE DEF q
<1>5. ASSUME Selected
      PROVE  n \in Nodes /\ n.id = Picked.id /\ n.disp = Picked.disp /\ n.page = q /\ SameNumbers(n, Picked)
  <2>1. Picked \in Nodes
    BY <1>5, PickedIsThere
  <2>2. n \in Nodes
    BY <1>3, <2>1, NodeWith
  <2> QED BY <2>1, <2>2 DEF Nodes, SameNumbers
<1> HIDE DEF n
<1>6. Selected /\ ~foreign => n.page = 0 \/ n.page < lay.tabs[n.disp]
  BY <1>3, <1>5, PickedIsThere
<1> QED BY <1>2, <1>4, <1>5, <1>6, PlainStep

-----------------------------------------------------------------------------
(* Numbers, kinds and elements of the selected widget                       *)

\* The number at q is one that nobody has.
LEMMA FreshNumber ==
  ASSUME NEW l \in Layouts, Distinct(l.nodes), NEW i \in DOMAIN l.nodes, NEW n, Len(n.els) = Len(l.nodes[i].els),
         NEW q, NumberAt(n, q) \notin Taken(l),
         \A k \in 0..Len(n.els) : k # q => NumberAt(n, k) = NumberAt(l.nodes[i], k)
  PROVE  Distinct(Replaced(l.nodes, i, n))
<1>1. l.nodes \in Seq(Nodes)
  BY LayoutFields
<1>2. \A m \in 0..Len(l.nodes[i].els) :
        NumberAt(l.nodes[i], m) # 0 => NumberAt(l.nodes[i], m) \in Hids(l.nodes[i]) /\ NumberAt(l.nodes[i], m) \in Taken(l)
  BY DEF Hids, Taken, Range
<1>3. \A k, m \in 0..Len(n.els) : NumberAt(n, k) = NumberAt(n, m) => NumberAt(n, k) = 0 \/ k = m
  <2> SUFFICES ASSUME NEW k \in 0..Len(n.els), NEW m \in 0..Len(n.els), NumberAt(n, k) = NumberAt(n, m), NumberAt(n, k) # 0
               PROVE  k = m
    OBVIOUS
  <2>1. CASE k # q /\ m # q
    BY <2>1 DEF Distinct
  <2>2. CASE k = q \/ m = q
    BY <1>2, <2>2
  <2> QED BY <2>1, <2>2
<1>4. \A k \in 0..Len(n.els) : NumberAt(n, k) \in Hids(l.nodes[i]) \/ NumberAt(n, k) \notin Taken(l) \/ NumberAt(n, k) = 0
  BY <1>2
<1> QED BY <1>1, <1>3, <1>4, ReplacedDistinct DEF Replaced

LEMMA SetModHidKeeps ==
  ASSUME EditorInv, view.drag = NoDrag, SetModHid
  PROVE  EditorInv'
<1>1. PICK h \in 0..MaxHid \ Taken(lay) : Edit(WithSelected([Picked EXCEPT !.hid = h]), view)
  BY DEF SetModHid
<1>2. Selected /\ Plainly /\ Picked.kind = "button" /\ Picked.els = <<>>
  BY DEF SetModHid
<1>3. /\ lay \in Layouts /\ At(lay, view.sel) \in DOMAIN lay.nodes /\ Picked = lay.nodes[At(lay, view.sel)] /\ Picked \in Nodes
  BY <1>2, PickedIsThere
<1> DEFINE n == [Picked EXCEPT !.hid = h]
<1>4. /\ n \in Nodes /\ n.id = Picked.id /\ n.disp = Picked.disp /\ n.page = Picked.page
      /\ n.els = <<>> /\ n.kind = "button" /\ n.hid = h
  <2>1. n \in Nodes
    BY <1>3, NodeWith
  <2> QED BY <1>2, <1>3, <2>1 DEF Nodes
<1>5. Edit(WithSelected(n), view)
  BY <1>1
<1> HIDE DEF n
<1>6. NumberAt(n, 0) \notin Taken(lay) /\ Len(n.els) = Len(Picked.els) /\ \A k \in 0..Len(n.els) : k = 0
  <2>1. NumberAt(n, 0) = h
    BY <1>4 DEF NumberAt
  <2>2. Len(n.els) = 0 /\ Len(Picked.els) = 0
    BY <1>2, <1>4
  <2> QED BY <2>1, <2>2
<1>7. ~rekinded => Distinct(Replaced(lay.nodes, At(lay, view.sel), n))
  <2> DEFINE i == At(lay, view.sel)
  <2> SUFFICES ASSUME ~rekinded PROVE Distinct(Replaced(lay.nodes, i, n))
    OBVIOUS
  <2>1. Distinct(lay.nodes)
    BY DEF EditorInv, LayInv, Fine
  <2>2. i \in DOMAIN lay.nodes /\ Picked = lay.nodes[i] /\ lay \in Layouts
    BY <1>3
  <2> HIDE DEF i
  <2> QED BY <1>6, <2>1, <2>2, FreshNumber
<1>8. ~foreign => n.page = 0 \/ n.page < lay.tabs[n.disp]
  BY <1>2, <1>4, PickedWith
<1>9. EditView(view) /\ uid' = uid /\ rekinded' = rekinded /\ rekinded \in BOOLEAN
  BY <1>2, BeforeEdit DEF Plainly
<1> QED BY <1>2, <1>4, <1>5, <1>7, <1>8, <1>9, SelectedStep

LEMMA SetModKindKeeps ==
  ASSUME EditorInv, view.drag = NoDrag, SetModKind
  PROVE  EditorInv'
<1>1. PICK k \in DOMAIN Size : Edit(WithSelected([Picked EXCEPT !.kind = k]), view)
  BY DEF SetModKind
<1>2. Selected /\ rekinded' = TRUE /\ uid' = uid
  BY DEF SetModKind
<1>3. Picked \in Nodes
  BY <1>2, PickedIsThere
<1> DEFINE n == [Picked EXCEPT !.kind = k]
<1>4. n \in Nodes /\ n.id = Picked.id /\ n.disp = Picked.disp /\ n.page = Picked.page
  <2>1. n \in Nodes
    BY <1>3, NodeWith
  <2> QED BY <1>3, <2>1 DEF Nodes
<1>5. Edit(WithSelected(n), view)
  BY <1>1
<1> HIDE DEF n
<1>6. ~foreign => n.page = 0 \/ n.page < lay.tabs[n.disp]
  BY <1>2, <1>4, PickedWith
<1>7. EditView(view)
  BY BeforeEdit
<1> QED BY <1>2, <1>4, <1>5, <1>6, <1>7, SelectedStep

LEMMA ElemView ==
  ASSUME EditorInv, view.drag = NoDrag, NEW k \in Nat, NEW v, v = [view EXCEPT !.elem = k]
  PROVE  EditView(v) /\ v.disp = view.disp /\ v.tab = view.tab /\ v.sel = view.sel
<1>1. EditView(view)
  BY BeforeEdit
<1> QED BY <1>1 DEF EditView

\* The elements change, and the numbers of some of them are gone.
LEMMA ElsStep ==
  ASSUME EditorInv, view.drag = NoDrag, NEW e, NEW v, Edit(WithSelected([Picked EXCEPT !.els = e]), v), Plainly,
         EditView(v), v.disp = view.disp, v.tab = view.tab, v.sel = view.sel,
         Selected => e \in Seq(Elements) /\ ElsFrom(e, Picked.els)
  PROVE  EditorInv'
<1> DEFINE n == [Picked EXCEPT !.els = e]
<1>1. ASSUME Selected
      PROVE  /\ n \in Nodes /\ n.id = Picked.id /\ n.disp = Picked.disp /\ n.page = Picked.page /\ NumbersOf(n, Picked)
  BY <1>1, PickedIsThere, ElsNumbers
<1>2. Edit(WithSelected(n), v)
  OBVIOUS
<1> HIDE DEF n
<1>3. Selected /\ ~rekinded => Distinct(Replaced(lay.nodes, At(lay, view.sel), n))
  <2> DEFINE i == At(lay, view.sel)
  <2> SUFFICES ASSUME Selected, ~rekinded PROVE Distinct(Replaced(lay.nodes, i, n))
    OBVIOUS
  <2>1. Distinct(lay.nodes)
    BY DEF EditorInv, LayInv, Fine
  <2>2. i \in DOMAIN lay.nodes /\ Picked = lay.nodes[i] /\ lay \in Layouts
    BY PickedIsThere
  <2>3. NumbersOf(n, lay.nodes[i])
    BY <1>1, <2>2
  <2> HIDE DEF i
  <2> QED BY <2>1, <2>2, <2>3, PutDistinct
<1>4. Selected /\ ~foreign => n.page = 0 \/ n.page < lay.tabs[n.disp]
  BY <1>1, PickedWith
<1>5. uid' = uid /\ rekinded' = rekinded /\ rekinded \in BOOLEAN
  BY BeforeEdit DEF Plainly
<1> QED BY <1>1, <1>2, <1>3, <1>4, <1>5, SelectedStep

\* An edit that turns out to change nothing.
LEMMA IdleStep ==
  ASSUME EditorInv, view.drag = NoDrag, NEW v, Edit(lay, v), Plainly,
         EditView(v), v.disp = view.disp, v.tab = view.tab, v.sel = view.sel
  PROVE  EditorInv'
<1>1. /\ Fine(lay, rekinded) /\ uid \in Nat /\ rekinded \in BOOLEAN
      /\ ~foreign => UniqueIds(lay) /\ Paged(lay) /\ ViewFits(lay, view)
  BY BeforeEdit
<1>2. uid' = uid /\ rekinded' = rekinded
  BY DEF Plainly
<1>3. ~foreign => ViewFits(lay, v)
  BY <1>1 DEF ViewFits
<1> QED BY <1>1, <1>2, <1>3, EditStep

LEMMA CustomizeKeeps ==
  ASSUME EditorInv, view.drag = NoDrag, Customize
  PROVE  EditorInv'
<1>1. Plainly
  BY DEF Customize
<1>2. CASE Selected /\ Picked.els = <<>>
  <2> DEFINE e == DefaultEls(Picked)
             v == [view EXCEPT !.elem = 1]
  <2>1. Edit(WithSelected([Picked EXCEPT !.els = e]), v)
    BY <1>2, Zenon DEF Customize
  <2>2. Selected => e \in Seq(Elements) /\ ElsFrom(e, Picked.els)
    BY PickedIsThere, DefaultElsAreFree
  <2> HIDE DEF e
  <2>3. EditView(v) /\ v.disp = view.disp /\ v.tab = view.tab /\ v.sel = view.sel
    BY ElemView
  <2> HIDE DEF v
  <2> QED BY <1>1, <2>1, <2>2, <2>3, ElsStep
<1>3. CASE ~(Selected /\ Picked.els = <<>>)
  <2>1. Edit(lay, view)
    BY <1>3, Zenon DEF Customize
  <2>2. EditView(view)
    BY BeforeEdit
  <2> QED BY <1>1, <2>1, <2>2, IdleStep
<1> QED BY <1>2, <1>3

LEMMA WidgetResetKeeps ==
  ASSUME EditorInv, view.drag = NoDrag, WidgetReset
  PROVE  EditorInv'
<1> DEFINE v == [view EXCEPT !.elem = 0]
<1>1. Edit(WithSelected([Picked EXCEPT !.els = <<>>]), v) /\ Plainly
  BY DEF WidgetReset
<1>2. Selected => <<>> \in Seq(Elements) /\ ElsFrom(<<>>, Picked.els)
  BY PickedIsThere, NodeFields, ElsEdits
<1>3. EditView(v) /\ v.disp = view.disp /\ v.tab = view.tab /\ v.sel = view.sel
  BY ElemView
<1> HIDE DEF v
<1> QED BY <1>1, <1>2, <1>3, ElsStep

LEMMA ElemAddKeeps ==
  ASSUME EditorInv, view.drag = NoDrag, ElemAdd
  PROVE  EditorInv'
<1> DEFINE v == [view EXCEPT !.elem = Len(Picked.els) + 1]
<1>1. PICK k \in {"label", "button"} : Edit(WithSelected([Picked EXCEPT !.els = Append(Picked.els, Elem(k))]), v)
  BY DEF ElemAdd
<1>2. Selected /\ Plainly
  BY DEF ElemAdd
<1>3. Picked.els \in Seq(Elements)
  BY <1>2, PickedIsThere, NodeFields
<1>4. Elem(k) \in Elements /\ ~Presses(Elem(k))
  BY EditorConstants DEF Elem, Elements, Kinds, Presses
<1> DEFINE e == Append(Picked.els, Elem(k))
<1>5. e \in Seq(Elements) /\ ElsFrom(e, Picked.els)
  BY <1>3, <1>4, ElsEdits
<1>6. EditView(v) /\ v.disp = view.disp /\ v.tab = view.tab /\ v.sel = view.sel
  <2>1. Len(Picked.els) + 1 \in Nat
    BY <1>3
  <2> QED BY <2>1, ElemView
<1>7. Edit(WithSelected([Picked EXCEPT !.els = e]), v)
  BY <1>1
<1> HIDE DEF v, e
<1> QED BY <1>2, <1>5, <1>6, <1>7, ElsStep

LEMMA ElemRemoveKeeps ==
  ASSUME EditorInv, view.drag = NoDrag, ElemRemove
  PROVE  EditorInv'
<1> DEFINE v == [view EXCEPT !.elem = 0]
<1>1. PICK i \in DOMAIN Picked.els : Edit(WithSelected([Picked EXCEPT !.els = RemoveAt(Picked.els, i)]), v)
  BY DEF ElemRemove
<1>2. Selected /\ Plainly
  BY DEF ElemRemove
<1> DEFINE e == RemoveAt(Picked.els, i)
<1>3. e \in Seq(Elements) /\ ElsFrom(e, Picked.els)
  BY <1>2, PickedIsThere, NodeFields, ElsEdits
<1>4. EditView(v) /\ v.disp = view.disp /\ v.tab = view.tab /\ v.sel = view.sel
  BY ElemView
<1>5. Edit(WithSelected([Picked EXCEPT !.els = e]), v)
  BY <1>1
<1> HIDE DEF v, e
<1> QED BY <1>2, <1>3, <1>4, <1>5, ElsStep

LEMMA ElemMoveKeeps ==
  ASSUME EditorInv, view.drag = NoDrag, ElemMove
  PROVE  EditorInv'
<1>1. PICK i \in DOMAIN Picked.els, j \in DOMAIN Picked.els :
        Edit(WithSelected([Picked EXCEPT !.els = [Picked.els EXCEPT ![i] = Picked.els[j], ![j] = Picked.els[i]]]),
             [view EXCEPT !.elem = j])
  BY DEF ElemMove
<1>2. Selected /\ Plainly
  BY DEF ElemMove
<1> DEFINE v == [view EXCEPT !.elem = j]
           e == [Picked.els EXCEPT ![i] = Picked.els[j], ![j] = Picked.els[i]]
<1>3. Picked.els \in Seq(Elements)
  BY <1>2, PickedIsThere, NodeFields
<1>4. e \in Seq(Elements) /\ ElsFrom(e, Picked.els)
  BY <1>3, ElsEdits
<1>5. EditView(v) /\ v.disp = view.disp /\ v.tab = view.tab /\ v.sel = view.sel
  <2>1. j \in Nat
    BY <1>3
  <2> QED BY <2>1, ElemView
<1>6. Edit(WithSelected([Picked EXCEPT !.els = e]), v)
  BY <1>1
<1> HIDE DEF v, e
<1> QED BY <1>2, <1>4, <1>5, <1>6, ElsStep

LEMMA ElemSelectKeeps ==
  ASSUME EditorInv, view.drag = NoDrag, ElemSelect
  PROVE  EditorInv'
<1>1. PICK i \in DOMAIN Picked.els : View([view EXCEPT !.elem = i])
  BY DEF ElemSelect
<1>2. Selected
  BY DEF ElemSelect
<1> DEFINE v == [view EXCEPT !.elem = i]
<1>3. i \in Nat
  BY <1>2, PickedIsThere, NodeFields
<1>4. EditView(v) /\ v.disp = view.disp /\ v.tab = view.tab /\ v.sel = view.sel
  BY <1>3, ElemView
<1>5. View(v)
  BY <1>1
<1> HIDE DEF v
<1>6. v.sel \in IdSet(lay) \cup {NoSel} /\ (~foreign => ViewFits(lay, v))
  BY <1>4, BeforeEdit DEF ViewFits
<1> QED BY <1>4, <1>5, <1>6, ViewStep

\* An element of the selected widget is replaced.
LEMMA PutElement ==
  ASSUME EditorInv, HasElem, NEW x \in Elements, NEW n, n = [Picked EXCEPT !.els[view.elem] = x]
  PROVE  /\ n \in Nodes /\ n.id = Picked.id /\ n.disp = Picked.disp /\ n.page = Picked.page
         /\ Len(n.els) = Len(Picked.els) /\ view.elem # 0
         /\ NumberAt(n, view.elem) = IF x.kind = "button" THEN x.hid ELSE 0
         /\ \A k \in 0..Len(n.els) : k # view.elem => NumberAt(n, k) = NumberAt(Picked, k)
<1>1. Picked \in Nodes /\ view.elem \in DOMAIN Picked.els
  BY PickedIsThere DEF HasElem
<1>2. Picked.els \in Seq(Elements)
  BY <1>1, NodeFields
<1> DEFINE e == [Picked.els EXCEPT ![view.elem] = x]
<1>3. /\ e \in Seq(Elements) /\ Len(e) = Len(Picked.els) /\ e[view.elem] = x /\ view.elem # 0
      /\ \A k \in 1..Len(e) : k # view.elem => e[k] = Picked.els[k]
  BY <1>1, <1>2
<1>4. n = [Picked EXCEPT !.els = e]
  OBVIOUS
<1> HIDE DEF e
<1>5. n \in Nodes
  <2>1. \A q \in Seq(Elements) : [Picked EXCEPT !.els = q] \in Nodes
    BY <1>1, NodeWith, Zenon
  <2> QED BY <1>3, <1>4, <2>1, Zenon
<1>6. n.id = Picked.id /\ n.disp = Picked.disp /\ n.page = Picked.page /\ n.els = e /\ n.kind = Picked.kind /\ n.hid = Picked.hid
  BY <1>1, <1>4 DEF Nodes
<1>7. NumberAt(n, view.elem) = IF x.kind = "button" THEN x.hid ELSE 0
  <2>1. n.els[view.elem] = x /\ view.elem # 0
    BY <1>3, <1>6
  <2>2. NumberAt(n, view.elem) = IF n.els[view.elem].kind = "button" THEN n.els[view.elem].hid ELSE 0
    <3>1. view.elem \in 1..Len(n.els)
      BY <1>1, <1>2, <1>3, <1>6
    <3>2. \A k \in 1..Len(n.els) : NumberAt(n, k) = IF n.els[k].kind = "button" THEN n.els[k].hid ELSE 0
      BY <1>3, <1>6 DEF NumberAt
    <3> QED BY <3>1, <3>2
  <2> QED BY <2>1, <2>2
<1>8. \A k \in 0..Len(n.els) : k # view.elem => NumberAt(n, k) = NumberAt(Picked, k)
  <2> SUFFICES ASSUME NEW k \in 0..Len(e), k # view.elem PROVE NumberAt(n, k) = NumberAt(Picked, k)
    BY <1>6
  <2>1. CASE k = 0
    BY <1>6, <2>1 DEF NumberAt
  <2>2. CASE k # 0
    <3>1. k \in 1..Len(e)
      BY <1>3, <2>2
    <3>2. e[k] = Picked.els[k]
      BY <1>3, <3>1
    <3> QED BY <1>6, <2>2, <3>2 DEF NumberAt
  <2> QED BY <2>1, <2>2
<1> QED BY <1>3, <1>5, <1>6, <1>7, <1>8

LEMMA SetElemKindKeeps ==
  ASSUME EditorInv, view.drag = NoDrag, SetElemKind
  PROVE  EditorInv'
<1>1. HasElem /\ rekinded' = TRUE /\ uid' = uid
  BY DEF SetElemKind
<1>2. PICK k \in {"label", "button"} : Edit(WithElem([Picked.els[view.elem] EXCEPT !.kind = k]), view)
  BY DEF SetElemKind
<1> DEFINE x == [Picked.els[view.elem] EXCEPT !.kind = k]
           n == [Picked EXCEPT !.els[view.elem] = x]
<1>3. x \in Elements
  <2>1. Picked.els[view.elem] \in Elements
    BY <1>1, PickedIsThere, NodeFields DEF HasElem
  <2>2. k \in Kinds
    BY DEF Kinds
  <2> QED BY <2>1, <2>2 DEF Elements
<1>4. Edit(WithSelected(n), view)
  BY <1>1, <1>2, Zenon DEF WithElem
<1> HIDE DEF x
<1>5. n \in Nodes /\ n.id = Picked.id /\ n.disp = Picked.disp /\ n.page = Picked.page
  BY <1>1, <1>3, PutElement
<1> HIDE DEF n
<1>6. Selected
  BY <1>1 DEF HasElem
<1>7. ~foreign => n.page = 0 \/ n.page < lay.tabs[n.disp]
  BY <1>5, <1>6, PickedWith
<1>8. EditView(view)
  BY BeforeEdit
<1> QED BY <1>1, <1>4, <1>5, <1>6, <1>7, <1>8, SelectedStep

LEMMA SetElemHidKeeps ==
  ASSUME EditorInv, view.drag = NoDrag, SetElemHid
  PROVE  EditorInv'
<1>1. HasElem /\ Plainly /\ Picked.els[view.elem].kind = "button" /\ Selected
  BY DEF SetElemHid, HasElem
<1>2. PICK h \in 0..MaxHid \ Taken(lay) : Edit(WithElem([Picked.els[view.elem] EXCEPT !.hid = h]), view)
  BY DEF SetElemHid
<1> DEFINE x == [Picked.els[view.elem] EXCEPT !.hid = h]
           n == [Picked EXCEPT !.els[view.elem] = x]
<1>3. x \in Elements /\ x.kind = "button" /\ x.hid = h
  <2>1. Picked.els[view.elem] \in Elements
    BY <1>1, PickedIsThere, NodeFields DEF HasElem
  <2> QED BY <1>1, <2>1 DEF Elements
<1>4. Edit(WithSelected(n), view)
  BY <1>1, <1>2, Zenon DEF WithElem
<1> HIDE DEF x
<1>5. /\ n \in Nodes /\ n.id = Picked.id /\ n.disp = Picked.disp /\ n.page = Picked.page
      /\ Len(n.els) = Len(Picked.els) /\ NumberAt(n, view.elem) = h
      /\ \A k \in 0..Len(n.els) : k # view.elem => NumberAt(n, k) = NumberAt(Picked, k)
  BY <1>1, <1>3, PutElement
<1> HIDE DEF n
<1>6. ~rekinded => Distinct(Replaced(lay.nodes, At(lay, view.sel), n))
  <2> DEFINE i == At(lay, view.sel)
  <2> SUFFICES ASSUME ~rekinded PROVE Distinct(Replaced(lay.nodes, i, n))
    OBVIOUS
  <2>1. Distinct(lay.nodes)
    BY DEF EditorInv, LayInv, Fine
  <2>2. i \in DOMAIN lay.nodes /\ Picked = lay.nodes[i] /\ lay \in Layouts
    BY <1>1, PickedIsThere
  <2>3. h \notin Taken(lay)
    OBVIOUS
  <2> HIDE DEF i
  <2> QED BY <1>5, <2>1, <2>2, <2>3, FreshNumber
<1>7. ~foreign => n.page = 0 \/ n.page < lay.tabs[n.disp]
  BY <1>1, <1>5, PickedWith
<1>8. EditView(view) /\ uid' = uid /\ rekinded' = rekinded /\ rekinded \in BOOLEAN
  BY <1>1, BeforeEdit DEF Plainly
<1> QED BY <1>1, <1>4, <1>5, <1>6, <1>7, <1>8, SelectedStep

-----------------------------------------------------------------------------
(* Widgets come and go                                                      *)

WithNodes(l, s) == [l EXCEPT !.nodes = s]

LEMMA WithNodesLayout ==
  ASSUME NEW l \in Layouts, NEW s \in Seq(Nodes)
  PROVE  /\ WithNodes(l, s) \in Layouts /\ WithNodes(l, s).nodes = s
         /\ WithNodes(l, s).tabs = l.tabs /\ WithNodes(l, s).zone = l.zone
BY LayoutFields DEF WithNodes

\* m has some of l's widgets, of those in T.
FewerOf(m, l, T) ==
  /\ m \in Layouts /\ m.tabs = l.tabs /\ m.nodes \in Seq(Nodes)
  /\ Distinct(l.nodes) => Distinct(m.nodes)
  /\ \A n \in Range(m.nodes) : n \in Range(l.nodes) /\ n \in T
  /\ Paged(l) => Paged(m)

LEMMA FewerWidgets ==
  ASSUME NEW l \in Layouts, NEW T, NEW m, m = WithNodes(l, Retained(l.nodes, T))
  PROVE  FewerOf(m, l, T)
<1> DEFINE s == l.nodes
           d == Retained(s, T)
<1>1. s \in Seq(Nodes)
  BY LayoutFields
<1>2. d \in Seq(Nodes) /\ PickedFrom(d, s) /\ \A a \in DOMAIN d : d[a] \in T
  <2> HIDE DEF s
  <2> QED BY <1>1, RetainedSome
<1>3. m \in Layouts /\ m.nodes = d /\ m.tabs = l.tabs
  <2> HIDE DEF d
  <2> QED BY <1>2, WithNodesLayout DEF d
<1> HIDE DEF d
<1>4. (Distinct(s) => Distinct(d)) /\ \A a \in DOMAIN d : \E i \in DOMAIN s : d[a] = s[i]
  <2> HIDE DEF s
  <2> QED BY <1>1, <1>2, PickedKeeps
<1>5. \A n \in Range(m.nodes) : n \in Range(l.nodes) /\ n \in T
  BY <1>2, <1>3, <1>4 DEF Range
<1>6. Distinct(l.nodes) => Distinct(m.nodes)
  BY <1>3, <1>4
<1>7. Paged(l) => Paged(m)
  BY <1>3, <1>5 DEF Paged
<1> QED BY <1>2, <1>3, <1>5, <1>6, <1>7 DEF FewerOf

LEMMA RemoveStep ==
  ASSUME EditorInv, view.drag = NoDrag, Edit(Without(lay, view.sel), view), Plainly
  PROVE  EditorInv'
<1> DEFINE T == {n \in Range(lay.nodes) : n.id # view.sel}
           m == Without(lay, view.sel)
<1>1. /\ lay \in Layouts /\ Fine(lay, rekinded) /\ EditView(view) /\ uid \in Nat /\ rekinded \in BOOLEAN
      /\ ~foreign => Paged(lay) /\ ViewFits(lay, view)
  BY BeforeEdit
<1>2. m = WithNodes(lay, Retained(lay.nodes, T))
  BY DEF Without, WithNodes
<1>3. Edit(m, view)
  OBVIOUS
<1> HIDE DEF T, m
<1>4. /\ m.tabs = lay.tabs /\ Fine(m, rekinded) /\ (Paged(lay) => Paged(m))
      /\ \A n \in Range(m.nodes) : n \in Range(lay.nodes)
  <2>1. FewerOf(m, lay, T)
    BY <1>1, <1>2, FewerWidgets
  <2> QED BY <1>1, <2>1 DEF Fine, FewerOf
<1>5. ~foreign => Paged(m) /\ ViewFits(m, view)
  BY <1>1, <1>4 DEF ViewFits
<1>6. uid' = uid /\ rekinded' = rekinded
  BY DEF Plainly
<1> QED BY <1>1, <1>3, <1>4, <1>5, <1>6, EditStep

LEMMA NodeRemoveKeeps ==
  ASSUME EditorInv, view.drag = NoDrag, NodeRemove
  PROVE  EditorInv'
BY RemoveStep DEF NodeRemove

LEMMA DeleteSelectedKeeps ==
  ASSUME EditorInv, view.drag = NoDrag, DeleteSelected
  PROVE  EditorInv'
<1> DEFINE v == [view EXCEPT !.elem = 0]
           l == IF HasElem THEN WithSelected([Picked EXCEPT !.els = RemoveAt(Picked.els, view.elem)]) ELSE lay
<1>1. Plainly
  BY DEF DeleteSelected
<1>2. Edit(l, v) \/ Edit(Without(lay, view.sel), view)
  BY DEF DeleteSelected
<1>3. EditView(v) /\ v.disp = view.disp /\ v.tab = view.tab /\ v.sel = view.sel
  BY ElemView
<1> HIDE DEF v
<1>4. CASE Edit(Without(lay, view.sel), view)
  BY <1>1, <1>4, RemoveStep
<1>5. CASE Edit(l, v) /\ ~HasElem
  <2>1. Edit(lay, v)
    BY <1>5
  <2> QED BY <1>1, <1>3, <2>1, IdleStep
<1>6. CASE Edit(l, v) /\ HasElem
  <2> DEFINE e == RemoveAt(Picked.els, view.elem)
  <2>1. Selected /\ view.elem \in DOMAIN Picked.els
    BY <1>6 DEF HasElem
  <2>2. e \in Seq(Elements) /\ ElsFrom(e, Picked.els)
    BY <2>1, PickedIsThere, NodeFields, ElsEdits
  <2>3. Edit(WithSelected([Picked EXCEPT !.els = e]), v)
    BY <1>6
  <2> HIDE DEF e
  <2> QED BY <1>1, <1>3, <2>2, <2>3, ElsStep
<1> QED BY <1>2, <1>4, <1>5, <1>6

LEMMA NothingTakesZero ==
  ASSUME NEW l
  PROVE  0 \notin Taken(l)
BY DEF Taken, Hids

PageShown == IF Tabbed THEN view.tab ELSE 0

\* New widgets on the page that is edited, the last of them selected.
LEMMA AddStep ==
  ASSUME EditorInv, view.drag = NoDrag, NEW g \in Seq(Nodes), g # <<>>, Distinct(g),
         \A a \in DOMAIN g : g[a].disp = view.disp /\ g[a].page = PageShown,
         \A a \in DOMAIN g : \A k \in 0..Len(g[a].els) : NumberAt(g[a], k) \notin Taken(lay),
         NEW v, v = [view EXCEPT !.sel = g[Len(g)].id],
         Edit(WithNodes(lay, lay.nodes \o g), v), uid' \in Nat, rekinded' = rekinded
  PROVE  EditorInv'
<1>1. /\ lay \in Layouts /\ Fine(lay, rekinded) /\ EditView(view) /\ rekinded \in BOOLEAN
      /\ ~foreign => Paged(lay) /\ ViewFits(lay, view)
  BY BeforeEdit
<1> DEFINE s == lay.nodes
           d == s \o g
           m == WithNodes(lay, d)
<1>2. s \in Seq(Nodes)
  BY <1>1, LayoutFields
<1>3. /\ Len(s) \in Nat /\ Len(g) \in Nat /\ Len(g) # 0 /\ DOMAIN s = 1..Len(s) /\ DOMAIN g = 1..Len(g)
      /\ d \in Seq(Nodes) /\ Len(d) = Len(s) + Len(g)
      /\ \A i \in 1..(Len(s) + Len(g)) : d[i] = IF i <= Len(s) THEN s[i] ELSE g[i - Len(s)]
  <2> HIDE DEF s
  <2>1. Len(s) \in Nat /\ Len(g) \in Nat /\ Len(g) # 0 /\ DOMAIN s = 1..Len(s) /\ DOMAIN g = 1..Len(g)
    BY <1>2
  <2> QED BY <1>2, <2>1, ConcatProperties
<1>4. m \in Layouts /\ m.nodes = d /\ m.tabs = lay.tabs
  <2> HIDE DEF d
  <2> QED BY <1>1, <1>3, WithNodesLayout
<1>5. ~rekinded => Distinct(d)
  BY <1>1, <1>2, AddedDistinct DEF Fine
<1>6. EditView(v) /\ v.disp = view.disp /\ v.tab = view.tab /\ v.sel = g[Len(g)].id
  BY <1>1 DEF EditView
<1>7. Edit(m, v)
  OBVIOUS
<1> HIDE DEF s, d, m
<1>8. DOMAIN d = 1..(Len(s) + Len(g)) /\ d[Len(s) + Len(g)] = g[Len(g)] /\ Len(s) + Len(g) \in DOMAIN d
  BY <1>3
<1>9. \A n \in Range(d) : n \in Range(s) \/ \E a \in DOMAIN g : n = g[a]
  <2> SUFFICES ASSUME NEW i \in DOMAIN d PROVE d[i] \in Range(s) \/ \E a \in DOMAIN g : d[i] = g[a]
    BY DEF Range
  <2>1. CASE i <= Len(s)
    <3>1. d[i] = s[i] /\ i \in DOMAIN s
      BY <1>3, <1>8, <2>1
    <3> QED BY <3>1 DEF Range
  <2>2. CASE ~(i <= Len(s))
    <3>1. d[i] = g[i - Len(s)] /\ i - Len(s) \in DOMAIN g
      BY <1>3, <1>8, <2>2
    <3> QED BY <3>1
  <2> QED BY <2>1, <2>2
<1>10. Fine(m, rekinded')
  BY <1>4, <1>5 DEF Fine
<1>11. ASSUME ~foreign, UniqueIds(m) PROVE Paged(m) /\ ViewFits(m, v)
  <2>1. PageShown = 0 \/ PageShown < lay.tabs[view.disp]
    BY <1>1, <1>11 DEF PageShown, ViewFits
  <2>2. Paged(m)
    <3> SUFFICES ASSUME NEW n \in Range(d) PROVE n.page = 0 \/ n.page < lay.tabs[n.disp]
      BY <1>4 DEF Paged
    <3>1. CASE n \in Range(s)
      BY <1>1, <1>11, <3>1 DEF Paged, s
    <3>2. CASE \E a \in DOMAIN g : n = g[a]
      BY <2>1, <3>2
    <3> QED BY <1>9, <3>1, <3>2
  <2>3. ASSUME NEW n \in Range(d), n.id = v.sel PROVE n.disp = v.disp
    <3>1. PICK i \in DOMAIN d : n = d[i]
      BY DEF Range
    <3>2. i = Len(s) + Len(g)
      BY <1>4, <1>6, <1>8, <1>11, <2>3, <3>1 DEF UniqueIds
    <3>3. n = g[Len(g)] /\ Len(g) \in DOMAIN g
      BY <1>3, <1>8, <3>1, <3>2
    <3> QED BY <1>6, <3>3
  <2>4. v.tab = 0 \/ v.tab < m.tabs[v.disp]
    BY <1>1, <1>4, <1>6, <1>11 DEF ViewFits
  <2> QED BY <1>4, <2>2, <2>3, <2>4 DEF ViewFits
<1> QED BY <1>1, <1>6, <1>7, <1>10, <1>11, EditStep

LEMMA NodeAddKeeps ==
  ASSUME EditorInv, view.drag = NoDrag, NodeAdd
  PROVE  EditorInv'
<1>1. PICK k \in DOMAIN Size :
        LET page == IF Tabbed THEN view.tab ELSE 0
            n    == Cardinality({i \in DOMAIN lay.nodes : OnDisplay(lay.nodes[i]) /\ lay.nodes[i].page = page})
            x    == Clamp(Corner + (n % Around) * Step, 0, Canvas - Size[k])
            num  == IF k = "button" THEN FreeHid(lay, 1) ELSE 0
            new  == Widget(<<k, uid>>, k, view.disp, page, num, x, Size[k])
        IN  /\ Edit([lay EXCEPT !.nodes = Append(@, new)], [view EXCEPT !.sel = new.id])
            /\ uid' = uid + 1 /\ UNCHANGED rekinded
  BY Zenon DEF NodeAdd
<1> DEFINE n   == Cardinality({i \in DOMAIN lay.nodes : OnDisplay(lay.nodes[i]) /\ lay.nodes[i].page = PageShown})
           x   == Clamp(Corner + (n % Around) * Step, 0, Canvas - Size[k])
           num == IF k = "button" THEN FreeHid(lay, 1) ELSE 0
           new == Widget(<<k, uid>>, k, view.disp, PageShown, num, x, Size[k])
           g   == <<new>>
           v   == [view EXCEPT !.sel = new.id]
<1>2. /\ Edit([lay EXCEPT !.nodes = Append(lay.nodes, new)], v)
      /\ uid' = uid + 1 /\ rekinded' = rekinded
  BY <1>1, Zenon DEF PageShown
<1>3. /\ lay \in Layouts /\ uid \in Nat /\ EditView(view) /\ lay.nodes \in Seq(Nodes)
  BY BeforeEdit, LayoutFields
<1>4. n \in Nat
  <2> DEFINE K == {i \in DOMAIN lay.nodes : OnDisplay(lay.nodes[i]) /\ lay.nodes[i].page = PageShown}
  <2>1. K \in SUBSET (1..Len(lay.nodes)) /\ Len(lay.nodes) \in Nat
    BY <1>3
  <2> HIDE DEF K
  <2>2. IsFiniteSet(1..Len(lay.nodes))
    BY <2>1, FS_Interval
  <2>3. Cardinality(K) \in Nat
    BY <2>1, <2>2, FS_Subset, FS_CardinalityType
  <2> QED BY <2>3 DEF K
<1> HIDE DEF n
<1>5. x \in Nat /\ x + Size[k] <= Canvas /\ Size[k] \in Nat /\ Size[k] >= MinSize
  <2>1. n % Around \in Nat
    BY <1>4, EditorConstants
  <2> DEFINE t == n % Around
             y == Corner + t * Step
  <2> HIDE DEF t
  <2>2. t \in Nat
    BY <2>1 DEF t
  <2>3. y \in Int
    BY <2>2, EditorConstants
  <2> HIDE DEF y
  <2>4. Size[k] \in Nat /\ MinSize <= Size[k] /\ Size[k] <= Canvas /\ Canvas \in Nat /\ MinSize \in Nat
    BY EditorConstants
  <2>5. 0 \in Int /\ Canvas - Size[k] \in Int /\ 0 <= Canvas - Size[k]
    BY <2>4
  <2>6. Clamp(y, 0, Canvas - Size[k]) \in 0..(Canvas - Size[k])
    BY <2>3, <2>5, ClampIn
  <2>7. x = Clamp(y, 0, Canvas - Size[k])
    BY DEF y, t
  <2> HIDE DEF x
  <2> QED BY <2>4, <2>6, <2>7
<1> HIDE DEF x
<1>6. num \in 0..MaxHid /\ num \notin Taken(lay)
  <2>1. FreeHid(lay, 1) \in 0..MaxHid /\ (FreeHid(lay, 1) = 0 \/ FreeHid(lay, 1) \notin Taken(lay))
    BY FreeHidIsFree
  <2>2. 0 \in 0..MaxHid /\ 0 \notin Taken(lay)
    BY EditorConstants, NothingTakesZero
  <2> QED BY <2>1, <2>2
<1> HIDE DEF num
<1>7. <<k, uid>> \in Ids /\ view.disp \in Displays /\ PageShown \in Nat
  BY <1>3 DEF Ids, EditView, PageShown
<1>8. /\ new \in Nodes /\ new.disp = view.disp /\ new.page = PageShown /\ new.els = <<>>
      /\ NumberAt(new, 0) = IF k = "button" THEN num ELSE 0
  BY <1>5, <1>6, <1>7, NewWidget
<1> HIDE DEF new
<1>9. \A q \in 0..Len(new.els) : q = 0 /\ NumberAt(new, q) \notin Taken(lay)
  <2>1. Len(new.els) = 0
    BY <1>8
  <2>2. NumberAt(new, 0) \notin Taken(lay)
    BY <1>6, <1>8, NothingTakesZero
  <2> QED BY <2>1, <2>2
<1>10. g \in Seq(Nodes) /\ g # <<>> /\ Len(g) = 1 /\ DOMAIN g = {1} /\ g[1] = new
  BY <1>8
<1>11. [lay EXCEPT !.nodes = Append(lay.nodes, new)] = WithNodes(lay, lay.nodes \o g)
  <2>1. Append(lay.nodes, new) = lay.nodes \o g
    BY <1>3, <1>8
  <2> QED BY <2>1, Zenon DEF WithNodes
<1>12. v = [view EXCEPT !.sel = g[Len(g)].id]
  BY <1>10
<1> HIDE DEF g, v
<1>13. Distinct(g)
  BY <1>9, <1>10 DEF Distinct
<1>14. /\ \A a \in DOMAIN g : g[a].disp = view.disp /\ g[a].page = PageShown
       /\ \A a \in DOMAIN g : \A q \in 0..Len(g[a].els) : NumberAt(g[a], q) \notin Taken(lay)
  BY <1>8, <1>9, <1>10
<1>15. Edit(WithNodes(lay, lay.nodes \o g), v) /\ uid' \in Nat /\ rekinded' = rekinded
  BY <1>2, <1>3, <1>11
<1> QED BY <1>10, <1>12, <1>13, <1>14, <1>15, AddStep

LEMMA AddButtonGridKeeps ==
  ASSUME EditorInv, view.drag = NoDrag, AddButtonGrid
  PROVE  EditorInv'
<1> DEFINE cell == (Canvas - Gap * (Columns + 1)) \div Columns
           Button(c) == Widget(<<"button", uid + c - 1>>, "button", view.disp, PageShown, FreeHid(lay, c),
                               Gap + (c - 1) * (cell + Gap), cell)
           g == [c \in 1..Columns |-> Button(c)]
           v == [view EXCEPT !.sel = <<"button", uid + Columns - 1>>]
<1>1. /\ Edit([lay EXCEPT !.nodes = lay.nodes \o g], v)
      /\ uid' = uid + Columns /\ rekinded' = rekinded
  BY Zenon DEF AddButtonGrid, PageShown
<1>2. /\ lay \in Layouts /\ uid \in Nat /\ EditView(view) /\ lay.nodes \in Seq(Nodes)
  BY BeforeEdit, LayoutFields
<1>3. view.disp \in Displays /\ PageShown \in Nat /\ "button" \in DOMAIN Size
  BY <1>2, EditorConstants DEF EditView, PageShown
<1>4. ASSUME NEW c \in 1..Columns
      PROVE  /\ Button(c) \in Nodes /\ Button(c).disp = view.disp /\ Button(c).page = PageShown /\ Button(c).els = <<>>
             /\ NumberAt(Button(c), 0) = FreeHid(lay, c) /\ Button(c).id = <<"button", uid + c - 1>>
  <2> DEFINE x == Gap + (c - 1) * (cell + Gap)
  <2>1. cell \in Nat /\ MinSize <= cell /\ x \in Nat /\ x + cell <= Canvas
    BY GridFits
  <2>2. <<"button", uid + c - 1>> \in Ids
    <3>1. uid + c - 1 \in Nat
      BY <1>2, EditorConstants
    <3> QED BY <1>3, <3>1 DEF Ids
  <2>3. FreeHid(lay, c) \in 0..MaxHid
    <3>1. c \in Nat \ {0}
      BY EditorConstants
    <3> QED BY <3>1, FreeHidIsFree
  <2>4. cell >= MinSize
    BY <2>1, EditorConstants
  <2>5. Button(c) = Widget(<<"button", uid + c - 1>>, "button", view.disp, PageShown, FreeHid(lay, c), x, cell)
    OBVIOUS
  <2> DEFINE id == <<"button", uid + c - 1>>
             h == FreeHid(lay, c)
             b == Widget(id, "button", view.disp, PageShown, h, x, cell)
  <2>6. Button(c) = b
    BY <2>5
  <2> HIDE DEF cell, x, Button
  <2>7. id \in Ids /\ h \in 0..MaxHid
    BY <2>2, <2>3
  <2> HIDE DEF id, h
  <2>8. b \in Nodes /\ b.id = id /\ b.disp = view.disp /\ b.page = PageShown /\ b.els = <<>> /\ NumberAt(b, 0) = h
    BY <1>3, <2>1, <2>4, <2>7, NewWidget
  <2> HIDE DEF b
  <2> QED BY <2>6, <2>8 DEF id, h
<1>5. \A c \in 1..Columns : g[c] = Button(c)
  BY Zenon
<1>6. DOMAIN g = 1..Columns
  BY Zenon
<1> HIDE DEF Button
<1>7. g \in [1..Columns -> Nodes]
  BY <1>4
<1> HIDE DEF g, cell
<1>8. g \in Seq(Nodes) /\ Len(g) = Columns /\ g # <<>> /\ Columns \in 1..Columns
  <2>1. Columns \in Nat /\ Columns # 0
    BY EditorConstants
  <2>2. g \in Seq(Nodes) /\ Len(g) = Columns
    BY <1>7, <2>1, FunctionIsSeq
  <2> QED BY <2>1, <2>2
<1>9. \A a \in DOMAIN g :
        /\ g[a].disp = view.disp /\ g[a].page = PageShown /\ g[a].els = <<>>
        /\ NumberAt(g[a], 0) = FreeHid(lay, a) /\ a \in Nat \ {0}
  <2>1. \A a \in 1..Columns : a \in Nat \ {0}
    BY EditorConstants
  <2> QED BY <1>4, <1>5, <1>6, <2>1
<1>10. \A a \in DOMAIN g : \A q \in 0..Len(g[a].els) : q = 0
  BY <1>9
<1>11. Distinct(g)
  <2> SUFFICES ASSUME NEW a \in DOMAIN g, NEW b \in DOMAIN g, NumberAt(g[a], 0) = NumberAt(g[b], 0), NumberAt(g[a], 0) # 0
               PROVE  a = b
    BY <1>10 DEF Distinct
  <2> QED BY <1>9, FreeHidIsFree
<1>12. \A a \in DOMAIN g : \A q \in 0..Len(g[a].els) : NumberAt(g[a], q) \notin Taken(lay)
  <2> SUFFICES ASSUME NEW a \in DOMAIN g PROVE NumberAt(g[a], 0) \notin Taken(lay)
    BY <1>10
  <2> QED BY <1>9, FreeHidIsFree, NothingTakesZero
<1>13. v = [view EXCEPT !.sel = g[Len(g)].id]
  <2>1. g[Len(g)].id = <<"button", uid + Columns - 1>>
    BY <1>4, <1>5, <1>8
  <2> QED BY <2>1
<1>14. Edit(WithNodes(lay, lay.nodes \o g), v)
  BY <1>1, Zenon DEF WithNodes
<1>15. uid' \in Nat
  BY <1>1, <1>2, EditorConstants, SMTT(30)
<1> HIDE DEF v
<1> QED BY <1>1, <1>8, <1>9, <1>11, <1>12, <1>13, <1>14, <1>15, AddStep

LEMMA NodeSelectKeeps ==
  ASSUME EditorInv, view.drag = NoDrag, NodeSelect
  PROVE  EditorInv'
<1>1. PICK n \in Visible : View([view EXCEPT !.sel = n.id, !.elem = 0])
  BY DEF NodeSelect
<1> DEFINE v == [view EXCEPT !.sel = n.id, !.elem = 0]
<1>2. /\ lay \in Layouts /\ EditView(view)
      /\ ~foreign => UniqueIds(lay) /\ ViewFits(lay, view)
  BY BeforeEdit
<1>3. n \in Range(lay.nodes) /\ n.disp = view.disp
  BY DEF Visible, OnDisplay
<1>4. EditView(v) /\ v.disp = view.disp /\ v.tab = view.tab /\ v.sel = n.id
  BY <1>2 DEF EditView
<1>5. View(v)
  BY <1>1
<1> HIDE DEF v
<1>6. n.id \in IdSet(lay)
  BY <1>3 DEF IdSet
<1>7. ASSUME ~foreign, NEW m \in Range(lay.nodes), m.id = n.id PROVE m = n
  BY <1>2, <1>3, <1>7 DEF UniqueIds, Range
<1>8. ~foreign => ViewFits(lay, v)
  BY <1>2, <1>3, <1>4, <1>7 DEF ViewFits
<1> QED BY <1>4, <1>5, <1>6, <1>8, ViewStep

-----------------------------------------------------------------------------
(* Displays and pages                                                       *)

\* A widget that got another page.
SameButPage(n, o) == n \in Nodes /\ n.id = o.id /\ n.disp = o.disp /\ SameNumbers(n, o)

WithPage(n, p) == [n EXCEPT !.page = p]

LEMMA PageChanged ==
  ASSUME NEW n \in Nodes, NEW p \in Nat
  PROVE  SameButPage(WithPage(n, p), n) /\ WithPage(n, p).page = p
<1>1. [n EXCEPT !.page = p] \in Nodes
  BY NodeWith
<1> QED BY <1>1 DEF Nodes, WithPage, SameButPage, SameNumbers

LEMMA PageTheSame ==
  ASSUME NEW n \in Nodes
  PROVE  SameButPage(n, n)
BY DEF SameButPage, SameNumbers

LEMMA RepagedLayout ==
  ASSUME NEW l \in Layouts, NEW d, d \in [DOMAIN l.nodes -> Nodes],
         \A i \in DOMAIN l.nodes : SameButPage(d[i], l.nodes[i]),
         NEW m, m = WithNodes(l, d)
  PROVE  /\ m \in Layouts /\ m.tabs = l.tabs /\ m.nodes = d /\ DOMAIN d = DOMAIN l.nodes
         /\ Distinct(l.nodes) => Distinct(m.nodes)
         /\ \A n \in Range(m.nodes) : \E o \in Range(l.nodes) : n.id = o.id /\ n.disp = o.disp
<1>1. l.nodes \in Seq(Nodes)
  BY LayoutFields
<1>2. Len(l.nodes) \in Nat /\ DOMAIN l.nodes = 1..Len(l.nodes)
  BY <1>1
<1>3. d \in Seq(Nodes)
  BY <1>2, FunctionIsSeq
<1>4. m \in Layouts /\ m.nodes = d /\ m.tabs = l.tabs
  BY <1>3, WithNodesLayout
<1>5. DOMAIN d = DOMAIN l.nodes
  OBVIOUS
<1>6. Distinct(l.nodes) => Distinct(d)
  BY <1>5, RenumberedDistinct DEF SameButPage
<1>7. \A n \in Range(d) : \E o \in Range(l.nodes) : n.id = o.id /\ n.disp = o.disp
  BY <1>5 DEF SameButPage, Range
<1> QED BY <1>4, <1>5, <1>6, <1>7

LEMMA SetTabsLayout ==
  ASSUME NEW l \in Layouts, view.disp \in Displays, NEW t \in 0..MaxTabs
  PROVE  /\ SetTabs(l, t) \in Layouts /\ SetTabs(l, t).nodes = l.nodes
         /\ SetTabs(l, t).tabs[view.disp] = t
         /\ \A d \in Displays : d # view.disp => SetTabs(l, t).tabs[d] = l.tabs[d]
<1>1. l.tabs \in [Displays -> 0..MaxTabs]
  BY LayoutFields
<1>2. SetTabs(l, t) \in Layouts /\ SetTabs(l, t).nodes = l.nodes /\ SetTabs(l, t).tabs = [l.tabs EXCEPT ![view.disp] = t]
  BY LayoutFields DEF SetTabs
<1> QED BY <1>1, <1>2

\* The pages change, and the page shown with them.
LEMMA PagesStep ==
  ASSUME EditorInv, view.drag = NoDrag, NEW m \in Layouts, NEW v, Edit(m, v), Plainly, EditView(v),
         v.disp = view.disp, v.sel \in {view.sel, NoSel},
         Distinct(lay.nodes) => Distinct(m.nodes),
         \A n \in Range(m.nodes) : \E o \in Range(lay.nodes) : n.id = o.id /\ n.disp = o.disp,
         ~foreign => Paged(m) /\ (v.tab = 0 \/ v.tab < m.tabs[v.disp])
  PROVE  EditorInv'
<1>1. /\ Fine(lay, rekinded) /\ uid \in Nat /\ rekinded \in BOOLEAN
      /\ ~foreign => ViewFits(lay, view)
  BY BeforeEdit
<1>2. uid' = uid /\ rekinded' = rekinded
  BY DEF Plainly
<1>3. Fine(m, rekinded')
  BY <1>1, <1>2 DEF Fine
<1>4. ~foreign => ViewFits(m, v)
  BY <1>1, NobodyIsNoSel DEF ViewFits
<1> QED BY <1>1, <1>2, <1>3, <1>4, EditStep

LEMMA TabView ==
  ASSUME EditorInv, view.drag = NoDrag, NEW t \in Nat, NEW v, v = [view EXCEPT !.tab = t]
  PROVE  EditView(v) /\ v.disp = view.disp /\ v.tab = t /\ v.sel = view.sel
<1>1. EditView(view)
  BY BeforeEdit
<1> QED BY <1>1 DEF EditView

LEMMA TabsBefore ==
  ASSUME EditorInv, view.drag = NoDrag
  PROVE  /\ lay \in Layouts /\ EditView(view) /\ view.disp \in Displays /\ view.tab \in Nat
         /\ lay.tabs[view.disp] \in Nat /\ lay.tabs[view.disp] <= MaxTabs
         /\ 0 \in 0..MaxTabs /\ 1 \in 0..MaxTabs
         /\ \A i \in DOMAIN lay.nodes : lay.nodes[i] \in Nodes /\ lay.nodes[i] \in Range(lay.nodes)
         /\ ~foreign => Paged(lay) /\ (view.tab = 0 \/ view.tab < lay.tabs[view.disp])
<1>1. lay \in Layouts /\ EditView(view) /\ (~foreign => Paged(lay) /\ (view.tab = 0 \/ view.tab < lay.tabs[view.disp]))
  BY BeforeEdit DEF ViewFits
<1>2. view.disp \in Displays /\ view.tab \in Nat
  BY <1>1 DEF EditView
<1>3. lay.tabs[view.disp] \in Nat /\ lay.tabs[view.disp] <= MaxTabs /\ lay.nodes \in Seq(Nodes)
  BY <1>1, <1>2, LayoutFields
<1>4. 0 \in 0..MaxTabs /\ 1 \in 0..MaxTabs
  BY EditorConstants
<1> QED BY <1>1, <1>2, <1>3, <1>4, SeqFacts

LEMMA TabsEnableKeeps ==
  ASSUME EditorInv, view.drag = NoDrag, TabsEnable
  PROVE  EditorInv'
<1> DEFINE v == [view EXCEPT !.tab = 0]
<1>1. Plainly
  BY DEF TabsEnable
<1>2. /\ lay \in Layouts /\ view.disp \in Displays /\ 0 \in 0..MaxTabs /\ 1 \in 0..MaxTabs
      /\ lay.tabs[view.disp] \in Nat
      /\ \A i \in DOMAIN lay.nodes : lay.nodes[i] \in Nodes /\ lay.nodes[i] \in Range(lay.nodes)
      /\ ~foreign => Paged(lay)
  BY TabsBefore
<1>3. EditView(v) /\ v.disp = view.disp /\ v.tab = 0 /\ v.sel = view.sel
  BY TabView
<1> HIDE DEF v
<1>4. CASE Tabbed
  <2> DEFINE l == SetTabs(lay, 0)
             d == [i \in DOMAIN l.nodes |-> IF OnDisplay(l.nodes[i]) THEN [l.nodes[i] EXCEPT !.page = 0] ELSE l.nodes[i]]
             m == WithNodes(l, d)
  <2>1. Edit(m, v)
    BY <1>4, Zenon DEF TabsEnable, Repage, WithNodes, v
  <2>2. /\ l \in Layouts /\ l.nodes = lay.nodes /\ l.tabs[view.disp] = 0
        /\ \A e \in Displays : e # view.disp => l.tabs[e] = lay.tabs[e]
    BY <1>2, SetTabsLayout
  <2>3. \A i \in DOMAIN l.nodes : d[i] = IF OnDisplay(l.nodes[i]) THEN WithPage(l.nodes[i], 0) ELSE l.nodes[i]
    BY Zenon DEF WithPage
  <2>4. d = [i \in DOMAIN l.nodes |-> d[i]]
    BY Zenon
  <2> HIDE DEF l, d
  <2>5. \A i \in DOMAIN l.nodes : SameButPage(d[i], l.nodes[i]) /\ (d[i].page = 0 \/ (d[i] = l.nodes[i] /\ d[i].disp # view.disp))
    <3> SUFFICES ASSUME NEW i \in DOMAIN l.nodes
                 PROVE  SameButPage(d[i], l.nodes[i]) /\ (d[i].page = 0 \/ (d[i] = l.nodes[i] /\ d[i].disp # view.disp))
      OBVIOUS
    <3>1. l.nodes[i] \in Nodes
      BY <1>2, <2>2
    <3>2. CASE OnDisplay(l.nodes[i])
      <4>1. d[i] = WithPage(l.nodes[i], 0)
        BY <2>3, <3>2
      <4> QED BY <3>1, <4>1, PageChanged
    <3>3. CASE ~OnDisplay(l.nodes[i])
      <4>1. d[i] = l.nodes[i]
        BY <2>3, <3>3
      <4> QED BY <3>1, <3>3, <4>1, PageTheSame DEF OnDisplay
    <3> QED BY <3>2, <3>3
  <2>6. d \in [DOMAIN l.nodes -> Nodes]
    <3>1. \A i \in DOMAIN l.nodes : d[i] \in Nodes
      BY <2>5 DEF SameButPage
    <3> QED BY <2>4, <3>1
  <2>a. m = WithNodes(l, d)
    OBVIOUS
  <2> HIDE DEF m
  <2>7. /\ m \in Layouts /\ m.tabs = l.tabs /\ m.nodes = d /\ DOMAIN d = DOMAIN l.nodes
        /\ Distinct(l.nodes) => Distinct(m.nodes)
        /\ \A n \in Range(m.nodes) : \E o \in Range(l.nodes) : n.id = o.id /\ n.disp = o.disp
    BY <2>2, <2>5, <2>6, <2>a, RepagedLayout
  <2>8. ASSUME ~foreign PROVE Paged(m)
    <3> SUFFICES ASSUME NEW i \in DOMAIN d PROVE d[i].page = 0 \/ d[i].page < m.tabs[d[i].disp]
      BY <2>7 DEF Paged, Range
    <3>1. i \in DOMAIN l.nodes /\ l.nodes[i] \in Nodes
      BY <1>2, <2>2, <2>7
    <3>2. CASE d[i].page = 0
      BY <3>2
    <3>3. CASE d[i] = l.nodes[i] /\ d[i].disp # view.disp
      <4>1. d[i].disp \in Displays
        BY <3>1, <3>3, NodeFields
      <4>2. m.tabs[d[i].disp] = lay.tabs[d[i].disp]
        BY <2>2, <2>7, <3>3, <4>1
      <4>3. d[i].page = 0 \/ d[i].page < lay.tabs[d[i].disp]
        BY <1>2, <2>2, <2>8, <3>1, <3>3 DEF Paged
      <4> QED BY <4>2, <4>3
    <3> QED BY <2>5, <3>1, <3>2, <3>3
  <2> QED BY <1>1, <1>3, <2>1, <2>2, <2>7, <2>8, PagesStep
<1>5. CASE ~Tabbed
  <2> DEFINE m == SetTabs(lay, 1)
  <2>1. Edit(m, v)
    BY <1>5, Zenon DEF TabsEnable, v
  <2>2. /\ m \in Layouts /\ m.nodes = lay.nodes /\ m.tabs[view.disp] = 1
        /\ \A e \in Displays : e # view.disp => m.tabs[e] = lay.tabs[e]
    BY <1>2, SetTabsLayout
  <2> HIDE DEF m
  <2>3. ASSUME ~foreign PROVE Paged(m)
    <3> SUFFICES ASSUME NEW n \in Range(lay.nodes) PROVE n.page = 0 \/ n.page < m.tabs[n.disp]
      BY <2>2 DEF Paged
    <3>1. n.page = 0 \/ n.page < lay.tabs[n.disp]
      BY <1>2, <2>3 DEF Paged
    <3>2. n.disp \in Displays /\ n.page \in Nat
      BY <1>2, NodeFields DEF Range
    <3>3. lay.tabs[view.disp] = 0
      BY <1>2, <1>5 DEF Tabbed
    <3> QED BY <2>2, <3>1, <3>2, <3>3
  <2>4. \A n \in Range(m.nodes) : \E o \in Range(lay.nodes) : n.id = o.id /\ n.disp = o.disp
    BY <2>2
  <2> QED BY <1>1, <1>3, <2>1, <2>2, <2>3, <2>4, PagesStep
<1> QED BY <1>4, <1>5

LEMMA TabAddKeeps ==
  ASSUME EditorInv, view.drag = NoDrag, TabAdd
  PROVE  EditorInv'
<1> DEFINE n == lay.tabs[view.disp]
<1>1. Plainly
  BY DEF TabAdd
<1>2. /\ lay \in Layouts /\ view.disp \in Displays /\ n \in Nat
      /\ \A i \in DOMAIN lay.nodes : lay.nodes[i] \in Nodes /\ lay.nodes[i] \in Range(lay.nodes)
      /\ ~foreign => Paged(lay)
  BY TabsBefore
<1>3. CASE n < MaxTabs
  <2> DEFINE m == SetTabs(lay, n + 1)
             v == [view EXCEPT !.tab = n]
  <2>1. Edit(m, v)
    BY <1>3, Zenon DEF TabAdd
  <2>2. EditView(v) /\ v.disp = view.disp /\ v.tab = n /\ v.sel = view.sel
    BY <1>2, TabView
  <2>3. n + 1 \in 0..MaxTabs
    BY <1>2, <1>3, EditorConstants
  <2>4. /\ m \in Layouts /\ m.nodes = lay.nodes /\ m.tabs[view.disp] = n + 1
        /\ \A e \in Displays : e # view.disp => m.tabs[e] = lay.tabs[e]
    BY <1>2, <2>3, SetTabsLayout
  <2> HIDE DEF m, v
  <2>5. ASSUME ~foreign PROVE Paged(m)
    <3> SUFFICES ASSUME NEW x \in Range(lay.nodes) PROVE x.page = 0 \/ x.page < m.tabs[x.disp]
      BY <2>4 DEF Paged
    <3>1. x.page = 0 \/ x.page < lay.tabs[x.disp]
      BY <1>2, <2>5 DEF Paged
    <3>2. x.disp \in Displays /\ x.page \in Nat
      BY <1>2, NodeFields DEF Range
    <3> QED BY <1>2, <2>4, <3>1, <3>2
  <2>6. v.tab < m.tabs[v.disp]
    BY <1>2, <2>2, <2>4
  <2>7. \A x \in Range(m.nodes) : \E o \in Range(lay.nodes) : x.id = o.id /\ x.disp = o.disp
    BY <2>4
  <2> QED BY <1>1, <2>1, <2>2, <2>4, <2>5, <2>6, <2>7, PagesStep
<1>4. CASE ~(n < MaxTabs)
  <2>1. Edit(lay, view)
    BY <1>4, Zenon DEF TabAdd
  <2>2. EditView(view)
    BY BeforeEdit
  <2> QED BY <1>1, <2>1, <2>2, IdleStep
<1> QED BY <1>3, <1>4

LEMMA TabRemoveKeeps ==
  ASSUME EditorInv, view.drag = NoDrag, TabRemove
  PROVE  EditorInv'
<1> DEFINE n == lay.tabs[view.disp]
           v == [view EXCEPT !.sel = NoSel, !.tab = Clamp(view.tab, 0, n - 2)]
<1>1. Plainly /\ n > 1
  BY Zenon DEF TabRemove
<1>2. PICK t \in 0..(n - 1) : Edit(Removed(lay, t), v)
  BY Zenon DEF TabRemove
<1>3. /\ lay \in Layouts /\ EditView(view) /\ view.disp \in Displays /\ view.tab \in Nat
      /\ n \in Nat /\ n <= MaxTabs
      /\ ~foreign => Paged(lay) /\ (view.tab = 0 \/ view.tab < n)
  BY TabsBefore
<1>4. t \in Nat /\ t < n /\ n - 1 \in 0..MaxTabs
  BY <1>1, <1>3, EditorConstants
<1>5. EditView(v) /\ v.disp = view.disp /\ v.sel = NoSel /\ v.tab < n - 1
  <2> DEFINE q == Clamp(view.tab, 0, n - 2)
  <2>1. q \in Nat /\ q < n - 1
    <3>1. view.tab \in Int /\ 0 \in Int /\ n - 2 \in Int /\ 0 <= n - 2
      BY <1>1, <1>3
    <3>2. q \in 0..(n - 2)
      BY <3>1, ClampIn
    <3> HIDE DEF q
    <3> QED BY <1>1, <1>3, <3>2
  <2>2. v = [view EXCEPT !.sel = NoSel, !.tab = q]
    OBVIOUS
  <2> HIDE DEF q, v
  <2> QED BY <1>3, <2>1, <2>2 DEF EditView
<1> HIDE DEF v
<1> DEFINE k == SetTabs(lay, n - 1)
           T == {x \in Range(k.nodes) : ~(OnDisplay(x) /\ x.page = t)}
           l == RemovedUnshifted(lay, t)
<1>6. /\ k \in Layouts /\ k.nodes = lay.nodes /\ k.tabs[view.disp] = n - 1
      /\ \A e \in Displays : e # view.disp => k.tabs[e] = lay.tabs[e]
  BY <1>3, <1>4, SetTabsLayout
<1>7. l = WithNodes(k, Retained(k.nodes, T))
  BY Zenon DEF RemovedUnshifted, WithNodes
<1>8. T = {x \in Range(k.nodes) : ~(x.disp = view.disp /\ x.page = t)}
  BY Zenon DEF OnDisplay
<1> HIDE DEF k, T
<1>9. FewerOf(l, k, T)
  BY <1>6, <1>7, FewerWidgets
<1> DEFINE d == [i \in DOMAIN l.nodes |->
                   IF OnDisplay(l.nodes[i])
                   THEN [l.nodes[i] EXCEPT !.page = IF l.nodes[i].page > t THEN l.nodes[i].page - 1 ELSE l.nodes[i].page]
                   ELSE l.nodes[i]]
           m == WithNodes(l, d)
<1>10. Edit(m, v)
  BY <1>2, Zenon DEF Removed, Repage, WithNodes, v
<1> DEFINE Back(p) == IF p > t THEN p - 1 ELSE p
<1>11. \A i \in DOMAIN l.nodes :
         d[i] = IF OnDisplay(l.nodes[i]) THEN WithPage(l.nodes[i], Back(l.nodes[i].page)) ELSE l.nodes[i]
  BY Zenon DEF WithPage
<1>12. d = [i \in DOMAIN l.nodes |-> d[i]]
  BY Zenon
<1> HIDE DEF d, l
<1>13. ASSUME NEW i \in DOMAIN l.nodes
       PROVE  /\ SameButPage(d[i], l.nodes[i]) /\ l.nodes[i] \in Nodes /\ l.nodes[i] \in Range(l.nodes)
              /\ IF l.nodes[i].disp = view.disp THEN d[i].page = Back(l.nodes[i].page) ELSE d[i] = l.nodes[i]
  <2>1. l.nodes[i] \in Nodes /\ l.nodes[i] \in Range(l.nodes)
    BY <1>9, SeqFacts DEF FewerOf
  <2>2. CASE OnDisplay(l.nodes[i])
    <3>1. d[i] = WithPage(l.nodes[i], Back(l.nodes[i].page))
      BY <1>11, <2>2
    <3>2. Back(l.nodes[i].page) \in Nat
      <4>1. l.nodes[i].page \in Nat
        BY <2>1, NodeFields
      <4> QED BY <1>4, <4>1
    <3> HIDE DEF Back
    <3>3. SameButPage(d[i], l.nodes[i]) /\ d[i].page = Back(l.nodes[i].page)
      BY <2>1, <3>1, <3>2, PageChanged
    <3> QED BY <2>1, <2>2, <3>3 DEF OnDisplay
  <2>3. CASE ~OnDisplay(l.nodes[i])
    <3>1. d[i] = l.nodes[i]
      BY <1>11, <2>3
    <3> QED BY <2>1, <2>3, <3>1, PageTheSame DEF OnDisplay
  <2> QED BY <2>2, <2>3
<1>14. d \in [DOMAIN l.nodes -> Nodes]
  <2>1. \A i \in DOMAIN l.nodes : d[i] \in Nodes
    BY <1>13 DEF SameButPage
  <2> QED BY <1>12, <2>1
<1>15. m = WithNodes(l, d) /\ l \in Layouts
  BY <1>9 DEF FewerOf
<1>16. \A i \in DOMAIN l.nodes : SameButPage(d[i], l.nodes[i])
  BY <1>13
<1> HIDE DEF m
<1>17. /\ m \in Layouts /\ m.tabs = l.tabs /\ m.nodes = d /\ DOMAIN d = DOMAIN l.nodes
       /\ Distinct(l.nodes) => Distinct(m.nodes)
       /\ \A x \in Range(m.nodes) : \E o \in Range(l.nodes) : x.id = o.id /\ x.disp = o.disp
  BY <1>14, <1>15, <1>16, RepagedLayout
<1>18. /\ Distinct(lay.nodes) => Distinct(m.nodes)
       /\ \A x \in Range(m.nodes) : \E o \in Range(lay.nodes) : x.id = o.id /\ x.disp = o.disp
  BY <1>6, <1>9, <1>17 DEF FewerOf
<1>19. ASSUME ~foreign PROVE Paged(m)
  <2> SUFFICES ASSUME NEW i \in DOMAIN l.nodes PROVE d[i].page = 0 \/ d[i].page < m.tabs[d[i].disp]
    BY <1>17 DEF Paged, Range
  <2> DEFINE o == l.nodes[i]
  <2>1. /\ SameButPage(d[i], o) /\ o \in Nodes /\ o \in Range(lay.nodes) /\ o \in T
        /\ IF o.disp = view.disp THEN d[i].page = Back(o.page) ELSE d[i] = o
    BY <1>6, <1>9, <1>13 DEF FewerOf
  <2> HIDE DEF o
  <2>2. o.page \in Nat /\ o.disp \in Displays /\ d[i].disp = o.disp /\ (o.page = 0 \/ o.page < lay.tabs[o.disp])
    BY <1>3, <1>19, <2>1, NodeFields DEF Paged, SameButPage
  <2>3. m.tabs = k.tabs
    BY <1>9, <1>17 DEF FewerOf
  <2>4. CASE o.disp = view.disp
    <3>1. o.page # t
      BY <1>8, <2>1, <2>4
    <3>2. d[i].page = (IF o.page > t THEN o.page - 1 ELSE o.page) /\ m.tabs[d[i].disp] = n - 1 /\ (o.page = 0 \/ o.page < n)
      BY <1>6, <2>1, <2>2, <2>3, <2>4
    <3> QED BY <1>3, <1>4, <2>2, <3>1, <3>2
  <2>5. CASE o.disp # view.disp
    BY <1>6, <2>1, <2>2, <2>3, <2>5
  <2> QED BY <2>4, <2>5
<1>20. v.tab < m.tabs[v.disp]
  BY <1>5, <1>6, <1>9, <1>17 DEF FewerOf
<1> QED BY <1>1, <1>5, <1>10, <1>17, <1>18, <1>19, <1>20, PagesStep

LEMMA TabMoveKeeps ==
  ASSUME EditorInv, view.drag = NoDrag, TabMove
  PROVE  EditorInv'
<1> DEFINE n == lay.tabs[view.disp]
<1>1. Plainly
  BY DEF TabMove
<1>2. PICK t \in 0..(n - 1), j \in 0..(n - 1) :
        Edit(Repage(lay, LAMBDA p : Swap(p, t, j)), [view EXCEPT !.tab = Swap(view.tab, t, j)])
  BY Zenon DEF TabMove
<1> DEFINE swap(p) == Swap(p, t, j)
           v == [view EXCEPT !.tab = swap(view.tab)]
<1>3. /\ lay \in Layouts /\ EditView(view) /\ view.disp \in Displays /\ view.tab \in Nat
      /\ n \in Nat /\ n <= MaxTabs
      /\ \A i \in DOMAIN lay.nodes : lay.nodes[i] \in Nodes /\ lay.nodes[i] \in Range(lay.nodes)
      /\ ~foreign => Paged(lay) /\ (view.tab = 0 \/ view.tab < n)
  BY TabsBefore
<1>4. t \in Nat /\ t < n /\ j \in Nat /\ j < n
  BY <1>3
<1>5. \A p \in Nat : swap(p) \in Nat /\ (p = 0 \/ p < n => swap(p) < n \/ swap(p) = 0)
  BY <1>3, <1>4 DEF Swap
<1> DEFINE d == [i \in DOMAIN lay.nodes |->
                   IF OnDisplay(lay.nodes[i]) THEN [lay.nodes[i] EXCEPT !.page = swap(lay.nodes[i].page)] ELSE lay.nodes[i]]
           m == WithNodes(lay, d)
<1>6. Edit(m, v)
  BY <1>2, Zenon DEF Repage, WithNodes, v
<1>7. \A i \in DOMAIN lay.nodes :
         d[i] = IF OnDisplay(lay.nodes[i]) THEN WithPage(lay.nodes[i], swap(lay.nodes[i].page)) ELSE lay.nodes[i]
  BY Zenon DEF WithPage
<1>8. d = [i \in DOMAIN lay.nodes |-> d[i]]
  BY Zenon
<1>9. EditView(v) /\ v.disp = view.disp /\ v.tab = swap(view.tab) /\ v.sel = view.sel
  <2>1. swap(view.tab) \in Nat
    BY <1>3, <1>5
  <2> HIDE DEF swap
  <2> QED BY <2>1, TabView
<1> HIDE DEF d, v, swap
<1>10. ASSUME NEW i \in DOMAIN lay.nodes
       PROVE  /\ SameButPage(d[i], lay.nodes[i])
              /\ IF lay.nodes[i].disp = view.disp THEN d[i].page = swap(lay.nodes[i].page) ELSE d[i] = lay.nodes[i]
  <2>1. lay.nodes[i] \in Nodes
    BY <1>3
  <2>2. CASE OnDisplay(lay.nodes[i])
    <3>1. d[i] = WithPage(lay.nodes[i], swap(lay.nodes[i].page))
      BY <1>7, <2>2
    <3>2. swap(lay.nodes[i].page) \in Nat
      BY <1>5, <2>1, NodeFields
    <3>3. SameButPage(d[i], lay.nodes[i]) /\ d[i].page = swap(lay.nodes[i].page)
      BY <2>1, <3>1, <3>2, PageChanged
    <3> QED BY <2>2, <3>3 DEF OnDisplay
  <2>3. CASE ~OnDisplay(lay.nodes[i])
    <3>1. d[i] = lay.nodes[i]
      BY <1>7, <2>3
    <3> QED BY <2>1, <2>3, <3>1, PageTheSame DEF OnDisplay
  <2> QED BY <2>2, <2>3
<1>11. d \in [DOMAIN lay.nodes -> Nodes]
  <2>1. \A i \in DOMAIN lay.nodes : d[i] \in Nodes
    BY <1>10 DEF SameButPage
  <2> QED BY <1>8, <2>1
<1>12. m = WithNodes(lay, d)
  OBVIOUS
<1>13. \A i \in DOMAIN lay.nodes : SameButPage(d[i], lay.nodes[i])
  BY <1>10
<1> HIDE DEF m
<1>14. /\ m \in Layouts /\ m.tabs = lay.tabs /\ m.nodes = d /\ DOMAIN d = DOMAIN lay.nodes
       /\ Distinct(lay.nodes) => Distinct(m.nodes)
       /\ \A x \in Range(m.nodes) : \E o \in Range(lay.nodes) : x.id = o.id /\ x.disp = o.disp
  BY <1>3, <1>11, <1>12, <1>13, RepagedLayout
<1>15. ASSUME ~foreign PROVE Paged(m) /\ (v.tab = 0 \/ v.tab < m.tabs[v.disp])
  <2>1. v.tab = 0 \/ v.tab < m.tabs[v.disp]
    BY <1>3, <1>5, <1>9, <1>14, <1>15
  <2>2. Paged(m)
    <3> SUFFICES ASSUME NEW i \in DOMAIN lay.nodes PROVE d[i].page = 0 \/ d[i].page < lay.tabs[d[i].disp]
      BY <1>14 DEF Paged, Range
    <3> DEFINE o == lay.nodes[i]
    <3>1. /\ SameButPage(d[i], o) /\ o \in Nodes /\ o \in Range(lay.nodes)
          /\ IF o.disp = view.disp THEN d[i].page = swap(o.page) ELSE d[i] = o
      BY <1>3, <1>10
    <3> HIDE DEF o
    <3>2. o.page \in Nat /\ d[i].disp = o.disp /\ (o.page = 0 \/ o.page < lay.tabs[o.disp])
      BY <1>3, <1>15, <3>1, NodeFields DEF Paged, SameButPage
    <3>3. CASE o.disp = view.disp
      BY <1>5, <3>1, <3>2, <3>3
    <3>4. CASE o.disp # view.disp
      BY <3>1, <3>2, <3>4
    <3> QED BY <3>3, <3>4
  <2> QED BY <2>1, <2>2
<1> QED BY <1>1, <1>6, <1>9, <1>14, <1>15, PagesStep

LEMMA TabSelectKeeps ==
  ASSUME EditorInv, view.drag = NoDrag, TabSelect
  PROVE  EditorInv'
<1> DEFINE n == lay.tabs[view.disp]
<1>1. PICK t \in 0..(n - 1) : View([view EXCEPT !.tab = t, !.elem = 0, !.sel = NoSel])
  BY DEF TabSelect
<1> DEFINE v == [view EXCEPT !.tab = t, !.elem = 0, !.sel = NoSel]
<1>2. lay \in Layouts /\ EditView(view) /\ n \in Nat
  BY TabsBefore
<1>3. EditView(v) /\ v.disp = view.disp /\ v.tab = t /\ t < n /\ v.sel = NoSel
  BY <1>2 DEF EditView
<1>4. View(v)
  BY <1>1
<1> HIDE DEF v
<1>5. ViewFits(lay, v)
  BY <1>2, <1>3, NobodyIsNoSel DEF ViewFits
<1> QED BY <1>3, <1>4, <1>5, ViewStep

LEMMA SwitchDisplayKeeps ==
  ASSUME EditorInv, view.drag = NoDrag, SwitchDisplay
  PROVE  EditorInv'
<1>1. PICK d \in Displays : View([view EXCEPT !.disp = d, !.tab = 0, !.elem = 0, !.sel = NoSel])
  BY DEF SwitchDisplay
<1> DEFINE v == [view EXCEPT !.disp = d, !.tab = 0, !.elem = 0, !.sel = NoSel]
<1>2. lay \in Layouts /\ EditView(view)
  BY BeforeEdit
<1>3. EditView(v) /\ v.tab = 0 /\ v.sel = NoSel
  BY <1>2 DEF EditView
<1>4. View(v)
  BY <1>1
<1> HIDE DEF v
<1>5. ViewFits(lay, v)
  BY <1>2, <1>3, NobodyIsNoSel DEF ViewFits
<1> QED BY <1>3, <1>4, <1>5, ViewStep

-----------------------------------------------------------------------------
(* Gestures                                                                 *)

LEMMA DragStartKeeps ==
  ASSUME EditorInv, view.drag = NoDrag, DragStart
  PROVE  EditorInv'
<1>1. PICK n \in Visible, by \in {"box", "corner"} :
        View([view EXCEPT !.sel = n.id, !.elem = 0,
                          !.drag = [by |-> by, id |-> n.id, x |-> lay.nodes[At(lay, n.id)].x, w |-> lay.nodes[At(lay, n.id)].w]])
  BY DEF DragStart
<1> DEFINE m == lay.nodes[At(lay, n.id)]
           g == [by |-> by, id |-> n.id, x |-> m.x, w |-> m.w]
           v == [view EXCEPT !.sel = n.id, !.elem = 0, !.drag = g]
<1>2. /\ lay \in Layouts /\ EditView(view)
      /\ ~foreign => UniqueIds(lay) /\ ViewFits(lay, view)
  BY BeforeEdit
<1>3. n \in Range(lay.nodes) /\ n.disp = view.disp /\ n.id \in IdSet(lay)
  BY DEF Visible, OnDisplay, IdSet
<1>4. m \in Nodes
  <2>1. lay.nodes \in Seq(Nodes)
    BY <1>2, LayoutFields
  <2>2. At(lay, n.id) \in DOMAIN lay.nodes
    BY <1>3, <2>1, AtIsThere
  <2> QED BY <2>1, <2>2, SeqFacts
<1>5. view' = v /\ UNCHANGED <<lay, presets, active, uid, dirty, file, pfile, foreign, rekinded>>
  BY <1>1 DEF View
<1>6. /\ m.x \in Nat /\ m.w \in Nat /\ m.w >= MinSize /\ m.x + m.w <= Canvas
  BY <1>4, NodeFields
<1> HIDE DEF m
<1>7. /\ DOMAIN v = {"disp", "tab", "sel", "elem", "drag"} /\ v.disp = view.disp /\ v.tab = view.tab
      /\ v.sel = n.id /\ v.elem = 0 /\ v.drag = g
  BY <1>2 DEF EditView
<1> HIDE DEF v
<1>8. LayInv' /\ PresetInv' /\ FileInv'
  BY <1>5 DEF EditorInv, LayInv, PresetInv, FileInv
<1>9. GestureInv'
  <2>1. Dragged' = m
    BY <1>5, <1>7 DEF Dragged, m
  <2>2. /\ g.by \in {"box", "corner"} /\ g.x \in Nat /\ g.w \in Nat
        /\ g.w >= MinSize /\ g.x + g.w <= Canvas /\ g.w = m.w
    BY <1>6
  <2> HIDE DEF g
  <2> QED BY <1>5, <1>7, <2>1, <2>2 DEF GestureInv
<1>10. ASSUME ~foreign, NEW o \in Range(lay.nodes), o.id = n.id PROVE o.disp = view.disp
  BY <1>2, <1>3, <1>10 DEF UniqueIds, Range
<1>11. ViewInv'
  BY <1>2, <1>3, <1>5, <1>7, <1>10 DEF ViewInv, EditView, ViewFits
<1> QED BY <1>8, <1>9, <1>11 DEF EditorInv

LEMMA DraggedIsThere ==
  ASSUME EditorInv, view.drag.id \in IdSet(lay)
  PROVE  /\ lay \in Layouts /\ At(lay, view.drag.id) \in DOMAIN lay.nodes /\ Dragged = lay.nodes[At(lay, view.drag.id)]
         /\ Dragged \in Nodes /\ Dragged \in Range(lay.nodes)
<1>1. lay \in Layouts /\ lay.nodes \in Seq(Nodes)
  BY LayoutFields DEF EditorInv, LayInv, Fine
<1>2. At(lay, view.drag.id) \in DOMAIN lay.nodes
  BY <1>1, AtIsThere
<1> QED BY <1>1, <1>2, SeqFacts DEF Dragged

\* The widget under the pointer gets another place or size.
LEMMA DragStep ==
  ASSUME EditorInv, NEW n, Drag(n),
         view.drag.id \in IdSet(lay) =>
           /\ n \in Nodes /\ n.id = Dragged.id /\ n.disp = Dragged.disp /\ n.page = Dragged.page /\ SameNumbers(n, Dragged)
           /\ view.drag.by = "box" => n.w = Dragged.w
  PROVE  EditorInv'
<1>1. UNCHANGED <<view, presets, active, uid, dirty, file, pfile, foreign, rekinded>>
  BY DEF Drag
<1>2. PresetInv' /\ FileInv'
  BY <1>1 DEF EditorInv, PresetInv, FileInv
<1>3. CASE view.drag.id \notin IdSet(lay)
  <2>1. lay' = lay
    BY <1>3 DEF Drag
  <2>2. LayInv' /\ ViewInv' /\ GestureInv'
    BY <1>1, <2>1 DEF EditorInv, LayInv, ViewInv, GestureInv, Dragged
  <2> QED BY <1>2, <2>2 DEF EditorInv
<1>4. CASE view.drag.id \in IdSet(lay)
  <2> DEFINE i == At(lay, view.drag.id)
  <2>1. /\ lay \in Layouts /\ i \in DOMAIN lay.nodes /\ Dragged = lay.nodes[i] /\ Dragged \in Range(lay.nodes)
    BY <1>4, DraggedIsThere
  <2>2. lay' = PutAt(lay, i, n)
    BY <1>4, Zenon DEF Drag, PutAt
  <2>3. n \in Nodes /\ n.id = lay.nodes[i].id
    BY <1>4, <2>1
  <2> HIDE DEF i
  <2> DEFINE l == PutAt(lay, i, n)
  <2>4. l = PutAt(lay, i, n)
    OBVIOUS
  <2> HIDE DEF l
  <2>5. /\ l \in Layouts /\ l.nodes = Replaced(lay.nodes, i, n) /\ l.tabs = lay.tabs
        /\ DOMAIN l.nodes = DOMAIN lay.nodes /\ (\A j \in DOMAIN lay.nodes : l.nodes[j].id = lay.nodes[j].id)
        /\ IdSet(l) = IdSet(lay) /\ (UniqueIds(l) <=> UniqueIds(lay))
        /\ \A x \in Range(l.nodes) : x = n \/ x \in Range(lay.nodes)
        /\ Paged(lay) /\ (n.page = 0 \/ n.page < lay.tabs[n.disp]) => Paged(l)
    BY <2>1, <2>3, <2>4, PutWidget, ZenonT(60)
  <2>6. lay' = l
    BY <2>2, <2>4
  <2>7. ~rekinded => Distinct(l.nodes)
    <3>1. NumbersOf(n, lay.nodes[i])
      BY <1>4, <2>1, SameNumbersAt DEF NumbersOf, SameNumbers
    <3>2. ~rekinded => Distinct(lay.nodes)
      BY DEF EditorInv, LayInv, Fine
    <3> QED BY <2>1, <2>5, <3>1, <3>2, PutDistinct
  <2>8. ~foreign => Ordered(l)
    <3>1. ~foreign => Ordered(lay)
      BY DEF EditorInv, LayInv
    <3>2. ~foreign => n.page = 0 \/ n.page < lay.tabs[n.disp]
      BY <1>4, <2>1, <3>1 DEF Ordered, Paged
    <3> QED BY <2>5, <3>1, <3>2 DEF Ordered
  <2>9. LayInv'
    BY <1>1, <2>5, <2>6, <2>7, <2>8 DEF LayInv, Fine
  <2>10. ViewInv'
    <3>1. ASSUME ~foreign, NEW x \in Range(l.nodes), x.id = view.sel PROVE x.disp = view.disp
      BY <1>4, <2>1, <2>3, <2>5, <3>1 DEF EditorInv, ViewInv
    <3> QED BY <1>1, <2>5, <2>6, <3>1 DEF EditorInv, ViewInv
  <2>11. GestureInv'
    <3>1. Dragged' = n
      <4>1. Dragged' = l.nodes[At(l, view.drag.id)]
        BY <1>1, <2>6 DEF Dragged
      <4>2. lay.nodes \in Seq(Nodes) /\ l.nodes \in Seq(Nodes)
        BY <2>1, <2>5, LayoutFields
      <4>3. At(l, view.drag.id) = At(lay, view.drag.id)
        <5> DEFINE id == view.drag.id
        <5>1. id \in IdSet(lay)
          BY <1>4
        <5> HIDE DEF id
        <5>2. DOMAIN l.nodes = DOMAIN lay.nodes /\ (\A j \in DOMAIN lay.nodes : l.nodes[j].id = lay.nodes[j].id)
          BY <2>5
        <5>3. At(l, id) = At(lay, id)
          BY <2>1, <2>5, <5>1, <5>2, SameAt
        <5> QED BY <5>3 DEF id
      <4>4. l.nodes[i] = n
        BY <2>1, <2>5, <4>2, SeqFacts DEF Replaced
      <4> QED BY <4>1, <4>3, <4>4 DEF i
    <3>2. IdSet(lay') = IdSet(lay)
      BY <2>5, <2>6
    <3> QED BY <1>1, <1>4, <3>1, <3>2 DEF EditorInv, GestureInv
  <2> QED BY <1>2, <2>9, <2>10, <2>11 DEF EditorInv
<1> QED BY <1>3, <1>4

LEMMA NodeSnapKeeps ==
  ASSUME EditorInv, view.drag # NoDrag, NodeSnap
  PROVE  EditorInv'
<1> DEFINE others == {n \in Range(lay.nodes) : n.id # view.drag.id /\ OnDisplay(n)}
<1>0. PICK d \in Nudges : \E x \in Snapped(Clamp(view.drag.x + d, 0, Canvas - view.drag.w), view.drag.w, others) :
        Drag([Dragged EXCEPT !.x = x])
  BY Zenon DEF NodeSnap
<1>1. PICK x \in Snapped(Clamp(view.drag.x + d, 0, Canvas - view.drag.w), view.drag.w, others) :
        Drag([Dragged EXCEPT !.x = x])
  BY <1>0, Zenon
<1>2. view.drag.by = "box"
  BY DEF NodeSnap
<1> DEFINE raw == Clamp(view.drag.x + d, 0, Canvas - view.drag.w)
           n   == [Dragged EXCEPT !.x = x]
<1>3. /\ view.drag.x \in Nat /\ view.drag.w \in Nat /\ view.drag.x + view.drag.w <= Canvas
      /\ view.drag.id \in IdSet(lay) => Dragged.w = view.drag.w
  BY <1>2 DEF EditorInv, GestureInv
<1>4. raw \in Nat /\ raw + view.drag.w <= Canvas
  <2>1. view.drag.x + d \in Int /\ 0 \in Int /\ Canvas - view.drag.w \in Int /\ 0 <= Canvas - view.drag.w
    BY <1>3, EditorConstants
  <2>2. raw \in 0..(Canvas - view.drag.w)
    BY <2>1, ClampIn
  <2> HIDE DEF raw
  <2> QED BY <1>3, <2>1, <2>2, EditorConstants
<1>5. others \subseteq Nodes
  <2>1. lay \in Layouts
    BY DEF EditorInv, LayInv, Fine
  <2> QED BY <2>1, LayoutFields, SeqFacts
<1>6. x \in Snapped(raw, view.drag.w, others)
  BY <1>1
<1> HIDE DEF raw, others
<1>7. x \in Nat /\ x + view.drag.w <= Canvas
  BY <1>3, <1>4, <1>5, <1>6, SnapStays
<1>8. ASSUME view.drag.id \in IdSet(lay)
      PROVE  /\ n \in Nodes /\ n.id = Dragged.id /\ n.disp = Dragged.disp /\ n.page = Dragged.page
             /\ SameNumbers(n, Dragged) /\ n.w = Dragged.w
  <2>1. Dragged \in Nodes
    BY <1>8, DraggedIsThere
  <2>2. n \in Nodes
    BY <1>3, <1>7, <1>8, <2>1, NodeWith
  <2> QED BY <2>1, <2>2 DEF Nodes, SameNumbers
<1>9. Drag(n)
  BY <1>1
<1> HIDE DEF n
<1> QED BY <1>8, <1>9, DragStep

LEMMA NodeResizeKeeps ==
  ASSUME EditorInv, view.drag # NoDrag, NodeResize
  PROVE  EditorInv'
<1>1. PICK d \in Nudges : Drag([Dragged EXCEPT !.w = Clamp(view.drag.w + d, MinSize, Canvas - Dragged.x)])
  BY Zenon DEF NodeResize
<1>2. view.drag.by = "corner" /\ view.drag.w \in Nat
  BY DEF NodeResize, EditorInv, GestureInv
<1> DEFINE w == Clamp(view.drag.w + d, MinSize, Canvas - Dragged.x)
           n == [Dragged EXCEPT !.w = w]
<1>3. ASSUME view.drag.id \in IdSet(lay)
      PROVE  /\ n \in Nodes /\ n.id = Dragged.id /\ n.disp = Dragged.disp /\ n.page = Dragged.page
             /\ SameNumbers(n, Dragged)
  <2>1. Dragged \in Nodes
    BY <1>3, DraggedIsThere
  <2>2. Dragged.x \in Nat /\ Dragged.w \in Nat /\ Dragged.w >= MinSize /\ Dragged.x + Dragged.w <= Canvas
    BY <2>1, NodeFields
  <2>3. w \in Nat /\ w >= MinSize /\ Dragged.x + w <= Canvas
    <3>1. view.drag.w + d \in Int /\ MinSize \in Int /\ Canvas - Dragged.x \in Int /\ MinSize <= Canvas - Dragged.x
      BY <1>2, <2>2, EditorConstants
    <3>2. w \in MinSize..(Canvas - Dragged.x)
      BY <3>1, ClampIn
    <3> HIDE DEF w
    <3> QED BY <2>2, <3>1, <3>2, EditorConstants
  <2> HIDE DEF w
  <2>4. n \in Nodes
    BY <2>1, <2>3, NodeWith
  <2> QED BY <2>1, <2>4 DEF Nodes, SameNumbers
<1>4. Drag(n)
  BY <1>1
<1>5. view.drag.by # "box"
  BY <1>2
<1> HIDE DEF n
<1> QED BY <1>3, <1>4, <1>5, DragStep

LEMMA DragEndKeeps ==
  ASSUME EditorInv, DragEnd
  PROVE  EditorInv'
<1> DEFINE v == [view EXCEPT !.drag = NoDrag]
<1>1. (Edit(lay, v) /\ Plainly) \/ View(Seen(lay, v))
  BY DEF DragEnd
<1>2. EditView(v) /\ v.disp = view.disp /\ v.tab = view.tab /\ v.sel = view.sel
  BY DEF EditorInv, ViewInv, EditView
<1> HIDE DEF v
<1>3. /\ lay \in Layouts /\ Fine(lay, rekinded) /\ uid \in Nat /\ rekinded \in BOOLEAN
      /\ ~foreign => Ordered(lay) /\ ViewFits(lay, v)
  BY <1>2 DEF EditorInv, LayInv, ViewInv, PresetInv, Fine, ViewFits
<1>4. CASE Edit(lay, v) /\ Plainly
  BY <1>2, <1>3, <1>4, EditStep DEF Ordered, Plainly
<1>5. CASE View(Seen(lay, v))
  <2> DEFINE u == Seen(lay, v)
  <2>1. EditView(u) /\ u.sel \in IdSet(lay) \cup {NoSel} /\ (ViewFits(lay, v) => ViewFits(lay, u))
    BY <1>2, <1>3, SeenFits
  <2> HIDE DEF u
  <2>2. View(u)
    BY <1>5 DEF u
  <2> QED BY <1>3, <2>1, <2>2, ViewStep
<1> QED BY <1>1, <1>4, <1>5

-----------------------------------------------------------------------------
(* Presets                                                                  *)

LEMMA SavedPresets ==
  ASSUME EditorInv, NEW ps \in Seq(Presets), NEW a \in DOMAIN ps, SavePresets(ps, a), dirty' \in BOOLEAN,
         ps[1].builtin, ~rekinded => \A i \in DOMAIN ps : Distinct(ps[i].nodes)
  PROVE  EditorInv'
<1>1. presets' = ps /\ active' = a /\ pfile' = PresetFile(ps) /\ UNCHANGED <<lay, view, uid, file, foreign, rekinded>>
  BY DEF SavePresets
<1>2. LayInv' /\ ViewInv' /\ GestureInv'
  BY <1>1 DEF EditorInv, LayInv, ViewInv, GestureInv, Dragged
<1>3. PresetInv'
  BY <1>1 DEF EditorInv, PresetInv
<1>4. Len(ps) \in Nat /\ DOMAIN ps = 1..Len(ps) /\ \A i \in DOMAIN ps : ps[i] \in Presets
  BY SeqFacts
<1>5. 1 \in DOMAIN ps
  BY <1>4
<1> DEFINE q == [i \in DOMAIN ps |-> [builtin |-> ps[i].builtin, zone |-> ps[i].zone]]
<1>6. pfile'.there = TRUE /\ pfile'.presets = q
  BY <1>1 DEF PresetFile
<1>7. \A i \in DOMAIN ps : q[i] \in [builtin : BOOLEAN, zone : Ids] /\ q[i].builtin = ps[i].builtin
  BY <1>4 DEF Presets
<1>8. q \in [1..Len(ps) -> [builtin : BOOLEAN, zone : Ids]] /\ DOMAIN q = 1..Len(ps)
  BY <1>4, <1>7
<1> HIDE DEF q
<1>9. q \in Seq([builtin : BOOLEAN, zone : Ids]) /\ q # <<>> /\ q[1].builtin
  <2>1. q \in Seq([builtin : BOOLEAN, zone : Ids])
    BY <1>4, <1>8, FunctionIsSeq
  <2>2. 1 \in DOMAIN q /\ q[1].builtin
    BY <1>4, <1>5, <1>7, <1>8
  <2>3. DOMAIN <<>> = {}
    OBVIOUS
  <2> QED BY <2>1, <2>2, <2>3
<1>10. FileInv'
  BY <1>1, <1>6, <1>9 DEF EditorInv, FileInv
<1> QED BY <1>2, <1>3, <1>10 DEF EditorInv

LEMMA CurrentPreset ==
  ASSUME EditorInv, NEW b \in BOOLEAN
  PROVE  Current(b) \in Presets /\ Current(b).builtin = b /\ (~rekinded => Distinct(Current(b).nodes))
<1>1. lay.nodes \in Seq(Nodes) /\ lay.zone \in Ids
  BY LayoutFields DEF EditorInv, LayInv, Fine
<1> QED BY <1>1 DEF Current, Presets, EditorInv, LayInv, Fine

LEMMA PresetList ==
  ASSUME EditorInv
  PROVE  /\ presets \in Seq(Presets) /\ Len(presets) \in Nat /\ DOMAIN presets = 1..Len(presets)
         /\ 1 \in DOMAIN presets /\ presets[1].builtin /\ active \in DOMAIN presets
         /\ \A i \in DOMAIN presets : presets[i] \in Presets /\ (~rekinded => Distinct(presets[i].nodes))
<1>1. /\ presets \in Seq(Presets) /\ presets[1].builtin /\ active \in DOMAIN presets
      /\ \A i \in DOMAIN presets : ~rekinded => Distinct(presets[i].nodes)
  BY DEF EditorInv, PresetInv
<1>2. Len(presets) \in Nat /\ DOMAIN presets = 1..Len(presets) /\ \A i \in DOMAIN presets : presets[i] \in Presets
  BY <1>1, SeqFacts
<1>3. 1 \in DOMAIN presets
  BY <1>1, <1>2
<1> QED BY <1>1, <1>2, <1>3

LEMMA NewPresetKeeps ==
  ASSUME EditorInv, NewPreset
  PROVE  EditorInv'
<1> DEFINE c == Current(FALSE)
           ps == Append(presets, c)
<1>1. SavePresets(ps, Len(presets) + 1) /\ dirty' = FALSE
  BY DEF NewPreset
<1>2. c \in Presets /\ (~rekinded => Distinct(c.nodes))
  BY CurrentPreset
<1> HIDE DEF c
<1>3. /\ ps \in Seq(Presets) /\ Len(ps) = Len(presets) + 1 /\ DOMAIN ps = 1..(Len(presets) + 1)
      /\ ps[Len(presets) + 1] = c /\ \A i \in 1..Len(presets) : ps[i] = presets[i]
  BY <1>2, PresetList, AppendProperties
<1> HIDE DEF ps
<1>4. Len(presets) + 1 \in DOMAIN ps /\ ps[1].builtin
  BY <1>3, PresetList
<1>5. ~rekinded => \A i \in DOMAIN ps : Distinct(ps[i].nodes)
  <2> SUFFICES ASSUME ~rekinded, NEW i \in DOMAIN ps PROVE Distinct(ps[i].nodes)
    OBVIOUS
  <2>1. i = Len(presets) + 1 \/ i \in 1..Len(presets)
    BY <1>3, PresetList
  <2> QED BY <1>2, <1>3, <2>1, PresetList
<1> QED BY <1>1, <1>3, <1>4, <1>5, SavedPresets

LEMMA UpdatePresetKeeps ==
  ASSUME EditorInv, UpdatePreset
  PROVE  EditorInv'
<1> DEFINE c == Current(presets[active].builtin)
           ps == [presets EXCEPT ![active] = c]
<1>1. SavePresets(ps, active) /\ dirty' = FALSE
  BY DEF UpdatePreset
<1>2. presets[active].builtin \in BOOLEAN
  BY PresetList DEF Presets
<1>3. c \in Presets /\ c.builtin = presets[active].builtin /\ (~rekinded => Distinct(c.nodes))
  BY <1>2, CurrentPreset
<1> HIDE DEF c
<1>4. ps \in Seq(Presets) /\ DOMAIN ps = DOMAIN presets /\ ps[active] = c /\ \A i \in DOMAIN presets : i # active => ps[i] = presets[i]
  BY <1>3, PresetList, ExceptSeq
<1> HIDE DEF ps
<1>5. active \in DOMAIN ps /\ ps[1].builtin
  BY <1>3, <1>4, PresetList
<1>6. ~rekinded => \A i \in DOMAIN ps : Distinct(ps[i].nodes)
  BY <1>3, <1>4, PresetList
<1> QED BY <1>1, <1>4, <1>5, <1>6, SavedPresets

LEMMA DeletePresetKeeps ==
  ASSUME EditorInv, DeletePreset
  PROVE  EditorInv'
<1>1. PICK k \in DOMAIN presets :
        /\ ~presets[k].builtin
        /\ SavePresets(RemoveAt(presets, k), IF active > Len(RemoveAt(presets, k)) THEN 1 ELSE active)
  BY DEF DeletePreset
<1> DEFINE ps == RemoveAt(presets, k)
           a == IF active > Len(ps) THEN 1 ELSE active
           n == Len(presets)
<1>2. n \in Nat /\ k \in 1..n /\ k # 1
  BY <1>1, PresetList
<1>3. /\ ps \in Seq(Presets) /\ Len(ps) = n - 1
      /\ \A j \in 1..n-1 : ps[j] = IF j < k THEN presets[j] ELSE presets[j+1]
  BY <1>2, PresetList, RemovedAt
<1>4. SavePresets(ps, a)
  BY <1>1
<1> HIDE DEF ps
<1>5. DOMAIN ps = 1..(n - 1)
  BY <1>2, <1>3, SeqFacts
<1>6. a \in DOMAIN ps /\ ps[1].builtin
  BY <1>2, <1>3, <1>5, PresetList
<1> HIDE DEF a
<1>7. ~rekinded => \A i \in DOMAIN ps : Distinct(ps[i].nodes)
  <2> SUFFICES ASSUME ~rekinded, NEW i \in DOMAIN ps PROVE Distinct(ps[i].nodes)
    OBVIOUS
  <2>1. i \in DOMAIN presets /\ i + 1 \in DOMAIN presets
    BY <1>2, <1>5, PresetList
  <2>2. ps[i] = presets[i] \/ ps[i] = presets[i + 1]
    BY <1>3, <1>5
  <2> QED BY <2>1, <2>2, PresetList
<1>8. dirty' \in BOOLEAN
  BY DEF DeletePreset, EditorInv, PresetInv
<1> QED BY <1>3, <1>4, <1>6, <1>7, <1>8, SavedPresets

-----------------------------------------------------------------------------
(* Layouts that replace the one of the editor                               *)

LEMMA ReplaceStep ==
  ASSUME EditorInv, NEW l, Fine(l, rekinded), lay' = l, file'.there = TRUE, file'.lay = l,
         EditView(view'), view'.sel \in IdSet(l) \cup {NoSel}, foreign' \in BOOLEAN,
         ~foreign' => Ordered(l) /\ ViewFits(l, view'),
         active' \in DOMAIN presets, uid' \in Nat, dirty' \in BOOLEAN, UNCHANGED <<presets, pfile, rekinded>>
  PROVE  EditorInv'
<1>1. LayInv'
  BY DEF LayInv
<1>2. GestureInv'
  BY DEF GestureInv, EditView
<1>3. ViewInv'
  BY DEF ViewInv, EditView, ViewFits
<1>4. PresetInv'
  BY DEF EditorInv, PresetInv
<1>5. FileInv'
  BY DEF EditorInv, FileInv
<1> QED BY <1>1, <1>2, <1>3, <1>4, <1>5 DEF EditorInv

ZonedWith(l, z, s) == [l EXCEPT !.zone = z, !.nodes = s]

LEMMA ZonedLayout ==
  ASSUME NEW l \in Layouts, NEW z \in Ids, NEW s \in Seq(Nodes)
  PROVE  /\ ZonedWith(l, z, s) \in Layouts /\ ZonedWith(l, z, s).nodes = s /\ ZonedWith(l, z, s).tabs = l.tabs
BY DEF ZonedWith, Layouts

LEMMA SelectPresetKeeps ==
  ASSUME EditorInv, view.drag = NoDrag, SelectPreset
  PROVE  EditorInv'
<1>1. PICK i \in DOMAIN presets :
        LET l == [lay EXCEPT !.zone = presets[i].zone, !.nodes = presets[i].nodes]
        IN  lay' = l /\ active' = i /\ file' = [there |-> TRUE, lay |-> l, active |-> i]
  BY DEF SelectPreset
<1>2. /\ view' = [view EXCEPT !.sel = NoSel] /\ dirty' = FALSE /\ foreign' = TRUE
      /\ UNCHANGED <<presets, uid, pfile, rekinded>>
  BY DEF SelectPreset
<1> DEFINE l == ZonedWith(lay, presets[i].zone, presets[i].nodes)
<1>3. lay' = l /\ active' = i /\ file'.there = TRUE /\ file'.lay = l
  BY <1>1 DEF ZonedWith
<1>4. presets[i].zone \in Ids /\ presets[i].nodes \in Seq(Nodes) /\ (~rekinded => Distinct(presets[i].nodes))
  BY PresetList DEF Presets
<1>5. lay \in Layouts /\ EditView(view) /\ uid \in Nat
  BY BeforeEdit
<1>6. l \in Layouts /\ l.nodes = presets[i].nodes
  BY <1>4, <1>5, ZonedLayout
<1> HIDE DEF l
<1>7. Fine(l, rekinded)
  BY <1>4, <1>6 DEF Fine
<1>8. EditView(view') /\ view'.sel = NoSel
  BY <1>2, <1>5 DEF EditView
<1> QED BY <1>2, <1>3, <1>5, <1>7, <1>8, ReplaceStep

\* The widgets of the editor are made anew.
LEMMA RedrawnFits ==
  ASSUME EditorInv, NEW l
  PROVE  /\ EditView(Redrawn(l)) /\ Redrawn(l).sel \in IdSet(l) \cup {NoSel}
         /\ Redrawn(l).disp = view.disp /\ Redrawn(l).tab = view.tab
         /\ Redrawn(l).sel \in {view.sel, NoSel}
BY DEF EditorInv, ViewInv, EditView, Redrawn, Seen

LEMMA ApplyLayoutKeeps ==
  ASSUME EditorInv, NEW d, Fine(d.lay, rekinded), ApplyLayout(d)
  PROVE  EditorInv'
<1> DEFINE o == d.lay
           s == [i \in DOMAIN o.nodes |-> [o.nodes[i] EXCEPT !.id = <<"m", uid + i - 1>>]]
           l == WithNodes(o, s)
<1>1. /\ lay' = l /\ uid' = uid + Len(l.nodes) /\ view' = Redrawn(l) /\ dirty' = FALSE /\ file' = Snapshot(l)
      /\ foreign' = TRUE /\ UNCHANGED <<presets, active, pfile, rekinded>>
  BY Zenon DEF ApplyLayout, WithNodes
<1>2. o \in Layouts /\ o.nodes \in Seq(Nodes)
  BY LayoutFields DEF Fine
<1>3. Len(o.nodes) \in Nat /\ DOMAIN o.nodes = 1..Len(o.nodes) /\ \A i \in DOMAIN o.nodes : o.nodes[i] \in Nodes
  BY <1>2, SeqFacts
<1>4. ASSUME NEW i \in DOMAIN o.nodes PROVE s[i] \in Nodes /\ SameNumbers(s[i], o.nodes[i])
  <2>1. uid + i - 1 \in Nat
    BY <1>3 DEF EditorInv, PresetInv
  <2>2. <<"m", uid + i - 1>> \in Ids
    BY <2>1 DEF Ids
  <2> DEFINE id == <<"m", uid + i - 1>>
  <2>3. s[i] = [o.nodes[i] EXCEPT !.id = id]
    OBVIOUS
  <2>4. id \in Ids
    BY <2>2
  <2> HIDE DEF id, s
  <2>5. o.nodes[i] \in Nodes
    BY <1>3
  <2>6. s[i] \in Nodes
    BY <2>3, <2>4, <2>5, NodeWith
  <2> QED BY <2>3, <2>5, <2>6 DEF SameNumbers, Nodes
<1>5. DOMAIN s = DOMAIN o.nodes /\ s = [i \in DOMAIN o.nodes |-> s[i]]
  OBVIOUS
<1> HIDE DEF s
<1>6. s \in Seq(Nodes) /\ Len(s) = Len(o.nodes)
  <2>1. s \in [1..Len(o.nodes) -> Nodes]
    BY <1>3, <1>4, <1>5
  <2> QED BY <1>3, <2>1, FunctionIsSeq
<1>7. l \in Layouts /\ l.nodes = s
  BY <1>2, <1>6, WithNodesLayout
<1>8. ~rekinded => Distinct(s)
  <2>1. ~rekinded => Distinct(o.nodes)
    BY DEF Fine
  <2> QED BY <1>4, <1>5, <2>1, RenumberedDistinct
<1> HIDE DEF l
<1>9. Fine(l, rekinded)
  BY <1>7, <1>8 DEF Fine
<1>10. file'.there = TRUE /\ file'.lay = l
  BY <1>1 DEF Snapshot
<1>11. uid' \in Nat /\ active' \in DOMAIN presets
  BY <1>1, <1>3, <1>6, <1>7 DEF EditorInv, PresetInv
<1>12. EditView(view') /\ view'.sel \in IdSet(l) \cup {NoSel}
  BY <1>1, RedrawnFits
<1> QED BY <1>1, <1>9, <1>10, <1>11, <1>12, ReplaceStep

\* The widget of the zones.
LEMMA DefaultFits ==
  ASSUME NEW z \in Ids
  PROVE  /\ DefaultNodes(z) \in Seq(Nodes) /\ Distinct(DefaultNodes(z)) /\ DefaultNodes(z) # <<>>
         /\ \A l : l.nodes = DefaultNodes(z) => Ordered(l)
<1> DEFINE w == ZoneWidget(z)
<1>1. /\ Size["stat"] \in Nat /\ MinSize <= Size["stat"] /\ Size["stat"] <= Canvas /\ "stat" \in DOMAIN Size
      /\ MaxHid \in Nat
  BY EditorConstants
<1>2. 0 \in 0..MaxHid /\ 0 \in Displays /\ Size["stat"] >= MinSize /\ 0 + Size["stat"] <= Canvas
  BY <1>1, EditorConstants DEF Displays
<1>3. /\ w \in Nodes /\ w.page = 0 /\ w.els = <<>>
      /\ NumberAt(w, 0) = IF "stat" = "button" THEN 0 ELSE 0
  BY <1>1, <1>2, NewWidget DEF ZoneWidget
<1> HIDE DEF w
<1>4. DefaultNodes(z) = <<w>>
  BY DEF DefaultNodes, w
<1>5. DefaultNodes(z) \in Seq(Nodes) /\ DefaultNodes(z) # <<>>
  BY <1>3, <1>4
<1>6. DOMAIN <<w>> = {1} /\ <<w>>[1] = w /\ Len(<<>>) = 0
  OBVIOUS
<1>7. Distinct(<<w>>)
  <2>1. \A k \in 0..Len(w.els) : NumberAt(w, k) = 0
    BY <1>3, <1>6
  <2> QED BY <1>6, <2>1 DEF Distinct
<1>8. ASSUME NEW l, l.nodes = <<w>> PROVE Ordered(l)
  BY <1>3, <1>6, <1>8 DEF Ordered, UniqueIds, Paged, Range
<1> QED BY <1>4, <1>5, <1>7, <1>8

LEMMA ApplyZonesKeeps ==
  ASSUME EditorInv, ApplyZones
  PROVE  EditorInv'
<1> DEFINE z == <<"m", uid>>
           s == IF lay.nodes = <<>> THEN DefaultNodes(z) ELSE lay.nodes
           l == ZonedWith(lay, z, s)
<1>1. /\ lay' = l /\ uid' = uid + 1 /\ view' = Redrawn(l) /\ dirty' = FALSE /\ file' = Snapshot(l)
      /\ UNCHANGED <<presets, active, pfile, foreign, rekinded>>
  BY Zenon DEF ApplyZones, ZonedWith
<1>2. lay \in Layouts /\ lay.nodes \in Seq(Nodes) /\ uid \in Nat /\ (~rekinded => Distinct(lay.nodes)) /\ (~foreign => Ordered(lay))
  BY LayoutFields DEF EditorInv, LayInv, PresetInv, Fine
<1>3. z \in Ids
  BY <1>2 DEF Ids
<1> HIDE DEF z
<1>4. /\ s \in Seq(Nodes) /\ (~rekinded => Distinct(s))
      /\ s = lay.nodes \/ (lay.nodes = <<>> /\ s = DefaultNodes(z))
  BY <1>2, <1>3, DefaultFits
<1> HIDE DEF s
<1>5. l \in Layouts /\ l.nodes = s /\ l.tabs = lay.tabs
  BY <1>2, <1>3, <1>4, ZonedLayout
<1> HIDE DEF l
<1>6. Fine(l, rekinded)
  BY <1>4, <1>5 DEF Fine
<1>7. file'.there = TRUE /\ file'.lay = l
  BY <1>1 DEF Snapshot
<1>8. uid' \in Nat /\ active' \in DOMAIN presets /\ foreign' \in BOOLEAN
  BY <1>1 DEF EditorInv, PresetInv
<1>9. /\ EditView(view') /\ view'.sel \in IdSet(l) \cup {NoSel}
      /\ view'.disp = view.disp /\ view'.tab = view.tab /\ view'.sel \in {view.sel, NoSel}
  BY <1>1, RedrawnFits
<1>10. ASSUME ~foreign PROVE Ordered(l) /\ ViewFits(l, view')
  <2>1. view.tab = 0 \/ view.tab < lay.tabs[view.disp]
    BY <1>10 DEF EditorInv, ViewInv
  <2>2. CASE s = lay.nodes
    <3>1. Ordered(l)
      BY <1>2, <1>5, <1>10, <2>2 DEF Ordered, UniqueIds, Paged
    <3>2. ASSUME NEW n \in Range(l.nodes), n.id = view'.sel PROVE n.disp = view'.disp
      BY <1>5, <1>9, <1>10, <2>2, <3>2, NobodyIsNoSel DEF EditorInv, ViewInv
    <3> QED BY <1>5, <1>9, <2>1, <3>1, <3>2 DEF ViewFits
  <2>3. CASE lay.nodes = <<>> /\ s = DefaultNodes(z)
    <3>1. Ordered(l)
      BY <1>3, <1>5, <2>3, DefaultFits
    <3>2. IdSet(lay) = {}
      BY <2>3 DEF IdSet, Range
    <3>3. view'.sel = NoSel
      BY <1>9, <3>2 DEF EditorInv, ViewInv
    <3> QED BY <1>5, <1>9, <2>1, <3>1, <3>3, NobodyIsNoSel DEF ViewFits
  <2> QED BY <1>4, <2>2, <2>3
<1> QED BY <1>1, <1>6, <1>7, <1>8, <1>9, <1>10, ReplaceStep

-----------------------------------------------------------------------------
(* The start of the dashboard                                               *)

LEMMA SeedFits ==
  /\ SeedPreset \in Presets /\ SeedPreset.builtin /\ SeedPreset.nodes = DefaultNodes(SeedPreset.zone)
<1>1. <<"stat", 0>> \in Ids
  BY EditorConstants DEF Ids
<1> DEFINE z == <<"stat", 0>>
<1>2. z \in Ids
  BY <1>1
<1>3. SeedPreset = [builtin |-> TRUE, zone |-> z, nodes |-> DefaultNodes(z)]
  BY DEF SeedPreset
<1> HIDE DEF z
<1> QED BY <1>2, <1>3, DefaultFits DEF Presets

\* A list of presets the dashboard starts from.
StartList(ps) ==
  /\ ps \in Seq(Presets) /\ 1 \in DOMAIN ps /\ ps[1].builtin
  /\ \A i \in DOMAIN ps : ps[i].zone \in Ids /\ ps[i].nodes = DefaultNodes(ps[i].zone)

LEMMA SeedStarted == StartList(<<SeedPreset>>)
<1> DEFINE p == SeedPreset
<1>1. p \in Presets /\ p.builtin /\ p.nodes = DefaultNodes(p.zone)
  BY SeedFits
<1> HIDE DEF p
<1>2. <<p>> \in Seq(Presets) /\ DOMAIN <<p>> = {1} /\ <<p>>[1] = p
  BY <1>1
<1> QED BY <1>1, <1>2 DEF StartList, Presets, p

LEMMA LoadedStarted ==
  ASSUME EditorInv
  PROVE  StartList(LoadPresets(pfile))
<1>1. CASE ~pfile.there
  BY <1>1, SeedStarted DEF LoadPresets
<1>2. CASE pfile.there
  <2> DEFINE P == [builtin : BOOLEAN, zone : Ids]
             q == pfile.presets
             ps == [i \in DOMAIN q |-> [builtin |-> q[i].builtin, zone |-> q[i].zone, nodes |-> DefaultNodes(q[i].zone)]]
  <2>1. q \in Seq(P) /\ q # <<>> /\ q[1].builtin
    BY <1>2 DEF EditorInv, FileInv
  <2>2. LoadPresets(pfile) = ps
    BY <1>2 DEF LoadPresets
  <2> HIDE DEF q
  <2>3. Len(q) \in Nat /\ DOMAIN q = 1..Len(q) /\ \A i \in DOMAIN q : q[i].builtin \in BOOLEAN /\ q[i].zone \in Ids
    <3>1. Len(q) \in Nat /\ DOMAIN q = 1..Len(q) /\ \A i \in DOMAIN q : q[i] \in P
      BY <2>1, SeqFacts
    <3> QED BY <3>1
  <2>4. 1 \in DOMAIN q
    BY <2>1, <2>3
  <2>5. ASSUME NEW i \in DOMAIN q
        PROVE  ps[i] \in Presets /\ ps[i].builtin = q[i].builtin /\ ps[i].zone \in Ids /\ ps[i].nodes = DefaultNodes(ps[i].zone)
    BY <2>3, DefaultFits DEF Presets
  <2>6. DOMAIN ps = DOMAIN q /\ ps = [i \in DOMAIN q |-> ps[i]]
    OBVIOUS
  <2> HIDE DEF ps
  <2>7. ps \in Seq(Presets)
    <3>1. ps \in [1..Len(q) -> Presets]
      BY <2>3, <2>5, <2>6
    <3> QED BY <2>3, <3>1, FunctionIsSeq
  <2> QED BY <2>1, <2>2, <2>4, <2>5, <2>6, <2>7 DEF StartList
<1> QED BY <1>1, <1>2 DEF EditorInv, FileInv

\* The layout of the file, or of the first preset.
LEMMA LoadedLayout ==
  ASSUME NEW ps, StartList(ps), NEW f, f.there \in BOOLEAN, NEW r \in BOOLEAN, NEW g \in BOOLEAN,
         f.there => Fine(f.lay, r) /\ (~g => Ordered(f.lay))
  PROVE  Fine(LoadLayout(f, ps), r) /\ (~g => Ordered(LoadLayout(f, ps)))
<1>1. CASE ~f.there
  <2> DEFINE z == ps[1].zone
             l == [nodes |-> DefaultNodes(z), tabs |-> [d \in Displays |-> 0], zone |-> z]
  <2>1. z \in Ids /\ ps[1].nodes = DefaultNodes(z)
    BY DEF StartList
  <2>2. LoadLayout(f, ps) = l
    BY <1>1, <2>1 DEF LoadLayout
  <2> HIDE DEF z
  <2>3. l \in Layouts
    <3>1. 0 \in 0..MaxTabs
      BY EditorConstants
    <3>2. [d \in Displays |-> 0] \in [Displays -> 0..MaxTabs]
      BY <3>1
    <3> DEFINE t == [d \in Displays |-> 0]
    <3> HIDE DEF t
    <3>3. [nodes |-> DefaultNodes(z), tabs |-> t, zone |-> z] \in Layouts
      BY <2>1, <3>2, DefaultFits DEF Layouts, t
    <3> QED BY <3>3 DEF t
  <2>4. l.nodes = DefaultNodes(z)
    OBVIOUS
  <2> HIDE DEF l
  <2> QED BY <2>1, <2>2, <2>3, <2>4, DefaultFits DEF Fine
<1>2. CASE f.there /\ f.lay.nodes = <<>>
  <2> DEFINE z == f.lay.zone
             l == WithNodes(f.lay, DefaultNodes(z))
  <2>1. LoadLayout(f, ps) = l
    BY <1>2 DEF LoadLayout, WithNodes
  <2>2. f.lay \in Layouts /\ z \in Ids
    BY <1>2, LayoutFields DEF Fine
  <2> HIDE DEF z
  <2>3. l \in Layouts /\ l.nodes = DefaultNodes(z)
    BY <2>2, DefaultFits, WithNodesLayout
  <2> HIDE DEF l
  <2> QED BY <2>1, <2>2, <2>3, DefaultFits DEF Fine
<1>3. CASE f.there /\ f.lay.nodes # <<>>
  BY <1>3 DEF LoadLayout
<1> QED BY <1>1, <1>2, <1>3

\* Nothing is selected and nothing dragged.
LEMMA BlankFits ==
  /\ EditView(Blank) /\ Blank.sel = NoSel /\ Blank.tab = 0
BY DEF EditView, Blank, Displays

\* What a start of the dashboard comes to.
LEMMA StartStep ==
  ASSUME NEW ps, StartList(ps), NEW l, Fine(l, rekinded'), foreign' \in BOOLEAN, rekinded' \in BOOLEAN,
         ~foreign' => Ordered(l), lay' = l, view' = Blank, presets' = ps, active' \in DOMAIN ps, uid' \in Nat,
         dirty' \in BOOLEAN, FileInv'
  PROVE  EditorInv'
<1>1. LayInv'
  BY DEF LayInv
<1>2. GestureInv'
  BY BlankFits DEF GestureInv, EditView
<1>3. ViewInv'
  <2>1. l \in Layouts
    BY DEF Fine
  <2> QED BY <2>1, BlankFits, NobodyIsNoSel DEF ViewInv, EditView
<1>4. PresetInv'
  BY DefaultFits DEF PresetInv, StartList
<1> QED BY <1>1, <1>2, <1>3, <1>4 DEF EditorInv

LEMMA ReopenKeeps ==
  ASSUME EditorInv, NEW f, f = file \/ f = NoFile, Reopen(f)
  PROVE  EditorInv'
<1> DEFINE ps == LoadPresets(pfile)
           l  == LoadLayout(f, ps)
<1>1. /\ presets' = ps /\ lay' = l /\ file' = f /\ view' = Blank /\ dirty' = FALSE
      /\ active' = IF f.there /\ f.active \in DOMAIN ps THEN f.active ELSE 1
      /\ uid' = IF pfile.there THEN RestartUid ELSE SeedUid
      /\ UNCHANGED <<pfile, foreign, rekinded>>
  BY DEF Reopen
<1>2. StartList(ps)
  BY LoadedStarted
<1> HIDE DEF ps
<1>3. rekinded \in BOOLEAN /\ foreign \in BOOLEAN
  BY DEF EditorInv, PresetInv
<1>4. f.there \in BOOLEAN /\ (f.there => Fine(f.lay, rekinded) /\ (~foreign => Ordered(f.lay)))
  <2>1. NoFile.there = FALSE
    BY DEF NoFile
  <2> QED BY <2>1 DEF EditorInv, FileInv
<1>5. Fine(l, rekinded) /\ (~foreign => Ordered(l))
  BY <1>2, <1>3, <1>4, LoadedLayout
<1> HIDE DEF l
<1>6. FileInv'
  BY <1>1, <1>4 DEF EditorInv, FileInv
<1>7. active' \in DOMAIN ps /\ uid' \in Nat
  BY <1>1, <1>2, EditorConstants DEF StartList
<1> QED BY <1>1, <1>2, <1>3, <1>5, <1>6, <1>7, StartStep

LEMMA InitEditorInv == InitEditor => EditorInv
<1> SUFFICES ASSUME InitEditor PROVE EditorInv
  OBVIOUS
<1> DEFINE ps == <<SeedPreset>>
           l  == LoadLayout(NoFile, ps)
<1>1. /\ presets = ps /\ active = 1 /\ lay = l /\ view = Blank /\ uid = SeedUid /\ dirty = FALSE
      /\ file = NoFile /\ pfile = NoFile /\ foreign = FALSE /\ rekinded = FALSE
  BY DEF InitEditor
<1>2. StartList(ps)
  BY SeedStarted
<1> HIDE DEF ps
<1>3. NoFile.there = FALSE
  BY DEF NoFile
<1>4. Fine(l, rekinded) /\ (~foreign => Ordered(l))
  <2>1. rekinded \in BOOLEAN /\ foreign \in BOOLEAN /\ NoFile.there \in BOOLEAN /\ ~NoFile.there
    BY <1>1, <1>3
  <2> QED BY <1>2, <2>1, LoadedLayout
<1> HIDE DEF l
<1>5. LayInv
  BY <1>1, <1>4 DEF LayInv
<1>6. GestureInv
  BY <1>1, BlankFits DEF GestureInv, EditView
<1>7. ViewInv
  <2>1. l \in Layouts
    BY <1>4 DEF Fine
  <2> QED BY <1>1, <2>1, BlankFits, NobodyIsNoSel DEF ViewInv, EditView
<1>8. PresetInv
  BY <1>1, <1>2, DefaultFits, EditorConstants DEF PresetInv, StartList
<1>9. FileInv
  BY <1>1, <1>3 DEF FileInv
<1> QED BY <1>5, <1>6, <1>7, <1>8, <1>9 DEF EditorInv

-----------------------------------------------------------------------------
(* Documents on their way                                                   *)

LEMMA EdLater ==
  ASSUME NEW v, NEW r \in BOOLEAN, NEW s \in BOOLEAN, r => s, EdOk(v, r)
  PROVE  EdOk(v, s)
BY FineMonotone DEF EdOk

LEMMA NothingIsFine ==
  ASSUME NEW r
  PROVE  EdOk(Nil, r)
BY DEF EdOk

LEMMA DocsLater ==
  ASSUME DocInv, UNCHANGED <<blob, nvs, ram, work, line, tasks, uiq>>, "todo" \in DOMAIN ui', ui'.todo = ui.todo,
         rekinded \in BOOLEAN, rekinded' \in BOOLEAN, rekinded => rekinded'
  PROVE  DocInv'
<1>1. \A v : EdOk(v, rekinded) => EdOk(v, rekinded')
  BY EdLater
<1>2. \A c, v : Sent(c, v) => Sent(c, v)'
  BY <1>1 DEF Sent
<1>3. FlashDocs'
  BY <1>1 DEF DocInv, FlashDocs
<1>4. WorkDocs'
  BY <1>1 DEF DocInv, WorkDocs
<1>5. SentDocs'
  BY <1>2 DEF DocInv, SentDocs
<1>6. TaskDocs'
  BY <1>1 DEF DocInv, TaskDocs
<1>7. QueueDocs'
  BY <1>1 DEF DocInv, QueueDocs
<1> QED BY <1>3, <1>4, <1>5, <1>6, <1>7 DEF DocInv

LEMMA NoWorkDocs ==
  ASSUME work' = NoWork
  PROVE  WorkDocs'
<1> DEFINE none == {}
<1>1. "todo" \in DOMAIN work' /\ work'.todo = <<>> /\ <<>> \in Seq(none)
  BY EmptySeq DEF NoWork
<1>2. \A e \in none : e.key = "ed" => EdOk(e.val, rekinded')
  OBVIOUS
<1> HIDE DEF none
<1> QED BY <1>1, <1>2 DEF WorkDocs

LEMMA AcceptDocs ==
  ASSUME FlashDocs, rekinded' = rekinded, NEW values, NEW writes, NEW restart, Accept(values, writes, restart),
         "ed" \in DOMAIN values => EdOk(values["ed"], rekinded),
         NEW S, writes \in Seq(S), \A e \in S : e.key = "ed" => EdOk(e.val, rekinded)
  PROVE  FlashDocs' /\ WorkDocs'
<1>1. /\ ram' = [k \in Keys |-> IF k \in DOMAIN values THEN values[k] ELSE ram[k]]
      /\ work' = [todo |-> writes, answer |-> "OK", restart |-> restart] /\ UNCHANGED <<blob, nvs>>
  BY DEF Accept, flash
<1>2. "ed" \in Keys
  BY DEF Keys, BlobKeys
<1>3. EdOk(ram'["ed"], rekinded')
  BY <1>1, <1>2 DEF FlashDocs
<1>4. FlashDocs'
  BY <1>1, <1>3 DEF FlashDocs
<1>5. "todo" \in DOMAIN work' /\ work'.todo = writes
  BY <1>1
<1> QED BY <1>4, <1>5 DEF WorkDocs

LEMMA SetStrDocs ==
  ASSUME NEW k, NEW v, NEW r, k = "ed" => EdOk(v, r)
  PROVE  \E S : SetStr(k, v) \in Seq(S) /\ \A e \in S : e.key \in {k} /\ (e.key = "ed" => EdOk(e.val, r))
<1> DEFINE a == Put(k, v)  b == Retire(k)  S == {a, b}
<1>1. SetStr(k, v) = <<a, b>> \/ SetStr(k, v) = <<a>>
  BY DEF SetStr
<1>2. \A e \in S : e.key = k /\ (e.key = "ed" => EdOk(e.val, r))
  BY NothingIsFine DEF Put, Retire
<1> HIDE DEF a, b
<1>3. <<a, b>> \in Seq(S) /\ <<a>> \in Seq(S)
  OBVIOUS
<1> HIDE DEF S
<1> QED BY <1>1, <1>2, <1>3

LEMMA OneDocs ==
  ASSUME FlashDocs, rekinded' = rekinded, NEW k, NEW v, NEW restart, Accept(One(k, v), SetStr(k, v), restart),
         k = "ed" => EdOk(v, rekinded)
  PROVE  FlashDocs' /\ WorkDocs'
<1>1. PICK S : SetStr(k, v) \in Seq(S) /\ \A e \in S : e.key = "ed" => EdOk(e.val, rekinded)
  BY SetStrDocs
<1>2. DOMAIN One(k, v) = {k} /\ One(k, v)[k] = v
  BY DEF One
<1> QED BY <1>1, <1>2, AcceptDocs

LEMMA HandleDocs ==
  ASSUME FlashDocs, WorkDocs, rekinded' = rekinded, NEW cmd \in Commands, NEW v, Handle(cmd, v),
         cmd = "EL" => EdOk(v, rekinded)
  PROVE  FlashDocs' /\ WorkDocs'
<1>0. <<>> \in Seq({})
  BY EmptySeq
<1>1. CASE v.text = "torn" /\ cmd \in Validated
  <2>1. Refuse
    BY <1>1 DEF Handle
  <2>2. "todo" \in DOMAIN work' /\ work'.todo = <<>> /\ UNCHANGED <<blob, nvs, ram>>
    BY <2>1 DEF Refuse, NoWork, memory, flash
  <2> QED BY <1>0, <2>2 DEF FlashDocs, WorkDocs
<1>2. CASE ~(v.text = "torn" /\ cmd \in Validated)
  <2>1. CASE cmd = "UI"
    <3>1. Accept(One("ui", v), SetStr("ui", v), FALSE)
      BY <1>2, <2>1 DEF Handle, HandleUi
    <3> QED BY <3>1, OneDocs
  <2>2. CASE cmd = "C"
    <3>1. Accept(<<>>, <<>>, FALSE) \/ Accept(One("car", v), SetStr("car", v), FALSE)
      BY <1>2, <2>2 DEF Handle, HandleCar
    <3>2. CASE Accept(<<>>, <<>>, FALSE)
      <4> DEFINE none == <<>>  S == {}
      <4>1. "ed" \notin DOMAIN none
        OBVIOUS
      <4>2. none \in Seq(S)
        BY <1>0
      <4>3. \A e \in S : e.key = "ed" => EdOk(e.val, rekinded)
        OBVIOUS
      <4>4. Accept(none, none, FALSE)
        BY <3>2
      <4> HIDE DEF none, S
      <4> QED BY <4>1, <4>2, <4>3, <4>4, AcceptDocs
    <3>3. CASE Accept(One("car", v), SetStr("car", v), FALSE)
      BY <3>3, OneDocs
    <3> QED BY <3>1, <3>2, <3>3
  <2>3. CASE cmd = "BS"
    <3> DEFINE values == [k \in {"btn", Pages} |-> IF k = "btn" THEN v ELSE v.n]
               s == SetStr("btn", v)
               p == Put(Pages, v.n)
    <3>1. Accept(values, Append(s, p), FALSE)
      BY <1>2, <2>3 DEF Handle, HandleButtons
    <3>2. PICK S : s \in Seq(S) /\ \A e \in S : e.key \in {"btn"}
      BY SetStrDocs
    <3>3. "ed" \notin DOMAIN values
      BY DEF Pages
    <3>4. p.key # "ed"
      BY DEF Put, Pages
    <3> DEFINE T == S \cup {p}
    <3>5. \A e \in T : e.key # "ed"
      BY <3>2, <3>4
    <3> HIDE DEF values, s, p
    <3>6. Append(s, p) \in Seq(T)
      <4>1. s \in Seq(T) /\ p \in T
        BY <3>2
      <4> HIDE DEF T
      <4> QED BY <4>1, AppendProperties
    <3> HIDE DEF T
    <3> QED BY <3>1, <3>3, <3>5, <3>6, AcceptDocs
  <2>4. CASE cmd = "DO"
    <3> DEFINE values == [k \in Panel |-> v[k]]
               a == Put("orient", v.orient)  b == Put("flip", v.flip)  c == Put("colour", v.colour)
               T == {a, b, c}
    <3>1. Accept(values, <<a, b, c>>, v.colour # ram["colour"])
      BY <1>2, <2>4 DEF Handle, HandlePanel
    <3>2. "ed" \notin DOMAIN values
      BY DEF Panel
    <3>3. \A e \in T : e.key # "ed"
      BY DEF Put
    <3> HIDE DEF a, b, c
    <3>4. <<a, b, c>> \in Seq(T)
      OBVIOUS
    <3> HIDE DEF T, values
    <3> QED BY <3>1, <3>2, <3>3, <3>4, AcceptDocs
  <2>5. CASE cmd \in {"RS", "EL", "PINS"}
    <3>1. Accept(One(Key(cmd), v), SetStr(Key(cmd), v), cmd = "PINS")
      BY <1>2, <2>5 DEF Handle
    <3>2. Key(cmd) = "ed" => cmd = "EL"
      BY <2>5 DEF Key
    <3> QED BY <3>1, <3>2, OneDocs
  <2> QED BY <2>1, <2>2, <2>3, <2>4, <2>5 DEF Commands
<1> QED BY <1>1, <1>2

LEMMA SendDocs ==
  ASSUME FlashDocs, WorkDocs, rekinded' = rekinded, NEW by, NEW c, NEW v, Send(by, c, v), Sent(c, v)
  PROVE  FlashDocs' /\ WorkDocs'
<1>1. CASE Reaches /\ TextOf(v) # "long"
  <2>1. Handle(c, Received(v))
    BY <1>1 DEF Send
  <2>2. c = "EL" => EdOk(Received(v), rekinded)
    BY DEF Sent, Received, EdOk, TextOf
  <2> QED BY <2>1, <2>2, HandleDocs DEF Sent
<1>2. CASE ~(Reaches /\ TextOf(v) # "long")
  <2>1. UNCHANGED device
    BY <1>2 DEF Send
  <2> QED BY <2>1 DEF device, store, flash, memory, FlashDocs, WorkDocs
<1> QED BY <1>1, <1>2

LEMMA WriteDocs ==
  ASSUME FlashDocs, WorkDocs, rekinded' = rekinded, WriteDone \/ WriteFails
  PROVE  FlashDocs' /\ WorkDocs'
<1>1. PICK S : work.todo \in Seq(S) /\ \A e \in S : e.key = "ed" => EdOk(e.val, rekinded)
  BY DEF WorkDocs
<1>2. work.todo # <<>>
  BY DEF WriteDone, WriteFails
<1>3. FlashOp \in S /\ Tail(work.todo) \in Seq(S) /\ <<>> \in Seq(S)
  BY <1>1, <1>2, HeadTailProperties, EmptySeq DEF FlashOp
<1>4. "todo" \in DOMAIN work' /\ work'.todo \in Seq(S)
  <2>1. work' = [work EXCEPT !.todo = Tail(work.todo)] \/ work' = [work EXCEPT !.todo = <<>>]
    BY DEF WriteDone, WriteFails
  <2> QED BY <1>3, <2>1 DEF WorkDocs
<1>5. FlashDocs'
  <2>1. CASE WriteDone
    <3> DEFINE k == FlashOp.key  x == FlashOp.val
    <3>1. /\ blob' = blob \/ blob' = [blob EXCEPT ![k] = x]
          /\ nvs' = nvs \/ nvs' = [nvs EXCEPT ![k] = x]
          /\ ram' = ram
      BY <2>1 DEF WriteDone, memory
    <3>2. k = "ed" => EdOk(x, rekinded)
      BY <1>1, <1>3
    <3> HIDE DEF k, x
    <3>3. "ed" \in BlobKeys /\ "ed" \in Keys
      BY DEF BlobKeys, Keys
    <3>4. DOMAIN blob' = DOMAIN blob /\ DOMAIN nvs' = DOMAIN nvs
      BY <3>1
    <3>5. blob'["ed"] = blob["ed"] \/ (k = "ed" /\ blob'["ed"] = x)
      BY <3>1, <3>3 DEF FlashDocs
    <3>6. nvs'["ed"] = nvs["ed"] \/ (k = "ed" /\ nvs'["ed"] = x)
      BY <3>1, <3>3 DEF FlashDocs
    <3> QED BY <3>1, <3>2, <3>4, <3>5, <3>6 DEF FlashDocs
  <2>2. CASE WriteFails
    BY <2>2 DEF WriteFails, FlashDocs, flash, memory
  <2> QED BY <2>1, <2>2
<1> QED BY <1>1, <1>4, <1>5 DEF WorkDocs

\* There is no layout in the settings of a device that stored none.
LEMMA BootDocs ==
  ASSUME FlashDocs, WorkDocs, rekinded' = rekinded, Boot
  PROVE  FlashDocs' /\ WorkDocs'
<1>1. ram' = Loaded /\ UNCHANGED <<blob, nvs, work>>
  BY DEF Boot, Load, flash
<1>2. "ed" \in Keys /\ "ed" \in BlobKeys
  BY DEF Keys, BlobKeys
<1>3. ram'["ed"] = Found("ed")
  BY <1>1, <1>2 DEF Loaded
<1>4. Fresh("ed") = Nil
  BY <1>2, SettingsAssumption DEF Fresh
<1>5. EdOk(ram'["ed"], rekinded)
  BY <1>3, <1>4, NothingIsFine DEF Found, Stored, FlashDocs
<1> QED BY <1>1, <1>5 DEF FlashDocs, WorkDocs

-----------------------------------------------------------------------------
(* The steps of the system                                                  *)

Inv == EditorInv /\ DocInv

\* An edit or a look of the user, one gesture at a time.
LEMMA EditingKeeps ==
  ASSUME EditorInv, EditLayout
  PROVE  EditorInv'
<1>1. CASE Dragging
  <2>1. NodeSnap \/ NodeResize \/ DragEnd
    BY <1>1 DEF EditLayout, Gesture
  <2>2. view.drag # NoDrag
    BY <1>1 DEF Dragging
  <2> QED BY <2>1, <2>2, NodeSnapKeeps, NodeResizeKeeps, DragEndKeeps
<1>2. CASE ~Dragging
  <2>1. Editing
    BY <1>2 DEF EditLayout
  <2>2. view.drag = NoDrag
    BY <1>2 DEF Dragging
  <2>3. \/ NodeAdd \/ AddButtonGrid \/ NodeRemove \/ DeleteSelected
        \/ NodeSelect \/ SwitchDisplay \/ TabSelect \/ ElemSelect \/ DragStart
        \/ Center \/ Align \/ SetGeo
        \/ TabsEnable \/ TabAdd \/ TabRemove \/ TabMove \/ SetModPage
        \/ SetModKind \/ SetElemKind \/ SetModHid \/ SetElemHid \/ SetModText
        \/ Customize \/ WidgetReset \/ ElemAdd \/ ElemRemove \/ ElemMove
        \/ NewPreset \/ UpdatePreset \/ DeletePreset
    BY <2>1, Zenon DEF Editing
  <2>4. CASE NodeAdd \/ AddButtonGrid \/ NodeRemove \/ DeleteSelected
    BY <2>2, <2>4, NodeAddKeeps, AddButtonGridKeeps, NodeRemoveKeeps, DeleteSelectedKeeps
  <2>5. CASE NodeSelect \/ SwitchDisplay \/ TabSelect \/ ElemSelect \/ DragStart
    BY <2>2, <2>5, NodeSelectKeeps, SwitchDisplayKeeps, TabSelectKeeps, ElemSelectKeeps, DragStartKeeps
  <2>6. CASE Center \/ Align \/ SetGeo
    BY <2>2, <2>6, CenterKeeps, AlignKeeps, SetGeoKeeps
  <2>7. CASE TabsEnable \/ TabAdd \/ TabRemove \/ TabMove \/ SetModPage
    BY <2>2, <2>7, TabsEnableKeeps, TabAddKeeps, TabRemoveKeeps, TabMoveKeeps, SetModPageKeeps
  <2>8. CASE SetModKind \/ SetElemKind \/ SetModHid \/ SetElemHid \/ SetModText
    BY <2>2, <2>8, SetModKindKeeps, SetElemKindKeeps, SetModHidKeeps, SetElemHidKeeps, SetModTextKeeps
  <2>9. CASE Customize \/ WidgetReset \/ ElemAdd \/ ElemRemove \/ ElemMove
    BY <2>2, <2>9, CustomizeKeeps, WidgetResetKeeps, ElemAddKeeps, ElemRemoveKeeps, ElemMoveKeeps
  <2>10. CASE NewPreset \/ UpdatePreset \/ DeletePreset
    BY <2>10, NewPresetKeeps, UpdatePresetKeeps, DeletePresetKeeps
  <2> QED BY <2>3, <2>4, <2>5, <2>6, <2>7, <2>8, <2>9, <2>10
<1> QED BY <1>1, <1>2

\* The history of the kinds only grows.
LEMMA EditingRekinds ==
  ASSUME EditorInv, EditLayout \/ ChoosePreset
  PROVE  rekinded \in BOOLEAN /\ (rekinded => rekinded')
<1>1. rekinded \in BOOLEAN
  BY DEF EditorInv, PresetInv
<1>2. rekinded' = rekinded \/ rekinded' = TRUE
  <2>1. CASE ChoosePreset
    BY <2>1 DEF ChoosePreset, SelectPreset
  <2>2. CASE EditLayout /\ Dragging
    BY <2>2 DEF EditLayout, Gesture, NodeSnap, NodeResize, DragEnd, Drag, Edit, View, Plainly
  <2>3. CASE EditLayout /\ ~Dragging
    <3>1. Editing
      BY <2>3 DEF EditLayout
    <3> QED BY <3>1
      DEF Editing, NodeAdd, AddButtonGrid, NodeRemove, DeleteSelected, NodeSelect, SwitchDisplay, TabSelect, ElemSelect,
          DragStart, Center, Align, SetGeo, TabsEnable, TabAdd, TabRemove, TabMove, SetModPage, SetModKind, SetElemKind,
          SetModHid, SetElemHid, SetModText, Customize, WidgetReset, ElemAdd, ElemRemove, ElemMove,
          NewPreset, UpdatePreset, DeletePreset, SavePresets, View, Plainly
  <2> QED BY <2>1, <2>2, <2>3
<1> QED BY <1>1, <1>2

LEMMA EditorUntouched ==
  ASSUME EditorInv, UNCHANGED editor
  PROVE  EditorInv'
BY DEF editor, EditorInv, LayInv, GestureInv, Dragged, ViewInv, PresetInv, FileInv

LEMMA UserEdits ==
  ASSUME Inv, EditLayout \/ ChoosePreset
  PROVE  Inv'
<1>1. EditorInv'
  <2>1. CASE EditLayout
    BY <2>1, EditingKeeps DEF Inv
  <2>2. CASE ChoosePreset
    <3>1. SelectPreset /\ view.drag = NoDrag
      BY <2>2 DEF ChoosePreset, User, Dragging
    <3> QED BY <3>1, SelectPresetKeeps DEF Inv
  <2> QED BY <2>1, <2>2
<1>2. rekinded \in BOOLEAN /\ rekinded' \in BOOLEAN /\ (rekinded => rekinded')
  BY <1>1, EditingRekinds DEF Inv, EditorInv, PresetInv
<1>3. UNCHANGED <<blob, nvs, ram, work, line, tasks, uiq, ui>>
  BY DEF EditLayout, ChoosePreset, device, store, flash, memory, host
<1>4. "todo" \in DOMAIN ui
  BY DEF Inv, DocInv, SentDocs
<1> QED BY <1>1, <1>2, <1>3, <1>4, DocsLater DEF Inv

LEMMA DeviceRuns ==
  ASSUME Inv, DeviceWrites \/ DeviceFails \/ DeviceBoots \/ DeviceStops \/ PanelRuns \/ PanelWorld \/ Unplug
  PROVE  Inv'
<1>1. UNCHANGED <<editor, line, ui, tasks, uiq>>
  BY DEF DeviceWrites, DeviceFails, DeviceBoots, DeviceStops, PanelRuns, PanelWorld, Unplug, host
<1>2. EditorInv' /\ rekinded' = rekinded
  BY <1>1, EditorUntouched DEF Inv, editor
<1>3. SentDocs' /\ TaskDocs' /\ QueueDocs'
  BY <1>1, <1>2 DEF Inv, DocInv, SentDocs, Sent, TaskDocs, QueueDocs
<1>4. FlashDocs /\ WorkDocs
  BY DEF Inv, DocInv
<1>5. FlashDocs' /\ WorkDocs'
  <2>1. CASE DeviceWrites \/ DeviceFails
    BY <1>2, <1>4, <2>1, WriteDocs DEF DeviceWrites, DeviceFails
  <2>2. CASE DeviceBoots
    BY <1>2, <1>4, <2>2, BootDocs DEF DeviceBoots
  <2>3. CASE DeviceStops
    <3>1. work' = NoWork /\ UNCHANGED <<blob, nvs, ram>>
      BY <2>3 DEF DeviceStops, PowerLoss, Restart, RestartTapped, Stop, flash, memory
    <3> QED BY <1>2, <1>4, <3>1, NoWorkDocs DEF FlashDocs
  <2>4. CASE PanelRuns \/ PanelWorld \/ Unplug
    <3>1. UNCHANGED <<blob, nvs, ram, work>>
      BY <2>4 DEF PanelRuns, PanelWorld, Unplug, Frame, Doze, Service, Lift, Cools, Simulated, Telemetry, TouchDown,
                  Waits, FromGame, OtaTurns, Enumerates, store, flash, memory
    <3> QED BY <1>2, <1>4, <3>1 DEF FlashDocs, WorkDocs
  <2> QED BY <2>1, <2>2, <2>3, <2>4
<1> QED BY <1>2, <1>3, <1>5 DEF Inv, DocInv

\* Answers, and what the dashboard does without a word to the device.
LEMMA AnswersKeep ==
  ASSUME Inv, Answer \/ Silence
  PROVE  Inv'
<1>1. UNCHANGED <<editor, tasks, uiq>>
  BY DEF Answer, Silence, Answered
<1>2. EditorInv' /\ rekinded' = rekinded
  BY <1>1, EditorUntouched DEF Inv, editor
<1>3. TaskDocs' /\ QueueDocs'
  BY <1>1, <1>2 DEF Inv, DocInv, TaskDocs, QueueDocs
<1>4. FlashDocs' /\ WorkDocs'
  <2>1. UNCHANGED <<blob, nvs, ram>> /\ (work' = NoWork \/ work' = work)
    BY DEF Answer, Silence, Return, device, store, flash, memory
  <2>2. FlashDocs'
    BY <1>2, <2>1 DEF Inv, DocInv, FlashDocs
  <2>3. CASE work' = NoWork
    BY <2>2, <2>3, NoWorkDocs
  <2>4. CASE work' = work
    BY <1>2, <2>2, <2>4 DEF Inv, DocInv, WorkDocs
  <2> QED BY <2>1, <2>3, <2>4
<1>5. SentDocs'
  <2>1. \E ok : Answered(ok)
    BY DEF Answer, Silence
  <2>2. line.by \in {"ui", "task"}
    BY DEF Inv, DocInv, SentDocs, Answer, Silence
  <2>3. DOMAIN ui' = DOMAIN ui /\ ui'.todo = ui.todo
    BY <2>1, <2>2 DEF Answered, Inv, DocInv, SentDocs
  <2>4. line' = NoLine
    BY <2>1 DEF Answered
  <2> QED BY <1>2, <2>3, <2>4 DEF Inv, DocInv, SentDocs, Sent
<1> QED BY <1>2, <1>3, <1>4, <1>5 DEF Inv, DocInv

LEMMA HostDocs ==
  ASSUME Inv, EditorInv', rekinded' = rekinded, UNCHANGED <<device, line>>,
         UNCHANGED ui \/ SentDocs', UNCHANGED tasks \/ TaskDocs', UNCHANGED uiq \/ QueueDocs'
  PROVE  Inv'
<1>1. FlashDocs' /\ WorkDocs'
  BY DEF Inv, DocInv, FlashDocs, WorkDocs, device, store, flash, memory
<1>2. SentDocs' /\ TaskDocs' /\ QueueDocs'
  BY DEF Inv, DocInv, SentDocs, Sent, TaskDocs, QueueDocs
<1> QED BY <1>1, <1>2 DEF Inv, DocInv

LEMMA QuietEditor ==
  ASSUME Inv, UNCHANGED editor
  PROVE  EditorInv' /\ rekinded' = rekinded
BY EditorUntouched DEF Inv, editor

LEMMA ReadsKeep ==
  ASSUME Inv, Scan \/ Greet \/ Poll \/ Read \/ Sync \/ ChooseCar \/ UNCHANGED vars
  PROVE  Inv'
<1>1. UNCHANGED <<editor, device, line, ui, uiq>>
  BY DEF Scan, Greet, Poll, Read, Sync, ChooseCar, vars, host
<1>2. tasks' = tasks \/ \E ask : tasks' = Append(tasks, [ask |-> ask, ed |-> Nil])
  BY DEF Scan, Greet, Poll, Read, Sync, ChooseCar, StartRead, vars, host
<1>3. EditorInv' /\ rekinded' = rekinded
  BY <1>1, QuietEditor
<1>4. UNCHANGED tasks \/ TaskDocs'
  <2>1. SUFFICES ASSUME NEW ask, tasks' = Append(tasks, [ask |-> ask, ed |-> Nil]) PROVE TaskDocs'
    BY <1>2
  <2>2. PICK S : tasks \in Seq(S) /\ \A t \in S : DOMAIN t = {"ask", "ed"} /\ EdOk(t.ed, rekinded)
    BY DEF Inv, DocInv, TaskDocs
  <2> DEFINE n == [ask |-> ask, ed |-> Nil]  T == S \cup {n}
  <2>3. DOMAIN n = {"ask", "ed"} /\ EdOk(n.ed, rekinded)
    BY NothingIsFine
  <2>4. tasks' = Append(tasks, n)
    BY <2>1
  <2> HIDE DEF n
  <2>5. \A t \in T : DOMAIN t = {"ask", "ed"} /\ EdOk(t.ed, rekinded)
    BY <2>2, <2>3
  <2>6. tasks \in Seq(T) /\ n \in T
    BY <2>2
  <2> HIDE DEF T
  <2>7. tasks' \in Seq(T)
    BY <2>4, <2>6, AppendProperties
  <2> QED BY <1>3, <2>5, <2>7 DEF TaskDocs
<1> QED BY <1>1, <1>3, <1>4, HostDocs

\* A read is answered; the last answer brings the closure.
LEMMA AsksKeep ==
  ASSUME Inv, AskAny
  PROVE  Inv'
<1>1. PICK i \in DOMAIN tasks : Ask(i)
  BY DEF AskAny
<1>2. UNCHANGED <<editor, device, line, ui>>
  BY <1>1 DEF Ask
<1>3. EditorInv' /\ rekinded' = rekinded
  BY <1>2, QuietEditor
<1>4. PICK S : tasks \in Seq(S) /\ \A t \in S : DOMAIN t = {"ask", "ed"} /\ EdOk(t.ed, rekinded)
  BY DEF Inv, DocInv, TaskDocs
<1>5. PICK Q : uiq \in Seq(Q) /\ \A f \in Q : f.do = "layout" => EdOk(f.ed, rekinded)
  BY DEF Inv, DocInv, QueueDocs
<1>6. tasks[i] \in S /\ Len(tasks) \in Nat /\ i \in 1..Len(tasks)
  BY <1>4, SeqFacts
<1>7. EdOk(Reply("ed"), rekinded)
  BY NothingIsFine DEF Reply, Inv, DocInv, FlashDocs
<1>8. CASE tasks' = [tasks EXCEPT ![i].ed = Reply("ed"), ![i].ask = "RG"] /\ UNCHANGED uiq
  <2> DEFINE n == [[tasks[i] EXCEPT !.ed = Reply("ed")] EXCEPT !.ask = "RG"]
             T == S \cup {n}
  <2>1. tasks' = [tasks EXCEPT ![i] = n]
    BY <1>8, <1>4
  <2>2. DOMAIN n = {"ask", "ed"} /\ EdOk(n.ed, rekinded)
    BY <1>4, <1>6, <1>7
  <2> HIDE DEF n
  <2>3. \A t \in T : DOMAIN t = {"ask", "ed"} /\ EdOk(t.ed, rekinded)
    BY <1>4, <2>2
  <2>4. tasks \in Seq(T) /\ n \in T
    BY <1>4
  <2> HIDE DEF T
  <2>5. tasks' \in Seq(T)
    BY <1>6, <2>1, <2>4, ExceptSeq
  <2>6. TaskDocs'
    BY <1>3, <2>3, <2>5 DEF TaskDocs
  <2> QED BY <1>2, <1>3, <1>8, <2>6, HostDocs
<1>9. ASSUME NEW f, f.do = "layout" => EdOk(f.ed, rekinded), tasks' = RemoveAt(tasks, i), uiq' = Append(uiq, f)
      PROVE  Inv'
  <2>1. tasks' \in Seq(S)
    BY <1>4, <1>6, <1>9, RemovedAt
  <2>2. TaskDocs'
    BY <1>3, <1>4, <2>1 DEF TaskDocs
  <2> DEFINE T == Q \cup {f}
  <2>3. \A x \in T : x.do = "layout" => EdOk(x.ed, rekinded)
    BY <1>5, <1>9
  <2>4. uiq \in Seq(T) /\ f \in T
    BY <1>5
  <2> HIDE DEF T
  <2>5. uiq' \in Seq(T)
    BY <1>9, <2>4, AppendProperties
  <2>6. QueueDocs'
    BY <1>3, <2>3, <2>5 DEF QueueDocs
  <2> QED BY <1>2, <1>3, <2>2, <2>6, HostDocs
<1>10. CASE /\ tasks' = RemoveAt(tasks, i)
            /\ uiq' = Append(uiq, [do |-> "layout", ed |-> tasks[i].ed, rg |-> Reply("race")])
  <2> DEFINE f == [do |-> "layout", ed |-> tasks[i].ed, rg |-> Reply("race")]
  <2>1. f.ed = tasks[i].ed /\ uiq' = Append(uiq, f)
    BY <1>10
  <2>2. EdOk(f.ed, rekinded)
    BY <1>4, <1>6, <2>1
  <2> HIDE DEF f
  <2> QED BY <1>9, <1>10, <2>1, <2>2
<1>11. CASE tasks' = RemoveAt(tasks, i) /\ uiq' = Append(uiq, [do |-> "zones", rg |-> Reply("race")])
  <2> DEFINE f == [do |-> "zones", rg |-> Reply("race")]
  <2>1. f.do # "layout" /\ uiq' = Append(uiq, f)
    BY <1>11
  <2> HIDE DEF f
  <2> QED BY <1>9, <1>11, <2>1
<1> QED BY <1>1, <1>8, <1>10, <1>11 DEF Ask

\* A closure brings what was read into the editor.
LEMMA UiRunKeeps ==
  ASSUME Inv, UiRun
  PROVE  Inv'
<1>1. PICK Q : uiq \in Seq(Q) /\ \A f \in Q : f.do = "layout" => EdOk(f.ed, rekinded)
  BY DEF Inv, DocInv, QueueDocs
<1>2. uiq # <<>> /\ uiq' = Tail(uiq) /\ UNCHANGED <<device, line, ui, tasks>>
  BY DEF UiRun
<1>3. Head(uiq) \in Q /\ Tail(uiq) \in Seq(Q)
  BY <1>1, <1>2, HeadTailProperties
<1> DEFINE f == Head(uiq)
<1>4. \/ f.do = "layout" /\ Usable(f.ed) /\ ApplyLayout(f.ed)
      \/ ApplyZones
      \/ UNCHANGED editor
  BY DEF UiRun
<1> HIDE DEF f
<1>5. EditorInv' /\ rekinded' = rekinded
  <2>1. CASE f.do = "layout" /\ Usable(f.ed) /\ ApplyLayout(f.ed)
    <3>1. EdOk(f.ed, rekinded)
      BY <1>1, <1>3, <2>1 DEF f
    <3>2. Fine(f.ed.lay, rekinded)
      BY <2>1, <3>1 DEF EdOk, Usable
    <3>3. rekinded' = rekinded
      BY <2>1 DEF ApplyLayout
    <3> QED BY <2>1, <3>2, <3>3, ApplyLayoutKeeps DEF Inv
  <2>2. CASE ApplyZones
    BY <2>2, ApplyZonesKeeps DEF Inv, ApplyZones
  <2>3. CASE UNCHANGED editor
    BY <2>3, QuietEditor
  <2> QED BY <1>4, <2>1, <2>2, <2>3
<1>6. QueueDocs'
  BY <1>1, <1>2, <1>3, <1>5 DEF QueueDocs
<1> QED BY <1>2, <1>5, <1>6, HostDocs

LEMMA EdDocIsSent ==
  ASSUME EditorInv
  PROVE  Sent("EL", EdDoc(lay))
<1>1. Fine(lay, rekinded)
  BY DEF EditorInv, LayInv
<1>2. "text" \in DOMAIN EdDoc(lay) /\ EdDoc(lay).lay = lay
  BY DEF EdDoc
<1> QED BY <1>1, <1>2 DEF Sent, Commands, EdOk

LEMMA IdleDocs ==
  ASSUME Inv, UNCHANGED line, ui' = Idle
  PROVE  SentDocs'
<1> DEFINE none == {}
<1>1. "todo" \in DOMAIN ui' /\ ui'.todo = <<>> /\ <<>> \in Seq(none)
  BY EmptySeq DEF Idle
<1>2. \A p \in none : Sent(p[1], p[2])'
  OBVIOUS
<1> HIDE DEF none
<1> QED BY <1>1, <1>2 DEF SentDocs, Inv, DocInv

LEMMA PushesKeep ==
  ASSUME Inv, Save \/ PushOther \/ UiReturns
  PROVE  Inv'
<1>1. UNCHANGED <<device, line, tasks, uiq>>
  BY DEF Save, PushOther, UiReturns
<1>2. CASE Save
  <2>1. EditorInv' /\ rekinded' = rekinded
    BY <1>2, QuietEditor DEF Save
  <2> DEFINE a == <<"RS", RaceDoc>>  b == <<"UI", UiDoc(lay)>>  c == <<"EL", EdDoc(lay)>>  S == {a, b, c}
  <2>2. "todo" \in DOMAIN ui' /\ ui'.todo = <<a, b, c>>
    BY <1>2 DEF Save
  <2>3. \A p \in S : Sent(p[1], p[2])
    BY EdDocIsSent DEF Sent, Commands, Inv
  <2> HIDE DEF a, b, c
  <2>4. <<a, b, c>> \in Seq(S)
    OBVIOUS
  <2> HIDE DEF S
  <2>5. SentDocs'
    BY <1>1, <2>1, <2>2, <2>3, <2>4 DEF SentDocs, Sent, Inv, DocInv
  <2> QED BY <1>1, <2>1, <2>5, HostDocs
<1>3. CASE PushOther
  <2>1. EditorInv' /\ rekinded' = rekinded
    BY <1>3, QuietEditor DEF PushOther
  <2>2. PICK c \in DOMAIN Documents : \E v \in Documents[c] : ui' = [at |-> "push", ok |-> FALSE, todo |-> <<<<c, v>>>>]
    BY <1>3 DEF PushOther
  <2>3. PICK v \in Documents[c] : ui' = [at |-> "push", ok |-> FALSE, todo |-> <<<<c, v>>>>]
    BY <2>2
  <2> DEFINE a == <<c, v>>  S == {a}
  <2>4. "todo" \in DOMAIN ui' /\ ui'.todo = <<a>>
    BY <2>3
  <2>5. \A p \in S : Sent(p[1], p[2])
    BY DocumentsAssumption DEF Sent, Commands
  <2> HIDE DEF a
  <2>6. <<a>> \in Seq(S)
    OBVIOUS
  <2> HIDE DEF S
  <2>7. SentDocs'
    BY <1>1, <2>1, <2>4, <2>5, <2>6 DEF SentDocs, Sent, Inv, DocInv
  <2> QED BY <1>1, <2>1, <2>7, HostDocs
<1>4. CASE UiReturns
  <2>1. SentDocs'
    BY <1>1, <1>4, IdleDocs DEF UiReturns
  <2>2. UNCHANGED <<lay, view, presets, active, uid, file, pfile, foreign, rekinded>> /\ dirty' \in BOOLEAN
    BY <1>4 DEF UiReturns, Inv, EditorInv, PresetInv
  <2>3. EditorInv'
    BY <2>2 DEF Inv, EditorInv, LayInv, GestureInv, Dragged, ViewInv, PresetInv, FileInv
  <2> QED BY <1>1, <2>1, <2>2, <2>3, HostDocs
<1> QED BY <1>2, <1>3, <1>4

LEMMA CloseAndOpenKeeps ==
  ASSUME Inv, CloseAndOpen
  PROVE  Inv'
<1>1. UNCHANGED <<device, line, ui>> /\ tasks' = <<>> /\ uiq' = <<>>
  BY DEF CloseAndOpen
<1>2. EditorInv' /\ rekinded' = rekinded
  <2>1. PICK f : (f = file \/ f = NoFile) /\ Reopen(f)
    BY DEF CloseAndOpen
  <2> QED BY <2>1, ReopenKeeps DEF Inv, Reopen
<1> DEFINE none == {}
<1>3. <<>> \in Seq(none)
  BY EmptySeq
<1>4. \A t \in none : DOMAIN t = {"ask", "ed"} /\ EdOk(t.ed, rekinded')
  OBVIOUS
<1>5. \A f \in none : f.do = "layout" => EdOk(f.ed, rekinded')
  OBVIOUS
<1> HIDE DEF none
<1>6. TaskDocs' /\ QueueDocs'
  BY <1>1, <1>3, <1>4, <1>5 DEF TaskDocs, QueueDocs
<1> QED BY <1>1, <1>2, <1>6, HostDocs

\* The two that send a command.
LEMMA SendsKeep ==
  ASSUME Inv, PushCar \/ UiSends
  PROVE  Inv'
<1>1. UNCHANGED <<editor, tasks, uiq>>
  BY DEF PushCar, UiSends
<1>2. EditorInv' /\ rekinded' = rekinded
  BY <1>1, QuietEditor
<1>3. TaskDocs' /\ QueueDocs' /\ FlashDocs /\ WorkDocs
  BY <1>1, <1>2 DEF Inv, DocInv, TaskDocs, QueueDocs
<1>4. CASE PushCar
  <2>1. UNCHANGED ui /\ (UNCHANGED <<line, device>> \/ Send("task", "C", Head(cars)))
    BY <1>4 DEF PushCar
  <2>2. Sent("C", Head(cars))
    BY DEF Sent, Commands
  <2>3. FlashDocs' /\ WorkDocs'
    <3>1. CASE UNCHANGED <<line, device>>
      BY <1>2, <1>3, <3>1 DEF FlashDocs, WorkDocs, device, store, flash, memory
    <3>2. CASE Send("task", "C", Head(cars))
      BY <1>2, <1>3, <2>2, <3>2, SendDocs
    <3> QED BY <2>1, <3>1, <3>2
  <2>4. SentDocs'
    <3>1. line' # NoLine => line'.by \in {"ui", "task"}
      BY <2>1 DEF Send, Inv, DocInv, SentDocs
    <3> QED BY <1>2, <2>1, <3>1 DEF Inv, DocInv, SentDocs, Sent
  <2> QED BY <1>2, <1>3, <2>3, <2>4 DEF Inv, DocInv
<1>5. CASE UiSends
  <2>1. PICK S : ui.todo \in Seq(S) /\ \A p \in S : Sent(p[1], p[2])
    BY DEF Inv, DocInv, SentDocs
  <2>2. /\ ui.todo # <<>> /\ Send("ui", Head(ui.todo)[1], Head(ui.todo)[2])
        /\ ui' = [ui EXCEPT !.todo = Tail(@)]
    BY <1>5 DEF UiSends
  <2>3. Head(ui.todo) \in S /\ Tail(ui.todo) \in Seq(S)
    BY <2>1, <2>2, HeadTailProperties
  <2>4. FlashDocs' /\ WorkDocs'
    BY <1>2, <1>3, <2>1, <2>2, <2>3, SendDocs
  <2>5. DOMAIN ui' = DOMAIN ui /\ ui'.todo = Tail(ui.todo)
    BY <2>2 DEF Inv, DocInv, SentDocs
  <2>6. line' # NoLine => line'.by \in {"ui", "task"}
    BY <2>2 DEF Send
  <2>7. SentDocs'
    BY <1>2, <2>1, <2>3, <2>5, <2>6 DEF Inv, DocInv, SentDocs, Sent
  <2> QED BY <1>2, <1>3, <2>4, <2>7 DEF Inv, DocInv
<1> QED BY <1>4, <1>5

LEMMA NextKeeps == Inv /\ [Next]_vars => Inv'
<1> SUFFICES ASSUME Inv, [Next]_vars PROVE Inv'
  OBVIOUS
<1> QED BY UserEdits, DeviceRuns, AnswersKeep, ReadsKeep, AsksKeep, UiRunKeeps, PushesKeep, CloseAndOpenKeeps, SendsKeep DEF Next

LEMMA InitKeeps == Init => Inv
<1> SUFFICES ASSUME Init PROVE Inv
  OBVIOUS
<1>1. PICK s \in Scenarios :
        /\ blob = [k \in BlobKeys |-> Nil]
        /\ nvs = [k \in Keys |-> IF k \in DOMAIN s.flash THEN s.flash[k] ELSE Nil]
        /\ ram = [k \in Keys |-> Nil] /\ work = NoWork
        /\ ui = Idle /\ line = NoLine /\ tasks = <<>> /\ uiq = <<>>
  BY DEF Init
<1>2. EditorInv /\ rekinded = FALSE
  BY InitEditorInv DEF Init, InitEditor
<1>3. FlashDocs
  <2>1. "ed" \in Keys /\ "ed" \in BlobKeys
    BY DEF Keys, BlobKeys
  <2>2. nvs["ed"] = Nil \/ ("ed" \in DOMAIN s.flash /\ nvs["ed"] = s.flash["ed"])
    BY <1>1, <2>1
  <2>3. EdOk(nvs["ed"], FALSE)
    BY <2>2, FlashAssumption, NothingIsFine
  <2>4. EdOk(nvs["ed"], rekinded)
    BY <1>2, <2>3
  <2> QED BY <1>1, <2>1, <2>4, NothingIsFine DEF FlashDocs
<1> DEFINE none == {}
<1>4. <<>> \in Seq(none)
  BY EmptySeq
<1>5. /\ \A e \in none : e.key = "ed" => EdOk(e.val, rekinded)
      /\ \A p \in none : Sent(p[1], p[2])
      /\ \A t \in none : DOMAIN t = {"ask", "ed"} /\ EdOk(t.ed, rekinded)
      /\ \A f \in none : f.do = "layout" => EdOk(f.ed, rekinded)
  OBVIOUS
<1> HIDE DEF none
<1>6. WorkDocs
  BY <1>1, <1>4, <1>5 DEF NoWork, WorkDocs
<1>7. SentDocs
  BY <1>1, <1>4, <1>5 DEF Idle, SentDocs
<1>8. TaskDocs /\ QueueDocs
  BY <1>1, <1>4, <1>5 DEF TaskDocs, QueueDocs
<1> QED BY <1>2, <1>3, <1>6, <1>7, <1>8 DEF Inv, DocInv

-----------------------------------------------------------------------------
(* What it means                                                            *)

\* Dragged, snapped, resized, typed, aligned, added in a grid, brought by a
\* preset or by the device, every widget is on its screen and as big as it must
\* be, and the bounds of a resize do not cross (snap_pos, on_node_resize).
THEOREM WidgetsOnCanvas == Spec => []OnCanvas
<1>1. Inv => OnCanvas
  <2> SUFFICES ASSUME Inv PROVE OnCanvas
    OBVIOUS
  <2>1. lay \in Layouts /\ lay.nodes \in Seq(Nodes) /\ lay.tabs \in [Displays -> 0..MaxTabs]
    BY LayoutFields DEF Inv, EditorInv, LayInv, Fine
  <2>2. \A n \in Range(lay.nodes) : n \in Nodes
    BY <2>1, SeqFacts
  <2>3. \A n \in Range(lay.nodes) : /\ n.kind \in DOMAIN Size /\ n.disp \in Displays /\ n.page \in Nat /\ n.hid \in 0..MaxHid
                                    /\ n.x >= 0 /\ n.w >= MinSize /\ n.x + n.w <= Canvas
    BY <2>2, NodeFields
  <2>4. EditorTypeOK
    BY <2>1, <2>3 DEF EditorTypeOK, Inv, EditorInv, ViewInv, PresetInv
  <2>5. ResizeFits
    <3> SUFFICES ASSUME view.drag.id \in IdSet(lay) PROVE MinSize <= Canvas - Dragged.x
      BY DEF ResizeFits
    <3>1. Dragged \in Nodes
      BY DraggedIsThere DEF Inv
    <3> QED BY <3>1, NodeFields, EditorConstants
  <2> QED BY <2>3, <2>4, <2>5 DEF OnCanvas
<1> QED BY <1>1, InitKeeps, NextKeeps, PTL DEF Spec

\* With hands off the kinds, no two buttons press the same joystick button,
\* whatever was added, removed, renumbered, read back or restored
\* (on_node_add, on_add_button_grid).
THEOREM ButtonsDistinct == Spec => []HidsDistinct
<1>1. Inv => HidsDistinct
  BY DEF Inv, EditorInv, LayInv, Fine, HidsDistinct
<1> QED BY <1>1, InitKeeps, NextKeeps, PTL DEF Spec

\* As long as every widget is the editor's own and found by its id, none is on
\* a page that does not exist, and the page that is edited exists too
\* (on_tabs_enable, on_tab_add, on_tab_remove, on_tab_move).
THEOREM NoWidgetLost == Spec => []PagesExist
<1>1. Inv => PagesExist
  BY DEF Inv, EditorInv, LayInv, Ordered, ViewInv, PagesExist
<1> QED BY <1>1, InitKeeps, NextKeeps, PTL DEF Spec
=============================================================================
