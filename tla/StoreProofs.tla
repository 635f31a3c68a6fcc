---------------------------- MODULE StoreProofs ----------------------------
(***************************************************************************)
(* What the two keepers of states promise.  The state store, for any names *)
(* and any number of versions and snapshots: records do not change, a      *)
(* handle reads the bytes it was made with, and what was persisted can be  *)
(* read in every later process.  The slot allocators of the token pool,    *)
(* for any capacity and page size: every slot is free or handed out, and   *)
(* what is handed out was free.                                            *)
(***************************************************************************)
EXTENDS StateStore, WellFoundedInduction, FiniteSetTheorems, TLAPS

CONSTANTS Capacity, RequestSlots, BlockSize     \* see SlotAllocator
VARIABLE alloc                                  \* an allocator of slots

Slots == INSTANCE SlotAllocator

-----------------------------------------------------------------------------
(***************************************************************************)
(* The inductive invariant.                                                *)
(***************************************************************************)

\* A process that is not running remembers nothing, and has no call.
DownIsEmpty == ~up => /\ DOMAIN meta = {} /\ DOMAIN warm = {} /\ cold = {}
                      /\ pending = NoCall

\* Only records have host copies or files.
OnlyRecords == DOMAIN warm \subseteq DOMAIN meta /\ cold \subseteq DOMAIN meta

\* A persist() that still has to write the index has written its file.
PersistUnderWay == pending.call \in {"persist", "evict"} => pending.handle \in cold

\* What memory and the files of cold records hold.
MemoryIsExact ==
    /\ \A h \in DOMAIN warm : warm[h] = meta[h].data
    /\ \A h \in cold \cap DOMAIN file : file[h] = meta[h].data
    /\ cold \ deleted \subseteq DOMAIN file

\* The same of the index, which is what the next process begins with.
IndexIsExact ==
    /\ \A h \in index.cold \cap DOMAIN file : file[h] = index.records[h].data
    /\ index.cold \ deleted \subseteq DOMAIN file

\* Between two calls the index has the cold records, and always those that
\* must survive.
IndexIsCurrent ==
    /\ Callable => index.cold = cold
    /\ up => durable \ deleted \subseteq cold
    /\ durable \ deleted \subseteq index.cold

Shape == TypeOK /\ DownIsEmpty /\ OnlyRecords /\ PersistUnderWay
Contents == ~raised => MemoryIsExact /\ IndexIsExact /\ IndexIsCurrent
StoreInv == Shape /\ Contents


-----------------------------------------------------------------------------
(***************************************************************************)
(* Functions and numbers.                                                  *)
(***************************************************************************)

\* One entry less.
LEMMA WithoutEntry ==
    ASSUME NEW f, NEW h
    PROVE  /\ DOMAIN Without(f, h) = DOMAIN f \ {h}
           /\ \A x \in DOMAIN f \ {h} : Without(f, h)[x] = f[x]
  BY DEF Without, Restrict

\* The empty function has no entries.
LEMMA NoEntries == DOMAIN << >> = {}
  OBVIOUS

\* A set of bounded numbers has a greatest one.
LEMMA Greatest ==
    ASSUME NEW b \in Nat, NEW S, S \subseteq 0 .. b, S # {}
    PROVE  \E m \in S : \A x \in S : x <= m
<1> DEFINE T == {b - x : x \in S}
<1>1. T \subseteq Nat /\ T # {}
  <2>1. \A x \in S : b - x \in Nat
    OBVIOUS
  <2>2. PICK x \in S : TRUE
    OBVIOUS
  <2>3. b - x \in T
    OBVIOUS
  <2> QED BY <2>1, <2>3
<1>2. PICK t \in T : \A y \in T : ~ (<<y, t>> \in OpToRel(<, Nat))
  BY <1>1, NatLessThanWellFounded, WFMin
<1>3. \A y \in T : ~ (y < t)
  BY <1>1, <1>2 DEF OpToRel
<1>4. PICK m \in S : t = b - m
  OBVIOUS
<1>5. \A x \in S : x <= m
  BY <1>3, <1>4
<1> QED BY <1>5

\* _next_version: one more than the highest version there is, so that it has
\* no record.
LEMMA NextVersionIsNew ==
    ASSUME StoreAssumption, NEW n
    PROVE  <<n, NextVersion(n)>> \notin DOMAIN meta \/ NextVersion(n) \notin 0 .. MaxVersion
<1> DEFINE V == VersionsOf(n)
           IsNext(v) == /\ \A w \in V : w < v
                        /\ v = 0 \/ v - 1 \in V
<1>1. V \subseteq 0 .. MaxVersion /\ MaxVersion \in Nat
  BY DEF VersionsOf, StoreAssumption
<1>2. \E v \in 0 .. MaxVersion + 1 : IsNext(v)
  <2>1. CASE V = {}
    BY <1>1, <2>1
  <2>2. CASE V # {}
    <3>1. PICK m \in V : \A x \in V : x <= m
      BY <1>1, <2>2, Greatest
    <3>2. m + 1 \in 0 .. MaxVersion + 1 /\ IsNext(m + 1)
      BY <1>1, <3>1
    <3> QED BY <3>2
  <2> QED BY <2>1, <2>2
<1>3. \A w \in V : w < NextVersion(n)
  BY <1>2 DEF NextVersion
<1>4. NextVersion(n) \notin V
  BY <1>1, <1>3
<1> QED BY <1>4 DEF VersionsOf

-----------------------------------------------------------------------------
(***************************************************************************)
(* What is read.                                                           *)
(***************************************************************************)

\* What can be read is a snapshot, never part of a file.
LEMMA ReadsSnapshots ==
    ASSUME TypeOK, NEW h \in Handle, Readable(h)
    PROVE  Tensors(h) \in Snapshot
  BY DEF TypeOK, Readable, Tensors, IsPartialFcn

\* A record that can be read gives what it was made with.
LEMMA ReadsExactly ==
    ASSUME OnlyRecords, MemoryIsExact, NEW h, Readable(h)
    PROVE  h \in DOMAIN meta /\ Tensors(h) = meta[h].data
  BY DEF OnlyRecords, MemoryIsExact, Readable, Tensors

\* Reading records keeps them in memory, and nothing else.
LEMMA PromotedIsWarm ==
    ASSUME TypeOK, NEW H, H \subseteq Handle, \A h \in H : Readable(h)
    PROVE  IsPartialFcn(Promoted(H), Handle, Snapshot)
<1>1. \A h \in DOMAIN warm : Tensors(h) = warm[h] /\ warm[h] \in Snapshot /\ h \in Handle
  BY DEF TypeOK, Tensors, IsPartialFcn
<1>2. \A h \in H : Tensors(h) \in Snapshot
  BY ReadsSnapshots
<1>3. \A h \in DOMAIN Promoted(H) : h \in Handle /\ Promoted(H)[h] \in Snapshot
  BY <1>1, <1>2 DEF Promoted
<1> QED BY <1>3 DEF IsPartialFcn

LEMMA PromotedIsExact ==
    ASSUME OnlyRecords, NEW H, \A h \in H : Readable(h)
    PROVE  /\ DOMAIN Promoted(H) \subseteq DOMAIN meta
           /\ MemoryIsExact => \A h \in DOMAIN Promoted(H) : Promoted(H)[h] = meta[h].data
<1>1. DOMAIN Promoted(H) \subseteq DOMAIN meta
  BY DEF Promoted, OnlyRecords, Readable
<1>2. ASSUME MemoryIsExact, NEW h \in DOMAIN Promoted(H)
      PROVE  Promoted(H)[h] = meta[h].data
  <2>1. Promoted(H)[h] = Tensors(h) /\ Readable(h)
    BY DEF Promoted, Readable
  <2> QED BY <1>2, <2>1, ReadsExactly
<1> QED BY <1>1, <1>2

-----------------------------------------------------------------------------
(***************************************************************************)
(* The operations.                                                         *)
(***************************************************************************)

\* A new record of a snapshot, or of one that could be read.
LEMMA PutKeeps ==
    ASSUME StoreInv, Callable, NEW n \in Names, NEW d \in Snapshot,
           NEW parent \in Handle \cup {NoParent},
           NEW H, H \subseteq Handle, \A h \in H : Readable(h),
           taken' \in 0 .. MaxSnapshots, Put(n, d, parent, H)
    PROVE  StoreInv'
<1> DEFINE h == <<n, NextVersion(n)>>
           record == [data |-> d, parent |-> parent]
<1> USE DEF StoreInv, Shape
<1>1. /\ h \in Handle
      /\ meta' = With(meta, h, record)
      /\ warm' = With(Promoted(H), h, d)
      /\ pending' = [call |-> "save", handle |-> h]
      /\ UNCHANGED <<up, cold, file, index, raised, durable, deleted>>
  BY DEF Put, disk, history
<1>2. h \notin DOMAIN meta
  BY <1>1, NextVersionIsNew, StoreAssumption DEF Handle
<1> HIDE DEF h
<1>3. record \in Record /\ record.data = d
  BY DEF Record
<1> HIDE DEF record
<1>4. /\ DOMAIN meta' = DOMAIN meta \cup {h} /\ meta'[h] = record
      /\ \A x \in DOMAIN meta : meta'[x] = meta[x]
  BY <1>1, <1>2 DEF With
<1>5. /\ DOMAIN warm' = DOMAIN Promoted(H) \cup {h} /\ warm'[h] = d
      /\ \A x \in DOMAIN Promoted(H) : x # h => warm'[x] = Promoted(H)[x]
  BY <1>1 DEF With
<1>6. IsPartialFcn(Promoted(H), Handle, Snapshot) /\ DOMAIN Promoted(H) \subseteq DOMAIN meta
  BY PromotedIsWarm, PromotedIsExact
<1>7. TypeOK'
  <2>1. IsPartialFcn(meta', Handle, Record)
    BY <1>1, <1>3, <1>4 DEF TypeOK, IsPartialFcn
  <2>2. IsPartialFcn(warm', Handle, Snapshot)
    BY <1>1, <1>5, <1>6 DEF IsPartialFcn
  <2>3. pending' \in Call
    BY <1>1 DEF Call
  <2> QED BY <1>1, <2>1, <2>2, <2>3 DEF TypeOK
<1>8. DownIsEmpty' /\ OnlyRecords' /\ PersistUnderWay'
  BY <1>1, <1>4, <1>5, <1>6 DEF DownIsEmpty, OnlyRecords, PersistUnderWay, Callable
<1>9. Contents'
  <2> SUFFICES ASSUME ~raised PROVE (MemoryIsExact /\ IndexIsExact /\ IndexIsCurrent)'
    BY <1>1 DEF Contents
  <2>1. MemoryIsExact'
    BY <1>1, <1>2, <1>3, <1>4, <1>5, <1>6, PromotedIsExact DEF Contents, MemoryIsExact, OnlyRecords
  <2>2. IndexIsExact'
    BY <1>1 DEF Contents, IndexIsExact
  <2>3. IndexIsCurrent'
    BY <1>1 DEF Contents, IndexIsCurrent, Callable, NoCall
  <2> QED BY <2>1, <2>2, <2>3
<1> QED BY <1>7, <1>8, <1>9

\* save, fork and mutate.
LEMMA SaveKeeps ==
    ASSUME StoreInv, NEW n \in Names, Save(n)
    PROVE  StoreInv'
<1>1. taken \in 0 .. MaxSnapshots /\ taken < MaxSnapshots /\ taken' = taken + 1
  BY DEF StoreInv, Shape, TypeOK, Save
<1>2. taken' \in Snapshot /\ taken' \in 0 .. MaxSnapshots
  BY <1>1, StoreAssumption DEF Snapshot, StoreAssumption
<1> QED BY <1>2, PutKeeps DEF Save

LEMMA ForkKeeps ==
    ASSUME StoreInv, NEW h \in Handle, NEW n \in Names, Fork(h, n)
    PROVE  StoreInv'
<1>1. Tensors(h) \in Snapshot /\ taken' \in 0 .. MaxSnapshots
  BY ReadsSnapshots DEF StoreInv, Shape, TypeOK, Fork
<1> QED BY <1>1, PutKeeps DEF Fork

LEMMA MutateKeeps ==
    ASSUME StoreInv, NEW h \in Handle, NEW o \in Handle, Mutate(h, o)
    PROVE  StoreInv'
<1>1. taken \in 0 .. MaxSnapshots /\ taken < MaxSnapshots /\ taken' = taken + 1
  BY DEF StoreInv, Shape, TypeOK, Mutate
<1>2. taken' \in Snapshot /\ taken' \in 0 .. MaxSnapshots
  BY <1>1, StoreAssumption DEF Snapshot, StoreAssumption
<1>3. h[1] \in Names
  BY DEF Handle
<1> QED BY <1>2, <1>3, PutKeeps DEF Mutate

LEMMA LoadKeeps ==
    ASSUME StoreInv, NEW h \in Handle, Load(h)
    PROVE  StoreInv'
<1> USE DEF StoreInv, Shape
<1>1. /\ warm' = Promoted({h}) /\ Readable(h) /\ up /\ pending = NoCall
      /\ UNCHANGED <<up, meta, cold, file, index, pending, taken, raised, durable, deleted>>
  BY DEF Load, disk, history, Callable
<1>2. IsPartialFcn(warm', Handle, Snapshot)
  BY <1>1, PromotedIsWarm
<1>3. /\ DOMAIN warm' \subseteq DOMAIN meta
      /\ MemoryIsExact => \A x \in DOMAIN warm' : warm'[x] = meta[x].data
  BY <1>1, PromotedIsExact
<1>4. Shape'
  BY <1>1, <1>2, <1>3 DEF TypeOK, DownIsEmpty, OnlyRecords, PersistUnderWay
<1>5. Contents'
  BY <1>1, <1>3 DEF Contents, MemoryIsExact, IndexIsExact, IndexIsCurrent, Callable
<1> QED BY <1>4, <1>5

\* persist and evict, up to the index.
LEMMA PersistFileKeeps ==
    ASSUME StoreInv, NEW call \in {"persist", "evict"}, NEW h \in Handle, PersistFile(call, h)
    PROVE  StoreInv'
<1> USE DEF StoreInv, Shape
<1>1. /\ Callable /\ h \in DOMAIN meta /\ h \notin cold /\ Readable(h)
      /\ file' = With(file, h, Tensors(h))
      /\ cold' = cold \cup {h}
      /\ pending' = [call |-> call, handle |-> h]
      /\ UNCHANGED <<up, meta, warm, index, taken, raised, durable, deleted>>
  BY DEF PersistFile, history
<1>2. /\ DOMAIN file' = DOMAIN file \cup {h} /\ file'[h] = Tensors(h)
      /\ \A x \in DOMAIN file : x # h => file'[x] = file[x]
  BY <1>1 DEF With
<1>3. Tensors(h) \in Snapshot
  BY <1>1, ReadsSnapshots
<1>4. TypeOK'
  <2>1. IsPartialFcn(file', Handle, Snapshot \cup {Torn})
    BY <1>2, <1>3 DEF TypeOK, IsPartialFcn
  <2>2. pending' \in Call
    BY <1>1 DEF Call
  <2> QED BY <1>1, <2>1, <2>2 DEF TypeOK
<1>5. DownIsEmpty' /\ OnlyRecords' /\ PersistUnderWay'
  BY <1>1 DEF DownIsEmpty, OnlyRecords, PersistUnderWay, Callable
<1>6. Contents'
  <2> SUFFICES ASSUME ~raised PROVE (MemoryIsExact /\ IndexIsExact /\ IndexIsCurrent)'
    BY <1>1 DEF Contents
  <2>1. MemoryIsExact /\ IndexIsExact /\ IndexIsCurrent
    BY DEF Contents
  <2>2. MemoryIsExact'
    BY <1>1, <1>2, <2>1, ReadsExactly DEF MemoryIsExact
  <2>3. index.cold = cold
    BY <1>1, <2>1 DEF IndexIsCurrent
  <2>4. IndexIsExact' /\ IndexIsCurrent'
    BY <1>1, <1>2, <2>1, <2>3 DEF IndexIsExact, IndexIsCurrent, Callable, NoCall
  <2> QED BY <2>2, <2>4
<1> QED BY <1>4, <1>5, <1>6

\* Part of a file is written: of a handle that is not cold.
LEMMA PersistTornKeeps ==
    ASSUME StoreInv, NEW h \in Handle, PersistTorn(h)
    PROVE  StoreInv'
<1> USE DEF StoreInv, Shape
<1>1. /\ Callable /\ h \notin cold /\ file' = With(file, h, Torn)
      /\ UNCHANGED <<up, meta, warm, cold, index, pending, taken, raised, durable, deleted>>
  BY DEF PersistTorn, memory, history
<1>2. /\ DOMAIN file' = DOMAIN file \cup {h} /\ file'[h] = Torn
      /\ \A x \in DOMAIN file : x # h => file'[x] = file[x]
  BY <1>1 DEF With
<1>3. Shape'
  BY <1>1, <1>2 DEF TypeOK, IsPartialFcn, DownIsEmpty, OnlyRecords, PersistUnderWay
<1>4. Contents'
  BY <1>1, <1>2 DEF Contents, MemoryIsExact, IndexIsExact, IndexIsCurrent, Callable
<1> QED BY <1>3, <1>4

\* evict() drops the host copy.
LEMMA AfterPersistDrops ==
    ASSUME NEW call, NEW h
    PROVE  /\ DOMAIN AfterPersist(call, h) \subseteq DOMAIN warm
           /\ \A x \in DOMAIN AfterPersist(call, h) : AfterPersist(call, h)[x] = warm[x]
  BY WithoutEntry DEF AfterPersist

\* persist or evict of a handle that is cold.
LEMMA PersistAgainKeeps ==
    ASSUME StoreInv, NEW call, NEW h \in Handle, PersistAgain(call, h)
    PROVE  StoreInv'
<1> USE DEF StoreInv, Shape
<1>1. /\ Callable /\ h \in cold /\ warm' = AfterPersist(call, h)
      /\ durable' = durable \cup {h}
      /\ UNCHANGED <<up, meta, cold, file, index, pending, taken, raised, deleted>>
  BY DEF PersistAgain, disk
<1>2. /\ DOMAIN warm' \subseteq DOMAIN warm
      /\ \A x \in DOMAIN warm' : warm'[x] = warm[x]
  BY <1>1, AfterPersistDrops
<1>3. Shape'
  BY <1>1, <1>2 DEF TypeOK, IsPartialFcn, DownIsEmpty, OnlyRecords, PersistUnderWay
<1>4. Contents'
  BY <1>1, <1>2 DEF Contents, MemoryIsExact, IndexIsExact, IndexIsCurrent, Callable
<1> QED BY <1>3, <1>4

\* delete, up to the index.
LEMMA DeleteKeeps ==
    ASSUME StoreInv, NEW h \in Handle, Delete(h)
    PROVE  StoreInv'
<1> USE DEF StoreInv, Shape
<1>1. /\ Callable
      /\ meta' = Without(meta, h) /\ warm' = Without(warm, h) /\ cold' = cold \ {h}
      /\ file' = IF h \in cold THEN Without(file, h) ELSE file
      /\ deleted' = deleted \cup ({h} \cap DOMAIN meta)
      /\ pending' = [call |-> "delete", handle |-> h]
      /\ UNCHANGED <<up, index, taken, raised, durable>>
  BY DEF Delete
<1>2. /\ DOMAIN meta' = DOMAIN meta \ {h} /\ DOMAIN warm' = DOMAIN warm \ {h}
      /\ \A x \in DOMAIN meta' : meta'[x] = meta[x]
      /\ \A x \in DOMAIN warm' : warm'[x] = warm[x]
  BY <1>1, WithoutEntry
<1>3. /\ DOMAIN file' = IF h \in cold THEN DOMAIN file \ {h} ELSE DOMAIN file
      /\ \A x \in DOMAIN file' : file'[x] = file[x]
  BY <1>1, WithoutEntry
<1>4. TypeOK'
  <2>1. /\ IsPartialFcn(meta', Handle, Record) /\ IsPartialFcn(warm', Handle, Snapshot)
        /\ IsPartialFcn(file', Handle, Snapshot \cup {Torn})
    BY <1>2, <1>3 DEF TypeOK, IsPartialFcn
  <2>2. pending' \in Call
    BY <1>1 DEF Call
  <2> QED BY <1>1, <2>1, <2>2 DEF TypeOK
<1>5. DownIsEmpty' /\ OnlyRecords' /\ PersistUnderWay'
  BY <1>1, <1>2 DEF DownIsEmpty, OnlyRecords, PersistUnderWay, Callable
<1>6. Contents'
  <2> SUFFICES ASSUME ~raised PROVE (MemoryIsExact /\ IndexIsExact /\ IndexIsCurrent)'
    BY <1>1 DEF Contents
  <2>1. MemoryIsExact /\ IndexIsExact /\ IndexIsCurrent /\ cold \subseteq DOMAIN meta
    BY DEF Contents, OnlyRecords
  <2>2. h \in cold => h \in deleted'
    BY <1>1, <2>1
  <2>3. MemoryIsExact'
    BY <1>1, <1>2, <1>3, <2>1 DEF MemoryIsExact, OnlyRecords
  <2>4. IndexIsExact'
    BY <1>1, <1>3, <2>1, <2>2 DEF IndexIsExact
  <2>5. IndexIsCurrent'
    BY <1>1, <2>1, <2>2 DEF IndexIsCurrent, Callable, NoCall
  <2> QED BY <2>3, <2>4, <2>5
<1> QED BY <1>4, <1>5, <1>6

\* The index is replaced, and the call returns.
LEMMA WriteIndexKeeps ==
    ASSUME StoreInv, WriteIndex
    PROVE  StoreInv'
<1> USE DEF StoreInv, Shape
<1>1. /\ up /\ pending \in Call
      /\ index' = [records |-> meta, cold |-> cold \cap DOMAIN meta]
      /\ pending' = NoCall
      /\ warm' = AfterPersist(pending.call, pending.handle)
      /\ durable' = IF pending.call \in {"persist", "evict"}
                    THEN durable \cup {pending.handle} ELSE durable
      /\ UNCHANGED <<up, meta, cold, file, taken, raised, deleted>>
  BY DEF WriteIndex, TypeOK
<1>2. /\ DOMAIN warm' \subseteq DOMAIN warm
      /\ \A x \in DOMAIN warm' : warm'[x] = warm[x]
  BY <1>1, AfterPersistDrops
<1>3. index'.records = meta /\ index'.cold = cold
  BY <1>1 DEF OnlyRecords
<1>4. pending.handle \in Handle
  BY <1>1 DEF Call
<1>5. TypeOK'
  BY <1>1, <1>2, <1>3, <1>4 DEF TypeOK, IsPartialFcn, OnlyRecords
<1>6. DownIsEmpty' /\ OnlyRecords' /\ PersistUnderWay'
  BY <1>1, <1>2 DEF DownIsEmpty, OnlyRecords, PersistUnderWay, NoCall
<1>7. Contents'
  <2> SUFFICES ASSUME ~raised PROVE (MemoryIsExact /\ IndexIsExact /\ IndexIsCurrent)'
    BY <1>1 DEF Contents
  <2>1. MemoryIsExact /\ IndexIsExact /\ IndexIsCurrent
    BY DEF Contents
  <2>2. MemoryIsExact'
    BY <1>1, <1>2, <2>1 DEF MemoryIsExact, OnlyRecords
  <2>3. IndexIsExact'
    BY <1>1, <1>3, <2>1 DEF MemoryIsExact, IndexIsExact
  <2>4. IndexIsCurrent'
    BY <1>1, <1>3, <2>1 DEF IndexIsCurrent, PersistUnderWay, Callable
  <2> QED BY <2>2, <2>3, <2>4
<1> QED BY <1>5, <1>6, <1>7

\* The index could not be written, or the process ends, or the next one begins.
LEMMA RaiseCrashRestartKeep ==
    ASSUME StoreInv, WriteIndexRaises \/ Crash \/ Restart
    PROVE  StoreInv'
<1> USE DEF StoreInv, Shape
<1>1. CASE WriteIndexRaises
  <2>1. /\ up /\ pending' = NoCall /\ raised' = TRUE
        /\ UNCHANGED <<up, meta, warm, cold, file, index, taken, durable, deleted>>
    BY <1>1 DEF WriteIndexRaises, memory, disk
  <2> QED BY <2>1 DEF TypeOK, DownIsEmpty, OnlyRecords, PersistUnderWay, Contents, NoCall
<1>2. CASE Crash
  <2>1. /\ ~up' /\ up' \in BOOLEAN
        /\ DOMAIN meta' = {} /\ DOMAIN warm' = {} /\ cold' = {} /\ pending' = NoCall
        /\ UNCHANGED <<file, index, taken, raised, durable, deleted>>
    BY <1>2, NoEntries DEF Crash, disk, history
  <2>2. Shape'
    BY <2>1 DEF TypeOK, IsPartialFcn, DownIsEmpty, OnlyRecords, PersistUnderWay, NoCall
  <2>3. Contents'
    BY <2>1 DEF Contents, MemoryIsExact, IndexIsExact, IndexIsCurrent, Callable
  <2> QED BY <2>2, <2>3
<1>3. CASE Restart
  <2>1. /\ ~up /\ up' /\ up' \in BOOLEAN
        /\ meta' = index.records /\ cold' = index.cold
        /\ DOMAIN warm = {} /\ pending = NoCall
        /\ UNCHANGED <<warm, file, index, pending, taken, raised, durable, deleted>>
    BY <1>3 DEF Restart, disk, history, DownIsEmpty
  <2>2. Shape'
    BY <2>1 DEF TypeOK, IsPartialFcn, DownIsEmpty, OnlyRecords, PersistUnderWay, NoCall
  <2>3. Contents'
    BY <2>1 DEF Contents, MemoryIsExact, IndexIsExact, IndexIsCurrent, Callable
  <2> QED BY <2>2, <2>3
<1> QED BY <1>1, <1>2, <1>3

LEMMA StoreInvHolds == Spec => []StoreInv
<1>1. Init => StoreInv
  <2> SUFFICES ASSUME Init PROVE StoreInv
    OBVIOUS
  <2>1. /\ up /\ up \in BOOLEAN /\ DOMAIN meta = {} /\ DOMAIN warm = {} /\ cold = {} /\ DOMAIN file = {}
        /\ DOMAIN index.records = {} /\ index.cold = {} /\ pending = NoCall
        /\ taken \in 0 .. MaxSnapshots /\ raised \in BOOLEAN /\ durable = {} /\ deleted = {}
    <3>1. index.records = << >> /\ index.cold = {}
      BY DEF Init
    <3>2. meta = << >> /\ warm = << >> /\ file = << >>
      BY DEF Init
    <3>3. taken \in 0 .. MaxSnapshots
      BY StoreAssumption DEF Init, StoreAssumption
    <3>4. up = TRUE /\ raised = FALSE
      BY DEF Init
    <3>5. cold = {} /\ durable = {} /\ deleted = {} /\ pending = NoCall
      BY DEF Init
    <3> QED BY <3>1, <3>2, <3>3, <3>4, <3>5, NoEntries
  <2>2. Shape
    <3>1. TypeOK
      BY <2>1 DEF TypeOK, IsPartialFcn
    <3>2. pending.call \notin {"persist", "evict"}
      BY <2>1 DEF NoCall
    <3> QED BY <2>1, <3>1, <3>2 DEF Shape, DownIsEmpty, OnlyRecords, PersistUnderWay
  <2>3. Contents
    BY <2>1 DEF Contents, MemoryIsExact, IndexIsExact, IndexIsCurrent
  <2> QED BY <2>2, <2>3 DEF StoreInv
<1>2. StoreInv /\ [Next]_vars => StoreInv'
  <2> SUFFICES ASSUME StoreInv, [Next]_vars PROVE StoreInv'
    OBVIOUS
  <2>1. ASSUME NEW n \in Names, Save(n) PROVE StoreInv'
    BY <2>1, SaveKeeps
  <2>2. ASSUME NEW h \in Handle, NEW n \in Names, Fork(h, n) PROVE StoreInv'
    BY <2>2, ForkKeeps
  <2>3. ASSUME NEW h \in Handle, NEW o \in Handle, Mutate(h, o) PROVE StoreInv'
    BY <2>3, MutateKeeps
  <2>4. ASSUME NEW h \in Handle, Load(h) \/ PersistTorn(h) \/ Delete(h) PROVE StoreInv'
    BY <2>4, LoadKeeps, PersistTornKeeps, DeleteKeeps
  <2>5. ASSUME NEW h \in Handle, NEW call \in {"persist", "evict"},
               PersistFile(call, h) \/ PersistAgain(call, h)
        PROVE  StoreInv'
    BY <2>5, PersistFileKeeps, PersistAgainKeeps
  <2>6. CASE WriteIndex \/ WriteIndexRaises \/ Crash \/ Restart
    BY <2>6, WriteIndexKeeps, RaiseCrashRestartKeep
  <2>7. CASE UNCHANGED vars
    BY <2>7 DEF vars, StoreInv, Shape, TypeOK, DownIsEmpty, OnlyRecords, PersistUnderWay, Contents,
                MemoryIsExact, IndexIsExact, IndexIsCurrent, Callable
  <2> QED BY <2>1, <2>2, <2>3, <2>4, <2>5, <2>6, <2>7 DEF Next
<1> QED BY <1>1, <1>2, PTL DEF Spec

-----------------------------------------------------------------------------
(***************************************************************************)
(* The results.                                                            *)
(***************************************************************************)

\* The record table, the two tiers, the index and the files keep their types
\* through every call, crash and restart (store.py).
THEOREM StoreTypes == Spec => []TypeOK
<1>1. StoreInv => TypeOK
  BY DEF StoreInv, Shape
<1> QED BY <1>1, StoreInvHolds, PTL

\* Whatever crashes, and however handles are deleted and numbered again: a
\* handle reads the bytes its record was made with, from memory or from its file.
THEOREM BytesAreRight == Spec => []NeverWrongBytes
<1>1. StoreInv => NeverWrongBytes
  BY ReadsExactly DEF StoreInv, Shape, Contents, NeverWrongBytes
<1> QED BY <1>1, StoreInvHolds, PTL

\* What persist() returned for can be read in this process and every later one
\* until it is deleted.
THEOREM PersistedIsDurable == Spec => []PersistedSurvives
<1>1. StoreInv => PersistedSurvives
  <2> SUFFICES ASSUME StoreInv, up, ~raised, NEW h \in durable \ deleted
               PROVE  h \in DOMAIN meta /\ Readable(h) /\ Tensors(h) = meta[h].data
    BY DEF PersistedSurvives, Durable
  <2>1. /\ OnlyRecords /\ MemoryIsExact /\ h \in cold /\ h \in DOMAIN file
        /\ h \in DOMAIN meta /\ meta[h] \in Record
    BY DEF StoreInv, Shape, TypeOK, IsPartialFcn, Contents, MemoryIsExact, IndexIsCurrent,
           OnlyRecords
  <2>2. file[h] = meta[h].data /\ file[h] # Torn
    BY <2>1 DEF MemoryIsExact, Record, Snapshot, Torn
  <2>3. Readable(h)
    BY <2>1, <2>2 DEF Readable
  <2> QED BY <2>1, <2>3, ReadsExactly
<1> QED BY <1>1, StoreInvHolds, PTL

\* While a process runs no call changes a record that exists: a new one gets a
\* handle that no record has, whichever versions were deleted before.
THEOREM RecordsNeverChange == Spec => RecordsImmutable
<1> DEFINE Same == \A h \in DOMAIN meta \cap DOMAIN meta' : meta'[h] = meta[h]
<1>1. StoreInv /\ [Next]_vars => [Same]_vars
  <2> SUFFICES ASSUME StoreInv, Next PROVE Same
    OBVIOUS
  <2>1. ASSUME NEW n \in Names, NEW d, NEW p, NEW H, Put(n, d, p, H) PROVE Same
    <3>1. /\ <<n, NextVersion(n)>> \in Handle
          /\ meta' = With(meta, <<n, NextVersion(n)>>, [data |-> d, parent |-> p])
      BY <2>1 DEF Put
    <3>2. <<n, NextVersion(n)>> \notin DOMAIN meta
      BY <3>1, NextVersionIsNew, StoreAssumption DEF Handle
    <3> QED BY <3>1, <3>2 DEF With
  <2>2. ASSUME NEW n \in Names, Save(n) PROVE Same
    BY <2>1, <2>2 DEF Save
  <2>3. ASSUME NEW h \in Handle, NEW n \in Names, Fork(h, n) PROVE Same
    BY <2>1, <2>3 DEF Fork
  <2>4. ASSUME NEW h \in Handle, NEW o \in Handle, Mutate(h, o) PROVE Same
    <3>1. h[1] \in Names
      BY DEF Handle
    <3> QED BY <2>1, <2>4, <3>1 DEF Mutate
  <2>5. ASSUME NEW h \in Handle, Delete(h) PROVE Same
    BY <2>5, WithoutEntry DEF Delete
  <2>6. ASSUME NEW h \in Handle, Load(h) \/ PersistTorn(h) PROVE Same
    BY <2>6 DEF Load, PersistTorn, memory
  <2>7. ASSUME NEW h \in Handle, NEW call, PersistFile(call, h) \/ PersistAgain(call, h)
        PROVE  Same
    BY <2>7 DEF PersistFile, PersistAgain
  <2>8. CASE WriteIndex \/ WriteIndexRaises
    BY <2>8 DEF WriteIndex, WriteIndexRaises, memory
  <2>9. CASE Crash \/ Restart
    BY <2>9 DEF Crash, Restart, StoreInv, Shape, DownIsEmpty
  <2> QED BY <2>2, <2>3, <2>4, <2>5, <2>6, <2>7, <2>8, <2>9 DEF Next
<1> QED BY <1>1, StoreInvHolds, PTL DEF Spec, RecordsImmutable

-----------------------------------------------------------------------------
(***************************************************************************)
(* The slot allocators: least elements, blocks, and the lowest slots.      *)
(***************************************************************************)

\* A set of natural numbers has a least one.
LEMMA Least ==
    ASSUME NEW S, S \subseteq Nat, S # {}
    PROVE  \E m \in S : \A x \in S : m <= x
<1>1. PICK m \in S : \A y \in S : ~ (<<y, m>> \in OpToRel(<, Nat))
  BY NatLessThanWellFounded, WFMin
<1>2. \A y \in S : ~ (y < m)
  BY <1>1 DEF OpToRel
<1>3. \A y \in S : m <= y
  BY <1>2
<1> QED BY <1>3

\* A block is the BlockSize slots from a multiple of it on.
LEMMA BlockIsRange ==
    ASSUME Slots!SlotAssumption, NEW b \in Nat
    PROVE  /\ b * BlockSize \in Nat /\ b <= b * BlockSize
           /\ b * BlockSize \in Slots!Block(b)
<1>1. BlockSize \in Nat /\ BlockSize >= 1
  BY DEF Slots!SlotAssumption
<1>2. b * BlockSize \in Nat /\ b <= b * BlockSize
  BY <1>1
<1> QED BY <1>1, <1>2 DEF Slots!Block

\* The padding fills up to a multiple of BlockSize, where the next page begins.
LEMMA PaddedIsAligned ==
    ASSUME Slots!SlotAssumption, NEW a, a.next \in Nat
    PROVE  /\ Slots!Padding(a) \in Nat
           /\ (a.next + Slots!Padding(a)) \div BlockSize \in Nat
           /\ ((a.next + Slots!Padding(a)) \div BlockSize) * BlockSize
                = a.next + Slots!Padding(a)
<1> DEFINE n == a.next  d == BlockSize  q == n \div d  r == n % d  m == n + Slots!Padding(a)
<1>1. n \in Nat /\ d \in Nat /\ d >= 1
  BY DEF Slots!SlotAssumption
<1>2. q \in Nat /\ r \in Nat /\ r < d /\ n = d * q + r
  <2> HIDE DEF n, d
  <2> QED BY <1>1
<1>3. Slots!Padding(a) = IF r = 0 THEN 0 ELSE d - r
  BY DEF Slots!Padding
<1>4. Slots!Padding(a) \in Nat
  <2> HIDE DEF r, d
  <2> QED BY <1>1, <1>2, <1>3
<1>5. \E k \in Nat : m = d * k
  <2>1. CASE r = 0
    <3>1. m = d * q
      <4> HIDE DEF n, d, q, r
      <4> QED BY <1>1, <1>2, <1>3, <2>1
    <3> HIDE DEF m, d, q
    <3> QED BY <1>2, <3>1
  <2>2. CASE r # 0
    <3>1. m = d * q + d
      <4> HIDE DEF n, d, q, r
      <4>1. d * q \in Nat
        BY <1>1, <1>2
      <4> QED BY <1>1, <1>2, <1>3, <2>2, <4>1
    <3>2. d * q + d = d * (q + 1) /\ q + 1 \in Nat
      <4> HIDE DEF d, q
      <4> QED BY <1>1, <1>2
    <3> HIDE DEF m, d, q
    <3> QED BY <3>1, <3>2
  <2> QED BY <2>1, <2>2
<1>6. PICK k \in Nat : m = d * k
  BY <1>5
<1>7. (d * k) \div d = k /\ k * d = d * k
  <2> HIDE DEF d
  <2>1. (d * k) \div d = k
    BY <1>1
  <2> QED BY <1>1, <2>1
<1>8. m \div d = k /\ k * d = m
  <2> HIDE DEF m, d
  <2> QED BY <1>6, <1>7
<1> QED BY <1>4, <1>8

LEMMA SameCardinality == \A S : Slots!Cardinality(S) = Cardinality(S)
  BY Zenon DEF Slots!Cardinality, Cardinality, Slots!IsFiniteSet, IsFiniteSet

\* The n lowest of a finite set are n, if it has as many.
LEMMA LowestAre ==
    ASSUME NEW S, S \subseteq Nat, IsFiniteSet(S), NEW n \in Nat
    PROVE  /\ Slots!Lowest(S, n) \subseteq S
           /\ n <= Cardinality(S) => Cardinality(Slots!Lowest(S, n)) = n
           /\ n >= Cardinality(S) => Slots!Lowest(S, n) = S
<1> DEFINE Below(s) == {t \in S : t < s}
           count == [s \in S |-> Cardinality(Below(s))]
           Low(k) == {s \in S : count[s] < k}
           Bad == {k \in Nat : k <= Cardinality(S) /\ Cardinality(Low(k)) # k}
<1>1. \A k : Slots!Lowest(S, k) = Low(k) /\ Low(k) \subseteq S
  <2>1. \A s \in S : count[s] = Slots!Cardinality({t \in S : t < s})
    BY SameCardinality
  <2> HIDE DEF count
  <2> QED BY <2>1 DEF Slots!Lowest
<1>2. \A s \in S : /\ IsFiniteSet(Below(s)) /\ count[s] = Cardinality(Below(s))
                   /\ count[s] \in Nat /\ count[s] < Cardinality(S)
  <2> TAKE s \in S
  <2>1. Below(s) \in SUBSET S /\ Below(s) # S
    OBVIOUS
  <2>2. count[s] = Cardinality(Below(s))
    OBVIOUS
  <2> HIDE DEF Below, count
  <2> QED BY <2>1, <2>2, FS_Subset, FS_CardinalityType
<1>3. \A k : IsFiniteSet(Low(k)) /\ Cardinality(Low(k)) \in Nat
  <2> TAKE k
  <2>1. Low(k) \in SUBSET S
    OBVIOUS
  <2> HIDE DEF Low
  <2> QED BY <2>1, FS_Subset, FS_CardinalityType
<1>4. Cardinality(S) \in Nat
  BY FS_CardinalityType
<1>5. n >= Cardinality(S) => Low(n) = S
  <2>1. \A s \in S : count[s] \in Nat /\ count[s] < Cardinality(S)
    BY <1>2, Zenon
  <2> HIDE DEF Below, count
  <2>2. n >= Cardinality(S) => \A s \in S : count[s] < n
    BY <2>1, <1>4
  <2> QED BY <2>2, Zenon
<1>6. ASSUME Bad # {} PROVE FALSE
  <2>1. PICK k \in Bad : \A x \in Bad : k <= x
    <3> HIDE DEF Bad
    <3>1. Bad \subseteq Nat
      BY DEF Bad
    <3> QED BY <1>6, <3>1, Least
  <2>2. k \in Nat /\ k <= Cardinality(S) /\ Cardinality(Low(k)) # k
    OBVIOUS
  <2>3. k # 0
    <3>1. Low(0) = {}
      <4>1. \A s \in S : count[s] \in Nat
        BY <1>2, Zenon
      <4> HIDE DEF Below, count
      <4>2. \A s \in S : ~(count[s] < 0)
        BY <4>1
      <4> QED BY <4>2, Zenon
    <3> HIDE DEF Low
    <3> QED BY <2>2, <3>1, FS_EmptySet
  <2> DEFINE p == k - 1  L == Low(p)  M == S \ L
  <2>4. p \in Nat /\ p < k /\ p \notin Bad
    <3> HIDE DEF Bad
    <3> QED BY <2>1, <2>2, <2>3
  <2>5. Cardinality(L) = p
    <3> HIDE DEF Low
    <3> QED BY <2>2, <2>4, <1>4
  <2>6. M # {}
    <3>1. Cardinality(L) < Cardinality(S)
      <4> HIDE DEF L
      <4> QED BY <2>2, <2>4, <2>5, <1>4
    <3>2. L \subseteq S
      OBVIOUS
    <3>3. SUFFICES ASSUME M = {} PROVE FALSE
      OBVIOUS
    <3>4. L = S
      <4>1. \A x \in S : x \in L
        BY <3>3
      <4> HIDE DEF L
      <4> QED BY <3>2, <4>1
    <3> HIDE DEF L
    <3> QED BY <3>1, <3>4, <1>4
  <2>7. PICK m \in M : \A x \in M : m <= x
    <3>1. M \subseteq Nat
      OBVIOUS
    <3> HIDE DEF M
    <3> QED BY <2>6, <3>1, Least
  <2>8. m \in S /\ m \notin L /\ m \in Nat
    OBVIOUS
  <2>9. ASSUME NEW u \in L, NEW t \in M PROVE u < t
    <3>1. SUFFICES ASSUME ~(u < t) PROVE FALSE
      OBVIOUS
    <3>2. u \in Nat /\ t \in Nat /\ u \in S /\ t \in S
      OBVIOUS
    <3>3. Below(t) \in SUBSET Below(u)
      <4>1. \A v \in S : v < t => v < u
        BY <3>1, <3>2
      <4> QED BY <4>1
    <3>4. count[t] <= count[u]
      <4> HIDE DEF Below, count
      <4> QED BY <1>2, <3>2, <3>3, FS_Subset
    <3>5. count[u] < p
      OBVIOUS
    <3>6. count[t] < p
      <4> HIDE DEF Below, count, p
      <4> QED BY <1>2, <2>4, <3>2, <3>4, <3>5
    <3> QED BY <3>6, <3>2
  <2>10. Below(m) = L
    <3>1. \A u \in L : u \in Below(m)
      BY <2>9
    <3>2. \A u \in Below(m) : u \in L
      <4> TAKE u \in Below(m)
      <4>1. u \in S /\ u < m /\ u \in Nat
        OBVIOUS
      <4> HIDE DEF L, Below, count
      <4> QED BY <2>7, <2>8, <4>1
    <3> HIDE DEF L
    <3> QED BY <3>1, <3>2
  <2>11. m \in Low(k)
    <3>1. count[m] < k
      <4>1. count[m] = Cardinality(Below(m))
        BY <1>2, <2>8, Zenon
      <4>2. count[m] = Cardinality(L)
        BY <4>1, <2>10, Zenon
      <4> HIDE DEF Below, count, L, p
      <4> QED BY <4>2, <2>5, <2>4, <2>2
    <3> QED BY <3>1, <2>8
  <2>12. ASSUME NEW t \in M, t # m PROVE t \notin Low(k)
    <3>1. t \in Nat /\ m < t /\ t \in S
      BY <2>7, <2>8, <2>12
    <3>2. L \cup {m} \in SUBSET Below(t)
      <4>1. \A u \in L : u \in Below(t)
        BY <2>9
      <4>2. m \in Below(t)
        BY <3>1, <2>8
      <4> HIDE DEF L, Below, count
      <4> QED BY <4>1, <4>2
    <3>3. Cardinality(L \cup {m}) = k /\ IsFiniteSet(L)
      <4>1. IsFiniteSet(L)
        BY <1>3, Zenon
      <4>2. k = p + 1
        BY <2>2
      <4> HIDE DEF L, p
      <4> QED BY <4>1, <4>2, <2>5, <2>8, FS_AddElement
    <3>4. k <= count[t]
      <4> HIDE DEF L, Below, count
      <4> QED BY <1>2, <3>1, <3>2, <3>3, FS_Subset
    <3>5. ~(count[t] < k)
      <4> HIDE DEF Below, count
      <4> QED BY <1>2, <2>2, <3>1, <3>4
    <3> QED BY <3>5
  <2>13. \A u \in L : u \in Low(k)
    <3> TAKE u \in L
    <3>1. u \in S /\ count[u] < p
      OBVIOUS
    <3>2. count[u] < k
      <4> HIDE DEF Below, count, p
      <4> QED BY <1>2, <2>2, <2>4, <3>1
    <3> QED BY <3>1, <3>2
  <2>14. Low(k) = L \cup {m}
    <3>1. Low(k) \subseteq S
      OBVIOUS
    <3> HIDE DEF Low
    <3>2. M = S \ L
      OBVIOUS
    <3> HIDE DEF L, M
    <3> QED BY <3>1, <3>2, <2>11, <2>12, <2>13
  <2>15. IsFiniteSet(L)
    BY <1>3, Zenon
  <2>16. k = p + 1
    BY <2>2
  <2> HIDE DEF L, p, Low
  <2> QED BY <2>2, <2>4, <2>5, <2>8, <2>14, <2>15, <2>16, FS_AddElement
<1>7. n <= Cardinality(S) => Cardinality(Low(n)) = n
  <2> HIDE DEF Low
  <2> QED BY <1>6
<1> HIDE DEF Low
<1> QED BY <1>1, <1>5, <1>7

-----------------------------------------------------------------------------
(***************************************************************************)
(* The inductive invariant, and every operation on an allocator.           *)
(***************************************************************************)

\* An allocator whose next slot is in its range, and that accounts for every
\* slot below it.
SoundAllocator(a) ==
    /\ a \in Slots!Allocator
    /\ a.next \in Slots!First(a.kind) .. Slots!End(a.kind)
    /\ a.free \cap a.out = {}
    /\ a.free \cup a.out = Slots!First(a.kind) .. a.next - 1

\* What a call did to what is handed out: it added new slots, and left the
\* kind of the allocator alone.
Adds(a, b, new) ==
    /\ b.kind = a.kind
    /\ new \cap a.out = {} /\ b.out = a.out \cup new
    /\ new \subseteq Slots!First(a.kind) .. Slots!End(a.kind) - 1

\* The ranges of the allocators.
LEMMA Ranges ==
    ASSUME Slots!SlotAssumption, NEW kind \in Slots!Kinds
    PROVE  /\ Slots!First(kind) \in Nat /\ Slots!End(kind) \in Nat
           /\ Slots!First(kind) <= Slots!End(kind) /\ Slots!End(kind) <= Capacity
           /\ Capacity \in Nat /\ RequestSlots \in Nat /\ RequestSlots <= Capacity
           /\ BlockSize \in Nat /\ BlockSize >= 1
  BY DEF Slots!SlotAssumption, Slots!Kinds, Slots!First, Slots!End

\* The fields of a sound allocator.
LEMMA Fields ==
    ASSUME Slots!SlotAssumption, NEW a, SoundAllocator(a)
    PROVE  /\ a.kind \in Slots!Kinds /\ a.next \in Nat /\ a.next <= Capacity
           /\ a.free \subseteq Slots!Slot /\ a.out \subseteq Slots!Slot
           /\ a.pages \subseteq Nat /\ a.paged \in BOOLEAN
           /\ a.free \subseteq Nat /\ IsFiniteSet(a.free)
           /\ Cardinality(a.free) \in Nat
<1>1. /\ a.kind \in Slots!Kinds /\ a.next \in 0 .. Capacity
      /\ a.free \subseteq Slots!Slot /\ a.out \subseteq Slots!Slot
      /\ a.pages \subseteq Nat /\ a.paged \in BOOLEAN
  BY DEF SoundAllocator, Slots!Allocator
<1>2. Capacity \in Nat
  BY DEF Slots!SlotAssumption
<1>3. IsFiniteSet(0 .. Capacity - 1)
  BY <1>2, FS_Interval
<1>4. a.free \subseteq 0 .. Capacity - 1
  BY <1>1 DEF Slots!Slot
<1>5. IsFiniteSet(a.free) /\ Cardinality(a.free) \in Nat
  BY <1>3, <1>4, FS_Subset, FS_CardinalityType
<1> QED BY <1>1, <1>2, <1>4, <1>5

\* A new allocator.
LEMMA NewIsSound ==
    ASSUME Slots!SlotAssumption, NEW kind \in Slots!Kinds
    PROVE  SoundAllocator(Slots!New(kind))
<1>1. CASE kind = "pool"
  BY <1>1, Ranges DEF SoundAllocator, Slots!Allocator, Slots!New, Slots!First, Slots!End,
                      Slots!Slot, Slots!Kinds
<1>2. CASE kind # "pool"
  BY <1>2, Ranges DEF SoundAllocator, Slots!Allocator, Slots!New, Slots!First, Slots!End,
                      Slots!Slot, Slots!Kinds
<1> QED BY <1>1, <1>2

\* What alloc_slots takes.
LEMMA TakenSlots ==
    ASSUME Slots!SlotAssumption, NEW a, SoundAllocator(a), NEW n \in Nat, Slots!CanTake(a, n)
    PROVE  /\ Slots!Fresh(a, n) \in Nat
           /\ a.next + Slots!Fresh(a, n) <= Slots!End(a.kind)
           /\ Slots!Taken(a, n) \cap a.out = {}
           /\ Slots!Taken(a, n) \subseteq
                a.free \cup (a.next .. a.next + Slots!Fresh(a, n) - 1)
           /\ a.next .. a.next + Slots!Fresh(a, n) - 1 \subseteq Slots!Taken(a, n)
           /\ Cardinality(Slots!Taken(a, n)) = n
<1> DEFINE low == Slots!Lowest(a.free, n)  k == Cardinality(a.free)  f == Slots!Fresh(a, n)
           new == a.next .. a.next + f - 1
<1>1. f = IF k >= n THEN 0 ELSE n - k
  BY SameCardinality DEF Slots!Fresh
<1>2. k \in Nat /\ a.next \in Nat /\ IsFiniteSet(a.free) /\ a.free \subseteq Nat
  BY Fields
<1>3. f \in Nat
  <2> HIDE DEF f, k
  <2> QED BY <1>1, <1>2
<1>4. /\ low \subseteq a.free /\ (n <= k => Cardinality(low) = n)
      /\ (n >= k => low = a.free)
  BY <1>2, LowestAre
<1>5. a.next + f <= Slots!End(a.kind)
  BY DEF Slots!CanTake
<1>6. Slots!Taken(a, n) = low \cup new
  BY DEF Slots!Taken
<1>7. new \cap (a.free \cup a.out) = {} /\ a.free \cap a.out = {}
  <2>1. /\ a.free \cup a.out = Slots!First(a.kind) .. a.next - 1
        /\ a.free \cap a.out = {}
    BY DEF SoundAllocator
  <2>2. new \cap (Slots!First(a.kind) .. a.next - 1) = {}
    <3>1. Slots!First(a.kind) \in Nat
      BY Fields, Ranges
    <3> HIDE DEF f
    <3> QED BY <1>2, <1>3, <3>1
  <2> HIDE DEF new
  <2> QED BY <2>1, <2>2
<1>8. IsFiniteSet(new) /\ Cardinality(new) = f
  <2> DEFINE from == a.next  last == from + f - 1
  <2>1. from \in Int /\ last \in Int
    BY <1>2, <1>3
  <2>2. /\ IsFiniteSet(from .. last)
        /\ Cardinality(from .. last) = IF from > last THEN 0 ELSE last - from + 1
    <3> HIDE DEF from, last
    <3> QED BY <2>1, FS_Interval
  <2>3. (IF from > last THEN 0 ELSE last - from + 1) = f
    <3> HIDE DEF f
    <3> QED BY <1>2, <1>3
  <2>4. new = from .. last
    OBVIOUS
  <2> HIDE DEF from, last, new, f
  <2> QED BY <2>2, <2>3, <2>4
<1>9. Cardinality(low \cup new) = n
  <2>1. IsFiniteSet(low) /\ Cardinality(low) \in Nat
    BY <1>2, <1>4, FS_Subset, FS_CardinalityType
  <2>2. low \cap new = {}
    <3> HIDE DEF low, new
    <3> QED BY <1>4, <1>7
  <2>3. Cardinality(low \cup new) = Cardinality(low) + f
    <3> HIDE DEF low, new, f
    <3>1. Cardinality(low \cup new)
            = Cardinality(low) + Cardinality(new) - Cardinality(low \cap new)
      BY <1>8, <2>1, FS_Union
    <3>2. Cardinality(low \cap new) = 0
      BY <2>2, FS_EmptySet, Zenon
    <3> QED BY <1>3, <1>8, <2>1, <3>1, <3>2
  <2> HIDE DEF low, new, f, k
  <2>4. CASE n <= k
    BY <1>1, <1>2, <1>4, <2>3, <2>4
  <2>5. CASE ~(n <= k)
    <3>1. low = a.free
      BY <1>2, <1>4, <2>5
    <3>2. Cardinality(low) = k
      BY <3>1 DEF k
    <3> QED BY <1>1, <1>2, <2>3, <2>5, <3>2
  <2> QED BY <2>4, <2>5
<1> HIDE DEF low, new
<1> QED BY <1>3, <1>4, <1>5, <1>6, <1>7, <1>9 DEF new

\* When an allocator is sound: by its fields.
LEMMA SoundByFields ==
    ASSUME Slots!SlotAssumption,
           NEW kind \in Slots!Kinds, NEW next \in Slots!First(kind) .. Slots!End(kind),
           NEW free, NEW out, NEW pages \in SUBSET Nat, NEW paged \in BOOLEAN,
           free \cap out = {}, free \cup out = Slots!First(kind) .. next - 1,
           NEW b \in [kind : {kind}, next : {next}, free : {free}, pages : {pages},
                      paged : {paged}, out : {out}]
    PROVE  SoundAllocator(b) /\ b.kind = kind /\ b.out = out
<1> DEFINE first == Slots!First(kind)  end == Slots!End(kind)
<1>1. /\ first \in Nat /\ end \in Nat /\ end <= Capacity /\ Capacity \in Nat
      /\ next \in first .. end
  BY Ranges
<1> HIDE DEF first, end
<1>2. first .. next - 1 \subseteq Slots!Slot /\ next \in 0 .. Capacity
  BY <1>1 DEF Slots!Slot
<1>3. free \subseteq Slots!Slot /\ out \subseteq Slots!Slot
  BY <1>2 DEF first
<1>4. b \in Slots!Allocator
  BY <1>2, <1>3 DEF Slots!Allocator
<1> QED BY <1>1, <1>4 DEF SoundAllocator, first, end

\* An allocator is its fields.
LEMMA AllocatorIs ==
    ASSUME NEW a, SoundAllocator(a)
    PROVE  /\ a \in [kind : {a.kind}, next : {a.next}, free : {a.free}, pages : {a.pages},
                     paged : {a.paged}, out : {a.out}]
           /\ a.next \in Slots!First(a.kind) .. Slots!End(a.kind)
           /\ a.free \cap a.out = {}
           /\ a.free \cup a.out = Slots!First(a.kind) .. a.next - 1
  BY DEF SoundAllocator, Slots!Allocator

\* alloc_slots: n slots that were not handed out.
LEMMA TakeIsSound ==
    ASSUME Slots!SlotAssumption, NEW a, SoundAllocator(a), NEW n \in Nat, Slots!CanTake(a, n)
    PROVE  /\ SoundAllocator(Slots!Take(a, n))
           /\ Adds(a, Slots!Take(a, n), Slots!Taken(a, n))
<1> DEFINE T == Slots!Taken(a, n)  f == Slots!Fresh(a, n)  b == Slots!Take(a, n)
           first == Slots!First(a.kind)  end == Slots!End(a.kind)
           new == a.next .. a.next + f - 1
<1>1. b \in [kind : {a.kind}, next : {a.next + f}, free : {a.free \ T}, pages : {a.pages},
             paged : {a.paged}, out : {a.out \cup T}]
  <2> HIDE DEF T, f
  <2> QED BY AllocatorIs DEF Slots!Take, T, f
<1>2. /\ f \in Nat /\ a.next + f <= end /\ T \cap a.out = {}
      /\ T \subseteq a.free \cup new /\ new \subseteq T
  BY TakenSlots
<1>3. first \in Nat /\ end \in Nat /\ first <= end
  BY Fields, Ranges
<1>4. /\ a.next \in first .. end /\ a.free \cap a.out = {}
      /\ a.free \cup a.out = first .. a.next - 1
      /\ a.kind \in Slots!Kinds /\ a.pages \subseteq Nat /\ a.paged \in BOOLEAN
  BY Fields, AllocatorIs
<1> HIDE DEF T, f, first, end, new
<1>5. first .. (a.next + f) - 1 = (first .. a.next - 1) \cup new
  BY <1>2, <1>3, <1>4 DEF new
<1>6. /\ (a.free \ T) \cap (a.out \cup T) = {}
      /\ (a.free \ T) \cup (a.out \cup T) = first .. (a.next + f) - 1
  BY <1>2, <1>4, <1>5
<1>7. a.next + f \in first .. end
  BY <1>2, <1>3, <1>4
<1>8. SoundAllocator(b)
  <2> HIDE DEF b
  <2> QED BY <1>1, <1>4, <1>6, <1>7, SoundByFields DEF first, end
<1>9. T \subseteq first .. end - 1
  <2>1. first .. (a.next + f) - 1 \subseteq first .. end - 1
    BY <1>3, <1>7
  <2> QED BY <1>6, <2>1
<1> QED BY <1>1, <1>2, <1>8, <1>9 DEF Adds, T, first, end

\* alloc_slots that raises, and free_slots: what is handed out is what was, or
\* less what is given back.
LEMMA TakeRefusedIsSound ==
    ASSUME Slots!SlotAssumption, NEW a, SoundAllocator(a)
    PROVE  /\ SoundAllocator(Slots!TakeRefused(a))
           /\ Adds(a, Slots!TakeRefused(a), {})
<1> DEFINE p == a.pages \cup {b \in Slots!PageId : Slots!IsFree(a, b)}
           c == [a EXCEPT !.pages = p]
<1>1. /\ a.kind \in Slots!Kinds /\ a.next \in Slots!First(a.kind) .. Slots!End(a.kind)
      /\ a.free \cap a.out = {} /\ a.free \cup a.out = Slots!First(a.kind) .. a.next - 1
      /\ a.pages \subseteq Nat /\ a.paged \in BOOLEAN
  BY Fields, AllocatorIs
<1>2. p \in SUBSET Nat
  <2>1. Slots!PageId \subseteq Nat
    BY DEF Slots!PageId
  <2> QED BY <1>1, <2>1
<1>3. c \in [kind : {a.kind}, next : {a.next}, free : {a.free}, pages : {p},
             paged : {a.paged}, out : {a.out}]
  <2> HIDE DEF p
  <2> QED BY AllocatorIs
<1>4. SoundAllocator(c)
  <2> HIDE DEF c, p
  <2> QED BY <1>1, <1>2, <1>3, SoundByFields
<1>5. c.kind = a.kind /\ c.out = a.out
  BY <1>3
<1>6. Slots!TakeRefused(a) \in {a, c}
  BY DEF Slots!TakeRefused
<1> HIDE DEF c
<1> QED BY <1>4, <1>5, <1>6 DEF Adds

\* free_slots: what is given back is free again.
LEMMA GivenBackIsSound ==
    ASSUME Slots!SlotAssumption, NEW a, SoundAllocator(a), NEW S \in SUBSET a.out
    PROVE  /\ SoundAllocator(Slots!GivenBack(a, S))
           /\ Slots!GivenBack(a, S).kind = a.kind
           /\ Slots!GivenBack(a, S).out = a.out \ S
<1> DEFINE p == IF a.paged THEN a.pages \cup Slots!WholePages(S) ELSE a.pages
           c == Slots!GivenBack(a, S)
<1>1. /\ a.kind \in Slots!Kinds /\ a.next \in Slots!First(a.kind) .. Slots!End(a.kind)
      /\ a.free \cap a.out = {} /\ a.free \cup a.out = Slots!First(a.kind) .. a.next - 1
      /\ a.pages \subseteq Nat /\ a.paged \in BOOLEAN
  BY Fields, AllocatorIs
<1>2. p \in SUBSET Nat
  <2>1. Slots!WholePages(S) \subseteq Nat
    BY DEF Slots!WholePages, Slots!PageId
  <2> QED BY <1>1, <2>1
<1>3. c \in [kind : {a.kind}, next : {a.next}, free : {a.free \cup S}, pages : {p},
             paged : {a.paged}, out : {a.out \ S}]
  BY AllocatorIs DEF Slots!GivenBack
<1>4. /\ (a.free \cup S) \cap (a.out \ S) = {}
      /\ (a.free \cup S) \cup (a.out \ S) = Slots!First(a.kind) .. a.next - 1
  BY <1>1
<1> HIDE DEF c, p
<1>5. SoundAllocator(c)
  BY <1>1, <1>2, <1>3, <1>4, SoundByFields
<1> QED BY <1>3, <1>5 DEF c

\* Padding adds free slots, if they fit.
LEMMA PaddedIsSound ==
    ASSUME Slots!SlotAssumption, NEW a, SoundAllocator(a)
    PROVE  /\ SoundAllocator(Slots!Padded(a)) /\ Adds(a, Slots!Padded(a), {})
           /\ a.next + Slots!Padding(a) <= Slots!End(a.kind) =>
                Slots!Padded(a).next = a.next + Slots!Padding(a)
<1> DEFINE pad == Slots!Padding(a)  first == Slots!First(a.kind)  end == Slots!End(a.kind)
           new == a.next .. a.next + pad - 1
           c == [a EXCEPT !.next = a.next + pad, !.free = a.free \cup new]
<1>1. /\ a.kind \in Slots!Kinds /\ a.next \in first .. end /\ a.next \in Nat
      /\ a.free \cap a.out = {} /\ a.free \cup a.out = first .. a.next - 1
      /\ a.pages \in SUBSET Nat /\ a.paged \in BOOLEAN
  BY Fields, AllocatorIs
<1>2. pad \in Nat /\ first \in Nat /\ end \in Nat
  BY <1>1, PaddedIsAligned, Ranges
<1>3. Slots!Padded(a) = IF a.next + pad > end THEN a ELSE c
  BY DEF Slots!Padded
<1>4. CASE a.next + pad > end
  <2>1. Slots!Padded(a) = a /\ ~(a.next + pad <= end)
    <3> HIDE DEF pad, end, c
    <3> QED BY <1>1, <1>2, <1>3, <1>4
  <2> HIDE DEF pad, end
  <2> QED BY <2>1 DEF Adds, pad, end
<1>5. CASE ~(a.next + pad > end)
  <2>1. c \in [kind : {a.kind}, next : {a.next + pad}, free : {a.free \cup new},
               pages : {a.pages}, paged : {a.paged}, out : {a.out}]
    <3> HIDE DEF pad, new
    <3> QED BY AllocatorIs
  <2> HIDE DEF c, pad, first, end
  <2>2. a.next + pad \in first .. end
    BY <1>1, <1>2, <1>5
  <2>3. new \cap (first .. a.next - 1) = {}
    BY <1>1, <1>2
  <2>4. first .. (a.next + pad) - 1 = (first .. a.next - 1) \cup new
    BY <1>1, <1>2
  <2> HIDE DEF new
  <2>5. /\ (a.free \cup new) \cap a.out = {}
        /\ (a.free \cup new) \cup a.out = first .. (a.next + pad) - 1
    BY <1>1, <2>3, <2>4
  <2>6. SoundAllocator(c) /\ c.kind = a.kind /\ c.out = a.out
    BY <1>1, <2>1, <2>2, <2>5, SoundByFields DEF first, end
  <2>7. c.next = a.next + pad
    BY <2>1
  <2>8. Slots!Padded(a) = c
    BY <1>3, <1>5
  <2> QED BY <2>6, <2>7, <2>8 DEF Adds, pad
<1> QED BY <1>4, <1>5

\* The page that is found is free.
LEMMA ReusedIsFree ==
    ASSUME Slots!SlotAssumption, NEW a, SoundAllocator(a), Slots!CanReuse(a)
    PROVE  Slots!Reused(a) \in Nat /\ Slots!IsFree(a, Slots!Reused(a))
<1> DEFINE R == Slots!Reusable(a)  M == Slots!Remembered(a)
<1>1. /\ \A b \in R : b \in Nat /\ Slots!IsFree(a, b)
      /\ \A b \in M : b \in Nat /\ Slots!IsFree(a, b)
  <2>1. a.pages \subseteq Nat
    BY Fields
  <2> QED BY <2>1 DEF Slots!Reusable, Slots!Remembered, Slots!PageId
<1>2. R # {}
  BY DEF Slots!CanReuse
<1>3. CASE M = {}
  <2>1. \E b \in R : Slots!IsFirst(b, R)
    <3> HIDE DEF R
    <3>1. R \subseteq Nat
      BY <1>1
    <3> QED BY <1>2, <3>1, Least DEF Slots!IsFirst
  <2>2. Slots!Reused(a) = CHOOSE b \in R : Slots!IsFirst(b, R)
    BY <1>3 DEF Slots!Reused
  <2> HIDE DEF R
  <2> QED BY <1>1, <2>1, <2>2
<1>4. CASE M # {} /\ a.kind = "rows"
  <2>1. Capacity \in Nat
    BY DEF Slots!SlotAssumption
  <2>2. \A b \in M : b \in 0 .. Capacity
    <3> TAKE b \in M
    <3>1. b \in Nat /\ Slots!IsFree(a, b)
      BY <1>1
    <3>2. b * BlockSize \in Nat /\ b <= b * BlockSize /\ b * BlockSize \in Slots!Block(b)
      BY <3>1, BlockIsRange
    <3>3. b * BlockSize \in 0 .. Capacity - 1
      BY <3>1, <3>2, Fields DEF Slots!IsFree, Slots!Slot
    <3> QED BY <2>1, <3>1, <3>2, <3>3
  <2>3. \E b \in M : Slots!IsLast(b, M)
    <3> HIDE DEF M
    <3>1. M \subseteq 0 .. Capacity
      BY <2>2
    <3>2. PICK b \in M : \A x \in M : x <= b
      BY <1>4, <2>1, <3>1, Greatest
    <3>3. \A x \in M : b >= x
      BY <1>1, <3>2
    <3> QED BY <3>3 DEF Slots!IsLast
  <2>4. Slots!Reused(a) = CHOOSE b \in M : Slots!IsLast(b, M)
    BY <1>4 DEF Slots!Reused
  <2> HIDE DEF M
  <2> QED BY <1>1, <2>3, <2>4
<1>5. CASE M # {} /\ a.kind # "rows"
  <2>1. \E b \in M : Slots!IsFirst(b, M)
    <3> HIDE DEF M
    <3>1. M \subseteq Nat
      BY <1>1
    <3> QED BY <1>5, <3>1, Least DEF Slots!IsFirst
  <2>2. Slots!Reused(a) = CHOOSE b \in M : Slots!IsFirst(b, M)
    BY <1>5 DEF Slots!Reused
  <2> HIDE DEF M
  <2> QED BY <1>1, <2>1, <2>2
<1> QED BY <1>3, <1>4, <1>5

\* alloc_page_block_with_ids: a whole page, none of whose slots was handed out.
LEMMA TakePageIsSound ==
    ASSUME Slots!SlotAssumption, NEW a, SoundAllocator(a), Slots!CanTakePage(a)
    PROVE  /\ Slots!Page(a) \in Nat
           /\ SoundAllocator(Slots!TakePage(a))
           /\ Adds(a, Slots!TakePage(a), Slots!Block(Slots!Page(a)))
<1> DEFINE P == Slots!Block(Slots!Page(a))  c == Slots!TakePage(a)
           first == Slots!First(a.kind)  end == Slots!End(a.kind)
           left == Slots!PagesLeft(a)  d == Slots!Padded(a)
<1>1. /\ a.kind \in Slots!Kinds /\ a.next \in first .. end /\ a.next \in Nat
      /\ a.free \cap a.out = {} /\ a.free \cup a.out = first .. a.next - 1
      /\ a.pages \in SUBSET Nat
  BY Fields, AllocatorIs
<1>2. first \in Nat /\ end \in Nat /\ BlockSize \in Nat /\ BlockSize >= 1
  BY <1>1, Ranges
<1>3. CASE Slots!CanReuse(a)
  <2>1. Slots!Page(a) = Slots!Reused(a)
    BY <1>3 DEF Slots!Page
  <2>2. Slots!Page(a) \in Nat /\ P \subseteq a.free
    BY <1>3, <2>1, ReusedIsFree DEF Slots!IsFree
  <2>3. left \in SUBSET Nat
    BY <1>1 DEF Slots!PagesLeft
  <2>4. c \in [kind : {a.kind}, next : {a.next}, free : {a.free \ P},
               pages : {left}, paged : {TRUE}, out : {a.out \cup P}]
    <3>1. c = [a EXCEPT !.free = a.free \ P, !.out = a.out \cup P,
                        !.pages = left, !.paged = TRUE]
      BY <1>3 DEF Slots!TakePage
    <3> HIDE DEF c, P, left
    <3> QED BY <3>1, AllocatorIs
  <2> HIDE DEF c, P, left, first, end
  <2>5. /\ (a.free \ P) \cap (a.out \cup P) = {}
        /\ (a.free \ P) \cup (a.out \cup P) = first .. a.next - 1
    BY <1>1, <2>2
  <2>6. SoundAllocator(c) /\ c.kind = a.kind /\ c.out = a.out \cup P
    <3> DEFINE set == TRUE
    <3>1. set \in BOOLEAN
      OBVIOUS
    <3>2. c \in [kind : {a.kind}, next : {a.next}, free : {a.free \ P},
                 pages : {left}, paged : {set}, out : {a.out \cup P}]
      BY <2>4
    <3> HIDE DEF set
    <3> QED BY <1>1, <2>3, <2>5, <3>1, <3>2, SoundByFields DEF first, end
  <2>7. P \subseteq first .. end - 1 /\ P \cap a.out = {}
    <3>1. first .. a.next - 1 \subseteq first .. end - 1
      BY <1>1, <1>2
    <3> QED BY <1>1, <2>2, <3>1
  <2> QED BY <2>2, <2>6, <2>7 DEF Adds, c, P, first, end
<1>4. CASE ~Slots!CanReuse(a)
  <2> DEFINE from == a.next + Slots!Padding(a)
  <2>1. /\ Slots!Padding(a) \in Nat /\ from \in Nat
        /\ from \div BlockSize \in Nat /\ (from \div BlockSize) * BlockSize = from
    BY <1>1, PaddedIsAligned
  <2>2. from + BlockSize <= end
    BY <1>4 DEF Slots!CanTakePage, Slots!CanExtend
  <2>3. Slots!Page(a) = from \div BlockSize
    BY <1>4 DEF Slots!Page
  <2>4. P = from .. from + BlockSize - 1 /\ Slots!Page(a) \in Nat
    <3> HIDE DEF from
    <3> QED BY <2>1, <2>3 DEF Slots!Block
  <2>5. from <= end
    <3> HIDE DEF from, end
    <3> QED BY <1>2, <2>1, <2>2
  <2>6. /\ SoundAllocator(d) /\ d.kind = a.kind /\ d.out = a.out /\ d.next = from
    BY <2>5, PaddedIsSound DEF Adds
  <2>7. /\ d.free \cap d.out = {} /\ d.free \cup d.out = first .. from - 1
    BY <2>6, AllocatorIs
  <2>8. c \in [kind : {a.kind}, next : {from + BlockSize}, free : {d.free},
               pages : {{}}, paged : {TRUE}, out : {a.out \cup P}]
    <3>1. c = [d EXCEPT !.next = d.next + BlockSize, !.out = d.out \cup P,
                        !.pages = {}, !.paged = TRUE]
      BY <1>4 DEF Slots!TakePage
    <3>2. c = [d EXCEPT !.next = from + BlockSize, !.out = a.out \cup P,
                        !.pages = {}, !.paged = TRUE]
      <4> HIDE DEF c, P, d, from
      <4> QED BY <2>6, <3>1
    <3> DEFINE next == from + BlockSize  out == a.out \cup P
    <3>3. d \in [kind : {a.kind}, next : {d.next}, free : {d.free}, pages : {d.pages},
                 paged : {d.paged}, out : {d.out}]
      BY <2>6, AllocatorIs
    <3> HIDE DEF c, d, next, out
    <3> QED BY <3>2, <3>3 DEF next, out
  <2> HIDE DEF c, P, d, first, end, from
  <2>9. from + BlockSize \in first .. end
    BY <1>1, <1>2, <2>1, <2>2, <2>6, AllocatorIs DEF first, end
  <2>10. /\ P \cap (first .. from - 1) = {}
         /\ first .. (from + BlockSize) - 1 = (first .. from - 1) \cup P
         /\ P \subseteq first .. end - 1
    <3>1. from >= first
      <4>1. d.next \in first .. end
        BY <2>6, AllocatorIs DEF first, end
      <4> QED BY <1>2, <2>6, <4>1
    <3> QED BY <1>2, <2>1, <2>2, <2>4, <3>1
  <2>11. /\ d.free \cap (a.out \cup P) = {}
         /\ d.free \cup (a.out \cup P) = first .. (from + BlockSize) - 1
         /\ P \cap a.out = {}
    BY <2>6, <2>7, <2>10
  <2>12. SoundAllocator(c) /\ c.kind = a.kind /\ c.out = a.out \cup P
    <3> DEFINE set == TRUE  none == {}  next == from + BlockSize  free == d.free
               out == a.out \cup P
    <3>1. set \in BOOLEAN /\ none \in SUBSET Nat
      OBVIOUS
    <3>2. c \in [kind : {a.kind}, next : {next}, free : {free}, pages : {none},
                 paged : {set}, out : {out}]
      BY <2>8
    <3>3. /\ next \in Slots!First(a.kind) .. Slots!End(a.kind)
          /\ free \cap out = {} /\ free \cup out = Slots!First(a.kind) .. next - 1
      BY <2>9, <2>11 DEF first, end
    <3>4. a.kind \in Slots!Kinds
      BY <1>1
    <3> HIDE DEF set, none, next, free, out
    <3>5. SoundAllocator(c) /\ c.kind = a.kind /\ c.out = out
      BY <3>1, <3>2, <3>3, <3>4, SoundByFields
    <3> QED BY <3>5 DEF out
  <2> QED BY <2>4, <2>10, <2>11, <2>12 DEF Adds, c, P, first, end
<1> QED BY <1>3, <1>4

\* The same if it raises: it has padded, and handed out nothing.
LEMMA PageRefusedIsSound ==
    ASSUME Slots!SlotAssumption, NEW a, SoundAllocator(a)
    PROVE  /\ SoundAllocator(Slots!PageRefused(a))
           /\ Adds(a, Slots!PageRefused(a), {})
<1> DEFINE d == Slots!Padded(a)  c == Slots!PageRefused(a)
<1>1. SoundAllocator(d) /\ d.kind = a.kind /\ d.out = a.out
  BY PaddedIsSound DEF Adds
<1>2. /\ d.kind \in Slots!Kinds /\ d.next \in Slots!First(d.kind) .. Slots!End(d.kind)
      /\ d.free \cap d.out = {} /\ d.free \cup d.out = Slots!First(d.kind) .. d.next - 1
  BY <1>1, Fields, AllocatorIs
<1>3. c \in [kind : {d.kind}, next : {d.next}, free : {d.free}, pages : {{}},
             paged : {TRUE}, out : {d.out}]
  <2>1. c = [d EXCEPT !.pages = {}, !.paged = TRUE]
    BY DEF Slots!PageRefused
  <2>2. d \in [kind : {d.kind}, next : {d.next}, free : {d.free}, pages : {d.pages},
               paged : {d.paged}, out : {d.out}]
    BY <1>1, AllocatorIs
  <2> HIDE DEF c, d
  <2> QED BY <2>1, <2>2
<1> HIDE DEF c, d
<1>4. SoundAllocator(c) /\ c.kind = d.kind /\ c.out = d.out
  <2> DEFINE set == TRUE  none == {}
  <2>1. set \in BOOLEAN /\ none \in SUBSET Nat
    OBVIOUS
  <2>2. c \in [kind : {d.kind}, next : {d.next}, free : {d.free}, pages : {none},
               paged : {set}, out : {d.out}]
    BY <1>3
  <2> HIDE DEF set, none
  <2> QED BY <1>2, <2>1, <2>2, SoundByFields
<1> QED BY <1>1, <1>4 DEF Adds, c

-----------------------------------------------------------------------------
(***************************************************************************)
(* The theorems.                                                           *)
(***************************************************************************)

\* What a step hands out: alloc_slots(n) n slots, alloc_page_block_with_ids a
\* whole aligned page, and neither a slot that was handed out or one of
\* another range; if they raise, nothing.  free_slots only takes back.
HandsOutNewSlots ==
    /\ \A n \in 1 .. Capacity : Slots!AllocSlots(n) =>
            \E new : Adds(alloc, alloc', new) /\ Cardinality(new) = n
    /\ Slots!AllocPage => \E page \in Nat : Adds(alloc, alloc', Slots!Block(page))
    /\ \A n \in 1 .. Capacity : Slots!AllocSlotsRaises(n) => Adds(alloc, alloc', {})
    /\ Slots!AllocPageRaises => Adds(alloc, alloc', {})
    /\ \A S \in SUBSET alloc.out : Slots!FreeSlots(S) =>
            alloc'.kind = alloc.kind /\ alloc'.out = alloc.out \ S

\* A step of a sound allocator.
LEMMA StepIsSound ==
    ASSUME Slots!SlotAssumption, SoundAllocator(alloc)
    PROVE  /\ [Slots!Next]_alloc => SoundAllocator(alloc)'
           /\ HandsOutNewSlots
<1>0. \A n \in 1 .. Capacity : n \in Nat
  BY DEF Slots!SlotAssumption
<1>1. ASSUME NEW n \in 1 .. Capacity, Slots!AllocSlots(n)
      PROVE  /\ SoundAllocator(alloc')
             /\ \E new : Adds(alloc, alloc', new) /\ Cardinality(new) = n
  BY <1>0, <1>1, TakeIsSound, TakenSlots DEF Slots!AllocSlots
<1>2. ASSUME NEW n \in 1 .. Capacity, Slots!AllocSlotsRaises(n)
      PROVE  SoundAllocator(alloc') /\ Adds(alloc, alloc', {})
  BY <1>2, TakeRefusedIsSound DEF Slots!AllocSlotsRaises
<1>3. ASSUME Slots!AllocPage
      PROVE  /\ SoundAllocator(alloc')
             /\ \E page \in Nat : Adds(alloc, alloc', Slots!Block(page))
  BY <1>3, TakePageIsSound DEF Slots!AllocPage
<1>4. ASSUME Slots!AllocPageRaises
      PROVE  SoundAllocator(alloc') /\ Adds(alloc, alloc', {})
  BY <1>4, PageRefusedIsSound DEF Slots!AllocPageRaises
<1>5. ASSUME NEW S \in SUBSET alloc.out, Slots!FreeSlots(S)
      PROVE  SoundAllocator(alloc') /\ alloc'.kind = alloc.kind /\ alloc'.out = alloc.out \ S
  BY <1>5, GivenBackIsSound DEF Slots!FreeSlots
<1>6. HandsOutNewSlots
  BY <1>1, <1>2, <1>3, <1>4, <1>5 DEF HandsOutNewSlots
<1>7. ASSUME [Slots!Next]_alloc PROVE SoundAllocator(alloc')
  <2>1. CASE alloc' = alloc
    BY <2>1
  <2>2. CASE Slots!Next
    BY <2>2, <1>1, <1>2, <1>3, <1>4, <1>5 DEF Slots!Next
  <2> QED BY <1>7, <2>1, <2>2
<1>8. SoundAllocator(alloc)' <=> SoundAllocator(alloc')
  BY DEF SoundAllocator
<1> QED BY <1>6, <1>7, <1>8

\* Every slot below _next_slot is free or handed out, never both, and the
\* allocator stays in its range: for any capacity, block size and sequence of
\* calls.
THEOREM SlotsAreAccounted ==
    ASSUME Slots!SlotAssumption
    PROVE  Slots!Spec => [](Slots!TypeOK /\ Slots!Accounts)
<1>1. Slots!Init => SoundAllocator(alloc)
  BY NewIsSound DEF Slots!Init
<1>2. SoundAllocator(alloc) /\ [Slots!Next]_alloc => SoundAllocator(alloc)'
  BY StepIsSound
<1>3. SoundAllocator(alloc) => Slots!TypeOK /\ Slots!Accounts
  BY DEF SoundAllocator, Slots!TypeOK, Slots!Accounts
<1> QED BY <1>1, <1>2, <1>3, PTL DEF Slots!Spec

\* No step hands out a slot that is handed out, or one of another allocator's
\* range; a page is whole and aligned, and alloc_slots(n) hands out n.
THEOREM NewSlotsAreHandedOut ==
    ASSUME Slots!SlotAssumption
    PROVE  Slots!Spec => [][HandsOutNewSlots]_alloc
<1>1. Slots!Init => SoundAllocator(alloc)
  BY NewIsSound DEF Slots!Init
<1>2. SoundAllocator(alloc) /\ [Slots!Next]_alloc => SoundAllocator(alloc)'
  BY StepIsSound
<1>3. SoundAllocator(alloc) => HandsOutNewSlots
  BY StepIsSound
<1> QED BY <1>1, <1>2, <1>3, PTL DEF Slots!Spec

\* The pool and the domain for full-attention rows, which share one range of
\* slots, never hand out the same one.
THEOREM RangesAreApart ==
    ASSUME Slots!SlotAssumption, NEW a, NEW b, SoundAllocator(a), SoundAllocator(b),
           a.kind = "pool", b.kind = "rows"
    PROVE  a.out \cap b.out = {}
<1>1. a.out \subseteq 0 .. a.next - 1 /\ a.next \in 0 .. RequestSlots
  BY AllocatorIs DEF Slots!First, Slots!End
<1>2. b.out \subseteq RequestSlots .. b.next - 1 /\ b.next \in Nat
  BY Fields, AllocatorIs DEF Slots!First
<1>3. RequestSlots \in Nat
  BY DEF Slots!SlotAssumption
<1> QED BY <1>1, <1>2, <1>3

=============================================================================
