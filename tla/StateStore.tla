----------------------------- MODULE StateStore -----------------------------
(***************************************************************************)
(* wkvm/store.py: named, versioned snapshots of a session's state, in host *)
(* memory (WARM), in one file per handle (COLD), and listed by an index    *)
(* that is rewritten as a whole.  What a snapshot holds is a number that   *)
(* no other snapshot has; a fork shares its parent's.  The process may     *)
(* crash between any two writes and starts again from the directory.       *)
(***************************************************************************)
EXTENDS Integers, FiniteSets, Functions

CONSTANTS
    Names,          \* record names
    MaxVersion,     \* bound: versions of a name
    MaxSnapshots,   \* bound: snapshots taken
    IndexMayFail    \* whether writing the index can raise (a full disk)

ASSUME StoreAssumption ==
    MaxVersion \in Nat /\ MaxSnapshots \in Nat /\ IndexMayFail \in BOOLEAN

VARIABLES
    up,         \* the process is running
    meta,       \* _meta: the record of each handle
    warm,       \* _warm: what the pinned tensors of a handle hold
    cold,       \* _cold
    file,       \* the safetensors files
    index,      \* index.json: the records, and which of them are cold
    pending,    \* the call that still has to write the index
    taken,      \* how many snapshots were ever taken
    raised,     \* history: whether an index write ever raised
    durable,    \* history: handles whose persist() returned
    deleted     \* history: handles that delete() was called for

memory  == <<meta, warm, cold>>
disk    == <<file, index>>
history == <<raised, durable, deleted>>
vars == <<up, meta, warm, cold, file, index, pending, taken, raised, durable,
          deleted>>

Handle   == Names \X (0 .. MaxVersion)
Snapshot == 1 .. MaxSnapshots
NoParent == << >>
Record   == [data : Snapshot, parent : Handle \cup {NoParent}]
Torn     == 0       \* a file that was not written to its end

NoCall == [call |-> "none"]
Call   == [call : {"save", "persist", "evict", "delete"}, handle : Handle]

IsPartialFcn(f, S, T) == DOMAIN f \subseteq S /\ \A x \in DOMAIN f : f[x] \in T
With(f, h, v)    == [x \in DOMAIN f \cup {h} |-> IF x = h THEN v ELSE f[x]]
Without(f, h)    == Restrict(f, DOMAIN f \ {h})

-----------------------------------------------------------------------------

Init ==
    /\ up = TRUE
    /\ meta = << >> /\ warm = << >> /\ cold = {}
    /\ file = << >> /\ index = [records |-> << >>, cold |-> {}]
    /\ pending = NoCall
    /\ taken = 0
    /\ raised = FALSE /\ durable = {} /\ deleted = {}

\* Calls come one at a time: the HTTP layer holds its lock around each.
Callable == up /\ pending = NoCall

VersionsOf(n) == {v \in 0 .. MaxVersion : <<n, v>> \in DOMAIN meta}

\* Mutant: the number of versions instead of the highest plus one.
CountVersions(n) == Cardinality(VersionsOf(n))

\* _next_version
NextVersion(n) ==
    CHOOSE v \in 0 .. MaxVersion + 1 :
        /\ \A w \in VersionsOf(n) : w < v
        /\ v = 0 \/ v - 1 \in VersionsOf(n)

\* _tensors: from host memory, or from the file; it raises if neither has it,
\* and load_file raises on a torn file.
Readable(h) ==
    \/ h \in DOMAIN warm
    \/ h \in cold /\ h \in DOMAIN file /\ file[h] # Torn
Tensors(h)  == IF h \in DOMAIN warm THEN warm[h] ELSE file[h]
Promoted(H) == [h \in DOMAIN warm \cup H |-> Tensors(h)]

\* A new record under the next version of n; the index is written next.
Put(n, d, parent, promoted) ==
    LET h == <<n, NextVersion(n)>> IN
    /\ h \in Handle
    /\ meta' = With(meta, h, [data |-> d, parent |-> parent])
    /\ warm' = With(Promoted(promoted), h, d)
    /\ pending' = [call |-> "save", handle |-> h]
    /\ UNCHANGED <<up, cold, disk, history>>

\* save
Save(n) ==
    /\ Callable
    /\ taken < MaxSnapshots
    /\ taken' = taken + 1
    /\ Put(n, taken', NoParent, {})

\* fork: the child shares the bytes of its parent.
Fork(h, n) ==
    /\ Callable
    /\ h \in DOMAIN meta /\ Readable(h)
    /\ Put(n, Tensors(h), h, {h})
    /\ UNCHANGED taken

\* mutate, by a rule of h alone (o = h) or by one that merges o into it.
Mutate(h, o) ==
    /\ Callable
    /\ taken < MaxSnapshots
    /\ h \in DOMAIN meta /\ Readable(h) /\ Readable(o)
    /\ taken' = taken + 1
    /\ Put(h[1], taken', h, {h, o})

\* load: a cold record that is read is kept in memory.
Load(h) ==
    /\ Callable
    /\ h \in DOMAIN meta /\ Readable(h)
    /\ warm' = Promoted({h})
    /\ UNCHANGED <<up, meta, cold, disk, pending, taken, history>>

-----------------------------------------------------------------------------
(***************************************************************************)
(* Between the tiers.  call is "persist" or "evict": evict() persists and  *)
(* then drops the host copy.                                               *)
(***************************************************************************)

AfterPersist(call, h) == IF call = "evict" THEN Without(warm, h) ELSE warm

\* save_file, up to the index.
PersistFile(call, h) ==
    /\ Callable
    /\ h \in DOMAIN meta /\ h \notin cold /\ Readable(h)
    /\ file' = With(file, h, Tensors(h))
    /\ cold' = cold \cup {h}
    /\ pending' = [call |-> call, handle |-> h]
    /\ UNCHANGED <<up, meta, warm, index, taken, history>>

\* save_file raises, or the process dies in it: part of a file is left.
PersistTorn(h) ==
    /\ Callable
    /\ h \in DOMAIN meta /\ h \notin cold /\ Readable(h)
    /\ file' = With(file, h, Torn)
    /\ UNCHANGED <<up, memory, index, pending, taken, history>>

\* A handle that is cold already is not written again.
PersistAgain(call, h) ==
    /\ Callable
    /\ h \in DOMAIN meta /\ h \in cold
    /\ warm' = AfterPersist(call, h)
    /\ durable' = durable \cup {h}
    /\ UNCHANGED <<up, meta, cold, disk, pending, taken, raised, deleted>>

\* Mutant: the file of a deleted handle stays, and so does its cold flag.
DeleteKeepingFile(h) ==
    /\ Callable
    /\ meta' = Without(meta, h)
    /\ warm' = Without(warm, h)
    /\ deleted' = deleted \cup ({h} \cap DOMAIN meta)
    /\ pending' = [call |-> "delete", handle |-> h]
    /\ UNCHANGED <<up, cold, file, index, taken, raised, durable>>

\* delete, up to the index; the file goes first.  A handle that is not there
\* is not an error.
Delete(h) ==
    /\ Callable
    /\ meta' = Without(meta, h)
    /\ warm' = Without(warm, h)
    /\ cold' = cold \ {h}
    /\ file' = IF h \in cold THEN Without(file, h) ELSE file
    /\ deleted' = deleted \cup ({h} \cap DOMAIN meta)
    /\ pending' = [call |-> "delete", handle |-> h]
    /\ UNCHANGED <<up, index, taken, raised, durable>>

\* _write_index: a temporary file that replaces the index, and the call
\* returns.
WriteIndex ==
    /\ up /\ pending # NoCall
    /\ index' = [records |-> meta, cold |-> cold \cap DOMAIN meta]
    /\ pending' = NoCall
    /\ LET h == pending.handle IN
       /\ warm' = AfterPersist(pending.call, h)
       /\ durable' = IF pending.call \in {"persist", "evict"}
                     THEN durable \cup {h} ELSE durable
    /\ UNCHANGED <<up, meta, cold, file, taken, raised, deleted>>

\* _write_index raises, and the call with it; memory stays as it is.
WriteIndexRaises ==
    /\ IndexMayFail
    /\ up /\ pending # NoCall
    /\ pending' = NoCall
    /\ raised' = TRUE
    /\ UNCHANGED <<up, memory, disk, taken, durable, deleted>>

-----------------------------------------------------------------------------
(***************************************************************************)
(* The end of a process, and the next one.                                 *)
(***************************************************************************)

Crash ==
    /\ up
    /\ up' = FALSE
    /\ meta' = << >> /\ warm' = << >> /\ cold' = {}
    /\ pending' = NoCall
    /\ UNCHANGED <<disk, taken, history>>

\* Mutant: the index does not say which records are cold.
RestartAllWarm ==
    /\ ~up
    /\ up' = TRUE
    /\ meta' = index.records
    /\ UNCHANGED <<warm, cold, disk, pending, taken, history>>

\* __init__ and _load_index.
Restart ==
    /\ ~up
    /\ up' = TRUE
    /\ meta' = index.records /\ cold' = index.cold
    /\ UNCHANGED <<warm, disk, pending, taken, history>>

Next ==
    \/ \E n \in Names : Save(n)
    \/ \E h \in Handle :
        \/ \E n \in Names : Fork(h, n)
        \/ \E o \in Handle : Mutate(h, o)
        \/ Load(h)
        \/ \E call \in {"persist", "evict"} :
               PersistFile(call, h) \/ PersistAgain(call, h)
        \/ PersistTorn(h)
        \/ Delete(h)
    \/ WriteIndex
    \/ WriteIndexRaises
    \/ Crash
    \/ Restart

Spec == Init /\ [][Next]_vars

-----------------------------------------------------------------------------

TypeOK ==
    /\ up \in BOOLEAN
    /\ IsPartialFcn(meta, Handle, Record)
    /\ IsPartialFcn(warm, Handle, Snapshot)
    /\ cold \subseteq Handle
    /\ IsPartialFcn(file, Handle, Snapshot \cup {Torn})
    /\ IsPartialFcn(index.records, Handle, Record)
    /\ index.cold \subseteq DOMAIN index.records
    /\ pending \in Call \cup {NoCall}
    /\ taken \in 0 .. MaxSnapshots
    /\ raised \in BOOLEAN
    /\ durable \subseteq Handle /\ deleted \subseteq Handle

\* While a process runs, a record does not change as long as it exists
\* (store.py:12, "records are immutable once written"), even if index writes
\* raise and calls are made again.
RecordsImmutable ==
    [][\A h \in DOMAIN meta \cap DOMAIN meta' : meta'[h] = meta[h]]_vars

\* As long as the index could be written, whatever crashed: a handle never
\* reads other bytes than its record was made with, not those of a record that
\* had the name before, nor of the parent it was made from.
NeverWrongBytes ==
    ~raised => \A h \in DOMAIN meta : Readable(h) => Tensors(h) = meta[h].data

Durable ==
    \A h \in durable \ deleted :
        h \in DOMAIN meta /\ Readable(h) /\ Tensors(h) = meta[h].data

\* Once persist() has returned, the record can be read in every process, of
\* this run or after a restart, until delete() is called.
PersistedSurvives == up /\ ~raised => Durable

\* store.py:208, persist() is "Idempotent": a call that is made again after its
\* index write raised does what the first should have done.
PersistIsIdempotent == up => Durable

=============================================================================
