# Formal verification of wkvm

TLA+ models of wkvm's control code, the TLC runs that check them on small
instances, and proofs that TLAPS checks for every instance.  The program is a
Python inference engine for recurrent models (RWKV, Gemma with a bounded
routed-span cache).  Most of its lines are tensor arithmetic and kernels, which
are not modelled.  What is modelled is what decides who owns which state, who
runs when, and who is told what.

## 1. The system

### Components, their state and what makes them correct

| component | state | operations | what has to hold |
|---|---|---|---|
| state arena (`core/arena.py`) | per family: a free list and the set of allocated slots | `allocate`, `free`, `fork` | every slot is free once or allocated |
| scheduler (`core/scheduler.py`, `core/request.py`, `core/config.py`) | `waiting`, `running`, `parked`, `_park_on_finish`, each request's status and token counts, the prefill lane | `add_request`, `add_resumed_request`, `abort_request`, `fail_request`, `close_parked_request`, `resume_parked_request`, `schedule`, `update_from_output` | queues agree with statuses; slots are conserved; a live request is always short of a token and never past its target; the budget is kept; requests end |
| state store (`store.py`) | `_meta`, `_warm`, `_cold`, files, the JSON index | `save`, `load`, `fork`, `mutate`, `persist`, `evict`, `delete`, restart | a handle always reads the bytes it was given; persisted records survive |
| request service (`gemma_server.py`, `BoundedGemmaService`) | two queues, books of requests, cancel marks, deadlines, sessions, turns, one worker thread, two locks | `generate`, `stream`, `submit`, `cancel`, `stream_chat`, `stream_token_session`, the worker's round, `close` | whoever is told something is told the truth; nobody waits for ever; no engine state is orphaned |
| Gemma engine (`gemma_engine.py`) | caches, session tables, persistent decode groups, token-pool tables | `add_request`, `add_session_request`, `continue_session_requests`, `close_sessions`, `abort_request`, `fail_unfinished`, `step` | a merged decode cache is written back before a member is touched; every table forgets a request that ended |
| persistent decode groups (`gemma_engine.py`, merges and splits in `runner/gemma_runner.py`) | exact and padded groups under the key of their batch | start, reuse, flush, discard | a group is invisible: every forward reads the whole history of each of its rows |
| token pool (`runner/gemma_token_pool.py`) | token slots, page tables, block tables, the request table, attention rows | admit, prepare, commit, discard, snapshot, restore, release | no token slot has two owners; what is reserved and not used is given back exactly; the last window of a request is where the table says |
| decode metadata and attention backends (`gemma_token_pool.py`, `gemma_token_pool_attention.py`, `gemma_token_pool_triton.py`) | none beyond the batch | describe a batch as a flat list or as pages, choose a kernel, load slots | whichever description and kernel is used, a row reads its window |
| prompt batches and mixed batches (`core/mixed_batch.py`, `runner/gemma_runner.py`) | the sliding-window tails of the caches | pad inputs, size and build masks, update tails | every query attends to its own window, however the rows beside it look |
| routed-span state (`runner/gemma_runner.py`) | per layer: sink, ring, pending tail, spans per slot, means, a dense readout | prefill, decode, fold, follow the leader's decisions, release, rebuild | positions are kept in order, once, within the planned size; the readout is what the state would give |
| RWKV engine and server (`engine.py`, `server.py`, `runner/state.py`) | the state bank, sampling parameters, handles to save on finish | `step`, `snapshot_request`, `hibernate`, `submit_from_handle`, HTTP handlers under one lock | a handle's state is the state of the tokens it counts; no slot is without an owner |
| runners, kernels, model code (`runner/*`, `models/*`) | tensors | forward passes | numerics |
| HTTP front ends, scripts, experiments | none of their own | parsing, formatting, benchmarks | input and output |

### How they interact

The service owns the engine.  HTTP threads write `_pending` and
`_pending_chat` under `cv`; the worker takes both, adds requests to the engine
and starts turns under `engine_lock` alone, steps the engine, and settles the
results under `cv`.  A thread that needs both locks takes `cv` first.  The
engine calls the scheduler and executes what it hands out; the scheduler is the
only caller of the arena.  A finished session does not give its slots back but
parks, and a later turn resumes it.  The RWKV engine uses the same scheduler,
and its store snapshots the slots of a request in the scheduler's `on_finish`
callback.  The Gemma engine keeps a cache per request, lends its rows to merged
caches for batches that decode together, and books the keys of sliding-window
layers in the token pool, which the forward reads through metadata made anew for
each batch.

### What is hard

* Calls between the sections of other calls: `cancel` looks up under one lock
  and aborts under the other; a client may leave at any moment of the worker's
  round; aborts come between `schedule` and `update_from_output`.
* What is in nobody's queue: requests and turns in the worker's hands.
* Names that are used again: request ids after the books are trimmed, engine
  ids of sessions across turns, versions of deleted records.
* Failures in the middle: a step that raises, an index that cannot be written,
  a worker that dies, a `close` that times out, a crash between two writes.
* Capacity: slots that parked sessions hold, a budget smaller than the batch,
  a lane that admits nobody until it is empty, a pool whose pages run out in the
  middle of a batch.
* The same history in several places: a cache and the merged cache it lent its
  rows to, a slot and the attention row that borrows it, a routed state and its
  dense readout, a leader's folds and its followers'.
* Positions computed several times over: windows, blocks, splits, paddings and
  masks, by different code, from different counts.

`PROJECT.json` lists these hazards one by one with the line each bites at and
the properties that cover it, or the reason why none does yet.

## 2. The modules

### StateArena

`StateArena.tla` translates `arena.py`.  `free` and `allocated` are functions
from families to a sequence and a set.  `AllocateSlots`, `FreeSlots` and
`ForkSlots` are the operations; on their own they make `ArenaSpec`, which says
what any user of the arena may do to it, also combining slots of different
`allocate` calls in one `free`.  An operation is not enabled where the code
raises.  `Scheduler` uses the first two: that what it releases is handed out, and
to whom, is not in the shape of its actions, and is `SlotConservation`.

### Scheduler

`Scheduler.tla` extends `StateArena`.  A request is a name with a status, a
prompt length, counts of computed and sampled tokens and its slots.  Tokens
themselves do not matter to the scheduler; whether a sampled token is a stop
token is a free choice.

One step of the engine is several actions: `Schedule` builds the `batch`
(`SchedulerOutput`), by `ScheduleDefault` or by
`ScheduleCompletionPrefillLane`; then the entries of the batch are committed
one at a time in their order (`UpdateFromOutput`, `SkipEntry`), or failed
(`FailScheduled`, the engine's `_fail_scheduled`).  The calls `AddRequest`,
`AbortRequest`, `FailRequest` and `CloseParkedRequest` come between steps, or
between `schedule` and the first entry (`Callable`), which the class allows: it
has no lock, and it skips the entry of a request that left meanwhile.
`AddResumedRequest` and `ContinueSession` come between steps only.  No call comes
between two entries, as `update_from_output` and `_fail_scheduled` call nobody
who would make one, and the servers hold their lock for the whole step.

The admission loop is written without a loop.  `TakesExactly(k)` says how many
requests it takes from the front of the queue, and `WantedBefore` gives the
tokens granted before the entry at hand.  This keeps the module free of
RECURSIVE operators so that it can be proved about.

`MCScheduler.tla` names the model values.  `MaxPrompt` bounds how long resumed
prompts grow; `PromptLens`, `OutputLimits` and `SuffixLens` are the inputs.

### StateStore

`StateStore.tla` translates `store.py`.  A snapshot is a number that no other
snapshot has.  `meta`, `warm` and `cold` are the process's memory, `file` and
`index` the directory.  Each call that writes is split at its writes, so that
`Crash` or a raising index write (`WriteIndexRaises`, only if `IndexMayFail`)
can come between them; `PersistTorn` is a crash in the middle of a file.
`Restart` is `_load_index`.  `raised`, `durable` and `deleted` are history
variables: whether an index write ever raised, and the handles whose `persist`
returned or that `delete` was called for.  What crashes alone cannot break is
stated for behaviours in which `raised` is false; what must hold even though
index writes raise is stated without it.

### GemmaService

`GemmaService.tla` translates `BoundedGemmaService`.  Every action is one
critical section, or one stretch of the worker's round between two points where
another thread can see the difference:

| action | code |
|---|---|
| `Enqueue`, `Answered`, `GivesUp` | `_enqueue_locked`, the wait loops of `generate` and `stream`, deadlines of `submit` |
| `CancelUnknown`, `CancelFinished`, `CancelPending`, `CancelMark` | the first section of `_cancel_request` |
| `CancelInEngine`, `CancelRecord` | its second and third |
| `EnqueueChat`, `AcceptTurn` | `_enqueue_chat_locked`, which lets go of `engine_lock` in between |
| `TurnReturns`, `LeaveTurn`, `LeaveEngine`, `LeaveDone` | `stream_chat` and the three sections of `_cancel_chat_turn` |
| `Take`, `Stop`, `EvictExpired` | the head of the worker's round |
| `AddCancelled`, `AddRequest`, `PickTurn`, `StartTurn` | one request, or one turn, that the worker holds |
| `StepEnds`, `StepNone`, `StepRaises` | `engine.step()` |
| `Settle`, `FailRound`, `Die` | the ends of a round |
| `Close`, `CloseTimesOut`, `CloseReturns` | `close()` |

The worker's `at` says which lock it holds: `engine_lock` in `"add"` and
`"start"`.  It reads the `cancel_requested` flag of a turn in `PickTurn` and
starts it in `StartTurn`; a client, which writes the flag under `cv`, can come
between the two.

The engine is what the scheduler promises of itself: `Admits` takes from the
front of the queue while there is a slot and a place in the batch, and admits
somebody when nothing runs; a running request may end in any step.  Whether a
chat turn extends what its session has seen is left to the environment, so both
the resumed and the restarted session are explored.  Which parked session was
used least recently is not tracked: any of them may be closed to make room.

`MCGemmaService.tla` names the model values and which object has which id.

### RequestHistory

`RequestHistory.tla` is the abstract specification that the Gemma engine's two
detailed models implement: a request has one history.  A forward may be run for
requests whose history is complete and adds to it; the scheduler then credits
what was added, or the addition is taken back; and nothing else changes a
history except its end.  Where a history is kept is no concern of it.

### DecodeGroups

`DecodeGroups.tla` translates how `gemma_engine.py` decodes together without a
token pool.  A cache is two counts, tokens held and tokens routed; a group is
its key (the sequence of its rows), the rows' caches as merged, and for a padded
group how many tokens it has collected and may collect.  `Schedule`,
`PrepareMixed`, `RunMixed`, `PlanBatches`, `DecodeStep`, `Prefill`, `StepOver`,
`Finish` and `ForwardRaises` are the parts of `step()`; `AddRequest`,
`ContinueSessions`, `Leave` and `FailUnfinished` come between steps.
`RequestHistory` is refined with `held` the tokens of a request in its cache or
in the group that has its rows, and `credited` the scheduler's count.

### SlotAllocator, PoolBackend, DecodeMetadata, MixedBatch, TokenPool

These five model `gemma_token_pool.py` and its use, each one extending or
instantiating the one before.

* `SlotAllocator.tla`: the three allocators behind one interface, with the list
  of remembered pages that is not updated when slots are taken one by one.
  `PoolBackend` uses it twice, for the pool's slots and for the rows' own.
* `PoolBackend.tla`: `TokenPoolDecodeBackendState`.  The request table, page
  tables, block tables, attention rows that own or borrow slots, and what is
  written in each slot: the position of a key and whose it is.  Its operations
  are functions from a state of the backend to the next, because the engine
  composes several of them in one step and any of them may fail half way
  (`failed`), which the caller then undoes.
* `DecodeMetadata.tla`: which slots a batch of decodes loads.  `Flat`,
  `FromTensor`, `FromPageTables` and `FromTable` are the builders, `Dispatch` the
  choice of a kernel, and `FlatLaunch`, `PagedLaunch` and `ReferenceRead` what the
  kernels load, in splits or not.  A kernel is the sequence of slots it
  loads: attention is a function of what is read.
* `MixedBatch.tla`: batches with rows of several tokens.  Which rows decode, how
  inputs are padded, how wide the mask is, what each query may attend to, and
  what the tail of each sliding-window cache is afterwards.
* `TokenPool.tla`: the engine's transactions.  `PlanDecodes` cuts the decodes of a
  step into batches and flushes the groups that are none of them; `BeginDecode`,
  `BeginPrefill` and `BeginMixed` reserve, and `Commit`, `ForwardRaises` or
  `Decline` ends the transaction; after `Decline` the rows of the batch are tried
  otherwise (`Pieces`).  A prompt is prefilled in chunks; one that is not the
  last keeps its keys out of the pool, the last one writes the window.
  `RequestHistory` is refined with `held` the length of a request's line in the
  table less what is only reserved.

A persistent group is its key (the batch it was made of), the steps it has left,
and `ahead`, the tokens that its merged cache has and the requests' own caches
have not.  Its attention rows last as long as it does.  `Readout` is what a
request's full-attention layers hold: what is kept, renewed by every fold, and
the tail; a row is filled with it once and then grows by the decodes' own keys.
What a merged cache holds is `DecodeGroups`' matter.

### PaddedLayers, RoutedSpans

`PaddedLayers.tla` is what the layers of a padded decode hold of one of their
rows: the copy of its dense readout, the places it was padded with, and the mask.
A layer whose graph is captured has a static width and is attended to under the
mask of the first layer; the warm-ups of a capture write to it and are undone.
A transient decode borrows the buffers of the workspace, whose width another
batch may have set.  A layer the token pool covers only counts.

`RoutedSpans.tla` is the routed-span state of one request: `NumLayers`
full-attention layers, of which the first leads.  A key is the position of its
token.  Which slot a span goes to and which spans a full slot keeps depends on
values, and is any choice.  A forward visits the layers one by one (`Prefill`,
`Decode`, then `Update`, `FoldAlone`, `FoldAsDecided` or `FoldPacket`,
`Commit`); the leader publishes its decisions one at a time or in packets, and
followers take them from there.  A padded group is joined for good or for one
decode (`JoinPersistent`, `JoinTransient`), stepped (`GroupStep`, a forward or the
replay of a graph) and committed (`GroupCommit`); `JoinCovered`, `CoveredStep`
and `CoveredEnd` are the same where the token pool has the keys.  One request is
enough: of the other rows of a batch only their length matters, by how much the
longest is `Longer`, and their tails, which shorten how long a group lasts.  A
forward that raises drops the cache, so no action raises half way.
`allow_route_boundary` TRUE allows everything that FALSE does.

### DurableEngine

`DurableEngine.tla` extends `Scheduler` by the RWKV engine: a state bank whose
states are the token prefixes they were made from, the order of a step
(`StartStep`, `ZeroSlots`, `Prefill`, `DecodeStep`, `Update`), and the calls
`EngineAdd`, `EngineAbort`, `SnapshotRequest`, `Hibernate`, `Submit`.  Nothing in
the code catches what a step raises, so `StepRaises` and `OnFinishRaises` may
end it anywhere.  `Submit` and `EngineAdd` may ask for a snapshot on finish, as
`/v1/generate` does with `save_as`.  `RunRequest` is the server's `run_request`:
until its request is finished or a step raises it holds the lock, so nothing but
steps happens (`serving`, `Driving`); after a raise nobody steps the engine until
the next POST.  `hurt` and `lost` are history variables: requests that were in
such a step, and slots that a submit took and left behind.

### ListLemmas and the modules of proofs

`ListLemmas.tla` has lemmas about sequences, most of them about those without
duplicates, and finite sets of indices.  `SchedulerProofs` (the arena, the
scheduler and its steps), `StoreProofs`, `ServiceProofs`, `DecodeProofs`,
`DurableProofs`, and `RoutedProofs` with `RoutedLemmas` are the proofs of section 4,
each about the module it extends.  `StoreProofs` is also about the token pool's slot
allocators (`SlotAllocator`, which it instantiates).

## 3. The runs

### What they show

| run | question | properties |
|---|---|---|
| `sched_default` | a budget too small for its batch, aborts and failures in mid-step, a session that parks and resumes: are queues, slots, gaps and budget right, do turns end, is the queue admitted | `TypeOK`, `QueuesMatchStatus`, `SlotConservation`, `GapInvariant`, `BudgetRespected`, `AdmittedAreScheduled`, `FinishedIsFinal`, `TurnsEnd`, `QueueMoves` |
| `sched_lane` | the prefill lane with the smallest budget its configuration accepts: are its books right, its members paid for, and does everybody it keeps waiting get a turn | `LaneAccounts`, `LaneFullyFunded`, `TurnsEnd`, `QueueMoves` |
| `store` | with index writes that succeed, can a crash make a handle read other bytes, or lose what was persisted; even with index writes that raise, are records immutable within a process | `NeverWrongBytes`, `PersistedSurvives`, `RecordsImmutable` |
| `service_requests` | ids that are used again, deadlines and `close`: is a caller told "cancelled" told the truth, does a cancel mark outlive its request, do the books agree | `CancelHonoured`, `MarksAreCurrent`, `BooksAgree` |
| `service_sessions` | three turns of two sessions and room for one, clients that leave, a failing engine, a dying worker and `close`: is engine state ever orphaned, is anybody left waiting | `SessionsOwnState`, `ClosedLeavesNobody` |
| `service_live` | with a failing engine and a session on the only slot, or three turns of two sessions and room for one: do accepted requests end, and do turns that wait for their session or for the room of the other get an answer | `RequestsEnd`, `TurnsFinish` |
| `decode_groups` | requests decode in any batches, while others are added, continued, aborted and failed: does a forward ever read a cache that is behind, or fold where it must not | `ReadsWholeHistory`, `GroupsAreApart`, `PaddedGroupsNeverFold`, `IsRequestHistory` |
| `token_pool` | decodes, prompts and both at once as transactions that may decline or raise: do slots have one owner, is the window where the table says, and does every row read it, however its batch is described, padded and launched | `SlotsHaveOneOwner`, `TablesAgree`, `TailIsKept`, `DecodesReadTheirWindow`, `FillsReadTheirWindow`, `IsRequestHistory` |
| `durable_engine` | submits, steps and `on_finish` may raise anywhere: is a handle the state of the tokens it says, which slots are lost, does `run_request` return whatever earlier errors left | `SnapshotsAreExact`, `SlotsAreAccountedFor`, `RunRequestReturns` |
| `routed_spans` | prefills, single, merged and padded decodes (masked, captured, in lent buffers, or covered by the pool), folds in packets or not, releases and continuations: are tokens kept in order, do followers agree with the leader, is what a decode attends to exact, is the state within the plan | `PositionsKept`, `FollowersAgree`, `ReadsAreExact`, `WithinPlan` |

Two runs are expected to fail: each shows that the code does not do what a line
of its documentation, comments or tests says.

| run | what the code does |
|---|---|
| `service_stuck` (`ActiveTurnIsActive`) | a client that leaves late aborts the next turn of its session; that turn never finishes and the session refuses all others (`gemma_server.py:1060`, `1557`) |
| `decode_fold` (`ReusedGroupsCanStep`) | with the default options an exact group is reused until its tail is full, and the merged cache, which cannot fold, raises (`gemma_engine.py:2127`, `runner/gemma_runner.py:789`) |

Three configurations are kept for running by hand, each of which TLC finds
violated: `SchedChunks.cfg` with `MCScheduler`, `StoreRetry.cfg` with
`StateStore` and `ServiceIds.cfg` with `MCGemmaService`; the first three items
below say what they show.

### Disagreements found without a run of their own

Scheduler, store and service:

* `engine.py:21-28` says that chunk sizes do not depend on the batch if the
  budget is above a bound.  Two prompts of five tokens with chunks of four and a
  budget of seven, which is above it, get chunks of four and of three.
* `store.py:208` says that `persist` is idempotent.  Called again after its index
  write raised it finds the record in the cold tier, reports success and does not
  write the index.
* `gemma_server.py:828`: an id that the service has forgotten is accepted, and
  then refused by the scheduler (`core/scheduler.py:68`, duplicate), which fails
  everything the worker has in flight.
* `store.py:93`: the version of a deleted record is used again for the next
  record of the name, though `store.py:11` says versions are append-only.
  `RecordsImmutable` and `NeverWrongBytes` say what still holds.
* `store.py:230`: `delete` unlinks the file before it writes the index, so a
  crash in between leaves an index entry without a file, though `store.py:18`
  says that the index alone is enough.  Such a handle cannot be read, and never
  reads wrongly.  `store.py:217`: after a `delete` and a `persist` whose index
  writes both raised, a restart reads a new record's file under the old record's
  entry.  This is why `NeverWrongBytes` asks for `~raised`.  `store.py:257`: the
  file of name `x@1`, version 0, is that of name `x_v1`, version 0.
* `gemma_server.py:1609-1617`: the queue bound does not count what the worker has
  taken and not yet added, so more than `max_queue` requests can wait
  (`docs/NATIVE_ENGINE_PLAN.md:193`: bounded queue behavior).
* `gemma_server.py:830` and `1419`: a turn whose client leaves between the worker's
  look at `cancel_requested` and the moment the turn has an engine id is not
  cancelled and runs to its end.
* `gemma_server.py:536-583`: `commit_chat_visible_output` is called by the HTTP
  handler after its turn has finished (`2740-2746`, `2838-2845`) and holds nothing
  in between.  The session may have been evicted, or another turn may have begun:
  the client of a turn that succeeded is given an error, in a stream after
  all its text.
* Smaller ones: `gemma_server.py:641` counts a cancelled request twice when two
  callers cancel it at once; `748`: a `close` that timed out has failed nobody;
  `1696`: the mark of an id is removed by whoever comes last, also if a later
  request has the id.

RWKV engine:

* `core/scheduler.py:296`: when `on_finish` raises, the request is final and stays
  in `running` with its slots, which `fail_request` does not release, though
  `engine.py:17-19` promises that a finished request gives them back.  After
  `num_slots` of them nothing is admitted any more and `server.run_request`, which
  steps while there is something unfinished, does not return.
* `engine.py:253`: `submit_from_handle` loses the slots it has allocated if the
  request it makes next is refused; a seed that `make_generator` refuses leaves
  a request without a generator, and every later step raises `KeyError`.
* `engine.py:119`: when `_execute` raises after some chunks, the bank is ahead of
  the counts; the same tokens are fed again, and a snapshot of that request is
  of no prefix.  `SnapshotsAreExact` excludes the requests in `hurt`, and only
  those.
* `runner/loop.py:61`: `generate` does not return if the arena has no slot for the
  first of its requests, as nothing it waits for can happen.

Gemma engine:

* `gemma_engine.py:877-879` sizes the pool for `num_slots` windows of `W + 1` slots.
  With `W` = 512 and pages of 16 a window may touch 33 pages, 528 slots, and is given
  513, which are 32 pages: the last chunk of such a prompt is refused.  The tests
  that need it say 528 (`tests/test_gemma_token_pool.py:1122`).
* `runner/gemma_token_pool.py:7565` takes the snapshot of a request's pages before it clears
  their prefix.  If the commit raises after that, the restore at `7616` brings
  back pages that are free, and may be another request's.  `ForwardRaises` models a
  commit that raises only where nothing was cleared in between.
* `gemma_engine.py:2046` splits a batch without attention rows only if it has two rows or
  more.  Where a group may have one row, one that finds no slots decodes on its
  merged cache, and `gemma_token_pool.py:8833` commits nothing to the request's own.
  If the next step does find slots, its attention row is written from the own
  cache, which lacks what the group has decoded (`ahead`).  With an option
  `shared |-> TRUE, single |-> TRUE` the model finds this as a violation of
  `DecodesReadTheirWindow`; the options of the run exclude it: groups of one row
  only with slots for rows of their own.
* `runner/gemma_runner.py:2875-2878` says that padded queries may see key zero so that no
  row of the softmax is masked out.  The expression still asks that key zero be
  in the window; in a sliding-window layer whose row holds `W - 1` tokens a padded
  query sees nothing.  It does no harm: nothing reads what padded rows give.
* `docs/gemma_native_contract.md:44` says that sliding layers keep the window that
  the model may attend to.  In a persistent padded group they return every key they
  hold (`runner/gemma_runner.py:4593-4624`) and the masks do not expire any
  (`4985-5043`), so that from the second decode on a row attends to more keys than
  the same row decoding alone (`399`, `459`).
* `runner/gemma_runner.py:703-706` says that a mirrored `GemmaRoutedStateBank` describes
  the resident state.  It gets a prefill's spans twice (`ingest_positions` at
  `3222`, `3305`, `3456` and `add_span` at `1130-1135`) and a decode's not at all.

Every property of a passing run has a mutant in `PROJECT.json`: a definition
with a plausible bug under which the run fails.  The mutated forms are in the
modules, next to what they mutate, marked "Mutant".

### Bounds

* Scheduler: three requests, one of them a session, and a batch of two or
  three.  The interesting cases need one request in mid-prefill, one decoding
  and one waiting or parked.  A prompt of three tokens with chunks of two is
  prefilled in two chunks of different length, or in more where the budget leaves
  one token; a request that resumes has a gap of any length up to that.  Budgets are chosen so that one prefill uses
  up the budget in mid-batch (default) or is exactly paid for (lane).  Two
  families in `sched_default` let slot numbers differ per family.  Both runs have
  one prompt length and one output limit, which keeps the liveness checks short,
  and no symmetry, which these do not allow.
* Store: one name suffices, as names do not interact in the model; two
  versions and three snapshots give a record, a fork or mutation of it, and a
  record that takes over its handle.
* Service: `MaxQueue`, `MaxCompleted`, `MaxChatSessions`, `NumSlots` and
  `MaxRunning` are at or next to one, so that every limit is met.
  `MaxEngineIds` bounds how many sessions are ever opened; a turn that would
  open one more stays with the worker.  Requests and turns are checked in
  separate runs except in `service_live`, where a session holds the only slot;
  they share the worker's round, but no variable of the books.  `Leavers` says
  whose clients may leave: one turn in the runs that pass, which another turn of
  its session may follow or precede.  `Scenes` says which clients come together:
  all, but in `service_live`.
* `service_live` has three scenes: a request, a caller of `cancel` and a turn of a
  session; the request and a turn whose client leaves early; and three turns, the
  client of one of which leaves, of two sessions with room for one.  In the last
  one a turn continues the session of the turn before or starts it anew, waits
  for its place in the batch, and has the other session closed to make room.
  `MaxEngineIds` is the number of turns, so that no turn waits because of it.
  `TurnsFinish` leaves out a turn that is `Overtaken`: the thread of another turn,
  about to leave the engine, has read the id of an engine request that has become
  this turn's since.  Without that condition TLC finds it violated in this run,
  by what `service_stuck` shows; with it TLC finds no other way to lose a turn.
* `service_requests` has two requests with one id, which are interchangeable,
  and a third with another, one caller of `cancel` and one place in the books:
  the smallest instance in which an id is forgotten and accepted again while a
  call about its first owner is under way.
* `decode_groups`: a batch of two in either order and one request beside it;
  prompts of two and three tokens and three outputs reach the tail of three that
  has to be folded, once in a group and once just before; two reserved forwards
  per padded group let it be reused once and run out.
* `token_pool`: a window of four and pages of two, so that a window may touch
  three pages, begins in the middle of a page half of the time, and expires a page
  at a time; a prompt of four in chunks of two or in one; three outputs and a
  suffix, up to ten tokens, move the window past every offset twice.  A tail of
  three that is folded, and two steps for a group, make groups that last, groups
  that a fold cuts short and groups that are not made because one is due.
  Sixteen slots are too few for two requests and their rows where they share
  the pool, so that reservations fail half way and batches are split.  Six plans
  have every builder, kernel and split.  The options are the four ways in which
  attention rows get their slots, and a table without a pool.
* `durable_engine`: two requests, two slots, a budget that one prefill and two
  decodes exceed, two snapshots and one raise: after a raise one needs a
  request to be hurt and one for which `run_request` is called.
* `routed_spans`: two followers, because the second takes decisions that the first
  has already taken; a sink and a ring of one, a chunk of four, spans of at most
  two; twelve tokens fold twice, the second time into slots that are full.  The
  longest row is as long as the request or longer by two, which with a width bucket
  of four pads it by none, some or all of a bucket; two warm-ups are more than one
  place, so that some captures do not fit.

`CHECK_DEADLOCK FALSE` is in the runs in which a bound or `close` may stop the
system.  The others check deadlock; the service does not stop because an idle
worker goes round.

### Fairness

* `Scheduler!FairSpec` has weak fairness of `Step` only: the owner of the engine
  steps while `has_unfinished`, and a step under way is finished.  Calls are
  never forced; in particular no parked session has to be closed.
* `GemmaService!FairSpec` has weak fairness of the worker's round, and strong
  fairness (each waits for locks or for its place in the round) of `StepEnding`, a
  step in which something ends, of `Evicting`, eviction by age, and of `GoingOn`,
  the later sections of a cancel, a turn or a leave that has begun.  Each of the
  three is asked of the whole, not of every request, session and thread: this is
  less than the code gives, where every thread gets its locks in the end, and
  enough because each happens a bounded number of times.  The first is the worker's `while
  True` loop with its 250 ms wake-up; the second is `TurnsEnd` and `QueueMoves`,
  which `sched_default` and `sched_lane` check; the third is the TTL, which is finite by
  default (`gemma_server.py:133`): with `chat_session_ttl_s = None` a parked
  session may hold the last slot for ever and `RequestsEnd` does not hold.  The
  fourth is that locks are released.  No client has to send, give up or cancel
  anything, and nothing has to fail.
* `DurableEngine!EngineSpec` has weak fairness of `KeepStepping` only: a step under
  way goes on, and `run_request` (`server.py:35`) makes the next one while its
  request is unfinished.  A step that raises ends it, after which nothing has to
  step the engine and other requests may wait for ever; nothing has to raise, and
  no POST has to come.

## 4. What is proved

A theorem holds for every value of the constants that its module's assumption
admits, which is what the constructors of the code check or what the model's
bounds are: `ArenaAssumption`, `SchedulerAssumption`, `StoreAssumption`,
`SlotAssumption`, `ServiceAssumption`, `DecodeAssumption`, `DurableAssumption`,
`RoutedAssumption` and `PaddedAssumption`.  So there is any number of requests, ids,
turns, sessions, families, slots, handles, records and layers, any budget, chunk, tail
and queue, with or without a lane.  Nothing else is assumed.  Each argument has one
lemma per action, with one step per conjunct the action can disturb, and a lemma that
puts them together.

### Arena and scheduler: SchedulerProofs

* `ArenaCorrect`: `ArenaSpec => [](ArenaTypeOK /\ ArenaPartition)`.
  The partition is inductive with the types.
* `SchedulerTypes`, `QueuesAgree`, `SlotsConserved` and
  `GapsClose` say that `TypeOK`, `QueuesMatchStatus`, `SlotConservation` and
  `GapInvariant` are invariants of `Spec`.

The inductive invariant of the scheduler, `IInv`, is the four together with
`Housekeeping`.  None of the four is inductive alone.  Slots are conserved only
because a request that is released is in `running` exactly once
(`QueuesMatchStatus`) and holds a slot in every family (`SlotConservation`).
The gap of a batch entry stays within the request's gap between `schedule` and
`update_from_output` only because a request has one entry that is not passed
(`Housekeeping`), and because a request that leaves in between is finished and
cannot come back.  The step that needs most care is the admission loop: with
the loop written as `AdmitFirst(k)`, what it hands out are the first `k`
members of the queue and the first `k` free slots of every family, and the
lemmas of `ListLemmas` say that taking and dropping the front of a sequence
without duplicates gives disjoint parts.

### What a step grants: SchedulerProofs, third part

`BudgetIsRespected`, `LaneIsAccounted`, `LaneIsFunded`, `AdmissionsAreScheduled`
and `FinishedStaysFinished` state `BudgetRespected`, `LaneAccounts`,
`LaneFullyFunded`, `AdmittedAreScheduled` and `FinishedIsFinal`.  The inductive
invariant `BatchInv` is `IInv` with the first three and `BatchFits`, that the
batch is never longer than `max_running_requests`.

The code subtracts each grant from the budget as it goes down the queue.  The
model says the same without a running sum: the tokens wanted are ranked by their
place in the queue, and those of rank at most the budget are granted.  What has to
be shown is that their number is then at most the budget, which holds because
ranks are different numbers between 1 and the budget (an injection into an
interval), with no induction over the queue.  `LaneIsFunded` is the
other direction: with the inequality that `SchedulerConfig` insists on, the
tokens wanted by all decodes and all lane members together have ranks within
the budget.  It needs `BatchFits`, `LaneAccounts`, and that members of the lane
are in the batch.  A request is admitted only while budget is left for it, so the
first of its tokens has a rank within the budget, which is `AdmissionsAreScheduled`.

### The store: StoreProofs

`BytesAreRight`, `PersistedIsDurable` and `RecordsNeverChange` state
`NeverWrongBytes`, `PersistedSurvives` and `RecordsImmutable`; `StoreTypes` states
the types.  `StoreInv` is `Shape` (types, a process that is down remembers nothing,
only records have copies) and, as long as no index write raised, `Contents`:
what memory and files hold is what the record says.  The step that decides is
`restart`, which begins with what the index says.  So the index
must be exact itself (`IndexIsExact`), at every point where the process can
crash, and hold everything that must survive (`IndexIsCurrent`), also between
the two writes of a `persist` or a `delete`.  `RecordsNeverChange` needs none of
this and holds even if index writes raise.

### The slot allocators: StoreProofs, second part

`SlotsAreAccounted` says that `TypeOK` and `Accounts` of `SlotAllocator` are
invariants of each of the three allocators, for any capacity and page size:
every slot below `_next_slot` is free or handed out, never both.
`NewSlotsAreHandedOut` says what a step may do to what is handed out
(`HandsOutNewSlots`): `alloc_slots(n)` adds n slots, `alloc_page_block_with_ids` a
whole aligned page, none of them handed out before and all in the allocator's
range; what raises adds nothing; `free_slots` only takes back.  `RangesAreApart`:
the pool and the domain for rows never have the same slot out.

The inductive invariant `SoundAllocator` is the two with the range of `_next_slot`.
Three things are not plain set algebra.  A new page must begin at a multiple of
the page size after the padding (`PaddedIsAligned`).  The page that is used again is
the least or the greatest of a set that may be remembered wrongly, and must be
free as a whole nevertheless (`ReusedIsFree`).  And `alloc_slots(n)` must give n
slots though it gives the lowest free ones first: `LowestAre`, by the least n for
which it would not.  The run `token_pool` checks `Accounts` of both allocators as
part of `SlotsHaveOneOwner`; the theorem assumes that an allocator is called as in
`SlotAllocator!Next`, and `PoolBackend` changes one by these operations only.

### The service: ServiceProofs

`BooksHold`, `MarksHold`, `CancelsHold`, `SessionsHold` and `CloseHolds` state
`BooksAgree`, `MarksAreCurrent`, `CancelHonoured`, `SessionsOwnState` and
`ClosedLeavesNobody`: all the safety properties of the service.  The inductive
invariant `ServiceInv` of the first four has two halves that meet in the
statuses of requests; `CloseInv` adds the turns and what `close()` leaves.

The books (`BooksInv`):

* `Whereabouts`: a request that is not finished is tracked, and is in the
  queue, in the worker's hands or in the engine, in one of the three only, or the
  round that had it is failing; a call of `cancel` never waits for one that is
  still in the queue.
* `MarksHaveReason`: a mark is there because the worker has the request in its
  hands and will see it, because a call is between its sections and will remove
  it, or because everything is about to fail.  `MarksAreCurrent` alone is not
  inductive: it does not say why the call, when it is done, leaves no mark.
* `PromisesKept`: while a request is in the worker's hands, somebody being told
  that it is cancelled, or about to be, implies a mark.  This is what
  `CancelHonoured` rests on, as the call goes by what it finds in the engine while
  the worker has not added the request yet.  It holds for ids no other request
  has (`Unique`), as the property does.
* `CompletedAreSettled`: what is remembered has neither mark nor deadline, so
  that forgetting it leaves none behind.
* `ClientsIdle`: a request that nobody has sent is new.

The engine's side (`EngineKnows`, `EngineInv`): the queue holds nothing twice
(`EngineQueue`), ids above the counter are new, and the three parts of
`SessionsOwnState`.  What actions do to sessions are four operations, parked
ones are forgotten (`Forgets`), one gets or loses a turn (`Reassigns`), one is
dropped (`Drops`), one is opened where others made room (`Opens`); a lemma for each
says that it keeps this side and touches no request.

The delicate actions are the three sections of `_cancel_request` against `Take`
and `AddRequest`, which move the request meanwhile, and `AddRequest` on an id
the scheduler knows, which drops what the worker holds: `Whereabouts` and
`PromisesKept` say what holds until the round has failed.

The turns (`TurnsInv`).  `_fail_unfinished_locked` finishes the turns of
`_chat_active_turns` and looks at no queue, so that `CloseHolds` rests on
`WaitersAreActive`: the turn of a client that waits is finished, or the active one of
its session.  What could break that, and the part that excludes it:

* Another turn of the session is accepted and takes its place: `QueueingIsFree`,
  because the thread that let go of `engine_lock` still has `cv`.
* The worker starts a turn that its client finished meanwhile, and sets it back to
  running: `PickedIsOpen`, by then the client does not wait.
* A client that timed out on a turn that has not started takes the answer of a
  session for its own and waits on: `WaitersAreUnstarted`, such a turn has no engine
  id yet.  `ListsApart` has it in the queue, in the worker's hands or among the
  retries, once, so that it is not started twice.

`ThreadStep` and `WorkerStep` say what a thread of a client and the worker may change
of all this, and one lemma for each action shows that it does no more.  After the
return (`ClosedIsDone`) the worker's thread has ended and nothing is admitted, and what
threads of clients still do finishes requests and turns and never the reverse
(`Settled`).

### The decode groups: DecodeProofs

`WholeHistoryIsRead`, `GroupsStayApart` and `PaddedGroupsDoNotFold` state
`ReadsWholeHistory`, `GroupsAreApart` and `PaddedGroupsNeverFold`;
`EngineImplementsHistory` is the refinement, `Spec => IsRequestHistory`.  The
inductive invariant `DInv` has these parts:

* `CachesOK`: a request is in at most one group (`Apart`), so that its history is
  in one place, the group if there is one, else its cache.  A padded group began
  with the rows that its requests still have, and after all the forwards it has
  room for, the tail is below a chunk (`PaddedIsCopy`).  This is what makes
  writing it back, or dropping it, lose nothing.
* `MembersDecode`: a group has only requests that decode.  Without it a
  request that ended or is continued would leave its history in a group.
* `GroupsFitPlan`: between planning and the last decode of a step, a group that
  touches a planned batch is the group of exactly that batch.  So a decode
  finds its own group or none, and never one that has some of its rows.
* `ScheduleOK`, `TodoOK`: what is still to be decoded is scheduled with one token,
  and no two planned batches share a row.
* `HistoryIsDue`: what is held of a request is what the scheduler has counted and
  what was computed in this step but is not credited yet (`Ahead`).  This
  connects the groups to the requests; `ReadsWholeHistory` follows from it.

For each action a lemma shows `Good`: `DInv` again, and that the step is one of
`RequestHistory` or changes nothing there.  A decode or prefill is `Forward`
for its rows.  `Finish`, a failure and a client's operation are `Settle`:
they credit or take away.  Planning, flushing, making and keeping groups change
no history, which is where `Apart` and `PaddedIsCopy` are used.

### The RWKV engine: DurableProofs

`SlotsAccounted` and `SnapshotsExact` state `SlotsAreAccountedFor` and
`SnapshotsAreExact` for `EngineSpec`, in which any call and any action of a
step may raise; `EngineTypes` states the types of the scheduler's variables.
A request that an `on_finish` left behind is finished and still in `running`, so
`QueuesMatchStatus` is false here and the scheduler's `IInv` cannot be used.
The engine has its own inductive invariant, `EInv`:

* `EngineQueues`, `EngineSlots`: exactly the requests in the batch own slots, each
  one its own, and they run, or have finished and are in `hurt`.  What is left
  is counted by lengths, `Len(free[f]) + Len(running) + lost = NumSlots`; it becomes
  `SlotsAreAccountedFor` with the cardinality of a sequence without duplicates.
* `EngineTokens`: as many tokens are known as the scheduler has counted, and
  a request in the queue or the batch has one that is not computed.
* `EngineStepOK`: between `schedule` and the end of `update` each request has one
  entry that is not committed; what is still to be fed (`todo`) and to be zeroed
  (`fresh`) is among these.  That zeroing reaches every admitted request needs
  a lemma of its own, `EngineGrants`: the budget, the per-request cap and the batch
  limit never admit a request without giving it tokens in that step.
* `EngineBank`: the state of a request that was not in a step that raised is that of
  the tokens computed, and of those plus the entry's if it is fed and not yet
  committed (`Done`).  A slot that changes hands has old contents until `ZeroSlots`
  or `Submit` writes it; `EngineSlots` says that no other request reads or
  writes it meanwhile.
* `EngineSaved`: the snapshots are exact.

`StepRaises` is the delicate action: whoever had an entry that was not
committed is `hurt`, and for everybody else the invariant must hold with the step
gone (`RaisedSpares`).

### The routed spans: RoutedLemmas, RoutedProofs

`RoutedPositions`, `RoutedFollowers`, `RoutedReads` and `RoutedPlan` state
`PositionsKept`, `FollowersAgree`, `ReadsAreExact` and `WithinPlan`: all the safety
properties of the run.  They hold for any number of layers and slots, any sink,
ring, chunk, budget and span size, any set of sentence ends, and whatever the leader
decides at a fold.

`RoutedLemmas` is about one layer.  `Sound` says where its tokens are (`Placed`) and
that the counters count them (`Sized`); `AtRest` adds a short tail and a
readout that is right.  The lemmas that matter:

* `SplitIs`: `_split_spans` covers what it routes with spans that follow one another,
  none empty and none longer than `max_span_tokens`.  So every fold takes a token off
  the tail at least, and the `break` in `_drain_pending_routes` for a fold that routed
  nothing is never taken, which is why the model has no such step.
* `FoldIs`: a fold that was decided keeps a layer `Sound`.  Each routed token goes to
  the mean of one slot (`MeansFolded`), the spans of a slot stay in order although some
  are dropped (`SlotFolded`), and the counters, which `_commit_route_fold` changes by
  differences, are what a recount gives (`SizedFolded`).
* `PreparedIs` and `PacketFold`: the packet path, which prepares all cuts before it
  folds one and cuts the tail at the end, makes the same folds as one after the other.
* `ReadoutIs`, `ReadoutAppended`: `_materialized_width` is the length of what
  `_materialize` builds, and a commit that appends to the readout leaves what
  rebuilding it would give, also where a token is moved from the ring to the tail.
* `BankBound`, `LayerWithinPlan`: the planned sizes.

`RoutedInv` is the inductive invariant.  Between forwards (`Quiescent`) all layers are
equal and at rest, the log is empty, and the leader's features are those of what it
kept.  None of the four properties is inductive: during a forward the layers differ,
the log is partly followed, and the tail is long.  What holds then (`Under`) is said
with a *way*: the states a layer goes through, from the one with the new
tokens appended, one for each fold.  The leader makes the way longer;
`said` is what it decided.  The layers behind the one the forward is at have
gone to the end of the way, those ahead are where they were, the one it is at is at
step `j`, and the log is exactly `Log(...)`: each decision, with the number of layers
that have still to follow it.  So a follower always finds its decision (`Follows`), the
last one removes it, and the last layer leaves the log empty (`LeavesLast`).

The same invariant has the group of the request (`Grouped`).  In each layer of a padded group are
the row's readout, something in between, and the tokens decoded so far (`Holds`), and
the mask that the first layer alone has shows exactly these (`Shows`).  Forwards of a
capture write only places that are written again before they are shown (`CaptureIs`).
A row covered by the token pool has folded in no step that a count of its
tail would not have allowed (`Covers`).  `RoutedReads` then says that the keys under
the mask, in their order, are the readout of the row with the tokens appended.

TLC checked the parts of `RoutedInv` on the instance of `routed_spans` before the proof,
with the way and the log computed from the state.

### Checked by TLC only

* The token pool, but for its allocators (`SlotsHaveOneOwner`, `TablesAgree`, `TailIsKept`,
  `DecodesReadTheirWindow`, `FillsReadTheirWindow`) and its refinement of
  `RequestHistory`.  Much of it is written with folds and with `:>` and `@@`, which
  the provers know nothing of; a proof has to begin, as that of the routed spans
  did, with recursive functions in their place.
* All liveness (`TurnsEnd`, `QueueMoves`, `RequestsEnd`, `TurnsFinish`,
  `RunRequestReturns`): liveness under fairness and ENABLED are out of the
  prover's reach.  (So are the library's induction theorems; where a proof here
  needs induction it takes a least counterexample.)

## 5. What is not modelled

* Tensor code, kernels' arithmetic, sampling, tokenizers, HTTP formats, argument
  parsing, benchmarks and scripts: no protocol state, or pure input and output.
  They are most of the repository's lines: of 74,800 lines that are not tests,
  33,000 are under `src/wkvm`, and the rest are experiments, benchmarks and
  reports about runs of the program.  Of those in `src/wkvm` a third is mapped; the rest
  is numerics, metrics, the HTTP front ends and the checks of arguments.
* Counters and metrics.
* Real time: a deadline, a TTL or a timeout may pass at any moment.
* Parent-bound chat history: whether a turn extends what its session has seen is
  the environment's decision.
* In the service, the part of `_run_engine` that handles an error in its own
  cleanup.
* Capacity microbatches (`WKVM_TOKEN_POOL_FULL_ATTENTION_CAPACITY_MICROBATCH`), which
  split a batch that is not covered in halves; with two requests halves are
  single rows, but that their groups are kept when others are flushed is left out.
* Captured graphs over the token pool (those of dense padded decodes are in
  `PaddedLayers`).  The buffers, the checks
  before a replay and the keys of the graph cache were read: the key of the
  fast path (`gemma_token_pool.py:3071-3175`) leaves out shapes, which other parts
  of it fix.
* The keys of sliding-window layers inside a persistent padded group.
* In mixed batches, the full-attention layers, which `RoutedSpans` has row by row,
  and masks that the model library makes from the same sizes (external).
* The byte sizes of a state slot, except for the planned sizes in `RoutedSpans`.

## 6. Plan

Done: arena, scheduler, store, service, decode groups, token pool with its
metadata, groups and mixed batches, padded layers, routed spans, the RWKV engine; the
abstract history refined twice.  Proved: everything the runs check of the arena, the
store, the decode groups and the routed spans, of the scheduler, the service and
the RWKV engine except liveness, and of the token pool the slot allocators.

1. Proofs of the token pool's safety properties, on top of its allocators'.
2. `EngineContract.tla`: what `GemmaService` assumes of the engine (admission
   in order, ends, parks, fails), refined by `Scheduler` with a mapping.
3. Parent-bound chat history (`ParentBound.tla`), captured graphs over the
   token pool (`DecodeGraphs.tla`) and the generation loop.
