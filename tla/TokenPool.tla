----------------------------- MODULE TokenPool -----------------------------
(***************************************************************************)
(* wkvm/gemma_engine.py with a token pool: how a step of the engine uses   *)
(* the backend of wkvm/runner/gemma_token_pool.py.  A batch is a           *)
(* transaction: slots are reserved, the forward runs, and what was         *)
(* reserved is committed or discarded.  Prompts are prefilled in chunks; a *)
(* chunk that is not the last defers its keys and values, the last one     *)
(* writes the tail that the window keeps.                                  *)
(*                                                                         *)
(* One thread does all this, so a client's operation falls between two     *)
(* steps.  Requests that decode together may form a persistent group: then *)
(* their attention rows last as long as the group does.  What the merged   *)
(* caches of a group hold is DecodeGroups' matter.                         *)
(***************************************************************************)
EXTENDS MixedBatch

CONSTANTS
    Sessions,       \* requests added with add_session_request: they park
    Options,        \* engine options to consider
    PromptLens,     \* lengths of first prompts
    SuffixLens,     \* lengths of the input of a later turn
    ChunkLens,      \* lengths of prompt chunks, besides the whole rest
    MaxNew,         \* max_new_tokens
    MaxTokens,      \* bound of this model: the tokens of a session
    Keep, Chunk     \* sink and ring tokens, and the tail that is folded

\* pooled, shared: see NewPool.  alias: attention rows may borrow slots; paged:
\* they are made of whole pages; mixed: enable_mixed_batch.  steps:
\* persistent_padded_decode_steps, or 0 without persistent_padded_decode.
\* single: one request may be a group.  boundary: allow_padded_route_boundary.
OptionSet == [pooled : BOOLEAN, shared : BOOLEAN, alias : BOOLEAN, paged : BOOLEAN,
              mixed : BOOLEAN, steps : Nat, single : BOOLEAN, boundary : BOOLEAN]

ASSUME PoolAssumption ==
    /\ Sessions \subseteq Requests /\ IsFiniteSet(Requests) /\ Options \subseteq OptionSet
    /\ PromptLens \cup SuffixLens \cup ChunkLens \subseteq Nat \ {0}
    /\ {NumRows, MaxNew, MaxTokens, Keep, Chunk} \subseteq Nat \ {0}
    /\ SlidingWindow \in Nat \ {0, 1}
    /\ SA!SlotAssumption

VARIABLES
    opts,       \* the options of this engine
    status,     \* Request.status
    prompt,     \* Request.num_prompt_tokens
    computed,   \* Request.num_computed_tokens
    reuse,      \* _pending_session_reuse
    tails,      \* the sliding-window tails of the requests' caches, with a pool
    groups,     \* _persistent_padded_decode_groups
    step        \* where step() is

requestVars == <<status, prompt, computed, reuse>>
vars == <<opts, requestVars, tails, pool, groups, step>>

NoTokens == [r \in {} |-> 0]
Idle == [pc |-> "idle", tokens |-> NoTokens, done |-> {}, decodes |-> << >>,
         fills |-> << >>, covered |-> TRUE, reserve |-> 0, pieces |-> << >>]

Outputs(r) == IF computed[r] < prompt[r] THEN 0 ELSE computed[r] + 1 - prompt[r]
Decoding == {r \in Requests : status[r] = "running" /\ computed[r] >= prompt[r]}
Filling == {r \in Requests : status[r] = "running" /\ computed[r] < prompt[r]}
Resident == {r \in Requests : status[r] \in {"running", "parked"}}

\* What the full-attention layers of a request that has n tokens read: what is
\* kept, which changes whenever the tail reaches Chunk tokens and is folded
\* into it, and the tail.
Pending(n) == IF n < Keep THEN 0 ELSE (n - Keep) % Chunk
Folds(n) == IF n < Keep THEN 0 ELSE (n - Keep) \div Chunk
Readout(r, n) ==
    [i \in 1 .. Min({n, Keep}) + Pending(n) |->
        IF i <= Keep THEN <<r, Folds(n), i - 1>>
        ELSE <<r, 0, n - Pending(n) + i - Keep - 1>>]

\* A group has a key, the batch it was made of; room for steps; and tokens that
\* its merged cache has and the requests' own caches have not, because a step
\* was not covered.
GroupsOf(S) == {g \in groups : Range(g.key) \cap S # {}}
Members(gs) == UNION {Range(g.key) : g \in gs}
Ahead(r) == Max({0} \cup {g.ahead : g \in GroupsOf({r})})

\* _flush_padded_decode_group: the members' attention rows are cleared.
Flushed(p, gs) == ClearRows(p, Members(gs))

-----------------------------------------------------------------------------
(***************************************************************************)
(* Decode transactions: prepare_decode_batch, commit_decode_batch and      *)
(* discard_decode_batch.                                                   *)
(***************************************************************************)

RequestsOf(reservations) == {reservations[i].req : i \in DOMAIN reservations}

\* Mutant: the reserved position stays in the table.
TakeBackSlotOnly(p, d) ==
    LET q == [p EXCEPT !.held[d.req].tokens = @ \ {d.slot}]
    IN  IF p.pooled THEN Restore(q, d.req, d.snap) ELSE Free(q, {d.slot})

\* One reservation is taken back.
TakeBack(p, d) ==
    LET q == Truncate([p EXCEPT !.held[d.req].tokens = @ \ {d.slot}], d.req, d.prev)
    IN  IF p.pooled THEN Restore(q, d.req, d.snap) ELSE Free(q, {d.slot})

DiscardDecodes(p, decodes) ==
    FoldLeft(TakeBack, ClearRows(p, RequestsOf(decodes)), Reverse(decodes))

\* A slot for the next token of r, in the table: q has it, in a page or handed
\* out alone.
Enter(a, r, prev, q, slot) ==
    IF q.failed THEN [pool |-> q, decodes |-> << >>]
    ELSE [pool |-> AppendSlots(IF q.pooled THEN q
                               ELSE [q EXCEPT !.held[r].tokens = @ \cup {slot}], r, <<slot>>),
          decodes |-> <<[req |-> r, prev |-> prev, slot |-> slot, snap |-> Snapshot(a, r)]>>]

EnterPaged(a, r, prev, q) == Enter(a, r, prev, q, SlotAt(q, r, prev))

Reserve(a, r, prev) ==
    IF a.pooled THEN EnterPaged(a, r, prev, WithPages(a, r, prev, 1, 0))
    ELSE Enter(a, r, prev, IF SA!CanTake(a.alloc, 1) THEN [a EXCEPT !.alloc = SA!Take(@, 1)]
                           ELSE Raise(a),
               CHOOSE s \in SA!Taken(a.alloc, 1) : TRUE)

ReserveAdmitted(a, r) == Reserve(a, r, Length(a, r))

Joined(one, decodes) == [one EXCEPT !.decodes = decodes \o @]
ReserveOne(got, r) ==
    IF got.pool.failed THEN got
    ELSE Joined(ReserveAdmitted(Admit(got.pool, r), r), got.decodes)

AllOrNone(got) ==
    IF got.pool.failed THEN [pool |-> DiscardDecodes(got.pool, got.decodes), decodes |-> << >>]
    ELSE got

ReserveAll(p, batch) == AllOrNone(FoldLeft(ReserveOne, [pool |-> p, decodes |-> << >>], batch))

\* prepare_full_attention_decode_metadata: if one row cannot be made, all of
\* them are cleared and the decode is not covered.
RowsOrNone(q, decodes) ==
    IF q.failed THEN [ClearRows(q, RequestsOf(decodes)) EXCEPT !.failed = FALSE] ELSE q

PrepareRows(p, decodes, reserve) ==
    LET PrepareOne(q, d) ==
            IF q.failed THEN q
            ELSE PrepareRow(q, d.req, d.prev, Readout(d.req, d.prev - Ahead(d.req)), d.slot,
                            reserve, opts)
        cleared == IF reserve = 0 THEN ClearRows(p, RequestsOf(decodes)) ELSE p
    IN  IF p.pooled THEN RowsOrNone(FoldLeft(PrepareOne, cleared, decodes), decodes) ELSE p

Covered(p, decodes) ==
    \A d \in Range(decodes) : \/ ~p.pooled \/ d.prev = 0
                              \/ p.rows[d.req].mode # "none" \/ p.transient[d.req] # << >>

\* Mutant: two positions too many are cleared.
FirstKeptTooLate(d) == Max({d.prev + 3 - SlidingWindow, 0})

\* The first position that the window of the decode after d has.
FirstKept(d) == Max({d.prev + 1 - SlidingWindow, 0})

\* The keys of a decode, in the sliding layers and in its attention row.
WriteDecode(p, d) ==
    LET q == Write(p, d.req, d.prev, <<<<d.req, d.prev>>>>)
    IN  IF p.rows[d.req].mode = "none" THEN q
        ELSE Filled(q, <<Last(p.rows[d.req].slots)>>, <<<<d.req, 0, d.prev>>>>)

CommitDecodes(p, decodes, reserve, covered) ==
    LET written == IF ~p.pooled THEN p
                   ELSE FoldLeft(WriteDecode, p, decodes)
        \* A layer that folds its tail makes the row stale.
        stale == {r \in RequestsOf(decodes) :
                    covered /\ Folds(computed[r] + 1) # Folds(computed[r])}
        ended == IF reserve = 0 THEN RequestsOf(decodes) ELSE stale
    IN  IF ~p.pooled THEN p
        ELSE FoldLeft(LAMBDA q, d : ClearPrefix(q, d.req, FirstKept(d)),
                      ClearRows(written, ended), decodes)

-----------------------------------------------------------------------------
(***************************************************************************)
(* Prefill: prepare_authoritative_prefill before the forward, and          *)
(* commit_prefill_tokens or commit_authoritative_prefill after it.         *)
(***************************************************************************)

Window == SlidingWindow - 1     \* positions that the next decode needs

IsLast(r, n) == computed[r] + n >= prompt[r]

\* The chunk of n tokens covers the whole tail: it writes it itself.
IsAuthoritative(r, n) ==
    opts.pooled /\ IsLast(r, n) /\ n >= Min({computed[r] + n, Window})

PrepareFill(p, r, n) ==
    LET a == Admit(p, r)
        new == computed[r] + n
        kept == Min({new, Window})
        snap == Snapshot(a, r)
        q == WithPages(a, r, new - kept, kept, new - kept)
        fill == [req |-> r, n |-> n, prev |-> computed[r], authoritative |-> TRUE, snap |-> snap]
    IN  IF ~IsAuthoritative(r, n)
        THEN [pool |-> p, fills |-> <<[fill EXCEPT !.authoritative = FALSE]>>]
        ELSE IF q.failed THEN [pool |-> Restore(q, r, snap), fills |-> << >>]
        ELSE [pool |-> q, fills |-> <<fill>>]

\* discard_authoritative_prefill, which puts the keys and values of recycled
\* pages back as well.
DiscardFill(p, f) == IF f.authoritative THEN Restore(p, f.req, f.snap) ELSE p
DiscardFills(p, fills) == FoldLeft(DiscardFill, p, fills)

PrepareFills(p, batch) ==
    LET PrepareOne(got, r) ==
            LET one == PrepareFill(got.pool, r, step.tokens[r])
            IN  IF got.pool.failed THEN got
                ELSE [pool |-> one.pool, fills |-> got.fills \o one.fills]
        all == FoldLeft(PrepareOne, [pool |-> p, fills |-> << >>], batch)
    IN  IF all.pool.failed THEN [pool |-> DiscardFills(all.pool, all.fills), fills |-> << >>]
        ELSE all

\* The rows of a batch: those that fill come first.
BatchRows ==
    [i \in DOMAIN step.fills |->
        LET f == step.fills[i]
        IN  [req |-> f.req, prefix |-> f.prev, n |-> f.n, prompt |-> prompt[f.req],
             target |-> prompt[f.req]]]
    \o [i \in DOMAIN step.decodes |->
        LET d == step.decodes[i]
        IN  [req |-> d.req, prefix |-> d.prev, n |-> 1, prompt |-> prompt[d.req],
             target |-> d.prev + 1]]

BatchTails == [i \in DOMAIN BatchRows |-> tails[BatchRows[i].req]]

\* _restore_session_sliding_tail_for_prefill
RestoredTail(p, r) ==
    LET slots == LastOf(p.line[p.rowOf[r]].slots, Min({computed[r], Window}))
    IN  [keys |-> KeysAt(p, << >>, slots), len |-> computed[r], released |-> FALSE]

RestoredTails(p, fills) ==
    [r \in Requests |-> IF opts.pooled /\ r \in reuse /\ r \in RequestsOf(fills)
                        THEN RestoredTail(p, r) ELSE tails[r]]

\* The keys of a chunk, and the tail that the forward leaves.
NewKeys(f) ==
    LET i == CHOOSE k \in DOMAIN step.fills : step.fills[k] = f
    IN  SubSeq(KeyStates(BatchRows)[i], 1, f.n)
NewTail(f) == Updated(tails[f.req], NewKeys(f))

\* A tail is released when the prompt is computed
\* (release_token_pool_covered_sliding_storage).
TailsAfter(fills) ==
    [r \in Requests |->
        IF ~opts.pooled \/ r \notin RequestsOf(fills) THEN tails[r]
        ELSE LET f == CHOOSE g \in Range(fills) : g.req = r
             IN  IF IsLast(r, f.n) THEN [keys |-> << >>, len |-> NewTail(f).len, released |-> TRUE]
                 ELSE NewTail(f)]

\* backfill_prefill_tokens: n positions from start on are in the tail.
Backfill(p, f, start, n) ==
    IF Len(NewTail(f).keys) < n THEN [p EXCEPT !.errors = @ \cup {"no tail"}]
    ELSE Write(p, f.req, start, LastOf(NewTail(f).keys, n))

\* commit_authoritative_prefill
CommitAuthoritative(p, f) ==
    LET new == f.prev + f.n
        kept == Min({new, Window})
        q == AppendSlots(Write(p, f.req, new - kept, LastOf(NewKeys(f), kept)), f.req,
                         Padding(f.n - kept) \o SlotsAt(p, f.req, new - kept, kept))
    IN  ClearPrefix([q EXCEPT !.deferred = @ \ {f.req}], f.req, new - kept)

\* _commit_deferred_prefill_tokens
CommitDeferred(p, f) ==
    LET q == AppendSlots(p, f.req, Padding(f.n))
    IN  [ClearPrefix(q, f.req, Max({f.prev + f.n - Window, 0})) EXCEPT !.deferred = @ \cup {f.req}]

\* _commit_deferred_final_prefill_tail: the cache still has the whole tail.
CommitDeferredTail(p, f) ==
    LET new == f.prev + f.n
        kept == Min({new, Window})
        start == new - kept
        q == WithPages(p, f.req, start, kept, start)
        slots == SlotsAt(q, f.req, start, kept)
        padded == AppendSlots(Backfill(q, f, start, kept), f.req, Padding(f.n))
        filled == [padded EXCEPT !.line[p.rowOf[f.req]].slots =
                      [i \in DOMAIN @ |-> IF i > start THEN slots[i - start] ELSE @[i]]]
    IN  IF q.failed THEN Restore(q, f.req, Snapshot(p, f.req))
        ELSE ClearPrefix([filled EXCEPT !.deferred = @ \ {f.req}], f.req, start)

\* The rest of commit_prefill_tokens: a short last chunk after a tail that is
\* in the pool, or any chunk if there is only a table.
CommitSuffix(p, f) ==
    LET new == f.prev + f.n
        cleared == ClearPrefix(p, f.req, Min({f.prev, Max({new - SlidingWindow, 0})}))
        q == WithPages(cleared, f.req, f.prev, f.n, 0)
        taken == SA!Taken(p.alloc, f.n)
    IN  IF p.pooled
        THEN IF q.failed THEN q
             ELSE AppendSlots(Backfill(q, f, f.prev, f.n), f.req, SlotsAt(q, f.req, f.prev, f.n))
        ELSE IF ~SA!CanTake(p.alloc, f.n) THEN Raise(p)
        ELSE AppendSlots([p EXCEPT !.alloc = SA!Take(@, f.n),
                                   !.held[f.req].tokens = @ \cup taken],
                         f.req, SetToSortSeq(taken, <))

CommitFill(p, f) ==
    LET a == Admit(p, f.req)
    IN  CASE p.failed -> DiscardFill(p, f)
          [] ~p.failed /\ f.authoritative -> CommitAuthoritative(p, f)
          [] ~p.failed /\ ~f.authoritative /\ p.pooled /\ ~IsLast(f.req, f.n) -> CommitDeferred(a, f)
          [] ~p.failed /\ ~f.authoritative /\ p.pooled /\ IsLast(f.req, f.n)
                /\ f.req \in p.deferred -> CommitDeferredTail(a, f)
          [] OTHER -> CommitSuffix(a, f)

-----------------------------------------------------------------------------
(***************************************************************************)
(* Clients' operations, between steps.                                     *)
(***************************************************************************)

End(S) ==
    /\ status' = [r \in Requests |-> IF r \in S THEN "ended" ELSE status[r]]
    /\ computed' = [r \in Requests |-> IF r \in S THEN 0 ELSE computed[r]]
    /\ reuse' = reuse \ S
    /\ tails' = [r \in Requests |-> IF r \in S THEN EmptyTail ELSE tails[r]]
    /\ UNCHANGED prompt

\* add_request, add_session_request, and the admission.
AddRequest(r, len) ==
    /\ step.pc = "idle" /\ status[r] = "new" /\ Cardinality(Resident) < NumRows
    /\ status' = [status EXCEPT ![r] = "running"]
    /\ prompt' = [prompt EXCEPT ![r] = len]
    /\ UNCHANGED <<opts, computed, reuse, tails, pool, groups, step>>

\* continue_session_requests
ContinueSession(r, len) ==
    /\ step.pc = "idle" /\ status[r] = "parked"
    /\ computed[r] + 1 + len + MaxNew <= MaxTokens
    /\ status' = [status EXCEPT ![r] = "running"]
    /\ prompt' = [prompt EXCEPT ![r] = computed[r] + 1 + len]
    /\ reuse' = reuse \cup {r}
    /\ pool' = Flushed(pool, GroupsOf({r}))
    /\ groups' = groups \ GroupsOf({r})
    /\ UNCHANGED <<opts, computed, tails, step>>

\* abort_request, close_sessions
Leave(r) ==
    /\ step.pc = "idle" /\ r \in Resident
    /\ pool' = ReleaseRequest(Flushed(pool, GroupsOf({r})), r)
    /\ groups' = groups \ GroupsOf({r})
    /\ End({r})
    /\ UNCHANGED <<opts, step>>

-----------------------------------------------------------------------------
(***************************************************************************)
(* step()                                                                  *)
(***************************************************************************)

\* Any running requests may be in a step, with any part of their prompts.
Schedule(D, n) ==
    /\ D \cup DOMAIN n # {}
    /\ step' = [Idle EXCEPT !.pc = "run",
                            !.tokens = [r \in D \cup DOMAIN n |-> IF r \in D THEN 1 ELSE n[r]]]
    /\ UNCHANGED <<opts, requestVars, tails, pool, groups>>

Scheduled == DOMAIN step.tokens
Left == Scheduled \ step.done
LeftToDecode == Left \cap Decoding
LeftToFill == Left \cap Filling

\* _plan_decode_model_batches: which requests decode together.  Groups that
\* are none of these batches are flushed.
MayBeGroup(batch) == opts.steps > 0 /\ (Len(batch) > 1 \/ opts.single)

PlanDecodes(batches) ==
    LET kept == {g \in groups : g.key \in Range(batches) /\ MayBeGroup(g.key)}
    IN  /\ step.pc = "run" /\ step.pieces = << >>
        /\ pool' = Flushed(pool, groups \ kept)
        /\ groups' = kept
        /\ step' = [step EXCEPT !.pieces = [i \in DOMAIN batches |->
                        [batch |-> batches[i], group |-> MayBeGroup(batches[i])]]]
        /\ UNCHANGED <<opts, requestVars, tails>>

\* _persistent_padded_reserve_steps: no member may end or fold its tail before
\* the group does.
ReserveSteps(batch) ==
    LET left == Min({MaxNew - Outputs(r) : r \in Range(batch)})
        margin == Min({Chunk - Pending(computed[r]) - 1 : r \in Range(batch)})
        steps == Min({opts.steps, left})
    IN  IF margin = 0 THEN IF opts.boundary THEN Min({steps, 1}) ELSE 0
        ELSE Min({steps, margin})

\* The steps that attention rows are made for: those the group has left, or
\* those it begins with; 0 if there is no group.
RowSteps(piece) ==
    LET old == {g \in groups : g.key = piece.batch}
    IN  IF ~piece.group THEN 0
        ELSE IF old # {} THEN (CHOOSE g \in old : TRUE).room
        ELSE ReserveSteps(piece.batch)

\* _fail_scheduled
FailScheduled(p) ==
    /\ pool' = Release([p EXCEPT !.failed = FALSE], Scheduled)
    /\ groups' = groups \ GroupsOf(Scheduled)
    /\ End(Scheduled)
    /\ step' = Idle
    /\ UNCHANGED opts

\* Slots are reserved for the rows of a batch, first for those that fill, and
\* then attention rows; what was reserved is taken back if there are no more.
BeginWith(kept, next, fill, decode, rows) ==
    IF fill.pool.failed THEN FailScheduled(fill.pool)
    ELSE IF decode.pool.failed THEN FailScheduled(DiscardFills(decode.pool, fill.fills))
    ELSE /\ pool' = rows
         /\ tails' = RestoredTails(pool, fill.fills)
         /\ step' = [next EXCEPT !.pc = "forward", !.fills = fill.fills,
                                 !.decodes = decode.decodes,
                                 !.covered = Covered(rows, decode.decodes)]
         /\ groups' = kept
         /\ UNCHANGED <<opts, requestVars>>

BeginRows(kept, next, fill, decode) ==
    BeginWith(kept, next, fill, decode,
              PrepareRows(decode.pool, decode.decodes, next.reserve))

BeginDecodes(kept, next, fill, batch) ==
    BeginRows(kept, next, fill, ReserveAll(fill.pool, batch))

\* It begins with the pool p and the groups kept.
Begin(p, kept, next, fillBatch, decodeBatch) ==
    BeginDecodes(kept, next, PrepareFills(p, fillBatch), decodeBatch)

\* _execute_decode_model_batch, for the first of the batches that are left
BeginDecode ==
    /\ step.pc = "run" /\ step.pieces # << >>
    /\ LET piece == Head(step.pieces)
       IN  Begin(pool, groups, [step EXCEPT !.pieces = Tail(@), !.reserve = RowSteps(piece)],
                 << >>, piece.batch)

\* _execute_prefill_chunk, _execute_prefill_batch: chunks of one length.
BeginPrefill(batch) ==
    /\ LeftToDecode = {}
    /\ Cardinality({step.tokens[r] : r \in Range(batch)}) = 1
    /\ Begin(pool, groups, step, batch, << >>)

\* _execute_mixed_batch
BeginMixed(fillBatch, decodeBatch) ==
    /\ opts.mixed /\ opts.pooled /\ step.done = {} /\ step.pieces = << >>
    /\ fillBatch # << >> /\ decodeBatch # << >>
    /\ LET kept == groups \ GroupsOf(Scheduled)
       IN  Begin(Flushed(pool, groups \ kept), kept, step, fillBatch, decodeBatch)

InForward == step.pc = "forward"
Mixed == step.fills # << >> /\ step.decodes # << >>
Again == [step EXCEPT !.pc = "run", !.fills = << >>, !.decodes = << >>, !.covered = TRUE,
                      !.reserve = 0]
Discarded == DiscardFills(DiscardDecodes(pool, step.decodes), step.fills)

Batch == [i \in DOMAIN step.decodes |-> step.decodes[i].req]
Singles(group) == [i \in DOMAIN Batch |-> [batch |-> <<Batch[i]>>, group |-> group]]

\* The batch is given up, and its group with it, and its rows are tried
\* otherwise: one by one, if the batch is not covered
\* (_split_missing_full_attention_coverage); without a group, and then one by
\* one, after DistinctCacheBatchError; fills and decodes apart.
Pieces ==
    IF Mixed THEN << >>
    ELSE IF ~step.covered /\ Len(Batch) > 1 THEN Singles(MayBeGroup(<<Batch[1]>>))
    ELSE IF step.reserve > 0 THEN <<[batch |-> Batch, group |-> FALSE]>>
    ELSE Singles(FALSE)

Decline ==
    /\ InForward /\ step.decodes # << >>
    /\ Len(Batch) > 1 \/ step.reserve > 0 \/ Mixed
    /\ pool' = Discarded
    /\ groups' = {g \in groups : g.key # Batch}
    /\ step' = [Again EXCEPT !.pieces = Pieces \o @]
    /\ UNCHANGED <<opts, requestVars, tails>>

MayForward == step.covered \/ (Len(step.decodes) <= 1 /\ ~Mixed)

\* The group of a batch after its step, unless it has no room left or one of
\* its requests stops.
GroupNow ==
    [key |-> Batch, room |-> step.reserve - 1,
     ahead |-> IF step.covered THEN Ahead(Batch[1]) ELSE Ahead(Batch[1]) + 1]

\* The forward is done: the chunks are committed, then the decodes.
Commit(stops) ==
    /\ InForward /\ MayForward
    /\ stops => step.reserve > 1
    /\ LET filled == FoldLeft(CommitFill, pool, step.fills)
           p == CommitDecodes(filled, step.decodes, step.reserve, step.covered)
           lasts == step.reserve > 1 /\ ~stops
       IN  IF filled.failed THEN FailScheduled(DiscardDecodes(filled, step.decodes))
           ELSE /\ pool' = IF lasts THEN p ELSE ClearRows(p, Range(Batch))
                /\ groups' = {g \in groups : g.key # Batch}
                                \cup (IF lasts THEN {GroupNow} ELSE {})
                /\ step' = [Again EXCEPT !.done = @ \cup RequestsOf(step.fills)
                                                    \cup RequestsOf(step.decodes)]
                /\ tails' = TailsAfter(step.fills)
                /\ reuse' = reuse \ RequestsOf(step.fills)
                /\ UNCHANGED <<opts, status, prompt, computed>>

\* The forward raises, or the commit of chunk k + 1 does where it writes keys
\* and values.  (Not in CommitSuffix, see README.md.)
ForwardRaises(k) ==
    /\ InForward /\ MayForward
    /\ k < Len(step.fills) + 1
    /\ k > 0 => step.fills[k].authoritative
    /\ LET filled == FoldLeft(CommitFill, pool, SubSeq(step.fills, 1, k))
           rest == SubSeq(step.fills, k + 1, Len(step.fills))
       IN  /\ ~filled.failed
           /\ FailScheduled(DiscardFills(DiscardDecodes(filled, step.decodes), rest))

\* update_from_output and the rest of step(): the requests of T are finished.
Closing == {r \in Scheduled : computed[r] + step.tokens[r] >= prompt[r]}

Finish(T) ==
    /\ step.pc = "run" /\ Left = {}
    /\ {r \in Closing : Outputs(r) + 1 >= MaxNew} \subseteq T /\ T \subseteq Closing
    /\ pool' = Release(Flushed(pool, GroupsOf(T)), T \ Sessions)
    /\ groups' = groups \ GroupsOf(T)
    /\ status' = [r \in Requests |-> IF r \notin T THEN status[r]
                                     ELSE IF r \in Sessions THEN "parked" ELSE "ended"]
    /\ computed' = [r \in Requests |-> IF r \in T \ Sessions THEN 0
                                       ELSE IF r \in Scheduled THEN computed[r] + step.tokens[r]
                                       ELSE computed[r]]
    /\ tails' = [r \in Requests |-> IF r \in T \ Sessions THEN EmptyTail ELSE tails[r]]
    /\ step' = Idle
    /\ UNCHANGED <<opts, prompt, reuse>>

-----------------------------------------------------------------------------
Init ==
    /\ opts \in Options
    /\ status = [r \in Requests |-> "new"]
    /\ prompt = [r \in Requests |-> 0]
    /\ computed = [r \in Requests |-> 0]
    /\ reuse = {}
    /\ tails = [r \in Requests |-> EmptyTail]
    /\ pool = NewPool(opts.pooled, opts.shared)
    /\ groups = {}
    /\ step = Idle

ClientOperation ==
    \/ \E r \in Requests, len \in PromptLens : AddRequest(r, len)
    \/ \E r \in Sessions, len \in SuffixLens : ContinueSession(r, len)
    \/ \E r \in Requests : Leave(r)

Chunks(P) ==
    {n \in [P -> UNION {1 .. prompt[r] - computed[r] : r \in P}] :
        \A r \in P : /\ n[r] <= prompt[r] - computed[r]
                     /\ n[r] \in ChunkLens \cup {prompt[r] - computed[r]}}

Orders(S) == SetToSeqs(S)

\* The requests of S in any order, cut into batches.
Cut(order, at) ==
    LET ends == SelectSeq([i \in DOMAIN order |-> i], LAMBDA i : i \in at \cup {Len(order)})
    IN  [k \in DOMAIN ends |-> SubSeq(order, IF k = 1 THEN 1 ELSE ends[k - 1] + 1, ends[k])]

Batches(S) ==
    IF S = {} THEN {}
    ELSE {Cut(order, at) : order \in Orders(S), at \in SUBSET (1 .. Cardinality(S) - 1)}

Next ==
    \/ ClientOperation
    \/ /\ step.pc = "idle"
       /\ \E D \in SUBSET Decoding, P \in SUBSET Filling :
            \E n \in Chunks(P) : Schedule(D, n)
    \/ /\ step.pc = "run"
       /\ \/ \E batches \in Batches(LeftToDecode) : PlanDecodes(batches)
          \/ BeginDecode
          \/ \E S \in SUBSET LeftToFill \ {{}} : \E batch \in Orders(S) : BeginPrefill(batch)
          \/ \E f \in Orders(LeftToFill), d \in Orders(LeftToDecode) : BeginMixed(f, d)
    \/ Decline
    \/ \E stops \in BOOLEAN : Commit(stops)
    \/ \E k \in 0 .. Cardinality(Requests) : ForwardRaises(k)
    \/ \E T \in SUBSET Scheduled : Finish(T)

Spec == Init /\ [][Next]_vars

-----------------------------------------------------------------------------
(***************************************************************************)
(* Properties.                                                             *)
(***************************************************************************)

\* Every slot that is handed out has one owner: a request's pages or its own
\* slots, or an attention row; and a slot that is in nobody's hands is free.  A
\* slot that an attention row borrows stays with the request's pages as long as
\* the row is there.  No slot is given back that is not handed out (free_slots
\* would raise KeyError and leave the rest of a release undone), and with
\* RequestSlots slots for requests alone no request that runs is refused a page.
OwnedBy(r) == pool.held[r].owned \cup pool.held[r].tokens
RowOwnedBy(r) == pool.rows[r].owned \cup Range(pool.transient[r])

SlotsHaveOneOwner ==
    /\ SA!Accounts /\ SR!Accounts
    /\ LET requestSlots == UNION {OwnedBy(r) : r \in Requests}
           rowSlots == UNION {RowOwnedBy(r) : r \in Requests}
       IN  /\ requestSlots \cap rowSlots = {}
           /\ pool.alloc.out = requestSlots \cup (IF pool.shared THEN rowSlots ELSE {})
           /\ ~pool.shared => pool.rowAlloc.out = rowSlots
    /\ \A r, q \in Requests : r # q => /\ OwnedBy(r) \cap OwnedBy(q) = {}
                                       /\ RowOwnedBy(r) \cap RowOwnedBy(q) = {}
    /\ \A r \in Requests : pool.held[r].tokens = {} \/ pool.held[r].owned = {}
    /\ \A r \in Requests : pool.transient[r] = << >> \/ pool.rows[r].mode = "none"
    /\ \A r \in Requests : pool.rows[r].mode # "none" =>
            GroupsOf({r}) # {} \/ r \in RequestsOf(step.decodes)
    /\ \A r \in Requests : pool.rows[r].borrowed \subseteq pool.held[r].owned
    /\ "KeyError" \notin pool.errors
    /\ ~pool.shared => "no page" \notin pool.errors

\* The table, the page table and the block tables agree, and a row is used by
\* one request.  (While a last chunk runs that keeps nothing of what was
\* there, its pages may be those of older positions.)
Recycling == {f.req : f \in {g \in Range(step.fills) : g.authoritative}}

TablesAgree ==
    /\ \A row \in TableRow :
        (\A r \in Requests : pool.rowOf[r] # row) => pool.line[row] = EmptyLine
    /\ \A r \in Requests :
        IF pool.rowOf[r] = NoRow THEN pool.held[r] = EmptyHeld
        ELSE LET line == pool.line[pool.rowOf[r]]
                 held == pool.held[r]
             IN  /\ \A q \in Requests \ {r} : pool.rowOf[q] # pool.rowOf[r]
                 /\ line.blocks = held.pages
                 /\ held.owned = UNION {Page(held.pages[b]) : b \in DOMAIN held.pages}
                 /\ IsInjective(held.pages)
                 /\ \A i \in DOMAIN line.slots :
                        line.slots[i] # Pad /\ r \notin Recycling =>
                            IF pool.pooled THEN /\ BlockOf(i - 1) \in DOMAIN held.pages
                                                /\ line.slots[i] = SlotAt(pool, r, i - 1)
                            ELSE line.slots[i] \in held.tokens

\* What a request has computed and the next decode attends to is in the pool,
\* at the slots the table and the pages say, when the request decodes and when
\* its session is parked (gemma_engine.py:3658 raises if not).
TailIsKept ==
    \A r \in Requests :
        status[r] = "parked" \/ (status[r] = "running" /\ computed[r] >= prompt[r]) =>
            LET slots == pool.line[pool.rowOf[r]].slots
            IN  \A i \in Max({1, computed[r] + 1 - Window}) .. computed[r] :
                    /\ slots[i] # Pad
                    /\ pool.pooled => pool.kv[slots[i]] = <<r, i - 1>>

\* In every batch that fills, alone, side by side or next to decodes, each query
\* of a prompt attends, in order, once each, to the keys of the last SlidingWindow
\* positions of its own request up to its own, whatever the widths of the other
\* rows and wherever the tail comes from: the chunk before, or the pool, for a
\* session that goes on.  What a decode among them writes is its own key, and
\* the output it gets is its own.  And a tail that is written into the pool when
\* the prompt ends is as long as it must be.
UpTo(r, pos) == [k \in 1 .. Min({pos + 1, SlidingWindow}) |->
                    <<r, pos - Min({pos + 1, SlidingWindow}) + k>>]

FillsRead(rows, batchTails, decodes) ==
    LET pooledRows == Range(DecodeRows(rows))
        drawn == PrefillRows(rows)
    IN  /\ ValidBatch(rows, decodes)
        /\ \A i \in Range(drawn) : CanUpdate(batchTails[i])
        /\ WidthsMatch(rows, batchTails, pooledRows)
        /\ \A i \in Range(drawn), j \in 1 .. MaxQuery(rows) :
            j <= LogitsIndex(rows, i) =>
                DenseRead(rows, batchTails, i, j, pooledRows)
                    = UpTo(rows[i].req, rows[i].prefix + j - 1)
        /\ \A d \in DOMAIN decodes : KeyWritten(rows, d) = <<decodes[d].req, decodes[d].prev>>
        /\ \A i \in pooledRows : decodes[DecodeOfRow(rows, i)].req = rows[i].req

FillsReadTheirWindow ==
    /\ step.pc = "forward" /\ step.fills # << >> /\ opts.pooled =>
        FillsRead(BatchRows, BatchTails, step.decodes)
    /\ "no tail" \notin pool.errors

\* However a batch of decodes is described and launched, each row reads, in
\* order, once each, the keys and values of the last SlidingWindow positions of
\* its request and of no other, the one it is about to compute included; and in
\* the full-attention layers, if they are covered, what its caches would have
\* given it, however many steps its attention row has lasted.  The metadata can
\* be built, and if there is a flat list no launch that fails leaves a row
\* without a reference.
Launched(m, plan) == Kinds(m, plan) \ {"raises"}
CanLaunch(m, plan) ==
    /\ m.flat # None \/ m.paged # None
    /\ m.flat # None /\ ~plan.strict => "raises" \notin Kinds(m, plan)

ReadsWindows(m, plan, batch) ==
    /\ CanLaunch(m, plan)
    /\ \A kind \in Launched(m, plan), i \in DOMAIN batch :
            KeysRead(pool, m, plan, kind, batch, i) = UpTo(batch[i].req, batch[i].prev)

ReadsReadouts(m, plan, batch) ==
    /\ CanLaunch(m, plan)
    /\ \A kind \in Launched(m, plan), i \in DOMAIN batch :
            LET d == batch[i]
            IN  FullKeysRead(pool, m, plan, kind, batch, i)
                    = Append(Readout(d.req, d.prev), <<d.req, 0, d.prev>>)

DecodesReadTheirWindow ==
    step.pc = "forward" /\ step.decodes # << >> /\ pool.pooled =>
        \A plan \in Plans :
            /\ ReadsWindows(SlidingMetadata(pool, step.decodes, plan), plan, step.decodes)
            /\ step.covered =>
                ReadsReadouts(FullMetadata(pool, step.decodes, step.reserve, opts.paged),
                              plan, step.decodes)

\* The table is the history of a request: reserving a slot and taking it back,
\* deferring a chunk and failing a step neither lose positions nor add any.
Reserved(r) == IF r \in RequestsOf(step.decodes) THEN 1 ELSE 0
InTable == [r \in Requests |-> IF pool.rowOf[r] = NoRow THEN 0
                               ELSE Length(pool, r) - Reserved(r)]

History == INSTANCE RequestHistory WITH held <- InTable, credited <- computed
IsRequestHistory == History!HistorySpec

=============================================================================
