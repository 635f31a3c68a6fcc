---------------------------- MODULE DecodeGroups ----------------------------
(***************************************************************************)
(* wkvm/gemma_engine.py: how the Gemma engine decodes requests together.   *)
(* A request owns a cache.  To decode a batch, the engine merges the       *)
(* caches of its requests and keeps the merged cache for the next steps,   *)
(* as a group under the key of the batch:                                  *)
(*                                                                         *)
(*   - an exact group takes the rows over: they live in the merged cache   *)
(*     until a flush splits them into the requests' caches again;          *)
(*   - a padded group copies the rows and collects new tokens, which a     *)
(*     flush appends to the requests' caches; until then those are behind. *)
(*                                                                         *)
(* A cache keeps the last Keep tokens (sink and ring) and a tail of older  *)
(* ones, which is folded into routed spans when it reaches Chunk tokens;   *)
(* only a cache of one row can fold.  One thread does all this, so a       *)
(* client's operation falls between two steps.  The token pool is off      *)
(* (_token_kv_pool is None).                                               *)
(***************************************************************************)
EXTENDS FiniteSetsExt, SequencesExt

CONSTANTS
    Requests,       \* request ids
    Sessions,       \* those added with add_session_request: they park
    Options,        \* the engine options to consider (see OptionSet)
    PromptLens,     \* lengths of first prompts
    SuffixLens,     \* lengths of the input of a later turn
    MaxNew,         \* max_new_tokens
    MaxTokens,      \* bound of this model: the tokens of a session
    Keep,           \* sink_tokens + ring_tokens
    Chunk,          \* pending_tokens: the tail that is folded
    PaddedSteps,    \* persistent_padded_decode_steps
    MaxRows         \* decode_microbatch_rows

\* The switches of the constructor; single is whether a batch of one row may
\* have a padded group (_single_row_persistent_padded_enabled).
OptionSet == [exact : BOOLEAN, padded : BOOLEAN, single : BOOLEAN, mixed : BOOLEAN]

ASSUME DecodeAssumption ==
    /\ IsFiniteSet(Requests) /\ Sessions \subseteq Requests
    /\ Options \subseteq OptionSet
    /\ PromptLens \subseteq Nat \ {0} /\ SuffixLens \subseteq Nat \ {0}
    /\ {MaxNew, MaxTokens, Keep, Chunk, PaddedSteps, MaxRows} \subseteq Nat \ {0}

VARIABLES
    opts,       \* the options of this engine
    status,     \* Request.status, as far as the engine tells it apart
    prompt,     \* Request.num_prompt_tokens
    computed,   \* Request.num_computed_tokens
    cache,      \* _caches: tokens held and how many of them are routed
    exact,      \* _persistent_exact_decode_groups
    padded,     \* _persistent_padded_decode_groups
    pc,         \* where step() is
    scheduled,  \* SchedulerOutput.num_scheduled_tokens
    todo,       \* the planned batches that still have to be decoded
    stopped,    \* the requests of this step that sampled a stop token
    read        \* what each row of the last forward attended to

requestVars == <<status, prompt, computed>>
cacheVars == <<cache, exact, padded>>
stepVars == <<pc, scheduled, todo, stopped>>
vars == <<opts, requestVars, cacheVars, stepVars, read>>

None == [held |-> 0, routed |-> 0]      \* no cache, or one whose rows are elsewhere
Nothing == [r \in {} |-> 0]             \* an empty dict

-----------------------------------------------------------------------------
(***************************************************************************)
(* Requests and caches.                                                    *)
(***************************************************************************)

Outputs(r) == IF computed[r] < prompt[r] THEN 0 ELSE computed[r] + 1 - prompt[r]

Decoding == {r \in Requests : status[r] = "running" /\ computed[r] >= prompt[r]}
Filling == {r \in Requests : status[r] = "running" /\ computed[r] < prompt[r]}

\* The token sampled for r in this step is its last by length.
LastByLength(r) == Outputs(r) + 1 >= MaxNew

Pending(c) == IF c.held > Keep + c.routed THEN c.held - Keep - c.routed ELSE 0

\* A cache of one row after n more tokens.  While the tail holds a chunk or
\* more, some of its first tokens are routed, how many depends on them.
Extended(c, n) ==
    LET longer == [c EXCEPT !.held = @ + n]
    IN  IF Pending(longer) < Chunk THEN {longer}
        ELSE {folded \in {[longer EXCEPT !.routed = q] :
                            q \in c.routed + 1 .. longer.held - Keep} :
                Pending(folded) < Chunk}

\* What the caches of the requests in n may be after n[r] more tokens for each.
AllExtended(n) ==
    {[r \in Requests |-> IF r \in DOMAIN n THEN d[r] ELSE cache[r]] :
        d \in {d \in [DOMAIN n -> UNION {Extended(cache[r], n[r]) : r \in DOMAIN n}] :
                \A r \in DOMAIN n : d[r] \in Extended(cache[r], n[r])}}

-----------------------------------------------------------------------------
(***************************************************************************)
(* Groups.  A key is the sequence of the requests of a batch.              *)
(***************************************************************************)

Keys == UNION {{k \in [1 .. n -> Requests] : IsInjective(k)} : n \in 1 .. Cardinality(Requests)}

Members(g) == Range(g.key)
Touching(groups, S) == {g \in groups : Members(g) \cap S # {}}

\* Mutant: a padded group that is flushed is only dropped.
FlushedWithoutCommit(E, P) ==
    [r \in Requests |->
        IF \E g \in E : r \in Members(g)
        THEN (CHOOSE g \in E : r \in Members(g)).rows ELSE cache[r]]

\* Caches after a flush: split_exact_decode_into for the exact groups of E,
\* commit_padded_decode_into for the padded ones of P.
Flushed(E, P) ==
    [r \in Requests |->
        CASE \E g \in E : r \in Members(g) ->
                (CHOOSE g \in E : r \in Members(g)).rows
          [] \E g \in P : r \in Members(g) ->
                [cache[r] EXCEPT !.held = @ + (CHOOSE g \in P : r \in Members(g)).added]
          [] OTHER -> cache[r]]

Flush(E, P) ==
    /\ cache' = Flushed(E, P)
    /\ exact' = exact \ E
    /\ padded' = padded \ P

\* Mutant: only the exact groups are flushed.
FlushTouchingExactOnly(S) == Flush(Touching(exact, S), {})

\* _flush_exact_decode_groups_touching and its padded twin.
FlushTouching(S) == Flush(Touching(exact, S), Touching(padded, S))

\* The requests of D leave: their groups are flushed before their caches go.
FlushAndDrop(D) ==
    /\ LET c == Flushed(Touching(exact, D), Touching(padded, D))
       IN  cache' = [r \in Requests |-> IF r \in D THEN None ELSE c[r]]
    /\ exact' = exact \ Touching(exact, D)
    /\ padded' = padded \ Touching(padded, D)

End(D) ==
    /\ status' = [r \in Requests |-> IF r \in D THEN "ended" ELSE status[r]]
    /\ computed' = [r \in Requests |-> IF r \in D THEN 0 ELSE computed[r]]
    /\ UNCHANGED prompt

-----------------------------------------------------------------------------
(***************************************************************************)
(* Clients' operations, between steps.                                     *)
(***************************************************************************)

\* add_request, add_session_request, and the admission.
AddRequest(r, len) ==
    /\ pc = "idle" /\ status[r] = "new"
    /\ status' = [status EXCEPT ![r] = "running"]
    /\ prompt' = [prompt EXCEPT ![r] = len]
    /\ read' = Nothing
    /\ UNCHANGED <<opts, computed, cacheVars, stepVars>>

\* continue_session_requests: the output becomes part of the prompt.
ContinueSessions(S, len) ==
    /\ pc = "idle" /\ S # {}
    /\ \A r \in S : /\ status[r] = "parked"
                    /\ computed[r] + 1 + len + MaxNew <= MaxTokens
    /\ FlushTouching(S)
    /\ status' = [r \in Requests |-> IF r \in S THEN "running" ELSE status[r]]
    /\ prompt' = [r \in Requests |-> IF r \in S THEN computed[r] + 1 + len ELSE prompt[r]]
    /\ read' = Nothing
    /\ UNCHANGED <<opts, computed, stepVars>>

\* abort_request, and close_sessions for a parked session.
Leave(r) ==
    /\ pc = "idle" /\ status[r] \in {"running", "parked"}
    /\ FlushAndDrop({r})
    /\ End({r})
    /\ read' = Nothing
    /\ UNCHANGED <<opts, stepVars>>

\* fail_unfinished: everything goes, the groups unflushed.
FailUnfinished ==
    /\ pc = "idle" /\ \E r \in Requests : status[r] \in {"running", "parked"}
    /\ cache' = [r \in Requests |-> None]
    /\ exact' = {} /\ padded' = {}
    /\ End({r \in Requests : status[r] # "new"})
    /\ read' = Nothing
    /\ UNCHANGED <<opts, stepVars>>

-----------------------------------------------------------------------------
(***************************************************************************)
(* step(): what the scheduler chose is decoded, then prefilled.            *)
(***************************************************************************)

\* Any running requests may be in a step, with any part of their prompts.
Schedule(D, n) ==
    /\ D \cup DOMAIN n # {}
    /\ scheduled' = [r \in D \cup DOMAIN n |-> IF r \in D THEN 1 ELSE n[r]]
    /\ pc' = "execute"
    /\ read' = Nothing
    /\ UNCHANGED <<opts, requestVars, cacheVars, todo, stopped>>

ToDecode == DOMAIN scheduled \cap Decoding
ToFill == DOMAIN scheduled \cap Filling

\* The start of _execute_mixed_batch: no group may survive for its rows.
PrepareMixed ==
    /\ pc = "execute" /\ opts.mixed /\ ToDecode # {} /\ ToFill # {}
    /\ FlushTouching(DOMAIN scheduled)
    /\ pc' = "mixed"
    /\ read' = Nothing
    /\ UNCHANGED <<opts, requestVars, scheduled, todo, stopped>>

\* Own caches of the requests in n are read and extended.
ForwardOwn(n) ==
    /\ cache' \in AllExtended(n)
    /\ read' = [r \in DOMAIN n |-> cache[r].held]

\* Which tokens are stop tokens is up to the model.  Only rows whose gap
\* closes sample.
Closing == {r \in DOMAIN scheduled : computed[r] + scheduled[r] >= prompt[r]}
SampleStops(S) == \E T \in SUBSET (S \cap Closing) : stopped' = stopped \cup T

\* mixed_batch_step: one call for all rows of the step.
RunMixed ==
    /\ pc = "mixed"
    /\ ForwardOwn(scheduled)
    /\ SampleStops(DOMAIN scheduled)
    /\ pc' = "finish"
    /\ UNCHANGED <<opts, requestVars, exact, padded, scheduled, todo>>

\* The batches of D: D in some order, cut where the row or byte cap says.
PlansOf == [D \in SUBSET Requests |->
    {p \in BoundedSeq(Keys, Cardinality(D)) :
        /\ \A i \in DOMAIN p : Len(p[i]) <= MaxRows
        /\ \A i, j \in DOMAIN p : i # j => Range(p[i]) \cap Range(p[j]) = {}
        /\ UNION {Range(p[i]) : i \in DOMAIN p} = D}]

MayHaveGroup(key) == Len(key) > 1 \/ (opts.single /\ opts.padded)

\* The start of _execute_decode_batch (a mixed call may have declined): groups
\* whose key is not planned are flushed.
PlanBatches(plan) ==
    /\ todo' = plan
    /\ LET allowed == {k \in Range(plan) : MayHaveGroup(k)}
       IN  IF plan = << >> THEN UNCHANGED cacheVars
           ELSE Flush({g \in exact : g.key \notin allowed},
                      {g \in padded : g.key \notin allowed})
    /\ pc' = "decode"
    /\ read' = Nothing
    /\ UNCHANGED <<opts, requestVars, scheduled, stopped>>

-----------------------------------------------------------------------------
(***************************************************************************)
(* _execute_decode_model_batch: the next planned batch.                    *)
(***************************************************************************)

Batch == Head(todo)
Rows == Range(Batch)
InDecode == pc = "decode" /\ todo # << >>
HasGroup(groups) == \E g \in groups : g.key = Batch

\* A forward for the batch in which the rows of T sample stop tokens.
Decoded(T) ==
    /\ todo' = Tail(todo)
    /\ stopped' = stopped \cup T
    /\ UNCHANGED <<opts, requestVars, pc, scheduled>>

\* A row that will finish makes its group give the rows back.
RowFinishes(T) == T # {} \/ \E r \in Rows : LastByLength(r)

\* Keep the group for the next step, or flush it.
KeepExact(g, T) ==
    IF RowFinishes(T)
    THEN /\ cache' = [r \in Requests |-> IF r \in Rows THEN g.rows ELSE cache[r]]
         /\ exact' = {h \in exact : h.key # g.key}
    ELSE /\ cache' = [r \in Requests |-> IF r \in Rows THEN None ELSE cache[r]]
         /\ exact' = {h \in exact : h.key # g.key} \cup {g}

KeepPadded(g, T) ==
    IF RowFinishes(T) \/ g.room < 1
    THEN /\ cache' = [r \in Requests |->
                        IF r \in Rows THEN [cache[r] EXCEPT !.held = @ + g.added] ELSE cache[r]]
         /\ padded' = {h \in padded : h.key # g.key}
    ELSE /\ cache' = cache
         /\ padded' = {h \in padded : h.key # g.key} \cup {g}

\* The rows can be stacked as they are.  Rows with equal counts may still
\* differ in their routed spans.
SameLayout == \A r, s \in Rows : cache[r] = cache[s]
FitsExact == SameLayout /\ \A r \in Rows : Pending(cache[r]) + 1 < Chunk
SurelyFitsExact == FitsExact /\ \A r \in Rows : cache[r].routed = 0

\* _check_routed_span_layer_exact compares the layouts and looks at the tail
\* before the rows are taken over.
StartExact ==
    /\ InDecode /\ ~HasGroup(padded) /\ ~HasGroup(exact)
    /\ opts.exact /\ Len(Batch) > 1 /\ FitsExact
    /\ read' = [r \in Rows |-> cache[r].held]
    /\ \E T \in SUBSET Rows :
        /\ KeepExact([key |-> Batch, rows |-> [cache[Batch[1]] EXCEPT !.held = @ + 1]], T)
        /\ Decoded(T)
    /\ UNCHANGED padded

\* The merged cache is used again, whatever its tail has become.
ReuseExact ==
    /\ InDecode
    /\ \E g \in exact :
        /\ g.key = Batch /\ Pending(g.rows) + 1 < Chunk
        /\ read' = [r \in Rows |-> g.rows.held]
        /\ \E T \in SUBSET Rows :
            /\ KeepExact([g EXCEPT !.rows.held = @ + 1], T)
            /\ Decoded(T)
    /\ UNCHANGED padded

RouteMargin == Chunk - Max({Pending(cache[r]) : r \in Rows}) - 1

\* Mutant: the tail of the caches is not looked at.
ReserveStepsWithoutMargin ==
    Max({0, Min({PaddedSteps} \cup {MaxNew - Outputs(r) : r \in Rows})})

\* _persistent_padded_reserve_steps: the forwards a new group is good for.
ReserveSteps ==
    Max({0, Min({PaddedSteps, RouteMargin} \cup {MaxNew - Outputs(r) : r \in Rows})})

\* The exact merge was not tried, or raised DistinctCacheBatchError.
NoExact == ~(opts.exact /\ Len(Batch) > 1 /\ SurelyFitsExact) /\ ~HasGroup(exact)

StartPadded ==
    /\ InDecode /\ ~HasGroup(padded) /\ NoExact
    /\ opts.padded /\ MayHaveGroup(Batch) /\ ReserveSteps >= 1
    /\ read' = [r \in Rows |-> cache[r].held]
    /\ \E T \in SUBSET Rows :
        /\ KeepPadded([key |-> Batch, base |-> read', added |-> 1,
                       room |-> ReserveSteps - 1], T)
        /\ Decoded(T)
    /\ UNCHANGED exact

\* A group without room would be flushed and started again here, but a group
\* that runs out of room is flushed at once.
ReusePadded ==
    /\ InDecode
    /\ \E g \in padded :
        /\ g.key = Batch /\ g.room >= 1
        /\ read' = [r \in Rows |-> g.base[r] + g.added]
        /\ \E T \in SUBSET Rows :
            /\ KeepPadded([g EXCEPT !.added = @ + 1, !.room = @ - 1], T)
            /\ Decoded(T)
    /\ UNCHANGED exact

NoGroup ==
    /\ ~HasGroup(padded) /\ NoExact
    /\ ~(opts.padded /\ MayHaveGroup(Batch) /\ ReserveSteps >= 1)

\* decode_batch: merged for one forward and written back at once.
DecodeOnce ==
    /\ InDecode /\ NoGroup /\ Len(Batch) > 1
    /\ \A r \in Rows : Pending(cache[r]) + 1 < Chunk
    /\ ForwardOwn([r \in Rows |-> 1])
    /\ \E T \in SUBSET Rows : Decoded(T)
    /\ UNCHANGED <<exact, padded>>

\* decode_step, row by row: the only decode that can fold a tail.
DecodeRows ==
    /\ InDecode /\ NoGroup
    /\ Len(Batch) = 1 \/ \E r \in Rows : Pending(cache[r]) + 1 >= Chunk
    /\ ForwardOwn([r \in Rows |-> 1])
    /\ \E T \in SUBSET Rows : Decoded(T)
    /\ UNCHANGED <<exact, padded>>

\* _execute_prefill_work, after the last batch.
Prefill ==
    /\ pc = "decode" /\ todo = << >> /\ ToFill # {}
    /\ ForwardOwn([r \in ToFill |-> scheduled[r]])
    /\ SampleStops(ToFill)
    /\ pc' = "finish"
    /\ UNCHANGED <<opts, requestVars, exact, padded, scheduled, todo>>

StepOver ==
    /\ pc' = "idle"
    /\ scheduled' = Nothing
    /\ todo' = << >>
    /\ stopped' = {}
    /\ read' = Nothing
    /\ UNCHANGED opts

\* update_from_output and the rest of step().  Sessions park, the others go.
Finish ==
    /\ pc = "finish" \/ (pc = "decode" /\ todo = << >> /\ ToFill = {})
    /\ LET completed == {r \in Closing : r \in stopped \/ LastByLength(r)}
           parked == completed \cap Sessions
           gone == completed \ Sessions
           c == Flushed(Touching(exact, completed), Touching(padded, completed))
       IN  /\ cache' = [r \in Requests |-> IF r \in gone THEN None ELSE c[r]]
           /\ exact' = exact \ Touching(exact, completed)
           /\ padded' = padded \ Touching(padded, completed)
           /\ status' = [r \in Requests |-> CASE r \in gone -> "ended"
                                              [] r \in parked -> "parked"
                                              [] OTHER -> status[r]]
           /\ computed' = [r \in Requests |->
                             CASE r \in gone -> 0
                               [] r \in DOMAIN scheduled \ gone -> computed[r] + scheduled[r]
                               [] OTHER -> computed[r]]
    /\ UNCHANGED prompt
    /\ StepOver

\* Mutant: the groups stay.
FailScheduledKeepsGroups ==
    LET S == DOMAIN scheduled
    IN  /\ cache' = [r \in Requests |-> IF r \in S THEN None ELSE cache[r]]
        /\ UNCHANGED <<exact, padded>>
        /\ End(S)
        /\ StepOver

\* _fail_scheduled: everything in the step goes, and every group it touches
\* is dropped without being written back.
FailScheduled ==
    LET S == DOMAIN scheduled
    IN  /\ cache' = [r \in Requests |-> IF r \in S THEN None ELSE cache[r]]
        /\ exact' = exact \ Touching(exact, S)
        /\ padded' = padded \ Touching(padded, S)
        /\ End(S)
        /\ StepOver

\* A forward raises, at any place of the step.
ForwardRaises ==
    /\ pc = "mixed" \/ InDecode \/ (pc = "decode" /\ ToFill # {})
    /\ FailScheduled

\* _update_state of a cache of several rows raises instead of folding
\* (NotImplementedError, which nobody takes for a reason to try it otherwise).
TailFull(g) == Pending(g.rows) + 1 >= Chunk

RouteInGroup ==
    /\ InDecode
    /\ \E g \in exact : g.key = Batch /\ TailFull(g)
    /\ FailScheduled

-----------------------------------------------------------------------------
Init ==
    /\ opts \in Options
    /\ status = [r \in Requests |-> "new"]
    /\ prompt = [r \in Requests |-> 0]
    /\ computed = [r \in Requests |-> 0]
    /\ cache = [r \in Requests |-> None]
    /\ exact = {} /\ padded = {}
    /\ pc = "idle" /\ scheduled = Nothing /\ todo = << >> /\ stopped = {}
    /\ read = Nothing

ClientOperation ==
    \/ \E r \in Requests, len \in PromptLens : AddRequest(r, len)
    \/ \E S \in SUBSET Sessions, len \in SuffixLens : ContinueSessions(S, len)
    \/ \E r \in Requests : Leave(r)
    \/ FailUnfinished

\* Prompts are prefilled whole or one token at a time.
PrefillChunks(P) ==
    {n \in [P -> Nat \cap UNION {1 .. prompt[r] - computed[r] : r \in P}] :
        \A r \in P : n[r] \in {1, prompt[r] - computed[r]}}

DecodeStep ==
    \/ StartExact \/ ReuseExact \/ RouteInGroup
    \/ StartPadded \/ ReusePadded
    \/ DecodeOnce \/ DecodeRows

Next ==
    \/ ClientOperation
    \/ /\ pc = "idle"
       /\ \E D \in SUBSET Decoding, P \in SUBSET Filling :
            \E n \in PrefillChunks(P) : Schedule(D, n)
    \/ PrepareMixed \/ RunMixed
    \/ /\ pc \in {"execute", "mixed"}
       /\ \E plan \in PlansOf[ToDecode] : PlanBatches(plan)
    \/ DecodeStep
    \/ Prefill
    \/ Finish
    \/ ForwardRaises

Spec == Init /\ [][Next]_vars

-----------------------------------------------------------------------------
(***************************************************************************)
(* Properties.                                                             *)
(***************************************************************************)

Count == 0 .. MaxTokens
CacheState == [held : Count, routed : Count]

\* Types; a group is a key with the rows or the tokens it has in its hands.
TypeOK ==
    /\ opts \in Options
    /\ status \in [Requests -> {"new", "running", "parked", "ended"}]
    /\ prompt \in [Requests -> Count] /\ computed \in [Requests -> Count]
    /\ cache \in [Requests -> CacheState]
    /\ \A g \in exact : g.key \in Keys /\ g.rows \in CacheState
    /\ \A g \in padded : /\ g.key \in Keys /\ g.base \in [Members(g) -> Count]
                         /\ g.added \in 1 .. PaddedSteps /\ g.room \in 1 .. PaddedSteps
    /\ pc \in {"idle", "execute", "mixed", "decode", "finish"}
    /\ DOMAIN scheduled \subseteq Requests /\ Range(scheduled) \subseteq Count
    /\ todo \in Seq(Keys) /\ stopped \subseteq DOMAIN scheduled
    /\ DOMAIN read \subseteq Requests

\* A request's history, wherever it is: in its own cache, in an exact group,
\* or partly in a padded group.
Held(r) ==
    IF \E g \in exact : r \in Members(g)
    THEN (CHOOSE g \in exact : r \in Members(g)).rows.held
    ELSE IF \E g \in padded : r \in Members(g)
    THEN cache[r].held + (CHOOSE g \in padded : r \in Members(g)).added
    ELSE cache[r].held

\* A forward reads, for each of its rows, every token that was computed for
\* the request: no merged cache is used that its rows have left behind, and no
\* cache whose rows a group has.  (gemma_engine.py:1425: "Persistent decode
\* groups hold merged cache objects and must not be reused after a mixed call
\* mutates their source rows.")
ReadsWholeHistory == \A r \in DOMAIN read : read[r] = computed[r]

\* No request is in two groups, and a group has only requests that decode and
\* still have the cache it will be flushed into (_flush_*_decode_group drops
\* the group silently if one cache is gone).
GroupsAreApart ==
    /\ \A g, h \in exact \cup padded : g # h => Members(g) \cap Members(h) = {}
    /\ \A g \in exact \cup padded : Members(g) \subseteq Decoding

\* A padded group can be flushed at any time without a tail that fills a
\* chunk, now or after the forwards it has room for: the fold that a cache of
\* several rows cannot do is never left to a group.
PaddedGroupsNeverFold ==
    \A g \in padded : \A r \in Members(g) :
        Pending([cache[r] EXCEPT !.held = @ + g.added + g.room]) < Chunk

\* A group survives from step to step "until finish"
\* (tests/test_gemma_engine.py:5352), so that its next forward cannot raise.
ReusedGroupsCanStep ==
    InDecode => \A g \in exact : g.key = Batch => ~TailFull(g)

\* The groups implement a plain history per request: merging, keeping and
\* flushing groups is invisible, and only a step that ends a request loses
\* what was computed for it.
History == INSTANCE RequestHistory WITH held <- [r \in Requests |-> Held(r)],
                                        credited <- computed

IsRequestHistory == History!HistorySpec

=============================================================================
