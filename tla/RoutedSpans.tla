---------------------------- MODULE RoutedSpans ----------------------------
(***************************************************************************)
(* The routed-span state of one request, as runner/gemma_runner.py keeps   *)
(* it: the full-attention layers of a NativeGemmaRoutedCache.  A token     *)
(* goes to the sink while it has room, else to the ring, and from the ring *)
(* to the pending tail, which is folded into the slots of the bank span by *)
(* span.  The first layer decides the folds and publishes the decisions;   *)
(* the others follow.  A decode of several rows works on a padded copy and *)
(* commits the tokens into the layers afterwards.                          *)
(*                                                                         *)
(* A key/value pair is the position of its token.  Which slot a span goes  *)
(* to and which spans a slot keeps depends on the values: here, on nothing.*)
(***************************************************************************)
EXTENDS PaddedLayers

CONSTANTS
    NumLayers,      \* full-attention layers; layer 1 is the leader
    SinkTokens,     \* GemmaRoutedSpanConfig.sink_tokens
    RingTokens,     \* .ring_tokens
    RoutedSlots,    \* .routed_slots
    SpanBudget,     \* .span_budget_tokens
    MaxSpan,        \* .max_span_tokens
    Stride,         \* the 24 of _split_spans
    Packets,        \* BOOLEAN: the runner has a routed packet workspace
    MaxTokens,      \* bound: tokens of the request
    PromptLens,     \* bound: tokens of its prompt
    SuffixLens,     \* bound: tokens a continuation adds
    ChunkLens,      \* bound: tokens of a prefill
    Reserves,       \* bound: steps a padded decode reserves
    Longer,         \* bound: by how much another row of the group is longer
    BreakSets       \* the sets of positions that may end a sentence

ASSUME RoutedAssumption ==
    /\ \A n \in {NumLayers, RingTokens, RoutedSlots, SpanBudget, MaxSpan, Stride} :
         n \in Nat \ {0}
    /\ SinkTokens \in Nat /\ MaxTokens \in Nat /\ Packets \in BOOLEAN /\ Longer \subseteq Nat
    /\ PromptLens \cup SuffixLens \cup ChunkLens \cup Reserves \subseteq Nat \ {0}
    /\ BreakSets \subseteq SUBSET Nat

VARIABLES
    layer,      \* the state of each layer
    leader,     \* what only the leader has: _n_active, _slot_route_feats
    ops,        \* _RouteDecisionCoordinator: decisions not yet followed by all
    forward,    \* the forward or the commit in progress, layer by layer
    group,      \* the padded decode the request is a row of
    prompt,     \* tokens of the prompt that were not fed yet
    masked,     \* length of the break mask; 0: there is none
    breaks      \* the positions that end a sentence

vars == <<layer, leader, ops, forward, group, prompt, masked, breaks>>

Layers == 1 .. NumLayers
Slots  == 1 .. RoutedSlots

NoLayer ==
    [cumulative |-> 0, sink |-> << >>, ring |-> << >>, pend |-> << >>,
     spans      |-> [s \in Slots |-> << >>],    \* _slot_spans: [kv, pos]
     means      |-> [s \in Slots |-> {}],       \* the tokens in _slot_mk, _slot_cnt
     spanTokens |-> [s \in Slots |-> 0],        \* _slot_span_tokens
     bankTokens |-> 0, activeSlots |-> 0,       \* _bank_span_tokens, _active_span_slots
     evicted |-> 0, cursor |-> 0,
     dense |-> << >>, released |-> FALSE]       \* keys and values

Idle    == [phase |-> "idle", at |-> 0, kind |-> "none", tokens |-> << >>,
            prepared |-> << >>, taken |-> 0]
NoGroup == [kind |-> "none", layers |-> << >>, tokens |-> << >>, folds |-> 0]

Init ==
    /\ layer = [l \in Layers |-> NoLayer]
    /\ leader = [active |-> 0, feats |-> [s \in Slots |-> 0]]
    /\ ops = << >> /\ forward = Idle /\ group = NoGroup
    /\ prompt \in PromptLens
    /\ masked \in {0, prompt}
    /\ breaks \in IF masked = 0 THEN {{}} ELSE BreakSets

-----------------------------------------------------------------------------
(***************************************************************************)
(* One layer.                                                              *)
(***************************************************************************)

Positions(a, b) == [i \in 1 .. b - a |-> a + i - 1]
Token(p)        == <<0, {p}>>
Tokens(kv)      == [i \in 1 .. Len(kv) |-> Token(kv[i])]
KV(spans)       == FlattenSeq([i \in DOMAIN spans |-> spans[i].kv])

\* _append_state_tokens.
Appended(y, toks) ==
    LET rk   == y.ring \o toks
        take == Min({Max({SinkTokens - Len(y.sink), 0}), Len(rk)})
        cut  == Max({Len(rk) - take - RingTokens, 0})
    IN  [y EXCEPT !.cumulative = @ + Len(toks),
                  !.sink = @ \o SubSeq(rk, 1, take),
                  !.pend = @ \o SubSeq(rk, take + 1, take + cut),
                  !.ring = SubSeq(rk, take + cut + 1, Len(rk))]

\* What _materialize builds.
SlotReadout(y, s) ==
    IF y.spans[s] = << >> THEN << >>
    ELSE << <<s, y.means[s]>> >> \o Tokens(KV(y.spans[s]))
Readout(y) ==
    Tokens(y.sink) \o FlattenSeq([s \in Slots |-> SlotReadout(y, s)])
        \o Tokens(y.pend) \o Tokens(y.ring)

Materialized(y) == [y EXCEPT !.dense = Readout(y), !.released = FALSE]

\* _materialized_width: from the counters.
Width(y) == Len(y.sink) + y.activeSlots + y.bankTokens + Len(y.pend) + Len(y.ring)

\* commit_decode_tokens: only if no fold is due, and the dense readout is whole.
CanCommit(y, toks) ==
    /\ y.cumulative > 0
    /\ y.released \/ Len(y.dense) = Width(y)
    /\ Len(Appended(y, toks).pend) < RouteChunk
Committed(y, toks) ==
    [Appended(y, toks) EXCEPT !.dense = IF y.released THEN @ ELSE @ \o Tokens(toks)]

\* release_dense_materialized_storage.
CanRelease(y, reserve) ==
    /\ y.cumulative > 0 /\ ~y.released
    /\ Len(y.pend) + reserve < RouteChunk
    /\ Len(y.dense) = Width(y)
Released(y) == [y EXCEPT !.dense = << >>, !.released = TRUE]

-----------------------------------------------------------------------------
(***************************************************************************)
(* A fold: the spans of a cut, the slots they go to, what the slots keep.  *)
(***************************************************************************)

\* _split_spans: the ends of sentences in the cut, and where its spans stop: at
\* each of them, and at every size tokens of a sentence.
EndsIn(start, n) ==
    {i \in 1 .. n : IF start + i - 1 < masked THEN start + i - 1 \in breaks
                                              ELSE i % Stride = 0}
SplitSpans(start, n) ==
    LET ends   == EndsIn(start, n)
        routed == IF ends = {} THEN n ELSE Max(ends)
        size   == IF ends = {} THEN Min({Stride, MaxSpan}) ELSE MaxSpan
        begun(i) == Max({0} \cup {e \in ends : e < i})
        stops  == {i \in 1 .. routed : i \in ends \cup {routed} \/ (i - begun(i)) % size = 0}
        bounds == Ascending({0} \cup stops)
    IN  [spans |-> [j \in 1 .. Cardinality(stops) |-> <<bounds[j], bounds[j + 1]>>],
         routed |-> routed]

\* _seed_centroids, _assign_spans: a span goes to a slot in use or to the next.
Seeded(n) == IF leader.active = 0 THEN Min({RoutedSlots, n}) ELSE leader.active
Assignments(n, active) ==
    {f \in [1 .. n -> Slots] :
        \A j \in 1 .. n : f[j] <= 1 + Max({active} \cup {f[i] : i \in 1 .. j - 1})}

\* The spans of the cut at start that go to a slot.
SpansFor(split, assign, cut, start, s) ==
    LET mine == Ascending({j \in DOMAIN assign : assign[j] = s})
    IN  [i \in DOMAIN mine |->
            LET a == split.spans[mine[i]][1]  b == split.spans[mine[i]][2]
            IN  [kv |-> SubSeq(cut, a + 1, b), pos |-> Positions(start + a, start + b)]]

Pick(seq, kept) == LET ix == Ascending(kept) IN [i \in DOMAIN ix |-> seq[ix[i]]]

\* Mutant: the budget is looked at before a span is taken, not after.
KeepPastBudget(candidates) ==
    {kept \in SUBSET (DOMAIN candidates) \ {{}} :
        \E last \in kept : Len(KV(Pick(candidates, kept \ {last}))) < SpanBudget}

\* _span_keeps: one candidate of the slot, and more of them while the budget lasts.
KeepSets(candidates) ==
    {kept \in SUBSET (DOMAIN candidates) \ {{}} :
        \/ Cardinality(kept) = 1
        \/ Len(KV(Pick(candidates, kept))) <= SpanBudget}

TotalOf(count) ==
    LET upto[s \in 0 .. RoutedSlots] == IF s = 0 THEN 0 ELSE upto[s - 1] + count[s]
    IN  upto[RoutedSlots]

\* _commit_route_fold.
Folded(y, op, cut) ==
    LET start == SinkTokens + y.evicted
        new   == [s \in Slots |-> SpansFor(op, op.assign, cut, start, s)]
        kept  == [s \in Slots |-> IF s \in DOMAIN op.keeps
                                  THEN Pick(y.spans[s] \o new[s], op.keeps[s])
                                  ELSE y.spans[s]]
        count == [s \in Slots |-> Len(KV(kept[s]))]
    IN  [y EXCEPT
            !.evicted = @ + op.routed,
            !.cursor = @ + 1,
            !.spans = kept,
            !.means = [s \in Slots |-> @[s] \cup ToSet(KV(new[s]))],
            !.spanTokens = count,
            !.bankTokens = @ + TotalOf(count) - TotalOf(y.spanTokens),
            !.activeSlots = @ + Cardinality({s \in Slots : kept[s] # << >>})
                              - Cardinality({s \in Slots : y.spans[s] # << >>})]

-----------------------------------------------------------------------------
(***************************************************************************)
(* A forward takes the layers one after the other.                         *)
(***************************************************************************)

Length  == layer[1].cumulative
Resting == forward = Idle /\ group = NoGroup
At      == forward.at
Here    == layer[At]

Begin(toks, kind) ==
    forward' = [Idle EXCEPT !.phase = "enter", !.at = 1, !.tokens = toks, !.kind = kind]

Leave(y) ==
    /\ layer' = [layer EXCEPT ![At] = y]
    /\ forward' = IF At = NumLayers THEN Idle
                  ELSE [forward EXCEPT !.phase = "enter", !.at = At + 1,
                                       !.prepared = << >>, !.taken = 0]

\* prefill_chunk_step, prefill_batch_step.
Prefill(n) ==
    /\ Resting /\ n <= prompt
    /\ Begin(Positions(Length, Length + n), "prefill")
    /\ prompt' = prompt - n
    /\ UNCHANGED <<layer, leader, ops, group, masked, breaks>>

CanDecode(n) == Resting /\ prompt = 0 /\ Length > 0 /\ Length + n <= MaxTokens

\* _check_routed_span_layer_exact: rows of one layout, whose tail stays short.
FitsExact(y) == ~y.released /\ Len(y.pend) + 1 < RouteChunk

\* decode_step; a row of a cache merged from equal rows, and split again; a
\* decode served by the token pool, whose token is committed into the layers.
Decode(kind) ==
    /\ CanDecode(1)
    /\ kind = "exact" => \A l \in Layers : FitsExact(layer[l])
    /\ Begin(<<Length>>, kind)
    /\ UNCHANGED <<layer, leader, ops, group, prompt, masked, breaks>>

\* The readout an update starts from: a merge of equal rows makes it anew.
Whole(y, kind) == IF y.released \/ kind = "exact" THEN Materialized(y) ELSE y

\* The boundary check of _merge_routed_span_layer_padded.
StaysInChunk(y, k) == Len(y.pend) + k <= RouteChunk

\* The boundary check; a row with a longer pending tail only makes k smaller.
MayReserve(k) == CanDecode(k) /\ \A l \in Layers : StaysInChunk(layer[l], k)

\* _validate_shared_attention_masks: one mask serves all layers.
OneMask(whole) == \A l \in Layers : Len(whole[l].dense) = Len(whole[1].dense)

\* _merge_routed_span_layer_padded, persistent.
PaddedCopy(y, longer, k) == Stacked(y.dense, Len(y.dense) + longer, k, Len(y.pend))

\* merge_padded_decode, persistent: the rows give their readouts away.  The
\* layers are static if a graph is wanted, and a capture is tried at once.
JoinPersistent(k, longer, static) ==
    /\ MayReserve(k)
    /\ LET whole == [l \in Layers |-> Whole(layer[l], "padded")]
           stack == [l \in Layers |-> PaddedCopy(whole[l], longer, k)]
           padded == IF static THEN AttachMasks(stack) ELSE stack
       IN  /\ OneMask(whole)
           /\ \E n \in IF static THEN CaptureRuns(padded[1]) ELSE {0} :
                group' = [NoGroup EXCEPT !.kind = "persistent",
                              !.layers = [l \in Layers |-> AfterCapture(padded[l], n)]]
           /\ layer' = [l \in Layers |-> Released(whole[l])]
    /\ UNCHANGED <<leader, ops, forward, prompt, masked, breaks>>

\* merge_padded_decode for one decode, into the buffers of the workspace.
JoinTransient(longer) ==
    /\ MayReserve(1)
    /\ LET whole == [l \in Layers |-> Whole(layer[l], "padded")]
       IN  /\ OneMask(whole)
           /\ \E width \in WorkspaceWidths(Len(whole[1].dense) + longer + 1) :
                group' = [NoGroup EXCEPT !.kind = "transient",
                              !.layers = [l \in Layers |->
                                  StackedOnce(whole[l].dense, width, Len(whole[l].pend))]]
           /\ layer' = whole
    /\ UNCHANGED <<leader, ops, forward, prompt, masked, breaks>>

\* A decode of the group: each layer gets its token.
GroupStep ==
    /\ group.kind \in {"persistent", "transient"}
    /\ \A l \in Layers : HasRoom(group.layers[l])
    /\ LET next == Length + Len(group.tokens)
       IN  group' = [group EXCEPT !.tokens = Append(@, next),
                                  !.layers = [l \in Layers |-> Updated(@[l], Token(next))]]
    /\ UNCHANGED <<layer, leader, ops, forward, prompt, masked, breaks>>

\* commit_padded_decode_into.
GroupCommit ==
    /\ group.kind \in {"persistent", "transient"}
    /\ LET new == NewTokens(group.layers[1])
       IN  IF new = << >> THEN UNCHANGED forward
                          ELSE Begin([i \in DOMAIN new |-> Max(new[i][2])], "commit")
    /\ group' = NoGroup
    /\ UNCHANGED <<layer, leader, ops, prompt, masked, breaks>>

\* merge_padded_decode, where the token pool covers the layers: the rows keep
\* their readouts, and each decode is committed into them.
JoinCovered(k) ==
    /\ MayReserve(k)
    /\ group' = [NoGroup EXCEPT !.kind = "covered", !.folds = layer[1].cursor,
                     !.layers = [l \in Layers |-> Placeholder(Len(layer[l].pend), k)]]
    /\ UNCHANGED <<layer, leader, ops, forward, prompt, masked, breaks>>

CoveredStep ==
    /\ forward = Idle /\ group.kind = "covered"
    /\ \A l \in Layers : PlaceholderHasRoom(group.layers[l])
    /\ group' = [group EXCEPT !.layers = [l \in Layers |-> DecodeRecorded(@[l])]]
    /\ Begin(<<Length>>, "commit")
    /\ UNCHANGED <<layer, leader, ops, prompt, masked, breaks>>

CoveredEnd ==
    /\ forward = Idle /\ group.kind = "covered"
    /\ group' = NoGroup
    /\ UNCHANGED <<layer, leader, ops, forward, prompt, masked, breaks>>

\* commit_into, where the layer takes the tokens as they are.
Commit ==
    /\ forward.phase = "enter" /\ forward.kind = "commit" /\ CanCommit(Here, forward.tokens)
    /\ Leave(Committed(Here, forward.tokens))
    /\ UNCHANGED <<leader, ops, group, prompt, masked, breaks>>

\* The chunk of the tail that is folded when n tokens ahead of it are gone.
CutAfter(y, n) ==
    LET split == SplitSpans(SinkTokens + y.evicted + n, RouteChunk)
    IN  [spans |-> split.spans, routed |-> split.routed,
         cut |-> SubSeq(y.pend, n + 1, n + RouteChunk)]

\* _prepare_pending_route_folds: what will be folded, before anything is.
PreparedFolds(y) ==
    LET more(p) == LET split == CutAfter(y, p.taken)
                   IN  [taken |-> p.taken + split.routed, cuts |-> Append(p.cuts, split)]
        upto[i \in 0 .. Len(y.pend)] ==
            IF i = 0 THEN [taken |-> 0, cuts |-> << >>]
            ELSE IF Len(y.pend) - upto[i - 1].taken < RouteChunk THEN upto[i - 1]
                 ELSE more(upto[i - 1])
    IN  upto[Len(y.pend)]

\* update: the readout is what it was and the new tokens.  The leaders of a
\* batch of equal rows put their folds into one packet.
Update(packet) ==
    /\ forward.phase = "enter"
    /\ forward.kind = "commit" => ~CanCommit(Here, forward.tokens)
    /\ packet => Packets /\ At = 1 /\ forward.kind = "prefill" /\ ~Here.released
    /\ LET y == Appended(Whole(Here, forward.kind), forward.tokens)
       IN  /\ layer' = [layer EXCEPT ![At] = y]
           /\ forward' = IF packet
                         THEN [forward EXCEPT !.phase = "packet",
                                              !.prepared = PreparedFolds(y).cuts,
                                              !.taken = PreparedFolds(y).taken]
                         ELSE [forward EXCEPT !.phase = "serial"]
    /\ UNCHANGED <<leader, ops, group, prompt, masked, breaks>>

\* _plan_prepared_route_decision.
Plan(op) ==
    leader' = [active |-> Max({Seeded(Len(op.spans))} \cup ToSet(op.assign)),
               feats |-> [s \in Slots |-> IF s \in DOMAIN op.keeps THEN Cardinality(op.keeps[s])
                                                                ELSE leader.feats[s]]]

\* What the leader may decide of a cut of the pending tail.
Decisions(y, split) ==
    UNION {LET candidates == [s \in ToSet(assign) |->
                  y.spans[s] \o SpansFor(split, assign, split.cut, SinkTokens + y.evicted, s)]
               sets == [s \in ToSet(assign) |-> KeepSets(candidates[s])]
           IN  {[spans |-> split.spans, routed |-> split.routed,
                 assign |-> assign, keeps |-> keeps] :
                   keeps \in {k \in [ToSet(assign) -> UNION Range(sets)] :
                                 \A s \in DOMAIN k : k[s] \in sets[s]}}
           : assign \in Assignments(Len(split.spans), Seeded(Len(split.spans)))}

\* Mutant: the leader counts itself among those who follow.
PublishForAll(op) ==
    /\ Here.cursor \notin DOMAIN ops
    /\ ops' = [i \in DOMAIN ops \cup {Here.cursor} |->
                  IF i = Here.cursor THEN [op |-> op, left |-> NumLayers] ELSE ops[i]]

\* _decide: the leader publishes; the last one to follow removes.
Publish(op) ==
    /\ Here.cursor \notin DOMAIN ops
    /\ ops' = IF NumLayers = 1 THEN ops
              ELSE [i \in DOMAIN ops \cup {Here.cursor} |->
                       IF i = Here.cursor THEN [op |-> op, left |-> NumLayers - 1] ELSE ops[i]]

Consume ==
    LET i == Here.cursor
    IN  /\ i \in DOMAIN ops
        /\ ops' = IF ops[i].left = 1
                  THEN [j \in DOMAIN ops \ {i} |-> ops[j]]
                  ELSE [ops EXCEPT ![i].left = @ - 1]

\* Mutant: a fold takes the whole chunk off the tail.
TrimmedWhole(y, n) == [y EXCEPT !.pend = SubSeq(@, RouteChunk + 1, Len(@))]

\* _drain_pending_routes: a fold takes what it routed off the tail.
Trimmed(y, n) == [y EXCEPT !.pend = SubSeq(@, n + 1, Len(@))]

\* _decide, _commit_route_fold of the leader; n tokens are taken off the tail.
Lead(split, n) ==
    \E op \in Decisions(Here, split) :
        /\ \A s \in DOMAIN op.keeps : leader.feats[s] = Len(Here.spans[s])
        /\ Plan(op)
        /\ Publish(op)
        /\ layer' = [layer EXCEPT ![At] = Trimmed(Folded(Here, op, split.cut), n)]

FoldAlone ==
    /\ forward.phase = "serial" /\ Len(Here.pend) >= RouteChunk
    /\ At = 1
    /\ LET split == CutAfter(Here, 0) IN Lead(split, split.routed)
    /\ UNCHANGED <<forward, group, prompt, masked, breaks>>

FoldAsDecided ==
    /\ forward.phase = "serial" /\ Len(Here.pend) >= RouteChunk
    /\ At > 1
    /\ Consume
    /\ LET op == ops[Here.cursor].op
       IN  layer' = [layer EXCEPT ![At] =
                Trimmed(Folded(Here, op, SubSeq(Here.pend, 1, RouteChunk)), op.routed)]
    /\ UNCHANGED <<leader, forward, group, prompt, masked, breaks>>

Drained ==
    /\ forward.phase = "serial" /\ Len(Here.pend) < RouteChunk
    /\ Leave(Materialized(Here))
    /\ UNCHANGED <<leader, ops, group, prompt, masked, breaks>>

\* _update_homogeneous_routed_packets: plan, publish and commit each fold;
\* the tail is cut when all are done.
FoldPacket ==
    /\ forward.phase = "packet" /\ forward.prepared # << >>
    /\ Lead(Head(forward.prepared), 0)
    /\ forward' = [forward EXCEPT !.prepared = Tail(@)]
    /\ UNCHANGED <<group, prompt, masked, breaks>>

PacketDone ==
    /\ forward.phase = "packet" /\ forward.prepared = << >>
    /\ Leave(Materialized(Trimmed(Here, forward.taken)))
    /\ UNCHANGED <<leader, ops, group, prompt, masked, breaks>>

\* The token pool has a row with the readout.
ReleaseDense(reserve) ==
    /\ Resting /\ prompt = 0
    /\ \E l \in Layers : CanRelease(layer[l], reserve)
    /\ layer' = [l \in Layers |-> IF CanRelease(layer[l], reserve) THEN Released(layer[l])
                                                                  ELSE layer[l]]
    /\ UNCHANGED <<leader, ops, forward, group, prompt, masked, breaks>>

\* continue_session_requests: the new break mask extends the old one.
Continue(n) ==
    /\ Resting /\ prompt = 0 /\ Length > 0 /\ Length + n <= MaxTokens
    /\ prompt' = n
    /\ masked' = IF masked = 0 THEN 0 ELSE Length + n
    /\ UNCHANGED <<layer, leader, ops, forward, group, breaks>>

\* release_tensor_storage, and a cache for another request.
Close ==
    /\ Resting /\ Length > 0
    /\ layer' = [l \in Layers |-> NoLayer]
    /\ leader' = [active |-> 0, feats |-> [s \in Slots |-> 0]]
    /\ ops' = << >>
    /\ prompt' \in PromptLens
    /\ masked' \in {0, prompt'}
    /\ breaks' \in IF masked' = 0 THEN {{}} ELSE BreakSets
    /\ UNCHANGED <<forward, group>>

Next ==
    \/ \E n \in ChunkLens : Prefill(n)
    \/ \E kind \in {"decode", "exact", "commit"} : Decode(kind)
    \/ \E k \in Reserves, longer \in Longer, static \in BOOLEAN : JoinPersistent(k, longer, static)
    \/ \E longer \in Longer : JoinTransient(longer)
    \/ GroupStep \/ GroupCommit
    \/ \E k \in Reserves : JoinCovered(k)
    \/ CoveredStep \/ CoveredEnd
    \/ Commit \/ \E packet \in BOOLEAN : Update(packet)
    \/ FoldAlone \/ FoldAsDecided \/ Drained
    \/ FoldPacket \/ PacketDone
    \/ \E reserve \in Reserves : ReleaseDense(reserve)
    \/ \E n \in SuffixLens : Continue(n)
    \/ Close

Spec == Init /\ [][Next]_vars

-----------------------------------------------------------------------------
(***************************************************************************)
(* Properties.                                                             *)
(***************************************************************************)

Quiet(l) == At # l \/ forward.phase = "enter"

\* The tokens of a layer stay in order and none is lost or doubled on the way:
\* the sink has the first, the tail and the ring have the last ones, and what
\* is between was routed, each token to one slot, whose mean counts it once,
\* kept or not.  A span has the positions it says it has (the folds of
\* _drain_pending_routes and of the packet path, _commit_route_fold).
PositionsKept ==
    \A l \in Layers : Quiet(l) =>
        LET y == layer[l]
            kept(s) == KV(y.spans[s])
        IN  /\ y.sink = Positions(0, Min({SinkTokens, y.cumulative}))
            /\ y.pend \o y.ring = Positions(Len(y.sink) + y.evicted, y.cumulative)
            /\ Len(y.pend) < RouteChunk /\ Len(y.ring) <= RingTokens
            /\ UNION Range(y.means) = SinkTokens .. SinkTokens + y.evicted - 1
            /\ \A s, t \in Slots : s # t => y.means[s] \cap y.means[t] = {}
            /\ \A s \in Slots :
                 /\ ToSet(kept(s)) \subseteq y.means[s]
                 /\ \A i \in 1 .. Len(kept(s)) - 1 : kept(s)[i] < kept(s)[i + 1]
                 /\ \A i \in DOMAIN y.spans[s] : y.spans[s][i].pos = y.spans[s][i].kv

\* Between forwards the layers that follow have routed what the leader has
\* routed, whichever path each of them took, every decision was followed by
\* all of them, and the leader's features are those of the spans it kept
\* (_RouteDecisionCoordinator, _commit_slot_route_feats).
FollowersAgree ==
    forward = Idle =>
        /\ ops = << >>
        /\ \A l \in Layers : layer[l] = layer[1]
        /\ \A s \in Slots : leader.feats[s] = Len(layer[1].spans[s])

\* What a decode attends to is what the state says: the dense readout that is
\* appended to without being rebuilt, the width the counters give, and, in each
\* layer of a padded decode, the places its mask shows, whatever was padded,
\* captured or left in a buffer; and the new tokens are where the commit looks.
\* Before the last decode of a group, padded or covered by the token pool, no
\* row alone would have folded, or did (commit_decode_tokens,
\* _materialized_width, _PersistentPaddedDecodeLayer, _GraphedPaddedDecodeStep).
ReadsAreExact ==
    /\ \A l \in Layers : Quiet(l) =>
         /\ ~layer[l].released => layer[l].dense = Readout(layer[l])
         /\ Width(layer[l]) = Len(Readout(layer[l]))
    /\ group.tokens # << >> =>
         \A l \in Layers :
            /\ Attended(group.layers[l], VisibleAfter(group.layers[1])) =
                 Readout(Appended(layer[l], group.tokens))
            /\ NewTokens(group.layers[l]) = Tokens(group.tokens)
            /\ Len(Appended(layer[l], Front(group.tokens)).pend) < RouteChunk
    /\ group.kind = "covered" /\ forward = Idle =>
         \A l \in Layers :
            PlaceholderHasRoom(group.layers[l]) => layer[l].cursor = group.folds

\* GemmaRoutedSpanConfig sizes the state of a slot by these bounds
\* (routed_authoritative_tokens, routed_materialized_tokens).
AuthoritativeTokens ==
    SinkTokens + RingTokens + RouteChunk - 1 + RoutedSlots * Max({SpanBudget, MaxSpan})
MaterializedTokens == AuthoritativeTokens + RoutedSlots

\* A layer at rest fits in what was planned for it, whatever was routed.
WithinPlan ==
    \A l \in Layers : Quiet(l) =>
        LET y == layer[l]
        IN  /\ Len(Readout(y)) <= MaterializedTokens
            /\ Len(y.sink) + Len(y.pend) + Len(y.ring) + y.bankTokens <= AuthoritativeTokens

=============================================================================
