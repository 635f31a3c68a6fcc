---------------------------- MODULE PaddedLayers ----------------------------
(***************************************************************************)
(* The layers of a padded decode (runner/gemma_runner.py), as one of its   *)
(* rows sees them: a copy of the row's dense readout, padded to the width  *)
(* of the longest row, room for the tokens to come, and a mask of the      *)
(* places the row may attend to.                                           *)
(*                                                                         *)
(* A layer of static width is one a CUDA graph can be captured from: it is *)
(* always attended to whole, under a mask that only the first layer has,   *)
(* and it writes where an index on the device says.  A replay does on the  *)
(* device what update does, and record_static_replay counts as update      *)
(* does: Updated is both.                                                  *)
(*                                                                         *)
(* A layer that the token pool covers has no keys: it counts.              *)
(***************************************************************************)
EXTENDS Integers, Sequences, FiniteSets, FiniteSetsExt, SequencesExt

CONSTANTS
    RouteChunk,     \* GemmaRoutedSpanConfig.pending_tokens
    WidthBucket,    \* PaddedDecodeWorkspace.width_bucket
    Warmups         \* persistent_padded_decode_graph_warmup_iters

ASSUME PaddedAssumption == {RouteChunk, WidthBucket} \subseteq Nat \ {0} /\ Warmups \in Nat

\* The numbers of a set, from the least to the greatest.
Ascending(S) ==
    [i \in 1 .. Cardinality(S) |-> CHOOSE x \in S : Cardinality({y \in S : y <= x}) = i]

Blank   == << >>        \* a place that nothing of the row was copied to
Scratch == <<-1, {}>>   \* what the forwards of a capture leave behind

\* The widths a workspace lends when n places are asked for: n if the buffer
\* would be too large to keep, else n rounded up, or what an earlier batch needed.
WorkspaceWidths(n) ==
    {n} \cup {w \in n .. n + 2 * WidthBucket - 1 : w % WidthBucket = 0}

\* A copy of dense in past places, the others padded, and room for more.
Stacked(dense, past, room, pending) ==
    [keys |-> dense \o [i \in 1 .. past + room - Len(dense) |-> Blank],
     valid |-> [i \in 1 .. past + room |-> i <= Len(dense)],
     open |-> << >>, static |-> FALSE, index |-> past,
     initial |-> past, write |-> past, pending |-> pending]

\* The same for one decode, in a buffer of this width.
StackedOnce(dense, width, pending) == Stacked(dense, width - 1, 1, pending)

\* graph_static: every layer gets its index, the first of them the mask.
AttachMasks(layers) ==
    [l \in DOMAIN layers |->
        [layers[l] EXCEPT !.static = TRUE, !.open = IF l = 1 THEN layers[l].valid ELSE << >>]]

\* A decode fits: there is a place, and no fold would be due before it.
HasRoom(y) == y.write < Len(y.keys) /\ y.pending < RouteChunk

Updated(y, kv) ==
    LET at == 1 + IF y.static THEN y.index ELSE y.write
    IN  [y EXCEPT !.keys[at] = kv,
                  !.valid[at] = @ \/ ~y.static,
                  !.open = IF @ = << >> THEN @ ELSE [@ EXCEPT ![at] = TRUE],
                  !.index = IF y.static THEN @ + 1 ELSE @,
                  !.write = @ + 1,
                  !.pending = @ + 1]

\* _mask_from_padded_layers, made before the forward of which first is the
\* first layer afterwards: what was valid then, and the token itself.
VisibleAfter(first) ==
    IF first.static THEN first.open
    ELSE Append(SubSeq(first.valid, 1, first.write - 1), TRUE)

\* The keys a layer attends to under a mask, in their order.
Attended(y, mask) ==
    LET places == Ascending({i \in DOMAIN mask : mask[i]})
    IN  [i \in DOMAIN places |-> y.keys[places[i]]]

\* What commit_into hands to the row's own layer.
NewTokens(y) == SubSeq(y.keys, y.initial + 1, y.write)

-----------------------------------------------------------------------------
(***************************************************************************)
(* The capture of a graph: forwards in place, after which everything but   *)
(* the keys is put back.                                                   *)
(***************************************************************************)

\* Mutant: the index on the device is not put back.
RestoredButIndex(y, snapshot) == [snapshot EXCEPT !.keys = y.keys, !.index = y.index]

\* restore_static_state of a snapshot without keys and values.
Restored(y, snapshot) == [snapshot EXCEPT !.keys = y.keys]

WarmupsOf(y) == IF y.pending + 1 = RouteChunk THEN 0 ELSE Warmups

\* How many forwards in a row a capture may have run, whether it succeeded, or
\* failed anywhere and left the layers to be used without a graph.
CaptureRuns(y) ==
    {n \in 0 .. Max({1, WarmupsOf(y)}) :
        y.write + n <= Len(y.keys) /\ y.pending + n <= RouteChunk}

AfterCapture(y, n) ==
    LET forwards[i \in 0 .. n] == IF i = 0 THEN y ELSE Updated(forwards[i - 1], Scratch)
    IN  Restored(forwards[n], y)

-----------------------------------------------------------------------------
(***************************************************************************)
(* A layer covered by the token pool.                                      *)
(***************************************************************************)

Placeholder(pending, steps) == [reserved |-> steps, consumed |-> 0, pending |-> pending]

PlaceholderHasRoom(y) == y.consumed < y.reserved /\ y.pending < RouteChunk

DecodeRecorded(y) == [y EXCEPT !.consumed = @ + 1, !.pending = @ + 1]

=============================================================================
