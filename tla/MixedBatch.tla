----------------------------- MODULE MixedBatch -----------------------------
(***************************************************************************)
(* Batches with rows of several tokens: prefill batches, and the ragged    *)
(* batches of wkvm/core/mixed_batch.py that also decode.                   *)
(*                                                                         *)
(* The inputs are padded on the right to the longest row.  A row of a      *)
(* prompt attends to the keys its request's cache has (the tail of a       *)
(* sliding-window layer) and to its own, through a mask made for the batch *)
(* (wkvm/runner/gemma_runner.py); a row that decodes reads the token pool. *)
(* Attention is again what is read, and a key is the position it is of.    *)
(*                                                                         *)
(* rows is a sequence of [req, prefix, n, prompt, target], see             *)
(* MixedBatchRow, and tails the sliding-window tails of their requests:    *)
(* keys, how many positions there were, and whether storage was released.  *)
(***************************************************************************)
EXTENDS DecodeMetadata

EmptyTail == [keys |-> << >>, len |-> 0, released |-> FALSE]

LastOf(s, n) == SubSeq(s, Max({Len(s) - n, 0}) + 1, Len(s))
Indices(rows) == [i \in DOMAIN rows |-> i]

-----------------------------------------------------------------------------
(***************************************************************************)
(* MixedBatchRow, MixedBatchMetadata.                                      *)
(***************************************************************************)

IsPrefilling(row) == row.prefix < row.prompt
IsDecode(row) == ~IsPrefilling(row) /\ row.n = 1

ValidRow(row) ==
    /\ row.n >= 1 /\ row.prompt >= 1
    /\ row.target >= Max({row.prefix + row.n, row.prompt})
    /\ IsPrefilling(row) => row.prefix + row.n <= row.prompt

DecodeRows(rows) == SelectSeq(Indices(rows), LAMBDA i : IsDecode(rows[i]))
PrefillRows(rows) == SelectSeq(Indices(rows), LAMBDA i : IsPrefilling(rows[i]) \/ rows[i].n > 1)

\* What the constructors, and those of the token pool's context, refuse.
ValidBatch(rows, decodes) ==
    /\ \A i \in DOMAIN rows : ValidRow(rows[i])
    /\ Distinct([i \in DOMAIN rows |-> rows[i].req])
    /\ Range(DecodeRows(rows)) \cap Range(PrefillRows(rows)) = {}
    /\ Range(DecodeRows(rows)) \cup Range(PrefillRows(rows)) = DOMAIN rows
    /\ Len(DecodeRows(rows)) = Len(decodes)
    /\ decodes # << >> => DecodeRows(rows) # << >> /\ PrefillRows(rows) # << >>

QStart(rows, i) == SumOf([k \in 1 .. i - 1 |-> rows[k].n])
Positions(rows) == FlattenSeq([i \in DOMAIN rows |->
                                  [j \in 1 .. rows[i].n |-> rows[i].prefix + j - 1]])
\* _feed_tokens, flatten_token_rows: token pos of a request is <<req, pos>>.
Tokens(rows) == FlattenSeq([i \in DOMAIN rows |->
                               [j \in 1 .. rows[i].n |-> <<rows[i].req, rows[i].prefix + j - 1>>]])

-----------------------------------------------------------------------------
(***************************************************************************)
(* The inputs: mixed_batch_step.                                           *)
(***************************************************************************)

MaxQuery(rows) == Max({rows[i].n : i \in DOMAIN rows})

\* Column j of row i of something that is flat: a row's last is repeated.
PaddedAt(flat, rows, i, j) == flat[QStart(rows, i) + Min({j, rows[i].n})]

\* The key of a token at a position, if they belong together.
KeyOf(token, position) == IF token[2] = position THEN token ELSE NoKV

KeyStates(rows) ==
    [i \in DOMAIN rows |->
        [j \in 1 .. MaxQuery(rows) |-> KeyOf(PaddedAt(Tokens(rows), rows, i, j),
                                             PaddedAt(Positions(rows), rows, i, j))]]

\* The query whose logits are those of row i.
LogitsIndex(rows, i) == rows[i].n

-----------------------------------------------------------------------------
(***************************************************************************)
(* The sliding-window layers' caches.                                      *)
(***************************************************************************)

\* NativeSlidingWindowLayer.update; without storage it raises.
CanUpdate(tail) == ~tail.released
FullKeys(tail, new) == tail.keys \o new
Updated(tail, new) == [keys |-> LastOf(FullKeys(tail, new), SlidingWindow - 1),
                       len |-> tail.len + Len(new), released |-> FALSE]

\* Mutant: the tail is as long as the window.
MaskSizesOfWindow(tail, n) ==
    [width |-> IF tail.len >= SlidingWindow THEN SlidingWindow - 1 + n ELSE tail.len + n,
     offset |-> Max({tail.len - SlidingWindow, 0})]

\* NativeSlidingWindowLayer.get_mask_sizes
MaskSizes(tail, n) ==
    [width |-> IF tail.len >= SlidingWindow THEN SlidingWindow - 1 + n ELSE tail.len + n,
     offset |-> Max({tail.len + 1 - SlidingWindow, 0})]

\* A row that decodes from the token pool has its own key only.
Size(rows, tails, i, pooledRows) ==
    IF i \in pooledRows THEN [width |-> 1, offset |-> rows[i].prefix]
    ELSE MaskSizes(tails[i], rows[i].n)

\* _NativeGemmaPrefillBatchLayer.update: the keys of row i, which are padded.
RowKeys(rows, tails, i, pooledRows) ==
    LET new == SubSeq(KeyStates(rows)[i], 1, rows[i].n)
    IN  IF i \in pooledRows THEN new ELSE FullKeys(tails[i], new)

\* DistinctCacheBatchError if not.
WidthsMatch(rows, tails, pooledRows) ==
    \A i \in DOMAIN rows :
        Len(RowKeys(rows, tails, i, pooledRows)) = Size(rows, tails, i, pooledRows).width

\* _build_attention_mask: query j of row i attends to key k.
Attends(rows, size, i, j, k) ==
    LET keyPosition == k - 1 + size.offset
        queryPosition == rows[i].prefix + j - 1
    IN  /\ k <= size.width
        /\ keyPosition <= queryPosition /\ keyPosition > queryPosition - SlidingWindow
        /\ j <= rows[i].n \/ k = 1

PaddedKey(keys, k) == IF k \in DOMAIN keys THEN keys[k] ELSE NoKV

DenseRead(rows, tails, i, j, pooledRows) ==
    LET size == Size(rows, tails, i, pooledRows)
        keys == RowKeys(rows, tails, i, pooledRows)
        columns == Max({Size(rows, tails, k, pooledRows).width : k \in DOMAIN rows})
        seen == SelectSeq([k \in 1 .. columns |-> k], LAMBDA k : Attends(rows, size, i, j, k))
    IN  [k \in DOMAIN seen |-> PaddedKey(keys, seen[k])]

-----------------------------------------------------------------------------
(***************************************************************************)
(* The token pool in a mixed batch.                                        *)
(***************************************************************************)

\* TokenPoolMixedAttentionCall.bind_layer_kv: what is written for decode d.
KeyWritten(rows, d) == KeyStates(rows)[DecodeRows(rows)[d]][1]

\* _attention_forward_token_pool_mixed: the decode whose output row i gets.
DecodeOfRow(rows, i) == CHOOSE d \in DOMAIN DecodeRows(rows) : DecodeRows(rows)[d] = i

=============================================================================
