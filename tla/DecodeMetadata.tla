--------------------------- MODULE DecodeMetadata ---------------------------
(***************************************************************************)
(* Which keys and values a batch of decodes reads in the sliding-window    *)
(* layers, and in those with full attention, which read attention rows.    *)
(* wkvm/runner/gemma_token_pool.py describes the batch twice for each: a   *)
(* flat list of slots, and pages with the positions they start from.       *)
(* gemma_token_pool_attention.py picks a kernel for one of them, and those *)
(* of gemma_token_pool_triton.py, or the reference of                      *)
(* gemma_native_forward.py, find the slots from it, in splits or not.      *)
(*                                                                         *)
(* Attention is a function of the keys and values it reads, so a kernel is *)
(* the sequence of slots it loads; what it computes with them is left out. *)
(* A batch is a sequence of decodes d, each of which is the next token of  *)
(* request d.req, which has d.prev positions, and is written to d.slot.    *)
(***************************************************************************)
EXTENDS PoolBackend

CONSTANTS
    MetadataRows,   \* page_table_metadata_max_rows
    Plans           \* TokenPoolTritonDispatchPlan, and how a batch is described

\* cuda: tensors are on a GPU.  triton: effective_enabled.  paged, split,
\* pagedSplit, strict: see the plan.  pagedOnly: no flat list is made.  tensor:
\* there is a page_table_tensor.  room: kv_indices_padding_steps.  size, least:
\* split_size and min_splits.
PlanSet == [cuda : BOOLEAN, triton : BOOLEAN, paged : BOOLEAN, split : BOOLEAN,
            pagedSplit : BOOLEAN, pagedOnly : BOOLEAN, strict : BOOLEAN, tensor : BOOLEAN,
            room : Nat, size : Nat \ {0}, least : Nat \ {0, 1}]

ASSUME MetadataAssumption ==
    Plans \subseteq PlanSet /\ MetadataRows \in Nat

None == [kind |-> "none"]           \* no metadata, or it cannot be built
Distinct(s) == Cardinality(Range(s)) = Len(s)
SumOf(s) == FoldLeft(LAMBDA a, b : a + b, 0, s)
CeilDiv(a, b) == (a + b - 1) \div b

\* The positions that the row of d selects.
Start(d) == Max({d.prev + 1 - SlidingWindow, 0})
Selected(d) == d.prev + 1 - Start(d)
FirstBlock(d) == BlockOf(Start(d))
BlockCount(d) == BlockOf(d.prev) - FirstBlock(d) + 1

TableOf(p, d) == p.line[p.rowOf[d.req]]
SelectedSlots(p, d) == SubSeq(TableOf(p, d).slots, Start(d) + 1, d.prev + 1)
Kept(slots) == SelectSeq(slots, LAMBDA s : s # Pad)

-----------------------------------------------------------------------------
(***************************************************************************)
(* Flat metadata.                                                          *)
(***************************************************************************)

FlatOf(rows) ==
    LET lens == [i \in DOMAIN rows |-> Len(rows[i])]
    IN  [kind |-> "flat",
         indptr |-> [i \in 1 .. Len(rows) + 1 |-> SumOf(SubSeq(lens, 1, i - 1))],
         indices |-> FlattenSeq(rows), seqLens |-> lens, maxLen |-> Max(Range(lens))]

\* build_decode_metadata, with padding allowed: it is left out.
Flat(p, batch) ==
    IF \E d \in Range(batch) : \/ d.prev + 1 > Len(TableOf(p, d).slots)
                               \/ ~Distinct(Kept(SelectedSlots(p, d)))
    THEN None
    ELSE FlatOf([i \in DOMAIN batch |-> Kept(SelectedSlots(p, batch[i]))])

\* pad_sliding_decode_metadata_kv_indices: room for the window to grow.
WithRoom(m, batch, steps) ==
    LET grown == [i \in DOMAIN batch |->
                    Min({SlidingWindow, Min({SlidingWindow, batch[i].prev + 1}) + steps})]
        extra == SumOf(grown) - Len(m.indices)
    IN  IF m = None \/ steps = 0 \/ extra < 1 THEN m
        ELSE [m EXCEPT !.indices = @ \o [i \in 1 .. extra |-> Last(@)],
                       !.maxLen = Max(Range(grown))]

-----------------------------------------------------------------------------
(***************************************************************************)
(* Paged metadata.                                                         *)
(***************************************************************************)

\* Mutant: a window has no more pages than its length needs.
WidthOfFullPages == CeilDiv(SlidingWindow, BlockSize)

\* sliding_block_table_width: a window may start at the last slot of a page.
BlockTableWidth == (SlidingWindow + BlockSize - 1 + BlockSize - 1) \div BlockSize

PagedOf(batch, tables, request) ==
    IF \E d \in Range(batch) : BlockCount(d) > BlockTableWidth THEN None
    ELSE [kind |-> "paged", tables |-> tables, request |-> request,
          lens |-> [i \in DOMAIN batch |-> BlockCount(batch[i])],
          starts |-> [i \in DOMAIN batch |-> Start(batch[i])],
          seqLens |-> [i \in DOMAIN batch |-> Selected(batch[i])],
          maxLen |-> Max({Selected(d) : d \in Range(batch)})]

Blocks(d) == [i \in 1 .. BlockCount(d) |-> FirstBlock(d) + i - 1]

\* build_paged_decode_metadata_from_page_table_tensor, which does not validate
\* what it reads.  A block that has no page is -1 in the tensor.
PageIn(blocks, b) == IF b \in DOMAIN blocks THEN blocks[b] ELSE -1

FromTensor(p, batch) ==
    IF \E d \in Range(batch) : d.prev + 1 > Len(TableOf(p, d).slots) THEN None
    ELSE PagedOf(batch, [i \in DOMAIN batch |->
                    [k \in 1 .. BlockCount(batch[i]) |->
                        PageIn(TableOf(p, batch[i]).blocks, Blocks(batch[i])[k])]], TRUE)

\* build_paged_decode_metadata_from_page_tables
FromPageTables(p, batch) ==
    LET pages(d) == p.held[d.req].pages
    IN  IF \E d \in Range(batch) : \/ d.prev + 1 > Len(TableOf(p, d).slots)
                                   \/ ~(Range(Blocks(d)) \subseteq DOMAIN pages(d))
                                   \/ d.slot # SlotAt(p, d.req, d.prev)
        THEN None
        ELSE PagedOf(batch, [i \in DOMAIN batch |->
                        [k \in 1 .. BlockCount(batch[i]) |->
                            pages(batch[i])[Blocks(batch[i])[k]]]], FALSE)

\* build_paged_decode_metadata: the pages are found from the slots.
Aligned(slots, start) ==
    \A i \in DOMAIN slots : slots[i] % BlockSize = (start + i - 1) % BlockSize

PageOfBlock(slots, start, b) ==
    {slots[i] \div BlockSize : i \in {j \in DOMAIN slots : BlockOf(start + j - 1) = b}}

FromTable(p, batch) ==
    LET slots(d) == SelectedSlots(p, d)
        page(d, b) == PageOfBlock(slots(d), Start(d), b)
    IN  IF \E d \in Range(batch) : \/ d.prev + 1 > Len(TableOf(p, d).slots)
                                   \/ Pad \in Range(slots(d)) \/ ~Distinct(slots(d))
                                   \/ Last(slots(d)) # d.slot
                                   \/ ~Aligned(slots(d), Start(d))
                                   \/ \E b \in Range(Blocks(d)) : Cardinality(page(d, b)) > 1
        THEN None
        ELSE PagedOf(batch, [i \in DOMAIN batch |->
                        [k \in 1 .. BlockCount(batch[i]) |->
                            Min(page(batch[i], Blocks(batch[i])[k]))]], FALSE)

FirstOf(a, b, c) == IF a # None THEN a ELSE IF b # None THEN b ELSE c

\* build_sliding_paged_decode_metadata.  Page tables are given if there is no
\* tensor of them.
SlidingPaged(p, batch, plan) ==
    IF plan.strict /\ plan.pagedOnly
    THEN IF plan.tensor THEN FromTensor(p, batch) ELSE None
    ELSE FirstOf(IF plan.tensor THEN FromTensor(p, batch) ELSE None,
                 IF ~plan.tensor /\ Len(batch) <= MetadataRows THEN FromPageTables(p, batch)
                 ELSE None,
                 FromTable(p, batch))

\* build_sliding_decode_metadata, prepare_decode_batch_state
SlidingMetadata(p, batch, plan) ==
    [paged |-> IF plan.paged \/ plan.pagedOnly \/ ~plan.cuda THEN SlidingPaged(p, batch, plan)
               ELSE None,
     flat |-> IF plan.pagedOnly THEN None ELSE WithRoom(Flat(p, batch), batch, plan.room)]

-----------------------------------------------------------------------------
(***************************************************************************)
(* The same for the full-attention layers, from the attention rows.        *)
(***************************************************************************)

\* The slots a decode reads there; the last one is the one it writes.
FullRow(p, d) ==
    IF p.rows[d.req].mode # "none" THEN p.rows[d.req].slots
    ELSE p.transient[d.req] \o <<d.slot>>

FullRows(p, batch) == [i \in DOMAIN batch |-> FullRow(p, batch[i])]

\* kv_indices_padding_steps
RoomFor(reserve) == Max({reserve - 1, 0})

\* build_full_attention_decode_metadata: room for the rows to grow.
FullFlat(p, batch, reserve) ==
    LET m == FlatOf(FullRows(p, batch))
        extra == RoomFor(reserve) * Len(batch)
    IN  [m EXCEPT !.indices = @ \o [i \in 1 .. extra |-> Last(@)],
                  !.maxLen = @ + CeilDiv(extra, Len(batch))]

\* build_full_attention_paged_decode_metadata: every row begins with a page.
FullPaged(p, batch, reserve) ==
    LET rows == FullRows(p, batch)
        blocks(row) == [k \in 1 .. CeilDiv(Len(row), BlockSize) |-> k - 1]
        lens == [i \in DOMAIN rows |-> Len(rows[i])]
    IN  IF \E row \in Range(rows) : \/ ~Distinct(row) \/ ~Aligned(row, 0)
                                     \/ \E b \in Range(blocks(row)) :
                                            Cardinality(PageOfBlock(row, 0, b)) > 1
        THEN None
        ELSE [kind |-> "paged", request |-> FALSE,
              tables |-> [i \in DOMAIN rows |->
                            [k \in DOMAIN blocks(rows[i]) |->
                                Min(PageOfBlock(rows[i], 0, blocks(rows[i])[k]))]],
              lens |-> [i \in DOMAIN rows |-> Len(blocks(rows[i]))],
              starts |-> [i \in DOMAIN rows |-> 0],
              seqLens |-> lens, maxLen |-> Max(Range(lens)) + RoomFor(reserve)]

\* prepare_full_attention_decode_batch, once there are rows: pages only if rows
\* are made of them and last.
FullMetadata(p, batch, reserve, pages) ==
    [paged |-> IF pages /\ reserve > 0 THEN FullPaged(p, batch, reserve) ELSE None,
     flat |-> FullFlat(p, batch, reserve)]

-----------------------------------------------------------------------------
(***************************************************************************)
(* Dispatch.                                                               *)
(***************************************************************************)

\* build_token_pool_triton_decode_plan
Splits(m, plan) == CeilDiv(m.maxLen, plan.size) >= plan.least

\* select_triton_dispatch
Dispatch(m, plan) ==
    CASE plan.paged /\ m.paged # None ->
           IF plan.pagedSplit /\ Splits(m.paged, plan) THEN "paged_split" ELSE "paged"
      [] ~(plan.paged /\ m.paged # None) /\ m.flat # None ->
           IF plan.split /\ Splits(m.flat, plan) THEN "flat_split" ELSE "flat"
      [] OTHER -> "raises"

\* TokenPoolAttentionBackend.decode and TokenPoolTritonAttentionBackend.decode:
\* a launch may succeed, or fail, or not be tried for a shape that failed
\* before; then the reference is, which needs the flat list.  A strict plan
\* raises where another would fall back.
Reference(m) == IF m.flat # None THEN "reference" ELSE "raises"
Kinds(m, plan) ==
    IF plan.cuda /\ plan.triton
    THEN {Dispatch(m, plan), Reference(m)} \cup (IF plan.strict THEN {"raises"} ELSE {})
    ELSE {Reference(m)}

-----------------------------------------------------------------------------
(***************************************************************************)
(* The slots that row i of a batch reads, in order.  A kernel reads a whole *)
(* row, or a split of it, from offset `from` up to and without `to`.        *)
(***************************************************************************)

SlotOf(page, pos) == (page * BlockSize) + (pos % BlockSize)
Position(m, i, k) == m.starts[i] + k
Offset(m, i, k) == BlockOf(Position(m, i, k)) - BlockOf(m.starts[i])

\* Offsets in blocks that the row does not have are ignored.
InBlocks(m, i, from, to) ==
    SelectSeq([k \in 1 .. to - from |-> from + k - 1], LAMBDA k : Offset(m, i, k) < m.lens[i])

ReferenceRead(m, i) == SubSeq(m.indices, m.indptr[i] + 1, m.indptr[i + 1])

FlatRead(m, i, from, to) == SubSeq(m.indices, m.indptr[i] + from + 1, m.indptr[i] + to)

PagedRead(m, i, from, to) ==
    LET ks == InBlocks(m, i, from, to)
    IN  [j \in DOMAIN ks |->
            SlotOf(m.tables[i][Offset(m, i, ks[j]) + 1], Position(m, i, ks[j]))]

RequestTableRead(m, i, blocks, from, to) ==
    LET ks == InBlocks(m, i, from, to)
    IN  [j \in DOMAIN ks |->
            SlotOf(PageIn(blocks, BlockOf(Position(m, i, ks[j]))), Position(m, i, ks[j]))]

\* One program for each split of the longest row; a row has those it needs.
SplitCount(m, plan) == CeilDiv(m.maxLen, plan.size)
SplitEnd(m, plan, i, split) == Min({m.seqLens[i], split * plan.size})

FlatSplits(m, plan, i) ==
    [s \in 1 .. SplitCount(m, plan) |->
        FlatRead(m, i, (s - 1) * plan.size, SplitEnd(m, plan, i, s))]

PagedSplits(m, plan, i) ==
    [s \in 1 .. SplitCount(m, plan) |->
        PagedRead(m, i, (s - 1) * plan.size, SplitEnd(m, plan, i, s))]

RequestTableSplits(m, plan, i, blocks) ==
    [s \in 1 .. SplitCount(m, plan) |->
        RequestTableRead(m, i, blocks, (s - 1) * plan.size, SplitEnd(m, plan, i, s))]

Merged(splits, m, plan, i) ==
    FlattenSeq(SubSeq(splits, 1, Min({CeilDiv(m.seqLens[i], plan.size), Len(splits)})))

\* token_pool_gqa_decode and its two paged forms: a program for each row.
FlatDecode(m, i) == FlatRead(m, i, 0, m.seqLens[i])
PagedDecode(m, i) == PagedRead(m, i, 0, m.seqLens[i])
RequestTableDecode(m, i, blocks) == RequestTableRead(m, i, blocks, 0, m.seqLens[i])

\* The same in splits, unless they would be too few.
FlatDecodeSplit(m, plan, i) ==
    IF Splits(m, plan) THEN Merged(FlatSplits(m, plan, i), m, plan, i) ELSE FlatDecode(m, i)
PagedDecodeSplit(m, plan, i) ==
    IF Splits(m, plan) THEN Merged(PagedSplits(m, plan, i), m, plan, i) ELSE PagedDecode(m, i)
RequestTableDecodeSplit(m, plan, i, blocks) ==
    IF Splits(m, plan) THEN Merged(RequestTableSplits(m, plan, i, blocks), m, plan, i)
    ELSE RequestTableDecode(m, i, blocks)

\* _launch_flat
FlatLaunch(m, plan, kind, i) ==
    IF kind = "flat" THEN FlatDecode(m, i) ELSE FlatDecodeSplit(m, plan, i)

\* _launch_paged: a request's block table is preferred to the batch's.
PagedLaunch(m, plan, kind, i, blocks) ==
    CASE kind = "paged" /\ m.request -> RequestTableDecode(m, i, blocks)
      [] kind = "paged" /\ ~m.request -> PagedDecode(m, i)
      [] kind # "paged" /\ m.request -> RequestTableDecodeSplit(m, plan, i, blocks)
      [] OTHER -> PagedDecodeSplit(m, plan, i)

Reads(p, m, plan, kind, batch, i) ==
    CASE kind = "reference" -> ReferenceRead(m.flat, i)
      [] kind \in {"flat", "flat_split"} -> FlatLaunch(m.flat, plan, kind, i)
      [] OTHER -> PagedLaunch(m.paged, plan, kind, i, TableOf(p, batch[i]).blocks)

\* store_current_kv: the decodes' own keys and values are written before any
\* are read.
KeyIn(p, batch, s) ==
    IF \E d \in Range(batch) : d.slot = s
    THEN LET d == CHOOSE e \in Range(batch) : e.slot = s IN <<d.req, d.prev>>
    ELSE IF s \in DOMAIN p.kv THEN p.kv[s] ELSE NoKV

\* The same in the full-attention layers, where a key is <<request, how often
\* the tail was folded, position>>.
FullKeyIn(p, batch, s) ==
    IF \E d \in Range(batch) : Last(FullRow(p, d)) = s
    THEN LET d == CHOOSE e \in Range(batch) : Last(FullRow(p, e)) = s IN <<d.req, 0, d.prev>>
    ELSE IF s \in DOMAIN p.full THEN p.full[s] ELSE NoKV

FullKeysRead(p, m, plan, kind, batch, i) ==
    LET slots == Reads(p, m, plan, kind, batch, i)
    IN  [k \in DOMAIN slots |-> FullKeyIn(p, batch, slots[k])]

KeysAt(p, batch, slots) == [k \in DOMAIN slots |-> KeyIn(p, batch, slots[k])]
KeysRead(p, m, plan, kind, batch, i) == KeysAt(p, batch, Reads(p, m, plan, kind, batch, i))

=============================================================================
