---------------------------- MODULE PoolBackend ----------------------------
(***************************************************************************)
(* wkvm/runner/gemma_token_pool.py, TokenPoolDecodeBackendState: which     *)
(* token slots hold which positions of which request.                      *)
(*                                                                         *)
(* A request has a row of the token table, a slot or padding for each of   *)
(* its positions, and a page table, from blocks of positions to pages of   *)
(* BlockSize slots, which is mirrored in a row of the block tables.        *)
(* Sliding-window layers need its last SlidingWindow positions only: older *)
(* ones are cleared and their pages given back.  Full-attention layers     *)
(* read other slots, an attention row, kept by a row manager: its slots    *)
(* are its own, or borrowed from the request's pages.                      *)
(*                                                                         *)
(* Operations are functions of the backend's state.                        *)
(***************************************************************************)
EXTENDS Integers, FiniteSetsExt, SequencesExt

CONSTANTS
    Requests,       \* request ids
    NumRows,        \* ReqToTokenTable.max_requests
    SlidingWindow,  \* sliding_window
    Capacity, RequestSlots, BlockSize   \* see SlotAllocator

VARIABLE pool       \* the backend's state, a record

SA == INSTANCE SlotAllocator WITH alloc <- pool.alloc
SR == INSTANCE SlotAllocator WITH alloc <- pool.rowAlloc

TableRow == 0 .. NumRows - 1
NoRow == -1
Pad == -1           \* padding_token
NoKV == << >>       \* what is in a slot that nobody has
EmptyLine == [slots |-> << >>, cleared |-> 0, blocks |-> << >>]
EmptyHeld == [pages |-> << >>, owned |-> {}, tokens |-> {}]
NoAttentionRow == [slots |-> << >>, spare |-> << >>, owned |-> {}, borrowed |-> {},
                   left |-> 0, mode |-> "none"]

\* pooled: there is a TokenKVPool; otherwise only the table is kept.  shared:
\* attention rows are taken from the pool's own slots.
NewPool(pooled, shared) ==
    [pooled |-> pooled, shared |-> shared,
     alloc |-> SA!New(IF pooled THEN "pool" ELSE "slots"),
     rowAlloc |-> SA!New("rows"),
     rowOf |-> [r \in Requests |-> NoRow],          \* request_slots
     line |-> [row \in TableRow |-> EmptyLine],     \* req_to_token, block_tables
     held |-> [r \in Requests |-> EmptyHeld],       \* request_page_tables, ...
     deferred |-> {},                               \* deferred_prefill_requests
     kv |-> [s \in SA!Slot |-> NoKV],               \* sliding layers' keys and values
     full |-> [s \in SA!Slot |-> NoKV],             \* those of full-attention layers
     rows |-> [r \in Requests |-> NoAttentionRow],  \* TokenPoolFullAttentionRowManager.rows
     transient |-> [r \in Requests |-> << >>],      \* transient_slots
     failed |-> FALSE,                              \* this operation raised: no capacity
     errors |-> {}]                                 \* errors there have been

Page(b) == SA!Block(b)
BlockOf(pos) == pos \div BlockSize
Without(f, S) == Restrict(f, DOMAIN f \ S)

-----------------------------------------------------------------------------
(***************************************************************************)
(* Slots are given back.                                                   *)
(***************************************************************************)

Free(p, S) ==
    IF S = {} THEN p
    ELSE IF SA!KeyError(p.alloc, S) THEN [p EXCEPT !.errors = @ \cup {"KeyError"}]
    ELSE [p EXCEPT !.alloc = SA!GivenBack(@, S),
                   !.kv = [s \in SA!Slot |-> IF s \in S THEN NoKV ELSE @[s]]]

FreeRowSlots(p, S) ==
    IF p.shared THEN Free(p, S)
    ELSE IF S = {} THEN p
    ELSE IF SA!KeyError(p.rowAlloc, S) THEN [p EXCEPT !.errors = @ \cup {"KeyError"}]
    ELSE [p EXCEPT !.rowAlloc = SA!GivenBack(@, S)]

-----------------------------------------------------------------------------
(***************************************************************************)
(* Attention rows.                                                         *)
(***************************************************************************)

\* clear: rows and transient slots of the requests in S.  (What they had
\* written is read by nobody any more.)
ClearRows(p, S) ==
    LET slots == UNION {Range(p.transient[r]) \cup p.rows[r].owned : r \in S}
        unread == slots \cup UNION {p.rows[r].borrowed : r \in S}
    IN  FreeRowSlots([p EXCEPT
            !.transient = [r \in Requests |-> IF r \in S THEN << >> ELSE @[r]],
            !.rows = [r \in Requests |-> IF r \in S THEN NoAttentionRow ELSE @[r]],
            !.full = [s \in SA!Slot |-> IF s \in unread THEN NoKV ELSE @[s]]], slots)

\* invalidate_containing: rows that use one of these slots.
InvalidateContaining(p, slots) ==
    ClearRows(p, {r \in Requests : \/ p.rows[r].borrowed \cap slots # {}
                                   \/ p.shared /\ p.rows[r].owned \cap slots # {}})

RowAlloc(p) == IF p.shared THEN p.alloc ELSE p.rowAlloc
WithRowAlloc(p, a) == IF p.shared THEN [p EXCEPT !.alloc = a] ELSE [p EXCEPT !.rowAlloc = a]
Raise(p) == [p EXCEPT !.failed = TRUE]

Ascending(S) == SelectSeq([i \in 1 .. Capacity |-> i - 1], LAMBDA s : s \in S)
PageSlots(b) == [i \in 1 .. BlockSize |-> (b * BlockSize) + i - 1]

\* alloc_slots of the allocator for rows: the pool then, and the slots.
TakeSlots(p, n) ==
    LET a == RowAlloc(p)
    IN  IF n = 0 THEN [pool |-> p, slots |-> << >>]
        ELSE IF SA!CanTake(a, n)
        THEN [pool |-> WithRowAlloc(p, SA!Take(a, n)), slots |-> Ascending(SA!Taken(a, n))]
        ELSE [pool |-> Raise(WithRowAlloc(p, SA!TakeRefused(a))), slots |-> << >>]

\* allocate_page_aligned_row_slots: whole pages for n slots, or none.
TakePages(p, n) ==
    LET TakeOne(got, i) ==
            LET a == RowAlloc(got.pool)
            IN  IF got.pool.failed THEN got
                ELSE IF SA!CanTakePage(a)
                THEN [pool |-> WithRowAlloc(got.pool, SA!TakePage(a)),
                      slots |-> got.slots \o PageSlots(SA!Page(a))]
                ELSE [got EXCEPT !.pool = Raise(WithRowAlloc(@, SA!PageRefused(a)))]
        pages == (n + BlockSize - 1) \div BlockSize
        all == FoldLeft(TakeOne, [pool |-> p, slots |-> << >>], [i \in 1 .. pages |-> i])
    IN  IF all.pool.failed
        THEN [pool |-> FreeRowSlots(all.pool, Range(all.slots)), slots |-> << >>]
        ELSE all

\* set_kv of the full-attention layers.
Filled(p, slots, keys) ==
    LET index == [s \in Range(slots) |-> CHOOSE i \in DOMAIN slots : slots[i] = s]
    IN  [p EXCEPT !.full = [s \in DOMAIN index |-> keys[index[s]]] @@ @]

\* append_existing_row: one more token for a row of the given width.
CanAppend(row, width) ==
    Len(row.slots) = width /\ (row.mode = "borrowed" => row.left >= 1)

\* The row gets the first of these slots and the others in reserve.
Appended(p, r, slots) ==
    [p EXCEPT !.rows[r].slots = Append(@, Head(slots)), !.rows[r].spare = Tail(slots)]

AppendToRow(p, r, slot, reserve) ==
    LET row == p.rows[r]
        more == IF row.mode = "paged" THEN TakePages(p, reserve) ELSE TakeSlots(p, reserve)
    IN  CASE row.mode = "borrowed" ->
               [p EXCEPT !.rows[r].slots = Append(@, slot), !.rows[r].borrowed = @ \cup {slot},
                         !.rows[r].left = @ - 1]
          [] row.mode # "borrowed" /\ row.spare # << >> -> Appended(p, r, row.spare)
          [] OTHER ->
               IF row.mode = "paged" /\ Len(row.slots) % BlockSize # 0 THEN Raise(p)
               ELSE IF more.pool.failed THEN more.pool
               ELSE [Appended(more.pool, r, more.slots)
                        EXCEPT !.rows[r].owned = @ \cup Range(more.slots)]

\* borrow_stable_request_suffix_slots: the slots of the last positions before
\* prev that no clearing reaches for the next reserve decodes.
BorrowedFrom(prev, width, reserve) ==
    LET stable == Max({0, prev + reserve - SlidingWindow})
    IN  prev - Min({width, Max({0, prev - stable})})

MayBorrow(p, r, prev, width, reserve) ==
    /\ reserve <= SlidingWindow
    /\ \A pos \in BorrowedFrom(prev, width, reserve) .. prev - 1 :
        BlockOf(pos) \in DOMAIN p.held[r].pages

SlotAt(p, r, pos) == (p.held[r].pages[BlockOf(pos)] * BlockSize) + (pos % BlockSize)
SlotsAt(p, r, start, n) == [i \in 1 .. n |-> SlotAt(p, r, start + i - 1)]

\* A new row: borrowed, of whole pages, or of slots of its own.  What the
\* full-attention layers read is written into all but its last slot
\* (write_materialized_readout_to_token_pool).
StartRow(p, r, prev, readout, slot, reserve, opts) ==
    LET width == Len(readout)
        from == BorrowedFrom(prev, width, reserve)
        own == TakeSlots(p, width - (prev - from))
        borrowed == SlotsAt(p, r, from, prev - from)
        paged == TakePages(p, width + reserve)
        first == TakeSlots(p, width)
        rest == TakeSlots(first.pool, reserve)
        New(q, mode, slots) ==
            [Filled(q, SubSeq(slots, 1, width), readout) EXCEPT
                !.rows[r] = [NoAttentionRow EXCEPT !.mode = mode, !.owned = Range(slots),
                                                   !.slots = SubSeq(slots, 1, width + 1),
                                                   !.spare = SubSeq(slots, width + 2, Len(slots))]]
    IN  CASE opts.paged ->
               IF paged.pool.failed THEN paged.pool
               ELSE New(paged.pool, "paged", paged.slots)
          [] ~opts.paged /\ opts.alias /\ MayBorrow(p, r, prev, width, reserve) ->
               IF own.pool.failed THEN own.pool
               ELSE [New(own.pool, "borrowed", own.slots \o borrowed \o <<slot>>)
                        EXCEPT !.rows[r].owned = Range(own.slots),
                               !.rows[r].borrowed = Range(borrowed) \cup {slot},
                               !.rows[r].left = reserve - 1]
          [] OTHER ->
               IF first.pool.failed THEN first.pool
               ELSE IF rest.pool.failed THEN FreeRowSlots(rest.pool, Range(first.slots))
               ELSE New(rest.pool, "own", first.slots \o rest.slots)

\* prepare_decode_row: the decode of r reads what its full-attention layers
\* have, readout, and writes one token.  For a single decode (reserve = 0) the
\* slots are transient.
PrepareRow(p, r, prev, readout, slot, reserve, opts) ==
    LET t == TakeSlots(p, Len(readout))
    IN  IF reserve = 0
        THEN IF t.pool.failed THEN t.pool
             ELSE [Filled(t.pool, t.slots, readout) EXCEPT !.transient[r] = t.slots]
        ELSE IF p.rows[r].mode # "none" /\ CanAppend(p.rows[r], Len(readout))
        THEN AppendToRow(p, r, slot, reserve)
        ELSE StartRow(IF p.rows[r].mode = "none" THEN p ELSE ClearRows(p, {r}),
                      r, prev, readout, slot, reserve, opts)

-----------------------------------------------------------------------------
(***************************************************************************)
(* The table and the pages of a request.                                   *)
(***************************************************************************)

Length(p, r) == Len(p.line[p.rowOf[r]].slots)

\* admit_request
Admit(p, r) ==
    LET row == Min({x \in TableRow : \A q \in Requests : p.rowOf[q] # x})
    IN  IF p.rowOf[r] # NoRow THEN p
        ELSE [p EXCEPT !.rowOf[r] = row, !.line[row] = EmptyLine, !.held[r] = EmptyHeld]

\* release_request
ReleaseRequest(p, r) ==
    LET q == ClearRows([p EXCEPT !.deferred = @ \ {r}], {r})
        row == p.rowOf[r]
        slots == q.held[r].owned \cup q.held[r].tokens
    IN  IF row = NoRow THEN q
        ELSE Free([q EXCEPT !.rowOf[r] = NoRow, !.line[row] = EmptyLine,
                            !.held[r] = EmptyHeld], slots)

Release(p, S) == FoldLeft(ReleaseRequest, p, SetToSeq(S))

\* Pages a request has for positions before `before` and does not need for
\* the blocks in `targets`: allocate_authoritative_prefill_slots uses them
\* again before it asks for new ones.
Recyclable(p, r, targets, before) ==
    {b \in DOMAIN p.held[r].pages : b \notin targets /\ (b + 1) * BlockSize <= before}

\* A page for block b of r, which is written into the block tables.
WithPage(p, r, b, recyclable) ==
    LET row == p.rowOf[r]
        old == Min(recyclable)
        Mapped(q, page) == [q EXCEPT !.held[r].pages = (b :> page) @@ @,
                                     !.line[row].blocks = (b :> page) @@ @]
    IN  IF p.failed THEN p
        ELSE IF b \in DOMAIN p.held[r].pages THEN Mapped(p, p.held[r].pages[b])
        ELSE IF recyclable # {}
        THEN Mapped([p EXCEPT !.held[r].pages = Without(@, {old}),
                              !.line[row].blocks = Without(@, {old})], p.held[r].pages[old])
        ELSE IF SA!CanTakePage(p.alloc)
        THEN Mapped([p EXCEPT !.alloc = SA!TakePage(@),
                              !.held[r].owned = @ \cup Page(SA!Page(p.alloc))], SA!Page(p.alloc))
        ELSE Raise([p EXCEPT !.alloc = SA!PageRefused(@), !.errors = @ \cup {"no page"}])

\* Pages for n positions from start on; nothing is recycled if before is 0
\* (allocate_page_aligned_slots).
WithPages(p, r, start, n, before) ==
    LET blocks == IF n = 0 THEN << >>
                  ELSE [i \in 1 .. BlockOf(start + n - 1) - BlockOf(start) + 1 |->
                            BlockOf(start) + i - 1]
    IN  FoldLeft(LAMBDA q, b : WithPage(q, r, b, Recyclable(q, r, Range(blocks), before)),
                 p, blocks)

Padding(n) == [i \in 1 .. n |-> Pad]
AppendSlots(p, r, slots) == [p EXCEPT !.line[p.rowOf[r]].slots = @ \o slots]

\* set_kv for positions of r from start on.
Write(p, r, start, keys) ==
    LET index == [s \in Range(SlotsAt(p, r, start, Len(keys))) |->
                    CHOOSE i \in DOMAIN keys : SlotAt(p, r, start + i - 1) = s]
    IN  [p EXCEPT !.kv = [s \in DOMAIN index |-> keys[index[s]]] @@ @]

\* truncate
Truncate(p, r, n) ==
    [p EXCEPT !.line[p.rowOf[r]].slots = SubSeq(@, 1, n),
              !.line[p.rowOf[r]].cleared = Min({@, n})]

\* snapshot_request_page_state, restore_request_page_state
Snapshot(p, r) == [held |-> p.held[r], blocks |-> p.line[p.rowOf[r]].blocks]

Restore(p, r, snap) ==
    LET q == Free(p, p.held[r].owned \ snap.held.owned)
    IN  [q EXCEPT !.held[r].pages = snap.held.pages, !.held[r].owned = snap.held.owned,
                  !.line[p.rowOf[r]].blocks = snap.blocks]

\* Mutant: the page table keeps pages that were given back.
ReleaseExpiredButTable(p, r, n) ==
    LET held == p.held[r]
        expired == {b \in DOMAIN held.pages : (b + 1) * BlockSize <= n}
        slots == UNION {Page(held.pages[b]) : b \in expired} \cap held.owned
    IN  IF ~p.pooled \/ expired = {} THEN p
        ELSE Free([p EXCEPT !.held[r].owned = @ \ slots], slots)

\* release_expired_page_blocks
ReleaseExpired(p, r, n) ==
    LET held == p.held[r]
        expired == {b \in DOMAIN held.pages : (b + 1) * BlockSize <= n}
        slots == UNION {Page(held.pages[b]) : b \in expired} \cap held.owned
    IN  IF ~p.pooled \/ expired = {} THEN p
        ELSE Free([p EXCEPT !.held[r].pages = Without(@, expired),
                            !.held[r].owned = @ \ slots,
                            !.line[p.rowOf[r]].blocks = Without(@, expired)], slots)

\* clear_request_prefix: positions before n are padded; their slots are given
\* back, with the pages that have only such positions.
ClearPrefix(p, r, n) ==
    LET line == p.line[p.rowOf[r]]
        dropped == {line.slots[i] : i \in line.cleared + 1 .. n} \ {Pad}
        cleared == [p EXCEPT
            !.line[p.rowOf[r]].slots = [i \in DOMAIN @ |-> IF i <= n THEN Pad ELSE @[i]],
            !.line[p.rowOf[r]].cleared = n,
            !.held[r].tokens = @ \ dropped]
    IN  IF n <= line.cleared THEN ReleaseExpired(p, r, n)
        ELSE ReleaseExpired(Free(InvalidateContaining(cleared, dropped),
                                 dropped \ p.held[r].owned), r, n)

=============================================================================
