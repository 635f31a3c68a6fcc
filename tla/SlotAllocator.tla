--------------------------- MODULE SlotAllocator ---------------------------
(***************************************************************************)
(* wkvm/runner/gemma_token_pool.py: who hands out the token slots of the   *)
(* key/value pool.  Three allocators have the same interface:              *)
(*                                                                         *)
(*   - TokenSlotAllocator ("slots") begins with nothing free and takes new *)
(*     slots from _next_slot on, up to a capacity;                         *)
(*   - TokenKVPool ("pool") begins with all request slots free;            *)
(*   - _TokenKVPoolSlotDomainAllocator ("rows") is like the first, for the *)
(*     full-attention rows and an upper range of the same pool.            *)
(*                                                                         *)
(* Slots are taken one by one from a free list, or as an aligned block of  *)
(* BlockSize of them, a page; pages that were given back as a whole are    *)
(* remembered in a list that is not updated when their slots are taken one *)
(* by one.                                                                 *)
(***************************************************************************)
EXTENDS Naturals, FiniteSets

CONSTANTS
    Capacity,       \* capacity: the slots are 0 .. Capacity - 1
    RequestSlots,   \* request_slot_capacity: those of them that are not for rows
    BlockSize       \* token_pool_paged_block_size

\* What the constructors check.
SlotAssumption ==
    /\ Capacity \in Nat \ {0} /\ RequestSlots \in 1 .. Capacity
    /\ BlockSize \in Nat \ {0}

VARIABLE alloc      \* the allocator, a record

Slot == 0 .. Capacity - 1
Kinds == {"slots", "pool", "rows"}

\* The range an allocator has.  If RequestSlots = Capacity there is no domain
\* for rows: the pool itself gives out their slots.
First(kind) == IF kind = "rows" THEN RequestSlots ELSE 0
End(kind) == IF kind = "pool" THEN RequestSlots ELSE Capacity

Allocator == [kind : Kinds,
              next : 0 .. Capacity,     \* _next_slot
              free : SUBSET Slot,       \* _free_slots, a sorted list
              pages : SUBSET Nat,       \* _free_page_blocks[BlockSize], sorted
              paged : BOOLEAN,          \* _last_page_block_size is set
              out : SUBSET Slot]        \* _allocated_slots

PageId == 0 .. Capacity \div BlockSize
Block(b) == b * BlockSize .. b * BlockSize + BlockSize - 1

-----------------------------------------------------------------------------
(***************************************************************************)
(* Operations, as functions of the allocator.                              *)
(***************************************************************************)

New(kind) ==
    [kind |-> kind,
     next |-> IF kind = "pool" THEN End(kind) ELSE First(kind),
     free |-> IF kind = "pool" THEN 0 .. RequestSlots - 1 ELSE {},
     pages |-> {}, paged |-> FALSE, out |-> {}]

IsFree(a, b) == Block(b) \subseteq a.free

\* The n lowest numbers of S.
Lowest(S, n) == {s \in S : Cardinality({t \in S : t < s}) < n}

\* alloc_slots(n): free slots first, then new ones.  It raises, and changes
\* nothing, if there are not enough.
Fresh(a, n) == LET k == Cardinality(a.free)
               IN  IF k >= n THEN 0 ELSE n - k
CanTake(a, n) == a.next + Fresh(a, n) <= End(a.kind)
Taken(a, n) == Lowest(a.free, n) \cup (a.next .. a.next + Fresh(a, n) - 1)

\* If it raises, the domain for rows has looked at its free slots.
TakeRefused(a) == IF a.kind = "rows" /\ a.paged
                  THEN [a EXCEPT !.pages = @ \cup {b \in PageId : IsFree(a, b)}]
                  ELSE a

Take(a, n) == [a EXCEPT !.next = @ + Fresh(a, n),
                        !.free = @ \ Taken(a, n),
                        !.out = @ \cup Taken(a, n)]

\* Mutant: a remembered page is taken to be free.
TrustRemembered(a) == a.pages

\* The page that is found free: one of the remembered ones that is still free
\* as a whole (the lowest, or the highest for rows), or the first in the free
\* list.  Remembered pages that were tried are forgotten.
Reusable(a) == {b \in PageId : IsFree(a, b)}
Remembered(a) == {b \in a.pages : IsFree(a, b)}

IsFirst(b, S) == b \in S /\ \A c \in S : b <= c
IsLast(b, S) == b \in S /\ \A c \in S : b >= c

Reused(a) ==
    IF Remembered(a) = {} THEN CHOOSE b \in Reusable(a) : IsFirst(b, Reusable(a))
    ELSE IF a.kind = "rows" THEN CHOOSE b \in Remembered(a) : IsLast(b, Remembered(a))
    ELSE CHOOSE b \in Remembered(a) : IsFirst(b, Remembered(a))

PagesLeft(a) == IF Remembered(a) = {} THEN {}
                ELSE IF a.kind = "rows" THEN {b \in a.pages : b < Reused(a)}
                ELSE {b \in a.pages : b > Reused(a)}

\* Where new pages begin: the slots up to the next multiple of BlockSize are
\* added to the free list.
Padding(a) == LET offset == a.next % BlockSize
              IN  IF offset = 0 THEN 0 ELSE BlockSize - offset
Padded(a) == IF a.next + Padding(a) > End(a.kind) THEN a
             ELSE [a EXCEPT !.next = @ + Padding(a),
                            !.free = @ \cup (a.next .. a.next + Padding(a) - 1)]

CanReuse(a) == Reusable(a) # {}
CanExtend(a) == a.next + Padding(a) + BlockSize <= End(a.kind)

\* alloc_page_block_with_ids: the page it returns, and the allocator then.  If
\* it raises, it has padded and forgotten what it remembered.
CanTakePage(a) == CanReuse(a) \/ CanExtend(a)
Page(a) == IF CanReuse(a) THEN Reused(a) ELSE (a.next + Padding(a)) \div BlockSize
TakePage(a) ==
    LET page == Block(Page(a))
    IN  IF CanReuse(a)
        THEN [a EXCEPT !.free = @ \ page, !.out = @ \cup page,
                       !.pages = PagesLeft(a), !.paged = TRUE]
        ELSE [Padded(a) EXCEPT !.next = @ + BlockSize, !.out = @ \cup page,
                               !.pages = {}, !.paged = TRUE]
PageRefused(a) == [Padded(a) EXCEPT !.pages = {}, !.paged = TRUE]

\* free_slots: what is given back together is searched for whole pages.
WholePages(S) == {b \in PageId : Block(b) \subseteq S}
GivenBack(a, S) ==
    [a EXCEPT !.out = @ \ S, !.free = @ \cup S,
              !.pages = IF a.paged THEN @ \cup WholePages(S) ELSE @]

\* It raises KeyError at the first slot that is not handed out.  By then the
\* plain allocator has taken the earlier ones from its books, and they are in
\* no list; the other two look before they begin.
KeyError(a, S) == ~(S \subseteq a.out)
Refused(a, before) == IF a.kind = "slots" THEN [a EXCEPT !.out = @ \ before] ELSE a

-----------------------------------------------------------------------------
Init == \E kind \in Kinds : alloc = New(kind)

AllocSlots(n) ==
    /\ CanTake(alloc, n)
    /\ alloc' = Take(alloc, n)

AllocSlotsRaises(n) ==
    /\ ~CanTake(alloc, n)
    /\ alloc' = TakeRefused(alloc)

AllocPage ==
    /\ CanTakePage(alloc)
    /\ alloc' = TakePage(alloc)

AllocPageRaises ==
    /\ ~CanTakePage(alloc)
    /\ alloc' = PageRefused(alloc)

FreeSlots(S) ==
    /\ ~KeyError(alloc, S)
    /\ alloc' = GivenBack(alloc, S)

Next ==
    \/ \E n \in 1 .. Capacity : AllocSlots(n) \/ AllocSlotsRaises(n)
    \/ AllocPage
    \/ AllocPageRaises
    \/ \E S \in SUBSET alloc.out : FreeSlots(S)

Spec == Init /\ [][Next]_alloc

-----------------------------------------------------------------------------
(***************************************************************************)
(* Properties.                                                             *)
(***************************************************************************)

TypeOK == alloc \in Allocator

\* Every slot below next is free or handed out, never both: the list of
\* remembered pages and the padding of the first page lose no slot and hand
\* none out twice.
Accounts ==
    /\ alloc.free \cap alloc.out = {}
    /\ alloc.free \cup alloc.out = First(alloc.kind) .. alloc.next - 1

=============================================================================
