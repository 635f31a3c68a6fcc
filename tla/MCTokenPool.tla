---------------------------- MODULE MCTokenPool ----------------------------
(***************************************************************************)
(* Small instances of TokenPool for TLC.                                   *)
(***************************************************************************)
EXTENDS TokenPool

CONSTANTS s1, r1        \* request ids

Pool(shared, alias, paged, mixed) ==
    [pooled |-> TRUE, shared |-> shared, alias |-> alias, paged |-> paged, mixed |-> mixed,
     steps |-> 2, single |-> ~shared, boundary |-> ~paged]

\* Rows that borrow, rows of whole pages, and rows of single slots, with groups
\* of one; rows of the pool's own slots, which may find none; and a table
\* without a pool.
PoolOptions == {Pool(FALSE, TRUE, FALSE, TRUE),
                Pool(FALSE, FALSE, TRUE, TRUE),
                Pool(FALSE, FALSE, FALSE, FALSE),
                Pool(TRUE, FALSE, FALSE, TRUE),
                [Pool(TRUE, FALSE, FALSE, FALSE) EXCEPT !.pooled = FALSE]}

Plan(cuda, paged, split, only, tensor, room, size) ==
    [cuda |-> cuda, triton |-> cuda, paged |-> paged, split |-> split, pagedSplit |-> split,
     pagedOnly |-> only, strict |-> only, tensor |-> tensor,
     room |-> room, size |-> size, least |-> 2]

\* The reference, flat lists in splits of three or whole, pages from the tensor
\* in splits of two, pages from the page tables or the slots, pages only.
SixPlans == {Plan(FALSE, FALSE, FALSE, FALSE, TRUE, 0, 1),
             Plan(TRUE, FALSE, TRUE, FALSE, TRUE, 1, 3),
             Plan(TRUE, FALSE, FALSE, FALSE, FALSE, 2, 1),
             Plan(TRUE, TRUE, TRUE, FALSE, TRUE, 0, 2),
             Plan(TRUE, TRUE, TRUE, FALSE, FALSE, 1, 3),
             Plan(TRUE, TRUE, FALSE, TRUE, TRUE, 0, 1)}

=============================================================================
