----------------------------- MODULE StateArena -----------------------------
(***************************************************************************)
(* wkvm/core/arena.py: the constant-size state slots.  A request in the    *)
(* batch owns one slot of every state family; slot 0 of a family is the    *)
(* dummy row of padded batches, so the arena hands out 1 .. NumSlots.      *)
(* Slots leave a family's free list at its front and come back at its end. *)
(***************************************************************************)
EXTENDS SequencesExt

CONSTANTS
    Families,   \* ModelStateSpec.families, by name
    NumSlots    \* num_slots: the usable slots of each family

\* The constructor's check (arena.py:28), and a spec with at least one family.
ASSUME ArenaAssumption ==
    /\ IsFiniteSet(Families) /\ Families # {}
    /\ NumSlots \in Nat \ {0}

VARIABLES
    free,       \* _free: the free list of each family, front first
    allocated   \* _allocated: the slots handed out, per family

arenaVars == <<free, allocated>>

Slot == 1 .. NumSlots

\* What allocate() returns: a slot of every family.
SlotSet == [Families -> Slot]

-----------------------------------------------------------------------------
(***************************************************************************)
(* Operations.                                                             *)
(***************************************************************************)

\* Mutant: slot 0, the dummy row, is handed out too.
ArenaInitWithDummy ==
    /\ free = [f \in Families |-> [i \in Slot |-> i - 1]]
    /\ allocated = [f \in Families |-> {}]

ArenaInit ==
    /\ free = [f \in Families |-> [i \in Slot |-> i]]
    /\ allocated = [f \in Families |-> {}]

\* can_admit(n): the family with the fewest free slots still has n.
CanAdmit(n) == \A f \in Families : Len(free[f]) >= n

\* The slots the i-th of several allocate() calls in a row returns.
NthAllocation(i) == [f \in Families |-> free[f][i]]

\* n calls of allocate(), which raises NoFreeSlots rather than take a slot of
\* some of the families only.
AllocateSlots(n) ==
    /\ CanAdmit(n)
    /\ free' = [f \in Families |-> SubSeq(free[f], n + 1, Len(free[f]))]
    /\ allocated' = [f \in Families |->
                       allocated[f] \cup {NthAllocation(i)[f] : i \in 1 .. n}]

\* free(slots), which raises on a slot that is not handed out (a double free).
FreeSlots(s) ==
    /\ \A f \in Families : s[f] \in allocated[f]
    /\ free' = [f \in Families |-> Append(free[f], s[f])]
    /\ allocated' = [f \in Families |-> allocated[f] \ {s[f]}]

\* fork(parent_slots): one more allocation, next to a parent that is live.
ForkSlots(s) ==
    /\ \A f \in Families : s[f] \in allocated[f]
    /\ AllocateSlots(1)

-----------------------------------------------------------------------------
(***************************************************************************)
(* What the arena does whoever uses it, as long as no call raises: the     *)
(* operations in any order, with slots of different allocate() calls mixed *)
(* in one free().  A step may be several allocations in a row, as many as  *)
(* a family has slots left.                                                *)
(***************************************************************************)

ArenaNext ==
    \/ \E f \in Families : \E n \in DOMAIN free[f] : AllocateSlots(n)
    \/ \E s \in SlotSet : FreeSlots(s)
    \/ \E s \in SlotSet : ForkSlots(s)

ArenaSpec == ArenaInit /\ [][ArenaNext]_arenaVars

ArenaTypeOK ==
    /\ free \in [Families -> Seq(Slot)]
    /\ allocated \in [Families -> SUBSET Slot]

\* Every slot of every family is in exactly one place: once in the free list,
\* or handed out.  The guards of allocate() and free() are what keeps it so.
ArenaPartition ==
    \A f \in Families :
        /\ IsInjective(free[f])
        /\ ToSet(free[f]) \cap allocated[f] = {}
        /\ ToSet(free[f]) \cup allocated[f] = Slot

=============================================================================
