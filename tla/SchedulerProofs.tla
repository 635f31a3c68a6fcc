-------------------------- MODULE SchedulerProofs --------------------------
(***************************************************************************)
(* Theorems about StateArena and Scheduler, for any number of requests,    *)
(* sessions, slots and families and any configuration SchedulerConfig      *)
(* accepts.  Three parts: the arena, the state of the scheduler, and what  *)
(* one step of it computes.                                                *)
(***************************************************************************)
EXTENDS Scheduler, ListLemmas, FiniteSetTheorems

-----------------------------------------------------------------------------
(***************************************************************************)
(* The arena keeps every slot in one place, however its callers mix        *)
(* allocate, free and fork.                                                *)
(***************************************************************************)

-----------------------------------------------------------------------------
(***************************************************************************)
(* The arena's operations.                                                 *)
(***************************************************************************)

\* n calls of allocate() keep the partition, and hand out n different sets of
\* slots none of which was out before.
LEMMA AllocateKeepsPartition ==
    ASSUME ArenaTypeOK, ArenaPartition, NEW n \in Nat, AllocateSlots(n)
    PROVE  /\ ArenaTypeOK' /\ ArenaPartition'
           /\ \A i \in 1 .. n : NthAllocation(i) \in SlotSet
           /\ \A i \in 1 .. n : \A f \in Families :
                  NthAllocation(i)[f] \notin allocated[f]
           /\ \A i, j \in 1 .. n : \A f \in Families :
                  NthAllocation(i)[f] = NthAllocation(j)[f] => i = j
<1> DEFINE taken(f) == {free[f][i] : i \in 1 .. n}
<1>1. \A f \in Families : free[f] \in Seq(Slot) /\ n \in 0 .. Len(free[f])
  BY DEF ArenaTypeOK, AllocateSlots, CanAdmit
<1>2. \A f \in Families : /\ IsInjective(free[f])
                          /\ taken(f) \subseteq ToSet(free[f])
  BY <1>1 DEF ArenaPartition, ToSet
<1>3. \A f \in Families :
        /\ free'[f] = SubSeq(free[f], n + 1, Len(free[f]))
        /\ allocated'[f] = allocated[f] \cup taken(f)
  BY DEF AllocateSlots, NthAllocation
<1>4. \A f \in Families : /\ free'[f] \in Seq(Slot)
                          /\ IsInjective(free'[f])
                          /\ ToSet(free'[f]) = ToSet(free[f]) \ taken(f)
  <2> TAKE f \in Families
  <2> DEFINE rest == SubSeq(free[f], n + 1, Len(free[f]))
  <2>1. rest \in Seq(Slot)
    BY <1>1, DropFront
  <2>2. IsInjective(rest) /\ ToSet(rest) = ToSet(free[f]) \ taken(f)
    BY <1>1, <1>2, DropFrontInjective
  <2> QED BY <1>3, <2>1, <2>2
<1>5. \A f \in Families : taken(f) \subseteq Slot /\ allocated[f] \subseteq Slot
  BY <1>2 DEF ArenaPartition
<1>6. ArenaTypeOK'
  <2>1. /\ free' = [f \in Families |-> free'[f]]
        /\ allocated' = [f \in Families |-> allocated'[f]]
    BY DEF AllocateSlots
  <2>2. \A f \in Families : allocated'[f] \in SUBSET Slot
    BY <1>3, <1>5
  <2> QED BY <1>4, <2>1, <2>2 DEF ArenaTypeOK
<1>7. ArenaPartition'
  <2> SUFFICES ASSUME NEW f \in Families
               PROVE  /\ IsInjective(free'[f])
                      /\ ToSet(free'[f]) \cap allocated'[f] = {}
                      /\ ToSet(free'[f]) \cup allocated'[f] = Slot
    BY DEF ArenaPartition
  <2>1. /\ ToSet(free[f]) \cap allocated[f] = {}
        /\ ToSet(free[f]) \cup allocated[f] = Slot
    BY DEF ArenaPartition
  <2> HIDE DEF taken
  <2> QED BY <2>1, <1>2, <1>3, <1>4
<1>8. \A i \in 1 .. n : NthAllocation(i) \in SlotSet
  BY <1>1 DEF NthAllocation, SlotSet
<1>9. \A i \in 1 .. n : \A f \in Families :
          NthAllocation(i)[f] \notin allocated[f]
  BY <1>2 DEF NthAllocation, ArenaPartition
<1>10. \A i, j \in 1 .. n : \A f \in Families :
          NthAllocation(i)[f] = NthAllocation(j)[f] => i = j
  BY <1>1, <1>2 DEF NthAllocation, IsInjective
<1> QED BY <1>6, <1>7, <1>8, <1>9, <1>10

\* free() of slots that are out keeps the partition.
LEMMA FreeKeepsPartition ==
    ASSUME ArenaTypeOK, ArenaPartition, NEW s \in SlotSet, FreeSlots(s)
    PROVE  ArenaTypeOK' /\ ArenaPartition'
<1>1. \A f \in Families : /\ free[f] \in Seq(Slot) /\ IsInjective(free[f])
                          /\ s[f] \in Slot /\ s[f] \notin ToSet(free[f])
  BY DEF ArenaTypeOK, ArenaPartition, FreeSlots, SlotSet
<1>2. \A f \in Families : /\ free'[f] = Append(free[f], s[f])
                          /\ allocated'[f] = allocated[f] \ {s[f]}
                          /\ s[f] \in allocated[f]
  BY DEF FreeSlots
<1>3. \A f \in Families : /\ free'[f] \in Seq(Slot)
                          /\ IsInjective(free'[f])
                          /\ ToSet(free'[f]) = ToSet(free[f]) \cup {s[f]}
  <2> TAKE f \in Families
  <2>1. free[f] \in Seq(Slot) /\ IsInjective(free[f])
    BY <1>1
  <2>2. s[f] \in Slot /\ s[f] \notin ToSet(free[f])
    BY <1>1
  <2>3. free'[f] = Append(free[f], s[f])
    BY <1>2
  <2>4. /\ Append(free[f], s[f]) \in Seq(Slot)
        /\ IsInjective(Append(free[f], s[f]))
        /\ ToSet(Append(free[f], s[f])) = ToSet(free[f]) \cup {s[f]}
    <3> DEFINE q == free[f]
               e == s[f]
    <3>1. q \in Seq(Slot) /\ IsInjective(q) /\ e \in Slot /\ e \notin ToSet(q)
      BY <2>1, <2>2
    <3> HIDE DEF q, e
    <3>2. /\ Append(q, e) \in Seq(Slot) /\ IsInjective(Append(q, e))
          /\ ToSet(Append(q, e)) = ToSet(q) \cup {e}
      BY <3>1, AppendFresh
    <3> QED BY <3>2 DEF q, e
  <2> QED BY <2>3, <2>4, Zenon
<1>4. ArenaTypeOK'
  <2>1. /\ free' = [f \in Families |-> free'[f]]
        /\ allocated' = [f \in Families |-> allocated'[f]]
    BY DEF FreeSlots
  <2>2. \A f \in Families : allocated'[f] \in SUBSET Slot
    BY <1>2 DEF ArenaTypeOK
  <2> QED BY <1>3, <2>1, <2>2 DEF ArenaTypeOK
<1>5. ArenaPartition'
  BY <1>2, <1>3 DEF ArenaPartition
<1> QED BY <1>4, <1>5

\* The constructor's arena: everything is free.
LEMMA ArenaStartsPartitioned ==
    ASSUME ArenaInit
    PROVE  ArenaTypeOK /\ ArenaPartition
<1>1. NumSlots \in Nat
  BY ArenaAssumption
<1>2. \A f \in Families : free[f] = [i \in 1 .. NumSlots |-> i]
  BY DEF ArenaInit, Slot
<1>3. \A f \in Families : free[f] \in Seq(Slot) /\ IsInjective(free[f])
                          /\ ToSet(free[f]) = Slot
  <2> TAKE f \in Families
  <2> DEFINE q == [i \in 1 .. NumSlots |-> i]
  <2>1. q \in Seq(Slot)
    BY <1>1 DEF Slot
  <2>2. IsInjective(q)
    BY DEF IsInjective
  <2>3. ToSet(q) = Slot
    BY DEF ToSet, Slot
  <2> QED BY <1>2, <2>1, <2>2, <2>3
<1> QED BY <1>3 DEF ArenaInit, ArenaTypeOK, ArenaPartition

\* Every slot of every family is free once or handed out, whatever the arena's
\* callers do: StateArena.allocate, free and fork never lose or duplicate one.
THEOREM ArenaCorrect == ArenaSpec => [](ArenaTypeOK /\ ArenaPartition)
<1>1. ArenaInit => ArenaTypeOK /\ ArenaPartition
  BY ArenaStartsPartitioned
<1>2. ArenaTypeOK /\ ArenaPartition /\ [ArenaNext]_arenaVars
        => (ArenaTypeOK /\ ArenaPartition)'
  <2> SUFFICES ASSUME ArenaTypeOK, ArenaPartition, [ArenaNext]_arenaVars
               PROVE  (ArenaTypeOK /\ ArenaPartition)'
    OBVIOUS
  <2>1. CASE \E f \in Families : \E n \in DOMAIN free[f] : AllocateSlots(n)
    <3>1. PICK f \in Families : \E n \in DOMAIN free[f] : AllocateSlots(n)
      BY <2>1
    <3>2. PICK n \in DOMAIN free[f] : AllocateSlots(n)
      BY <3>1
    <3>3. n \in Nat
      BY DEF ArenaTypeOK
    <3> QED BY <3>2, <3>3, AllocateKeepsPartition
  <2>2. CASE \E s \in SlotSet : FreeSlots(s)
    BY <2>2, FreeKeepsPartition
  <2>3. CASE \E s \in SlotSet : ForkSlots(s)
    BY <2>3, AllocateKeepsPartition DEF ForkSlots
  <2>4. CASE UNCHANGED arenaVars
    BY <2>4 DEF arenaVars, ArenaTypeOK, ArenaPartition
  <2> QED BY <2>1, <2>2, <2>3, <2>4 DEF ArenaNext
<1> QED BY <1>1, <1>2, PTL DEF ArenaSpec

-----------------------------------------------------------------------------
(***************************************************************************)
(* The scheduler.  That no slot is lost needs the queues to agree with the *)
(* statuses (release() must find its request), and that token counts stay  *)
(* natural needs the gap invariant, which in turn needs a step to hold one *)
(* chunk of a request at most and to be empty between steps.               *)
(***************************************************************************)

Housekeeping ==
    /\ phase = "idle" => batch = << >>
    /\ OneChunkEach
    /\ \A r \in Requests : status[r] = "NEW" => output[r] = 0 /\ computed[r] = 0

IInv ==
    /\ TypeOK
    /\ QueuesMatchStatus
    /\ SlotConservation
    /\ GapInvariant
    /\ Housekeeping

-----------------------------------------------------------------------------
(***************************************************************************)
(* Operators.                                                              *)
(***************************************************************************)

\* min(a, b) of two numbers.
LEMMA MinOfTwo ==
    ASSUME NEW a \in Int, NEW b \in Int
    PROVE  Min({a, b}) = IF a <= b THEN a ELSE b
  BY DEF Min

\* What is left of the budget is a natural number.
LEMMA BudgetLeftNat ==
    ASSUME NEW want, NEW i \in Nat
    PROVE  BudgetLeft(want, i) \in Nat
<1> DEFINE units == (1 .. i - 1) \X (1 .. MaxPerRequest)
           ahead == {u \in units : u[2] <= want[u[1]]}
<1>1. IsFiniteSet(units)
  <2>1. i - 1 \in Int /\ MaxPerRequest \in Int
    BY SchedulerAssumption
  <2>2. IsFiniteSet(1 .. i - 1) /\ IsFiniteSet(1 .. MaxPerRequest)
    BY <2>1, FS_Interval
  <2> QED BY <2>2, FS_Product
<1>2. IsFiniteSet(ahead)
  BY <1>1, FS_Subset
<1>3. Cardinality(ahead) \in Nat
  BY <1>2, FS_CardinalityType
<1> QED BY <1>3, SchedulerAssumption DEF BudgetLeft, WantedBefore

\* A loop over q grants each request at most what it wants.
LEMMA GrantsType ==
    ASSUME NEW q \in Seq(Requests), NEW want \in [DOMAIN q -> Nat]
    PROVE  LET g == Grants(q, want) IN
           /\ g \in Seq(Requests \X Nat) /\ Len(g) = Len(q)
           /\ \A i \in DOMAIN q : g[i][1] = q[i] /\ g[i][2] <= want[i]
<1> DEFINE g == Grants(q, want)
<1>1. \A i \in DOMAIN q : /\ Min({want[i], BudgetLeft(want, i)}) \in Nat
                          /\ Min({want[i], BudgetLeft(want, i)}) <= want[i]
  <2> TAKE i \in DOMAIN q
  <2>1. BudgetLeft(want, i) \in Nat
    BY BudgetLeftNat
  <2> QED BY <2>1, MinOfTwo
<1>2. g = [i \in 1 .. Len(q) |-> <<q[i], Min({want[i], BudgetLeft(want, i)})>>]
  BY DEF Grants
<1>3. \A i \in 1 .. Len(q) : q[i] \in Requests
  OBVIOUS
<1> HIDE DEF g
<1>4. \A i \in 1 .. Len(q) : /\ g[i] \in Requests \X Nat /\ g[i][1] = q[i]
                             /\ g[i][2] <= want[i]
  <2> TAKE i \in 1 .. Len(q)
  <2> DEFINE n == Min({want[i], BudgetLeft(want, i)})
  <2>1. n \in Nat /\ n <= want[i]
    BY <1>1
  <2>2. g[i] = <<q[i], n>> /\ q[i] \in Requests
    BY <1>2, <1>3
  <2> HIDE DEF n
  <2> QED BY <2>1, <2>2
<1>5. g \in [1 .. Len(q) -> Requests \X Nat]
  BY <1>2, <1>4
<1>6. g \in Seq(Requests \X Nat) /\ Len(g) = Len(q)
  BY <1>5
<1> QED BY <1>4, <1>6 DEF g

\* Retiring members leaves a lane a lane.
LEMMA RetiredType ==
    ASSUME lane \in Lane, NEW gone, NEW bad
    PROVE  Retired(gone, bad) \in Lane
<1> DEFINE left    == lane.members \ gone
           spoiled == lane.cancelled \/ bad \cap gone \cap lane.members # {}
<1>1. left \in SUBSET Requests /\ spoiled \in BOOLEAN
  BY DEF Lane
<1> DEFINE held == [lane EXCEPT !.members = left, !.cancelled = spoiled]
           over == [lane EXCEPT !.members = {}, !.cancelled = FALSE]
<1>2. \/ Retired(gone, bad) \in {lane, held}
      \/ Retired(gone, bad) = [over EXCEPT !.cancellations = @ + 1]
      \/ Retired(gone, bad) = [over EXCEPT !.completions = @ + 1]
  BY DEF Retired
<1> HIDE DEF left, spoiled
<1>3. held \in Lane /\ over \in Lane
  BY <1>1 DEF Lane
<1> HIDE DEF over
<1>4. /\ [over EXCEPT !.cancellations = @ + 1] \in Lane
      /\ [over EXCEPT !.completions = @ + 1] \in Lane
  BY <1>3 DEF Lane
<1> QED BY <1>2, <1>3, <1>4

-----------------------------------------------------------------------------
(***************************************************************************)
(* Slots: a step keeps them where they are, returns those of one request,  *)
(* or hands some to requests that own none.                                *)
(***************************************************************************)

\* The empty dict is no set of slots: there is a family.
LEMMA NoSlotsIsNoSet == NoSlots \notin SlotSet
<1>1. ASSUME NoSlots \in SlotSet PROVE FALSE
  <2>1. DOMAIN NoSlots = Families
    BY <1>1 DEF SlotSet
  <2>2. DOMAIN NoSlots = {}
    BY DEF NoSlots
  <2> QED BY <2>1, <2>2, ArenaAssumption
<1> QED BY <1>1

\* A step that touches neither the arena nor who owns what.
LEMMA SlotsKept ==
    ASSUME TypeOK, SlotConservation, UNCHANGED arenaVars, UNCHANGED slots,
           Holders' = Holders
    PROVE  SlotConservation' /\ ArenaTypeOK'
  BY DEF SlotConservation, ArenaPartition, arenaVars, TypeOK, ArenaTypeOK

\* _release and _release_parked.
LEMMA SlotsReturned ==
    ASSUME TypeOK, SlotConservation, NEW r \in Holders, FreeSlots(slots[r]),
           slots' = [slots EXCEPT ![r] = NoSlots], Holders' = Holders \ {r}
    PROVE  /\ SlotConservation' /\ ArenaTypeOK'
           /\ slots' \in [Requests -> SlotSet \cup {NoSlots}]
<1>1. r \in Requests /\ Holders \subseteq Requests
  BY DEF Holders
<1>2. slots[r] \in SlotSet
  BY <1>1 DEF SlotConservation, TypeOK
<1>3. ArenaTypeOK' /\ ArenaPartition'
  BY <1>2, FreeKeepsPartition DEF TypeOK, SlotConservation
<1>4. /\ slots'[r] = NoSlots
      /\ \A q \in Requests \ {r} : slots'[q] = slots[q]
  BY <1>1 DEF TypeOK
<1>5. \A q \in Requests : slots'[q] # NoSlots <=> q \in Holders'
  BY <1>4 DEF SlotConservation
<1>6. \A f \in Families : allocated'[f] = {slots'[q][f] : q \in Holders'}
  <2> TAKE f \in Families
  <2>1. allocated'[f] = allocated[f] \ {slots[r][f]}
    BY DEF FreeSlots
  <2>2. allocated[f] = {slots[q][f] : q \in Holders}
    BY DEF SlotConservation
  <2>3. \A q \in Holders \ {r} : slots[q][f] # slots[r][f]
    BY DEF SlotConservation
  <2>4. \A q \in Holders \ {r} : slots'[q] = slots[q]
    BY <1>1, <1>4
  <2> QED BY <2>1, <2>2, <2>3, <2>4
<1>7. \A p, q \in Holders' : \A f \in Families :
          slots'[p][f] = slots'[q][f] => p = q
  BY <1>1, <1>4 DEF SlotConservation
<1>8. slots' \in [Requests -> SlotSet \cup {NoSlots}]
  BY <1>1 DEF TypeOK
<1> QED BY <1>3, <1>5, <1>6, <1>7, <1>8 DEF SlotConservation

\* What AdmitFirst writes to slots, request by request.
LEMMA AdmittedSlots ==
    ASSUME NEW q \in Seq(Requests), IsInjective(q), NEW k \in 0 .. Len(q),
           NEW old, NEW new,
           new = [r \in Requests |->
                    IF \E i \in 1 .. k : q[i] = r
                    THEN NthAllocation(CHOOSE i \in 1 .. k : q[i] = r)
                    ELSE old[r]]
    PROVE  /\ \A i \in 1 .. k : new[q[i]] = NthAllocation(i)
           /\ \A r \in Requests :
                  (\A i \in 1 .. k : q[i] # r) => new[r] = old[r]
           /\ new = [r \in Requests |-> new[r]]
<1>1. \A i, j \in 1 .. k : q[i] = q[j] => i = j
  BY DEF IsInjective
<1>2. ASSUME NEW i \in 1 .. k PROVE new[q[i]] = NthAllocation(i)
  <2>1. (CHOOSE j \in 1 .. k : q[j] = q[i]) = i
    BY <1>1
  <2>2. q[i] \in Requests
    OBVIOUS
  <2> QED BY <2>1, <2>2
<1> QED BY <1>2

\* k allocations, one for each of the first k requests of a list of requests
\* that own no slots.
LEMMA SlotsTaken ==
    ASSUME TypeOK, SlotConservation, NEW q \in Seq(Requests), IsInjective(q),
           ToSet(q) \cap Holders = {}, NEW k \in 0 .. Len(q), AllocateSlots(k),
           \A i \in 1 .. k : slots'[q[i]] = NthAllocation(i),
           \A r \in Requests :
               (\A i \in 1 .. k : q[i] # r) => slots'[r] = slots[r],
           slots' = [r \in Requests |-> slots'[r]],
           Holders' = Holders \cup {q[i] : i \in 1 .. k}
    PROVE  /\ SlotConservation' /\ ArenaTypeOK'
           /\ slots' \in [Requests -> SlotSet \cup {NoSlots}]
<1>1. /\ ArenaTypeOK' /\ ArenaPartition'
      /\ \A i \in 1 .. k : NthAllocation(i) \in SlotSet
      /\ \A i \in 1 .. k : \A f \in Families :
             NthAllocation(i)[f] \notin allocated[f]
      /\ \A i, j \in 1 .. k : \A f \in Families :
             NthAllocation(i)[f] = NthAllocation(j)[f] => i = j
  <2>1. ArenaTypeOK /\ ArenaPartition
    BY DEF TypeOK, SlotConservation
  <2>2. k \in Nat
    OBVIOUS
  <2> QED BY <2>1, <2>2, AllocateKeepsPartition
<1>2. \A i \in 1 .. k : q[i] \in Requests /\ q[i] \notin Holders
  BY DEF ToSet
<1>6. \A r \in Holders : r \in Requests /\ slots'[r] = slots[r]
  BY <1>2 DEF Holders
<1>7. \A r \in Requests : slots'[r] # NoSlots <=> r \in Holders'
  BY <1>1, NoSlotsIsNoSet DEF SlotConservation
<1>8. \A f \in Families : allocated'[f] = {slots'[r][f] : r \in Holders'}
  <2> TAKE f \in Families
  <2>1. allocated'[f] = allocated[f] \cup {NthAllocation(i)[f] : i \in 1 .. k}
    BY DEF AllocateSlots
  <2>2. allocated[f] = {slots[r][f] : r \in Holders}
    BY DEF SlotConservation
  <2>3. {slots'[r][f] : r \in Holders} = allocated[f]
    BY <1>6, <2>2
  <2>4. {slots'[q[i]][f] : i \in 1 .. k}
          = {NthAllocation(i)[f] : i \in 1 .. k}
    OBVIOUS
  <2> QED BY <2>1, <2>3, <2>4
<1>9. \A p, r \in Holders' : \A f \in Families :
          slots'[p][f] = slots'[r][f] => p = r
  <2>1. ASSUME NEW p \in Holders, NEW r \in Holders, NEW f \in Families,
               slots'[p][f] = slots'[r][f]
        PROVE  p = r
    BY <1>6, <2>1 DEF SlotConservation
  <2>2. ASSUME NEW p \in Holders, NEW i \in 1 .. k, NEW f \in Families
        PROVE  slots'[p][f] # slots'[q[i]][f]
    <3>1. slots[p][f] \in allocated[f]
      BY DEF SlotConservation
    <3> QED BY <1>1, <1>6, <3>1
  <2>3. ASSUME NEW i \in 1 .. k, NEW j \in 1 .. k, NEW f \in Families,
               slots'[q[i]][f] = slots'[q[j]][f]
        PROVE  q[i] = q[j]
    BY <1>1, <2>3
  <2> QED BY <2>1, <2>2, <2>3
<1>10. slots' \in [Requests -> SlotSet \cup {NoSlots}]
  <2>1. ASSUME NEW r \in Requests PROVE slots'[r] \in SlotSet \cup {NoSlots}
    <3>1. CASE \E i \in 1 .. k : q[i] = r
      BY <1>1, <3>1
    <3>2. CASE \A i \in 1 .. k : q[i] # r
      BY <3>2 DEF TypeOK
    <3> QED BY <3>1, <3>2
  <2> QED BY <2>1
<1> QED BY <1>1, <1>7, <1>8, <1>9, <1>10 DEF SlotConservation

-----------------------------------------------------------------------------
(***************************************************************************)
(* Each operation preserves the invariant.                                 *)
(***************************************************************************)

\* Where requests are, read off the queues.
LEMMA Members ==
    ASSUME TypeOK, QueuesMatchStatus, NEW r \in Requests
    PROVE  /\ r \in ToSet(waiting) <=> status[r] = "WAITING"
           /\ r \in ToSet(running) <=> status[r] = "RUNNING"
           /\ r \in parked <=> status[r] = "PARKED"
           /\ r \in Holders <=> status[r] \in {"RUNNING", "PARKED"}
  BY DEF QueuesMatchStatus, Holders

\* The gap invariant of one request, as a fact about its numbers.
GapOK(st, p, o, c, l) ==
    st \in Live =>
      /\ (p + o) - c >= 1
      /\ c < p => o = 0
      /\ ~(c < p) => (p + o) - c = 1
      /\ st = "PARKED" => ~(c < p) /\ o >= 1
      /\ st # "PARKED" => o < l

LEMMA GapUnfolded ==
    /\ GapInvariant <=>
         /\ \A x \in Requests :
              GapOK(status[x], prompt[x], output[x], computed[x], limit[x])
         /\ \A i \in DOMAIN batch : status[batch[i][1]] = "RUNNING" =>
              batch[i][2] <= (prompt[batch[i][1]] + output[batch[i][1]])
                               - computed[batch[i][1]]
    /\ GapInvariant' <=>
         /\ \A x \in Requests :
              GapOK(status'[x], prompt'[x], output'[x], computed'[x], limit'[x])
         /\ \A i \in DOMAIN batch' : status'[batch'[i][1]] = "RUNNING" =>
              batch'[i][2] <= (prompt'[batch'[i][1]] + output'[batch'[i][1]])
                                - computed'[batch'[i][1]]
<1>1. GapInvariant <=>
         /\ \A x \in Requests :
              GapOK(status[x], prompt[x], output[x], computed[x], limit[x])
         /\ \A i \in DOMAIN batch : status[batch[i][1]] = "RUNNING" =>
              batch[i][2] <= (prompt[batch[i][1]] + output[batch[i][1]])
                               - computed[batch[i][1]]
  BY DEF GapInvariant, InBatch, GapOK, Gap, NumTokens, Prefilling
<1>2. GapInvariant' <=>
         /\ \A x \in Requests :
              GapOK(status'[x], prompt'[x], output'[x], computed'[x], limit'[x])
         /\ \A i \in DOMAIN batch' : status'[batch'[i][1]] = "RUNNING" =>
              batch'[i][2] <= (prompt'[batch'[i][1]] + output'[batch'[i][1]])
                                - computed'[batch'[i][1]]
  BY DEF GapInvariant, InBatch, GapOK, Gap, NumTokens, Prefilling
<1> QED BY <1>1, <1>2

LEMMA AddRequestKeeps ==
    ASSUME IInv, NEW r \in Requests, NEW p \in PromptLens,
           NEW m \in OutputLimits, AddRequest(r, p, m)
    PROVE  IInv'
<1>1. /\ TypeOK /\ QueuesMatchStatus /\ SlotConservation /\ GapInvariant
      /\ Housekeeping
  BY DEF IInv
<1>2. p \in Nat \ {0} /\ m \in Nat \ {0}
  BY SchedulerAssumption
<1>3. status[r] = "NEW" /\ status' = [status EXCEPT ![r] = "WAITING"]
  BY DEF AddRequest
<1>4. /\ waiting' \in Seq(Requests) /\ IsInjective(waiting')
      /\ ToSet(waiting') = ToSet(waiting) \cup {r}
  <2>1. waiting \in Seq(Requests) /\ IsInjective(waiting)
    BY <1>1 DEF TypeOK, QueuesMatchStatus
  <2>2. r \notin ToSet(waiting)
    BY <1>1, <1>3, Members
  <2>3. waiting' = Append(waiting, r)
    BY DEF AddRequest
  <2>4. /\ Append(waiting, r) \in Seq(Requests)
        /\ IsInjective(Append(waiting, r))
        /\ ToSet(Append(waiting, r)) = ToSet(waiting) \cup {r}
    BY <2>1, <2>2, AppendFresh, ZenonT(60)
  <2> QED BY <2>3, <2>4, Zenon
<1>5. QueuesMatchStatus'
  BY <1>1, <1>3, <1>4 DEF QueuesMatchStatus, TypeOK, AddRequest
<1>6. SlotConservation' /\ ArenaTypeOK'
  <2>1. Holders' = Holders
    BY <1>1, <1>3 DEF Holders, TypeOK
  <2> QED BY <1>1, <2>1, SlotsKept DEF AddRequest, arenaVars
<1>7. TypeOK'
  BY <1>1, <1>2, <1>3, <1>4, <1>6
  DEF TypeOK, AddRequest, Status, Live, stepVars
<1>8. GapInvariant'
  <2>1. /\ \A x \in Requests \ {r} :
             /\ status'[x] = status[x] /\ limit'[x] = limit[x]
             /\ prompt'[x] = prompt[x]
        /\ status'[r] = "WAITING" /\ prompt'[r] = p /\ limit'[r] = m
        /\ output[r] = 0 /\ computed[r] = 0
        /\ UNCHANGED <<output, computed, batch>>
    BY <1>1, <1>3 DEF AddRequest, TypeOK, Housekeeping, stepVars
  <2>2. ASSUME NEW i \in DOMAIN batch', status'[batch'[i][1]] = "RUNNING"
        PROVE  batch'[i][2] <= (prompt'[batch'[i][1]] + output'[batch'[i][1]])
                                 - computed'[batch'[i][1]]
    <3>1. batch[i][1] \in Requests /\ batch[i][1] # r
      BY <1>1, <2>1, <2>2, SMTT(30) DEF TypeOK
    <3> QED BY <1>1, <2>1, <2>2, <3>1, GapUnfolded
  <2>3. ASSUME NEW x \in Requests
        PROVE  GapOK(status'[x], prompt'[x], output'[x], computed'[x], limit'[x])
    <3>1. CASE x = r
      BY <1>2, <2>1, <3>1 DEF GapOK
    <3>2. CASE x # r
      BY <1>1, <2>1, <3>2, GapUnfolded
    <3> QED BY <3>1, <3>2
  <2> QED BY <2>2, <2>3, GapUnfolded
<1>9. Housekeeping'
  BY <1>1, <1>3
  DEF Housekeeping, OneChunkEach, IsScheduled, TypeOK, AddRequest, stepVars
<1> QED BY <1>5, <1>6, <1>7, <1>8, <1>9 DEF IInv

LEMMA AddResumedRequestKeeps ==
    ASSUME IInv, NEW r \in Requests, NEW p \in PromptLens,
           NEW c \in Nat, NEW m \in OutputLimits,
           AddResumedRequest(r, p, c, m)
    PROVE  IInv'
<1>1. /\ TypeOK /\ QueuesMatchStatus /\ SlotConservation /\ GapInvariant
      /\ Housekeeping
  BY DEF IInv
<1>2. p \in Nat \ {0} /\ m \in Nat \ {0} /\ c < p
  BY SchedulerAssumption DEF AddResumedRequest
<1>3. status[r] = "NEW" /\ status' = [status EXCEPT ![r] = "RUNNING"]
  BY DEF AddResumedRequest
<1>4. /\ running' \in Seq(Requests) /\ IsInjective(running')
      /\ ToSet(running') = ToSet(running) \cup {r}
  <2>1. running \in Seq(Requests) /\ IsInjective(running)
    BY <1>1 DEF TypeOK, QueuesMatchStatus
  <2>2. r \notin ToSet(running)
    BY <1>1, <1>3, Members
  <2>3. running' = Append(running, r)
    BY DEF AddResumedRequest
  <2>4. /\ Append(running, r) \in Seq(Requests)
        /\ IsInjective(Append(running, r))
        /\ ToSet(Append(running, r)) = ToSet(running) \cup {r}
    BY <2>1, <2>2, AppendFresh, ZenonT(60)
  <2> QED BY <2>3, <2>4, Zenon
<1>5. QueuesMatchStatus'
  BY <1>1, <1>3, <1>4 DEF QueuesMatchStatus, TypeOK, AddResumedRequest
<1>6. /\ SlotConservation' /\ ArenaTypeOK'
      /\ slots' \in [Requests -> SlotSet \cup {NoSlots}]
  <2> DEFINE q == <<r>>
  <2>1. q \in Seq(Requests) /\ Len(q) = 1 /\ q[1] = r
    OBVIOUS
  <2>2. IsInjective(q) /\ ToSet(q) = {r}
    BY DEF IsInjective, ToSet
  <2>3. ToSet(q) \cap Holders = {}
    BY <1>1, <1>3, <2>2, Members
  <2> HIDE DEF q
  <2>4. AllocateSlots(1) /\ 1 \in 0 .. Len(q)
    BY <2>1 DEF AddResumedRequest
  <2>5. slots' = [slots EXCEPT ![r] = NthAllocation(1)]
    BY DEF AddResumedRequest
  <2>6. /\ \A i \in 1 .. 1 : slots'[q[i]] = NthAllocation(i)
        /\ \A x \in Requests :
               (\A i \in 1 .. 1 : q[i] # x) => slots'[x] = slots[x]
        /\ slots' = [x \in Requests |-> slots'[x]]
    <3>1. slots'[r] = NthAllocation(1)
      BY <1>1, <2>5 DEF TypeOK
    <3>2. \A x \in Requests : x # r => slots'[x] = slots[x]
      BY <1>1, <2>5 DEF TypeOK
    <3>3. slots' = [x \in Requests |-> slots'[x]]
      BY <1>1, <2>5 DEF TypeOK
    <3>4. \A i \in 1 .. 1 : i = 1
      OBVIOUS
    <3> HIDE DEF q
    <3> QED BY <2>1, <3>1, <3>2, <3>3, <3>4
  <2>7. Holders' = Holders \cup {q[i] : i \in 1 .. 1}
    <3>1. Holders' = Holders \cup {r}
      BY <1>1, <1>3 DEF Holders, TypeOK
    <3>2. {q[i] : i \in 1 .. 1} = {r}
      BY <2>1
    <3> QED BY <3>1, <3>2
  <2> QED BY <1>1, <2>1, <2>2, <2>3, <2>4, <2>6, <2>7, SlotsTaken
<1>7. TypeOK'
  BY <1>1, <1>2, <1>3, <1>4, <1>6
  DEF TypeOK, AddResumedRequest, Status, Live, stepVars
<1>8. GapInvariant'
  BY <1>1, <1>2, <1>3
  DEF GapInvariant, Housekeeping, TypeOK, AddResumedRequest, Live, Gap,
      NumTokens, Prefilling, InBatch, stepVars
<1>9. Housekeeping'
  BY <1>1, <1>3
  DEF Housekeeping, OneChunkEach, IsScheduled, TypeOK, AddResumedRequest,
      stepVars
<1> QED BY <1>5, <1>6, <1>7, <1>8, <1>9 DEF IInv

\* abort_request and fail_request, up to the step's own bookkeeping: entries
\* of the batch may be dropped in the same step, never added.
LEMMA LeaveKeeps ==
    ASSUME IInv, NEW r \in Requests, NEW st \in Finished, Leave(r, st),
           batch' \in Seq(Requests \X Nat),
           phase' \in {"idle", "scheduled", "updating", "failing"},
           phase' = "idle" => batch' = << >>,
           OneChunkEach',
           \A i \in DOMAIN batch' : \E j \in DOMAIN batch : batch'[i] = batch[j]
    PROVE  IInv'
<1>1. /\ TypeOK /\ QueuesMatchStatus /\ SlotConservation /\ GapInvariant
      /\ Housekeeping
  BY DEF IInv
<1>2. /\ status[r] \in Live /\ status' = [status EXCEPT ![r] = st]
      /\ st \notin Live /\ st # "NEW"
  BY DEF Leave, Live, Finished
<1>3. /\ SlotConservation' /\ ArenaTypeOK'
      /\ slots' \in [Requests -> SlotSet \cup {NoSlots}]
  <2>1. CASE status[r] = "WAITING"
    <3>1. Holders' = Holders
      BY <1>1, <1>2, <2>1 DEF Holders, TypeOK, Live
    <3>2. UNCHANGED arenaVars /\ UNCHANGED slots
      BY <2>1 DEF Leave, arenaVars
    <3> QED BY <1>1, <3>1, <3>2, SlotsKept DEF TypeOK
  <2>2. CASE status[r] \in {"RUNNING", "PARKED"}
    <3>1. r \in Holders /\ Holders' = Holders \ {r}
      BY <1>1, <1>2, <2>2 DEF Holders, TypeOK, Live
    <3>2. FreeSlots(slots[r]) /\ slots' = [slots EXCEPT ![r] = NoSlots]
      BY <2>2 DEF Leave, Release, ReleaseParked
    <3> QED BY <1>1, <3>1, <3>2, SlotsReturned
  <2> QED BY <1>2, <2>1, <2>2 DEF Live
<1>4. /\ waiting' \in Seq(Requests) /\ IsInjective(waiting')
      /\ ToSet(waiting') = ToSet(waiting) \ {r}
  <2>1. waiting \in Seq(Requests) /\ IsInjective(waiting)
    BY <1>1 DEF TypeOK, QueuesMatchStatus
  <2>2. CASE status[r] = "WAITING"
    <3>1. waiting' = RemoveFirst(waiting, r) /\ r \in ToSet(waiting)
      BY <1>1, <2>2, Members DEF Leave
    <3> QED BY <2>1, <3>1, RemoveOne
  <2>3. CASE status[r] # "WAITING"
    <3>1. waiting' = waiting /\ r \notin ToSet(waiting)
      BY <1>1, <2>3, Members DEF Leave
    <3> QED BY <2>1, <3>1
  <2> QED BY <2>2, <2>3
<1>5. /\ running' \in Seq(Requests) /\ IsInjective(running')
      /\ ToSet(running') = ToSet(running) \ {r}
  <2>1. running \in Seq(Requests) /\ IsInjective(running)
    BY <1>1 DEF TypeOK, QueuesMatchStatus
  <2>2. CASE status[r] = "RUNNING"
    <3>1. running' = RemoveFirst(running, r) /\ r \in ToSet(running)
      BY <1>1, <2>2, Members DEF Leave, Release
    <3> QED BY <2>1, <3>1, RemoveOne
  <2>3. CASE status[r] # "RUNNING"
    <3>1. running' = running /\ r \notin ToSet(running)
      BY <1>1, <2>3, Members DEF Leave
    <3> QED BY <2>1, <3>1
  <2> QED BY <2>2, <2>3
<1>6. parked' = parked \ {r}
  BY <1>1, <1>2, Members DEF Leave, ReleaseParked, Live
<1>7. QueuesMatchStatus'
  BY <1>1, <1>2, <1>4, <1>5, <1>6 DEF QueuesMatchStatus, TypeOK, Live
<1>8. lane' \in Lane
  <2>1. lane \in Lane
    BY <1>1 DEF TypeOK
  <2>2. \/ lane' = lane
        \/ lane' = Retired({r}, IF Prefilling(r) THEN {r} ELSE {})
    BY DEF Leave
  <2>3. Retired({r}, IF Prefilling(r) THEN {r} ELSE {}) \in Lane
    BY <2>1, RetiredType
  <2> QED BY <2>1, <2>2, <2>3
<1>9. TypeOK'
  <2>1. status' \in [Requests -> Status]
    BY <1>1, <1>2 DEF TypeOK, Status
  <2>2. /\ parked_as' \in [Requests -> Finished \cup {NoStatus}]
        /\ park_on_finish' \subseteq Requests /\ UNCHANGED tokenVars
    BY <1>1 DEF Leave, TypeOK
  <2>3. parked' \subseteq Requests
    BY <1>1, <1>6 DEF TypeOK
  <2> QED BY <1>1, <1>3, <1>4, <1>5, <1>8, <2>1, <2>2, <2>3
      DEF TypeOK, tokenVars
<1>10. GapInvariant'
  <2>1. \A x \in Requests : x # r => status'[x] = status[x]
    BY <1>1, <1>2 DEF TypeOK
  <2>2. status'[r] = st
    BY <1>1, <1>2 DEF TypeOK
  <2>3. UNCHANGED <<prompt, output, limit, computed>>
    BY DEF Leave, tokenVars
  <2>4. ASSUME NEW x \in Requests, status'[x] \in Live
        PROVE  status'[x] = status[x]
    BY <1>2, <2>1, <2>2, <2>4
  <2>5. ASSUME NEW i \in DOMAIN batch', status'[batch'[i][1]] = "RUNNING"
        PROVE  batch'[i][2] <= (prompt'[batch'[i][1]] + output'[batch'[i][1]])
                                 - computed'[batch'[i][1]]
    <3>1. PICK j \in DOMAIN batch : batch'[i] = batch[j]
      OBVIOUS
    <3>2. batch[j][1] \in Requests
      BY <1>1 DEF TypeOK
    <3>3. status[batch[j][1]] = "RUNNING"
      BY <2>4, <2>5, <3>1, <3>2 DEF Live
    <3>4. batch[j][2] <= (prompt[batch[j][1]] + output[batch[j][1]])
                           - computed[batch[j][1]]
      BY <1>1, <3>3, GapUnfolded
    <3> QED BY <2>3, <3>1, <3>4
  <2>6. ASSUME NEW x \in Requests
        PROVE  GapOK(status'[x], prompt'[x], output'[x], computed'[x], limit'[x])
    <3>1. GapOK(status[x], prompt[x], output[x], computed[x], limit[x])
      BY <1>1, GapUnfolded
    <3> QED BY <2>3, <2>4, <3>1 DEF GapOK
  <2> QED BY <2>5, <2>6, GapUnfolded
<1>11. Housekeeping'
  BY <1>1, <1>2 DEF Housekeeping, TypeOK, Leave, tokenVars
<1> QED BY <1>3, <1>7, <1>9, <1>10, <1>11 DEF IInv

LEMMA CloseParkedRequestKeeps ==
    ASSUME IInv, NEW r \in Requests, CloseParkedRequest(r)
    PROVE  IInv'
<1>1. /\ TypeOK /\ QueuesMatchStatus /\ SlotConservation /\ GapInvariant
      /\ Housekeeping
  BY DEF IInv
<1>2. /\ status[r] = "PARKED"
      /\ status' = [status EXCEPT ![r] = "FINISHED_CLOSED"]
      /\ parked' = parked \ {r}
  BY DEF CloseParkedRequest, ReleaseParked
<1>3. QueuesMatchStatus'
  BY <1>1, <1>2 DEF QueuesMatchStatus, TypeOK, CloseParkedRequest
<1>4. /\ SlotConservation' /\ ArenaTypeOK'
      /\ slots' \in [Requests -> SlotSet \cup {NoSlots}]
  <2>1. r \in Holders /\ Holders' = Holders \ {r}
    BY <1>1, <1>2 DEF Holders, TypeOK
  <2> QED BY <1>1, <2>1, SlotsReturned DEF CloseParkedRequest, ReleaseParked
<1>5. TypeOK'
  BY <1>1, <1>2, <1>4
  DEF TypeOK, CloseParkedRequest, Status, Finished, tokenVars, stepVars
<1>6. GapInvariant'
  <2>1. /\ \A x \in Requests \ {r} : status'[x] = status[x]
        /\ status'[r] = "FINISHED_CLOSED"
        /\ UNCHANGED <<prompt, output, limit, computed, batch>>
    BY <1>1, <1>2 DEF CloseParkedRequest, TypeOK, tokenVars, stepVars
  <2>2. ASSUME NEW i \in DOMAIN batch', status'[batch'[i][1]] = "RUNNING"
        PROVE  batch'[i][2] <= (prompt'[batch'[i][1]] + output'[batch'[i][1]])
                                 - computed'[batch'[i][1]]
    <3>1. i \in DOMAIN batch /\ batch[i][1] # r
      BY <2>1, <2>2
    <3>2. batch[i][1] \in Requests
      BY <1>1, <3>1 DEF TypeOK
    <3> QED BY <1>1, <2>1, <2>2, <3>1, <3>2, GapUnfolded
  <2>3. ASSUME NEW x \in Requests
        PROVE  GapOK(status'[x], prompt'[x], output'[x], computed'[x], limit'[x])
    <3>1. CASE x = r
      BY <2>1, <3>1 DEF GapOK, Live
    <3>2. CASE x # r
      BY <1>1, <2>1, <3>2, GapUnfolded
    <3> QED BY <3>1, <3>2
  <2> QED BY <2>2, <2>3, GapUnfolded
<1>7. Housekeeping'
  BY <1>1, <1>2
  DEF Housekeeping, OneChunkEach, IsScheduled, TypeOK, CloseParkedRequest,
      tokenVars, stepVars
<1> QED BY <1>3, <1>4, <1>5, <1>6, <1>7 DEF IInv

LEMMA ContinueSessionKeeps ==
    ASSUME IInv, NEW r \in Requests, NEW t \in SuffixLens,
           NEW m \in OutputLimits, ContinueSession(r, t, m)
    PROVE  IInv'
<1>1. /\ TypeOK /\ QueuesMatchStatus /\ SlotConservation /\ GapInvariant
      /\ Housekeeping
  BY DEF IInv
<1>2. /\ status[r] = "PARKED" /\ status' = [status EXCEPT ![r] = "RUNNING"]
      /\ parked' = parked \ {r}
      /\ batch = << >> /\ batch' = << >>
  BY <1>1 DEF ContinueSession, Housekeeping, stepVars
<1>3. t \in Nat \ {0} /\ m \in Nat \ {0}
  BY SchedulerAssumption
<1>4. /\ running' \in Seq(Requests) /\ IsInjective(running')
      /\ ToSet(running') = ToSet(running) \cup {r}
  <2>1. running \in Seq(Requests) /\ IsInjective(running)
    BY <1>1 DEF TypeOK, QueuesMatchStatus
  <2>2. r \notin ToSet(running)
    BY <1>1, <1>2, Members
  <2>3. running' = Append(running, r)
    BY DEF ContinueSession
  <2>4. /\ Append(running, r) \in Seq(Requests)
        /\ IsInjective(Append(running, r))
        /\ ToSet(Append(running, r)) = ToSet(running) \cup {r}
    BY <2>1, <2>2, AppendFresh, ZenonT(60)
  <2> QED BY <2>3, <2>4, Zenon
<1>5. QueuesMatchStatus'
  BY <1>1, <1>2, <1>4 DEF QueuesMatchStatus, TypeOK, ContinueSession
<1>6. SlotConservation' /\ ArenaTypeOK'
  <2>1. Holders' = Holders
    BY <1>1, <1>2 DEF Holders, TypeOK
  <2> QED BY <1>1, <2>1, SlotsKept DEF ContinueSession, arenaVars
<1>7. /\ \A x \in Requests \ {r} :
           /\ status'[x] = status[x] /\ limit'[x] = limit[x]
           /\ prompt'[x] = prompt[x] /\ output'[x] = output[x]
      /\ status'[r] = "RUNNING" /\ limit'[r] = m /\ output'[r] = 0
      /\ prompt'[r] = (prompt[r] + output[r]) + t
      /\ computed' = computed
      /\ (prompt[r] + output[r]) - computed[r] = 1
  BY <1>1, <1>2 DEF ContinueSession, TypeOK, Gap, NumTokens
<1>8. TypeOK'
  <2>1. prompt[r] \in Nat /\ output[r] \in Nat
    BY <1>1 DEF TypeOK
  <2>2. prompt' \in [Requests -> Nat]
    <3>1. (prompt[r] + output[r]) + t \in Nat
      BY <1>3, <2>1
    <3> QED BY <1>1, <3>1 DEF ContinueSession, NumTokens, TypeOK
  <2> QED BY <1>1, <1>2, <1>3, <1>4, <1>6, <2>2
      DEF TypeOK, ContinueSession, Status, Live, stepVars
<1>9. GapInvariant'
  <2>1. ASSUME NEW x \in Requests
        PROVE  GapOK(status'[x], prompt'[x], output'[x], computed'[x], limit'[x])
    <3>1. CASE x = r
      <4>1. prompt[r] \in Nat /\ output[r] \in Nat /\ computed[r] \in Nat
        BY <1>1 DEF TypeOK
      <4> QED BY <1>3, <1>7, <3>1, <4>1 DEF GapOK
    <3>2. CASE x # r
      BY <1>1, <1>7, <3>2, GapUnfolded
    <3> QED BY <3>1, <3>2
  <2>2. DOMAIN batch' = {}
    BY <1>2
  <2> QED BY <2>1, <2>2, GapUnfolded
<1>10. Housekeeping'
  BY <1>1, <1>2, <1>7
  DEF Housekeeping, OneChunkEach, IsScheduled, ContinueSession, stepVars
<1> QED BY <1>5, <1>6, <1>8, <1>9, <1>10 DEF IInv

-----------------------------------------------------------------------------
(***************************************************************************)
(* The entries of a step.                                                  *)
(***************************************************************************)

\* Dealing with the next entry leaves the later ones, or ends the step.
LEMMA PassEntryKeeps ==
    ASSUME TypeOK, OneChunkEach, NEW i \in DOMAIN batch,
           NEW during \in {"updating", "failing"}, PassEntry(i, during)
    PROVE  /\ batch' \in Seq(Requests \X Nat)
           /\ phase' \in {"idle", "scheduled", "updating", "failing"}
           /\ phase' = "idle" => batch' = << >>
           /\ OneChunkEach'
           /\ \A k \in DOMAIN batch' : \E j \in DOMAIN batch :
                  i < j /\ batch'[k] = batch[j]
<1> DEFINE t == SubSeq(batch, i + 1, Len(batch))
<1>1. batch \in Seq(Requests \X Nat)
  BY DEF TypeOK
<1>2. CASE batch' = << >> /\ phase' = "idle"
  BY <1>2 DEF OneChunkEach
<1>3. CASE batch' = t /\ phase' = during
  <2>1. i \in 0 .. Len(batch) /\ i \in Nat
    BY <1>1
  <2>2. /\ t \in Seq(Requests \X Nat) /\ Len(t) = Len(batch) - i
        /\ \A k \in 1 .. Len(t) : t[k] = batch[k + i]
    BY <1>1, <2>1, DropFront
  <2> HIDE DEF t
  <2>3. DOMAIN batch' = 1 .. Len(t) /\ Len(t) \in Nat
    BY <1>3, <2>2
  <2>4. ASSUME NEW k \in DOMAIN batch'
        PROVE  /\ k + i \in DOMAIN batch /\ i < k + i
               /\ batch'[k] = batch[k + i]
    BY <1>1, <1>3, <2>1, <2>2, <2>3, SMTT(30)
  <2>5. OneChunkEach'
    <3> SUFFICES ASSUME NEW a \in DOMAIN batch', NEW b \in DOMAIN batch',
                        batch'[a][2] > 0, batch'[b][2] > 0,
                        batch'[a][1] = batch'[b][1]
                 PROVE  a = b
      BY DEF OneChunkEach, IsScheduled
    <3>1. a + i = b + i
      BY <2>4 DEF OneChunkEach, IsScheduled
    <3> QED BY <2>1, <2>3, <3>1
  <2>6. /\ batch' \in Seq(Requests \X Nat)
        /\ phase' \in {"updating", "failing"}
    BY <1>3, <2>2
  <2> QED BY <2>4, <2>5, <2>6
<1> QED BY <1>2, <1>3 DEF PassEntry

\* A request that left during the step: its entry is passed over.
LEMMA PassedOver ==
    ASSUME IInv, NEW i \in DOMAIN batch, NEW during \in {"updating", "failing"},
           PassEntry(i, during),
           UNCHANGED <<arenaVars, queueVars, status, parked_as, tokenVars,
                       slots, lane>>
    PROVE  IInv'
<1>1. /\ TypeOK /\ QueuesMatchStatus /\ SlotConservation /\ GapInvariant
      /\ Housekeeping
  BY DEF IInv
<1>2. /\ batch' \in Seq(Requests \X Nat)
      /\ phase' \in {"idle", "scheduled", "updating", "failing"}
      /\ phase' = "idle" => batch' = << >>
      /\ OneChunkEach'
      /\ \A k \in DOMAIN batch' : \E j \in DOMAIN batch :
             i < j /\ batch'[k] = batch[j]
  BY <1>1, PassEntryKeeps DEF Housekeeping
<1>3. SlotConservation' /\ ArenaTypeOK'
  BY <1>1, SlotsKept DEF Holders
<1>4. QueuesMatchStatus'
  BY <1>1 DEF QueuesMatchStatus, queueVars
<1>5. TypeOK'
  BY <1>1, <1>2, <1>3 DEF TypeOK, queueVars, tokenVars
<1>6. GapInvariant'
  <2>1. ASSUME NEW k \in DOMAIN batch', status'[batch'[k][1]] = "RUNNING"
        PROVE  batch'[k][2] <= (prompt'[batch'[k][1]] + output'[batch'[k][1]])
                                 - computed'[batch'[k][1]]
    BY <1>1, <1>2, <2>1, GapUnfolded DEF tokenVars
  <2>2. ASSUME NEW x \in Requests
        PROVE  GapOK(status'[x], prompt'[x], output'[x], computed'[x], limit'[x])
    BY <1>1, GapUnfolded DEF tokenVars
  <2> QED BY <2>1, <2>2, GapUnfolded
<1>7. Housekeeping'
  BY <1>1, <1>2 DEF Housekeeping, tokenVars
<1> QED BY <1>3, <1>4, <1>5, <1>6, <1>7 DEF IInv

LEMMA SkipEntryKeeps ==
    ASSUME IInv, SkipEntry
    PROVE  IInv'
  BY PassedOver DEF SkipEntry

LEMMA FailScheduledKeeps ==
    ASSUME IInv, FailScheduled
    PROVE  IInv'
<1>1. TypeOK /\ OneChunkEach
  BY DEF IInv, Housekeeping
<1>2. PICK i \in DOMAIN batch :
        /\ PassEntry(i, "failing")
        /\ \/ Leave(batch[i][1], "FINISHED_ERROR")
           \/ UNCHANGED <<arenaVars, queueVars, status, parked_as, tokenVars,
                          slots, lane>>
  BY DEF FailScheduled
<1>3. CASE Leave(batch[i][1], "FINISHED_ERROR")
  <2>1. batch[i][1] \in Requests /\ "FINISHED_ERROR" \in Finished
    BY <1>1 DEF TypeOK, Finished
  <2>2. /\ batch' \in Seq(Requests \X Nat)
        /\ phase' \in {"idle", "scheduled", "updating", "failing"}
        /\ phase' = "idle" => batch' = << >>
        /\ OneChunkEach'
        /\ \A k \in DOMAIN batch' : \E j \in DOMAIN batch :
               batch'[k] = batch[j]
    BY <1>1, <1>2, PassEntryKeeps
  <2> QED BY <1>3, <2>1, <2>2, LeaveKeeps
<1> QED BY <1>2, <1>3, PassedOver

\* update_from_output, one entry: the tokens are computed, and the request
\* stays in the batch, parks, or is released.
LEMMA UpdateFromOutputKeeps ==
    ASSUME IInv, UpdateFromOutput
    PROVE  IInv'
<1>1. /\ TypeOK /\ QueuesMatchStatus /\ SlotConservation /\ GapInvariant
      /\ Housekeeping
  BY DEF IInv
<1>2. PICK i \in DOMAIN batch, stop \in BOOLEAN :
        /\ IsScheduled(batch[i]) /\ PassEntry(i, "updating")
        /\ CommitEntry(batch[i][1], batch[i][2], stop)
  BY DEF UpdateFromOutput, IsNextEntry
<1> DEFINE r == batch[i][1]
           n == batch[i][2]
<1>3. r \in Requests /\ n \in Nat /\ n > 0
  BY <1>1, <1>2 DEF TypeOK, IsScheduled
<1>4. /\ batch' \in Seq(Requests \X Nat)
      /\ phase' \in {"idle", "scheduled", "updating", "failing"}
      /\ phase' = "idle" => batch' = << >>
      /\ OneChunkEach'
      /\ \A k \in DOMAIN batch' : \E j \in DOMAIN batch :
             i < j /\ batch'[k] = batch[j]
  BY <1>1, <1>2, PassEntryKeeps DEF Housekeeping
<1>5. /\ status[r] = "RUNNING"
      /\ n <= (prompt[r] + output[r]) - computed[r]
  BY <1>1, <1>2, GapUnfolded DEF CommitEntry, InBatch
<1>6. \A j \in DOMAIN batch : i < j /\ batch[j][1] = r => batch[j][2] = 0
  <2> TAKE j \in DOMAIN batch
  <2> HAVE i < j /\ batch[j][1] = r
  <2>1. /\ batch \in Seq(Requests \X Nat) /\ DOMAIN batch = 1 .. Len(batch)
        /\ Len(batch) \in Nat /\ batch[j] \in Requests \X Nat
    BY <1>1 DEF TypeOK
  <2>2. batch[j][2] \in Nat /\ i # j
    BY <2>1
  <2>3. ~(batch[j][2] > 0)
    BY <1>1, <1>2, <2>2 DEF Housekeeping, OneChunkEach, IsScheduled
  <2> QED BY <2>2, <2>3
<1> DEFINE keeps == UNCHANGED <<arenaVars, running, parked, parked_as, status,
                                slots, lane>>
           st == StatusAfterToken(r, stop)
           leaves == \/ r \in park_on_finish /\ Park(r, st)
                     \/ /\ r \notin park_on_finish /\ Release(r)
                        /\ status' = [status EXCEPT ![r] = st]
                        /\ UNCHANGED <<parked, parked_as>>
<1>7. /\ computed' = [computed EXCEPT ![r] = computed[r] + n]
      /\ UNCHANGED <<waiting, park_on_finish, prompt, limit>>
      /\ \/ /\ (prompt[r] + output[r]) - computed[r] # n
            /\ UNCHANGED output /\ keeps
         \/ /\ (prompt[r] + output[r]) - computed[r] = n
            /\ output' = [output EXCEPT ![r] = output[r] + 1]
            /\ \/ st = "RUNNING" /\ keeps
               \/ st \in Finished /\ leaves
  BY <1>2 DEF CommitEntry, Gap, NumTokens, FinishTurn
<1>8. keeps \/ (st \in Finished /\ leaves)
  BY <1>7
<1>9. lane' \in Lane
  <2>1. lane \in Lane
    BY <1>1 DEF TypeOK
  <2>2. \/ lane' = lane
        \/ lane' = Retired({r}, IF computed[r] + n < prompt[r] THEN {r} ELSE {})
    BY <1>2 DEF CommitEntry, FinishTurn
  <2> QED BY <2>1, <2>2, RetiredType
<1> HIDE DEF r, n
<1>10. ASSUME keeps PROVE QueuesMatchStatus' /\ SlotConservation' /\ ArenaTypeOK'
  <2>1. QueuesMatchStatus'
    BY <1>1, <1>7, <1>10 DEF QueuesMatchStatus
  <2>2. Holders' = Holders
    BY <1>10 DEF Holders
  <2> QED BY <1>1, <1>10, <2>1, <2>2, SlotsKept
<1>11. ASSUME st \in Finished, leaves
       PROVE  /\ running' \in Seq(Requests)
              /\ QueuesMatchStatus' /\ SlotConservation' /\ ArenaTypeOK'
              /\ slots' \in [Requests -> SlotSet \cup {NoSlots}]
  <2>1. /\ running' \in Seq(Requests) /\ IsInjective(running')
        /\ ToSet(running') = ToSet(running) \ {r}
    <3>1. /\ running \in Seq(Requests) /\ IsInjective(running)
          /\ r \in ToSet(running)
      BY <1>1, <1>3, <1>5, Members DEF TypeOK, QueuesMatchStatus
    <3>2. running' = RemoveFirst(running, r)
      BY <1>11 DEF Park, Release
    <3> QED BY <3>1, <3>2, RemoveOne
  <2>2. CASE r \in park_on_finish /\ Park(r, st)
    <3>1. /\ status' = [status EXCEPT ![r] = "PARKED"]
          /\ parked' = parked \cup {r}
          /\ UNCHANGED arenaVars /\ UNCHANGED slots
      BY <2>2 DEF Park
    <3>2. Holders' = Holders
      BY <1>1, <1>3, <1>5, <3>1 DEF Holders, TypeOK
    <3>3. QueuesMatchStatus'
      <4>1. UNCHANGED waiting
        BY <1>7
      <4> HIDE DEF st, leaves, keeps
      <4> QED BY <1>1, <1>3, <1>5, <2>1, <3>1, <4>1
          DEF QueuesMatchStatus, TypeOK
    <3> QED BY <1>1, <2>1, <3>1, <3>2, <3>3, SlotsKept DEF TypeOK
  <2>3. CASE /\ r \notin park_on_finish /\ Release(r)
             /\ status' = [status EXCEPT ![r] = st]
             /\ UNCHANGED <<parked, parked_as>>
    <3>1. /\ st \notin {"WAITING", "RUNNING", "PARKED"}
          /\ FreeSlots(slots[r]) /\ slots' = [slots EXCEPT ![r] = NoSlots]
      BY <1>11, <2>3 DEF Release, Finished
    <3> HIDE DEF st
    <3>2. r \in Holders /\ Holders' = Holders \ {r}
      BY <1>1, <1>3, <1>5, <2>3, <3>1 DEF Holders, TypeOK
    <3>3. QueuesMatchStatus'
      BY <1>1, <1>3, <1>5, <1>7, <2>1, <2>3, <3>1
      DEF QueuesMatchStatus, TypeOK
    <3> QED BY <1>1, <2>1, <3>1, <3>2, <3>3, SlotsReturned
  <2> QED BY <1>11, <2>2, <2>3
<1>12. /\ \A x \in Requests \ {r} :
            /\ status'[x] = status[x] /\ computed'[x] = computed[x]
            /\ output'[x] = output[x]
       /\ computed'[r] = computed[r] + n
       /\ \/ /\ (prompt[r] + output[r]) - computed[r] # n
             /\ output'[r] = output[r] /\ status'[r] = "RUNNING"
          \/ /\ (prompt[r] + output[r]) - computed[r] = n
             /\ output'[r] = output[r] + 1
             /\ \/ status'[r] = "RUNNING" /\ output'[r] < limit[r]
                \/ status'[r] \in Finished \cup {"PARKED"}
  <2>1. /\ status \in [Requests -> Status]
        /\ computed \in [Requests -> Nat] /\ output \in [Requests -> Nat]
        /\ limit[r] \in Nat /\ output[r] \in Nat
    BY <1>1, <1>3 DEF TypeOK
  <2>2. /\ \A x \in Requests \ {r} :
             computed'[x] = computed[x] /\ output'[x] = output[x]
        /\ computed'[r] = computed[r] + n
        /\ \/ /\ (prompt[r] + output[r]) - computed[r] # n
              /\ output'[r] = output[r] /\ keeps
           \/ /\ (prompt[r] + output[r]) - computed[r] = n
              /\ output'[r] = output[r] + 1
              /\ \/ st = "RUNNING" /\ keeps
                 \/ st \in Finished /\ leaves
    BY <1>3, <1>7, <2>1
  <2>3. st = "RUNNING" => output[r] + 1 < limit[r]
    BY <2>1 DEF StatusAfterToken
  <2>4. leaves => \/ status' = [status EXCEPT ![r] = "PARKED"]
                  \/ status' = [status EXCEPT ![r] = st]
    BY DEF Park
  <2> HIDE DEF st, leaves
  <2>5. keeps => status' = status
    OBVIOUS
  <2> HIDE DEF keeps
  <2>6. \A x \in Requests \ {r} : status'[x] = status[x]
    BY <1>3, <2>1, <2>2, <2>4, <2>5
  <2>7. /\ keeps => status'[r] = "RUNNING"
        /\ leaves => status'[r] = "PARKED" \/ status'[r] = st
    BY <1>3, <1>5, <2>1, <2>4, <2>5
  <2> QED BY <2>2, <2>3, <2>6, <2>7
<1>13. /\ prompt[r] \in Nat /\ output[r] \in Nat /\ computed[r] \in Nat
       /\ UNCHANGED <<prompt, limit>>
       /\ GapOK(status[r], prompt[r], output[r], computed[r], limit[r])
  BY <1>1, <1>3, <1>7, GapUnfolded DEF TypeOK
<1> HIDE DEF st, keeps, leaves
<1>14. TypeOK'
  <2>1. /\ computed' \in [Requests -> Nat] /\ output' \in [Requests -> Nat]
        /\ prompt' \in [Requests -> Nat] /\ limit' \in [Requests -> Nat]
    <3>1. computed[r] + n \in Nat /\ output[r] + 1 \in Nat
      BY <1>3, <1>13
    <3> QED BY <1>1, <1>7, <3>1 DEF TypeOK
  <2>2. waiting' \in Seq(Requests) /\ park_on_finish' \subseteq Requests
    BY <1>1, <1>7 DEF TypeOK
  <2>3. ArenaTypeOK'
    BY <1>8, <1>10, <1>11
  <2>4. /\ running' \in Seq(Requests)
        /\ slots' \in [Requests -> SlotSet \cup {NoSlots}]
    <3>1. keeps => UNCHANGED running /\ UNCHANGED slots
      BY DEF keeps
    <3> QED BY <1>1, <1>8, <1>11, <3>1 DEF TypeOK
  <2>5. /\ status' \in [Requests -> Status]
        /\ parked_as' \in [Requests -> Finished \cup {NoStatus}]
        /\ parked' \subseteq Requests
    <3>1. CASE keeps
      BY <1>1, <3>1 DEF TypeOK, keeps
    <3>2. CASE st \in Finished /\ leaves
      <4>1. /\ status' = [status EXCEPT ![r] = "PARKED"] \/
               status' = [status EXCEPT ![r] = st]
            /\ parked_as' = [parked_as EXCEPT ![r] = st] \/
               parked_as' = parked_as
            /\ parked' = parked \cup {r} \/ parked' = parked
        BY <3>2 DEF leaves, Park
      <4>2. st \in Status /\ "PARKED" \in Status
        BY <3>2 DEF Status, Live
      <4> QED BY <1>1, <1>3, <3>2, <4>1, <4>2 DEF TypeOK
    <3> QED BY <1>8, <3>1, <3>2
  <2> QED BY <1>4, <1>9, <2>1, <2>2, <2>3, <2>4, <2>5 DEF TypeOK
<1>15. /\ GapOK(status'[r], prompt'[r], output'[r], computed'[r], limit'[r])
       /\ (prompt'[r] + output'[r]) - computed'[r] >= 1
  <2>1. /\ (prompt[r] + output[r]) - computed[r] >= 1
        /\ computed[r] < prompt[r] => output[r] = 0
        /\ ~(computed[r] < prompt[r]) =>
              (prompt[r] + output[r]) - computed[r] = 1
        /\ output[r] < limit[r]
    BY <1>5, <1>13 DEF GapOK, Live
  <2>2. prompt'[r] = prompt[r] /\ limit'[r] = limit[r]
    BY <1>13
  <2>3. CASE (prompt[r] + output[r]) - computed[r] # n
    <3>1. /\ output'[r] = output[r] /\ computed'[r] = computed[r] + n
          /\ status'[r] = "RUNNING"
      BY <1>12, <2>3
    <3> QED BY <1>3, <1>5, <1>13, <2>1, <2>2, <2>3, <3>1 DEF GapOK
  <2>4. CASE (prompt[r] + output[r]) - computed[r] = n
    <3>1. /\ output'[r] = output[r] + 1 /\ computed'[r] = computed[r] + n
          /\ \/ status'[r] = "RUNNING" /\ output'[r] < limit[r]
             \/ status'[r] \in Finished \cup {"PARKED"}
      BY <1>12, <2>4
    <3>2. /\ (prompt'[r] + output'[r]) - computed'[r] = 1
          /\ ~(computed'[r] < prompt'[r]) /\ output'[r] >= 1
      BY <1>3, <1>13, <2>2, <2>4, <3>1
    <3>3. status'[r] \in Live /\ status'[r] # "PARKED" => output'[r] < limit'[r]
      BY <2>2, <3>1 DEF Live, Finished
    <3> QED BY <3>2, <3>3 DEF GapOK
  <2> QED BY <2>3, <2>4
<1>16. GapInvariant'
  <2>1. ASSUME NEW x \in Requests
        PROVE  GapOK(status'[x], prompt'[x], output'[x], computed'[x], limit'[x])
    BY <1>1, <1>7, <1>12, <1>15, GapUnfolded
  <2>2. ASSUME NEW k \in DOMAIN batch', status'[batch'[k][1]] = "RUNNING"
        PROVE  batch'[k][2] <= (prompt'[batch'[k][1]] + output'[batch'[k][1]])
                                 - computed'[batch'[k][1]]
    <3>1. PICK j \in DOMAIN batch : i < j /\ batch'[k] = batch[j]
      BY <1>4
    <3>2. batch[j][1] \in Requests
      BY <1>1 DEF TypeOK
    <3>3. CASE batch[j][1] = r
      <4>1. batch[j][2] = 0
        BY <1>6, <3>1, <3>3
      <4>2. prompt'[r] \in Nat /\ output'[r] \in Nat /\ computed'[r] \in Nat
        BY <1>3, <1>14 DEF TypeOK
      <4>3. 0 <= (prompt'[r] + output'[r]) - computed'[r]
        BY <1>15, <4>2
      <4>4. batch'[k][1] = r /\ batch'[k][2] = 0
        BY <3>1, <3>3, <4>1
      <4> QED BY <4>3, <4>4
    <3>4. CASE batch[j][1] # r
      BY <1>1, <1>7, <1>12, <2>2, <3>1, <3>2, <3>4, GapUnfolded
    <3> QED BY <3>3, <3>4
  <2> QED BY <2>1, <2>2, GapUnfolded
<1>17. Housekeeping'
  BY <1>1, <1>4, <1>12 DEF Housekeeping, Finished
<1> QED BY <1>8, <1>10, <1>11, <1>14, <1>16, <1>17 DEF IInv

-----------------------------------------------------------------------------
(***************************************************************************)
(* schedule().                                                             *)
(***************************************************************************)

\* A queued request wants something, and no more than its gap.
LEMMA WantOf ==
    ASSUME TypeOK, GapInvariant, NEW r \in Requests,
           status[r] \in {"WAITING", "RUNNING"}
    PROVE  Want(r) \in Nat /\ Want(r) <= (prompt[r] + output[r]) - computed[r]
<1>1. prompt[r] \in Nat /\ output[r] \in Nat /\ computed[r] \in Nat
  BY DEF TypeOK
<1>2. (prompt[r] + output[r]) - computed[r] >= 1
  BY GapUnfolded DEF GapOK, Live
<1> DEFINE gap == (prompt[r] + output[r]) - computed[r]
<1>3. gap \in Int /\ gap >= 1 /\ MaxPerRequest \in Nat
  BY <1>1, <1>2, SchedulerAssumption
<1>4. Want(r) = Min({gap, MaxPerRequest})
  BY DEF Want, Gap, NumTokens
<1> HIDE DEF gap
<1>5. Want(r) = IF gap <= MaxPerRequest THEN gap ELSE MaxPerRequest
  BY <1>3, <1>4, MinOfTwo
<1>6. Want(r) \in Nat /\ Want(r) <= gap
  BY <1>3, <1>5
<1> QED BY <1>6 DEF gap

\* The queues and the slots after k admissions.
LEMMA AdmitFirstKeeps ==
    ASSUME TypeOK, QueuesMatchStatus, SlotConservation,
           NEW k \in 0 .. Len(waiting), AdmitFirst(k), UNCHANGED parked
    PROVE  /\ waiting' \in Seq(Requests) /\ running' \in Seq(Requests)
           /\ slots' \in [Requests -> SlotSet \cup {NoSlots}]
           /\ status' \in [Requests -> Status]
           /\ QueuesMatchStatus' /\ SlotConservation' /\ ArenaTypeOK'
           /\ \A r \in Requests :
                \/ status'[r] = status[r]
                \/ status[r] = "WAITING" /\ status'[r] = "RUNNING"
<1> DEFINE moved == {waiting[i] : i \in 1 .. k}
<1>1. /\ waiting \in Seq(Requests) /\ IsInjective(waiting)
      /\ running \in Seq(Requests) /\ IsInjective(running)
      /\ status \in [Requests -> Status]
  BY DEF TypeOK, QueuesMatchStatus
<1>2. ToSet(running) \cap ToSet(waiting) = {}
  BY DEF QueuesMatchStatus
<1>3. moved \subseteq ToSet(waiting) /\ moved \subseteq Requests
  BY <1>1 DEF ToSet
<1>4. /\ waiting' \in Seq(Requests) /\ IsInjective(waiting')
      /\ ToSet(waiting') = ToSet(waiting) \ moved
  <2> DEFINE t == SubSeq(waiting, k + 1, Len(waiting))
  <2>1. t \in Seq(Requests)
    BY <1>1, DropFront
  <2>2. IsInjective(t) /\ ToSet(t) = ToSet(waiting) \ moved
    BY <1>1, DropFrontInjective
  <2>3. waiting' = t
    BY DEF AdmitFirst
  <2> HIDE DEF t, moved
  <2> QED BY <2>1, <2>2, <2>3
<1>5. /\ running' \in Seq(Requests) /\ IsInjective(running')
      /\ ToSet(running') = ToSet(running) \cup moved
  <2> DEFINE t == running \o SubSeq(waiting, 1, k)
  <2>1. t \in Seq(Requests) /\ IsInjective(t)
        /\ ToSet(t) = ToSet(running) \cup moved
    BY <1>1, <1>2, MoveFront
  <2>2. running' = t
    BY DEF AdmitFirst
  <2> HIDE DEF t, moved
  <2> QED BY <2>1, <2>2
<1>6. /\ \A r \in moved : status'[r] = "RUNNING"
      /\ \A r \in Requests \ moved : status'[r] = status[r]
      /\ DOMAIN status' = Requests
      /\ status' = [r \in Requests |-> status'[r]]
  BY <1>3 DEF AdmitFirst
<1>7. \A r \in moved : status[r] = "WAITING"
  BY <1>3 DEF QueuesMatchStatus
<1> HIDE DEF moved
<1>8. status' \in [Requests -> Status]
  <2>1. \A r \in Requests : status'[r] \in Status
    BY <1>1, <1>6 DEF Status, Live
  <2> QED BY <1>6, <2>1
<1>9. QueuesMatchStatus'
  BY <1>3, <1>4, <1>5, <1>6, <1>7 DEF QueuesMatchStatus
<1>10. Holders' = Holders \cup moved
  BY <1>3, <1>6, <1>7 DEF Holders
<1>11. /\ SlotConservation' /\ ArenaTypeOK'
       /\ slots' \in [Requests -> SlotSet \cup {NoSlots}]
  <2>1. AllocateSlots(k)
    BY DEF AdmitFirst
  <2>2. slots' = [r \in Requests |->
                    IF \E i \in 1 .. k : waiting[i] = r
                    THEN NthAllocation(CHOOSE i \in 1 .. k : waiting[i] = r)
                    ELSE slots[r]]
    BY DEF AdmitFirst
  <2>3. /\ \A i \in 1 .. k : slots'[waiting[i]] = NthAllocation(i)
        /\ \A r \in Requests :
               (\A i \in 1 .. k : waiting[i] # r) => slots'[r] = slots[r]
        /\ slots' = [r \in Requests |-> slots'[r]]
    BY <1>1, <2>2, AdmittedSlots, SMTT(30)
  <2>4. ToSet(waiting) \cap Holders = {}
    BY DEF QueuesMatchStatus, Holders
  <2>5. Holders' = Holders \cup {waiting[i] : i \in 1 .. k}
    BY <1>10 DEF moved
  <2> QED BY <1>1, <2>1, <2>3, <2>4, <2>5, SlotsTaken
<1>12. \A r \in Requests : \/ status'[r] = status[r]
                           \/ status[r] = "WAITING" /\ status'[r] = "RUNNING"
  BY <1>6, <1>7
<1> QED BY <1>4, <1>5, <1>8, <1>9, <1>11, <1>12

\* A step begins with a grant for each request at most, none beyond its gap.
LEMMA ScheduledKeeps ==
    ASSUME IInv, phase = "idle", NEW k \in 0 .. Len(waiting), AdmitFirst(k),
           NEW g \in Seq(Requests \X Nat), BeginStep(g),
           \A i, j \in DOMAIN g :
               g[i][2] > 0 /\ g[j][2] > 0 /\ g[i][1] = g[j][1] => i = j,
           \A i \in DOMAIN g :
               g[i][2] <= (prompt[g[i][1]] + output[g[i][1]]) - computed[g[i][1]],
           lane' \in Lane,
           UNCHANGED <<parked, park_on_finish, parked_as, tokenVars>>
    PROVE  IInv'
<1>1. /\ TypeOK /\ QueuesMatchStatus /\ SlotConservation /\ GapInvariant
      /\ Housekeeping
  BY DEF IInv
<1>2. /\ waiting' \in Seq(Requests) /\ running' \in Seq(Requests)
      /\ slots' \in [Requests -> SlotSet \cup {NoSlots}]
      /\ status' \in [Requests -> Status]
      /\ QueuesMatchStatus' /\ SlotConservation' /\ ArenaTypeOK'
      /\ \A r \in Requests :
           \/ status'[r] = status[r]
           \/ status[r] = "WAITING" /\ status'[r] = "RUNNING"
  BY <1>1, AdmitFirstKeeps
<1>3. UNCHANGED <<parked, park_on_finish, parked_as, prompt, output, limit,
                  computed>>
  BY DEF tokenVars
<1>4. \/ batch' = g /\ phase' = "scheduled"
      \/ batch' = << >> /\ phase' = "idle"
  BY <1>1 DEF BeginStep, Housekeeping, stepVars
<1>5. TypeOK'
  <2>1. /\ batch' \in Seq(Requests \X Nat)
        /\ phase' \in {"idle", "scheduled", "updating", "failing"}
    <3>1. << >> \in Seq(Requests \X Nat)
      OBVIOUS
    <3> QED BY <1>4, <3>1, Zenon
  <2> QED BY <1>1, <1>2, <1>3, <2>1 DEF TypeOK
<1>6. GapInvariant'
  <2>1. ASSUME NEW x \in Requests
        PROVE  GapOK(status'[x], prompt'[x], output'[x], computed'[x], limit'[x])
    <3>1. GapOK(status[x], prompt[x], output[x], computed[x], limit[x])
      BY <1>1, GapUnfolded
    <3> QED BY <1>2, <1>3, <3>1 DEF GapOK, Live
  <2>2. ASSUME NEW i \in DOMAIN batch', status'[batch'[i][1]] = "RUNNING"
        PROVE  batch'[i][2] <= (prompt'[batch'[i][1]] + output'[batch'[i][1]])
                                 - computed'[batch'[i][1]]
    BY <1>3, <1>4
  <2> QED BY <2>1, <2>2, GapUnfolded
<1>7. Housekeeping'
  <2>1. OneChunkEach'
    BY <1>4 DEF OneChunkEach, IsScheduled
  <2>2. \A r \in Requests : status'[r] = "NEW" => output'[r] = 0 /\ computed'[r] = 0
    BY <1>1, <1>2, <1>3 DEF Housekeeping
  <2> QED BY <1>4, <2>1, <2>2 DEF Housekeeping
<1> QED BY <1>2, <1>5, <1>6, <1>7 DEF IInv

\* The queue and the batch, as lists.
LEMMA Queued ==
    ASSUME TypeOK, QueuesMatchStatus
    PROVE  /\ waiting \in Seq(Requests) /\ running \in Seq(Requests)
           /\ IsInjective(waiting) /\ IsInjective(running)
           /\ ToSet(running) \cap ToSet(waiting) = {}
           /\ \A i \in 1 .. Len(running) : status[running[i]] = "RUNNING"
           /\ \A i \in 1 .. Len(waiting) : status[waiting[i]] = "WAITING"
<1>1. /\ waiting \in Seq(Requests) /\ running \in Seq(Requests)
      /\ IsInjective(waiting) /\ IsInjective(running)
      /\ ToSet(waiting) = {r \in Requests : status[r] = "WAITING"}
      /\ ToSet(running) = {r \in Requests : status[r] = "RUNNING"}
  BY DEF TypeOK, QueuesMatchStatus
<1>2. \A i \in 1 .. Len(running) : running[i] \in ToSet(running)
  BY <1>1 DEF ToSet
<1>3. \A i \in 1 .. Len(waiting) : waiting[i] \in ToSet(waiting)
  BY <1>1 DEF ToSet
<1> QED BY <1>1, <1>2, <1>3

LEMMA ScheduleDefaultKeeps ==
    ASSUME IInv, phase = "idle", ScheduleDefault,
           UNCHANGED <<parked, park_on_finish, parked_as, tokenVars>>
    PROVE  IInv'
<1>1. TypeOK /\ QueuesMatchStatus /\ GapInvariant
  BY DEF IInv
<1>2. /\ waiting \in Seq(Requests) /\ running \in Seq(Requests)
      /\ IsInjective(waiting) /\ IsInjective(running)
      /\ ToSet(running) \cap ToSet(waiting) = {}
      /\ \A i \in 1 .. Len(running) : status[running[i]] = "RUNNING"
      /\ \A i \in 1 .. Len(waiting) : status[waiting[i]] = "WAITING"
  BY <1>1, Queued
<1> DEFINE q    == running \o waiting
           want == [i \in DOMAIN q |-> Want(q[i])]
           all  == Grants(q, want)
<1>3. PICK k \in 0 .. Len(waiting) :
        /\ AdmitFirst(k) /\ UNCHANGED lane
        /\ BeginStep(SubSeq(all, 1, Len(running) + k))
  BY DEF ScheduleDefault
<1>4. /\ q \in Seq(Requests) /\ Len(q) = Len(running) + Len(waiting)
      /\ \A i \in DOMAIN q : status[q[i]] \in {"WAITING", "RUNNING"}
  <2>1. /\ q \in Seq(Requests) /\ Len(q) = Len(running) + Len(waiting)
        /\ \A i \in 1 .. Len(running) : q[i] = running[i]
        /\ \A i \in Len(running) + 1 .. Len(running) + Len(waiting) :
               q[i] = waiting[i - Len(running)]
    BY <1>2, Joined
  <2> HIDE DEF q
  <2>2. /\ DOMAIN q = 1 .. Len(running) + Len(waiting)
        /\ Len(running) \in Nat /\ Len(waiting) \in Nat
    BY <1>2, <2>1
  <2>3. ASSUME NEW i \in DOMAIN q PROVE status[q[i]] \in {"WAITING", "RUNNING"}
    <3>1. CASE i <= Len(running)
      BY <1>2, <2>1, <2>2, <3>1
    <3>2. CASE i > Len(running)
      <4>1. i - Len(running) \in 1 .. Len(waiting)
        BY <2>2, <3>2
      <4> QED BY <1>2, <2>1, <2>2, <3>2, <4>1
    <3> QED BY <2>2, <3>1, <3>2
  <2> QED BY <2>1, <2>3
<1>5. IsInjective(q)
  <2>1. SubSeq(waiting, 1, Len(waiting)) = waiting
    BY <1>2
  <2>2. Len(waiting) \in 0 .. Len(waiting)
    BY <1>2
  <2>3. IsInjective(running \o SubSeq(waiting, 1, Len(waiting)))
    BY <1>2, <2>2, MoveFront
  <2> QED BY <2>1, <2>3
<1> HIDE DEF q
<1>6. /\ want \in [DOMAIN q -> Nat]
      /\ \A i \in DOMAIN q :
           want[i] <= (prompt[q[i]] + output[q[i]]) - computed[q[i]]
  <2>1. \A i \in DOMAIN q :
          /\ Want(q[i]) \in Nat
          /\ Want(q[i]) <= (prompt[q[i]] + output[q[i]]) - computed[q[i]]
    BY <1>1, <1>4, WantOf
  <2> QED BY <2>1
<1> HIDE DEF want
<1>7. /\ all \in Seq(Requests \X Nat) /\ Len(all) = Len(q)
      /\ \A i \in DOMAIN q : all[i][1] = q[i] /\ all[i][2] <= want[i]
  BY <1>4, <1>6, GrantsType
<1> HIDE DEF all
<1> DEFINE g == SubSeq(all, 1, Len(running) + k)
<1>8. /\ g \in Seq(Requests \X Nat) /\ DOMAIN g \subseteq DOMAIN q
      /\ \A i \in DOMAIN g : g[i] = all[i]
  <2>1. Len(running) + k \in 0 .. Len(all)
    BY <1>2, <1>4, <1>7
  <2>2. /\ g \in Seq(Requests \X Nat) /\ Len(g) = Len(running) + k
        /\ \A i \in 1 .. Len(running) + k : g[i] = all[i]
    BY <1>7, <2>1, TakeFront
  <2> HIDE DEF g
  <2>3. DOMAIN g = 1 .. Len(running) + k /\ DOMAIN q = 1 .. Len(q)
    BY <1>4, <2>2
  <2> QED BY <1>7, <2>1, <2>2, <2>3, SMTT(30)
<1>9. BeginStep(g)
  BY <1>3
<1> HIDE DEF g
<1>10. \A i, j \in DOMAIN g :
           g[i][2] > 0 /\ g[j][2] > 0 /\ g[i][1] = g[j][1] => i = j
  <2> TAKE i, j \in DOMAIN g
  <2> HAVE g[i][2] > 0 /\ g[j][2] > 0 /\ g[i][1] = g[j][1]
  <2>1. i \in DOMAIN q /\ j \in DOMAIN q /\ q[i] = q[j]
    BY <1>7, <1>8
  <2> QED BY <1>5, <2>1 DEF IsInjective
<1>11. \A i \in DOMAIN g :
           g[i][2] <= (prompt[g[i][1]] + output[g[i][1]]) - computed[g[i][1]]
  <2> TAKE i \in DOMAIN g
  <2>1. /\ i \in DOMAIN q /\ g[i][1] = q[i] /\ g[i][2] <= want[i]
        /\ g[i][2] \in Nat /\ q[i] \in Requests
    BY <1>4, <1>7, <1>8
  <2>2. /\ prompt[q[i]] \in Nat /\ output[q[i]] \in Nat
        /\ computed[q[i]] \in Nat /\ want[i] \in Nat
    BY <1>1, <1>6, <2>1 DEF TypeOK
  <2>3. want[i] <= (prompt[q[i]] + output[q[i]]) - computed[q[i]]
    BY <1>6, <2>1
  <2> QED BY <2>1, <2>2, <2>3
<1>12. lane' \in Lane
  BY <1>1, <1>3 DEF TypeOK
<1> QED BY <1>3, <1>8, <1>9, <1>10, <1>11, <1>12, ScheduledKeeps

\* The members a lane keeps are prefills.
LEMMA KeptArePrefills ==
    ASSUME TypeOK, NEW r \in Retired(LaneLeavers, LaneSpoilers).members
    PROVE  Prefilling(r)
<1> DEFINE gone == LaneLeavers
           kept == Retired(gone, LaneSpoilers)
<1>1. lane \in Lane
  BY DEF TypeOK
<1>2. kept.members = lane.members \ gone
  <2> HIDE DEF gone
  <2> QED BY <1>1 DEF Retired, Lane
<1> QED BY <1>2 DEF LaneLeavers

\* The members of the lane of a step are prefills or were just admitted.
LEMMA LaneOfStep ==
    ASSUME TypeOK, NEW k \in 0 .. Len(waiting),
           LET kept == Retired(LaneLeavers, LaneSpoilers) IN
           lane' = IF kept.members = {} THEN LaneRefill(kept, k) ELSE kept
    PROVE  /\ lane' \in Lane
           /\ \A r \in lane'.members :
                Prefilling(r) \/ \E i \in 1 .. k : waiting[i] = r
<1> DEFINE kept == Retired(LaneLeavers, LaneSpoilers)
           admitted == {waiting[i] : i \in 1 .. k}
           members == FirstPrefills \cup admitted
<1>1. kept \in Lane
  BY RetiredType DEF TypeOK
<1>2. \A r \in kept.members : Prefilling(r)
  BY KeptArePrefills
<1>3. /\ FirstPrefills \subseteq Requests
      /\ \A r \in FirstPrefills : Prefilling(r)
  <2>1. \A i \in DOMAIN running : running[i] \in Requests
    BY DEF TypeOK
  <2> QED BY <2>1 DEF FirstPrefills
<1>4. /\ admitted \subseteq Requests
      /\ \A r \in admitted : \E i \in 1 .. k : waiting[i] = r
  <2>1. waiting \in Seq(Requests)
    BY DEF TypeOK
  <2>2. \A i \in 1 .. k : waiting[i] \in Requests
    BY <2>1
  <2> QED BY <2>2
<1>5. lane' = kept \/ lane' = [kept EXCEPT !.members = members,
                                           !.starts = kept.starts + 1]
  BY DEF LaneRefill
<1> HIDE DEF kept, admitted
<1>6. members \in SUBSET Requests /\ kept.starts + 1 \in Nat
  BY <1>1, <1>3, <1>4 DEF Lane
<1>7. CASE lane' = kept
  BY <1>1, <1>2, <1>7
<1>8. CASE lane' = [kept EXCEPT !.members = members, !.starts = kept.starts + 1]
  <2>1. lane'.members = members /\ lane' \in Lane
    BY <1>1, <1>6, <1>8 DEF Lane
  <2> QED BY <1>3, <1>4, <2>1
<1> QED BY <1>5, <1>7, <1>8

LEMMA ScheduleCompletionPrefillLaneKeeps ==
    ASSUME IInv, phase = "idle", ScheduleCompletionPrefillLane,
           UNCHANGED <<parked, park_on_finish, parked_as, tokenVars>>
    PROVE  IInv'
<1>1. TypeOK /\ QueuesMatchStatus /\ SlotConservation /\ GapInvariant
  BY DEF IInv
<1>2. /\ waiting \in Seq(Requests) /\ running \in Seq(Requests)
      /\ IsInjective(waiting) /\ IsInjective(running)
      /\ ToSet(running) \cap ToSet(waiting) = {}
      /\ \A i \in 1 .. Len(running) : status[running[i]] = "RUNNING"
      /\ \A i \in 1 .. Len(waiting) : status[waiting[i]] = "WAITING"
  BY <1>1, Queued
<1> DEFINE kept == Retired(LaneLeavers, LaneSpoilers)
           L    == Len(running)
           Q(k) == running \o running \o SubSeq(waiting, 1, k)
           W(k) == [i \in DOMAIN Q(k) |->
                      IF \/ i <= L /\ ~Prefilling(Q(k)[i])
                         \/ i > L /\ Q(k)[i] \in lane'.members
                      THEN Want(Q(k)[i]) ELSE 0]
<1>3. PICK k \in 0 .. Len(waiting) :
        /\ AdmitFirst(k)
        /\ lane' = IF kept.members = {} THEN LaneRefill(kept, k) ELSE kept
        /\ BeginStep(Grants(Q(k), W(k)))
  BY DEF ScheduleCompletionPrefillLane
<1> DEFINE q    == Q(k)
           want == W(k)
           g    == Grants(q, want)
<1>4. /\ lane' \in Lane
      /\ \A r \in lane'.members :
           Prefilling(r) \/ \E i \in 1 .. k : waiting[i] = r
  BY <1>1, <1>3, LaneOfStep
<1>5. /\ q \in Seq(Requests) /\ Len(q) = L + (L + k) /\ L \in Nat /\ k \in Nat
      /\ DOMAIN q = 1 .. L + (L + k)
      /\ \A i \in 1 .. L : q[i] = running[i]
      /\ \A i \in L + 1 .. L + (L + k) : q[i] = running'[i - L]
  <2> DEFINE t == running \o SubSeq(waiting, 1, k)
  <2>1. t \in Seq(Requests) /\ Len(t) = L + k
    BY <1>2
  <2>2. q = running \o t
    BY <1>2, SMTT(30)
  <2>3. running' = t
    BY <1>3 DEF AdmitFirst
  <2> HIDE DEF t, q
  <2>4. /\ q \in Seq(Requests) /\ Len(q) = L + Len(t)
        /\ \A i \in 1 .. L : q[i] = running[i]
        /\ \A i \in L + 1 .. L + Len(t) : q[i] = t[i - L]
    <3>1. running \in Seq(Requests) /\ t \in Seq(Requests)
      BY <1>2, <2>1
    <3>2. /\ running \o t \in Seq(Requests)
          /\ Len(running \o t) = Len(running) + Len(t)
          /\ \A i \in 1 .. Len(running) : (running \o t)[i] = running[i]
          /\ \A i \in Len(running) + 1 .. Len(running) + Len(t) :
                 (running \o t)[i] = t[i - Len(running)]
      BY <3>1, Joined, Zenon
    <3> QED BY <2>2, <3>2, Zenon
  <2>5. L \in Nat /\ k \in Nat /\ DOMAIN q = 1 .. Len(q)
    BY <1>2, <2>4
  <2> QED BY <2>1, <2>3, <2>4, <2>5
<1>6. /\ IsInjective(running') /\ DOMAIN running' = 1 .. L + k
      /\ \A i \in 1 .. L + k : status[running'[i]] \in {"WAITING", "RUNNING"}
  <2> DEFINE t == running \o SubSeq(waiting, 1, k)
  <2>1. /\ t \in Seq(Requests) /\ IsInjective(t) /\ Len(t) = L + k
        /\ ToSet(t) = ToSet(running) \cup {waiting[i] : i \in 1 .. k}
    BY <1>2, MoveFront
  <2>2. running' = t
    BY <1>3 DEF AdmitFirst
  <2> HIDE DEF t
  <2>3. \A i \in 1 .. L + k : t[i] \in ToSet(t)
    BY <2>1 DEF ToSet
  <2>4. \A r \in ToSet(running) : status[r] = "RUNNING"
    BY <1>1 DEF QueuesMatchStatus
  <2>5. DOMAIN t = 1 .. L + k
    BY <2>1
  <2>6. \A r \in {waiting[i] : i \in 1 .. k} : status[r] = "WAITING"
    BY <1>2
  <2> QED BY <2>1, <2>2, <2>3, <2>4, <2>5, <2>6
<1> HIDE DEF q, kept
<1>7. \A i \in DOMAIN q : status[q[i]] \in {"WAITING", "RUNNING"}
  <2> TAKE i \in DOMAIN q
  <2>1. CASE i <= L
    BY <1>2, <1>5, <2>1
  <2>2. CASE i > L
    <3>1. i - L \in 1 .. L + k /\ i \in L + 1 .. L + (L + k)
      BY <1>5, <2>2
    <3> QED BY <1>5, <1>6, <3>1
  <2> QED BY <1>5, <2>1, <2>2
<1>8. /\ want \in [DOMAIN q -> Nat]
      /\ \A i \in DOMAIN q :
           /\ want[i] <= (prompt[q[i]] + output[q[i]]) - computed[q[i]]
           /\ want[i] > 0 => \/ i <= L /\ ~Prefilling(q[i])
                             \/ i > L /\ q[i] \in lane'.members
  <2>1. \A i \in DOMAIN q :
          /\ Want(q[i]) \in Nat
          /\ Want(q[i]) <= (prompt[q[i]] + output[q[i]]) - computed[q[i]]
          /\ 0 <= (prompt[q[i]] + output[q[i]]) - computed[q[i]]
    <3> TAKE i \in DOMAIN q
    <3>1. q[i] \in Requests
      BY <1>5
    <3>2. /\ Want(q[i]) \in Nat
          /\ Want(q[i]) <= (prompt[q[i]] + output[q[i]]) - computed[q[i]]
      BY <1>1, <1>7, <3>1, WantOf
    <3>3. /\ prompt[q[i]] \in Nat /\ output[q[i]] \in Nat
          /\ computed[q[i]] \in Nat
      BY <1>1, <3>1 DEF TypeOK
    <3> QED BY <3>2, <3>3
  <2>2. want = [i \in DOMAIN q |->
                  IF \/ i <= L /\ ~Prefilling(q[i])
                     \/ i > L /\ q[i] \in lane'.members
                  THEN Want(q[i]) ELSE 0]
    BY DEF q
  <2> HIDE DEF want, L
  <2> QED BY <2>1, <2>2
<1> HIDE DEF want
<1>9. /\ g \in Seq(Requests \X Nat) /\ Len(g) = Len(q)
       /\ \A i \in DOMAIN q : g[i][1] = q[i] /\ g[i][2] <= want[i]
  BY <1>5, <1>8, GrantsType
<1>10. BeginStep(g)
  BY <1>3 DEF q, want
<1> HIDE DEF g
<1>11. DOMAIN g = DOMAIN q
  BY <1>5, <1>9
<1>12. \A i \in DOMAIN g :
           g[i][2] <= (prompt[g[i][1]] + output[g[i][1]]) - computed[g[i][1]]
  <2> TAKE i \in DOMAIN g
  <2>1. /\ i \in DOMAIN q /\ g[i][1] = q[i] /\ g[i][2] <= want[i]
        /\ g[i][2] \in Nat /\ q[i] \in Requests
    BY <1>5, <1>9, <1>11
  <2>2. /\ prompt[q[i]] \in Nat /\ output[q[i]] \in Nat
        /\ computed[q[i]] \in Nat /\ want[i] \in Nat
    BY <1>1, <1>8, <2>1 DEF TypeOK
  <2>3. want[i] <= (prompt[q[i]] + output[q[i]]) - computed[q[i]]
    BY <1>8, <2>1
  <2> QED BY <2>1, <2>2, <2>3
\* A request of the batch occurs twice, but is a decode in the first pass or
\* a prefill of the lane in the second.
<1>13. \A i, j \in DOMAIN g : i <= L /\ want[i] > 0 /\ q[i] = q[j] /\ want[j] > 0
                                => j <= L
  <2> TAKE i, j \in DOMAIN g
  <2> HAVE i <= L /\ want[i] > 0 /\ q[i] = q[j] /\ want[j] > 0
  <2>1. ~Prefilling(q[i]) /\ i \in 1 .. L /\ j \in DOMAIN q
    BY <1>5, <1>8, <1>11
  <2>2. q[i] = running[i] /\ status[running[i]] = "RUNNING"
    BY <1>2, <1>5, <2>1
  <2>3. \A m \in 1 .. k : status[waiting[m]] = "WAITING"
    BY <1>2
  <2>4. \A m \in 1 .. k : waiting[m] # q[i]
    BY <2>2, <2>3
  <2>5. q[j] \notin lane'.members
    BY <1>4, <2>1, <2>4
  <2> QED BY <1>8, <2>1, <2>5
<1>14. \A i, j \in DOMAIN g :
           g[i][2] > 0 /\ g[j][2] > 0 /\ g[i][1] = g[j][1] => i = j
  <2> TAKE i, j \in DOMAIN g
  <2> HAVE g[i][2] > 0 /\ g[j][2] > 0 /\ g[i][1] = g[j][1]
  <2>1. /\ i \in DOMAIN q /\ j \in DOMAIN q /\ q[i] = q[j]
        /\ want[i] > 0 /\ want[j] > 0
    <3>1. /\ g[i][2] \in Nat /\ g[j][2] \in Nat
          /\ i \in DOMAIN q /\ j \in DOMAIN q
      BY <1>9, <1>11
    <3> QED BY <1>8, <1>9, <3>1
  <2>2. (i <= L) <=> (j <= L)
    BY <1>13, <2>1
  <2>3. CASE i <= L /\ j <= L
    BY <1>2, <1>5, <2>1, <2>3, SMTT(30) DEF IsInjective
  <2>4. CASE i > L /\ j > L
    <3>1. /\ i - L \in DOMAIN running' /\ j - L \in DOMAIN running'
          /\ i \in L + 1 .. L + (L + k) /\ j \in L + 1 .. L + (L + k)
      BY <1>5, <1>6, <2>1, <2>4
    <3>2. running'[i - L] = running'[j - L]
      BY <1>5, <2>1, <3>1
    <3>3. i - L = j - L
      BY <1>6, <3>1, <3>2 DEF IsInjective
    <3> QED BY <1>5, <3>1, <3>3
  <2> QED BY <1>5, <2>1, <2>2, <2>3, <2>4
<1> QED BY <1>3, <1>4, <1>9, <1>10, <1>12, <1>14, ScheduledKeeps

-----------------------------------------------------------------------------
(***************************************************************************)
(* The invariant holds from the start and is never broken.                 *)
(***************************************************************************)

LEMMA InitEstablishes ==
    ASSUME Init
    PROVE  IInv
<1>1. ArenaTypeOK /\ ArenaPartition
  BY ArenaStartsPartitioned DEF Init
<1>2. /\ waiting = << >> /\ running = << >> /\ batch = << >>
      /\ \A r \in Requests : status[r] = "NEW" /\ slots[r] = NoSlots
      /\ \A r \in Requests : output[r] = 0 /\ computed[r] = 0
      /\ parked = {}
  BY DEF Init
<1>3. TypeOK
  <2>1. /\ << >> \in Seq(Requests) /\ << >> \in Seq(Requests \X Nat)
    OBVIOUS
  <2>2. /\ status \in [Requests -> Status]
        /\ parked_as \in [Requests -> Finished \cup {NoStatus}]
    BY DEF Init, Status
  <2>3. slots \in [Requests -> SlotSet \cup {NoSlots}]
    BY DEF Init
  <2>4. /\ prompt \in [Requests -> Nat] /\ output \in [Requests -> Nat]
        /\ limit \in [Requests -> Nat] /\ computed \in [Requests -> Nat]
    BY DEF Init
  <2>5. lane \in Lane
    BY DEF Init, Lane
  <2>6. /\ waiting \in Seq(Requests) /\ running \in Seq(Requests)
        /\ batch \in Seq(Requests \X Nat)
    BY <1>2, <2>1, Zenon
  <2>7. /\ parked \subseteq Requests /\ park_on_finish \subseteq Requests
        /\ phase \in {"idle", "scheduled", "updating", "failing"}
    BY DEF Init
  <2> QED BY <1>1, <2>2, <2>3, <2>4, <2>5, <2>6, <2>7 DEF TypeOK
<1>4. QueuesMatchStatus
  <2>1. ToSet(waiting) = {} /\ ToSet(running) = {}
    BY <1>2 DEF ToSet
  <2>2. IsInjective(waiting) /\ IsInjective(running)
    BY <1>2 DEF IsInjective
  <2> QED BY <1>2, <2>1, <2>2 DEF QueuesMatchStatus
<1>5. SlotConservation
  <2>1. Holders = {}
    BY <1>2 DEF Holders
  <2>2. \A f \in Families : allocated[f] = {}
    BY DEF Init, ArenaInit
  <2> QED BY <1>1, <1>2, <2>1, <2>2 DEF SlotConservation
<1>6. GapInvariant
  BY <1>2 DEF GapInvariant, Live
<1>7. Housekeeping
  BY <1>2 DEF Housekeeping, OneChunkEach
<1> QED BY <1>3, <1>4, <1>5, <1>6, <1>7 DEF IInv

LEMMA LeavingCallKeeps ==
    ASSUME IInv, NEW r \in Requests, NEW st \in Finished, Leave(r, st),
           UNCHANGED stepVars
    PROVE  IInv'
<1>1. TypeOK /\ Housekeeping
  BY DEF IInv
<1>2. /\ batch' = batch /\ phase' = phase /\ OneChunkEach'
  BY <1>1 DEF Housekeeping, OneChunkEach, IsScheduled, stepVars
<1>3. /\ batch' \in Seq(Requests \X Nat)
      /\ phase' \in {"idle", "scheduled", "updating", "failing"}
      /\ phase' = "idle" => batch' = << >>
      /\ \A i \in DOMAIN batch' : \E j \in DOMAIN batch : batch'[i] = batch[j]
  BY <1>1, <1>2 DEF TypeOK, Housekeeping
<1> QED BY <1>2, <1>3, LeaveKeeps

LEMMA NextKeeps ==
    ASSUME IInv, [Next]_vars
    PROVE  IInv'
<1>1. ASSUME NEW r \in Requests, NEW p \in PromptLens, NEW m \in OutputLimits,
             AddRequest(r, p, m)
      PROVE  IInv'
  BY <1>1, AddRequestKeeps
<1>2. ASSUME NEW r \in Requests, NEW p \in PromptLens, NEW m \in OutputLimits,
             NEW c \in 0 .. MaxPrompt, AddResumedRequest(r, p, c, m)
      PROVE  IInv'
  BY <1>2, AddResumedRequestKeeps
<1>3. ASSUME NEW r \in Requests, NEW t \in SuffixLens, NEW m \in OutputLimits,
             ContinueSession(r, t, m)
      PROVE  IInv'
  BY <1>3, ContinueSessionKeeps
<1>4. ASSUME NEW r \in Requests, AbortRequest(r) \/ FailRequest(r)
      PROVE  IInv'
  <2>1. "FINISHED_ABORTED" \in Finished /\ "FINISHED_ERROR" \in Finished
    BY DEF Finished
  <2> QED BY <1>4, <2>1, LeavingCallKeeps DEF AbortRequest, FailRequest
<1>5. ASSUME NEW r \in Requests, CloseParkedRequest(r)
      PROVE  IInv'
  BY <1>5, CloseParkedRequestKeeps
<1>6. CASE Schedule
  <2>1. /\ phase = "idle" /\ (ScheduleDefault \/ ScheduleCompletionPrefillLane)
        /\ UNCHANGED <<parked, park_on_finish, parked_as, tokenVars>>
    BY <1>6 DEF Schedule
  <2> QED BY <2>1, ScheduleDefaultKeeps, ScheduleCompletionPrefillLaneKeeps
<1>7. CASE UpdateFromOutput
  BY <1>7, UpdateFromOutputKeeps
<1>8. CASE SkipEntry
  BY <1>8, SkipEntryKeeps
<1>9. CASE FailScheduled
  BY <1>9, FailScheduledKeeps
<1>10. CASE UNCHANGED vars
  <2>1. TypeOK'
    BY <1>10 DEF vars, IInv, TypeOK, ArenaTypeOK
  <2>2. QueuesMatchStatus'
    BY <1>10 DEF vars, IInv, QueuesMatchStatus
  <2>3. SlotConservation'
    <3>1. UNCHANGED arenaVars /\ UNCHANGED slots /\ Holders' = Holders
      BY <1>10 DEF vars, arenaVars, Holders
    <3> QED BY <3>1, SlotsKept DEF IInv
  <2>4. GapInvariant'
    BY <1>10, GapUnfolded DEF vars, IInv
  <2>5. Housekeeping'
    BY <1>10 DEF vars, IInv, Housekeeping, OneChunkEach, IsScheduled
  <2> QED BY <2>1, <2>2, <2>3, <2>4, <2>5 DEF IInv
<1> QED BY <1>1, <1>2, <1>3, <1>4, <1>5, <1>6, <1>7, <1>8, <1>9, <1>10
    DEF Next, CallScheduler, Step

LEMMA Inductive == Spec => []IInv
  BY InitEstablishes, NextKeeps, PTL DEF Spec

-----------------------------------------------------------------------------
(***************************************************************************)
(* The theorems.                                                           *)
(***************************************************************************)

\* Queues, statuses, slots, counts and grants keep their types; in particular
\* no count of tokens and no grant is ever negative.
THEOREM SchedulerTypes == Spec => []TypeOK
  BY Inductive, PTL DEF IInv

\* The waiting deque, the batch and the parked dict agree with the statuses
\* after any sequence of calls (core/scheduler.py).
THEOREM QueuesAgree == Spec => []QueuesMatchStatus
  BY Inductive, PTL DEF IInv

\* The scheduler and the arena neither lose, share nor free a slot twice, for
\* any number of slots, requests and state families.
THEOREM SlotsConserved == Spec => []SlotConservation
  BY Inductive, PTL DEF IInv

\* The one scheduling invariant of core/request.py: every live request has a
\* gap to close, and no grant in flight exceeds it.
THEOREM GapsClose == Spec => []GapInvariant
  BY Inductive, PTL DEF IInv

-----------------------------------------------------------------------------
(***************************************************************************)
(* What one step of the scheduler computes: the token budget, the          *)
(* completion-prefill lane, and which requests a step may touch.           *)
(*                                                                         *)
(* Tokens are counted as sets, so that a bound on what is granted is an    *)
(* injection: the tokens wanted are ranked in the order of the loop, and   *)
(* those of rank at most MaxTokensPerStep are the ones granted.            *)
(***************************************************************************)

\* add_resumed_request, resume and admission leave a batch of at most
\* max_running_requests.
BatchFits == Len(running) <= MaxRunning

BatchInv == IInv /\ BatchFits /\ LaneAccounts /\ LaneFullyFunded /\ BudgetRespected

-----------------------------------------------------------------------------
(***************************************************************************)
(* Counting the tokens of a loop over a queue.                             *)
(***************************************************************************)

\* The tokens wanted ahead of i, which WantedBefore counts.
Ahead(want, i) == {u \in (1 .. i - 1) \X (1 .. MaxPerRequest) : u[2] <= want[u[1]]}

LEMMA AheadIsFinite ==
    ASSUME NEW want, NEW i \in Nat
    PROVE  /\ IsFiniteSet(Ahead(want, i))
           /\ WantedBefore(want, i) = Cardinality(Ahead(want, i))
           /\ WantedBefore(want, i) \in Nat
<1> DEFINE units == (1 .. i - 1) \X (1 .. MaxPerRequest)
<1>1. IsFiniteSet(units)
  <2>1. i - 1 \in Int /\ MaxPerRequest \in Int
    BY SchedulerAssumption
  <2>2. IsFiniteSet(1 .. i - 1) /\ IsFiniteSet(1 .. MaxPerRequest)
    BY <2>1, FS_Interval
  <2> QED BY <2>2, FS_Product
<1>2. Ahead(want, i) \in SUBSET units
  BY DEF Ahead
<1>3. IsFiniteSet(Ahead(want, i))
  BY <1>1, <1>2, FS_Subset
<1>4. WantedBefore(want, i) = Cardinality(Ahead(want, i))
  BY DEF WantedBefore, Ahead
<1> QED BY <1>3, <1>4, FS_CardinalityType

\* Further down the queue more is wanted ahead.
LEMMA WantedGrows ==
    ASSUME NEW want, NEW i \in Nat, NEW j \in Nat, i <= j
    PROVE  WantedBefore(want, i) <= WantedBefore(want, j)
<1>1. Ahead(want, i) \in SUBSET Ahead(want, j)
  <2>1. 1 .. i - 1 \subseteq 1 .. j - 1
    OBVIOUS
  <2> QED BY <2>1 DEF Ahead
<1>2. IsFiniteSet(Ahead(want, j))
  BY AheadIsFinite
<1>3. Cardinality(Ahead(want, i)) <= Cardinality(Ahead(want, j))
  BY <1>1, <1>2, FS_Subset
<1> QED BY <1>3, AheadIsFinite

\* Numbers 1 to n, as a set of n.
LEMMA UpTo ==
    ASSUME NEW n \in Nat
    PROVE  IsFiniteSet(1 .. n) /\ Cardinality(1 .. n) = n
<1>1. n \in Int /\ 1 \in Int
  OBVIOUS
<1>2. IsFiniteSet(1 .. n) /\ Cardinality(1 .. n) = IF 1 > n THEN 0 ELSE n - 1 + 1
  BY <1>1, FS_Interval
<1> QED BY <1>2

\* The i-th adds what it wants.
LEMMA WantedAdds ==
    ASSUME NEW want, NEW i \in Nat \ {0}, want[i] \in 0 .. MaxPerRequest
    PROVE  WantedBefore(want, i + 1) = WantedBefore(want, i) + want[i]
<1> DEFINE own == {i} \X (1 .. want[i])
           before == Ahead(want, i)
<1>1. MaxPerRequest \in Nat /\ want[i] \in Nat
  BY SchedulerAssumption
<1>2. /\ IsFiniteSet(own)
      /\ Cardinality(own) = want[i]
  <2>1. IsFiniteSet({i}) /\ Cardinality({i}) = 1
    BY FS_Singleton
  <2>2. IsFiniteSet(1 .. want[i]) /\ Cardinality(1 .. want[i]) = want[i]
    BY <1>1, UpTo
  <2>3. /\ IsFiniteSet({i} \X (1 .. want[i]))
        /\ Cardinality({i} \X (1 .. want[i])) = Cardinality({i}) * Cardinality(1 .. want[i])
    BY <2>1, <2>2, FS_Product, Zenon
  <2>4. IsFiniteSet(own) /\ Cardinality(own) = 1 * want[i]
    BY <2>1, <2>2, <2>3, Zenon
  <2> HIDE DEF own
  <2> QED BY <1>1, <2>4
<1>3. Ahead(want, i + 1) = before \cup own
  <2>1. ASSUME NEW u \in Ahead(want, i + 1) PROVE u \in before \cup own
    <3>1. /\ u = <<u[1], u[2]>> /\ u[1] \in 1 .. i /\ u[2] \in 1 .. MaxPerRequest
          /\ u[2] <= want[u[1]]
      BY DEF Ahead
    <3>2. CASE u[1] = i
      BY <1>1, <3>1, <3>2
    <3>3. CASE u[1] # i
      <4>1. u[1] \in 1 .. i - 1
        BY <3>1, <3>3
      <4>2. u \in (1 .. i - 1) \X (1 .. MaxPerRequest)
        BY <3>1, <4>1
      <4> QED BY <3>1, <4>2 DEF Ahead
    <3> QED BY <3>2, <3>3
  <2>2. ASSUME NEW u \in before PROVE u \in Ahead(want, i + 1)
    <3>1. 1 .. i - 1 \subseteq 1 .. (i + 1) - 1
      OBVIOUS
    <3> QED BY <2>2, <3>1 DEF Ahead
  <2>3. ASSUME NEW u \in own PROVE u \in Ahead(want, i + 1)
    <3>1. u = <<u[1], u[2]>> /\ u[1] = i /\ u[2] \in 1 .. want[i]
      OBVIOUS
    <3>2. i \in 1 .. (i + 1) - 1 /\ 1 .. want[i] \subseteq 1 .. MaxPerRequest
      BY <1>1
    <3>3. u \in (1 .. (i + 1) - 1) \X (1 .. MaxPerRequest)
      BY <3>1, <3>2
    <3> QED BY <3>1, <3>3 DEF Ahead
  <2> QED BY <2>1, <2>2, <2>3
<1>4. before \cap own = {}
  BY DEF Ahead
<1>5. IsFiniteSet(before) /\ Cardinality(before) = WantedBefore(want, i)
  BY AheadIsFinite
<1> HIDE DEF own, before
<1>6. Cardinality(before \cup own) =
        Cardinality(before) + Cardinality(own) - Cardinality(before \cap own)
  BY <1>2, <1>5, FS_Union
<1>7. Cardinality(before \cap own) = 0
  BY <1>4, FS_EmptySet
<1>8. WantedBefore(want, i + 1) = Cardinality(before \cup own)
  <2>1. i + 1 \in Nat
    OBVIOUS
  <2>2. WantedBefore(want, i + 1) = Cardinality(Ahead(want, i + 1))
    BY <2>1, AheadIsFinite
  <2> QED BY <1>3, <2>2
<1>9. WantedBefore(want, i) \in Nat
  BY AheadIsFinite
<1> QED BY <1>1, <1>2, <1>5, <1>6, <1>7, <1>8, <1>9

\* What a loop grants is not more than its budget.  The token u[2] of entry
\* u[1] has a rank among those wanted, and no two have the same.
LEMMA GrantsFit ==
    ASSUME NEW n \in Nat, NEW want, \A i \in 1 .. n : want[i] \in 0 .. MaxPerRequest,
           NEW g, DOMAIN g \subseteq 1 .. n,
           \A i \in DOMAIN g : g[i][2] = Min({want[i], BudgetLeft(want, i)})
    PROVE  Cardinality(GrantedTokens(g)) <= MaxTokensPerStep
<1> DEFINE T == GrantedTokens(g)
           rank == [u \in T |-> WantedBefore(want, u[1]) + u[2]]
<1>1. MaxTokensPerStep \in Nat /\ MaxPerRequest \in Nat
  BY SchedulerAssumption
<1>2. ASSUME NEW u \in T
      PROVE  /\ u = <<u[1], u[2]>> /\ u[1] \in 1 .. n /\ u[2] \in Nat \ {0}
             /\ u[2] <= want[u[1]] /\ u[2] <= BudgetLeft(want, u[1])
             /\ WantedBefore(want, u[1]) \in Nat
  <2>1. /\ u = <<u[1], u[2]>> /\ u[1] \in DOMAIN g /\ u[2] \in 1 .. MaxPerRequest
        /\ u[2] <= g[u[1]][2]
    BY DEF GrantedTokens
  <2>2. u[1] \in 1 .. n /\ u[1] \in Nat /\ want[u[1]] \in Int /\ BudgetLeft(want, u[1]) \in Int
    BY <1>1, <2>1, BudgetLeftNat
  <2>3. WantedBefore(want, u[1]) \in Nat
    BY <2>2, AheadIsFinite
  <2>4. g[u[1]][2] = Min({want[u[1]], BudgetLeft(want, u[1])})
    BY <2>1
  <2>5. g[u[1]][2] <= want[u[1]] /\ g[u[1]][2] <= BudgetLeft(want, u[1]) /\ g[u[1]][2] \in Int
    BY <2>2, <2>4, MinOfTwo
  <2> QED BY <1>1, <2>1, <2>2, <2>3, <2>5
<1>3. \A u \in T : rank[u] \in 1 .. MaxTokensPerStep
  <2> TAKE u \in T
  <2>1. BudgetLeft(want, u[1]) = MaxTokensPerStep - WantedBefore(want, u[1])
    BY <1>1, <1>2 DEF BudgetLeft
  <2> QED BY <1>1, <1>2, <2>1
<1>4. ASSUME NEW u \in T, NEW v \in T, u[1] < v[1]
      PROVE  rank[u] < rank[v]
  <2>1. WantedBefore(want, u[1] + 1) = WantedBefore(want, u[1]) + want[u[1]]
    BY <1>2, WantedAdds
  <2>2. u[1] + 1 \in Nat /\ v[1] \in Nat /\ u[1] + 1 <= v[1]
    BY <1>2, <1>4
  <2>3. WantedBefore(want, u[1] + 1) <= WantedBefore(want, v[1])
    BY <2>2, WantedGrows
  <2>4. want[u[1]] \in Nat
    BY <1>1, <1>2
  <2> QED BY <1>2, <2>1, <2>3, <2>4
<1>5. \A u, v \in T : rank[u] = rank[v] => u = v
  <2> TAKE u, v \in T
  <2> HAVE rank[u] = rank[v]
  <2>1. rank[u] \in Nat /\ rank[v] \in Nat
    BY <1>3
  <2>2. ~(u[1] < v[1]) /\ ~(v[1] < u[1])
    BY <1>4, <2>1
  <2>3. u[1] = v[1]
    BY <1>2, <2>2
  <2>4. u[2] = v[2]
    BY <1>2, <2>3
  <2> QED BY <1>2, <2>3, <2>4
<1>6. rank \in Injection(T, 1 .. MaxTokensPerStep)
  BY <1>3, <1>5 DEF Injection, IsInjective
<1> HIDE DEF T, rank
<1>7. Cardinality(T) <= Cardinality(1 .. MaxTokensPerStep)
  BY <1>1, <1>6, UpTo, FS_Injection
<1> QED BY <1>1, <1>7, UpTo DEF T

\* What the entries of a step grant can be counted.
LEMMA GrantedIsFinite ==
    ASSUME NEW b \in Seq(Requests \X Nat)
    PROVE  IsFiniteSet(GrantedTokens(b)) /\ Cardinality(GrantedTokens(b)) \in Nat
<1> DEFINE units == (DOMAIN b) \X (1 .. MaxPerRequest)
<1>1. IsFiniteSet(DOMAIN b) /\ IsFiniteSet(1 .. MaxPerRequest)
  BY UpTo, SchedulerAssumption
<1>2. IsFiniteSet(units)
  BY <1>1, FS_Product
<1>3. GrantedTokens(b) \in SUBSET units
  BY DEF GrantedTokens
<1> QED BY <1>2, <1>3, FS_Subset, FS_CardinalityType

\* Dealing with the next entry does not add to what is granted.
LEMMA PassingGrantsLess ==
    ASSUME TypeOK, NEW i \in DOMAIN batch, NEW during, PassEntry(i, during)
    PROVE  Cardinality(GrantedTokens(batch')) <= Cardinality(GrantedTokens(batch))
<1> DEFINE S == GrantedTokens(batch')
           T == GrantedTokens(batch)
           move == [u \in S |-> <<u[1] + i, u[2]>>]
<1>1. batch \in Seq(Requests \X Nat) /\ i \in 1 .. Len(batch) /\ Len(batch) \in Nat
  <2>1. batch \in Seq(Requests \X Nat)
    BY Zenon DEF TypeOK
  <2> HIDE DEF S, T, move
  <2> QED BY ONLY <2>1, i \in DOMAIN batch
<1>2. IsFiniteSet(T)
  BY <1>1, GrantedIsFinite
<1>3. \A k \in DOMAIN batch' : k \in Nat /\ k + i \in DOMAIN batch /\ batch'[k] = batch[k + i]
  <2>1. CASE batch' = << >>
    BY <2>1
  <2>2. CASE batch' = SubSeq(batch, i + 1, Len(batch))
    <3>1. i \in 0 .. Len(batch)
      BY <1>1
    <3>2. /\ batch' \in Seq(Requests \X Nat) /\ Len(batch') = Len(batch) - i
          /\ \A k \in 1 .. Len(batch') : batch'[k] = batch[k + i]
      BY <1>1, <2>2, <3>1, DropFront
    <3>3. DOMAIN batch' = 1 .. Len(batch) - i /\ DOMAIN batch = 1 .. Len(batch) /\ i \in Nat
      BY <1>1, <3>2
    <3>4. \A k \in 1 .. Len(batch) - i : k \in Nat /\ k + i \in 1 .. Len(batch)
      BY <1>1
    <3> QED BY <3>2, <3>3, <3>4
  <2> QED BY <2>1, <2>2 DEF PassEntry
<1>4. ASSUME NEW u \in S
      PROVE  /\ u = <<u[1], u[2]>> /\ u[1] \in Nat
             /\ <<u[1] + i, u[2]>> \in T
  <2>1. /\ u = <<u[1], u[2]>> /\ u[1] \in DOMAIN batch' /\ u[2] \in 1 .. MaxPerRequest
        /\ u[2] <= batch'[u[1]][2]
    BY DEF GrantedTokens
  <2> QED BY <1>3, <2>1 DEF GrantedTokens
<1>5. \A u, v \in S : move[u] = move[v] => u = v
  <2> TAKE u, v \in S
  <2> HAVE move[u] = move[v]
  <2>1. <<u[1] + i, u[2]>> = <<v[1] + i, v[2]>>
    OBVIOUS
  <2> HIDE DEF S
  <2>2. u[1] + i = v[1] + i /\ u[2] = v[2]
    BY <2>1
  <2>3. /\ u[1] \in Nat /\ v[1] \in Nat /\ i \in Nat
        /\ u = <<u[1], u[2]>> /\ v = <<v[1], v[2]>>
    BY <1>1, <1>4
  <2>4. u[1] = v[1] /\ u[2] = v[2]
    BY <2>2, <2>3
  <2> HIDE DEF move
  <2> QED BY <2>3, <2>4, Zenon
<1>6. move \in Injection(S, T)
  BY <1>4, <1>5 DEF Injection, IsInjective
<1> QED BY <1>2, <1>6, FS_Injection

\* Fewer lanes than the budget was made for need fewer tokens.
LEMMA LanesScale ==
    ASSUME NEW a \in Nat, NEW b \in Nat, a <= b, NEW c \in Nat
    PROVE  a * c \in Nat /\ b * c \in Nat /\ a * c <= b * c
  OBVIOUS

\* The budget that SchedulerConfig insists on is enough: a loop over at most
\* max_running_requests entries that want a token each, and over at most
\* LaneSize others, hands out all that is wanted.
LEMMA LaneBudgetSuffices ==
    ASSUME LaneSize # 0, NEW L \in Nat, L <= MaxRunning, NEW n \in Nat, NEW want,
           \A j \in 1 .. n : want[j] \in 0 .. MaxPerRequest,
           \A j \in 1 .. n : j <= L => want[j] <= 1,
           NEW P, IsFiniteSet(P), Cardinality(P) <= LaneSize,
           \A j \in 1 .. n : j > L /\ want[j] > 0 => j \in P,
           NEW i \in 1 .. n
    PROVE  BudgetLeft(want, i) >= want[i]
<1> DEFINE decodes == (1 .. L) \X {1}
           chunks == P \X (1 .. MaxPerRequest)
           T == Ahead(want, i + 1)
<1>1. /\ MaxTokensPerStep \in Nat /\ MaxPerRequest \in Nat /\ LaneSize \in Nat /\ MaxRunning \in Nat
      /\ MaxTokensPerStep >= MaxRunning + LaneSize * MaxPerRequest
  BY SchedulerAssumption
<1>2. T \subseteq decodes \cup chunks
  <2> SUFFICES ASSUME NEW u \in T PROVE u \in decodes \cup chunks
    OBVIOUS
  <2>1. /\ u = <<u[1], u[2]>> /\ u[1] \in 1 .. i /\ u[2] \in 1 .. MaxPerRequest
        /\ u[2] <= want[u[1]]
    BY DEF Ahead
  <2>2. u[1] \in 1 .. n /\ want[u[1]] \in Nat
    BY <1>1, <2>1
  <2>3. CASE u[1] <= L
    <3>1. u[2] = 1 /\ u[1] \in 1 .. L
      BY <1>1, <2>1, <2>2, <2>3
    <3> QED BY <2>1, <3>1
  <2>4. CASE u[1] > L
    <3>1. u[1] \in P
      BY <1>1, <2>1, <2>2, <2>4
    <3> QED BY <2>1, <3>1
  <2> QED BY <2>2, <2>3, <2>4
<1>3. IsFiniteSet(decodes) /\ Cardinality(decodes) = L
  <2>1. /\ IsFiniteSet(1 .. L) /\ Cardinality(1 .. L) = L
        /\ IsFiniteSet({1}) /\ Cardinality({1}) = 1
    BY UpTo, FS_Singleton
  <2>2. /\ IsFiniteSet(decodes)
        /\ Cardinality(decodes) = Cardinality(1 .. L) * Cardinality({1})
    BY <2>1, FS_Product, Zenon
  <2> HIDE DEF decodes
  <2> QED BY <2>1, <2>2
<1>4. IsFiniteSet(chunks) /\ Cardinality(chunks) \in Nat
      /\ Cardinality(chunks) <= LaneSize * MaxPerRequest
  <2>1. /\ IsFiniteSet(1 .. MaxPerRequest) /\ Cardinality(1 .. MaxPerRequest) = MaxPerRequest
        /\ Cardinality(P) \in Nat
    BY <1>1, UpTo, FS_CardinalityType
  <2>2. IsFiniteSet(chunks) /\ Cardinality(chunks) = Cardinality(P) * MaxPerRequest
    BY <2>1, FS_Product
  <2> HIDE DEF chunks
  <2> QED BY <1>1, <2>1, <2>2, LanesScale
<1> HIDE DEF decodes, chunks, T
<1>5. /\ IsFiniteSet(decodes \cup chunks)
      /\ Cardinality(decodes \cup chunks) <= L + Cardinality(chunks)
  <2>1. IsFiniteSet(decodes \cap chunks)
    BY <1>3, FS_Intersection
  <2>2. Cardinality(decodes \cap chunks) \in Nat
    BY <2>1, FS_CardinalityType
  <2>3. /\ IsFiniteSet(decodes \cup chunks)
        /\ Cardinality(decodes \cup chunks) =
             Cardinality(decodes) + Cardinality(chunks) - Cardinality(decodes \cap chunks)
    BY <1>3, <1>4, FS_Union
  <2> QED BY <1>3, <1>4, <2>2, <2>3
<1>6. Cardinality(T) <= Cardinality(decodes \cup chunks)
  BY <1>2, <1>5, FS_Subset
<1>7. /\ i \in Nat \ {0} /\ i + 1 \in Nat /\ want[i] \in 0 .. MaxPerRequest
      /\ want[i] \in Nat
  BY <1>1
<1>8. /\ WantedBefore(want, i + 1) = Cardinality(T)
      /\ WantedBefore(want, i) \in Nat
      /\ WantedBefore(want, i + 1) = WantedBefore(want, i) + want[i]
  BY <1>7, AheadIsFinite, WantedAdds DEF T
<1>9. LaneSize * MaxPerRequest \in Nat
  BY <1>1, LanesScale
<1>10. WantedBefore(want, i) + want[i] <= MaxTokensPerStep
  <2>1. Cardinality(decodes \cup chunks) \in Nat
    BY <1>5, FS_CardinalityType
  <2> QED BY <1>1, <1>4, <1>5, <1>6, <1>7, <1>8, <1>9, <2>1
<1> QED BY <1>1, <1>7, <1>8, <1>10 DEF BudgetLeft

-----------------------------------------------------------------------------
(***************************************************************************)
(* The lane's books.                                                       *)
(***************************************************************************)

\* A lane that is over is counted, once, and leaves nothing behind.
Balanced(l) ==
    /\ l.starts = l.completions + l.cancellations + (IF l.members = {} THEN 0 ELSE 1)
    /\ l.members = {} => ~l.cancelled
    /\ Cardinality(l.members) <= LaneSize

LEMMA LaneBalanced == LaneAccounts <=> Balanced(lane) /\ lane.members \subseteq ToSet(running)
  BY DEF LaneAccounts, Balanced

\* Members retire one by one or together; the last one closes the lane.
LEMMA RetiredIsBalanced ==
    ASSUME lane \in Lane, Balanced(lane), NEW gone, NEW bad
    PROVE  /\ Balanced(Retired(gone, bad))
           /\ Retired(gone, bad).members = lane.members \ gone
<1> DEFINE left    == lane.members \ gone
           spoiled == lane.cancelled \/ bad \cap gone \cap lane.members # {}
           held    == [lane EXCEPT !.members = left, !.cancelled = spoiled]
           over    == [lane EXCEPT !.members = {}, !.cancelled = FALSE]
           cancels == [over EXCEPT !.cancellations = @ + 1]
           completes == [over EXCEPT !.completions = @ + 1]
<1>1. Retired(gone, bad) = IF gone \cap lane.members = {} THEN lane
                           ELSE IF left # {} THEN held
                           ELSE IF spoiled THEN cancels ELSE completes
  BY DEF Retired
<1>2. /\ lane.starts \in Nat /\ lane.completions \in Nat /\ lane.cancellations \in Nat
      /\ lane.members \subseteq Requests
      /\ lane.starts = lane.completions + lane.cancellations
                         + (IF lane.members = {} THEN 0 ELSE 1)
      /\ Cardinality(lane.members) <= LaneSize
  BY DEF Lane, Balanced
<1>3. IsFiniteSet(lane.members)
  BY <1>2, SchedulerAssumption, FS_Subset
<1>4. Cardinality(left) <= LaneSize /\ Cardinality({}) <= LaneSize
  <2>1. left \in SUBSET lane.members
    OBVIOUS
  <2>2. /\ IsFiniteSet(left) /\ Cardinality(left) <= Cardinality(lane.members)
        /\ Cardinality(lane.members) \in Nat
    BY <1>3, <2>1, FS_Subset, FS_CardinalityType
  <2>3. Cardinality(left) \in Nat
    BY <2>2, FS_CardinalityType
  <2> HIDE DEF left
  <2> QED BY <1>2, <2>2, <2>3, FS_EmptySet, SchedulerAssumption
<1>5. CASE gone \cap lane.members = {}
  <2>1. left = lane.members
    BY <1>5
  <2> QED BY <1>1, <1>5, <2>1
<1>6. CASE gone \cap lane.members # {} /\ left # {}
  <2>1. Retired(gone, bad) = held
    BY <1>1, <1>6
  <2>2. /\ held.members = left /\ held.starts = lane.starts
        /\ held.completions = lane.completions /\ held.cancellations = lane.cancellations
    BY DEF Lane
  <2>3. lane.members # {} /\ left = lane.members \ gone
    BY <1>6
  <2> HIDE DEF held, left
  <2> QED BY <1>2, <1>4, <1>6, <2>1, <2>2, <2>3 DEF Balanced
<1>7. CASE gone \cap lane.members # {} /\ left = {}
  <2>1. Retired(gone, bad) = cancels \/ Retired(gone, bad) = completes
    BY <1>1, <1>7
  <2>2. /\ over.members = {} /\ ~over.cancelled /\ over.starts = lane.starts
        /\ over.completions = lane.completions /\ over.cancellations = lane.cancellations
        /\ over \in Lane
    BY DEF Lane
  <2> HIDE DEF over
  <2>3. /\ cancels.members = {} /\ ~cancels.cancelled /\ cancels.starts = lane.starts
        /\ cancels.completions = lane.completions
        /\ cancels.cancellations = lane.cancellations + 1
    BY <2>2 DEF Lane
  <2>4. /\ completes.members = {} /\ ~completes.cancelled /\ completes.starts = lane.starts
        /\ completes.completions = lane.completions + 1
        /\ completes.cancellations = lane.cancellations
    BY <2>2 DEF Lane
  <2>5. lane.members # {} /\ lane.members \ gone = {}
    BY <1>7
  <2> HIDE DEF cancels, completes
  <2>6. CASE Retired(gone, bad) = cancels
    <3>1. lane.starts = lane.completions + lane.cancellations + 1
      BY <1>2, <2>5
    <3>2. cancels.starts = cancels.completions + cancels.cancellations + 0
      BY <1>2, <2>3, <3>1
    <3> QED BY <1>4, <2>3, <2>5, <2>6, <3>2 DEF Balanced
  <2>7. CASE Retired(gone, bad) = completes
    BY <1>2, <1>4, <1>7, <2>4, <2>5, <2>7 DEF Balanced
  <2> QED BY <2>1, <2>6, <2>7
<1> QED BY <1>5, <1>6, <1>7

\* A lane is filled with LaneSize prefills of the batch at most: each is known
\* by how many prefills there are up to it.
LEMMA FirstPrefillsFit ==
    ASSUME TypeOK
    PROVE  /\ FirstPrefills \subseteq ToSet(running)
           /\ IsFiniteSet(FirstPrefills) /\ Cardinality(FirstPrefills) \in Nat
           /\ Cardinality(FirstPrefills) <= LaneSize
<1> DEFINE upto(i) == {j \in 1 .. i : Prefilling(running[j])}
           I == {i \in DOMAIN running :
                   Prefilling(running[i]) /\ Cardinality(upto(i)) <= LaneSize}
           rank == [i \in I |-> Cardinality(upto(i))]
<1>1. running \in Seq(Requests) /\ DOMAIN running = 1 .. Len(running) /\ LaneSize \in Nat
  BY SchedulerAssumption DEF TypeOK
<1>2. ASSUME NEW i \in Nat PROVE IsFiniteSet(upto(i)) /\ Cardinality(upto(i)) \in Nat
  <2>1. upto(i) \in SUBSET (1 .. i) /\ IsFiniteSet(1 .. i)
    BY UpTo
  <2> HIDE DEF upto
  <2> QED BY <2>1, FS_Subset, FS_CardinalityType
<1>3. ASSUME NEW i \in I PROVE i \in Nat /\ i \in upto(i) /\ rank[i] \in 1 .. LaneSize
  <2>1. i \in Nat \ {0} /\ i \in upto(i) /\ Cardinality(upto(i)) <= LaneSize
    BY <1>1
  <2>2. IsFiniteSet(upto(i)) /\ Cardinality(upto(i)) \in Nat
    BY <1>2, <2>1
  <2>3. Cardinality(upto(i)) # 0
    BY <2>1, <2>2, FS_EmptySet
  <2> HIDE DEF upto
  <2> QED BY <1>1, <2>1, <2>2, <2>3
<1>4. ASSUME NEW i \in I, NEW j \in I, i < j PROVE rank[i] # rank[j]
  <2>1. i \in Nat /\ j \in Nat /\ j \in upto(j)
    BY <1>3
  <2>2. upto(i) \in SUBSET upto(j) /\ j \notin upto(i)
    BY <1>4, <2>1
  <2>3. IsFiniteSet(upto(j))
    BY <1>2, <2>1
  <2>4. Cardinality(upto(j)) = Cardinality(upto(i)) => upto(j) = upto(i)
    BY <2>2, <2>3, FS_Subset
  <2> QED BY <2>1, <2>2, <2>4
<1>5. rank \in Injection(I, 1 .. LaneSize)
  <2>1. \A i, j \in I : rank[i] = rank[j] => i = j
    <3> TAKE i, j \in I
    <3> HAVE rank[i] = rank[j]
    <3>1. i \in Nat /\ j \in Nat /\ ~(i < j) /\ ~(j < i)
      BY <1>3, <1>4
    <3> QED BY <3>1
  <2> QED BY <1>3, <2>1 DEF Injection, IsInjective
<1> DEFINE at == [i \in I |-> running[i]]
<1>6. at \in Surjection(I, FirstPrefills)
  <2>1. FirstPrefills = {running[i] : i \in I}
    BY DEF FirstPrefills
  <2> HIDE DEF I
  <2> QED BY <2>1 DEF Surjection
<1> HIDE DEF I, rank
<1>7. IsFiniteSet(I) /\ Cardinality(I) <= LaneSize
  BY <1>1, <1>5, UpTo, FS_Injection
<1> HIDE DEF at
<1>8. IsFiniteSet(FirstPrefills) /\ Cardinality(FirstPrefills) <= Cardinality(I)
  BY <1>6, <1>7, FS_Surjection
<1>9. Cardinality(FirstPrefills) \in Nat /\ Cardinality(I) \in Nat
  BY <1>7, <1>8, FS_CardinalityType
<1>10. FirstPrefills \subseteq ToSet(running)
  BY <1>1 DEF FirstPrefills, ToSet
<1> QED BY <1>1, <1>7, <1>8, <1>9, <1>10

-----------------------------------------------------------------------------
(***************************************************************************)
(* schedule().                                                             *)
(***************************************************************************)

\* A request of the queue or the batch wants a chunk of at least a token, and
\* one that decodes wants a single one.
LEMMA WantsSome ==
    ASSUME TypeOK, GapInvariant, NEW r \in Requests, status[r] \in {"WAITING", "RUNNING"}
    PROVE  Want(r) \in 1 .. MaxPerRequest /\ (~Prefilling(r) => Want(r) = 1)
<1>1. prompt[r] \in Nat /\ output[r] \in Nat /\ computed[r] \in Nat /\ MaxPerRequest \in Nat \ {0}
  BY SchedulerAssumption DEF TypeOK
<1> DEFINE gap == (prompt[r] + output[r]) - computed[r]
<1>2. gap \in Int /\ gap >= 1 /\ (~(computed[r] < prompt[r]) => gap = 1)
  BY <1>1, GapUnfolded DEF GapOK, Live
<1>3. Want(r) = Min({gap, MaxPerRequest})
  BY DEF Want, Gap, NumTokens
<1> HIDE DEF gap
<1>4. Want(r) = IF gap <= MaxPerRequest THEN gap ELSE MaxPerRequest
  BY <1>1, <1>2, <1>3, MinOfTwo
<1> QED BY <1>1, <1>2, <1>4 DEF Prefilling

\* What a step begins with fits its budget, and has an entry for everything
\* that is wanted while there is budget left.
LEMMA BegunStepFits ==
    ASSUME NEW n \in Nat, NEW q, NEW want, \A i \in 1 .. n : want[i] \in 0 .. MaxPerRequest,
           NEW g, DOMAIN g \subseteq 1 .. n,
           \A i \in DOMAIN g : g[i] = <<q[i], Min({want[i], BudgetLeft(want, i)})>>,
           batch = << >>, BeginStep(g)
    PROVE  /\ Cardinality(GrantedTokens(batch')) <= MaxTokensPerStep
           /\ \A i \in DOMAIN batch' : batch'[i][2] <= MaxPerRequest
           /\ \A i \in DOMAIN g : want[i] >= 1 /\ BudgetLeft(want, i) >= 1 =>
                  \E m \in 1 .. MaxPerRequest : <<q[i], m>> \in ToSet(batch')
           /\ \A i \in DOMAIN g : want[i] >= 1 /\ BudgetLeft(want, i) >= want[i] =>
                  <<q[i], want[i]>> \in ToSet(batch')
<1>1. MaxPerRequest \in Nat /\ MaxTokensPerStep \in Nat
  BY SchedulerAssumption
<1>2. ASSUME NEW i \in DOMAIN g
      PROVE  /\ g[i][1] = q[i] /\ g[i][2] = Min({want[i], BudgetLeft(want, i)})
             /\ g[i] = <<q[i], g[i][2]>>
             /\ g[i][2] \in 0 .. MaxPerRequest
             /\ want[i] >= 1 /\ BudgetLeft(want, i) >= 1 => g[i][2] >= 1
             /\ BudgetLeft(want, i) >= want[i] => g[i][2] = want[i]
  <2> DEFINE m == Min({want[i], BudgetLeft(want, i)})
  <2>1. want[i] \in 0 .. MaxPerRequest /\ BudgetLeft(want, i) \in Nat
    BY BudgetLeftNat
  <2>2. m = IF want[i] <= BudgetLeft(want, i) THEN want[i] ELSE BudgetLeft(want, i)
    BY <1>1, <2>1, MinOfTwo
  <2>3. g[i] = <<q[i], m>>
    OBVIOUS
  <2> HIDE DEF m
  <2>4. g[i][1] = q[i] /\ g[i][2] = m /\ g[i] = <<q[i], g[i][2]>>
    BY <2>3
  <2> QED BY <1>1, <2>1, <2>2, <2>4 DEF m
<1>3. CASE \E i \in DOMAIN g : IsScheduled(g[i])
  <2>1. batch' = g
    BY <1>3 DEF BeginStep
  <2>2. \A i \in DOMAIN g : g[i] \in ToSet(batch')
    BY <2>1 DEF ToSet
  <2>3. Cardinality(GrantedTokens(g)) <= MaxTokensPerStep
    BY <1>2, GrantsFit
  <2>4. ASSUME NEW i \in DOMAIN g, want[i] >= 1, BudgetLeft(want, i) >= 1
        PROVE  \E m \in 1 .. MaxPerRequest : <<q[i], m>> \in ToSet(batch')
    <3>1. g[i][2] \in 0 .. MaxPerRequest /\ g[i][2] >= 1 /\ g[i] = <<q[i], g[i][2]>>
      BY <1>2, <2>4, Zenon
    <3>2. g[i][2] \in 1 .. MaxPerRequest
      BY <1>1, <3>1
    <3> QED BY <2>2, <3>1, <3>2, Zenon
  <2>5. ASSUME NEW i \in DOMAIN g, BudgetLeft(want, i) >= want[i]
        PROVE  <<q[i], want[i]>> \in ToSet(batch')
    BY <1>2, <2>2, <2>5
  <2>6. \A i \in DOMAIN g : g[i][2] <= MaxPerRequest
    <3> TAKE i \in DOMAIN g
    <3>1. g[i][2] \in 0 .. MaxPerRequest
      BY <1>2, Zenon
    <3> QED BY <1>1, <3>1
  <2>7. /\ Cardinality(GrantedTokens(batch')) <= MaxTokensPerStep
        /\ \A i \in DOMAIN batch' : batch'[i][2] <= MaxPerRequest
    BY <2>1, <2>3, <2>6
  <2> QED BY <2>4, <2>5, <2>7, Zenon
<1>4. CASE ~ \E i \in DOMAIN g : IsScheduled(g[i])
  <2>1. batch' = << >>
    BY <1>4 DEF BeginStep, stepVars
  <2>2. GrantedTokens(batch') = {}
    BY <2>1 DEF GrantedTokens
  <2>3. ASSUME NEW i \in DOMAIN g PROVE ~(want[i] >= 1 /\ BudgetLeft(want, i) >= 1)
    <3>1. ~(g[i][2] > 0)
      BY <1>4 DEF IsScheduled
    <3>2. g[i][2] \in 0 .. MaxPerRequest
      BY <1>2, Zenon
    <3>3. ~(g[i][2] >= 1)
      BY <1>1, <3>1, <3>2
    <3> QED BY <1>2, <3>3, Zenon
  <2>4. \A i \in DOMAIN g : want[i] >= 1 => ~(BudgetLeft(want, i) >= want[i])
    <3> TAKE i \in DOMAIN g
    <3>1. want[i] \in Int /\ BudgetLeft(want, i) \in Int
      BY <1>1, BudgetLeftNat
    <3> QED BY <2>3, <3>1
  <2>5. DOMAIN batch' = {}
    BY <2>1
  <2> QED BY <1>1, <2>2, <2>3, <2>4, <2>5, FS_EmptySet
<1> QED BY <1>3, <1>4

\* Admissions stop before the batch is too long, and join it at its end.
LEMMA AdmissionFits ==
    ASSUME TypeOK, BatchFits, NEW k \in 0 .. Len(waiting), AdmitFirst(k),
           NEW may, TakesExactly(may, k), \A i \in may : HasRoom(i)
    PROVE  /\ Len(running') = Len(running) + k /\ BatchFits'
           /\ ToSet(running) \subseteq ToSet(running')
           /\ \A i \in 1 .. k : waiting[i] \in ToSet(running')
           /\ \A i \in 1 .. k : i \in may
           /\ \A r \in ToSet(running') : r \in ToSet(running) \/ \E i \in 1 .. k : waiting[i] = r
<1>1. waiting \in Seq(Requests) /\ running \in Seq(Requests) /\ MaxRunning \in Nat
  BY SchedulerAssumption DEF TypeOK
<1> DEFINE t == running \o SubSeq(waiting, 1, k)
<1>2. /\ Len(t) = Len(running) + k /\ t \in Seq(Requests)
      /\ \A i \in 1 .. Len(running) : t[i] = running[i]
      /\ \A i \in 1 .. k : t[Len(running) + i] = waiting[i]
  BY <1>1
<1>3. running' = t
  BY DEF AdmitFirst
<1> HIDE DEF t
<1>4. DOMAIN t = 1 .. Len(running) + k /\ DOMAIN running = 1 .. Len(running)
      /\ Len(running) \in Nat /\ k \in Nat
  BY <1>1, <1>2
<1>5. 1 .. k \subseteq may
  BY DEF TakesExactly
<1>6. BatchFits'
  <2>1. CASE k = 0
    BY <1>2, <1>3, <1>4, <2>1 DEF BatchFits
  <2>2. CASE k # 0
    <3>1. HasRoom(k)
      BY <1>4, <1>5, <2>2
    <3> QED BY <1>2, <1>3, <3>1 DEF BatchFits, HasRoom
  <2> QED BY <2>1, <2>2
<1>7. ASSUME NEW i \in 1 .. k PROVE waiting[i] \in ToSet(t)
  <2>1. Len(running) + i \in DOMAIN t /\ t[Len(running) + i] = waiting[i]
    BY <1>2, <1>4
  <2> QED BY <2>1 DEF ToSet
<1>8. ASSUME NEW r \in ToSet(running) PROVE r \in ToSet(t)
  <2>1. PICK i \in DOMAIN running : running[i] = r
    BY DEF ToSet
  <2>2. i \in DOMAIN t /\ t[i] = r
    BY <1>2, <1>4, <2>1
  <2> QED BY <2>2 DEF ToSet
<1>9. ASSUME NEW r \in ToSet(t) PROVE r \in ToSet(running) \/ \E i \in 1 .. k : waiting[i] = r
  <2>1. PICK j \in DOMAIN t : t[j] = r
    BY DEF ToSet
  <2>2. CASE j <= Len(running)
    <3>1. j \in DOMAIN running /\ running[j] = r
      BY <1>2, <1>4, <2>1, <2>2
    <3> QED BY <3>1 DEF ToSet
  <2>3. CASE j > Len(running)
    <3>1. j - Len(running) \in 1 .. k /\ Len(running) + (j - Len(running)) = j
      BY <1>4, <2>3
    <3> QED BY <1>2, <2>1, <3>1
  <2> QED BY <1>4, <2>2, <2>3
<1> QED BY <1>2, <1>3, <1>5, <1>6, <1>7, <1>8, <1>9

\* Who was admitted in a step.
LEMMA AdmittedInStep ==
    ASSUME NEW k, AdmitFirst(k), NEW r \in Requests, status[r] = "WAITING", status'[r] = "RUNNING"
    PROVE  \E i \in 1 .. k : waiting[i] = r
  BY DEF AdmitFirst

\* What every schedule() does to the batch, and to the budget.
StepFits ==
    /\ BatchFits'
    /\ Cardinality(GrantedTokens(batch')) <= MaxTokensPerStep
    /\ \A i \in DOMAIN batch' : batch'[i][2] <= MaxPerRequest
    /\ \A r \in Requests : status[r] = "WAITING" /\ status'[r] = "RUNNING" =>
           \E m \in 1 .. MaxPerRequest : <<r, m>> \in ToSet(batch')

LEMMA DefaultStepFits ==
    ASSUME IInv, BatchFits, phase = "idle", ScheduleDefault
    PROVE  StepFits /\ lane' = lane /\ ToSet(running) \subseteq ToSet(running')
<1>1. TypeOK /\ QueuesMatchStatus /\ GapInvariant /\ batch = << >>
  BY DEF IInv, Housekeeping
<1>2. /\ waiting \in Seq(Requests) /\ running \in Seq(Requests)
      /\ \A i \in 1 .. Len(running) : status[running[i]] = "RUNNING"
      /\ \A i \in 1 .. Len(waiting) : status[waiting[i]] = "WAITING"
  BY <1>1, Queued
<1> DEFINE q    == running \o waiting
           want == [i \in DOMAIN q |-> Want(q[i])]
           all  == Grants(q, want)
           may  == {i \in DOMAIN waiting : HasRoom(i) /\ HasBudget(want, Len(running) + i)}
           n    == Len(running) + Len(waiting)
<1>3. PICK k \in 0 .. Len(waiting) :
        /\ TakesExactly(may, k)
        /\ AdmitFirst(k) /\ UNCHANGED lane
        /\ BeginStep(SubSeq(all, 1, Len(running) + k))
  BY DEF ScheduleDefault
<1> DEFINE g == SubSeq(all, 1, Len(running) + k)
<1>4. /\ q \in Seq(Requests) /\ DOMAIN q = 1 .. n /\ Len(q) = n /\ n \in Nat
      /\ Len(running) \in Nat /\ Len(waiting) \in Nat /\ k \in Nat
      /\ \A i \in 1 .. Len(running) : q[i] = running[i]
      /\ \A i \in Len(running) + 1 .. n : q[i] = waiting[i - Len(running)]
  <2>1. /\ q \in Seq(Requests) /\ Len(q) = n
        /\ \A i \in 1 .. Len(running) : q[i] = running[i]
        /\ \A i \in Len(running) + 1 .. n : q[i] = waiting[i - Len(running)]
    BY <1>2, Joined
  <2> HIDE DEF q
  <2> QED BY <1>2, <2>1
<1> HIDE DEF q
<1>5. \A i \in 1 .. n : want[i] = Want(q[i]) /\ want[i] \in 1 .. MaxPerRequest
  <2> TAKE i \in 1 .. n
  <2>1. q[i] \in Requests
    BY <1>4
  <2>2. status[q[i]] \in {"WAITING", "RUNNING"}
    <3>1. CASE i <= Len(running)
      BY <1>2, <1>4, <3>1
    <3>2. CASE i > Len(running)
      <4>1. i - Len(running) \in 1 .. Len(waiting) /\ i \in Len(running) + 1 .. n
        BY <1>4, <3>2
      <4>2. q[i] = waiting[i - Len(running)]
        BY <1>4, <4>1
      <4> HIDE DEF n
      <4> QED BY <1>2, <4>1, <4>2
    <3> QED BY <1>4, <3>1, <3>2
  <2>3. want[i] = Want(q[i])
    <3>1. i \in DOMAIN q
      BY <1>4, Zenon
    <3> HIDE DEF q
    <3> QED BY <3>1, Zenon
  <2>4. Want(q[i]) \in 1 .. MaxPerRequest
    BY <1>1, <2>1, <2>2, WantsSome, Zenon
  <2> HIDE DEF want
  <2> QED BY <2>3, <2>4
<1> HIDE DEF want
<1>6. /\ all \in Seq(Requests \X Nat) /\ Len(all) = Len(q) /\ Len(q) = n
      /\ \A i \in 1 .. n : all[i] = <<q[i], Min({want[i], BudgetLeft(want, i)})>>
  <2>1. want \in [DOMAIN q -> Nat]
    <3>1. DOMAIN want = DOMAIN q /\ want = [i \in DOMAIN q |-> want[i]]
      BY DEF want
    <3>2. \A i \in DOMAIN q : want[i] \in Nat
      BY <1>4, <1>5, SchedulerAssumption
    <3> QED BY <3>1, <3>2
  <2>2. all \in Seq(Requests \X Nat) /\ Len(all) = Len(q)
    BY <1>4, <2>1, GrantsType
  <2>3. \A i \in DOMAIN q : all[i] = <<q[i], Min({want[i], BudgetLeft(want, i)})>>
    BY DEF Grants
  <2> QED BY <1>4, <2>2, <2>3
<1> HIDE DEF all
<1>7. /\ DOMAIN g = 1 .. Len(running) + k /\ DOMAIN g \subseteq 1 .. n
      /\ \A i \in DOMAIN g : g[i] = <<q[i], Min({want[i], BudgetLeft(want, i)})>>
  <2>1. Len(running) + k \in 0 .. Len(all)
    BY <1>4, <1>6
  <2>2. /\ g \in Seq(Requests \X Nat) /\ Len(g) = Len(running) + k
        /\ \A i \in 1 .. Len(running) + k : g[i] = all[i]
    BY <1>6, <2>1, TakeFront
  <2> HIDE DEF g
  <2>3. DOMAIN g = 1 .. Len(running) + k
    BY <2>2
  <2>4. 1 .. Len(running) + k \subseteq 1 .. n
    BY <1>4
  <2> QED BY <1>6, <2>2, <2>3, <2>4
<1>8. BeginStep(g)
  BY <1>3
<1> HIDE DEF g
<1>9. \A i \in 1 .. n : want[i] \in 0 .. MaxPerRequest /\ want[i] >= 1
  BY <1>5, SchedulerAssumption
<1> HIDE DEF n
<1>10. /\ Cardinality(GrantedTokens(batch')) <= MaxTokensPerStep
       /\ \A i \in DOMAIN batch' : batch'[i][2] <= MaxPerRequest
       /\ \A i \in DOMAIN g : want[i] >= 1 /\ BudgetLeft(want, i) >= 1 =>
              \E m \in 1 .. MaxPerRequest : <<q[i], m>> \in ToSet(batch')
  <2>1. n \in Nat /\ batch = << >> /\ DOMAIN g \subseteq 1 .. n /\ BeginStep(g)
    BY <1>1, <1>4, <1>7, <1>8
  <2>2. \A i \in 1 .. n : want[i] \in 0 .. MaxPerRequest
    BY <1>9
  <2>3. \A i \in DOMAIN g : g[i] = <<q[i], Min({want[i], BudgetLeft(want, i)})>>
    BY <1>7
  <2> QED BY <2>1, <2>2, <2>3, BegunStepFits, ZenonT(30)
<1>11. /\ BatchFits' /\ ToSet(running) \subseteq ToSet(running')
       /\ \A i \in 1 .. k : i \in may
  <2>1. \A i \in may : HasRoom(i)
    OBVIOUS
  <2>2. TakesExactly(may, k) /\ AdmitFirst(k)
    BY <1>3
  <2> HIDE DEF may
  <2> QED BY <1>1, <2>1, <2>2, AdmissionFits
<1>12. ASSUME NEW r \in Requests, status[r] = "WAITING", status'[r] = "RUNNING"
       PROVE  \E m \in 1 .. MaxPerRequest : <<r, m>> \in ToSet(batch')
  <2>1. PICK i \in 1 .. k : waiting[i] = r
    BY <1>3, <1>12, AdmittedInStep
  <2> DEFINE j == Len(running) + i
  <2>2. HasBudget(want, j)
    BY <1>11
  <2>3. j \in DOMAIN g /\ j \in Len(running) + 1 .. n /\ j - Len(running) = i /\ j \in Nat
        /\ j \in 1 .. n
    BY <1>4, <1>7 DEF n
  <2>4. q[j] = r /\ want[j] >= 1
    BY <1>4, <1>9, <2>1, <2>3
  <2>5. BudgetLeft(want, j) >= 1
    BY <2>2, <2>3, BudgetLeftNat DEF HasBudget
  <2> HIDE DEF j
  <2> QED BY <1>10, <2>3, <2>4, <2>5
<1> QED BY <1>3, <1>10, <1>11, <1>12 DEF StepFits

\* A lane that is refilled has room for everyone it takes.
LEMMA LaneBooksKept ==
    ASSUME IInv, BatchFits, LaneAccounts, NEW k \in 0 .. Len(waiting), AdmitFirst(k),
           LET kept == Retired(LaneLeavers, LaneSpoilers)
               may  == {i \in DOMAIN waiting :
                          /\ kept.members = {}
                          /\ Cardinality(FirstPrefills) + i <= LaneSize
                          /\ HasRoom(i)}
           IN  /\ TakesExactly(may, k)
               /\ lane' = IF kept.members = {} THEN LaneRefill(kept, k) ELSE kept
    PROVE  /\ LaneAccounts' /\ BatchFits'
           /\ \A i \in 1 .. k : waiting[i] \in lane'.members
           /\ \A r \in ToSet(running') : r \in ToSet(running) \/ \E i \in 1 .. k : waiting[i] = r
<1> DEFINE kept == Retired(LaneLeavers, LaneSpoilers)
           admitted == {waiting[i] : i \in 1 .. k}
           members == FirstPrefills \cup admitted
           may == {i \in DOMAIN waiting :
                     /\ kept.members = {}
                     /\ Cardinality(FirstPrefills) + i <= LaneSize
                     /\ HasRoom(i)}
<1>1. /\ TypeOK /\ QueuesMatchStatus /\ lane \in Lane /\ Balanced(lane) /\ LaneSize \in Nat
      /\ waiting \in Seq(Requests)
  BY LaneBalanced, SchedulerAssumption DEF IInv, TypeOK
<1>2. /\ Balanced(kept) /\ kept \in Lane
      /\ \A r \in kept.members : r \in Requests /\ status[r] = "RUNNING"
  <2>1. Balanced(kept) /\ kept.members = lane.members \ LaneLeavers
    BY <1>1, RetiredIsBalanced
  <2>2. kept \in Lane
    BY <1>1, RetiredType
  <2> HIDE DEF kept
  <2>3. \A r \in lane.members : r \in Requests
    BY <1>1 DEF Lane
  <2> QED BY <2>1, <2>2, <2>3 DEF LaneLeavers
<1>3. /\ TakesExactly(may, k)
      /\ lane' = IF kept.members = {} THEN LaneRefill(kept, k) ELSE kept
  OBVIOUS
<1>4. /\ Len(running') = Len(running) + k /\ BatchFits'
      /\ ToSet(running) \subseteq ToSet(running')
      /\ \A i \in 1 .. k : waiting[i] \in ToSet(running')
      /\ \A i \in 1 .. k : i \in may
      /\ \A r \in ToSet(running') : r \in ToSet(running) \/ \E i \in 1 .. k : waiting[i] = r
  <2>1. \A i \in may : HasRoom(i)
    OBVIOUS
  <2> HIDE DEF may
  <2> QED BY <1>1, <1>3, <2>1, AdmissionFits
<1>5. \A i \in 1 .. k : kept.members = {} /\ Cardinality(FirstPrefills) + i <= LaneSize
  BY <1>4
<1> HIDE DEF kept, may
<1>6. /\ IsFiniteSet(members) /\ Cardinality(members) <= LaneSize
  <2>1. /\ IsFiniteSet(FirstPrefills) /\ Cardinality(FirstPrefills) \in Nat
        /\ Cardinality(FirstPrefills) <= LaneSize /\ k \in Nat
    BY <1>1, FirstPrefillsFit
  <2>2. Cardinality(FirstPrefills) + k <= LaneSize
    <3>1. CASE k = 0
      BY <2>1, <3>1
    <3>2. CASE k # 0
      <4>1. k \in 1 .. k
        BY <2>1, <3>2
      <4> QED BY <1>5, <4>1
    <3> QED BY <3>1, <3>2
  <2>3. IsFiniteSet(admitted) /\ Cardinality(admitted) <= k
    <3> DEFINE at == [i \in 1 .. k |-> waiting[i]]
    <3>1. at \in Surjection(1 .. k, admitted)
      BY DEF Surjection
    <3> HIDE DEF at, admitted
    <3>2. IsFiniteSet(admitted) /\ Cardinality(admitted) <= Cardinality(1 .. k)
      BY <2>1, <3>1, UpTo, FS_Surjection
    <3> QED BY <2>1, <3>2, UpTo
  <2> HIDE DEF admitted
  <2>4. IsFiniteSet(FirstPrefills \cap admitted)
    BY <2>1, FS_Intersection
  <2>5. Cardinality(FirstPrefills \cap admitted) \in Nat /\ Cardinality(admitted) \in Nat
    BY <2>3, <2>4, FS_CardinalityType
  <2>6. /\ IsFiniteSet(members)
        /\ Cardinality(members) =
             Cardinality(FirstPrefills) + Cardinality(admitted)
               - Cardinality(FirstPrefills \cap admitted)
    BY <2>1, <2>3, FS_Union
  <2> HIDE DEF members
  <2> QED BY <1>1, <2>1, <2>2, <2>3, <2>5, <2>6
<1>7. members \subseteq ToSet(running')
  <2>1. FirstPrefills \subseteq ToSet(running)
    BY <1>1, FirstPrefillsFit
  <2> QED BY <1>4, <2>1
<1>8. kept.members \subseteq ToSet(running')
  <2>1. \A r \in kept.members : r \in ToSet(running)
    BY <1>1, <1>2, Members
  <2> QED BY <1>4, <2>1
<1>9. CASE lane' = kept
  <2>1. k = 0 \/ (kept.members = {} /\ members = {} /\ k # 0)
    <3>1. CASE k # 0
      <4>1. 1 \in 1 .. k
        BY <3>1
      <4>2. kept.members = {}
        BY <1>5, <4>1
      <4>3. lane' = LaneRefill(kept, k)
        BY <1>3, <4>2
      <4>4. waiting[1] \in members
        BY <4>1
      <4>5. lane' = [kept EXCEPT !.members = members, !.starts = @ + 1]
        BY <4>3, <4>4 DEF LaneRefill
      <4>6. lane'.members = members
        BY <1>2, <4>5 DEF Lane
      <4> QED BY <1>9, <4>2, <4>4, <4>6
    <3> QED BY <3>1
  <2>2. \A i \in 1 .. k : i \notin 1 .. k \/ waiting[i] \in members
    OBVIOUS
  <2>3. \A i \in 1 .. k : waiting[i] \in lane'.members
    BY <2>1, <2>2
  <2>4. LaneAccounts'
    BY <1>2, <1>8, <1>9 DEF LaneAccounts, Balanced
  <2> QED BY <1>4, <2>3, <2>4
<1>10. CASE lane' # kept
  <2>1. /\ kept.members = {} /\ members # {}
        /\ lane' = [kept EXCEPT !.members = members, !.starts = kept.starts + 1]
    BY <1>3, <1>10 DEF LaneRefill
  <2>2. /\ lane'.members = members /\ lane'.starts = kept.starts + 1
        /\ lane'.completions = kept.completions /\ lane'.cancellations = kept.cancellations
    BY <1>2, <2>1 DEF Lane
  <2>3. kept.starts = kept.completions + kept.cancellations + 0
    BY <1>2, <2>1 DEF Balanced
  <2>4. kept.starts \in Nat /\ kept.completions \in Nat /\ kept.cancellations \in Nat
    BY <1>2 DEF Lane
  <2>5. lane'.starts = lane'.completions + lane'.cancellations + 1
    BY <2>2, <2>3, <2>4
  <2>6. LaneAccounts'
    BY <1>6, <1>7, <2>1, <2>2, <2>5 DEF LaneAccounts
  <2>7. \A i \in 1 .. k : waiting[i] \in lane'.members
    BY <2>2
  <2> QED BY <1>4, <2>6, <2>7
<1> QED BY <1>9, <1>10

\* A step of the lane gives every decode its token and every member its chunk.
LEMMA LaneStepFits ==
    ASSUME IInv, BatchFits, LaneAccounts, LaneSize # 0, phase = "idle",
           ScheduleCompletionPrefillLane, UNCHANGED tokenVars
    PROVE  StepFits /\ LaneAccounts' /\ LaneFullyFunded'
<1>1. TypeOK /\ QueuesMatchStatus /\ GapInvariant /\ batch = << >>
  BY DEF IInv, Housekeeping
<1>2. /\ waiting \in Seq(Requests) /\ running \in Seq(Requests)
      /\ IsInjective(waiting) /\ IsInjective(running)
      /\ ToSet(running) \cap ToSet(waiting) = {}
      /\ \A i \in 1 .. Len(running) : status[running[i]] = "RUNNING"
      /\ \A i \in 1 .. Len(waiting) : status[waiting[i]] = "WAITING"
  BY <1>1, Queued
<1> DEFINE kept == Retired(LaneLeavers, LaneSpoilers)
           may  == {i \in DOMAIN waiting :
                      /\ kept.members = {}
                      /\ Cardinality(FirstPrefills) + i <= LaneSize
                      /\ HasRoom(i)}
           L    == Len(running)
           Q(k) == running \o running \o SubSeq(waiting, 1, k)
           W(k) == [i \in DOMAIN Q(k) |->
                      IF \/ i <= L /\ ~Prefilling(Q(k)[i])
                         \/ i > L /\ Q(k)[i] \in lane'.members
                      THEN Want(Q(k)[i]) ELSE 0]
<1>3. PICK k \in 0 .. Len(waiting) :
        /\ TakesExactly(may, k) /\ AdmitFirst(k)
        /\ lane' = IF kept.members = {} THEN LaneRefill(kept, k) ELSE kept
        /\ BeginStep(Grants(Q(k), W(k)))
  BY DEF ScheduleCompletionPrefillLane
<1> DEFINE q    == Q(k)
           want == W(k)
           g    == Grants(q, want)
           n    == L + (L + k)
<1>4. /\ LaneAccounts' /\ BatchFits'
      /\ \A i \in 1 .. k : waiting[i] \in lane'.members
      /\ \A r \in ToSet(running') : r \in ToSet(running) \/ \E i \in 1 .. k : waiting[i] = r
  BY <1>3, LaneBooksKept
<1> HIDE DEF kept, may
<1> DEFINE t == running \o SubSeq(waiting, 1, k)
<1>5. /\ t \in Seq(Requests) /\ Len(t) = L + k /\ IsInjective(t)
      /\ running' = t /\ q = running \o t
  <2>1. IsInjective(t) /\ t \in Seq(Requests)
    BY <1>2, MoveFront
  <2>2. Len(t) = L + k
    BY <1>2
  <2>3. q = running \o t
    BY <1>2, SMTT(30)
  <2>4. running' = t
    BY <1>3 DEF AdmitFirst
  <2> QED BY <2>1, <2>2, <2>3, <2>4
<1>6. /\ q \in Seq(Requests) /\ DOMAIN q = 1 .. n /\ n \in Nat /\ L \in Nat /\ k \in Nat
      /\ \A i \in 1 .. L : q[i] = running[i]
      /\ \A i \in L + 1 .. n : q[i] = running'[i - L]
  <2> HIDE DEF t, q
  <2>1. /\ running \o t \in Seq(Requests)
        /\ Len(running \o t) = Len(running) + Len(t)
        /\ \A i \in 1 .. Len(running) : (running \o t)[i] = running[i]
        /\ \A i \in Len(running) + 1 .. Len(running) + Len(t) :
               (running \o t)[i] = t[i - Len(running)]
    <3>1. running \in Seq(Requests) /\ t \in Seq(Requests)
      BY <1>2, <1>5
    <3> QED BY <3>1, Joined, Zenon
  <2>2. L \in Nat /\ k \in Nat
    BY <1>2
  <2>3. q \in Seq(Requests) /\ Len(q) = n
    <3>1. q = running \o t /\ Len(t) = L + k
      BY <1>5
    <3> HIDE DEF L
    <3> QED BY <2>1, <3>1 DEF L
  <2>4. DOMAIN q = 1 .. n /\ n \in Nat
    BY <2>2, <2>3
  <2> QED BY <1>5, <2>1, <2>2, <2>3, <2>4
<1>7. /\ IsInjective(running') /\ DOMAIN running' = 1 .. L + k
      /\ running' \in Seq(Requests)
  <2> HIDE DEF t
  <2> QED BY <1>5
<1> HIDE DEF t, q
<1>8. \A i \in 1 .. n : /\ q[i] \in Requests
                        /\ Want(q[i]) \in 1 .. MaxPerRequest
                        /\ ~Prefilling(q[i]) => Want(q[i]) = 1
  <2> TAKE i \in 1 .. n
  <2>1. q[i] \in Requests
    BY <1>6
  <2>2. status[q[i]] \in {"WAITING", "RUNNING"}
    <3>1. CASE i <= L
      BY <1>2, <1>6, <3>1
    <3>2. CASE i > L
      <4>1. i - L \in DOMAIN running' /\ i \in L + 1 .. n
        BY <1>6, <1>7, <3>2
      <4>2. q[i] \in ToSet(running')
        BY <1>6, <4>1 DEF ToSet
      <4>3. q[i] \in ToSet(running) \/ \E j \in 1 .. k : waiting[j] = q[i]
        BY <1>4, <4>2
      <4>4. \A r \in ToSet(running) : status[r] = "RUNNING"
        BY <1>1 DEF QueuesMatchStatus
      <4>5. \A j \in 1 .. k : status[waiting[j]] = "WAITING"
        BY <1>2
      <4> QED BY <4>3, <4>4, <4>5
    <3> QED BY <1>6, <3>1, <3>2
  <2> QED BY <1>1, <2>1, <2>2, WantsSome
<1>9. \A i \in 1 .. n :
        want[i] = IF \/ i <= L /\ ~Prefilling(q[i])
                     \/ i > L /\ q[i] \in lane'.members
                  THEN Want(q[i]) ELSE 0
  <2>1. want = [i \in DOMAIN q |->
                  IF \/ i <= L /\ ~Prefilling(q[i])
                     \/ i > L /\ q[i] \in lane'.members
                  THEN Want(q[i]) ELSE 0]
    BY DEF q
  <2> HIDE DEF want
  <2> QED BY <1>6, <2>1
<1>10. BeginStep(g)
  BY <1>3 DEF q
<1>11. DOMAIN g = 1 .. n /\ \A i \in 1 .. n : g[i] = <<q[i], Min({want[i], BudgetLeft(want, i)})>>
  <2> HIDE DEF want
  <2> QED BY <1>6 DEF Grants
<1> HIDE DEF want, g
<1> DEFINE P == {i \in L + 1 .. n : running'[i - L] \in lane'.members}
<1>12. IsFiniteSet(P) /\ Cardinality(P) <= LaneSize
  <2>1. lane'.members \subseteq Requests /\ Cardinality(lane'.members) <= LaneSize
    <3>1. lane'.members \subseteq ToSet(running') /\ Cardinality(lane'.members) <= LaneSize
      BY <1>4 DEF LaneAccounts
    <3>2. ToSet(running') \subseteq Requests
      BY <1>7 DEF ToSet
    <3> QED BY <3>1, <3>2
  <2>2. IsFiniteSet(lane'.members)
    BY <2>1, SchedulerAssumption, FS_Subset
  <2> DEFINE at == [i \in P |-> running'[i - L]]
  <2>3. \A i, j \in P : at[i] = at[j] => i = j
    <3> TAKE i, j \in P
    <3> HAVE at[i] = at[j]
    <3>1. i - L \in 1 .. L + k /\ j - L \in 1 .. L + k /\ i \in Nat /\ j \in Nat
      BY <1>6
    <3>2. running'[i - L] = running'[j - L]
      OBVIOUS
    <3> HIDE DEF at, P
    <3>3. i - L = j - L
      BY <1>7, <3>1, <3>2 DEF IsInjective
    <3> QED BY <1>6, <3>1, <3>3
  <2>4. at \in Injection(P, lane'.members)
    BY <2>3 DEF Injection, IsInjective
  <2> HIDE DEF at, P
  <2>5. IsFiniteSet(P) /\ Cardinality(P) <= Cardinality(lane'.members)
    BY <2>2, <2>4, FS_Injection
  <2>6. Cardinality(P) \in Nat /\ Cardinality(lane'.members) \in Nat
    BY <2>2, <2>5, FS_CardinalityType
  <2> QED BY <2>1, <2>5, <2>6, SchedulerAssumption
<1>13. /\ \A i \in 1 .. n : want[i] \in 0 .. MaxPerRequest
       /\ \A i \in 1 .. n : i <= L => want[i] <= 1
       /\ \A i \in 1 .. n : i > L /\ want[i] > 0 => i \in P
  <2>1. MaxPerRequest \in Nat
    BY SchedulerAssumption
  <2>2. \A i \in 1 .. n : i > L => i \in L + 1 .. n /\ q[i] = running'[i - L]
    BY <1>6
  <2>3. L \in Nat
    BY <1>6
  <2> HIDE DEF P, n, L
  <2>4. \A i \in 1 .. n : want[i] \in 0 .. MaxPerRequest
    BY <1>8, <1>9, <2>1
  <2>5. ASSUME NEW i \in 1 .. n, i <= L PROVE want[i] <= 1
    <3>1. ~(i > L)
      BY <2>3, <2>5
    <3>2. CASE ~Prefilling(q[i])
      BY <1>8, <1>9, <2>5, <3>1, <3>2
    <3>3. CASE Prefilling(q[i])
      BY <1>9, <2>5, <3>1, <3>3
    <3> QED BY <3>2, <3>3
  <2>6. ASSUME NEW i \in 1 .. n, i > L, want[i] > 0 PROVE i \in P
    <3>1. ~(i <= L) /\ want[i] # 0
      BY <2>3, <2>6
    <3>2. q[i] \in lane'.members
      BY <1>9, <2>6, <3>1
    <3> QED BY <2>2, <2>6, <3>2 DEF P
  <2> QED BY <2>4, <2>5, <2>6
<1>14. \A i \in 1 .. n : BudgetLeft(want, i) >= want[i]
  <2>1. L <= MaxRunning /\ L \in Nat /\ n \in Nat
    BY <1>6 DEF BatchFits
  <2> HIDE DEF P, n, L
  <2> QED BY <1>12, <1>13, <2>1, LaneBudgetSuffices, ZenonT(60)
<1>15. /\ Cardinality(GrantedTokens(batch')) <= MaxTokensPerStep
       /\ \A i \in DOMAIN batch' : batch'[i][2] <= MaxPerRequest
       /\ \A i \in DOMAIN g : want[i] >= 1 /\ BudgetLeft(want, i) >= want[i] =>
              <<q[i], want[i]>> \in ToSet(batch')
  <2>1. n \in Nat /\ batch = << >> /\ DOMAIN g \subseteq 1 .. n /\ BeginStep(g)
    BY <1>1, <1>6, <1>10, <1>11
  <2>2. \A i \in 1 .. n : want[i] \in 0 .. MaxPerRequest
    BY <1>13
  <2>3. \A i \in DOMAIN g : g[i] = <<q[i], Min({want[i], BudgetLeft(want, i)})>>
    BY <1>11
  <2> HIDE DEF P, n, L
  <2> QED BY <2>1, <2>2, <2>3, BegunStepFits, ZenonT(60)
<1>16. ASSUME NEW r \in ToSet(running'), r \in lane'.members \/ ~Prefilling(r)
       PROVE  <<r, Want(r)>> \in ToSet(batch') /\ Want(r) \in 1 .. MaxPerRequest
  <2>1. PICK i \in 1 .. n : q[i] = r /\ want[i] = Want(r)
    <3>1. CASE r \in lane'.members
      <4>1. PICK m \in 1 .. L + k : running'[m] = r
        BY <1>7 DEF ToSet
      <4>2. L + m \in L + 1 .. n /\ (L + m) - L = m /\ L + m > L /\ L + m \in 1 .. n
        BY <1>6
      <4>3. q[L + m] = r
        BY <1>6, <4>1, <4>2
      <4>4. want[L + m] = Want(r)
        BY <1>9, <3>1, <4>2, <4>3
      <4> QED BY <4>2, <4>3, <4>4
    <3>2. CASE r \notin lane'.members
      <4>1. r \in ToSet(running) /\ ~Prefilling(r)
        BY <1>4, <1>16, <3>2
      <4>2. PICK m \in 1 .. L : running[m] = r
        BY <1>2, <4>1 DEF ToSet
      <4>3. q[m] = r /\ m <= L /\ m \in 1 .. n
        BY <1>6, <4>2
      <4>4. want[m] = Want(r)
        BY <1>9, <4>1, <4>3
      <4> QED BY <4>3, <4>4
    <3> QED BY <3>1, <3>2
  <2>2. Want(r) \in 1 .. MaxPerRequest
    BY <1>8, <2>1
  <2>3. want[i] >= 1 /\ BudgetLeft(want, i) >= want[i] /\ i \in DOMAIN g
    BY <1>11, <1>14, <2>1, <2>2, SchedulerAssumption
  <2>4. <<q[i], want[i]>> \in ToSet(batch')
    BY <1>15, <2>3
  <2> QED BY <2>1, <2>2, <2>4
<1>17. ASSUME NEW r \in Requests, status[r] = "WAITING", status'[r] = "RUNNING"
       PROVE  \E m \in 1 .. MaxPerRequest : <<r, m>> \in ToSet(batch')
  <2>1. PICK i \in 1 .. k : waiting[i] = r
    BY <1>3, <1>17, AdmittedInStep
  <2>2. r \in lane'.members
    BY <1>4, <2>1
  <2>3. r \in ToSet(running')
    BY <1>4, <2>2 DEF LaneAccounts
  <2> QED BY <1>16, <2>2, <2>3
<1>18. StepFits
  BY <1>4, <1>15, <1>17 DEF StepFits
<1>19. LaneFullyFunded'
  <2>1. \A r : Want(r)' = Want(r) /\ (Prefilling(r)' <=> Prefilling(r))
    BY DEF tokenVars, Want, Gap, NumTokens, Prefilling
  <2> QED BY <1>16, <2>1 DEF LaneFullyFunded
<1> QED BY <1>4, <1>18, <1>19

-----------------------------------------------------------------------------
(***************************************************************************)
(* Between two schedule() calls.                                           *)
(***************************************************************************)

LEMMA BudgetKept ==
    ASSUME BudgetRespected, batch' = batch
    PROVE  BudgetRespected'
  BY DEF BudgetRespected, GrantedTokens, OneChunkEach, IsScheduled

\* Who stays in the batch keeps what it was promised.
LEMMA FundingKept ==
    ASSUME LaneFullyFunded, batch' = batch, phase' = phase,
           lane'.members \subseteq lane.members,
           \A r \in ToSet(running') :
               /\ r \in ToSet(running)
               /\ prompt'[r] = prompt[r] /\ output'[r] = output[r]
               /\ computed'[r] = computed[r]
    PROVE  LaneFullyFunded'
<1> SUFFICES ASSUME LaneSize # 0, phase' = "scheduled", NEW r \in ToSet(running'),
                    r \in lane'.members \/ ~Prefilling(r)'
             PROVE  <<r, Want(r)'>> \in ToSet(batch)
  BY DEF LaneFullyFunded
<1>1. Want(r)' = Want(r) /\ (Prefilling(r)' <=> Prefilling(r))
  BY DEF Want, Gap, NumTokens, Prefilling
<1> QED BY <1>1 DEF LaneFullyFunded

\* A request that leaves the batch retires from the lane.
LEMMA MemberLeaves ==
    ASSUME IInv, BatchFits, LaneAccounts, NEW r \in Requests, status[r] = "RUNNING",
           running' = RemoveFirst(running, r),
           NEW bad, lane' = Retired({r}, bad)
    PROVE  /\ BatchFits' /\ LaneAccounts'
           /\ ToSet(running') \subseteq ToSet(running)
           /\ lane'.members \subseteq lane.members
<1>1. /\ running \in Seq(Requests) /\ IsInjective(running) /\ r \in ToSet(running)
      /\ lane \in Lane /\ Balanced(lane) /\ lane.members \subseteq ToSet(running)
  BY LaneBalanced DEF IInv, TypeOK, QueuesMatchStatus
<1>2. /\ ToSet(running') = ToSet(running) \ {r}
      /\ Len(running') = Len(running) - 1
  BY <1>1, RemoveOne
<1>3. Balanced(lane') /\ lane'.members = lane.members \ {r}
  BY <1>1, RetiredIsBalanced
<1>4. BatchFits'
  BY <1>1, <1>2, SchedulerAssumption DEF BatchFits
<1>5. LaneAccounts'
  BY <1>1, <1>2, <1>3 DEF LaneAccounts, Balanced
<1> QED BY <1>2, <1>3, <1>4, <1>5

\* A batch and a lane that a step leaves alone.
LEMMA LaneKept ==
    ASSUME BatchFits, LaneAccounts, running' = running, lane' = lane
    PROVE  /\ BatchFits' /\ LaneAccounts'
           /\ ToSet(running') \subseteq ToSet(running)
           /\ lane'.members \subseteq lane.members
  BY DEF BatchFits, LaneAccounts

\* One more request at the end of the batch, where there is room for it.
LEMMA MemberJoins ==
    ASSUME TypeOK, LaneAccounts, NEW r \in Requests, Len(running) < MaxRunning,
           running' = Append(running, r), lane' = lane
    PROVE  BatchFits' /\ LaneAccounts'
<1>1. running \in Seq(Requests) /\ MaxRunning \in Nat
  BY SchedulerAssumption DEF TypeOK
<1>2. /\ Len(running') = Len(running) + 1
      /\ \A i \in 1 .. Len(running) : running'[i] = running[i]
      /\ DOMAIN running' = 1 .. Len(running) + 1
      /\ DOMAIN running = 1 .. Len(running)
  BY <1>1
<1>3. ToSet(running) \subseteq ToSet(running')
  BY <1>1, <1>2 DEF ToSet
<1>4. BatchFits'
  BY <1>1, <1>2 DEF BatchFits
<1> QED BY <1>3, <1>4 DEF LaneAccounts

LEMMA LeaveFits ==
    ASSUME IInv, BatchFits, LaneAccounts, NEW r \in Requests, NEW st, Leave(r, st)
    PROVE  /\ BatchFits' /\ LaneAccounts'
           /\ ToSet(running') \subseteq ToSet(running)
           /\ lane'.members \subseteq lane.members
<1>1. CASE status[r] = "RUNNING"
  <2>1. /\ lane' = Retired({r}, IF Prefilling(r) THEN {r} ELSE {})
        /\ running' = RemoveFirst(running, r)
    BY <1>1 DEF Leave, Release
  <2> QED BY <1>1, <2>1, MemberLeaves
<1>2. CASE status[r] # "RUNNING"
  <2>1. running' = running /\ lane' = lane
    BY <1>2 DEF Leave
  <2> QED BY <2>1, LaneKept
<1> QED BY <1>1, <1>2

LEMMA CommitFits ==
    ASSUME IInv, BatchFits, LaneAccounts, NEW r \in Requests, NEW n, NEW stop,
           CommitEntry(r, n, stop)
    PROVE  BatchFits' /\ LaneAccounts'
<1>1. status[r] = "RUNNING"
  BY DEF CommitEntry, InBatch
<1>2. CASE running' = running /\ lane' = lane
  BY <1>2, LaneKept
<1>3. CASE ~(running' = running /\ lane' = lane)
  <2>1. PICK st : FinishTurn(r, st, n)
    BY <1>3, Zenon DEF CommitEntry
  <2>2. /\ lane' = Retired({r}, IF computed[r] + n < prompt[r] THEN {r} ELSE {})
        /\ running' = RemoveFirst(running, r)
    BY <2>1 DEF FinishTurn, Park, Release
  <2> QED BY <1>1, <2>2, MemberLeaves
<1> QED BY <1>2, <1>3

\* Every entry of a step is within the budget, whatever became of the others.
LEMMA PassEntryFits ==
    ASSUME IInv, BudgetRespected, NEW i \in DOMAIN batch,
           NEW during \in {"updating", "failing"}, PassEntry(i, during)
    PROVE  BudgetRespected' /\ LaneFullyFunded'
<1>1. TypeOK /\ OneChunkEach
  BY DEF IInv, Housekeeping
<1>2. /\ OneChunkEach'
      /\ \A k \in DOMAIN batch' : \E j \in DOMAIN batch : batch'[k] = batch[j]
  BY <1>1, PassEntryKeeps
<1>3. Cardinality(GrantedTokens(batch')) <= Cardinality(GrantedTokens(batch))
  BY <1>1, PassingGrantsLess
<1>4. Cardinality(GrantedTokens(batch')) <= MaxTokensPerStep
  <2>1. Cardinality(GrantedTokens(batch)) <= MaxTokensPerStep
    BY DEF BudgetRespected
  <2>2. /\ Cardinality(GrantedTokens(batch)) \in Nat
        /\ Cardinality(GrantedTokens(batch')) \in Nat
    <3>1. batch \in Seq(Requests \X Nat)
      BY <1>1 DEF TypeOK
    <3>2. batch' \in Seq(Requests \X Nat)
      BY <1>1, PassEntryKeeps
    <3>3. \A b \in Seq(Requests \X Nat) : Cardinality(GrantedTokens(b)) \in Nat
      BY GrantedIsFinite
    <3>4. Cardinality(GrantedTokens(batch)) \in Nat
      BY <3>1, <3>3
    <3>5. Cardinality(GrantedTokens(batch')) \in Nat
      BY <3>2, <3>3, Zenon
    <3> QED BY <3>4, <3>5
  <2> QED BY <1>3, <2>1, <2>2, SchedulerAssumption
<1>5. phase' # "scheduled"
  BY DEF PassEntry
<1>6. \A k \in DOMAIN batch' : batch'[k][2] <= MaxPerRequest
  BY <1>2 DEF BudgetRespected
<1> QED BY <1>2, <1>4, <1>5, <1>6 DEF BudgetRespected, LaneFullyFunded

-----------------------------------------------------------------------------
(***************************************************************************)
(* The invariant.                                                          *)
(***************************************************************************)

LEMMA ScheduleFits ==
    ASSUME BatchInv, Schedule
    PROVE  StepFits /\ LaneAccounts' /\ LaneFullyFunded'
<1>1. /\ IInv /\ BatchFits /\ LaneAccounts /\ phase = "idle"
      /\ UNCHANGED tokenVars
  BY DEF BatchInv, Schedule
<1>2. CASE LaneSize = 0 /\ ScheduleDefault
  <2>1. StepFits /\ lane' = lane /\ ToSet(running) \subseteq ToSet(running')
    BY <1>1, <1>2, DefaultStepFits
  <2>2. LaneAccounts'
    BY <1>1, <2>1 DEF LaneAccounts
  <2>3. LaneFullyFunded'
    BY <1>2 DEF LaneFullyFunded
  <2> QED BY <2>1, <2>2, <2>3
<1>3. CASE LaneSize # 0 /\ ScheduleCompletionPrefillLane
  BY <1>1, <1>3, LaneStepFits
<1> QED BY <1>2, <1>3 DEF Schedule

LEMMA BatchInitially ==
    ASSUME Init
    PROVE  BatchInv
<1>1. IInv /\ OneChunkEach
  BY InitEstablishes DEF IInv, Housekeeping
<1>2. /\ running = << >> /\ batch = << >> /\ phase = "idle"
      /\ lane.members = {} /\ ~lane.cancelled
      /\ lane.starts = 0 /\ lane.completions = 0 /\ lane.cancellations = 0
  BY DEF Init
<1>3. BatchFits
  BY <1>2, SchedulerAssumption DEF BatchFits
<1>4. LaneAccounts
  BY <1>2, FS_EmptySet, SchedulerAssumption DEF LaneAccounts
<1>5. LaneFullyFunded
  BY <1>2 DEF LaneFullyFunded
<1>6. GrantedTokens(batch) = {} /\ DOMAIN batch = {}
  BY <1>2 DEF GrantedTokens
<1>7. BudgetRespected
  BY <1>1, <1>6, FS_EmptySet, SchedulerAssumption DEF BudgetRespected
<1> QED BY <1>1, <1>3, <1>4, <1>5, <1>7 DEF BatchInv

LEMMA BatchKept ==
    ASSUME BatchInv, [Next]_vars
    PROVE  BatchInv'
<1>1. /\ IInv /\ BatchFits /\ LaneAccounts /\ LaneFullyFunded /\ BudgetRespected
      /\ TypeOK /\ QueuesMatchStatus /\ IInv'
  BY NextKeeps DEF BatchInv, IInv
<1>2. SUFFICES BatchFits' /\ LaneAccounts' /\ LaneFullyFunded' /\ BudgetRespected'
  BY <1>1 DEF BatchInv
<1>3. ASSUME NEW r \in Requests, NEW p, NEW m, AddRequest(r, p, m)
      PROVE  BatchFits' /\ LaneAccounts' /\ LaneFullyFunded' /\ BudgetRespected'
  <2>1. /\ running' = running /\ lane' = lane /\ batch' = batch /\ phase' = phase
        /\ output' = output /\ computed' = computed
        /\ status[r] = "NEW" /\ prompt' = [prompt EXCEPT ![r] = p]
    BY <1>3 DEF AddRequest, stepVars
  <2>2. \A x \in ToSet(running) : x \in Requests /\ status[x] = "RUNNING"
    BY <1>1 DEF QueuesMatchStatus
  <2>3. \A x \in ToSet(running) : prompt'[x] = prompt[x]
    BY <1>1, <2>1, <2>2 DEF TypeOK
  <2> QED BY <1>1, <2>1, <2>3, LaneKept, FundingKept, BudgetKept
<1>4. ASSUME NEW r \in Requests, NEW p, NEW c, NEW m, AddResumedRequest(r, p, c, m)
      PROVE  BatchFits' /\ LaneAccounts' /\ LaneFullyFunded' /\ BudgetRespected'
  <2>1. /\ Len(running) < MaxRunning /\ running' = Append(running, r) /\ lane' = lane
        /\ batch' = batch /\ phase' = "idle"
    BY <1>4 DEF AddResumedRequest, stepVars
  <2>2. LaneFullyFunded'
    BY <2>1 DEF LaneFullyFunded
  <2> QED BY <1>1, <2>1, <2>2, MemberJoins, BudgetKept
<1>5. ASSUME NEW r \in Requests, NEW t, NEW m, ContinueSession(r, t, m)
      PROVE  BatchFits' /\ LaneAccounts' /\ LaneFullyFunded' /\ BudgetRespected'
  <2>1. /\ Len(running) < MaxRunning /\ running' = Append(running, r) /\ lane' = lane
        /\ batch' = batch /\ phase' = "idle"
    BY <1>5 DEF ContinueSession, stepVars
  <2>2. LaneFullyFunded'
    BY <2>1 DEF LaneFullyFunded
  <2> QED BY <1>1, <2>1, <2>2, MemberJoins, BudgetKept
<1>6. ASSUME NEW r \in Requests, AbortRequest(r) \/ FailRequest(r)
      PROVE  BatchFits' /\ LaneAccounts' /\ LaneFullyFunded' /\ BudgetRespected'
  <2>1. PICK st : Leave(r, st)
    BY <1>6 DEF AbortRequest, FailRequest
  <2>2. UNCHANGED tokenVars /\ batch' = batch /\ phase' = phase
    BY <1>6 DEF AbortRequest, FailRequest, Leave, stepVars
  <2>3. /\ BatchFits' /\ LaneAccounts'
        /\ ToSet(running') \subseteq ToSet(running)
        /\ lane'.members \subseteq lane.members
    BY <1>1, <2>1, LeaveFits
  <2>4. LaneFullyFunded'
    BY <1>1, <2>2, <2>3, FundingKept DEF tokenVars
  <2> QED BY <1>1, <2>2, <2>3, <2>4, BudgetKept
<1>7. ASSUME NEW r \in Requests, CloseParkedRequest(r)
      PROVE  BatchFits' /\ LaneAccounts' /\ LaneFullyFunded' /\ BudgetRespected'
  <2>1. /\ running' = running /\ lane' = lane /\ batch' = batch /\ phase' = phase
        /\ UNCHANGED tokenVars
    BY <1>7 DEF CloseParkedRequest, stepVars
  <2> QED BY <1>1, <2>1, LaneKept, FundingKept, BudgetKept DEF tokenVars
<1>8. CASE Schedule
  <2>1. OneChunkEach'
    BY <1>1 DEF IInv, Housekeeping
  <2> QED BY <1>8, <2>1, ScheduleFits DEF StepFits, BudgetRespected
<1>9. CASE UpdateFromOutput
  <2>1. PICK i \in DOMAIN batch, stop \in BOOLEAN :
          PassEntry(i, "updating") /\ CommitEntry(batch[i][1], batch[i][2], stop)
    BY <1>9 DEF UpdateFromOutput
  <2>2. batch[i][1] \in Requests
    BY <1>1 DEF TypeOK
  <2> QED BY <1>1, <2>1, <2>2, CommitFits, PassEntryFits
<1>10. CASE SkipEntry
  <2>1. PICK i \in DOMAIN batch : PassEntry(i, "updating")
    BY <1>10 DEF SkipEntry
  <2>2. running' = running /\ lane' = lane
    BY <1>10 DEF SkipEntry, queueVars
  <2> QED BY <1>1, <2>1, <2>2, LaneKept, PassEntryFits
<1>11. CASE FailScheduled
  <2>1. PICK i \in DOMAIN batch :
          /\ PassEntry(i, "failing")
          /\ Leave(batch[i][1], "FINISHED_ERROR") \/ (running' = running /\ lane' = lane)
    BY <1>11 DEF FailScheduled, queueVars
  <2>2. batch[i][1] \in Requests
    BY <1>1 DEF TypeOK
  <2>3. BatchFits' /\ LaneAccounts'
    BY <1>1, <2>1, <2>2, LeaveFits, LaneKept
  <2> QED BY <1>1, <2>1, <2>3, PassEntryFits
<1>12. CASE UNCHANGED vars
  <2>1. /\ running' = running /\ lane' = lane /\ batch' = batch /\ phase' = phase
        /\ UNCHANGED tokenVars
    BY <1>12 DEF vars, tokenVars
  <2> QED BY <1>1, <2>1, LaneKept, FundingKept, BudgetKept DEF tokenVars
<1> QED BY <1>3, <1>4, <1>5, <1>6, <1>7, <1>8, <1>9, <1>10, <1>11, <1>12
    DEF Next, CallScheduler, Step

LEMMA BatchInductive == Spec => []BatchInv
  BY BatchInitially, BatchKept, PTL DEF Spec

\* Requests leave the queue for the batch in schedule() only.
LEMMA OnlyScheduleAdmits ==
    ASSUME BatchInv, Next, ~Schedule, NEW r \in Requests, status[r] = "WAITING"
    PROVE  status'[r] # "RUNNING"
<1>1. status \in [Requests -> Status] /\ batch \in Seq(Requests \X Nat)
  BY DEF BatchInv, IInv, TypeOK
<1>2. ASSUME NEW x \in Requests, NEW st \in Status \ {"RUNNING"},
             status' = [status EXCEPT ![x] = st]
      PROVE  status'[r] # "RUNNING"
  BY <1>1, <1>2
<1>3. ASSUME NEW x \in Requests, status[x] # "WAITING", NEW st \in Status,
             status' = [status EXCEPT ![x] = st]
      PROVE  status'[r] # "RUNNING"
  BY <1>1, <1>3
<1>4. ASSUME NEW x \in Requests, NEW st \in Finished, Leave(x, st)
      PROVE  status'[r] # "RUNNING"
  BY <1>2, <1>4 DEF Leave, Finished, Status, Live
<1>5. ASSUME NEW x \in Requests
      PROVE  /\ \A p, m : AddRequest(x, p, m) => status'[r] # "RUNNING"
             /\ \A p, c, m : AddResumedRequest(x, p, c, m) => status'[r] # "RUNNING"
             /\ \A t, m : ContinueSession(x, t, m) => status'[r] # "RUNNING"
             /\ AbortRequest(x) \/ FailRequest(x) => status'[r] # "RUNNING"
             /\ CloseParkedRequest(x) => status'[r] # "RUNNING"
  <2>1. \A p, m : AddRequest(x, p, m) => status'[r] # "RUNNING"
    BY <1>2 DEF AddRequest, Status, Live
  <2>2. \A p, c, m : AddResumedRequest(x, p, c, m) => status'[r] # "RUNNING"
    BY <1>3 DEF AddResumedRequest, Status, Live
  <2>3. \A t, m : ContinueSession(x, t, m) => status'[r] # "RUNNING"
    BY <1>3 DEF ContinueSession, Status, Live
  <2>4. AbortRequest(x) \/ FailRequest(x) => status'[r] # "RUNNING"
    BY <1>4 DEF AbortRequest, FailRequest, Finished
  <2>5. CloseParkedRequest(x) => status'[r] # "RUNNING"
    BY <1>2 DEF CloseParkedRequest, Status, Finished
  <2> QED BY <2>1, <2>2, <2>3, <2>4, <2>5
<1>6. ASSUME UpdateFromOutput PROVE status'[r] # "RUNNING"
  <2>1. PICK i \in DOMAIN batch, stop \in BOOLEAN :
          CommitEntry(batch[i][1], batch[i][2], stop)
    BY <1>6 DEF UpdateFromOutput
  <2> DEFINE x == batch[i][1]
  <2>2. x \in Requests /\ status[x] = "RUNNING"
    BY <1>1, <2>1 DEF CommitEntry, InBatch
  <2>3. status' = status \/ \E st : status' = [status EXCEPT ![x] = st]
    BY <2>1, Zenon DEF CommitEntry, FinishTurn, Park
  <2> HIDE DEF x
  <2> QED BY <1>1, <2>2, <2>3
<1>7. ASSUME FailScheduled PROVE status'[r] # "RUNNING"
  <2>1. PICK i \in DOMAIN batch :
          Leave(batch[i][1], "FINISHED_ERROR") \/ status' = status
    BY <1>7 DEF FailScheduled
  <2>2. batch[i][1] \in Requests /\ "FINISHED_ERROR" \in Finished
    BY <1>1 DEF Finished
  <2> QED BY <1>4, <2>1, <2>2
<1>8. ASSUME SkipEntry PROVE status'[r] # "RUNNING"
  BY <1>8 DEF SkipEntry
<1> QED BY <1>5, <1>6, <1>7, <1>8 DEF Next, CallScheduler, Step

\* No operation finds a finished request to work on.
LEMMA FinishedUntouched ==
    ASSUME BatchInv, Next, NEW r \in Requests, status[r] \in Finished
    PROVE  status'[r] = status[r] /\ computed'[r] = computed[r] /\ output'[r] = output[r]
<1>1. /\ status \in [Requests -> Status] /\ batch \in Seq(Requests \X Nat)
      /\ computed \in [Requests -> Nat] /\ output \in [Requests -> Nat]
      /\ waiting \in Seq(Requests)
      /\ \A i \in 1 .. Len(waiting) : status[waiting[i]] = "WAITING"
  BY Queued DEF BatchInv, IInv, TypeOK
<1>2. status[r] \notin {"NEW", "WAITING", "RUNNING", "PARKED"}
  BY DEF Finished
<1>3. ASSUME NEW x \in Requests, NEW st, Leave(x, st)
      PROVE  status'[r] = status[r] /\ computed'[r] = computed[r] /\ output'[r] = output[r]
  <2>1. /\ status' = [status EXCEPT ![x] = st] /\ status[x] \in {"WAITING", "RUNNING", "PARKED"}
        /\ computed' = computed /\ output' = output
    BY <1>3 DEF Leave, tokenVars
  <2> QED BY <1>1, <1>2, <2>1
<1>4. ASSUME NEW x \in Requests, NEW p, NEW m, AddRequest(x, p, m)
      PROVE  status'[r] = status[r] /\ computed'[r] = computed[r] /\ output'[r] = output[r]
  BY <1>1, <1>2, <1>4 DEF AddRequest
<1>5. ASSUME NEW x \in Requests, NEW p, NEW c, NEW m, AddResumedRequest(x, p, c, m)
      PROVE  status'[r] = status[r] /\ computed'[r] = computed[r] /\ output'[r] = output[r]
  BY <1>1, <1>2, <1>5 DEF AddResumedRequest
<1>6. ASSUME NEW x \in Requests, NEW t, NEW m, ContinueSession(x, t, m)
      PROVE  status'[r] = status[r] /\ computed'[r] = computed[r] /\ output'[r] = output[r]
  BY <1>1, <1>2, <1>6 DEF ContinueSession
<1>7. ASSUME NEW x \in Requests, AbortRequest(x) \/ FailRequest(x)
      PROVE  status'[r] = status[r] /\ computed'[r] = computed[r] /\ output'[r] = output[r]
  BY <1>3, <1>7 DEF AbortRequest, FailRequest
<1>8. ASSUME NEW x \in Requests, CloseParkedRequest(x)
      PROVE  status'[r] = status[r] /\ computed'[r] = computed[r] /\ output'[r] = output[r]
  BY <1>1, <1>2, <1>8 DEF CloseParkedRequest, tokenVars
<1>9. ASSUME Schedule
      PROVE  status'[r] = status[r] /\ computed'[r] = computed[r] /\ output'[r] = output[r]
  <2>1. PICK k \in 0 .. Len(waiting) : AdmitFirst(k)
    BY <1>9, Zenon DEF Schedule, ScheduleDefault, ScheduleCompletionPrefillLane
  <2>2. \A i \in 1 .. k : waiting[i] # r
    BY <1>1, <1>2
  <2>3. status'[r] = status[r]
    BY <2>1, <2>2 DEF AdmitFirst
  <2> QED BY <1>9, <2>3 DEF Schedule, tokenVars
<1>10. ASSUME UpdateFromOutput
       PROVE  status'[r] = status[r] /\ computed'[r] = computed[r] /\ output'[r] = output[r]
  <2>1. PICK i \in DOMAIN batch, stop \in BOOLEAN :
          CommitEntry(batch[i][1], batch[i][2], stop)
    BY <1>10 DEF UpdateFromOutput
  <2> DEFINE x == batch[i][1]
             n == batch[i][2]
  <2>2. x \in Requests /\ status[x] = "RUNNING"
    BY <1>1, <2>1 DEF CommitEntry, InBatch
  <2>3. /\ status' = status \/ \E st : status' = [status EXCEPT ![x] = st]
        /\ output' = output \/ output' = [output EXCEPT ![x] = @ + 1]
        /\ computed' = [computed EXCEPT ![x] = @ + n]
    BY <2>1, Zenon DEF CommitEntry, FinishTurn, Park
  <2> HIDE DEF x, n
  <2> QED BY <1>1, <1>2, <2>2, <2>3
<1>11. ASSUME SkipEntry
       PROVE  status'[r] = status[r] /\ computed'[r] = computed[r] /\ output'[r] = output[r]
  BY <1>11 DEF SkipEntry, tokenVars
<1>12. ASSUME FailScheduled
       PROVE  status'[r] = status[r] /\ computed'[r] = computed[r] /\ output'[r] = output[r]
  <2>1. PICK i \in DOMAIN batch :
          \/ Leave(batch[i][1], "FINISHED_ERROR")
          \/ UNCHANGED <<status, tokenVars>>
    BY <1>12 DEF FailScheduled
  <2>2. batch[i][1] \in Requests
    BY <1>1
  <2> QED BY <1>3, <2>1, <2>2 DEF tokenVars
<1> QED BY <1>4, <1>5, <1>6, <1>7, <1>8, <1>9, <1>10, <1>11, <1>12
    DEF Next, CallScheduler, Step

-----------------------------------------------------------------------------
(***************************************************************************)
(* The theorems.                                                           *)
(***************************************************************************)

\* A step never computes more tokens than max_tokens_per_step, nor more of a
\* request than its cap, nor two chunks of one, in either scheduling mode.
THEOREM BudgetIsRespected == Spec => []BudgetRespected
  BY BatchInductive, PTL DEF BatchInv

\* Lanes that started, completed and were cancelled add up, and a lane holds
\* requests of the batch only, LaneSize of them at most.
THEOREM LaneIsAccounted == Spec => []LaneAccounts
  BY BatchInductive, PTL DEF BatchInv

\* The budget that SchedulerConfig insists on funds every decode and the whole
\* lane at once, however long the batch.
THEOREM LaneIsFunded == Spec => []LaneFullyFunded
  BY BatchInductive, PTL DEF BatchInv

\* An admission without tokens never happens, in either scheduling mode: the
\* slots of an admitted request are always zeroed (engine.py:115-118).
THEOREM AdmissionsAreScheduled == Spec => AdmittedAreScheduled
<1> DEFINE Scheduled ==
             \A r \in Requests :
               status[r] = "WAITING" /\ status'[r] = "RUNNING" =>
                 \E n \in 1 .. MaxPerRequest : <<r, n>> \in ToSet(batch')
<1>1. BatchInv /\ [Next]_vars => [Scheduled]_vars
  <2> SUFFICES ASSUME BatchInv, Next PROVE Scheduled
    OBVIOUS
  <2>1. CASE Schedule
    BY <2>1, ScheduleFits DEF StepFits
  <2>2. CASE ~Schedule
    BY <2>2, OnlyScheduleAdmits
  <2> QED BY <2>1, <2>2
<1> QED BY <1>1, BatchInductive, PTL DEF Spec, AdmittedAreScheduled

\* No call and no step touches a finished request again (scheduler.py:269).
THEOREM FinishedStaysFinished == Spec => FinishedIsFinal
<1> DEFINE Final ==
             \A r \in Requests : status[r] \in Finished =>
               /\ status'[r] = status[r]
               /\ computed'[r] = computed[r] /\ output'[r] = output[r]
<1>1. BatchInv /\ [Next]_vars => [Final]_vars
  <2> SUFFICES ASSUME BatchInv, Next, NEW r \in Requests, status[r] \in Finished
               PROVE  /\ status'[r] = status[r]
                      /\ computed'[r] = computed[r] /\ output'[r] = output[r]
    OBVIOUS
  <2> QED BY FinishedUntouched
<1> QED BY <1>1, BatchInductive, PTL DEF Spec, FinishedIsFinal

=============================================================================
