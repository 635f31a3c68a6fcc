---------------------------- MODULE DurableProofs ----------------------------
(***************************************************************************)
(* What the RWKV engine promises wherever its steps and calls may raise,   *)
(* for any requests, slots, families, budget and number of snapshots: who  *)
(* owns the slots, and that a handle is the state of the tokens it says.   *)
(*                                                                         *)
(* A request that on_finish left behind is finished and still in the       *)
(* batch, so the scheduler's own invariant does not hold here.             *)
(***************************************************************************)
EXTENDS DurableEngine, SchedulerProofs

-----------------------------------------------------------------------------
(***************************************************************************)
(* The inductive invariant.                                                *)
(***************************************************************************)

Owners == ToSet(running)

\* The queues, with the stranded in the batch.  Nothing is ever parked.
EngineQueues ==
    /\ IsInjective(waiting) /\ IsInjective(running)
    /\ ToSet(waiting) = {r \in Requests : status[r] = "WAITING"}
    /\ \A r \in Requests : status[r] = "RUNNING" => r \in Owners
    /\ \A r \in Owners : status[r] = "RUNNING" \/ (status[r] \in Finished /\ r \in hurt)
    /\ parked = {} /\ park_on_finish = {}
    /\ \A r \in Requests : status[r] # "PARKED"

\* Who has slots, and how many are left.
EngineSlots ==
    /\ \A r \in Requests : slots[r] # NoSlots <=> r \in Owners
    /\ \A r \in Owners : \A f \in Families : slots[r][f] \in allocated[f]
    /\ \A r, q \in Owners : \A f \in Families : slots[r][f] = slots[q][f] => r = q
    /\ ArenaPartition
    /\ lost \in Nat
    /\ \A f \in Families : Len(free[f]) + Len(running) + lost = NumSlots

\* What is known of a request and what of it is computed.
EngineTokens ==
    /\ tokens \in [Requests -> Seq(Requests)]
    /\ \A r \in Requests : Len(tokens[r]) = prompt[r] + output[r]
    /\ \A r \in Requests :
          status[r] \in {"NEW", "WAITING"} => output[r] = 0 /\ computed[r] = 0
    /\ \A r \in Requests :
          status[r] = "WAITING" \/ r \in Owners => computed[r] < Len(tokens[r])

\* The entries that are not committed yet, and those of them that were fed.
Open == {i \in DOMAIN batch : IsScheduled(batch[i])}
Done == Open \ todo

\* The step under way.
EngineStepOK ==
    /\ phase \in {"idle", "scheduled", "updating"}
    /\ phase = "idle" <=> Open = {}
    /\ phase = "idle" => batch = << >>
    /\ \A i, j \in Open : batch[i][1] = batch[j][1] => i = j
    /\ \A i \in Open : /\ batch[i][1] \in Owners
                       /\ computed[batch[i][1]] + batch[i][2] <= Len(tokens[batch[i][1]])
    /\ todo \subseteq Open
    /\ todo # {} => phase = "scheduled"
    /\ fresh \in Seq(Requests) /\ IsInjective(fresh)
    /\ \A r \in ToSet(fresh) : computed[r] = 0 /\ \E i \in todo : batch[i][1] = r

\* The state of a sound request is that of what was computed, or fed.
Value == Seq(Requests) \cup {Garbage}

BankType == bank \in [Families -> [Slot -> Value]]

HasState(r, n) == \A f \in Families : bank[f][slots[r][f]] = Known(r, n)

EngineBank ==
    /\ BankType
    /\ \A r \in Owners \ (hurt \cup ToSet(fresh)) :
          /\ (\A i \in Done : batch[i][1] # r) => HasState(r, computed[r])
          /\ \A i \in Done : batch[i][1] = r => HasState(r, computed[r] + batch[i][2])

EngineSaved == saved \in Seq(SnapshotType) /\ SnapshotsAreExact

EInv ==
    /\ TypeOK
    /\ EngineQueues /\ EngineSlots /\ EngineTokens
    /\ EngineStepOK /\ EngineBank /\ EngineSaved

-----------------------------------------------------------------------------
(***************************************************************************)
(* Sequences.                                                              *)
(***************************************************************************)

\* What is put behind a sequence does not change its prefixes.
LEMMA PrefixStays ==
    ASSUME NEW S, NEW s \in Seq(S), NEW w \in Seq(S), NEW n \in 0 .. Len(s)
    PROVE  SubSeq(s \o w, 1, n) = SubSeq(s, 1, n)
<1> DEFINE a == SubSeq(s \o w, 1, n)
           b == SubSeq(s, 1, n)
<1>1. s \o w \in Seq(S) /\ Len(s \o w) = Len(s) + Len(w)
      /\ \A i \in 1 .. Len(s) : (s \o w)[i] = s[i]
  BY Joined
<1>2. a \in Seq(S) /\ Len(a) = n /\ \A i \in 1 .. n : a[i] = (s \o w)[i]
  BY <1>1, TakeFront
<1>3. b \in Seq(S) /\ Len(b) = n /\ \A i \in 1 .. n : b[i] = s[i]
  BY TakeFront
<1> QED BY <1>1, <1>2, <1>3

LEMMA PrefixOfAppend ==
    ASSUME NEW S, NEW s \in Seq(S), NEW x \in S, NEW n \in 0 .. Len(s)
    PROVE  /\ Append(s, x) \in Seq(S) /\ Len(Append(s, x)) = Len(s) + 1
           /\ SubSeq(Append(s, x), 1, n) = SubSeq(s, 1, n)
<1> DEFINE t == Append(s, x)
           a == SubSeq(t, 1, n)
           b == SubSeq(s, 1, n)
<1>1. t \in Seq(S) /\ Len(t) = Len(s) + 1 /\ \A i \in 1 .. Len(s) : t[i] = s[i]
  OBVIOUS
<1>2. a \in Seq(S) /\ Len(a) = n /\ \A i \in 1 .. n : a[i] = t[i]
  <2> HIDE DEF t
  <2> QED BY <1>1, TakeFront
<1>3. b \in Seq(S) /\ Len(b) = n /\ \A i \in 1 .. n : b[i] = s[i]
  BY TakeFront
<1>4. a = b
  <2> HIDE DEF t, a, b
  <2> QED BY <1>1, <1>2, <1>3
<1> QED BY <1>1, <1>4

\* A list without duplicates has as many members as places.
LEMMA MembersCounted ==
    ASSUME NEW S, NEW s \in Seq(S), IsInjective(s)
    PROVE  IsFiniteSet(ToSet(s)) /\ Cardinality(ToSet(s)) = Len(s)
<1>1. /\ IsFiniteSet(1 .. Len(s)) /\ Cardinality(1 .. Len(s)) = Len(s)
  <2>1. Len(s) \in Nat /\ Len(s) \in Int /\ 1 \in Int
    OBVIOUS
  <2>2. /\ IsFiniteSet(1 .. Len(s))
        /\ Cardinality(1 .. Len(s)) = IF 1 > Len(s) THEN 0 ELSE Len(s) - 1 + 1
    BY <2>1, FS_Interval
  <2> QED BY <2>1, <2>2
<1>2. s \in Bijection(1 .. Len(s), ToSet(s))
  BY DEF Bijection, Injection, Surjection, IsInjective, ToSet
<1>3. ExistsBijection(1 .. Len(s), ToSet(s))
  BY <1>2 DEF ExistsBijection
<1> QED BY <1>1, <1>3, FS_Bijection

-----------------------------------------------------------------------------
(***************************************************************************)
(* What the parts of the invariant depend on.                              *)
(***************************************************************************)

\* Those in the batch, and nobody else, have slots.
LEMMA OwnersHaveSlots ==
    ASSUME TypeOK, EngineSlots
    PROVE  /\ Owners \subseteq Requests
           /\ {r \in Requests : slots[r] # NoSlots} = Owners
           /\ \A r \in Owners : slots[r] \in SlotSet /\ slots[r] # NoSlots
<1>1. Owners \subseteq Requests
  BY DEF Owners, ToSet, TypeOK
<1>2. \A r \in Requests : slots[r] \in SlotSet \cup {NoSlots}
  BY DEF TypeOK
<1> QED BY <1>1, <1>2 DEF EngineSlots

LEMMA QueuesSame ==
    ASSUME EngineQueues, UNCHANGED <<waiting, running, status, parked, park_on_finish>>,
           hurt \subseteq hurt'
    PROVE  EngineQueues'
  BY DEF EngineQueues, Owners

LEMMA SlotsSame ==
    ASSUME EngineSlots, UNCHANGED <<arenaVars, running, slots, lost>>
    PROVE  EngineSlots'
  BY DEF EngineSlots, Owners, arenaVars, ArenaPartition

LEMMA TokensSame ==
    ASSUME EngineTokens, UNCHANGED <<tokens, prompt, output, computed, status, running>>
    PROVE  EngineTokens'
  BY DEF EngineTokens, Owners

LEMMA SavedSame ==
    ASSUME EngineSaved, UNCHANGED saved
    PROVE  EngineSaved'
  BY DEF EngineSaved, SnapshotsAreExact

LEMMA TypeSame ==
    ASSUME TypeOK, UNCHANGED vars
    PROVE  TypeOK'
  BY DEF TypeOK, ArenaTypeOK, vars

\* Between steps there is nothing to feed and nothing to commit.
LEMMA NothingOpen ==
    ASSUME EngineStepOK, phase = "idle"
    PROVE  Open = {} /\ Done = {} /\ todo = {} /\ ToSet(fresh) = {}
  BY DEF EngineStepOK, Done

LEMMA StillIdle ==
    ASSUME EngineStepOK, phase = "idle", UNCHANGED <<stepVars, fresh, todo>>
    PROVE  EngineStepOK' /\ Open' = {} /\ Done' = {} /\ ToSet(fresh)' = {}
<1>1. Open = {} /\ todo = {} /\ ToSet(fresh) = {} /\ batch = << >>
  BY NothingOpen DEF EngineStepOK
<1>2. Open' = {}
  BY <1>1 DEF Open, stepVars
<1> QED BY <1>1, <1>2 DEF EngineStepOK, Done, stepVars

LEMMA BankIdle ==
    ASSUME EngineBank, EngineStepOK, phase = "idle", NEW r \in Owners, r \notin hurt
    PROVE  HasState(r, computed[r])
  BY NothingOpen DEF EngineBank

LEMMA BankStillIdle ==
    ASSUME BankType', Done' = {},
           \A r \in Owners' \ hurt' : HasState(r, computed[r])'
    PROVE  EngineBank'
  BY DEF EngineBank

\* What is saved of a request that owns its slots.
LEMMA StateIsValue ==
    ASSUME TypeOK, EngineSlots, BankType, NEW r \in Owners
    PROVE  /\ StateOf(r) \in [Families -> Value]
           /\ \A f \in Families : StateOf(r)[f] = bank[f][slots[r][f]]
<1>1. slots[r] \in SlotSet
  BY OwnersHaveSlots
<1>2. \A f \in Families : slots[r][f] \in Slot /\ bank[f][slots[r][f]] \in Value
  BY <1>1 DEF SlotSet, BankType
<1> QED BY <1>2 DEF StateOf

\* One more record that is what it says.
LEMMA SavedGrows ==
    ASSUME EngineSaved, NEW t \in Seq(Requests), NEW n \in Nat, n < Len(t),
           NEW b \in BOOLEAN, NEW v \in [Families -> Value],
           b => \A f \in Families : v[f] = SubSeq(t, 1, n),
           saved' = Append(saved, [tokens |-> t, computed |-> n, sound |-> b, state |-> v])
    PROVE  EngineSaved'
<1> DEFINE rec == [tokens |-> t, computed |-> n, sound |-> b, state |-> v]
<1>1. /\ rec \in SnapshotType
      /\ rec.tokens = t /\ rec.computed = n /\ rec.sound = b /\ rec.state = v
  BY DEF SnapshotType, Value
<1> HIDE DEF rec
<1>2. /\ saved' \in Seq(SnapshotType) /\ Len(saved') = Len(saved) + 1
      /\ saved'[Len(saved) + 1] = rec
      /\ \A h \in 1 .. Len(saved) : saved'[h] = saved[h]
  BY <1>1 DEF EngineSaved, rec
<1>3. \A h \in DOMAIN saved' : h = Len(saved) + 1 \/ h \in DOMAIN saved
  BY <1>2 DEF EngineSaved
<1> QED BY <1>1, <1>2, <1>3 DEF EngineSaved, SnapshotsAreExact

-----------------------------------------------------------------------------
(***************************************************************************)
(* The bank.                                                               *)
(***************************************************************************)

\* Feeding some entries changes the state of their requests and of no other
\* that owns its slots.
LEMMA FeedsTheirOwn ==
    ASSUME TypeOK, EngineSlots, EngineTokens, BankType,
           NEW E, FeedAll(E),
           \A e \in E : /\ e[1] \in Owners /\ e[2] \in Nat
                        /\ computed[e[1]] + e[2] <= Len(tokens[e[1]]),
           \A d, e \in E : d[1] = e[1] => d = e
    PROVE  /\ BankType'
           /\ \A r \in Owners : (\A e \in E : e[1] # r) =>
                \A f \in Families : bank'[f][slots[r][f]] = bank[f][slots[r][f]]
           /\ \A e \in E : HasState(e[1], computed[e[1]]) =>
                \A f \in Families :
                    bank'[f][slots[e[1]][f]] = Known(e[1], computed[e[1]] + e[2])
<1> DEFINE Fits(e, f, x) == slots[e[1]] # NoSlots /\ slots[e[1]][f] = x
           Chosen(f, x) == CHOOSE e \in E : slots[e[1]][f] = x
           new(f, x) == IF \E e \in E : Fits(e, f, x)
                        THEN Fed(Chosen(f, x)[1], Chosen(f, x)[2], bank[f][x])
                        ELSE bank[f][x]
<1>1. bank' = [f \in Families |-> [x \in Slot |-> new(f, x)]]
  BY DEF FeedAll
<1>2. /\ Owners \subseteq Requests
      /\ \A r \in Owners : slots[r] # NoSlots
      /\ \A r \in Owners : \A f \in Families : slots[r][f] \in Slot
  BY OwnersHaveSlots DEF SlotSet
<1>3. \A e \in E : \A f \in Families : Chosen(f, slots[e[1]][f]) = e
  <2> TAKE e \in E
  <2> TAKE f \in Families
  <2> DEFINE c == Chosen(f, slots[e[1]][f])
  <2>1. c \in E /\ slots[c[1]][f] = slots[e[1]][f]
    OBVIOUS
  <2>2. c[1] = e[1]
    <3> HIDE DEF c
    <3> QED BY <2>1 DEF EngineSlots
  <2> HIDE DEF c
  <2>3. c = e
    BY <2>1, <2>2
  <2> QED BY <2>3 DEF c
<1>4. \A f \in Families : \A x \in Slot : bank'[f][x] = new(f, x)
  <2> HIDE DEF new
  <2> QED BY <1>1
<1>5. \A e \in E : \A f \in Families :
        new(f, slots[e[1]][f]) = Fed(e[1], e[2], bank[f][slots[e[1]][f]])
  <2> HIDE DEF Chosen
  <2> QED BY <1>2, <1>3
<1>6. \A r \in Owners : (\A e \in E : e[1] # r) =>
        \A f \in Families : new(f, slots[r][f]) = bank[f][slots[r][f]]
  <2> SUFFICES ASSUME NEW r \in Owners, \A e \in E : e[1] # r, NEW f \in Families
               PROVE  ~ \E e \in E : Fits(e, f, slots[r][f])
    OBVIOUS
  <2> QED BY DEF EngineSlots
<1> HIDE DEF new
<1>7. \A e \in E : \A v \in Value : Fed(e[1], e[2], v) \in Value
  <2> TAKE e \in E
  <2> TAKE v \in Value
  <2> DEFINE q == tokens[e[1]]
             n == computed[e[1]] + e[2]
  <2>1. e[1] \in Requests /\ q \in Seq(Requests) /\ n \in 0 .. Len(q)
    <3>1. e[1] \in Requests
      BY <1>2
    <3>2. q \in Seq(Requests)
      BY <3>1 DEF EngineTokens
    <3>3. computed[e[1]] \in Nat /\ e[2] \in Nat /\ n <= Len(q)
      BY <3>1 DEF TypeOK
    <3> QED BY <3>1, <3>2, <3>3
  <2>2. SubSeq(q, 1, n) \in Seq(Requests)
    <3> HIDE DEF q, n
    <3> QED BY <2>1, TakeFront
  <2> QED BY <2>2 DEF Fed, Known, Value
<1>8. BankType'
  <2>1. \A f \in Families : \A x \in Slot : new(f, x) \in Value
    <3> TAKE f \in Families
    <3> TAKE x \in Slot
    <3>1. bank[f][x] \in Value
      BY DEF BankType
    <3>2. CASE \E e \in E : Fits(e, f, x)
      <4>1. PICK e \in E : slots[e[1]][f] = x
        BY <3>2
      <4> QED BY <3>1, <4>1, <1>5, <1>7
    <3>3. CASE ~ \E e \in E : Fits(e, f, x)
      BY <3>1, <3>3 DEF new
    <3> QED BY <3>2, <3>3
  <2> QED BY <1>1, <2>1 DEF BankType
<1>9. \A e \in E : HasState(e[1], computed[e[1]]) =>
        \A f \in Families :
          bank'[f][slots[e[1]][f]] = Known(e[1], computed[e[1]] + e[2])
  BY <1>2, <1>4, <1>5 DEF HasState, Fed
<1> QED BY <1>2, <1>4, <1>6, <1>8, <1>9

\* Writing one slot of each family leaves the others alone.
LEMMA OverwritesOne ==
    ASSUME BankType, NEW s \in SlotSet, NEW v \in [Families -> Value], Overwrite(s, v)
    PROVE  /\ BankType'
           /\ \A f \in Families : \A x \in Slot :
                bank'[f][x] = IF x = s[f] THEN v[f] ELSE bank[f][x]
<1>1. ASSUME NEW f \in Families
      PROVE  /\ bank'[f] \in [Slot -> Value]
             /\ \A x \in Slot : bank'[f][x] = IF x = s[f] THEN v[f] ELSE bank[f][x]
  <2> DEFINE b == bank[f]
             y == s[f]
             w == v[f]
  <2>1. bank'[f] = [b EXCEPT ![y] = w]
    BY DEF Overwrite
  <2>2. b \in [Slot -> Value] /\ y \in Slot /\ w \in Value
    BY DEF SlotSet, BankType
  <2> HIDE DEF b, y, w
  <2>3. /\ bank'[f] \in [Slot -> Value]
        /\ \A x \in Slot : bank'[f][x] = IF x = y THEN w ELSE b[x]
    BY <2>1, <2>2
  <2> QED BY <2>3 DEF b, y, w
<1>4. bank' = [f \in Families |-> bank'[f]]
  BY DEF Overwrite
<1> QED BY <1>1, <1>4 DEF BankType

-----------------------------------------------------------------------------
(***************************************************************************)
(* The slots.                                                              *)
(***************************************************************************)

\* n allocations, of which k go to requests that join the batch and the rest
\* to nobody.
LEMMA EngineAllocates ==
    ASSUME TypeOK, EngineSlots, NEW n \in Nat, AllocateSlots(n),
           NEW q \in Seq(Requests), IsInjective(q), ToSet(q) \cap Owners = {},
           NEW k \in 0 .. Len(q), k <= n,
           \A i \in 1 .. k : slots'[q[i]] = NthAllocation(i),
           \A r \in Requests :
               (\A i \in 1 .. k : q[i] # r) => slots'[r] = slots[r],
           slots' = [r \in Requests |-> slots'[r]],
           Len(running') = Len(running) + k,
           Owners' = Owners \cup {q[i] : i \in 1 .. k},
           lost' = lost + (n - k)
    PROVE  /\ EngineSlots' /\ ArenaTypeOK'
           /\ slots' \in [Requests -> SlotSet \cup {NoSlots}]
<1>1. /\ ArenaTypeOK' /\ ArenaPartition'
      /\ \A i \in 1 .. n : NthAllocation(i) \in SlotSet
      /\ \A i \in 1 .. n : \A f \in Families :
             NthAllocation(i)[f] \notin allocated[f]
      /\ \A i, j \in 1 .. n : \A f \in Families :
             NthAllocation(i)[f] = NthAllocation(j)[f] => i = j
  <2>1. ArenaTypeOK /\ ArenaPartition
    BY DEF TypeOK, EngineSlots
  <2> QED BY <2>1, AllocateKeepsPartition
<1>2. \A i \in 1 .. k : i \in 1 .. n /\ q[i] \in Requests /\ q[i] \notin Owners
  BY DEF ToSet
<1>3. \A r \in Owners : r \in Requests /\ slots'[r] = slots[r]
  BY <1>2, OwnersHaveSlots
<1>4. \A r \in Requests : slots'[r] # NoSlots <=> r \in Owners'
  <2> TAKE r \in Requests
  <2>1. CASE \E i \in 1 .. k : q[i] = r
    BY <1>1, <1>2, <2>1, NoSlotsIsNoSet
  <2>2. CASE \A i \in 1 .. k : q[i] # r
    BY <2>2 DEF EngineSlots
  <2> QED BY <2>1, <2>2
<1>5. \A f \in Families : /\ allocated[f] \subseteq allocated'[f]
                          /\ \A i \in 1 .. n : NthAllocation(i)[f] \in allocated'[f]
  BY DEF AllocateSlots
<1>11. \A r \in Owners' : r \in Owners \/ \E i \in 1 .. k : r = q[i]
  OBVIOUS
<1>6. \A r \in Owners' : \A f \in Families : slots'[r][f] \in allocated'[f]
  <2> TAKE r \in Owners'
  <2> TAKE f \in Families
  <2>1. CASE r \in Owners
    BY <1>3, <1>5, <2>1 DEF EngineSlots
  <2>2. ASSUME NEW i \in 1 .. k, r = q[i] PROVE slots'[r][f] \in allocated'[f]
    <3>1. i \in 1 .. n
      BY <1>2, <2>2
    <3>2. NthAllocation(i)[f] \in allocated'[f]
      BY <1>5, <3>1
    <3>3. slots'[q[i]] = NthAllocation(i)
      BY <2>2
    <3> QED BY <2>2, <3>2, <3>3
  <2> QED BY <1>11, <2>1, <2>2
<1>7. \A p, r \in Owners' : \A f \in Families :
          slots'[p][f] = slots'[r][f] => p = r
  <2>1. ASSUME NEW p \in Owners, NEW r \in Owners, NEW f \in Families,
               slots'[p][f] = slots'[r][f]
        PROVE  p = r
    <3>1. slots[p][f] = slots[r][f]
      BY <1>3, <2>1
    <3> QED BY <3>1 DEF EngineSlots
  <2>2. ASSUME NEW p \in Owners, NEW i \in 1 .. k, NEW f \in Families
        PROVE  slots'[p][f] # slots'[q[i]][f]
    <3>1. slots[p][f] \in allocated[f]
      BY DEF EngineSlots
    <3> QED BY <1>1, <1>2, <1>3, <3>1
  <2>3. ASSUME NEW i \in 1 .. k, NEW j \in 1 .. k, NEW f \in Families,
               slots'[q[i]][f] = slots'[q[j]][f]
        PROVE  q[i] = q[j]
    BY <1>1, <1>2, <2>3
  <2> TAKE p, r \in Owners'
  <2> TAKE f \in Families
  <2> HAVE slots'[p][f] = slots'[r][f]
  <2>4. CASE p \in Owners /\ r \in Owners
    BY <2>1, <2>4
  <2>5. CASE p \notin Owners /\ r \in Owners
    BY <1>11, <2>2, <2>5
  <2>6. CASE p \in Owners /\ r \notin Owners
    BY <1>11, <2>2, <2>6
  <2>7. CASE p \notin Owners /\ r \notin Owners
    BY <1>11, <2>3, <2>7
  <2> QED BY <2>4, <2>5, <2>6, <2>7
<1>8. \A f \in Families : Len(free'[f]) + Len(running') + lost' = NumSlots
  <2> TAKE f \in Families
  <2>1. free[f] \in Seq(Slot) /\ n \in 0 .. Len(free[f])
    BY DEF TypeOK, ArenaTypeOK, AllocateSlots, CanAdmit
  <2>2. free'[f] = SubSeq(free[f], n + 1, Len(free[f]))
    BY DEF AllocateSlots
  <2>3. Len(free'[f]) = Len(free[f]) - n
    <3> DEFINE a == free[f]
    <3> HIDE DEF a
    <3>1. Len(SubSeq(a, n + 1, Len(a))) = Len(a) - n
      BY <2>1, DropFront DEF a
    <3> QED BY <2>2, <3>1 DEF a
  <2>4. Len(free[f]) + Len(running) + lost = NumSlots
    BY DEF EngineSlots
  <2>5. Len(free[f]) \in Nat /\ Len(running) \in Nat /\ lost \in Nat /\ NumSlots \in Nat
    BY <2>1, ArenaAssumption DEF TypeOK, EngineSlots
  <2> QED BY <2>3, <2>4, <2>5, SMTT(30)
<1>9. slots' \in [Requests -> SlotSet \cup {NoSlots}]
  <2>1. ASSUME NEW r \in Requests PROVE slots'[r] \in SlotSet \cup {NoSlots}
    <3>1. CASE \E i \in 1 .. k : q[i] = r
      BY <1>1, <1>2, <3>1
    <3>2. CASE \A i \in 1 .. k : q[i] # r
      BY <3>2 DEF TypeOK
    <3> QED BY <3>1, <3>2
  <2> QED BY <2>1
<1>10. lost' \in Nat
  BY DEF EngineSlots
<1> QED BY <1>1, <1>4, <1>6, <1>7, <1>8, <1>9, <1>10 DEF EngineSlots

\* _release() of one that is in the batch.
LEMMA EngineReleases ==
    ASSUME TypeOK, EngineSlots, IsInjective(running), NEW r \in Owners, Release(r),
           UNCHANGED lost
    PROVE  /\ EngineSlots' /\ ArenaTypeOK'
           /\ slots' \in [Requests -> SlotSet \cup {NoSlots}]
           /\ running' \in Seq(Requests) /\ IsInjective(running')
           /\ Owners' = Owners \ {r}
           /\ \A x \in Owners' : slots'[x] = slots[x]
<1>1. r \in Requests /\ slots[r] \in SlotSet /\ FreeSlots(slots[r])
  BY OwnersHaveSlots DEF Release
<1>2. ArenaTypeOK' /\ ArenaPartition'
  BY <1>1, FreeKeepsPartition DEF TypeOK, EngineSlots
<1>3. /\ running' \in Seq(Requests) /\ IsInjective(running')
      /\ Owners' = Owners \ {r} /\ Len(running') = Len(running) - 1
  <2>1. running \in Seq(Requests) /\ r \in ToSet(running)
    BY DEF TypeOK, Owners
  <2>2. running' = RemoveFirst(running, r)
    BY DEF Release
  <2>3. /\ RemoveFirst(running, r) \in Seq(Requests)
        /\ IsInjective(RemoveFirst(running, r))
        /\ ToSet(RemoveFirst(running, r)) = ToSet(running) \ {r}
        /\ Len(RemoveFirst(running, r)) = Len(running) - 1
    BY <2>1, RemoveOne
  <2> QED BY <2>2, <2>3 DEF Owners
<1>4. /\ slots'[r] = NoSlots /\ \A x \in Requests \ {r} : slots'[x] = slots[x]
      /\ slots' \in [Requests -> SlotSet \cup {NoSlots}]
  BY <1>1 DEF TypeOK, Release
<1>5. \A x \in Owners' : x \in Owners /\ x \in Requests /\ slots'[x] = slots[x]
  BY <1>3, <1>4, OwnersHaveSlots
<1>6. \A f \in Families : /\ allocated'[f] = allocated[f] \ {slots[r][f]}
                          /\ free'[f] = Append(free[f], slots[r][f])
  BY <1>1 DEF FreeSlots
<1>7. \A x \in Owners' : \A f \in Families : slots'[x][f] \in allocated'[f]
  <2> TAKE x \in Owners'
  <2> TAKE f \in Families
  <2>1. x \in Owners /\ x # r /\ slots[x][f] # slots[r][f]
    BY <1>3 DEF EngineSlots
  <2> QED BY <1>5, <1>6, <2>1 DEF EngineSlots
<1>8. \A f \in Families : Len(free'[f]) + Len(running') + lost' = NumSlots
  <2> TAKE f \in Families
  <2>1. free[f] \in Seq(Slot) /\ slots[r][f] \in Slot
    BY <1>1 DEF TypeOK, ArenaTypeOK, SlotSet
  <2>2. Len(free'[f]) = Len(free[f]) + 1
    BY <1>6, <2>1
  <2>3. Len(free[f]) + Len(running) + lost = NumSlots
    BY DEF EngineSlots
  <2>4. Len(free[f]) \in Nat /\ Len(running) \in Nat /\ lost \in Nat
    BY <2>1 DEF TypeOK, EngineSlots
  <2> QED BY <1>3, <2>2, <2>3, <2>4
<1>9. \A x \in Requests : slots'[x] # NoSlots <=> x \in Owners'
  BY <1>3, <1>4 DEF EngineSlots
<1>10. \A x, y \in Owners' : \A f \in Families : slots'[x][f] = slots'[y][f] => x = y
  BY <1>5 DEF EngineSlots
<1>11. EngineSlots'
  BY <1>2, <1>7, <1>8, <1>9, <1>10 DEF EngineSlots
<1> QED BY <1>2, <1>3, <1>4, <1>5, <1>11

-----------------------------------------------------------------------------
(***************************************************************************)
(* The calls, which come between steps.                                    *)
(***************************************************************************)

LEMMA Parts ==
    ASSUME EInv
    PROVE  /\ TypeOK /\ EngineQueues /\ EngineSlots /\ EngineTokens
           /\ EngineStepOK /\ EngineBank /\ EngineSaved
           /\ Owners \subseteq Requests
  BY OwnersHaveSlots DEF EInv

LEMMA NewIsNowhere ==
    ASSUME EngineQueues, NEW r \in Requests, status[r] = "NEW"
    PROVE  r \notin ToSet(waiting) /\ r \notin Owners
  BY DEF EngineQueues, Finished

LEMMA EngineAddKeeps ==
    ASSUME EInv, NEW r \in Requests, NEW p \in PromptLens, NEW m \in OutputLimits,
           NEW save, EngineAdd(r, p, m, save)
    PROVE  EInv'
<1>1. /\ TypeOK /\ EngineQueues /\ EngineSlots /\ EngineTokens
      /\ EngineStepOK /\ EngineBank /\ EngineSaved /\ Owners \subseteq Requests
  BY Parts
<1>2. p \in Nat \ {0} /\ m \in Nat \ {0} /\ Sessions = {}
  BY SchedulerAssumption, DurableAssumption
<1>3. /\ phase = "idle" /\ status[r] = "NEW"
      /\ status' = [status EXCEPT ![r] = "WAITING"]
      /\ prompt' = [prompt EXCEPT ![r] = p] /\ limit' = [limit EXCEPT ![r] = m]
      /\ park_on_finish' = park_on_finish /\ waiting' = Append(waiting, r)
      /\ UNCHANGED <<arenaVars, running, parked, parked_as, output, computed, slots,
                     lane, stepVars>>
      /\ tokens' = [tokens EXCEPT ![r] = [i \in 1 .. p |-> r]]
      /\ UNCHANGED <<bank, fresh, todo, saved, hurt, lost>>
  BY <1>2 DEF EngineAdd, AddRequest, Between
<1>4. r \notin ToSet(waiting) /\ r \notin Owners /\ output[r] = 0 /\ computed[r] = 0
  BY <1>1, <1>3, NewIsNowhere DEF EngineTokens
<1>5. /\ waiting' \in Seq(Requests) /\ IsInjective(waiting')
      /\ ToSet(waiting') = ToSet(waiting) \cup {r}
  <2>1. waiting \in Seq(Requests) /\ IsInjective(waiting)
    BY <1>1 DEF TypeOK, EngineQueues
  <2>2. /\ Append(waiting, r) \in Seq(Requests)
        /\ IsInjective(Append(waiting, r))
        /\ ToSet(Append(waiting, r)) = ToSet(waiting) \cup {r}
    BY <2>1, <1>4, AppendFresh, ZenonT(60)
  <2> QED BY <1>3, <2>2, Zenon
<1>6. /\ status'[r] = "WAITING" /\ \A x \in Requests \ {r} : status'[x] = status[x]
      /\ status' \in [Requests -> Status]
  BY <1>1, <1>3 DEF TypeOK, Status, Live
<1>7. TypeOK'
  <2>1. ArenaTypeOK'
    BY <1>1, <1>3 DEF TypeOK, ArenaTypeOK, arenaVars
  <2>2. prompt' \in [Requests -> Nat] /\ limit' \in [Requests -> Nat]
    BY <1>1, <1>2, <1>3 DEF TypeOK
  <2> QED BY <1>1, <1>3, <1>5, <1>6, <2>1, <2>2 DEF TypeOK, stepVars
<1>8. EngineQueues'
  BY <1>1, <1>3, <1>4, <1>5, <1>6 DEF EngineQueues, Owners
<1>9. EngineSlots'
  BY <1>1, <1>3, SlotsSame
<1>10. EngineTokens'
  <2>1. [i \in 1 .. p |-> r] \in Seq(Requests) /\ Len([i \in 1 .. p |-> r]) = p
    BY <1>2
  <2> DEFINE t == [i \in 1 .. p |-> r]
  <2> HIDE DEF t
  <2>2. /\ tokens' \in [Requests -> Seq(Requests)] /\ tokens'[r] = t
        /\ \A x \in Requests \ {r} : tokens'[x] = tokens[x]
    BY <1>1, <1>3, <2>1 DEF EngineTokens, t
  <2>3. prompt'[r] = p /\ \A x \in Requests \ {r} : prompt'[x] = prompt[x]
    BY <1>1, <1>3 DEF TypeOK
  <2>4. Len(t) = p /\ computed[r] < p
    BY <1>2, <1>4, <2>1 DEF t
  <2>5. Len(tokens'[r]) = prompt'[r] + output'[r]
    BY <1>2, <1>3, <1>4, <2>2, <2>3, <2>4
  <2>6. Owners' = Owners
    BY <1>3 DEF Owners
  <2> QED BY <1>1, <1>3, <1>4, <1>6, <2>2, <2>3, <2>4, <2>5, <2>6 DEF EngineTokens
<1>11. EngineStepOK' /\ Done' = {}
  BY <1>1, <1>3, StillIdle
<1>12. EngineBank'
  <2>1. BankType' /\ Owners' = Owners /\ hurt' = hurt
    BY <1>1, <1>3 DEF EngineBank, BankType, Owners
  <2>2. ASSUME NEW x \in Owners \ hurt PROVE HasState(x, computed[x])'
    <3>1. HasState(x, computed[x])
      BY <1>1, <1>3, BankIdle
    <3>2. x # r /\ x \in Requests
      BY <1>1, <1>4
    <3>3. tokens'[x] = tokens[x]
      BY <1>1, <1>3, <3>2 DEF EngineTokens
    <3> QED BY <1>3, <3>1, <3>3 DEF HasState, Known
  <2> QED BY <1>11, <2>1, <2>2, BankStillIdle
<1>13. EngineSaved'
  BY <1>1, <1>3, SavedSame
<1> QED BY <1>7, <1>8, <1>9, <1>10, <1>11, <1>12, <1>13 DEF EInv

\* abort_request, which hibernate() calls too.
LEMMA AbortLeavesTheRest ==
    ASSUME EInv, NEW r \in Requests, Between, AbortRequest(r),
           UNCHANGED <<tokens, bank, fresh, todo, hurt, lost>>
    PROVE  /\ TypeOK' /\ EngineQueues' /\ EngineSlots' /\ EngineTokens'
           /\ EngineStepOK' /\ EngineBank'
<1> DEFINE st == "FINISHED_ABORTED"
<1>1. /\ TypeOK /\ EngineQueues /\ EngineSlots /\ EngineTokens
      /\ EngineStepOK /\ EngineBank /\ Owners \subseteq Requests
  BY Parts
<1>2. /\ phase = "idle" /\ Leave(r, st)
      /\ UNCHANGED <<stepVars, prompt, output, limit, computed>>
      /\ status' = [status EXCEPT ![r] = st]
      /\ parked_as' = [parked_as EXCEPT ![r] = NoStatus]
      /\ park_on_finish' = park_on_finish \ {r}
  BY DEF Between, AbortRequest, Leave, tokenVars
<1>3. /\ status'[r] = st /\ \A x \in Requests \ {r} : status'[x] = status[x]
      /\ status' \in [Requests -> Status]
  BY <1>1, <1>2 DEF TypeOK, Status, Finished
<1>4. \/ /\ status[r] = "RUNNING" /\ Release(r) /\ UNCHANGED <<waiting, parked>>
         /\ lane' = Retired({r}, IF Prefilling(r) THEN {r} ELSE {})
      \/ /\ status[r] = "WAITING" /\ waiting' = RemoveFirst(waiting, r)
         /\ UNCHANGED <<arenaVars, running, parked, slots, lane>>
  BY <1>1, <1>2 DEF Leave, EngineQueues
<1>5. lane' \in Lane
  BY <1>1, <1>4, RetiredType DEF TypeOK
<1>6. /\ waiting' \in Seq(Requests) /\ IsInjective(waiting')
      /\ ToSet(waiting') = ToSet(waiting) \ {r}
  <2>1. waiting \in Seq(Requests) /\ IsInjective(waiting)
    BY <1>1 DEF TypeOK, EngineQueues
  <2>2. CASE status[r] = "WAITING"
    <3>1. waiting' = RemoveFirst(waiting, r) /\ r \in ToSet(waiting)
      BY <1>1, <1>4, <2>2 DEF EngineQueues
    <3> QED BY <2>1, <3>1, RemoveOne
  <2>3. CASE status[r] # "WAITING"
    <3>1. waiting' = waiting /\ r \notin ToSet(waiting)
      BY <1>1, <1>4, <2>3 DEF EngineQueues
    <3> QED BY <2>1, <3>1
  <2> QED BY <2>2, <2>3
<1>7. /\ EngineSlots' /\ ArenaTypeOK'
      /\ slots' \in [Requests -> SlotSet \cup {NoSlots}]
      /\ running' \in Seq(Requests) /\ IsInjective(running')
      /\ Owners' = Owners \ {r}
      /\ \A x \in Owners' : slots'[x] = slots[x]
  <2>1. CASE status[r] = "RUNNING"
    <3>1. Release(r) /\ r \in Owners /\ IsInjective(running) /\ UNCHANGED lost
      BY <1>1, <1>4, <2>1 DEF EngineQueues
    <3> QED BY <1>1, <3>1, EngineReleases
  <2>2. CASE status[r] = "WAITING"
    <3>1. UNCHANGED <<arenaVars, running, slots, lost>>
      BY <1>4, <2>2
    <3>2. EngineSlots'
      BY <1>1, <3>1, SlotsSame
    <3>3. r \notin Owners /\ Owners' = Owners
      BY <1>1, <2>2, <3>1 DEF EngineQueues, Finished, Owners
    <3> QED BY <1>1, <3>1, <3>2, <3>3
        DEF TypeOK, ArenaTypeOK, arenaVars, EngineQueues
  <2> QED BY <1>4, <2>1, <2>2
<1>8. parked' = {} /\ park_on_finish' = {}
  BY <1>1, <1>2, <1>4 DEF EngineQueues
<1>9. TypeOK'
  <2>1. parked_as' \in [Requests -> Finished \cup {NoStatus}]
    BY <1>1, <1>2 DEF TypeOK
  <2> QED BY <1>1, <1>2, <1>3, <1>5, <1>6, <1>7, <1>8, <2>1 DEF TypeOK, stepVars
<1>10. EngineQueues'
  <2>1. \A x \in Owners' : x # r /\ x \in Owners /\ x \in Requests
    BY <1>1, <1>7
  <2>2. \A x \in Requests : status'[x] = "RUNNING" => x \in Owners'
    BY <1>1, <1>3, <1>7 DEF EngineQueues
  <2>3. \A x \in Owners' :
          status'[x] = "RUNNING" \/ (status'[x] \in Finished /\ x \in hurt')
    BY <1>1, <1>3, <2>1 DEF EngineQueues
  <2>4. ToSet(waiting') = {x \in Requests : status'[x] = "WAITING"}
    BY <1>1, <1>3, <1>6 DEF EngineQueues
  <2>5. \A x \in Requests : status'[x] # "PARKED"
    BY <1>1, <1>3 DEF EngineQueues
  <2> QED BY <1>6, <1>7, <1>8, <2>2, <2>3, <2>4, <2>5 DEF EngineQueues
<1>11. EngineTokens'
  BY <1>1, <1>2, <1>3, <1>7 DEF EngineTokens
<1>12. EngineStepOK' /\ Done' = {}
  BY <1>1, <1>2, StillIdle
<1>13. EngineBank'
  <2>1. BankType'
    BY <1>1 DEF EngineBank, BankType
  <2>2. ASSUME NEW x \in Owners' \ hurt' PROVE HasState(x, computed[x])'
    <3>1. HasState(x, computed[x]) /\ slots'[x] = slots[x]
      BY <1>1, <1>2, <1>7, BankIdle
    <3> QED BY <1>2, <3>1 DEF HasState, Known
  <2> QED BY <1>12, <2>1, <2>2, BankStillIdle
<1> QED BY <1>7, <1>9, <1>10, <1>11, <1>12, <1>13

LEMMA EngineAbortKeeps ==
    ASSUME EInv, NEW r \in Requests, EngineAbort(r)
    PROVE  EInv'
<1>1. /\ Between /\ AbortRequest(r) /\ UNCHANGED saved
      /\ UNCHANGED <<tokens, bank, fresh, todo, hurt, lost>>
  BY DEF EngineAbort, engineVars
<1>2. EngineSaved'
  BY <1>1, Parts, SavedSame
<1> QED BY <1>1, <1>2, AbortLeavesTheRest DEF EInv

\* What snapshot_request and hibernate put into the store.
LEMMA SnapshotSaved ==
    ASSUME EInv, NEW r \in Requests, Between, slots[r] # NoSlots,
           saved' = Append(saved, [tokens |-> tokens[r], computed |-> computed[r],
                                   sound |-> r \notin hurt, state |-> StateOf(r)])
    PROVE  EngineSaved'
<1>1. /\ TypeOK /\ EngineQueues /\ EngineSlots /\ EngineTokens
      /\ EngineStepOK /\ EngineBank /\ EngineSaved /\ BankType
  BY Parts DEF EngineBank
<1> DEFINE t == tokens[r]
           n == computed[r]
           v == StateOf(r)
           b == r \notin hurt
<1>2. r \in Owners /\ t \in Seq(Requests) /\ n \in Nat /\ n < Len(t)
  BY <1>1 DEF EngineSlots, EngineTokens, TypeOK
<1>3. v \in [Families -> Value] /\ \A f \in Families : v[f] = bank[f][slots[r][f]]
  BY <1>1, <1>2, StateIsValue
<1>4. b => \A f \in Families : v[f] = SubSeq(t, 1, n)
  BY <1>1, <1>2, <1>3, BankIdle DEF Between, HasState, Known
<1>5. b \in BOOLEAN
  OBVIOUS
<1>6. saved' = Append(saved, [tokens |-> t, computed |-> n, sound |-> b, state |-> v])
  OBVIOUS
<1> HIDE DEF t, n, v, b
<1> QED BY <1>1, <1>2, <1>3, <1>4, <1>5, <1>6, SavedGrows

LEMMA SnapshotRequestKeeps ==
    ASSUME EInv, NEW r \in Requests, SnapshotRequest(r)
    PROVE  EInv'
<1>1. EngineSaved'
  BY SnapshotSaved DEF SnapshotRequest
<1>2. UNCHANGED <<vars, tokens, bank, fresh, todo, hurt, lost>>
  BY DEF SnapshotRequest
<1>3. TypeOK' /\ EngineQueues' /\ EngineSlots' /\ EngineTokens'
  BY <1>2, Parts, TypeSame, QueuesSame, SlotsSame, TokensSame DEF vars, arenaVars
<1>4. EngineStepOK' /\ Done' = {}
  BY <1>2, Parts, StillIdle DEF SnapshotRequest, Between, vars, stepVars
<1>5. EngineBank'
  BY <1>2, Parts DEF EngineBank, BankType, Done, Open, Owners, HasState, Known, vars
<1> QED BY <1>1, <1>3, <1>4, <1>5 DEF EInv

LEMMA HibernateKeeps ==
    ASSUME EInv, NEW r \in Requests, Hibernate(r)
    PROVE  EInv'
<1>1. EngineSaved'
  BY SnapshotSaved DEF Hibernate
<1>2. Between /\ AbortRequest(r) /\ UNCHANGED <<tokens, bank, fresh, todo, hurt, lost>>
  BY DEF Hibernate
<1> QED BY <1>1, <1>2, AbortLeavesTheRest DEF EInv

\* The place a request takes is not that of an owner.
LEMMA AllocatedElsewhere ==
    ASSUME TypeOK, EngineSlots, AllocateSlots(1)
    PROVE  /\ NthAllocation(1) \in SlotSet
           /\ \A x \in Owners : \A f \in Families :
                slots[x][f] # NthAllocation(1)[f] /\ slots[x][f] \in Slot
<1>1. /\ \A i \in 1 .. 1 : NthAllocation(i) \in SlotSet
      /\ \A i \in 1 .. 1 : \A f \in Families :
             NthAllocation(i)[f] \notin allocated[f]
  BY AllocateKeepsPartition DEF TypeOK, EngineSlots
<1>2. 1 \in 1 .. 1
  OBVIOUS
<1>3. /\ NthAllocation(1) \in SlotSet
      /\ \A f \in Families : NthAllocation(1)[f] \notin allocated[f]
  BY <1>1, <1>2
<1> QED BY <1>3, OwnersHaveSlots DEF EngineSlots, SlotSet

LEMMA SubmitKeeps ==
    ASSUME EInv, NEW r \in Requests, NEW h \in DOMAIN saved,
           NEW t \in SuffixLens \cup {0}, NEW m \in OutputLimits,
           NEW save \in BOOLEAN, Submit(r, h, t, m, save)
    PROVE  EInv'
<1> DEFINE old == saved[h].tokens
           n == saved[h].computed
           v == saved[h].state
           new == old \o [i \in 1 .. t |-> r]
           nth == NthAllocation(1)
<1>1. /\ TypeOK /\ EngineQueues /\ EngineSlots /\ EngineTokens
      /\ EngineStepOK /\ EngineBank /\ EngineSaved /\ Owners \subseteq Requests
  BY Parts
<1>2. /\ old \in Seq(Requests) /\ n \in Nat /\ n < Len(old)
      /\ v \in [Families -> Value]
      /\ saved[h].sound => \A f \in Families : v[f] = SubSeq(old, 1, n)
  <2>1. saved[h] \in SnapshotType
    BY <1>1 DEF EngineSaved
  <2> QED BY <1>1, <2>1 DEF EngineSaved, SnapshotsAreExact, SnapshotType, Value
<1>3. t \in Nat /\ m \in Nat
  BY SchedulerAssumption
<1>4. /\ new \in Seq(Requests) /\ Len(new) = Len(old) + t
      /\ SubSeq(new, 1, n) = SubSeq(old, 1, n)
  <2> DEFINE w == [i \in 1 .. t |-> r]
  <2>1. w \in Seq(Requests) /\ Len(w) = t
    BY <1>3
  <2> HIDE DEF w, old, n
  <2>2. /\ old \o w \in Seq(Requests) /\ Len(old \o w) = Len(old) + t
        /\ SubSeq(old \o w, 1, n) = SubSeq(old, 1, n)
    <3>1. n \in 0 .. Len(old)
      BY <1>2
    <3> QED BY <1>2, <2>1, <3>1, Joined, PrefixStays
  <2> QED BY <2>2 DEF w
<1>5. /\ phase = "idle" /\ status[r] = "NEW" /\ AllocateSlots(1)
      /\ slots' = [slots EXCEPT ![r] = nth]
      /\ status' = [status EXCEPT ![r] = "RUNNING"]
      /\ prompt' = [prompt EXCEPT ![r] = Len(old) + t]
      /\ computed' = [computed EXCEPT ![r] = n]
      /\ limit' = [limit EXCEPT ![r] = m]
      /\ running' = Append(running, r)
      /\ UNCHANGED <<waiting, parked, park_on_finish, parked_as, output, lane,
                     stepVars>>
      /\ Overwrite(nth, v)
      /\ tokens' = [tokens EXCEPT ![r] = new]
      /\ hurt' = IF saved[h].sound THEN hurt ELSE hurt \cup {r}
      /\ UNCHANGED <<fresh, todo, saved, lost>>
  BY DEF Submit, AddResumedRequest
<1> HIDE DEF old, n, v, new, nth
<1>6. r \notin ToSet(waiting) /\ r \notin Owners /\ output[r] = 0
  BY <1>1, <1>5, NewIsNowhere DEF EngineTokens
<1>7. /\ running' \in Seq(Requests) /\ IsInjective(running')
      /\ Owners' = Owners \cup {r} /\ Len(running') = Len(running) + 1
  <2>1. running \in Seq(Requests) /\ IsInjective(running)
    BY <1>1 DEF TypeOK, EngineQueues
  <2>2. /\ Append(running, r) \in Seq(Requests)
        /\ IsInjective(Append(running, r))
        /\ ToSet(Append(running, r)) = ToSet(running) \cup {r}
    BY <2>1, <1>6, AppendFresh, ZenonT(60) DEF Owners
  <2>3. Len(Append(running, r)) = Len(running) + 1
    BY <2>1
  <2> QED BY <1>5, <2>2, <2>3 DEF Owners
<1>8. /\ nth \in SlotSet
      /\ \A x \in Owners : \A f \in Families :
           slots[x][f] # nth[f] /\ slots[x][f] \in Slot
  BY <1>1, <1>5, AllocatedElsewhere DEF nth
<1>9. /\ slots'[r] = nth /\ \A x \in Requests \ {r} : slots'[x] = slots[x]
      /\ slots' = [x \in Requests |-> slots'[x]]
  BY <1>1, <1>5 DEF TypeOK
<1>10. /\ EngineSlots' /\ ArenaTypeOK'
       /\ slots' \in [Requests -> SlotSet \cup {NoSlots}]
  <2> DEFINE q == <<r>>
  <2>1. q \in Seq(Requests) /\ Len(q) = 1 /\ q[1] = r
    OBVIOUS
  <2>2. IsInjective(q) /\ ToSet(q) = {r}
    BY DEF IsInjective, ToSet
  <2> HIDE DEF q
  <2>3. ToSet(q) \cap Owners = {} /\ 1 \in Nat /\ 1 \in 0 .. Len(q) /\ 1 <= 1
    BY <1>6, <2>1, <2>2
  <2>4. \A i \in 1 .. 1 : i = 1
    OBVIOUS
  <2>5. \A i \in 1 .. 1 : slots'[q[i]] = NthAllocation(i)
    BY <1>9, <2>1, <2>4 DEF nth
  <2>6. \A x \in Requests : (\A i \in 1 .. 1 : q[i] # x) => slots'[x] = slots[x]
    BY <1>9, <2>1
  <2>7. Owners' = Owners \cup {q[i] : i \in 1 .. 1}
    <3>1. q[1] \in {q[i] : i \in 1 .. 1}
      BY <2>3
    <3>2. \A x \in {q[i] : i \in 1 .. 1} : x = q[1]
      BY <2>4, Zenon
    <3>3. {q[i] : i \in 1 .. 1} = {r}
      BY <2>1, <3>1, <3>2, Zenon
    <3> QED BY <1>7, <3>3, Zenon
  <2>8. lost' = lost + (1 - 1)
    BY <1>1, <1>5 DEF EngineSlots
  <2> DEFINE k == 1
  <2>9. /\ k \in Nat /\ AllocateSlots(k) /\ k \in 0 .. Len(q) /\ k <= k
        /\ \A i \in 1 .. k : slots'[q[i]] = NthAllocation(i)
        /\ \A x \in Requests : (\A i \in 1 .. k : q[i] # x) => slots'[x] = slots[x]
        /\ Len(running') = Len(running) + k
        /\ Owners' = Owners \cup {q[i] : i \in 1 .. k}
        /\ lost' = lost + (k - k)
    BY <1>5, <1>7, <2>3, <2>5, <2>6, <2>7, <2>8
  <2> HIDE DEF k
  <2> QED BY <1>1, <1>9, <2>1, <2>2, <2>3, <2>9, EngineAllocates, ZenonT(60)
<1>11. /\ status'[r] = "RUNNING" /\ \A x \in Requests \ {r} : status'[x] = status[x]
       /\ status' \in [Requests -> Status]
  BY <1>1, <1>5 DEF TypeOK, Status, Live
<1>12. /\ prompt' \in [Requests -> Nat] /\ computed' \in [Requests -> Nat]
       /\ limit' \in [Requests -> Nat]
       /\ prompt'[r] = Len(old) + t /\ computed'[r] = n
       /\ \A x \in Requests \ {r} : prompt'[x] = prompt[x] /\ computed'[x] = computed[x]
  <2>1. Len(old) + t \in Nat
    BY <1>2, <1>3
  <2> QED BY <1>1, <1>2, <1>3, <1>5, <2>1 DEF TypeOK
<1>13. TypeOK'
  BY <1>1, <1>5, <1>7, <1>10, <1>11, <1>12 DEF TypeOK, stepVars
<1>14. EngineQueues'
  <2>1. hurt \subseteq hurt'
    BY <1>5
  <2>2. ToSet(waiting') = {x \in Requests : status'[x] = "WAITING"}
    BY <1>1, <1>5, <1>6, <1>11 DEF EngineQueues
  <2>3. \A x \in Owners' :
          status'[x] = "RUNNING" \/ (status'[x] \in Finished /\ x \in hurt')
    BY <1>1, <1>7, <1>11, <2>1 DEF EngineQueues
  <2>4. \A x \in Requests : /\ status'[x] = "RUNNING" => x \in Owners'
                            /\ status'[x] # "PARKED"
    BY <1>1, <1>7, <1>11 DEF EngineQueues
  <2> QED BY <1>1, <1>5, <1>7, <2>2, <2>3, <2>4 DEF EngineQueues
<1>15. /\ tokens' \in [Requests -> Seq(Requests)] /\ tokens'[r] = new
       /\ \A x \in Requests \ {r} : tokens'[x] = tokens[x]
  BY <1>1, <1>4, <1>5 DEF EngineTokens
<1>16. EngineTokens'
  <2>1. ASSUME NEW x \in Requests
        PROVE  /\ Len(tokens'[x]) = prompt'[x] + output'[x]
               /\ status'[x] \in {"NEW", "WAITING"} => output'[x] = 0 /\ computed'[x] = 0
               /\ status'[x] = "WAITING" \/ x \in Owners' =>
                    computed'[x] < Len(tokens'[x])
    <3>1. CASE x = r
      <4>1. Len(old) \in Nat
        BY <1>2
      <4>2. Len(tokens'[r]) = Len(old) + t /\ prompt'[r] + output'[r] = Len(old) + t
        BY <1>3, <1>4, <1>5, <1>6, <1>12, <1>15, <4>1
      <4> QED BY <1>2, <1>3, <1>11, <1>12, <3>1, <4>1, <4>2
    <3>2. CASE x # r
      BY <1>1, <1>5, <1>7, <1>11, <1>12, <1>15, <3>2 DEF EngineTokens
    <3> QED BY <3>1, <3>2
  <2> QED BY <1>15, <2>1 DEF EngineTokens
<1>17. EngineStepOK' /\ Done' = {}
  BY <1>1, <1>5, StillIdle
<1>18. EngineBank'
  <2>1. /\ BankType'
        /\ \A f \in Families : \A x \in Slot :
             bank'[f][x] = IF x = nth[f] THEN v[f] ELSE bank[f][x]
    BY <1>1, <1>2, <1>5, <1>8, OverwritesOne DEF EngineBank
  <2>2. ASSUME NEW x \in Owners' \ hurt' PROVE HasState(x, computed[x])'
    <3>1. CASE x = r
      <4>1. \A f \in Families : v[f] = SubSeq(old, 1, n)
        BY <1>2, <1>5, <3>1
      <4>2. \A f \in Families : bank'[f][slots'[r][f]] = SubSeq(new, 1, n)
        <5> TAKE f \in Families
        <5>1. slots'[r][f] = nth[f] /\ nth[f] \in Slot
          BY <1>8, <1>9 DEF SlotSet
        <5>2. bank'[f][slots'[r][f]] = v[f]
          BY <2>1, <5>1
        <5>3. v[f] = SubSeq(old, 1, n) /\ SubSeq(new, 1, n) = SubSeq(old, 1, n)
          BY <1>4, <4>1
        <5> QED BY <5>2, <5>3
      <4> QED BY <1>12, <1>15, <3>1, <4>2 DEF HasState, Known
    <3>2. CASE x # r
      <4>1. x \in Owners /\ x \in Requests /\ x \notin hurt
        BY <1>1, <1>5, <1>7, <3>2
      <4>2. HasState(x, computed[x])
        BY <1>1, <1>5, <4>1, BankIdle
      <4>3. \A f \in Families : bank'[f][slots'[x][f]] = bank[f][slots[x][f]]
        BY <1>8, <1>9, <2>1, <3>2, <4>1
      <4>4. computed'[x] = computed[x] /\ tokens'[x] = tokens[x]
        BY <1>12, <1>15, <3>2, <4>1
      <4> QED BY <4>2, <4>3, <4>4 DEF HasState, Known
    <3> QED BY <3>1, <3>2
  <2> QED BY <1>17, <2>1, <2>2, BankStillIdle
<1>19. EngineSaved'
  BY <1>1, <1>5, SavedSame
<1> QED BY <1>10, <1>13, <1>14, <1>16, <1>17, <1>18, <1>19 DEF EInv

LEMMA SubmitLostKeeps ==
    ASSUME EInv, NEW h \in DOMAIN saved, SubmitLost(h)
    PROVE  EInv'
<1> DEFINE v == saved[h].state
           nth == NthAllocation(1)
<1>1. /\ TypeOK /\ EngineQueues /\ EngineSlots /\ EngineTokens
      /\ EngineStepOK /\ EngineBank /\ EngineSaved
  BY Parts
<1>2. v \in [Families -> Value]
  <2>1. saved[h] \in SnapshotType
    BY <1>1 DEF EngineSaved
  <2> QED BY <2>1 DEF SnapshotType, Value
<1>3. /\ phase = "idle" /\ AllocateSlots(1) /\ Overwrite(nth, v) /\ lost' = lost + 1
      /\ UNCHANGED <<waiting, running, parked, park_on_finish, status, parked_as,
                     prompt, output, limit, computed, slots, lane, stepVars,
                     tokens, fresh, todo, saved, hurt>>
  BY DEF SubmitLost, Between, tokenVars
<1> HIDE DEF v, nth
<1>4. /\ nth \in SlotSet
      /\ \A x \in Owners : \A f \in Families :
           slots[x][f] # nth[f] /\ slots[x][f] \in Slot
  BY <1>1, <1>3, AllocatedElsewhere DEF nth
<1>5. /\ EngineSlots' /\ ArenaTypeOK'
      /\ slots' \in [Requests -> SlotSet \cup {NoSlots}]
  <2> DEFINE q == << >>
  <2>1. q \in Seq(Requests) /\ Len(q) = 0 /\ IsInjective(q) /\ ToSet(q) = {}
    BY DEF IsInjective, ToSet
  <2> HIDE DEF q
  <2>2. /\ \A i \in 1 .. 0 : FALSE
        /\ slots' = slots /\ slots' = [x \in Requests |-> slots'[x]]
        /\ Len(running') = Len(running) + 0 /\ Owners' = Owners \cup {q[i] : i \in 1 .. 0}
    BY <1>1, <1>3 DEF TypeOK, Owners
  <2>3. lost' = lost + (1 - 0) /\ 1 \in Nat /\ 0 \in 0 .. Len(q) /\ 0 <= 1
    BY <1>3, <2>1
  <2>4. \A i \in 1 .. 0 : slots'[q[i]] = NthAllocation(i)
    BY <2>2
  <2>5. \A x \in Requests : (\A i \in 1 .. 0 : q[i] # x) => slots'[x] = slots[x]
    BY <2>2
  <2> QED BY <1>1, <1>3, <2>1, <2>2, <2>3, <2>4, <2>5, EngineAllocates
<1>6. TypeOK'
  BY <1>1, <1>3, <1>5 DEF TypeOK, stepVars
<1>7. EngineQueues' /\ EngineTokens' /\ EngineSaved'
  BY <1>1, <1>3, QueuesSame, TokensSame, SavedSame
<1>8. EngineStepOK' /\ Done' = {}
  BY <1>1, <1>3, StillIdle
<1>9. EngineBank'
  <2>1. /\ BankType'
        /\ \A f \in Families : \A x \in Slot :
             bank'[f][x] = IF x = nth[f] THEN v[f] ELSE bank[f][x]
    BY <1>1, <1>2, <1>3, <1>4, OverwritesOne DEF EngineBank
  <2>2. ASSUME NEW x \in Owners' \ hurt' PROVE HasState(x, computed[x])'
    <3>1. x \in Owners /\ HasState(x, computed[x])
      BY <1>1, <1>3, BankIdle DEF Owners
    <3>2. \A f \in Families : bank'[f][slots'[x][f]] = bank[f][slots[x][f]]
      BY <1>3, <1>4, <2>1, <3>1
    <3> QED BY <1>3, <3>1, <3>2 DEF HasState, Known
  <2> QED BY <1>8, <2>1, <2>2, BankStillIdle
<1> QED BY <1>5, <1>6, <1>7, <1>8, <1>9 DEF EInv

\* A slot that was allocated and freed again goes to the end of the line.
LEMMA Rotated ==
    ASSUME NEW S, NEW s \in Seq(S), IsInjective(s), Len(s) >= 1
    PROVE  LET t == Append(Tail(s), Head(s)) IN
           /\ t \in Seq(S) /\ IsInjective(t) /\ ToSet(t) = ToSet(s) /\ Len(t) = Len(s)
<1> DEFINE u == SubSeq(s, 2, Len(s))
           x == s[1]
<1>1. Tail(s) = u /\ Head(s) = x /\ x \in S
  OBVIOUS
<1>2. /\ u \in Seq(S) /\ Len(u) = Len(s) - 1 /\ IsInjective(u)
      /\ ToSet(u) = ToSet(s) \ {s[i] : i \in 1 .. 1}
  <2>1. 1 \in 0 .. Len(s) /\ 1 + 1 = 2
    OBVIOUS
  <2> QED BY <2>1, DropFront, DropFrontInjective
<1>3. {s[i] : i \in 1 .. 1} = {x}
  OBVIOUS
<1>4. x \in ToSet(s)
  BY DEF ToSet
<1> HIDE DEF u, x
<1>5. /\ Append(u, x) \in Seq(S) /\ IsInjective(Append(u, x))
      /\ ToSet(Append(u, x)) = ToSet(u) \cup {x}
  BY <1>1, <1>2, <1>3, AppendFresh
<1>6. Len(Append(u, x)) = Len(u) + 1
  BY <1>1, <1>2
<1>7. Append(Tail(s), Head(s)) = Append(u, x)
  BY <1>1
<1>8. ToSet(Append(u, x)) = ToSet(s) /\ Len(Append(u, x)) = Len(s)
  BY <1>2, <1>3, <1>4, <1>5, <1>6
<1> QED BY <1>5, <1>7, <1>8

LEMMA SubmitRefusedKeeps ==
    ASSUME EInv, SubmitRefused
    PROVE  EInv'
<1>1. /\ TypeOK /\ EngineQueues /\ EngineSlots /\ EngineTokens
      /\ EngineStepOK /\ EngineBank /\ EngineSaved
  BY Parts
<1>2. /\ phase = "idle" /\ CanAdmit(1)
      /\ free' = [f \in Families |-> Append(Tail(free[f]), Head(free[f]))]
      /\ UNCHANGED <<allocated, waiting, running, parked, park_on_finish, status,
                     parked_as, prompt, output, limit, computed, slots, lane, stepVars,
                     tokens, bank, fresh, todo, saved, hurt, lost>>
  BY DEF SubmitRefused, Between, tokenVars, engineVars
<1>3. \A f \in Families :
        /\ free'[f] \in Seq(Slot) /\ IsInjective(free'[f])
        /\ ToSet(free'[f]) = ToSet(free[f]) /\ Len(free'[f]) = Len(free[f])
  <2> TAKE f \in Families
  <2> DEFINE s == free[f]
  <2>1. s \in Seq(Slot) /\ IsInjective(s) /\ Len(s) >= 1
    BY <1>1, <1>2 DEF TypeOK, ArenaTypeOK, EngineSlots, ArenaPartition, CanAdmit
  <2>2. free'[f] = Append(Tail(s), Head(s))
    BY <1>2
  <2> HIDE DEF s
  <2>3. /\ free'[f] \in Seq(Slot) /\ IsInjective(free'[f])
        /\ ToSet(free'[f]) = ToSet(s) /\ Len(free'[f]) = Len(s)
    BY <2>1, <2>2, Rotated
  <2> QED BY <2>3 DEF s
<1>4. ArenaTypeOK' /\ ArenaPartition'
  <2>1. free' = [f \in Families |-> free'[f]] /\ allocated' = allocated
    BY <1>2
  <2> QED BY <1>1, <1>3, <2>1 DEF ArenaTypeOK, ArenaPartition, TypeOK, EngineSlots
<1>5. EngineSlots'
  BY <1>1, <1>2, <1>3, <1>4 DEF EngineSlots, Owners
<1>6. TypeOK'
  BY <1>1, <1>2, <1>4 DEF TypeOK, stepVars
<1>7. EngineQueues' /\ EngineTokens' /\ EngineSaved'
  BY <1>1, <1>2, QueuesSame, TokensSame, SavedSame
<1>8. EngineStepOK' /\ Done' = {}
  BY <1>1, <1>2, StillIdle
<1>9. EngineBank'
  BY <1>1, <1>2 DEF EngineBank, BankType, Done, Open, Owners, HasState, Known, stepVars
<1> QED BY <1>5, <1>6, <1>7, <1>8, <1>9 DEF EInv

-----------------------------------------------------------------------------
(***************************************************************************)
(* schedule() with the stranded in the batch.                              *)
(***************************************************************************)

\* A request with tokens left wants some of them.
LEMMA EngineWantsSome ==
    ASSUME TypeOK, EngineTokens, NEW r \in Requests, computed[r] < Len(tokens[r])
    PROVE  Want(r) \in Nat /\ Want(r) >= 1 /\ computed[r] + Want(r) <= Len(tokens[r])
<1>1. /\ Len(tokens[r]) = prompt[r] + output[r] /\ prompt[r] \in Nat /\ output[r] \in Nat
      /\ computed[r] \in Nat /\ MaxPerRequest \in Nat /\ MaxPerRequest >= 1
  BY SchedulerAssumption DEF TypeOK, EngineTokens
<1> DEFINE gap == (prompt[r] + output[r]) - computed[r]
<1>2. gap \in Nat /\ gap >= 1
  BY <1>1
<1>3. Want(r) = Min({gap, MaxPerRequest})
  BY DEF Want, Gap, NumTokens
<1> HIDE DEF gap
<1>4. Want(r) = IF gap <= MaxPerRequest THEN gap ELSE MaxPerRequest
  BY <1>1, <1>2, <1>3, MinOfTwo
<1> QED BY <1>1, <1>2, <1>4 DEF gap

\* A request that the loop reaches with budget left gets some.
LEMMA BudgetIsGranted ==
    ASSUME NEW want, NEW i \in Nat, want[i] \in Nat, want[i] >= 1, HasBudget(want, i)
    PROVE  Min({want[i], BudgetLeft(want, i)}) > 0
<1>1. BudgetLeft(want, i) \in Nat
  BY BudgetLeftNat
<1> QED BY <1>1, MinOfTwo DEF HasBudget

\* What a step hands out: one chunk each, none beyond the known tokens, and
\* something to each request it admits.
LEMMA EngineGrants ==
    ASSUME TypeOK, EngineQueues, EngineTokens, ScheduleDefault
    PROVE  \E k \in 0 .. Len(waiting), g \in Seq(Requests \X Nat) :
             /\ AdmitFirst(k) /\ BeginStep(g) /\ UNCHANGED lane
             /\ Len(g) = Len(running) + k
             /\ \A i \in 1 .. Len(running) : g[i][1] = running[i]
             /\ \A i \in 1 .. k : /\ g[Len(running) + i][1] = waiting[i]
                                  /\ g[Len(running) + i][2] > 0
             /\ \A i, j \in DOMAIN g : g[i][1] = g[j][1] => i = j
             /\ \A i \in DOMAIN g :
                  computed[g[i][1]] + g[i][2] <= Len(tokens[g[i][1]])
<1>1. /\ waiting \in Seq(Requests) /\ running \in Seq(Requests)
      /\ IsInjective(waiting) /\ IsInjective(running)
      /\ ToSet(running) \cap ToSet(waiting) = {}
      /\ \A i \in 1 .. Len(running) : running[i] \in Owners
      /\ \A i \in 1 .. Len(waiting) : status[waiting[i]] = "WAITING"
  <2>1. /\ waiting \in Seq(Requests) /\ running \in Seq(Requests)
        /\ IsInjective(waiting) /\ IsInjective(running)
    BY DEF TypeOK, EngineQueues
  <2>2. \A i \in 1 .. Len(waiting) : waiting[i] \in ToSet(waiting)
    BY <2>1 DEF ToSet
  <2>3. \A i \in 1 .. Len(running) : running[i] \in Owners
    BY <2>1 DEF ToSet, Owners
  <2>4. \A r \in ToSet(waiting) : r \notin Owners
    BY DEF EngineQueues, Finished
  <2> QED BY <2>1, <2>2, <2>3, <2>4 DEF EngineQueues, Owners
<1> DEFINE q    == running \o waiting
           want == [i \in DOMAIN q |-> Want(q[i])]
           all  == Grants(q, want)
<1>2. PICK k \in 0 .. Len(waiting) :
        /\ \A i \in 1 .. k : HasBudget(want, Len(running) + i)
        /\ AdmitFirst(k) /\ UNCHANGED lane
        /\ BeginStep(SubSeq(all, 1, Len(running) + k))
  <2>1. PICK k \in 0 .. Len(waiting) :
          /\ TakesExactly({i \in DOMAIN waiting :
                             HasRoom(i) /\ HasBudget(want, Len(running) + i)}, k)
          /\ AdmitFirst(k) /\ UNCHANGED lane
          /\ BeginStep(SubSeq(all, 1, Len(running) + k))
    BY DEF ScheduleDefault
  <2>2. \A i \in 1 .. k : HasBudget(want, Len(running) + i)
    <3> HIDE DEF want, q
    <3> QED BY <2>1 DEF TakesExactly
  <2> QED BY <2>1, <2>2
<1>3. /\ q \in Seq(Requests) /\ Len(q) = Len(running) + Len(waiting)
      /\ \A i \in 1 .. Len(running) : q[i] = running[i]
      /\ \A i \in 1 .. Len(waiting) : q[Len(running) + i] = waiting[i]
  <2>1. \A i \in Len(running) + 1 .. Len(running) + Len(waiting) :
               q[i] = waiting[i - Len(running)]
    BY <1>1, Joined
  <2>2. \A i \in 1 .. Len(waiting) :
          /\ Len(running) + i \in Len(running) + 1 .. Len(running) + Len(waiting)
          /\ (Len(running) + i) - Len(running) = i
    BY <1>1
  <2> QED BY <1>1, <2>1, <2>2, Joined
<1>4. IsInjective(q)
  <2>1. SubSeq(waiting, 1, Len(waiting)) = waiting
    BY <1>1
  <2>2. Len(waiting) \in 0 .. Len(waiting)
    BY <1>1
  <2>3. IsInjective(running \o SubSeq(waiting, 1, Len(waiting)))
    BY <1>1, <2>2, MoveFront
  <2> QED BY <2>1, <2>3
<1> HIDE DEF q
<1>5. \A i \in DOMAIN q : q[i] \in Requests /\ computed[q[i]] < Len(tokens[q[i]])
  <2> TAKE i \in DOMAIN q
  <2>1. /\ DOMAIN q = 1 .. Len(running) + Len(waiting) /\ q[i] \in Requests
        /\ Len(running) \in Nat /\ Len(waiting) \in Nat
    BY <1>1, <1>3
  <2>2. CASE i <= Len(running)
    <3>1. q[i] \in Owners
      BY <1>1, <1>3, <2>1, <2>2
    <3> QED BY <2>1, <3>1 DEF EngineTokens
  <2>3. CASE i > Len(running)
    <3>1. i - Len(running) \in 1 .. Len(waiting) /\ Len(running) + (i - Len(running)) = i
      BY <2>1, <2>3
    <3> DEFINE j == i - Len(running)
    <3>2. j \in 1 .. Len(waiting) /\ Len(running) + j = i
      BY <3>1
    <3> HIDE DEF j
    <3>3. q[i] = waiting[j]
      BY <1>3, <3>2
    <3>4. status[waiting[j]] = "WAITING"
      BY <1>1, <3>2
    <3> QED BY <2>1, <3>3, <3>4 DEF EngineTokens
  <2> QED BY <2>1, <2>2, <2>3
<1>6. /\ want \in [DOMAIN q -> Nat]
      /\ \A i \in DOMAIN q : /\ want[i] >= 1
                             /\ computed[q[i]] + want[i] <= Len(tokens[q[i]])
  <2>1. \A i \in DOMAIN q : /\ Want(q[i]) \in Nat /\ Want(q[i]) >= 1
                            /\ computed[q[i]] + Want(q[i]) <= Len(tokens[q[i]])
    BY <1>5, EngineWantsSome
  <2> QED BY <2>1
<1> HIDE DEF want
<1>7. /\ all \in Seq(Requests \X Nat) /\ Len(all) = Len(q)
      /\ \A i \in DOMAIN q : all[i][1] = q[i] /\ all[i][2] <= want[i]
  BY <1>3, <1>6, GrantsType
<1>8. \A i \in DOMAIN q : HasBudget(want, i) => all[i][2] > 0
  <2> SUFFICES ASSUME NEW i \in DOMAIN q, HasBudget(want, i)
               PROVE  all[i][2] > 0
    OBVIOUS
  <2>1. all[i][2] = Min({want[i], BudgetLeft(want, i)})
    BY DEF Grants
  <2>2. i \in Nat
    BY <1>3
  <2>3. want[i] \in Nat /\ want[i] >= 1
    BY <1>6
  <2>4. Min({want[i], BudgetLeft(want, i)}) > 0
    BY <2>2, <2>3, BudgetIsGranted
  <2> QED BY <2>1, <2>4
<1> HIDE DEF all
<1> DEFINE L == Len(running)
           g == SubSeq(all, 1, L + k)
<1>9. /\ g \in Seq(Requests \X Nat) /\ Len(g) = L + k
      /\ \A i \in 1 .. L + k : g[i] = all[i] /\ i \in DOMAIN q
      /\ L \in Nat /\ k \in Nat
  <2>1. L + k \in 0 .. Len(all) /\ L \in Nat /\ k \in Nat /\ DOMAIN q = 1 .. Len(q)
    BY <1>1, <1>3, <1>7
  <2>2. /\ g \in Seq(Requests \X Nat) /\ Len(g) = L + k
        /\ \A i \in 1 .. L + k : g[i] = all[i]
    BY <1>7, <2>1, TakeFront
  <2>3. \A i \in 1 .. L + k : i \in DOMAIN q
    BY <1>7, <2>1
  <2> QED BY <2>1, <2>2, <2>3
<1>10. BeginStep(g)
  BY <1>2
<1> HIDE DEF g
<1>11. \A i \in 1 .. L : g[i][1] = running[i]
  <2> TAKE i \in 1 .. L
  <2>1. i \in 1 .. L + k
    BY <1>9
  <2> QED BY <1>3, <1>7, <1>9, <2>1
<1>12. \A i \in 1 .. k : g[L + i][1] = waiting[i] /\ g[L + i][2] > 0
  <2> TAKE i \in 1 .. k
  <2>1. L + i \in 1 .. L + k /\ i \in 1 .. Len(waiting)
    BY <1>1, <1>9
  <2>2. L + i \in DOMAIN q /\ g[L + i] = all[L + i] /\ q[L + i] = waiting[i]
    BY <1>3, <1>9, <2>1
  <2>3. HasBudget(want, L + i)
    BY <1>2
  <2> QED BY <1>7, <1>8, <2>2, <2>3
<1>13. DOMAIN g = 1 .. L + k
  BY <1>9
<1>14. \A i, j \in DOMAIN g : g[i][1] = g[j][1] => i = j
  <2> TAKE i, j \in DOMAIN g
  <2> HAVE g[i][1] = g[j][1]
  <2>1. i \in DOMAIN q /\ j \in DOMAIN q /\ q[i] = q[j]
    BY <1>7, <1>9, <1>13
  <2> QED BY <1>4, <2>1 DEF IsInjective
<1>15. \A i \in DOMAIN g : computed[g[i][1]] + g[i][2] <= Len(tokens[g[i][1]])
  <2> TAKE i \in DOMAIN g
  <2>1. /\ i \in DOMAIN q /\ g[i] \in Requests \X Nat
        /\ g[i][1] = q[i] /\ g[i][2] <= want[i]
    <3>1. i \in DOMAIN q /\ g[i] = all[i]
      BY <1>9, <1>13
    <3>2. g[i] \in Requests \X Nat
      BY <1>9
    <3>3. all[i][1] = q[i] /\ all[i][2] <= want[i]
      BY <1>7, <3>1
    <3> QED BY <3>1, <3>2, <3>3
  <2>2. /\ computed[q[i]] \in Nat /\ want[i] \in Nat /\ g[i][2] \in Nat
        /\ tokens[q[i]] \in Seq(Requests)
    BY <1>5, <1>6, <2>1 DEF TypeOK, EngineTokens
  <2>3. Len(tokens[q[i]]) \in Nat /\ computed[q[i]] + want[i] <= Len(tokens[q[i]])
    BY <1>6, <2>1, <2>2
  <2> QED BY <2>1, <2>2, <2>3
<1> QED BY <1>2, <1>9, <1>10, <1>11, <1>12, <1>14, <1>15

\* The first k that wait join the batch.
LEMMA EngineAdmits ==
    ASSUME TypeOK, EngineQueues, EngineSlots, EngineTokens,
           NEW k \in 0 .. Len(waiting), AdmitFirst(k),
           UNCHANGED <<parked, park_on_finish, hurt, lost>>
    PROVE  LET moved == {waiting[i] : i \in 1 .. k}
               new   == SubSeq(running', Len(running) + 1, Len(running'))
           IN  /\ waiting' \in Seq(Requests) /\ running' \in Seq(Requests)
               /\ slots' \in [Requests -> SlotSet \cup {NoSlots}]
               /\ status' \in [Requests -> Status]
               /\ ArenaTypeOK' /\ EngineQueues' /\ EngineSlots'
               /\ Owners' = Owners \cup moved /\ Owners \cap moved = {}
               /\ \A r \in moved : status[r] = "WAITING" /\ status'[r] = "RUNNING"
               /\ \A r \in Requests \ moved : status'[r] = status[r]
               /\ \A r \in Owners : slots'[r] = slots[r]
               /\ new \in Seq(Requests) /\ IsInjective(new) /\ ToSet(new) = moved
<1> DEFINE moved == {waiting[i] : i \in 1 .. k}
           new   == SubSeq(running', Len(running) + 1, Len(running'))
<1>1. /\ waiting \in Seq(Requests) /\ IsInjective(waiting)
      /\ running \in Seq(Requests) /\ IsInjective(running)
      /\ status \in [Requests -> Status] /\ Owners \subseteq Requests
  BY OwnersHaveSlots DEF TypeOK, EngineQueues
<1>2. \A r \in ToSet(waiting) : r \notin Owners
  BY DEF EngineQueues, Finished
<1>3. moved \subseteq ToSet(waiting) /\ moved \subseteq Requests
  BY <1>1 DEF ToSet
<1>4. /\ waiting' \in Seq(Requests) /\ IsInjective(waiting')
      /\ ToSet(waiting') = ToSet(waiting) \ moved
  <2> DEFINE t == SubSeq(waiting, k + 1, Len(waiting))
  <2>1. t \in Seq(Requests)
    BY <1>1, DropFront
  <2>2. IsInjective(t) /\ ToSet(t) = ToSet(waiting) \ moved
    BY <1>1, DropFrontInjective
  <2>3. waiting' = t
    BY DEF AdmitFirst
  <2> HIDE DEF t, moved
  <2> QED BY <2>1, <2>2, <2>3
<1>5. /\ running' \in Seq(Requests) /\ IsInjective(running')
      /\ Owners' = Owners \cup moved
      /\ Len(running') = Len(running) + k
      /\ \A i \in 1 .. Len(running) : running'[i] = running[i]
  <2> DEFINE w == SubSeq(waiting, 1, k)
             t == running \o w
  <2>1. t \in Seq(Requests) /\ IsInjective(t)
        /\ ToSet(t) = ToSet(running) \cup moved
    <3>1. ToSet(running) \cap ToSet(waiting) = {}
      BY <1>2 DEF Owners
    <3> QED BY <1>1, <3>1, MoveFront
  <2>2. running' = t
    BY DEF AdmitFirst
  <2>3. w \in Seq(Requests) /\ Len(w) = k
    BY <1>1, TakeFront
  <2> HIDE DEF w
  <2>4. Len(t) = Len(running) + k /\ \A i \in 1 .. Len(running) : t[i] = running[i]
    BY <1>1, <2>3, Joined
  <2> HIDE DEF t, moved
  <2> QED BY <2>1, <2>2, <2>4 DEF Owners
<1>6. /\ \A r \in moved : status'[r] = "RUNNING"
      /\ \A r \in Requests \ moved : status'[r] = status[r]
      /\ status' = [r \in Requests |-> status'[r]]
  BY <1>3 DEF AdmitFirst
<1>7. \A r \in moved : status[r] = "WAITING"
  BY <1>3 DEF EngineQueues
<1>8. Owners \cap moved = {}
  BY <1>2, <1>3
<1>9. /\ ArenaTypeOK' /\ EngineSlots'
      /\ slots' \in [Requests -> SlotSet \cup {NoSlots}]
      /\ \A r \in Owners : slots'[r] = slots[r]
  <2>1. AllocateSlots(k) /\ k \in Nat /\ k <= k /\ lost' = lost + (k - k)
    BY DEF AdmitFirst, EngineSlots
  <2>2. slots' = [r \in Requests |->
                    IF \E i \in 1 .. k : waiting[i] = r
                    THEN NthAllocation(CHOOSE i \in 1 .. k : waiting[i] = r)
                    ELSE slots[r]]
    BY DEF AdmitFirst
  <2>3. /\ \A i \in 1 .. k : slots'[waiting[i]] = NthAllocation(i)
        /\ \A r \in Requests :
               (\A i \in 1 .. k : waiting[i] # r) => slots'[r] = slots[r]
        /\ slots' = [r \in Requests |-> slots'[r]]
    BY <1>1, <2>2, AdmittedSlots, SMTT(30)
  <2>4. ToSet(waiting) \cap Owners = {}
    BY <1>2
  <2>5. \A r \in Owners : \A i \in 1 .. k : waiting[i] # r
    BY <1>8
  <2>6. Owners' = Owners \cup {waiting[i] : i \in 1 .. k}
    BY <1>5
  <2>7. /\ ArenaTypeOK' /\ EngineSlots'
        /\ slots' \in [Requests -> SlotSet \cup {NoSlots}]
    BY <1>1, <1>5, <2>1, <2>3, <2>4, <2>6, EngineAllocates
  <2> QED BY <1>1, <2>3, <2>5, <2>7
<1>10. new \in Seq(Requests) /\ IsInjective(new) /\ ToSet(new) = moved
  <2> DEFINE n == Len(running)
             u == running'
  <2>1. n \in 0 .. Len(u) /\ u \in Seq(Requests) /\ IsInjective(u)
    BY <1>1, <1>5
  <2>2. {u[i] : i \in 1 .. n} = Owners
    <3>1. DOMAIN running = 1 .. n /\ \A i \in 1 .. n : u[i] = running[i]
      BY <1>1, <1>5
    <3> HIDE DEF n, u
    <3>2. {u[i] : i \in 1 .. n} = {running[i] : i \in 1 .. n}
      BY <3>1
    <3> QED BY <3>1, <3>2 DEF Owners, ToSet
  <2>3. ToSet(u) = Owners \cup moved
    BY <1>5 DEF Owners
  <2> HIDE DEF n, u, moved
  <2>4. /\ SubSeq(u, n + 1, Len(u)) \in Seq(Requests)
        /\ IsInjective(SubSeq(u, n + 1, Len(u)))
        /\ ToSet(SubSeq(u, n + 1, Len(u))) = ToSet(u) \ {u[i] : i \in 1 .. n}
    BY <2>1, DropFront, DropFrontInjective
  <2> QED BY <1>8, <2>2, <2>3, <2>4 DEF n, u
<1> HIDE DEF moved
<1>11. status' \in [Requests -> Status]
  <2>1. \A r \in Requests : status'[r] \in Status
    BY <1>1, <1>6 DEF Status, Live
  <2> QED BY <1>6, <2>1
<1>12. EngineQueues'
  <2>1. ToSet(waiting') = {r \in Requests : status'[r] = "WAITING"}
    BY <1>3, <1>4, <1>6 DEF EngineQueues
  <2>2. \A r \in Requests : /\ status'[r] = "RUNNING" => r \in Owners'
                            /\ status'[r] # "PARKED"
    BY <1>5, <1>6 DEF EngineQueues
  <2>3. \A r \in Owners' :
          status'[r] = "RUNNING" \/ (status'[r] \in Finished /\ r \in hurt')
    <3> TAKE r \in Owners'
    <3>1. CASE r \in moved
      BY <1>6, <3>1
    <3>2. CASE r \notin moved
      <4>1. r \in Owners /\ r \in Requests /\ status'[r] = status[r]
        BY <1>1, <1>5, <1>6, <3>2
      <4> QED BY <4>1 DEF EngineQueues
    <3> QED BY <3>1, <3>2
  <2>4. parked' = {} /\ park_on_finish' = {}
    BY DEF EngineQueues
  <2> QED BY <1>4, <1>5, <2>1, <2>2, <2>3, <2>4 DEF EngineQueues
<1> QED BY <1>4, <1>5, <1>6, <1>7, <1>8, <1>9, <1>10, <1>11, <1>12 DEF moved
\* Every request a step admits is one of the step's, so each has its slots
\* zeroed: nothing is admitted by a step that has nothing to do.
LEMMA StartStepKeeps ==
    ASSUME EInv, StartStep
    PROVE  EInv'
<1>1. /\ TypeOK /\ EngineQueues /\ EngineSlots /\ EngineTokens
      /\ EngineStepOK /\ EngineBank /\ EngineSaved /\ Owners \subseteq Requests
  BY Parts
<1>2. /\ phase = "idle" /\ ScheduleDefault
      /\ UNCHANGED <<parked, park_on_finish, parked_as, prompt, output, limit, computed>>
      /\ UNCHANGED <<tokens, bank, saved, hurt, lost>>
      /\ todo' = {i \in DOMAIN batch' : IsScheduled(batch'[i])}
      /\ fresh' = IF todo' = {} THEN << >>
                  ELSE SubSeq(running', Len(running) + 1, Len(running'))
  BY DurableAssumption DEF StartStep, Schedule, tokenVars
<1>3. PICK k \in 0 .. Len(waiting), g \in Seq(Requests \X Nat) :
        /\ AdmitFirst(k) /\ BeginStep(g) /\ UNCHANGED lane
        /\ Len(g) = Len(running) + k
        /\ \A i \in 1 .. Len(running) : g[i][1] = running[i]
        /\ \A i \in 1 .. k : /\ g[Len(running) + i][1] = waiting[i]
                             /\ g[Len(running) + i][2] > 0
        /\ \A i, j \in DOMAIN g : g[i][1] = g[j][1] => i = j
        /\ \A i \in DOMAIN g :
             computed[g[i][1]] + g[i][2] <= Len(tokens[g[i][1]])
  BY <1>1, <1>2, EngineGrants
<1> DEFINE moved == {waiting[i] : i \in 1 .. k}
           new   == SubSeq(running', Len(running) + 1, Len(running'))
<1>4. /\ waiting' \in Seq(Requests) /\ running' \in Seq(Requests)
      /\ slots' \in [Requests -> SlotSet \cup {NoSlots}]
      /\ status' \in [Requests -> Status]
      /\ ArenaTypeOK' /\ EngineQueues' /\ EngineSlots'
      /\ Owners' = Owners \cup moved /\ Owners \cap moved = {}
      /\ \A r \in moved : status[r] = "WAITING" /\ status'[r] = "RUNNING"
      /\ \A r \in Requests \ moved : status'[r] = status[r]
      /\ \A r \in Owners : slots'[r] = slots[r]
      /\ new \in Seq(Requests) /\ IsInjective(new) /\ ToSet(new) = moved
  BY <1>1, <1>2, <1>3, EngineAdmits
<1>5. /\ batch = << >> /\ Len(running) \in Nat /\ k \in Nat
      /\ waiting \in Seq(Requests) /\ running \in Seq(Requests)
      /\ DOMAIN g = 1 .. Len(running) + k
  BY <1>1, <1>2, <1>3 DEF EngineStepOK, TypeOK
<1>6. moved \subseteq Requests
  <2>1. \A i \in 1 .. k : waiting[i] \in Requests
    BY <1>5
  <2> QED BY <2>1
<1>7. \A r \in moved : \E i \in DOMAIN g : g[i][1] = r /\ IsScheduled(g[i])
  <2> TAKE r \in moved
  <2>1. PICK j \in 1 .. k : waiting[j] = r
    OBVIOUS
  <2>2. Len(running) + j \in DOMAIN g
    BY <1>5
  <2> QED BY <1>3, <2>1, <2>2 DEF IsScheduled
<1>8. \A i \in DOMAIN g : g[i] \in Requests \X Nat /\ g[i][1] \in Owners'
  <2> TAKE i \in DOMAIN g
  <2>1. g[i] \in Requests \X Nat
    OBVIOUS
  <2>2. CASE i <= Len(running)
    <3>1. i \in DOMAIN running /\ g[i][1] = running[i]
      BY <1>3, <1>5, <2>2
    <3>2. g[i][1] \in Owners
      BY <3>1 DEF Owners, ToSet
    <3> QED BY <1>4, <2>1, <3>2
  <2>3. CASE i > Len(running)
    <3>1. i - Len(running) \in 1 .. k /\ Len(running) + (i - Len(running)) = i
      BY <1>5, <2>3
    <3>2. g[i][1] = waiting[i - Len(running)]
      BY <1>3, <3>1
    <3>3. g[i][1] \in moved
      BY <3>1, <3>2
    <3> QED BY <1>4, <2>1, <3>3
  <2> QED BY <1>5, <2>2, <2>3
<1> HIDE DEF moved
<1>9. \/ /\ batch' = g /\ phase' = "scheduled"
         /\ \E i \in DOMAIN g : IsScheduled(g[i])
      \/ /\ batch' = << >> /\ phase' = "idle"
         /\ \A i \in DOMAIN g : ~IsScheduled(g[i])
  BY <1>2, <1>3, <1>5 DEF BeginStep, stepVars
<1>10. todo' = Open' /\ Done' = {}
  BY <1>2 DEF Open, Done
<1>11. /\ \A r \in moved : \E i \in todo' : batch'[i][1] = r
       /\ todo' = {} => moved = {}
  <2>1. CASE batch' = g
    BY <1>2, <1>7, <2>1
  <2>2. CASE \A i \in DOMAIN g : ~IsScheduled(g[i])
    BY <1>7, <2>2
  <2> QED BY <1>9, <2>1, <2>2
<1>12. fresh' \in Seq(Requests) /\ IsInjective(fresh') /\ ToSet(fresh)' = moved
  <2>1. CASE todo' = {}
    <3>1. fresh' = << >> /\ moved = {}
      BY <1>2, <1>11, <2>1
    <3> QED BY <3>1 DEF IsInjective, ToSet
  <2>2. CASE todo' # {}
    <3>1. fresh' = new
      BY <1>2, <2>2
    <3> HIDE DEF new
    <3> QED BY <1>4, <3>1
  <2> QED BY <2>1, <2>2
<1> HIDE DEF new
<1>13. batch' \in Seq(Requests \X Nat)
  <2>1. << >> \in Seq(Requests \X Nat)
    OBVIOUS
  <2> QED BY <1>9, <2>1, Zenon
<1>14. TypeOK'
  BY <1>1, <1>2, <1>3, <1>4, <1>9, <1>13 DEF TypeOK
<1>15. EngineTokens'
  <2>1. \A r \in moved : r \in Requests /\ computed[r] < Len(tokens[r])
    BY <1>1, <1>4, <1>6 DEF EngineTokens
  <2>2. \A r \in Requests : /\ status'[r] = "WAITING" => status[r] = "WAITING"
                            /\ status'[r] = "NEW" => status[r] = "NEW"
    BY <1>4
  <2> QED BY <1>1, <1>2, <1>4, <2>1, <2>2 DEF EngineTokens
<1>16. EngineStepOK'
  <2>1. \A r \in moved : computed[r] = 0
    BY <1>1, <1>4, <1>6 DEF EngineTokens
  <2>2. CASE batch' = << >> /\ phase' = "idle"
    <3>1. Open' = {}
      BY <2>2 DEF Open
    <3> QED BY <1>2, <1>10, <1>11, <1>12, <2>1, <2>2, <3>1 DEF EngineStepOK
  <2>3. CASE batch' = g /\ phase' = "scheduled" /\ \E i \in DOMAIN g : IsScheduled(g[i])
    <3>1. Open' # {} /\ Open' \subseteq DOMAIN g
      BY <2>3 DEF Open
    <3> QED BY <1>2, <1>3, <1>8, <1>10, <1>11, <1>12, <2>1, <2>3, <3>1 DEF EngineStepOK
  <2> QED BY <1>9, <2>2, <2>3
<1>17. EngineBank'
  <2>1. BankType'
    BY <1>1, <1>2 DEF EngineBank, BankType
  <2>2. ASSUME NEW r \in Owners' \ (hurt' \cup ToSet(fresh)')
        PROVE  HasState(r, computed[r])'
    <3>1. r \in Owners /\ r \notin hurt
      BY <1>2, <1>4, <1>12
    <3>2. HasState(r, computed[r])
      BY <1>1, <1>2, <3>1, BankIdle
    <3>3. slots'[r] = slots[r]
      BY <1>4, <3>1
    <3> QED BY <1>2, <3>2, <3>3 DEF HasState, Known
  <2> QED BY <1>10, <2>1, <2>2 DEF EngineBank
<1>18. EngineSaved'
  BY <1>1, <1>2, SavedSame
<1> QED BY <1>4, <1>14, <1>15, <1>16, <1>17, <1>18 DEF EInv
-----------------------------------------------------------------------------
(***************************************************************************)
(* The execution of a step.                                                *)
(***************************************************************************)

LEMMA WithoutHead ==
    ASSUME NEW S, NEW s \in Seq(S), IsInjective(s), s # << >>
    PROVE  /\ Head(s) \in ToSet(s) /\ Tail(s) \in Seq(S) /\ IsInjective(Tail(s))
           /\ ToSet(Tail(s)) = ToSet(s) \ {Head(s)}
<1> DEFINE u == SubSeq(s, 2, Len(s))
           x == s[1]
<1>1. Tail(s) = u /\ Head(s) = x /\ 1 \in DOMAIN s
  OBVIOUS
<1>2. u \in Seq(S) /\ IsInjective(u) /\ ToSet(u) = ToSet(s) \ {s[i] : i \in 1 .. 1}
  <2>1. 1 \in 0 .. Len(s) /\ 1 + 1 = 2
    OBVIOUS
  <2> QED BY <2>1, DropFront, DropFrontInjective
<1>3. {s[i] : i \in 1 .. 1} = {x} /\ x \in ToSet(s)
  BY <1>1 DEF ToSet
<1> HIDE DEF u, x
<1> QED BY <1>1, <1>2, <1>3

\* While a step executes, only the bank and what is left to do change.
HasNewState(r, n) == \A f \in Families : bank'[f][slots[r][f]] = Known(r, n)

LEMMA BankAfterFeeding ==
    ASSUME BankType', UNCHANGED <<vars, tokens, hurt>>,
           \A r \in Owners \ (hurt \cup ToSet(fresh)') :
              /\ (\A i \in Done' : batch[i][1] # r) => HasNewState(r, computed[r])
              /\ \A i \in Done' : batch[i][1] = r =>
                     HasNewState(r, computed[r] + batch[i][2])
    PROVE  EngineBank'
<1>1. /\ Owners' = Owners /\ computed' = computed /\ batch' = batch /\ hurt' = hurt
      /\ slots' = slots
  BY DEF Owners, vars
<1>2. \A r, n : HasNewState(r, n) <=>
        \A f \in Families : bank'[f][slots'[r][f]] = SubSeq(tokens'[r], 1, n)
  BY <1>1 DEF HasNewState, Known
<1> QED BY <1>1, <1>2 DEF EngineBank, HasState, Known

\* The state of an admitted request is that of what it has computed, nothing,
\* when its slots are zeroed.
LEMMA ZeroSlotsKeeps ==
    ASSUME EInv, ZeroSlots
    PROVE  EInv'
<1> DEFINE q == Head(fresh)
           v == [f \in Families |-> Zero]
<1>1. /\ TypeOK /\ EngineQueues /\ EngineSlots /\ EngineTokens
      /\ EngineStepOK /\ EngineBank /\ EngineSaved /\ Owners \subseteq Requests
  BY Parts
<1>2. /\ Overwrite(slots[q], v)
      /\ UNCHANGED <<vars, tokens, todo, saved, hurt, lost>>
  BY DEF ZeroSlots
<1>3. /\ q \in ToSet(fresh)
      /\ fresh' \in Seq(Requests) /\ IsInjective(fresh')
      /\ ToSet(fresh)' = ToSet(fresh) \ {q}
  BY <1>1, WithoutHead DEF ZeroSlots, EngineStepOK
<1>4. v \in [Families -> Value] /\ \A f \in Families : v[f] = << >>
  BY DEF Value, Zero
<1> HIDE DEF q, v
<1>5. PICK j \in todo : batch[j][1] = q
  BY <1>1, <1>3 DEF EngineStepOK
<1>6. q \in Owners /\ computed[q] = 0 /\ q \in Requests
  BY <1>1, <1>3, <1>5 DEF EngineStepOK
<1>7. \A i \in Done : batch[i][1] # q
  BY <1>1, <1>5 DEF EngineStepOK, Done
<1>8. TypeOK' /\ EngineQueues' /\ EngineSlots' /\ EngineTokens' /\ EngineSaved'
  BY <1>1, <1>2, TypeSame, QueuesSame, SlotsSame, TokensSame, SavedSame
  DEF vars, arenaVars
<1>9. Open' = Open /\ Done' = Done /\ Owners' = Owners
  BY <1>2 DEF Open, Done, Owners, vars
<1>10. EngineStepOK'
  BY <1>1, <1>2, <1>3, <1>9 DEF EngineStepOK, vars
<1>11. EngineBank'
  <2>1. slots[q] \in SlotSet /\ \A x \in Owners : slots[x] \in SlotSet
    BY <1>1, <1>6, OwnersHaveSlots
  <2>2. /\ BankType'
        /\ \A f \in Families : \A x \in Slot :
             bank'[f][x] = IF x = slots[q][f] THEN v[f] ELSE bank[f][x]
    BY <1>1, <1>2, <1>4, <2>1, OverwritesOne DEF EngineBank
  <2>3. \A f \in Families : bank'[f][slots[q][f]] = Known(q, 0)
    <3>1. Known(q, 0) = << >>
      <4>1. tokens[q] \in Seq(Requests)
        BY <1>1, <1>6 DEF EngineTokens
      <4> QED BY <4>1 DEF Known
    <3> QED BY <1>4, <2>1, <2>2, <3>1 DEF SlotSet
  <2>4. ASSUME NEW x \in Owners, x # q, NEW n, HasState(x, n)
        PROVE  HasNewState(x, n)
    <3>1. \A f \in Families : bank'[f][slots[x][f]] = bank[f][slots[x][f]]
      BY <1>1, <1>6, <2>1, <2>2, <2>4 DEF EngineSlots, SlotSet
    <3> QED BY <2>4, <3>1 DEF HasState, HasNewState
  <2>5. HasNewState(q, computed[q])
    BY <1>6, <2>3 DEF HasNewState
  <2>6. ASSUME NEW x \in Owners \ (hurt \cup ToSet(fresh)')
        PROVE  /\ (\A i \in Done : batch[i][1] # x) => HasNewState(x, computed[x])
               /\ \A i \in Done : batch[i][1] = x =>
                      HasNewState(x, computed[x] + batch[i][2])
    <3>1. CASE x = q
      BY <1>7, <2>5, <3>1
    <3>2. CASE x # q
      <4>1. x \in Owners \ (hurt \cup ToSet(fresh))
        BY <1>3, <3>2
      <4>2. /\ (\A i \in Done : batch[i][1] # x) => HasState(x, computed[x])
            /\ \A i \in Done : batch[i][1] = x => HasState(x, computed[x] + batch[i][2])
        BY <1>1, <4>1 DEF EngineBank
      <4> QED BY <2>4, <3>2, <4>2
    <3> QED BY <3>1, <3>2
  <2> QED BY <1>2, <1>9, <2>2, <2>6, BankAfterFeeding
<1> QED BY <1>8, <1>10, <1>11 DEF EInv
\* Whichever of the entries are fed, one by one or together, the state of each
\* becomes that of the tokens it was to compute.
LEMMA FedKeeps ==
    ASSUME EInv, fresh = << >>, NEW D, D \subseteq todo, D # {},
           FeedAll({batch[i] : i \in D}), todo' = todo \ D,
           UNCHANGED <<vars, tokens, fresh, saved, hurt, lost>>
    PROVE  EInv'
<1> DEFINE E == {batch[i] : i \in D}
<1>1. /\ TypeOK /\ EngineQueues /\ EngineSlots /\ EngineTokens
      /\ EngineStepOK /\ EngineBank /\ EngineSaved /\ Owners \subseteq Requests
  BY Parts
<1>2. TypeOK' /\ EngineQueues' /\ EngineSlots' /\ EngineTokens' /\ EngineSaved'
  BY <1>1, TypeSame, QueuesSame, SlotsSame, TokensSame, SavedSame
  DEF vars, arenaVars
<1>3. /\ D \subseteq Open /\ Done \cap D = {} /\ Done \subseteq Open
      /\ Open' = Open /\ Done' = Done \cup D /\ Owners' = Owners
  BY <1>1 DEF EngineStepOK, Open, Done, Owners, vars
<1>4. \A i, j \in Open : batch[i][1] = batch[j][1] => i = j
  BY <1>1 DEF EngineStepOK
<1>5. ToSet(fresh)' = {} /\ ToSet(fresh) = {}
  BY DEF ToSet
<1>6. EngineStepOK'
  BY <1>1, <1>3, <1>5 DEF EngineStepOK, vars
<1>7. /\ \A e \in E : /\ e[1] \in Owners /\ e[2] \in Nat
                      /\ computed[e[1]] + e[2] <= Len(tokens[e[1]])
      /\ \A d, e \in E : d[1] = e[1] => d = e
  <2>1. ASSUME NEW i \in D
        PROVE  /\ batch[i][1] \in Owners /\ batch[i][2] \in Nat
               /\ computed[batch[i][1]] + batch[i][2] <= Len(tokens[batch[i][1]])
    <3>1. i \in Open /\ i \in DOMAIN batch
      BY <1>3 DEF Open
    <3>2. /\ batch[i][1] \in Owners
          /\ computed[batch[i][1]] + batch[i][2] <= Len(tokens[batch[i][1]])
      BY <1>1, <3>1 DEF EngineStepOK
    <3>3. batch[i][2] \in Nat
      BY <1>1, <3>1 DEF TypeOK
    <3> QED BY <3>2, <3>3
  <2>2. \A i, j \in D : batch[i][1] = batch[j][1] => batch[i] = batch[j]
    BY <1>3, <1>4
  <2> QED BY <2>1, <2>2
<1>8. FeedAll(E) /\ BankType
  BY <1>1 DEF EngineBank
<1> HIDE DEF E
<1>9. /\ BankType'
      /\ \A r \in Owners : (\A e \in E : e[1] # r) =>
           \A f \in Families : bank'[f][slots[r][f]] = bank[f][slots[r][f]]
      /\ \A e \in E : HasState(e[1], computed[e[1]]) =>
           \A f \in Families :
               bank'[f][slots[e[1]][f]] = Known(e[1], computed[e[1]] + e[2])
  BY <1>1, <1>7, <1>8, FeedsTheirOwn
<1>10. ASSUME NEW r \in Owners, NEW n, \A i \in D : batch[i][1] # r, HasState(r, n)
       PROVE  HasNewState(r, n)
  <2>1. \A e \in E : e[1] # r
    BY <1>10 DEF E
  <2> QED BY <1>9, <1>10, <2>1 DEF HasState, HasNewState
<1>11. ASSUME NEW i \in D, HasState(batch[i][1], computed[batch[i][1]])
       PROVE  HasNewState(batch[i][1], computed[batch[i][1]] + batch[i][2])
  <2>1. batch[i] \in E
    BY DEF E
  <2> QED BY <1>9, <1>11, <2>1 DEF HasNewState
<1>12. ASSUME NEW r \in Owners \ (hurt \cup ToSet(fresh)')
       PROVE  /\ (\A i \in Done' : batch[i][1] # r) => HasNewState(r, computed[r])
              /\ \A i \in Done' : batch[i][1] = r =>
                     HasNewState(r, computed[r] + batch[i][2])
  <2>1. /\ (\A i \in Done : batch[i][1] # r) => HasState(r, computed[r])
        /\ \A i \in Done : batch[i][1] = r => HasState(r, computed[r] + batch[i][2])
    BY <1>1, <1>5, <1>12 DEF EngineBank
  <2>2. (\A i \in Done' : batch[i][1] # r) => HasNewState(r, computed[r])
    BY <1>3, <1>10, <2>1
  <2>3. ASSUME NEW i \in Done', batch[i][1] = r
        PROVE  HasNewState(r, computed[r] + batch[i][2])
    <3>1. CASE i \in D
      <4>1. \A j \in Done : batch[j][1] # r
        BY <1>3, <1>4, <2>3, <3>1
      <4> QED BY <1>11, <2>1, <2>3, <3>1, <4>1
    <3>2. CASE i \in Done
      <4>1. \A j \in D : batch[j][1] # r
        BY <1>3, <1>4, <2>3, <3>2
      <4> QED BY <1>10, <2>1, <2>3, <3>2, <4>1
    <3> QED BY <1>3, <3>1, <3>2
  <2> QED BY <2>2, <2>3
<1>13. EngineBank'
  <2>1. batch' = batch
    BY DEF vars
  <2> QED BY <1>9, <1>12, BankAfterFeeding
<1> QED BY <1>2, <1>6, <1>13 DEF EInv

LEMMA PrefillKeeps ==
    ASSUME EInv, Prefill
    PROVE  EInv'
<1>1. PICK i \in todo : FeedAll({batch[i]}) /\ todo' = todo \ {i}
  BY DEF Prefill
<1> DEFINE D == {i}
<1>2. {batch[j] : j \in D} = {batch[i]}
  OBVIOUS
<1>3. /\ fresh = << >> /\ D \subseteq todo /\ D # {}
      /\ FeedAll({batch[j] : j \in D}) /\ todo' = todo \ D
      /\ UNCHANGED <<vars, tokens, fresh, saved, hurt, lost>>
  BY <1>1, <1>2 DEF Prefill
<1> HIDE DEF D
<1> QED BY <1>3, FedKeeps

LEMMA DecodeStepKeeps ==
    ASSUME EInv, DecodeStep
    PROVE  EInv'
<1>1. /\ fresh = << >> /\ todo \subseteq todo /\ todo # {}
      /\ FeedAll({batch[i] : i \in todo}) /\ todo' = todo \ todo
      /\ UNCHANGED <<vars, tokens, fresh, saved, hurt, lost>>
  BY DEF DecodeStep
<1> QED BY <1>1, FedKeeps
-----------------------------------------------------------------------------
(***************************************************************************)
(* The end of a step.                                                      *)
(***************************************************************************)

\* With an entry dealt with, the open entries are the others.
LEMMA EntryPassed ==
    ASSUME TypeOK, EngineStepOK, NEW i \in DOMAIN batch, IsNextEntry(i),
           PassEntry(i, "updating")
    PROVE  /\ batch' \in Seq(Requests \X Nat)
           /\ phase' \in {"idle", "updating"}
           /\ phase' = "idle" <=> Open' = {}
           /\ phase' = "idle" => batch' = << >>
           /\ \A k \in Open' : \E j \in Open : j # i /\ batch'[k] = batch[j]
           /\ \A j \in Open \ {i} : \E k \in Open' : batch'[k] = batch[j]
           /\ \A k, l \in Open' : batch'[k][1] = batch'[l][1] => k = l
<1> DEFINE t == SubSeq(batch, i + 1, Len(batch))
<1>1. /\ batch \in Seq(Requests \X Nat) /\ DOMAIN batch = 1 .. Len(batch)
      /\ Len(batch) \in Nat /\ i \in 1 .. Len(batch)
  <2>1. batch \in Seq(Requests \X Nat)
    BY DEF TypeOK
  <2>2. DOMAIN batch = 1 .. Len(batch) /\ Len(batch) \in Nat
    BY <2>1
  <2> QED BY <2>1, <2>2
<1>2. \A j \in Open : j \in 1 .. Len(batch) /\ j >= i
  <2> SUFFICES ASSUME NEW j \in Open PROVE j \in 1 .. Len(batch) /\ j >= i
    OBVIOUS
  <2>1. j \in 1 .. Len(batch) /\ IsScheduled(batch[j])
    BY <1>1 DEF Open
  <2>2. j \notin 1 .. i - 1
    BY <2>1 DEF IsNextEntry
  <2> QED BY <1>1, <2>1, <2>2
<1>3. CASE ~ \E j \in i + 1 .. Len(batch) : IsScheduled(batch[j])
  <2>1. batch' = << >> /\ phase' = "idle"
    BY <1>3 DEF PassEntry
  <2>2. Open' = {}
    BY <2>1 DEF Open
  <2>3. Open \ {i} = {}
    <3> SUFFICES ASSUME NEW j \in Open, j # i PROVE FALSE
      OBVIOUS
    <3>1. j \in i + 1 .. Len(batch)
      BY <1>1, <1>2
    <3> QED BY <1>3, <3>1 DEF Open
  <2> QED BY <2>1, <2>2, <2>3
<1>4. CASE \E j \in i + 1 .. Len(batch) : IsScheduled(batch[j])
  <2>1. batch' = t /\ phase' = "updating"
    BY <1>4 DEF PassEntry
  <2>2. /\ t \in Seq(Requests \X Nat) /\ Len(t) = Len(batch) - i
        /\ \A k \in 1 .. Len(t) : t[k] = batch[k + i]
    <3>1. i \in 0 .. Len(batch)
      BY <1>1
    <3> QED BY <1>1, <3>1, DropFront
  <2> HIDE DEF t
  <2>3. DOMAIN batch' = 1 .. Len(batch) - i
    <3> DEFINE n == Len(batch) - i
    <3>1. DOMAIN t = 1 .. Len(t) /\ Len(t) = n
      BY <2>2
    <3> HIDE DEF n
    <3>2. DOMAIN t = 1 .. n
      BY <3>1
    <3> QED BY <2>1, <3>2 DEF n
  <2>4. ASSUME NEW k \in Open'
        PROVE  /\ k \in 1 .. Len(batch) - i /\ k + i \in Open /\ k + i # i
               /\ batch'[k] = batch[k + i]
    <3>1. k \in 1 .. Len(batch) - i /\ IsScheduled(batch'[k])
      BY <2>3 DEF Open
    <3>2. k + i \in 1 .. Len(batch) /\ k + i # i
      BY <1>1, <3>1
    <3>3. batch'[k] = batch[k + i]
      BY <2>1, <2>2, <3>1
    <3> QED BY <1>1, <3>1, <3>2, <3>3 DEF Open
  <2>5. ASSUME NEW j \in Open, j # i
        PROVE  j - i \in Open' /\ batch'[j - i] = batch[j]
    <3>1. j - i \in 1 .. Len(batch) - i /\ (j - i) + i = j
      BY <1>1, <1>2, <2>5
    <3>2. batch'[j - i] = batch[j]
      BY <2>1, <2>2, <3>1
    <3> QED BY <2>3, <3>1, <3>2 DEF Open
  <2>6. Open' # {}
    <3>1. PICK j \in i + 1 .. Len(batch) : IsScheduled(batch[j])
      BY <1>4
    <3>2. j \in Open /\ j # i
      BY <1>1, <3>1 DEF Open
    <3> QED BY <2>5, <3>2
  <2>7. ASSUME NEW k \in Open', NEW l \in Open', batch'[k][1] = batch'[l][1]
        PROVE  k = l
    <3>1. k + i = l + i
      BY <2>4, <2>7 DEF EngineStepOK
    <3> QED BY <1>1, <2>4, <3>1
  <2>8. \A k \in Open' : \E j \in Open : j # i /\ batch'[k] = batch[j]
    BY <2>4
  <2>9. \A j \in Open \ {i} : \E k \in Open' : batch'[k] = batch[j]
    BY <2>5
  <2> QED BY <2>1, <2>2, <2>6, <2>7, <2>8, <2>9
<1> QED BY <1>3, <1>4
\* What n computed tokens of r change, and what they leave alone.
LEMMA EngineCommits ==
    ASSUME TypeOK, EngineQueues, EngineSlots, EngineTokens,
           NEW r \in Owners, NEW n \in Nat, NEW stop, CommitEntry(r, n, stop),
           computed[r] + n <= Len(tokens[r]),
           tokens' = Learned(r, prompt'[r] + output'[r]),
           batch' \in Seq(Requests \X Nat), phase' \in {"idle", "updating"},
           UNCHANGED <<hurt, lost>>
    PROVE  /\ TypeOK' /\ EngineQueues' /\ EngineSlots' /\ EngineTokens'
           /\ Owners' \subseteq Owners /\ Owners \ {r} \subseteq Owners'
           /\ \A x \in Owners' : slots'[x] = slots[x]
           /\ \A x \in Requests \ {r} : /\ status'[x] = status[x]
                                        /\ computed'[x] = computed[x]
                                        /\ tokens'[x] = tokens[x]
           /\ status[r] = "RUNNING" /\ computed'[r] = computed[r] + n
           /\ SubSeq(tokens'[r], 1, computed[r] + n) =
                SubSeq(tokens[r], 1, computed[r] + n)
           /\ status'[r] \in Finished => computed[r] + n < Len(tokens'[r])
<1> DEFINE keeps == UNCHANGED <<arenaVars, running, parked, parked_as, status,
                                slots, lane>>
           st == StatusAfterToken(r, stop)
           leaves == /\ Release(r) /\ status' = [status EXCEPT ![r] = st]
                     /\ UNCHANGED <<parked, parked_as>>
           q == tokens[r]
           m == prompt[r] + output[r]
           c == computed[r] + n
<1>1. /\ Owners \subseteq Requests /\ r \in Requests
      /\ q \in Seq(Requests) /\ Len(q) = m /\ c <= Len(q)
      /\ computed[r] \in Nat /\ output[r] \in Nat /\ prompt[r] \in Nat
      /\ c \in 0 .. Len(q)
  <2>1. Owners \subseteq Requests /\ r \in Requests
    BY OwnersHaveSlots
  <2>2. q \in Seq(Requests) /\ Len(q) = m
    BY <2>1 DEF EngineTokens
  <2>3. computed[r] \in Nat /\ output[r] \in Nat /\ prompt[r] \in Nat
    BY <2>1 DEF TypeOK
  <2> QED BY <2>1, <2>2, <2>3
<1>2. /\ status[r] = "RUNNING"
      /\ computed' = [computed EXCEPT ![r] = c]
      /\ UNCHANGED <<waiting, park_on_finish, prompt, limit>>
      /\ \/ m - computed[r] # n /\ UNCHANGED output /\ keeps
         \/ /\ m - computed[r] = n /\ output' = [output EXCEPT ![r] = output[r] + 1]
            /\ keeps \/ (st \in Finished /\ leaves)
      /\ \/ lane' = lane
         \/ lane' = Retired({r}, IF c < prompt[r] THEN {r} ELSE {})
  BY DEF CommitEntry, InBatch, Gap, NumTokens, FinishTurn, EngineQueues
<1> HIDE DEF st
<1>3. lane' \in Lane
  BY <1>2, RetiredType DEF TypeOK
<1>4. /\ computed' \in [Requests -> Nat] /\ computed'[r] = c
      /\ \A x \in Requests \ {r} : computed'[x] = computed[x]
  BY <1>1, <1>2 DEF TypeOK
<1>5. /\ output' \in [Requests -> Nat]
      /\ \A x \in Requests \ {r} : output'[x] = output[x]
      /\ \/ c < m /\ output'[r] = output[r]
         \/ c = m /\ output'[r] = output[r] + 1
  <2>1. c < m \/ c = m
    BY <1>1
  <2>2. output \in [Requests -> Nat]
    BY DEF TypeOK
  <2>3. CASE m - computed[r] # n /\ UNCHANGED output
    BY <1>1, <2>1, <2>2, <2>3
  <2>4. CASE m - computed[r] = n /\ output' = [output EXCEPT ![r] = output[r] + 1]
    <3>1. c = m
      BY <1>1, <2>4
    <3>2. output[r] + 1 \in Nat
      BY <1>1
    <3> HIDE DEF c, m
    <3>3. /\ output' \in [Requests -> Nat] /\ output'[r] = output[r] + 1
          /\ \A x \in Requests \ {r} : output'[x] = output[x]
      BY <1>1, <2>2, <2>4, <3>2
    <3> QED BY <3>1, <3>3
  <2> QED BY <1>2, <2>3, <2>4
<1>6. /\ tokens' \in [Requests -> Seq(Requests)]
      /\ \A x \in Requests \ {r} : tokens'[x] = tokens[x]
      /\ tokens'[r] \in Seq(Requests)
      /\ Len(tokens'[r]) = prompt[r] + output'[r]
      /\ SubSeq(tokens'[r], 1, c) = SubSeq(q, 1, c)
      /\ c < Len(tokens'[r])
  <2> DEFINE u == IF prompt[r] + output'[r] > Len(q) THEN Append(q, r) ELSE q
  <2>1. tokens' = [tokens EXCEPT ![r] = u]
    BY <1>2 DEF Learned
  <2>2. /\ Append(q, r) \in Seq(Requests) /\ Len(Append(q, r)) = Len(q) + 1
        /\ SubSeq(Append(q, r), 1, c) = SubSeq(q, 1, c)
    <3> HIDE DEF q, c
    <3> QED BY <1>1, PrefixOfAppend
  <2>3. /\ u \in Seq(Requests) /\ Len(u) = prompt[r] + output'[r]
        /\ SubSeq(u, 1, c) = SubSeq(q, 1, c) /\ c < Len(u)
    <3>1. CASE c < m /\ output'[r] = output[r]
      <4>1. u = q
        BY <1>1, <3>1
      <4>2. prompt[r] + output'[r] = Len(q) /\ c < Len(q)
        BY <1>1, <3>1
      <4> HIDE DEF u, q, c
      <4> QED BY <1>1, <4>1, <4>2
    <3>2. CASE c = m /\ output'[r] = output[r] + 1
      <4>1. u = Append(q, r)
        BY <1>1, <3>2
      <4>2. Len(q) = prompt[r] + output[r] /\ c = Len(q) /\ Len(q) \in Nat
        BY <1>1, <3>2
      <4>3. prompt[r] + output'[r] = Len(q) + 1 /\ c < Len(q) + 1
        <5> HIDE DEF q, c, m
        <5> QED BY <1>1, <3>2, <4>2
      <4> HIDE DEF u, q, c
      <4> QED BY <2>2, <4>1, <4>3
    <3> QED BY <1>5, <3>1, <3>2
  <2> HIDE DEF u
  <2>4. tokens \in [Requests -> Seq(Requests)]
    BY DEF EngineTokens
  <2>5. /\ tokens' \in [Requests -> Seq(Requests)] /\ tokens'[r] = u
        /\ \A x \in Requests \ {r} : tokens'[x] = tokens[x]
    BY <1>1, <2>1, <2>3, <2>4
  <2> QED BY <2>3, <2>5
<1>7. /\ status' \in [Requests -> Status]
      /\ \A x \in Requests \ {r} : status'[x] = status[x]
      /\ (keeps /\ status'[r] = "RUNNING") \/ (leaves /\ status'[r] \in Finished)
  <2>1. status \in [Requests -> Status]
    BY DEF TypeOK
  <2>2. CASE keeps
    BY <1>2, <2>1, <2>2
  <2>3. CASE st \in Finished /\ leaves
    <3>1. st \in Status
      BY <2>3 DEF Status
    <3> QED BY <1>1, <2>1, <2>3, <3>1
  <2> QED BY <1>2, <2>2, <2>3
<1>8. /\ EngineSlots' /\ ArenaTypeOK'
      /\ slots' \in [Requests -> SlotSet \cup {NoSlots}]
      /\ running' \in Seq(Requests) /\ IsInjective(running')
      /\ Owners' = IF status'[r] = "RUNNING" THEN Owners ELSE Owners \ {r}
      /\ \A x \in Owners' : slots'[x] = slots[x]
  <2>1. CASE keeps /\ status'[r] = "RUNNING"
    <3>1. EngineSlots'
      BY <2>1, SlotsSame
    <3> QED BY <2>1, <3>1 DEF TypeOK, ArenaTypeOK, arenaVars, EngineQueues, Owners
  <2>2. CASE leaves /\ status'[r] \in Finished
    <3>1. Release(r) /\ IsInjective(running) /\ UNCHANGED lost /\ status'[r] # "RUNNING"
      BY <2>2 DEF EngineQueues, Finished
    <3> QED BY <3>1, EngineReleases
  <2> QED BY <1>7, <2>1, <2>2
<1>9. parked' = {} /\ park_on_finish' = {} /\ UNCHANGED parked_as
  BY <1>2, <1>7 DEF EngineQueues
<1> HIDE DEF keeps, leaves, q, m, c
<1>10. TypeOK'
  BY <1>2, <1>3, <1>4, <1>5, <1>7, <1>8, <1>9 DEF TypeOK
<1>11. EngineQueues'
  <2>1. ToSet(waiting') = {x \in Requests : status'[x] = "WAITING"}
    BY <1>1, <1>2, <1>7 DEF EngineQueues, Finished
  <2>2. \A x \in Requests : /\ status'[x] = "RUNNING" => x \in Owners'
                            /\ status'[x] # "PARKED"
    BY <1>2, <1>7, <1>8 DEF EngineQueues, Finished
  <2>3. \A x \in Owners' :
          status'[x] = "RUNNING" \/ (status'[x] \in Finished /\ x \in hurt')
    <3> TAKE x \in Owners'
    <3>1. CASE x = r
      BY <1>7, <1>8, <3>1
    <3>2. CASE x # r
      <4>1. x \in Owners /\ status'[x] = status[x]
        BY <1>1, <1>7, <1>8, <3>2
      <4> QED BY <4>1 DEF EngineQueues
    <3> QED BY <3>1, <3>2
  <2> QED BY <1>2, <1>8, <1>9, <2>1, <2>2, <2>3 DEF EngineQueues
<1>12. EngineTokens'
  <2>1. ASSUME NEW x \in Requests
        PROVE  /\ Len(tokens'[x]) = prompt'[x] + output'[x]
               /\ status'[x] \in {"NEW", "WAITING"} => output'[x] = 0 /\ computed'[x] = 0
               /\ status'[x] = "WAITING" \/ x \in Owners' =>
                    computed'[x] < Len(tokens'[x])
    <3>1. CASE x = r
      <4>1. status'[r] \notin {"NEW", "WAITING"}
        BY <1>7 DEF Finished
      <4> QED BY <1>2, <1>4, <1>6, <3>1, <4>1
    <3>2. CASE x # r
      BY <1>2, <1>4, <1>5, <1>6, <1>7, <1>8, <3>2 DEF EngineTokens
    <3> QED BY <3>1, <3>2
  <2> QED BY <1>6, <2>1 DEF EngineTokens
<1>13. Owners' \subseteq Owners /\ Owners \ {r} \subseteq Owners'
  BY <1>8
<1> QED BY <1>2, <1>4, <1>6, <1>7, <1>8, <1>10, <1>11, <1>12, <1>13 DEF q, c
\* _snapshot_on_finish saves a state that has all of the step in it.
LEMMA FinishSaved ==
    ASSUME TypeOK, EngineSlots, BankType, EngineSaved, NEW r \in Owners,
           NEW n \in Nat, n < Len(tokens'[r]), tokens'[r] \in Seq(Requests),
           computed'[r] = n,
           SubSeq(tokens'[r], 1, n) = SubSeq(tokens[r], 1, n),
           r \notin hurt => HasState(r, n),
           saved' \in {saved, Append(saved, FinishRecord(r))}
    PROVE  EngineSaved'
<1> DEFINE t == tokens'[r]
           v == StateOf(r)
           b == r \notin hurt
<1>1. v \in [Families -> Value] /\ \A f \in Families : v[f] = bank[f][slots[r][f]]
  BY StateIsValue
<1>2. b => \A f \in Families : v[f] = SubSeq(t, 1, n)
  BY <1>1 DEF HasState, Known
<1>3. CASE saved' = saved
  BY <1>3, SavedSame
<1>4. CASE saved' = Append(saved, FinishRecord(r))
  <2>1. saved' = Append(saved, [tokens |-> t, computed |-> n, sound |-> b, state |-> v])
    BY <1>4 DEF FinishRecord
  <2>2. b \in BOOLEAN /\ t \in Seq(Requests) /\ n < Len(t)
    OBVIOUS
  <2> HIDE DEF t, v, b
  <2> QED BY <1>1, <1>2, <2>1, <2>2, SavedGrows
<1> QED BY <1>3, <1>4

\* The next entry is the one NextEntry names.
LEMMA NextEntryIs ==
    ASSUME TypeOK, NEW i \in DOMAIN batch, IsNextEntry(i)
    PROVE  NextEntry = batch[i]
<1>1. DOMAIN batch = 1 .. Len(batch) /\ Len(batch) \in Nat
  <2>1. batch \in Seq(Requests \X Nat)
    BY DEF TypeOK
  <2> QED BY <2>1
<1>2. ASSUME NEW j \in DOMAIN batch, IsNextEntry(j) PROVE j = i
  <2>1. j \notin 1 .. i - 1 /\ i \notin 1 .. j - 1
    BY <1>2 DEF IsNextEntry
  <2> QED BY <1>1, <2>1
<1> QED BY <1>2 DEF NextEntry

LEMMA UpdateKeeps ==
    ASSUME EInv, Update
    PROVE  EInv'
<1>1. /\ TypeOK /\ EngineQueues /\ EngineSlots /\ EngineTokens
      /\ EngineStepOK /\ EngineBank /\ EngineSaved /\ Owners \subseteq Requests
      /\ BankType
  BY Parts DEF EngineBank
<1>2. /\ phase # "idle" /\ fresh = << >> /\ todo = {}
      /\ UNCHANGED <<bank, fresh, todo, hurt, lost>>
  BY DEF Update, Executed, StepUnderWay
<1>3. PICK i \in DOMAIN batch :
        /\ IsNextEntry(i) /\ PassEntry(i, "updating")
        /\ \/ \E stop \in BOOLEAN : CommitEntry(batch[i][1], batch[i][2], stop)
           \/ /\ ~InBatch(batch[i][1])
              /\ UNCHANGED <<arenaVars, queueVars, status, parked_as, tokenVars,
                             slots, lane>>
  BY DEF Update, UpdateFromOutput, SkipEntry
<1> DEFINE r == batch[i][1]
           n == batch[i][2]
<1>4. /\ tokens' = Learned(r, prompt'[r] + output'[r])
      /\ saved' = IF Finishes(r) /\ r \in armed
                  THEN Append(saved, FinishRecord(r)) ELSE saved
  BY <1>1, <1>3, NextEntryIs DEF Update
<1>5. /\ i \in Open /\ Done = Open /\ Done' = Open'
      /\ r \in Owners /\ computed[r] + n <= Len(tokens[r])
      /\ r \in Requests /\ n \in Nat
  <2>1. i \in Open /\ Done = Open /\ Done' = Open'
    BY <1>2, <1>3 DEF IsNextEntry, Open, Done
  <2>2. r \in Owners /\ computed[r] + n <= Len(tokens[r])
    BY <1>1, <2>1 DEF EngineStepOK
  <2>3. n \in Nat
    BY <1>1, <1>3 DEF TypeOK
  <2> QED BY <1>1, <2>1, <2>2, <2>3
<1>6. /\ batch' \in Seq(Requests \X Nat)
      /\ phase' \in {"idle", "updating"}
      /\ phase' = "idle" <=> Open' = {}
      /\ phase' = "idle" => batch' = << >>
      /\ \A k \in Open' : \E j \in Open : j # i /\ batch'[k] = batch[j]
      /\ \A j \in Open \ {i} : \E k \in Open' : batch'[k] = batch[j]
      /\ \A k, l \in Open' : batch'[k][1] = batch'[l][1] => k = l
  BY <1>1, <1>3, EntryPassed
<1>7. r \notin hurt => HasState(r, computed[r] + n)
  <2>1. ToSet(fresh) = {}
    BY <1>2 DEF ToSet
  <2> QED BY <1>1, <1>5, <2>1 DEF EngineBank
<1>8. \A j \in Open : j # i => batch[j][1] # r
  BY <1>1, <1>5 DEF EngineStepOK
<1> DEFINE good ==
      /\ TypeOK' /\ EngineQueues' /\ EngineSlots' /\ EngineTokens' /\ EngineSaved'
      /\ Owners' \subseteq Owners /\ Owners \ {r} \subseteq Owners'
      /\ \A x \in Owners' : slots'[x] = slots[x]
      /\ \A x \in Requests \ {r} : computed'[x] = computed[x] /\ tokens'[x] = tokens[x]
      /\ r \notin hurt =>
           /\ computed'[r] = computed[r] + n
           /\ SubSeq(tokens'[r], 1, computed[r] + n) =
                SubSeq(tokens[r], 1, computed[r] + n)
<1> HIDE DEF r, n
<1>9. ASSUME NEW stop \in BOOLEAN, CommitEntry(r, n, stop)
      PROVE  good
  <2>1. /\ TypeOK' /\ EngineQueues' /\ EngineSlots' /\ EngineTokens'
        /\ Owners' \subseteq Owners /\ Owners \ {r} \subseteq Owners'
        /\ \A x \in Owners' : slots'[x] = slots[x]
        /\ \A x \in Requests \ {r} : /\ status'[x] = status[x]
                                     /\ computed'[x] = computed[x]
                                     /\ tokens'[x] = tokens[x]
        /\ status[r] = "RUNNING" /\ computed'[r] = computed[r] + n
        /\ SubSeq(tokens'[r], 1, computed[r] + n) = SubSeq(tokens[r], 1, computed[r] + n)
        /\ status'[r] \in Finished => computed[r] + n < Len(tokens'[r])
    BY <1>1, <1>2, <1>4, <1>5, <1>6, <1>9, EngineCommits
  <2>2. EngineSaved'
    <3>1. CASE saved' = saved
      BY <1>1, <3>1, SavedSame
    <3>2. CASE Finishes(r) /\ saved' = Append(saved, FinishRecord(r))
      <4> DEFINE c == computed[r] + n
      <4>1. c \in Nat /\ tokens'[r] \in Seq(Requests)
        BY <1>1, <1>5, <2>1 DEF TypeOK, EngineTokens
      <4>2. c < Len(tokens'[r])
        BY <2>1, <3>2 DEF Finishes
      <4>3. /\ computed'[r] = c /\ SubSeq(tokens'[r], 1, c) = SubSeq(tokens[r], 1, c)
            /\ r \notin hurt => HasState(r, c)
        BY <1>7, <2>1
      <4> HIDE DEF c
      <4> QED BY <1>1, <1>5, <3>2, <4>1, <4>2, <4>3, FinishSaved
    <3> QED BY <1>4, <3>1, <3>2
  <2> QED BY <2>1, <2>2
<1>10. ASSUME ~InBatch(r),
              UNCHANGED <<arenaVars, queueVars, status, parked_as, tokenVars,
                          slots, lane>>
       PROVE  good
  <2>1. r \in hurt
    BY <1>1, <1>5, <1>10 DEF InBatch, EngineQueues
  <2>2. tokens' = tokens
    <3>1. tokens \in [Requests -> Seq(Requests)] /\ Len(tokens[r]) = prompt[r] + output[r]
      BY <1>1, <1>5 DEF EngineTokens
    <3>2. prompt'[r] + output'[r] = Len(tokens[r]) /\ Len(tokens[r]) \in Nat
      BY <1>5, <1>10, <3>1 DEF tokenVars
    <3>3. ~ (prompt'[r] + output'[r] > Len(tokens[r]))
      BY <3>2
    <3> QED BY <1>4, <3>1, <3>3 DEF Learned
  <2>3. saved' = saved
    BY <1>4, <1>10 DEF Finishes
  <2>4. EngineQueues' /\ EngineSlots' /\ EngineTokens' /\ EngineSaved'
    BY <1>1, <1>2, <1>10, <2>2, <2>3, QueuesSame, SlotsSame, TokensSame, SavedSame
    DEF queueVars, tokenVars
  <2>5. TypeOK'
    BY <1>1, <1>6, <1>10
    DEF TypeOK, ArenaTypeOK, arenaVars, queueVars, tokenVars
  <2>6. /\ Owners' = Owners /\ slots' = slots /\ computed' = computed
    BY <1>10 DEF Owners, queueVars, tokenVars
  <2> QED BY <2>1, <2>2, <2>4, <2>5, <2>6
<1>11. good
  BY <1>3, <1>9, <1>10 DEF r, n
<1>12. EngineStepOK'
  <2>1. ASSUME NEW k \in Open'
        PROVE  /\ batch'[k][1] \in Owners'
               /\ computed'[batch'[k][1]] + batch'[k][2] <= Len(tokens'[batch'[k][1]])
    <3>1. PICK j \in Open : j # i /\ batch'[k] = batch[j]
      BY <1>6
    <3>2. /\ batch[j][1] \in Owners /\ batch[j][1] # r
          /\ computed[batch[j][1]] + batch[j][2] <= Len(tokens[batch[j][1]])
      BY <1>1, <1>8, <3>1 DEF EngineStepOK
    <3>3. /\ batch[j][1] \in Owners' /\ computed'[batch[j][1]] = computed[batch[j][1]]
          /\ tokens'[batch[j][1]] = tokens[batch[j][1]]
      BY <1>1, <1>11, <3>2
    <3> QED BY <3>1, <3>2, <3>3
  <2>2. ToSet(fresh') = {} /\ todo' = {}
    BY <1>2 DEF ToSet
  <2> QED BY <1>1, <1>2, <1>6, <2>1, <2>2 DEF EngineStepOK
<1>13. EngineBank'
  <2>1. BankType'
    BY <1>1, <1>2 DEF BankType
  <2>2. ASSUME NEW x \in Owners' \ hurt, x = r
        PROVE  /\ \A k \in Open' : batch'[k][1] # x
               /\ HasState(x, computed[x])'
    <3>1. \A k \in Open' : batch'[k][1] # x
      BY <1>6, <1>8, <2>2
    <3>2. HasState(r, computed[r] + n)
      BY <1>7, <2>2
    <3> QED BY <1>2, <1>11, <2>2, <3>1, <3>2 DEF HasState, Known
  <2>3. ASSUME NEW x \in Owners' \ hurt, x # r
        PROVE  /\ (\A k \in Open' : batch'[k][1] # x) => HasState(x, computed[x])'
               /\ \A k \in Open' : batch'[k][1] = x =>
                      HasState(x, computed[x] + batch[k][2])'
    <3>1. /\ x \in Owners /\ slots'[x] = slots[x]
          /\ computed'[x] = computed[x] /\ tokens'[x] = tokens[x]
      BY <1>1, <1>11, <2>3
    <3>2. ToSet(fresh) = {}
      BY <1>2 DEF ToSet
    <3>3. /\ (\A j \in Open : batch[j][1] # x) => HasState(x, computed[x])
          /\ \A j \in Open : batch[j][1] = x => HasState(x, computed[x] + batch[j][2])
      BY <1>1, <1>5, <2>3, <3>1, <3>2 DEF EngineBank
    <3>4. ASSUME NEW m, HasState(x, m) PROVE HasState(x, m)'
      BY <1>2, <3>1, <3>4 DEF HasState, Known
    <3>5. ASSUME \A k \in Open' : batch'[k][1] # x PROVE HasState(x, computed[x])'
      <4>1. \A j \in Open : batch[j][1] # x
        <5> TAKE j \in Open
        <5>1. CASE j = i
          BY <2>3, <5>1 DEF r
        <5>2. CASE j # i
          <6>1. PICK k \in Open' : batch'[k] = batch[j]
            BY <1>6, <5>2
          <6> QED BY <3>5, <6>1
        <5> QED BY <5>1, <5>2
      <4>2. HasState(x, computed[x])
        BY <3>3, <4>1
      <4> QED BY <1>2, <3>1, <4>2 DEF HasState, Known
    <3>6. ASSUME NEW k \in Open', batch'[k][1] = x
          PROVE  HasState(x, computed[x] + batch[k][2])'
      <4>1. PICK j \in Open : batch'[k] = batch[j]
        BY <1>6
      <4>2. HasState(x, computed[x] + batch[j][2])
        BY <3>3, <3>6, <4>1
      <4> QED BY <1>2, <3>1, <4>1, <4>2 DEF HasState, Known
    <3> QED BY <3>5, <3>6
  <2> QED BY <1>2, <1>5, <2>1, <2>2, <2>3 DEF EngineBank
<1> QED BY <1>11, <1>12, <1>13 DEF EInv
-----------------------------------------------------------------------------
(***************************************************************************)
(* Steps that raise.                                                       *)
(***************************************************************************)

\* Whoever was not hurt by a step that raised had nothing to do with it.
LEMMA RaisedSpares ==
    ASSUME EInv, EndRaised
    PROVE  /\ EngineStepOK' /\ Done' = {} /\ hurt \subseteq hurt'
           /\ \A i \in Open : batch[i][1] \in hurt'
           /\ batch' \in Seq(Requests \X Nat) /\ phase' = "idle"
           /\ \A r \in Owners \ hurt' :
                  /\ r \notin hurt /\ HasState(r, computed[r])
                  /\ \A i \in Open : batch[i][1] # r
<1>1. EngineStepOK /\ EngineBank
  BY DEF EInv
<1>2. /\ batch' = << >> /\ phase' = "idle" /\ fresh' = << >> /\ todo' = {}
      /\ hurt' = hurt \cup InStep
  BY DEF EndRaised
<1>3. InStep = {batch[i][1] : i \in Open}
  BY DEF InStep, Open
<1>4. Open' = {} /\ Done' = {} /\ ToSet(fresh') = {}
  BY <1>2 DEF Open, Done, ToSet
<1>5. EngineStepOK'
  BY <1>2, <1>4 DEF EngineStepOK, IsInjective
<1>6. \A i \in Open : batch[i][1] \in hurt'
  BY <1>2, <1>3
<1>7. ASSUME NEW r \in Owners \ hurt'
      PROVE  /\ r \notin hurt /\ HasState(r, computed[r])
             /\ \A i \in Open : batch[i][1] # r
  <2>1. r \notin hurt /\ \A i \in Open : batch[i][1] # r
    BY <1>2, <1>6, <1>7
  <2>2. r \notin ToSet(fresh) /\ \A i \in Done : batch[i][1] # r
    BY <1>1, <2>1 DEF EngineStepOK, Done
  <2> QED BY <1>1, <1>7, <2>1, <2>2 DEF EngineBank
<1>8. batch' \in Seq(Requests \X Nat)
  BY <1>2
<1> QED BY <1>2, <1>4, <1>5, <1>6, <1>7, <1>8

LEMMA StepRaisesKeeps ==
    ASSUME EInv, StepRaises
    PROVE  EInv'
<1>1. /\ TypeOK /\ EngineQueues /\ EngineSlots /\ EngineTokens
      /\ EngineStepOK /\ EngineBank /\ EngineSaved /\ Owners \subseteq Requests
      /\ BankType
  BY Parts DEF EngineBank
<1>2. /\ EndRaised
      /\ UNCHANGED <<arenaVars, waiting, running, parked, park_on_finish, status,
                     parked_as, prompt, output, limit, computed, slots,
                     lane, tokens, saved, lost>>
  BY DEF StepRaises, queueVars, tokenVars
<1>3. /\ EngineStepOK' /\ Done' = {} /\ hurt \subseteq hurt'
      /\ batch' \in Seq(Requests \X Nat) /\ phase' = "idle"
      /\ \A r \in Owners \ hurt' :
             /\ r \notin hurt /\ HasState(r, computed[r])
             /\ \A i \in Open : batch[i][1] # r
  BY <1>2, RaisedSpares
<1>4. EngineQueues' /\ EngineSlots' /\ EngineTokens' /\ EngineSaved'
  BY <1>1, <1>2, <1>3, QueuesSame, SlotsSame, TokensSame, SavedSame
<1>5. TypeOK'
  BY <1>1, <1>2, <1>3 DEF TypeOK, ArenaTypeOK, arenaVars
<1>6. /\ BankType'
      /\ \A r \in Owners \ hurt' :
           \A f \in Families : bank'[f][slots[r][f]] = bank[f][slots[r][f]]
  <2>1. CASE UNCHANGED bank
    BY <1>1, <2>1 DEF BankType
  <2>2. ASSUME NEW i \in todo, NEW k \in 1 .. batch[i][2] - 1,
               FeedAll({<<batch[i][1], k>>})
        PROVE  /\ BankType'
               /\ \A r \in Owners \ hurt' :
                    \A f \in Families : bank'[f][slots[r][f]] = bank[f][slots[r][f]]
    <3> DEFINE q == batch[i][1]
               E == {<<q, k>>}
    <3>1. /\ i \in Open /\ i \in DOMAIN batch /\ q \in Owners
          /\ computed[q] + batch[i][2] <= Len(tokens[q])
      BY <1>1 DEF EngineStepOK, Open
    <3>2. batch[i][2] \in Nat /\ computed[q] \in Nat /\ Len(tokens[q]) \in Nat
      <4>1. batch[i][2] \in Nat
        BY <1>1, <3>1 DEF TypeOK
      <4>2. q \in Requests
        BY <1>1, <3>1
      <4> HIDE DEF q
      <4>3. computed[q] \in Nat /\ tokens[q] \in Seq(Requests)
        BY <1>1, <4>2 DEF TypeOK, EngineTokens
      <4> QED BY <4>1, <4>3
    <3>3. k \in Nat /\ computed[q] + k <= Len(tokens[q])
      BY <3>1, <3>2
    <3>4. FeedAll(E)
      BY <2>2
    <3> HIDE DEF q
    <3>5. /\ \A e \in E : /\ e[1] \in Owners /\ e[2] \in Nat
                          /\ computed[e[1]] + e[2] <= Len(tokens[e[1]])
          /\ \A d, e \in E : d[1] = e[1] => d = e
          /\ \A e \in E : e[1] = q
      BY <3>1, <3>3
    <3> HIDE DEF E
    <3>6. /\ BankType'
          /\ \A r \in Owners : (\A e \in E : e[1] # r) =>
               \A f \in Families : bank'[f][slots[r][f]] = bank[f][slots[r][f]]
      BY <1>1, <3>4, <3>5, FeedsTheirOwn
    <3>7. \A r \in Owners \ hurt' : q # r
      BY <1>3, <3>1 DEF q
    <3> QED BY <3>5, <3>6, <3>7
  <2> QED BY <2>1, <2>2 DEF StepRaises
<1>7. EngineBank'
  <2>1. Owners' = Owners
    BY <1>2 DEF Owners
  <2>2. ASSUME NEW r \in Owners' \ hurt' PROVE HasState(r, computed[r])'
    BY <1>2, <1>3, <1>6, <2>1 DEF HasState, Known
  <2> QED BY <1>3, <1>6, <2>2, BankStillIdle
<1> QED BY <1>3, <1>4, <1>5, <1>7 DEF EInv

LEMMA OnFinishRaisesKeeps ==
    ASSUME EInv, OnFinishRaises
    PROVE  EInv'
<1>1. /\ TypeOK /\ EngineQueues /\ EngineSlots /\ EngineTokens
      /\ EngineStepOK /\ EngineBank /\ EngineSaved /\ Owners \subseteq Requests
      /\ BankType
  BY Parts DEF EngineBank
<1>2. /\ phase # "idle" /\ fresh = << >> /\ todo = {} /\ EndRaised
      /\ UNCHANGED <<arenaVars, waiting, running, parked, park_on_finish,
                     parked_as, prompt, limit, slots, lane, bank, lost>>
  BY DEF OnFinishRaises, Executed, StepUnderWay, queueVars
<1>3. PICK i \in Open : NextEntry = batch[i]
  <2>1. \E i \in DOMAIN batch : IsNextEntry(i)
    <3>1. batch \in Seq(Requests \X Nat) /\ Open # {} /\ Open \subseteq DOMAIN batch
      BY <1>1, <1>2 DEF TypeOK, EngineStepOK, Open
    <3>2. DOMAIN batch = 1 .. Len(batch) /\ Len(batch) \in Nat
      BY <3>1
    <3>3. IsFiniteSet(Open) /\ Open \subseteq Int
      <4>1. IsFiniteSet(1 .. Len(batch))
        BY <3>2, FS_Interval
      <4>2. Open \in SUBSET (1 .. Len(batch))
        BY <3>1, <3>2
      <4>3. \A j \in 1 .. Len(batch) : j \in Int
        BY <3>2
      <4>4. IsFiniteSet(Open)
        BY <4>1, <4>2, FS_Subset
      <4> QED BY <4>2, <4>3, <4>4
    <3>4. PICK i \in Open : \A j \in Open : i <= j
      BY <3>1, <3>3, LeastExists
    <3>5. ASSUME NEW j \in 1 .. i - 1, IsScheduled(batch[j]) PROVE FALSE
      <4>1. j \in DOMAIN batch /\ ~ (i <= j)
        BY <3>1, <3>2
      <4> QED BY <3>4, <3>5, <4>1 DEF Open
    <3> QED BY <3>1, <3>4, <3>5 DEF IsNextEntry, Open
  <2> QED BY <1>1, <2>1, NextEntryIs DEF IsNextEntry, Open
<1> DEFINE r == batch[i][1]
           n == batch[i][2]
           q == tokens[r]
           c == computed[r] + n
<1>4. PICK stop \in BOOLEAN :
        /\ status[r] = "RUNNING" /\ Gap(r) = n
        /\ StatusAfterToken(r, stop) \in Finished
        /\ status' = [status EXCEPT ![r] = StatusAfterToken(r, stop)]
        /\ computed' = [computed EXCEPT ![r] = c]
        /\ output' = [output EXCEPT ![r] = output[r] + 1]
        /\ tokens' = Learned(r, Len(q) + 1)
        /\ saved' \in {saved, Append(saved, FinishRecord(r))}
  BY <1>3 DEF OnFinishRaises, InBatch
<1>5. /\ r \in Owners /\ r \in Requests /\ n \in Nat /\ q \in Seq(Requests)
      /\ computed[r] \in Nat /\ output[r] \in Nat /\ prompt[r] \in Nat
      /\ Len(q) = prompt[r] + output[r]
  <2>1. r \in Owners /\ r \in Requests
    BY <1>1 DEF EngineStepOK
  <2>2. n \in Nat
    BY <1>1 DEF TypeOK, Open
  <2> QED BY <1>1, <2>1, <2>2 DEF TypeOK, EngineTokens
<1>6. c = Len(q)
  BY <1>4, <1>5 DEF Gap, NumTokens
<1>7. /\ EngineStepOK' /\ Done' = {} /\ hurt \subseteq hurt'
      /\ \A j \in Open : batch[j][1] \in hurt'
      /\ batch' \in Seq(Requests \X Nat) /\ phase' = "idle"
      /\ \A x \in Owners \ hurt' :
             /\ x \notin hurt /\ HasState(x, computed[x])
             /\ \A j \in Open : batch[j][1] # x
  BY <1>2, RaisedSpares
<1>8. r \notin hurt => HasState(r, c)
  <2>1. ToSet(fresh) = {} /\ i \in Done
    BY <1>2 DEF ToSet, Done
  <2> QED BY <1>1, <1>5, <2>1 DEF EngineBank
<1> HIDE DEF r, n
<1>9. /\ status' \in [Requests -> Status] /\ status'[r] \in Finished
      /\ \A x \in Requests \ {r} : status'[x] = status[x]
  <2> DEFINE st == StatusAfterToken(r, stop)
  <2>1. st \in Finished /\ status' = [status EXCEPT ![r] = st]
    BY <1>4
  <2> HIDE DEF st
  <2> QED BY <1>1, <1>5, <2>1 DEF TypeOK, Status
<1>10. /\ tokens' \in [Requests -> Seq(Requests)] /\ tokens'[r] \in Seq(Requests)
       /\ \A x \in Requests \ {r} : tokens'[x] = tokens[x]
       /\ Len(tokens'[r]) = Len(q) + 1
       /\ SubSeq(tokens'[r], 1, c) = SubSeq(tokens[r], 1, c)
  <2>1. tokens' = [tokens EXCEPT ![r] = Append(q, r)]
    <3>1. tokens' = [tokens EXCEPT ![r] = IF Len(q) + 1 > Len(q) THEN Append(q, r) ELSE q]
      BY <1>4 DEF Learned
    <3>2. Len(q) + 1 > Len(q)
      BY <1>5
    <3> QED BY <3>1, <3>2
  <2>2. c \in 0 .. Len(q)
    BY <1>5, <1>6
  <2>3. /\ Append(q, r) \in Seq(Requests) /\ Len(Append(q, r)) = Len(q) + 1
        /\ SubSeq(Append(q, r), 1, c) = SubSeq(q, 1, c)
    <3> HIDE DEF q, c
    <3> QED BY <1>5, <2>2, PrefixOfAppend
  <2>4. tokens \in [Requests -> Seq(Requests)]
    BY <1>1 DEF EngineTokens
  <2> DEFINE u == Append(q, r)
  <2>5. u \in Seq(Requests) /\ tokens' = [tokens EXCEPT ![r] = u]
    BY <2>1, <2>3
  <2> HIDE DEF u
  <2>6. /\ tokens' \in [Requests -> Seq(Requests)] /\ tokens'[r] = u
        /\ \A x \in Requests \ {r} : tokens'[x] = tokens[x]
    BY <1>5, <2>4, <2>5
  <2> QED BY <2>3, <2>5, <2>6 DEF u
<1>11. /\ computed' \in [Requests -> Nat] /\ output' \in [Requests -> Nat]
       /\ computed'[r] = c /\ output'[r] = output[r] + 1
       /\ \A x \in Requests \ {r} : computed'[x] = computed[x] /\ output'[x] = output[x]
  <2>1. c \in Nat
    BY <1>5
  <2> HIDE DEF c
  <2> QED BY <1>1, <1>4, <1>5, <2>1 DEF TypeOK
<1> HIDE DEF q
<1>12. TypeOK'
  BY <1>1, <1>2, <1>7, <1>9, <1>11 DEF TypeOK, ArenaTypeOK, arenaVars
<1>13. Owners' = Owners /\ r \in hurt'
  BY <1>2, <1>7 DEF Owners, r
<1>14. EngineQueues'
  <2>1. ToSet(waiting') = {x \in Requests : status'[x] = "WAITING"}
    BY <1>1, <1>2, <1>4, <1>5, <1>9 DEF EngineQueues, Finished
  <2>2. \A x \in Requests : /\ status'[x] = "RUNNING" => x \in Owners'
                            /\ status'[x] # "PARKED"
    BY <1>1, <1>4, <1>9, <1>13 DEF EngineQueues, Finished
  <2>3. \A x \in Owners' :
          status'[x] = "RUNNING" \/ (status'[x] \in Finished /\ x \in hurt')
    BY <1>1, <1>7, <1>9, <1>13 DEF EngineQueues
  <2> QED BY <1>1, <1>2, <2>1, <2>2, <2>3 DEF EngineQueues
<1>15. EngineSlots'
  BY <1>1, <1>2, SlotsSame
<1>16. EngineTokens'
  <2>1. c < Len(tokens'[r]) /\ Len(tokens'[r]) = prompt'[r] + output'[r]
    <3>1. Len(q) \in Nat /\ c = Len(q) /\ Len(tokens'[r]) = Len(q) + 1
      BY <1>5, <1>6, <1>10
    <3>2. prompt'[r] = prompt[r] /\ output'[r] = output[r] + 1
      BY <1>2, <1>11
    <3>3. Len(q) = prompt[r] + output[r] /\ prompt[r] \in Nat /\ output[r] \in Nat
      BY <1>5
    <3> HIDE DEF c
    <3> QED BY <3>1, <3>2, <3>3
  <2>2. status'[r] \notin {"NEW", "WAITING"}
    BY <1>9 DEF Finished
  <2> QED BY <1>1, <1>2, <1>9, <1>10, <1>11, <1>13, <2>1, <2>2 DEF EngineTokens
<1>17. EngineSaved'
  <2>1. c < Len(tokens'[r]) /\ c \in Nat
    BY <1>5, <1>6, <1>10
  <2> HIDE DEF c
  <2> QED BY <1>1, <1>4, <1>5, <1>8, <1>10, <1>11, <2>1, FinishSaved
<1>18. EngineBank'
  <2>1. BankType'
    BY <1>1, <1>2 DEF BankType
  <2>2. ASSUME NEW x \in Owners' \ hurt' PROVE HasState(x, computed[x])'
    <3>1. x \in Owners /\ x # r /\ x \in Requests /\ HasState(x, computed[x])
      BY <1>1, <1>7, <1>13, <2>2
    <3>2. computed'[x] = computed[x] /\ tokens'[x] = tokens[x]
      BY <1>10, <1>11, <3>1
    <3> QED BY <1>2, <3>1, <3>2 DEF HasState, Known
  <2> QED BY <1>7, <2>1, <2>2, BankStillIdle
<1> QED BY <1>7, <1>12, <1>14, <1>15, <1>16, <1>17, <1>18 DEF EInv
-----------------------------------------------------------------------------
(***************************************************************************)
(* All of it together.                                                     *)
(***************************************************************************)

LEMMA EngineStarts ==
    ASSUME EngineInit
    PROVE  EInv
<1>1. /\ Init /\ tokens = [r \in Requests |-> << >>]
      /\ bank = [f \in Families |-> [s \in Slot |-> Zero]]
      /\ fresh = << >> /\ todo = {} /\ saved = << >> /\ hurt = {} /\ lost = 0
  BY DEF EngineInit
<1>2. ArenaTypeOK /\ ArenaPartition
  BY <1>1, ArenaStartsPartitioned DEF Init
<1>3. TypeOK
  BY <1>1, <1>2 DEF Init, TypeOK, Status, Lane
<1>4. Owners = {} /\ Open = {} /\ Done = {} /\ ToSet(waiting) = {}
  BY <1>1 DEF Init, Owners, Open, Done, ToSet
<1>5. EngineQueues
  BY <1>1, <1>4 DEF Init, EngineQueues, IsInjective
<1>6. EngineSlots
  <2>1. \A f \in Families : Len(free[f]) = NumSlots
    BY <1>1, ArenaAssumption DEF Init, ArenaInit, Slot
  <2>2. Len(running) = 0 /\ NumSlots \in Nat
    BY <1>1, ArenaAssumption DEF Init
  <2>3. \A r \in Requests : slots[r] = NoSlots
    BY <1>1 DEF Init
  <2> QED BY <1>1, <1>2, <1>4, <2>1, <2>2, <2>3 DEF EngineSlots
<1>7. EngineTokens
  <2>1. << >> \in Seq(Requests) /\ Len(<< >>) = 0
    OBVIOUS
  <2> QED BY <1>1, <1>4, <2>1 DEF Init, EngineTokens
<1>8. EngineStepOK
  BY <1>1, <1>4 DEF Init, EngineStepOK, IsInjective, ToSet
<1>9. EngineBank
  <2>1. Zero \in Value
    BY DEF Zero, Value
  <2> QED BY <1>1, <1>4, <2>1 DEF EngineBank, BankType
<1>10. EngineSaved
  <2>1. saved \in Seq(SnapshotType) /\ DOMAIN saved = {}
    BY <1>1
  <2> QED BY <2>1 DEF EngineSaved, SnapshotsAreExact
<1> QED BY <1>3, <1>5, <1>6, <1>7, <1>8, <1>9, <1>10 DEF EInv

\* What is armed, who is served and how much has raised is not in the
\* invariant.
LEMMA NothingKeeps ==
    ASSUME EInv, UNCHANGED <<vars, tokens, bank, fresh, todo, saved, hurt, lost>>
    PROVE  EInv'
<1>1. TypeOK' /\ EngineQueues' /\ EngineSlots' /\ EngineTokens' /\ EngineSaved'
  BY Parts, TypeSame, QueuesSame, SlotsSame, TokensSame, SavedSame
  DEF vars, arenaVars
<1>2. Open' = Open /\ Done' = Done /\ Owners' = Owners
  BY DEF Open, Done, Owners, vars
<1>3. EngineStepOK'
  BY <1>2, Parts DEF EngineStepOK, vars
<1>4. EngineBank'
  BY <1>2, Parts DEF EngineBank, BankType, HasState, Known, vars
<1> QED BY <1>1, <1>3, <1>4 DEF EInv

LEMMA EngineNextKeeps ==
    ASSUME EInv, [EngineNext]_allVars
    PROVE  EInv'
<1>1. ASSUME NEW r \in Requests, NEW p \in PromptLens, NEW m \in OutputLimits,
             NEW save \in BOOLEAN, EngineAdd(r, p, m, save)
      PROVE  EInv'
  BY <1>1, EngineAddKeeps
<1>2. ASSUME NEW r \in Requests, EngineAbort(r) \/ SnapshotRequest(r) \/ Hibernate(r)
      PROVE  EInv'
  BY <1>2, EngineAbortKeeps, SnapshotRequestKeeps, HibernateKeeps
<1>3. ASSUME NEW r \in Requests, NEW h \in DOMAIN saved, NEW t \in SuffixLens \cup {0},
             NEW m \in OutputLimits, NEW save \in BOOLEAN, Submit(r, h, t, m, save)
      PROVE  EInv'
  BY <1>3, SubmitKeeps
<1>4. CASE SubmitRefused \/ \E h \in DOMAIN saved : SubmitLost(h)
  BY <1>4, SubmitRefusedKeeps, SubmitLostKeeps
<1>5. ASSUME NEW r \in Requests, RunRequest(r)
      PROVE  EInv'
  BY <1>5, NothingKeeps DEF RunRequest
<1>6. CASE Call
  BY <1>1, <1>2, <1>3, <1>4, <1>5, <1>6 DEF Call
<1>7. CASE EngineStep
  BY <1>7, StartStepKeeps, ZeroSlotsKeeps, PrefillKeeps, DecodeStepKeeps, UpdateKeeps
  DEF EngineStep
<1>8. CASE Raise
  BY <1>8, StepRaisesKeeps, OnFinishRaisesKeeps DEF Raise
<1>9. CASE UNCHANGED allVars
  <2>1. UNCHANGED <<vars, tokens, bank, fresh, todo, saved, hurt, lost>>
    BY <1>9 DEF allVars, engineVars
  <2> QED BY <2>1, NothingKeeps
<1> QED BY <1>6, <1>7, <1>8, <1>9 DEF EngineNext

\* What is counted by lengths is counted by owners.
LEMMA SlotsCounted ==
    ASSUME EInv
    PROVE  SlotsAreAccountedFor
<1>1. TypeOK /\ EngineQueues /\ EngineSlots /\ Owners \subseteq Requests
  BY Parts
<1>2. {r \in Requests : slots[r] # NoSlots} = Owners
  BY <1>1, OwnersHaveSlots
<1>3. \A f \in Families : Cardinality(allocated[f]) = Cardinality(Owners) + lost
  <2> TAKE f \in Families
  <2> DEFINE F == ToSet(free[f])
  <2>1. /\ free[f] \in Seq(Slot) /\ IsInjective(free[f])
        /\ F \cap allocated[f] = {} /\ F \cup allocated[f] = Slot
        /\ running \in Seq(Requests) /\ IsInjective(running) /\ lost \in Nat
        /\ Len(free[f]) + Len(running) + lost = NumSlots
    BY <1>1 DEF TypeOK, ArenaTypeOK, EngineSlots, ArenaPartition, EngineQueues
  <2>2. Cardinality(Owners) = Len(running) /\ Len(running) \in Nat
    BY <2>1, MembersCounted DEF Owners
  <2>3. Cardinality(F) = Len(free[f]) /\ Len(free[f]) \in Nat
    BY <2>1, MembersCounted
  <2>4. IsFiniteSet(Slot) /\ Cardinality(Slot) = NumSlots
    <3>1. /\ NumSlots \in Int /\ 1 \in Int
          /\ (IF 1 > NumSlots THEN 0 ELSE NumSlots - 1 + 1) = NumSlots
      BY ArenaAssumption
    <3> QED BY <3>1, FS_Interval DEF Slot
  <2> HIDE DEF F
  <2>5. allocated[f] = Slot \ F /\ Slot \cap F = F
    BY <2>1
  <2>6. Cardinality(Slot \ F) = Cardinality(Slot) - Cardinality(Slot \cap F)
    BY <2>4, FS_Difference
  <2>7. Cardinality(allocated[f]) = NumSlots - Len(free[f])
    BY <2>3, <2>4, <2>5, <2>6
  <2>8. NumSlots - Len(free[f]) = Len(running) + lost
    BY <2>1, <2>2, <2>3
  <2> QED BY <2>2, <2>7, <2>8
<1>4. Stranded \subseteq hurt
  BY <1>1 DEF Stranded, EngineQueues, Owners, Finished
<1> QED BY <1>1, <1>2, <1>3, <1>4 DEF SlotsAreAccountedFor, EngineSlots, Owners

LEMMA EngineInductive == EngineSpec => []EInv
  BY EngineStarts, EngineNextKeeps, PTL DEF EngineSpec

-----------------------------------------------------------------------------
(***************************************************************************)
(* The theorems.                                                           *)
(***************************************************************************)

\* Whatever call or step raises, the scheduler's queues, counts and slots keep
\* their types; that they agree with the statuses is no longer so.
THEOREM EngineTypes == EngineSpec => []TypeOK
  BY EngineInductive, PTL DEF EInv

\* No slot has two owners, exactly those in the batch own slots, and the ones
\* nobody can free any more are those a submit lost and those of requests an
\* on_finish that raised left behind (wkvm/engine.py).
THEOREM SlotsAccounted == EngineSpec => []SlotsAreAccountedFor
  BY EngineInductive, SlotsCounted, PTL

\* A snapshot is the state of the tokens it says, through slots that go from
\* one request to the next, prefills and decodes in any mix, resumes of
\* resumes, and everything that raises on the way (wkvm/engine.py).
THEOREM SnapshotsExact == EngineSpec => []SnapshotsAreExact
  BY EngineInductive, PTL DEF EInv, EngineSaved
=============================================================================
