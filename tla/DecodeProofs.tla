---------------------------- MODULE DecodeProofs ----------------------------
(***************************************************************************)
(* Theorems about DecodeGroups, for any requests, options, prompts and     *)
(* tail sizes: what a forward reads, how groups share the requests, and    *)
(* that merging, keeping and flushing groups is invisible to a request.    *)
(*                                                                         *)
(* The argument.  A request has its history in one place: in no group, in  *)
(* one exact group or in one padded group.  Flushes move it and keep its   *)
(* length, forwards make it longer by what they compute, and while a step  *)
(* is executed every group that a planned batch touches is the group of    *)
(* that batch.  What was computed and not credited yet is known from how   *)
(* far the step is.                                                        *)
(***************************************************************************)
EXTENDS DecodeGroups, ListLemmas

-----------------------------------------------------------------------------
(***************************************************************************)
(* Least and greatest numbers of finite sets.                              *)
(***************************************************************************)

\* Min and Max of a finite set are what they are called.
LEMMA MinIsLeast ==
    ASSUME NEW S, IsFiniteSet(S), S \subseteq Int, S # {}
    PROVE  Min(S) \in S /\ \A y \in S : Min(S) <= y
  BY LeastExists DEF Min

LEMMA MaxIsGreatest ==
    ASSUME NEW S, IsFiniteSet(S), S \subseteq Int, S # {}
    PROVE  Max(S) \in S /\ \A y \in S : Max(S) >= y
<1> DEFINE neg == [x \in S |-> -x]
           T == {-x : x \in S}
<1>1. neg \in Surjection(S, T)
  BY DEF Surjection
<1>2. IsFiniteSet(T)
  <2> HIDE DEF T, neg
  <2> QED BY <1>1, FS_Surjection
<1>3. T \subseteq Int /\ T # {}
  OBVIOUS
<1>4. PICK m \in T : \A y \in T : m <= y
  <2> HIDE DEF T
  <2> QED BY <1>2, <1>3, LeastExists
<1>5. -m \in S /\ \A y \in S : -m >= y
  BY <1>4
<1> QED BY <1>5 DEF Max

-----------------------------------------------------------------------------
(***************************************************************************)
(* The inductive invariant.                                                *)
(***************************************************************************)

CacheRecord == [held : Nat, routed : Nat]

\* Held, for given groups and caches.
HeldIn(E, P, c, r) ==
    IF \E g \in E : r \in Members(g)
    THEN (CHOOSE g \in E : r \in Members(g)).rows.held
    ELSE IF \E g \in P : r \in Members(g)
    THEN c[r].held + (CHOOSE g \in P : r \in Members(g)).added
    ELSE c[r].held

\* No request is in two of the groups.
Apart(E, P) ==
    /\ \A g, h \in E : g # h => Members(g) \cap Members(h) = {}
    /\ \A g, h \in P : g # h => Members(g) \cap Members(h) = {}
    /\ \A g \in E, h \in P : Members(g) \cap Members(h) = {}

Avoids(G, S) == \A g \in G : Members(g) \cap S = {}

\* The caches and the groups, whatever the step is at.
CacheTypes ==
    /\ cache \in [Requests -> CacheRecord]
    /\ \A g \in exact : g \in [key : Keys, rows : CacheRecord]
    /\ \A g \in padded :
          g \in [key : Keys, base : [Members(g) -> Nat], added : Nat, room : Nat]

\* A padded group began with the rows its requests still have, and can be
\* written back without a fold.
PaddedIsCopy(g, c) ==
    \A r \in Members(g) :
        /\ g.base[r] = c[r].held
        /\ Pending([c[r] EXCEPT !.held = @ + g.added + g.room]) < Chunk

CachesOK ==
    /\ CacheTypes
    /\ Apart(exact, padded)
    /\ \A g \in padded : PaddedIsCopy(g, cache)

MembersDecode == \A g \in exact \cup padded : Members(g) \subseteq Decoding

\* The requests and the step.
RequestsOK ==
    /\ status \in [Requests -> {"new", "running", "parked", "ended"}]
    /\ prompt \in [Requests -> Nat] /\ computed \in [Requests -> Nat]
    /\ \A r \in Requests : status[r] = "new" => computed[r] = 0

ScheduleOK ==
    /\ pc \in {"idle", "execute", "mixed", "decode", "finish"}
    /\ pc = "idle" <=> DOMAIN scheduled = {}
    /\ DOMAIN scheduled \subseteq Decoding \cup Filling
    /\ \A r \in DOMAIN scheduled : scheduled[r] \in Nat \ {0}
    /\ \A r \in ToDecode : scheduled[r] = 1

\* The batches that are still to be decoded.
TodoOK ==
    /\ todo \in Seq(Keys)
    /\ pc # "decode" => todo = << >>
    /\ \A i \in DOMAIN todo : Range(todo[i]) \subseteq ToDecode
    /\ \A i, j \in DOMAIN todo : i # j => Range(todo[i]) \cap Range(todo[j]) = {}

\* A mixed call has no groups to think of, and a group that a planned batch
\* touches is the group of that batch.
GroupsFitPlan ==
    /\ pc = "mixed" => Avoids(exact \cup padded, DOMAIN scheduled)
    /\ pc = "decode" =>
         \A g \in exact \cup padded :
             /\ Members(g) \cap DOMAIN scheduled # {} => Members(g) \subseteq DOMAIN scheduled
             /\ \A i \in DOMAIN todo : Members(g) \cap Range(todo[i]) # {} => g.key = todo[i]

\* What was computed in this step and is not credited yet.
ToDo == UNION {Range(todo[i]) : i \in DOMAIN todo}

Ahead(r) ==
    IF r \in DOMAIN scheduled /\ (pc = "finish" \/ (pc = "decode" /\ r \in Decoding \ ToDo))
    THEN scheduled[r] ELSE 0

HistoryIsDue == \A r \in Requests : Held(r) = computed[r] + Ahead(r)

StepOK == ScheduleOK /\ TodoOK /\ GroupsFitPlan

DInv ==
    /\ RequestsOK /\ CachesOK /\ MembersDecode
    /\ StepOK
    /\ HistoryIsDue /\ ReadsWholeHistory

-----------------------------------------------------------------------------
(***************************************************************************)
(* Where a history is.                                                     *)
(***************************************************************************)

\* A batch has rows, and they are requests.
LEMMA KeyRows ==
    ASSUME NEW k \in Keys
    PROVE  /\ Range(k) \subseteq Requests /\ Range(k) # {} /\ IsFiniteSet(Range(k))
           /\ k[1] \in Range(k)
<1>1. PICK n \in 1 .. Cardinality(Requests) : k \in [1 .. n -> Requests]
  BY DEF Keys
<1>2. n >= 1 /\ 1 \in DOMAIN k
  BY <1>1
<1>3. Range(k) \subseteq Requests /\ k[1] \in Range(k)
  BY <1>1, <1>2 DEF Range
<1> QED BY <1>3, FS_Subset, DecodeAssumption

LEMMA GroupsHaveMembers ==
    ASSUME CacheTypes, NEW g \in exact \cup padded
    PROVE  Members(g) \subseteq Requests /\ Members(g) # {}
<1>1. g.key \in Keys
  BY DEF CacheTypes
<1> QED BY <1>1, KeyRows DEF Members

\* A member of an exact group has its history there.
LEMMA HeldInExact ==
    ASSUME NEW E, NEW P, NEW c, NEW r, Apart(E, P), NEW g \in E, r \in Members(g)
    PROVE  HeldIn(E, P, c, r) = g.rows.held
<1> DEFINE h == CHOOSE h \in E : r \in Members(h)
<1>1. h \in E /\ r \in Members(h)
  OBVIOUS
<1>2. h = g
  BY <1>1 DEF Apart
<1> HIDE DEF h
<1>3. HeldIn(E, P, c, r) = h.rows.held
  BY DEF HeldIn, h
<1> QED BY <1>2, <1>3

\* A member of a padded group has the tokens it began with in its own cache.
LEMMA HeldInPadded ==
    ASSUME NEW E, NEW P, NEW c, NEW r, Apart(E, P), NEW g \in P, r \in Members(g)
    PROVE  HeldIn(E, P, c, r) = c[r].held + g.added
<1> DEFINE h == CHOOSE h \in P : r \in Members(h)
<1>1. h \in P /\ r \in Members(h)
  OBVIOUS
<1>2. h = g
  BY <1>1 DEF Apart
<1>3. ~\E e \in E : r \in Members(e)
  BY DEF Apart
<1>4. HeldIn(E, P, c, r) = c[r].held + h.added
  BY <1>1, <1>3 DEF HeldIn
<1> HIDE DEF h
<1> QED BY <1>2, <1>4

LEMMA HeldInOwn ==
    ASSUME NEW E, NEW P, NEW c, NEW r, \A g \in E \cup P : r \notin Members(g)
    PROVE  HeldIn(E, P, c, r) = c[r].held
  BY DEF HeldIn

LEMMA HeldHere == \A r : Held(r) = HeldIn(exact, padded, cache, r)
  BY DEF Held, HeldIn

LEMMA HeldNext == \A r : Held(r)' = HeldIn(exact', padded', cache', r)
  BY DEF Held, HeldIn

\* A request notices nothing while its cache and its groups stay.
LEMMA SameHeld ==
    ASSUME Apart(exact, padded), Apart(exact', padded'), NEW r, cache'[r] = cache[r],
           \A g \in exact \cup exact' : r \in Members(g) => g \in exact \cap exact',
           \A g \in padded \cup padded' : r \in Members(g) => g \in padded \cap padded'
    PROVE  Held(r)' = Held(r)
<1>1. CASE \E g \in exact : r \in Members(g)
  <2>1. PICK g \in exact : r \in Members(g)
    BY <1>1
  <2>2. Held(r) = g.rows.held
    BY <2>1, HeldHere, HeldInExact
  <2>3. HeldIn(exact', padded', cache', r) = g.rows.held
    BY <2>1, HeldInExact
  <2> QED BY <2>2, <2>3, HeldNext, Zenon
<1>2. CASE \E g \in padded : r \in Members(g)
  <2>1. PICK g \in padded : r \in Members(g)
    BY <1>2
  <2>2. Held(r) = cache[r].held + g.added
    BY <2>1, HeldHere, HeldInPadded
  <2>3. HeldIn(exact', padded', cache', r) = cache'[r].held + g.added
    BY <2>1, HeldInPadded
  <2> QED BY <2>2, <2>3, HeldNext, Zenon
<1>3. CASE \A g \in exact \cup padded : r \notin Members(g)
  <2>1. \A g \in exact' \cup padded' : r \notin Members(g)
    BY <1>3
  <2>2. Held(r) = cache[r].held
    BY <1>3, HeldHere, HeldInOwn
  <2>3. HeldIn(exact', padded', cache', r) = cache'[r].held
    BY <2>1, HeldInOwn
  <2> QED BY <2>2, <2>3, HeldNext, Zenon
<1> QED BY <1>1, <1>2, <1>3

LEMMA ApartSubset ==
    ASSUME NEW E, NEW P, Apart(E, P), NEW F \in SUBSET E, NEW Q \in SUBSET P
    PROVE  Apart(F, Q)
  BY DEF Apart

-----------------------------------------------------------------------------
(***************************************************************************)
(* Flushing and dropping groups.                                           *)
(***************************************************************************)

\* What a flush gives to the members of its exact groups,
LEMMA FlushedExact ==
    ASSUME CachesOK, NEW E \in SUBSET exact, NEW P \in SUBSET padded, NEW r \in Requests,
           NEW g \in E, r \in Members(g)
    PROVE  Flushed(E, P)[r] = g.rows
<1>1. Apart(E, P)
  BY ApartSubset DEF CachesOK
<1> DEFINE h == CHOOSE h \in E : r \in Members(h)
<1>2. h \in E /\ r \in Members(h)
  OBVIOUS
<1>3. h = g
  BY <1>1, <1>2 DEF Apart
<1>4. ~\E e \in P : r \in Members(e)
  BY <1>1 DEF Apart
<1>5. Flushed(E, P)[r] = h.rows
  BY <1>4 DEF Flushed
<1> HIDE DEF h
<1> QED BY <1>3, <1>5

\* to those of its padded groups,
LEMMA FlushedPadded ==
    ASSUME CachesOK, NEW E \in SUBSET exact, NEW P \in SUBSET padded, NEW r \in Requests,
           NEW g \in P, r \in Members(g)
    PROVE  /\ Flushed(E, P)[r] \in CacheRecord
           /\ Flushed(E, P)[r].held = cache[r].held + g.added
<1>1. Apart(E, P)
  BY ApartSubset DEF CachesOK
<1> DEFINE h == CHOOSE h \in P : r \in Members(h)
<1>2. h \in P /\ r \in Members(h)
  OBVIOUS
<1>3. h = g
  BY <1>1, <1>2 DEF Apart
<1>4. ~\E e \in E : r \in Members(e)
  BY <1>1 DEF Apart
<1>5. Flushed(E, P)[r] = [cache[r] EXCEPT !.held = @ + h.added]
  BY <1>4 DEF Flushed
<1> HIDE DEF h
<1>6. g.added \in Nat /\ cache[r] \in CacheRecord
  BY DEF CachesOK, CacheTypes
<1>7. Flushed(E, P)[r] = [cache[r] EXCEPT !.held = @ + g.added]
  BY <1>3, <1>5
<1> QED BY <1>6, <1>7 DEF CacheRecord

\* and to nobody else.
LEMMA FlushedOther ==
    ASSUME NEW E, NEW P, NEW r \in Requests, \A g \in E \cup P : r \notin Members(g)
    PROVE  Flushed(E, P)[r] = cache[r]
  BY DEF Flushed

\* The groups of E and P are flushed, then the caches of D are given up.  The
\* groups that stay have nothing to do with D, and no other request notices.
LEMMA FlushKeeps ==
    ASSUME CachesOK,
           NEW E \in SUBSET exact, NEW P \in SUBSET padded, NEW D \in SUBSET Requests,
           Avoids((exact \ E) \cup (padded \ P), D),
           cache' = [r \in Requests |-> IF r \in D THEN None ELSE Flushed(E, P)[r]],
           exact' = exact \ E, padded' = padded \ P
    PROVE  /\ CachesOK'
           /\ \A r \in Requests : Held(r)' = IF r \in D THEN 0 ELSE Held(r)
<1>1. CacheTypes /\ Apart(exact, padded)
  BY DEF CachesOK
<1>2. Apart(exact', padded')
  BY <1>1, ApartSubset
<1>3. ASSUME NEW r \in Requests
      PROVE  /\ cache'[r] \in CacheRecord
             /\ Held(r)' = IF r \in D THEN 0 ELSE Held(r)
             /\ \A g \in padded' : r \in Members(g) => cache'[r] = cache[r]
  <2>1. None \in CacheRecord /\ None.held = 0 /\ cache[r] \in CacheRecord
    BY <1>1 DEF None, CacheRecord, CacheTypes
  <2>2. CASE r \in D
    <3>1. cache'[r] = None /\ \A g \in exact' \cup padded' : r \notin Members(g)
      BY <2>2 DEF Avoids
    <3>2. Held(r)' = 0
      BY <2>1, <3>1, HeldNext, HeldInOwn
    <3> QED BY <2>1, <2>2, <3>1, <3>2
  <2>3. CASE r \notin D
    <3>1. cache'[r] = Flushed(E, P)[r]
      BY <2>3
    <3>2. ASSUME NEW g \in E, r \in Members(g)
          PROVE  /\ cache'[r] \in CacheRecord /\ Held(r)' = Held(r)
                 /\ \A h \in padded' : r \notin Members(h)
      <4>1. cache'[r] = g.rows /\ g.rows \in CacheRecord
        <5>1. Flushed(E, P)[r] = g.rows
          BY <3>2, FlushedExact
        <5>2. g \in [key : Keys, rows : CacheRecord]
          BY <1>1 DEF CacheTypes
        <5> QED BY <3>1, <5>1, <5>2
      <4>2. \A h \in exact' \cup padded' : r \notin Members(h)
        BY <1>1, <3>2 DEF Apart
      <4>3. Held(r)' = g.rows.held
        BY <4>1, <4>2, HeldNext, HeldInOwn
      <4>4. Held(r) = g.rows.held
        BY <1>1, <3>2, HeldHere, HeldInExact
      <4> QED BY <4>1, <4>2, <4>3, <4>4
    <3>3. ASSUME NEW g \in P, r \in Members(g)
          PROVE  /\ cache'[r] \in CacheRecord /\ Held(r)' = Held(r)
                 /\ \A h \in padded' : r \notin Members(h)
      <4>1. /\ Flushed(E, P)[r] \in CacheRecord
            /\ Flushed(E, P)[r].held = cache[r].held + g.added
        BY <3>3, FlushedPadded
      <4>2. cache'[r] \in CacheRecord /\ cache'[r].held = cache[r].held + g.added
        BY <3>1, <4>1
      <4>3. \A h \in exact' \cup padded' : r \notin Members(h)
        BY <1>1, <3>3 DEF Apart
      <4>4. Held(r)' = cache'[r].held
        BY <4>3, HeldNext, HeldInOwn
      <4>5. Held(r) = cache[r].held + g.added
        BY <1>1, <3>3, HeldHere, HeldInPadded
      <4> QED BY <4>2, <4>3, <4>4, <4>5
    <3>4. ASSUME \A g \in E \cup P : r \notin Members(g)
          PROVE  cache'[r] = cache[r] /\ Held(r)' = Held(r)
      <4>1. cache'[r] = cache[r]
        BY <3>1, <3>4, FlushedOther
      <4> QED BY <1>1, <1>2, <3>4, <4>1, SameHeld
    <3> QED BY <2>1, <2>3, <3>2, <3>3, <3>4
  <2> QED BY <2>2, <2>3
<1>4. CacheTypes'
  <2>1. cache' \in [Requests -> CacheRecord]
    BY <1>3
  <2> QED BY <1>1, <2>1 DEF CacheTypes, Members
<1>5. \A g \in padded' : PaddedIsCopy(g, cache')
  <2> TAKE g \in padded'
  <2>1. PaddedIsCopy(g, cache) /\ Members(g) \subseteq Requests
    BY <1>1, GroupsHaveMembers DEF CachesOK
  <2>2. \A r \in Members(g) : cache'[r] = cache[r]
    BY <1>3, <2>1
  <2> QED BY <2>1, <2>2 DEF PaddedIsCopy
<1>6. CachesOK'
  BY <1>2, <1>4, <1>5 DEF CachesOK, Apart, Members, PaddedIsCopy
<1> QED BY <1>3, <1>6

\* The requests of D fail: their groups, which have no other members, are
\* dropped as they are.
LEMMA DropKeeps ==
    ASSUME CachesOK, NEW D \in SUBSET Requests,
           exact' \subseteq exact, padded' \subseteq padded,
           cache' = [r \in Requests |-> IF r \in D THEN None ELSE cache[r]],
           Avoids(exact' \cup padded', D),
           \A g \in (exact \ exact') \cup (padded \ padded') : Members(g) \subseteq D
    PROVE  /\ CachesOK'
           /\ \A r \in Requests : Held(r)' = IF r \in D THEN 0 ELSE Held(r)
<1>1. CacheTypes /\ Apart(exact, padded) /\ Apart(exact', padded')
  BY ApartSubset DEF CachesOK
<1>2. None \in CacheRecord /\ None.held = 0
  BY DEF None, CacheRecord
<1>3. ASSUME NEW r \in Requests PROVE Held(r)' = IF r \in D THEN 0 ELSE Held(r)
  <2>1. CASE r \in D
    <3>1. \A g \in exact' \cup padded' : r \notin Members(g)
      BY <2>1 DEF Avoids
    <3>2. HeldIn(exact', padded', cache', r) = cache'[r].held
      BY <3>1, HeldInOwn
    <3>3. cache'[r].held = 0
      BY <1>2, <2>1
    <3>4. Held(r)' = 0
      BY <3>2, <3>3, HeldNext, Zenon
    <3> QED BY <2>1, <3>4
  <2>2. CASE r \notin D
    <3>1. cache'[r] = cache[r]
      BY <2>2
    <3>2. /\ \A g \in exact \cup exact' : r \in Members(g) => g \in exact \cap exact'
          /\ \A g \in padded \cup padded' : r \in Members(g) => g \in padded \cap padded'
      BY <2>2
    <3>3. Held(r)' = Held(r)
      BY <1>1, <3>1, <3>2, SameHeld
    <3> QED BY <2>2, <3>3
  <2> QED BY <2>1, <2>2
<1>4. CacheTypes'
  <2>1. cache' \in [Requests -> CacheRecord]
    BY <1>1, <1>2 DEF CacheTypes
  <2> QED BY <1>1, <2>1 DEF CacheTypes, Members
<1>5. \A g \in padded' : PaddedIsCopy(g, cache')
  <2> TAKE g \in padded'
  <2>1. PaddedIsCopy(g, cache) /\ Members(g) \subseteq Requests
    BY <1>1, GroupsHaveMembers DEF CachesOK
  <2>2. \A r \in Members(g) : cache'[r] = cache[r]
    BY <2>1 DEF Avoids
  <2> QED BY <2>1, <2>2 DEF PaddedIsCopy
<1>6. CachesOK'
  BY <1>1, <1>4, <1>5 DEF CachesOK, Apart, Members, PaddedIsCopy
<1> QED BY <1>3, <1>6

-----------------------------------------------------------------------------
(***************************************************************************)
(* Forwards.                                                               *)
(***************************************************************************)

\* However many tokens of the tail are routed, the history grows by n.
LEMMA ExtendedHolds ==
    ASSUME NEW c \in CacheRecord, NEW n \in Nat, NEW d \in Extended(c, n)
    PROVE  d \in CacheRecord /\ d.held = c.held + n
<1> DEFINE longer == [c EXCEPT !.held = @ + n]
<1>1. longer \in CacheRecord /\ longer.held = c.held + n
  BY DEF CacheRecord
<1> HIDE DEF longer
<1>2. d = longer \/ \E q \in c.routed + 1 .. longer.held - Keep : d = [longer EXCEPT !.routed = q]
  BY DEF Extended, longer
<1>3. Keep \in Nat /\ c.routed \in Nat
  BY DecodeAssumption DEF CacheRecord
<1> QED BY <1>1, <1>2, <1>3 DEF CacheRecord

\* A forward over the requests' own caches.
LEMMA ForwardOwnHolds ==
    ASSUME CachesOK, NEW n, DOMAIN n \subseteq Requests, \A r \in DOMAIN n : n[r] \in Nat,
           Avoids(exact \cup padded, DOMAIN n),
           ForwardOwn(n), UNCHANGED <<exact, padded>>
    PROVE  /\ CachesOK'
           /\ \A r \in DOMAIN n : read'[r] = Held(r) /\ Held(r)' = Held(r) + n[r]
           /\ \A r \in Requests \ DOMAIN n : Held(r)' = Held(r)
<1>1. CacheTypes /\ Apart(exact, padded) /\ Apart(exact', padded')
  BY DEF CachesOK
<1>2. \A r \in Requests :
        /\ r \in DOMAIN n => cache'[r] \in Extended(cache[r], n[r])
        /\ r \notin DOMAIN n => cache'[r] = cache[r]
  BY DEF ForwardOwn, AllExtended
<1>3. ASSUME NEW r \in DOMAIN n
      PROVE  /\ cache'[r] \in CacheRecord
             /\ read'[r] = Held(r) /\ Held(r)' = Held(r) + n[r]
  <2>1. r \in Requests /\ n[r] \in Nat /\ cache[r] \in CacheRecord
    BY <1>1 DEF CacheTypes
  <2>2. cache'[r] \in CacheRecord /\ cache'[r].held = cache[r].held + n[r]
    BY <1>2, <2>1, ExtendedHolds
  <2>3. \A g \in exact \cup padded : r \notin Members(g)
    BY DEF Avoids
  <2>4. Held(r) = cache[r].held
    BY <2>3, HeldHere, HeldInOwn
  <2>5. HeldIn(exact', padded', cache', r) = cache'[r].held
    BY <2>3, HeldInOwn
  <2>6. Held(r)' = cache'[r].held
    BY <2>5, HeldNext, Zenon
  <2>7. read'[r] = cache[r].held
    BY DEF ForwardOwn
  <2> QED BY <2>2, <2>4, <2>6, <2>7
<1>4. ASSUME NEW r \in Requests \ DOMAIN n
      PROVE  cache'[r] \in CacheRecord /\ Held(r)' = Held(r)
  <2>1. cache'[r] = cache[r] /\ cache[r] \in CacheRecord
    BY <1>1, <1>2 DEF CacheTypes
  <2> QED BY <1>1, <2>1, SameHeld
<1>5. CacheTypes'
  <2>1. cache' \in [Requests -> CacheRecord]
    <3>1. \A r \in Requests : cache'[r] \in CacheRecord
      BY <1>3, <1>4
    <3>2. cache' = [r \in Requests |-> cache'[r]]
      BY DEF ForwardOwn, AllExtended
    <3> QED BY <3>1, <3>2
  <2> QED BY <1>1, <2>1 DEF CacheTypes, Members
<1>6. \A g \in padded' : PaddedIsCopy(g, cache')
  <2> TAKE g \in padded'
  <2>1. PaddedIsCopy(g, cache) /\ Members(g) \subseteq Requests
    BY <1>1, GroupsHaveMembers DEF CachesOK
  <2>2. \A r \in Members(g) : cache'[r] = cache[r]
    BY <1>2, <2>1 DEF Avoids
  <2> QED BY <2>1, <2>2 DEF PaddedIsCopy
<1>7. CachesOK'
  BY <1>1, <1>5, <1>6 DEF CachesOK, Apart, Members, PaddedIsCopy
<1> QED BY <1>3, <1>4, <1>7

\* The exact group of the batch after a forward, kept or written back.
LEMMA KeepExactHolds ==
    ASSUME CachesOK, NEW g, g \in [key : Keys, rows : CacheRecord], Members(g) = Rows,
           Avoids(padded, Rows), \A h \in exact : Members(h) \cap Rows # {} => h.key = g.key,
           NEW T, KeepExact(g, T), UNCHANGED padded
    PROVE  /\ CachesOK'
           /\ exact' \subseteq exact \cup {g}
           /\ \A r \in Rows : Held(r)' = g.rows.held
           /\ \A r \in Requests \ Rows : Held(r)' = Held(r)
<1> DEFINE others == {h \in exact : h.key # g.key}
<1>1. CacheTypes /\ Apart(exact, padded) /\ None \in CacheRecord /\ g.rows \in CacheRecord
  BY DEF CachesOK, None, CacheRecord
<1>2. Rows \subseteq Requests
  BY KeyRows DEF Members
<1>3. Avoids(others, Rows) /\ others \subseteq exact
  BY DEF Avoids
<1>4. \A h \in exact \ others : Members(h) = Rows
  BY DEF Members
<1> HIDE DEF others
<1>5. \/ /\ exact' = others
         /\ cache' = [r \in Requests |-> IF r \in Rows THEN g.rows ELSE cache[r]]
      \/ /\ exact' = others \cup {g}
         /\ cache' = [r \in Requests |-> IF r \in Rows THEN None ELSE cache[r]]
  BY DEF KeepExact, others
<1>6. Apart(exact', padded')
  <2>1. Apart(others, padded)
    BY <1>1, <1>3, ApartSubset
  <2>2. exact' \subseteq others \cup {g}
    BY <1>5
  <2> QED BY <1>3, <2>1, <2>2 DEF Apart, Avoids
<1>7. ASSUME NEW r \in Rows PROVE cache'[r] \in CacheRecord /\ Held(r)' = g.rows.held
  <2>1. CASE exact' = others
    <3>1. cache'[r] = g.rows /\ \A h \in exact' \cup padded' : r \notin Members(h)
      BY <1>2, <1>3, <1>5, <2>1 DEF Avoids
    <3>2. HeldIn(exact', padded', cache', r) = cache'[r].held
      BY <3>1, HeldInOwn
    <3> QED BY <1>1, <3>1, <3>2, HeldNext, Zenon
  <2>2. CASE exact' # others
    <3>1. g \in exact' /\ cache'[r] = None
      BY <1>2, <1>5, <2>2
    <3>2. HeldIn(exact', padded', cache', r) = g.rows.held
      BY <1>6, <3>1, HeldInExact
    <3> QED BY <1>1, <3>1, <3>2, HeldNext, Zenon
  <2> QED BY <2>1, <2>2
<1>8. ASSUME NEW r \in Requests \ Rows
      PROVE  cache'[r] = cache[r] /\ Held(r)' = Held(r)
  <2>1. cache'[r] = cache[r]
    BY <1>5
  <2>2. \A h \in exact \cup exact' : r \in Members(h) => h \in exact \cap exact'
    BY <1>3, <1>4, <1>5
  <2> QED BY <1>1, <1>6, <2>1, <2>2, SameHeld
<1>9. CacheTypes'
  <2>1. cache' \in [Requests -> CacheRecord]
    BY <1>1, <1>5 DEF CacheTypes
  <2>2. \A h \in exact' : h \in [key : Keys, rows : CacheRecord]
    BY <1>1, <1>3, <1>5 DEF CacheTypes
  <2> QED BY <1>1, <2>1, <2>2 DEF CacheTypes, Members
<1>10. \A h \in padded' : PaddedIsCopy(h, cache')
  <2> TAKE h \in padded'
  <2>1. PaddedIsCopy(h, cache) /\ Members(h) \subseteq Requests
    BY <1>1, GroupsHaveMembers DEF CachesOK
  <2>2. \A r \in Members(h) : cache'[r] = cache[r]
    BY <1>8, <2>1 DEF Avoids
  <2> QED BY <2>1, <2>2 DEF PaddedIsCopy
<1>11. CachesOK'
  BY <1>6, <1>9, <1>10 DEF CachesOK, Apart, Members, PaddedIsCopy
<1> QED BY <1>3, <1>5, <1>7, <1>8, <1>11

\* The same of a padded group.
LEMMA KeepPaddedHolds ==
    ASSUME CachesOK, NEW g, Members(g) = Rows, PaddedIsCopy(g, cache),
           g \in [key : Keys, base : [Members(g) -> Nat], added : Nat, room : Nat],
           Avoids(exact, Rows), \A h \in padded : Members(h) \cap Rows # {} => h.key = g.key,
           NEW T, KeepPadded(g, T), UNCHANGED exact
    PROVE  /\ CachesOK'
           /\ padded' \subseteq padded \cup {g}
           /\ \A r \in Rows : Held(r)' = cache[r].held + g.added
           /\ \A r \in Requests \ Rows : Held(r)' = Held(r)
<1> DEFINE others == {h \in padded : h.key # g.key}
<1>1. CacheTypes /\ Apart(exact, padded) /\ g.added \in Nat
  BY DEF CachesOK
<1>2. Rows \subseteq Requests
  BY KeyRows DEF Members
<1>3. Avoids(others, Rows) /\ others \subseteq padded
  BY DEF Avoids
<1>4. \A h \in padded \ others : Members(h) = Rows
  BY DEF Members
<1> HIDE DEF others
<1>5. \/ /\ padded' = others
         /\ cache' = [r \in Requests |->
                        IF r \in Rows THEN [cache[r] EXCEPT !.held = @ + g.added] ELSE cache[r]]
      \/ padded' = others \cup {g} /\ cache' = cache
  BY DEF KeepPadded, others
<1>6. Apart(exact', padded')
  <2>1. Apart(exact, others)
    BY <1>1, <1>3, ApartSubset
  <2>2. padded' \subseteq others \cup {g}
    BY <1>5
  <2> QED BY <1>3, <2>1, <2>2 DEF Apart, Avoids
<1>7. ASSUME NEW r \in Rows PROVE cache'[r] \in CacheRecord /\ Held(r)' = cache[r].held + g.added
  <2>1. CASE padded' = others
    <3>1. \A h \in exact' \cup padded' : r \notin Members(h)
      BY <1>3, <2>1 DEF Avoids
    <3>2. HeldIn(exact', padded', cache', r) = cache'[r].held
      BY <3>1, HeldInOwn
    <3>3. cache[r] \in CacheRecord
      BY <1>1, <1>2 DEF CacheTypes
    <3>4. cache'[r] \in CacheRecord /\ cache'[r].held = cache[r].held + g.added
      <4>1. CASE cache'[r] = [cache[r] EXCEPT !.held = @ + g.added]
        BY <1>1, <3>3, <4>1 DEF CacheRecord
      <4>2. CASE g \in padded'
        BY <1>3, <2>1, <4>2, <3>1
      <4> QED BY <1>2, <1>5, <4>1, <4>2
    <3> QED BY <3>2, <3>4, HeldNext, Zenon
  <2>2. CASE padded' # others
    <3>1. g \in padded' /\ cache' = cache
      BY <1>5, <2>2
    <3>2. HeldIn(exact', padded', cache', r) = cache'[r].held + g.added
      BY <1>6, <3>1, HeldInPadded
    <3>3. cache[r] \in CacheRecord
      BY <1>1, <1>2 DEF CacheTypes
    <3> QED BY <3>1, <3>2, <3>3, HeldNext, Zenon
  <2> QED BY <2>1, <2>2
<1>8. ASSUME NEW r \in Requests \ Rows
      PROVE  cache'[r] = cache[r] /\ Held(r)' = Held(r)
  <2>1. cache'[r] = cache[r]
    BY <1>5
  <2>2. \A h \in padded \cup padded' : r \in Members(h) => h \in padded \cap padded'
    BY <1>3, <1>4, <1>5
  <2> QED BY <1>1, <1>6, <2>1, <2>2, SameHeld
<1>9. CacheTypes'
  <2>1. cache' \in [Requests -> CacheRecord]
    <3>1. \A r \in Requests : cache'[r] \in CacheRecord
      BY <1>1, <1>7, <1>8 DEF CacheTypes
    <3>2. cache' = [r \in Requests |-> cache'[r]]
      BY <1>1, <1>5 DEF CacheTypes
    <3> QED BY <3>1, <3>2
  <2>2. \A h \in padded' :
          h \in [key : Keys, base : [Members(h) -> Nat], added : Nat, room : Nat]
    BY <1>1, <1>3, <1>5 DEF CacheTypes
  <2> QED BY <1>1, <2>1, <2>2 DEF CacheTypes, Members
<1>10. \A h \in padded' : PaddedIsCopy(h, cache')
  <2> TAKE h \in padded'
  <2>1. CASE h \in others
    <3>1. PaddedIsCopy(h, cache) /\ Members(h) \subseteq Requests
      BY <1>1, <1>3, <2>1, GroupsHaveMembers DEF CachesOK
    <3>2. \A r \in Members(h) : cache'[r] = cache[r]
      BY <1>3, <1>8, <2>1, <3>1 DEF Avoids
    <3> QED BY <3>1, <3>2 DEF PaddedIsCopy
  <2>2. CASE h = g /\ cache' = cache
    BY <2>2
  <2> QED BY <1>5, <2>1, <2>2
<1>11. CachesOK'
  BY <1>6, <1>9, <1>10 DEF CachesOK, Apart, Members, PaddedIsCopy
<1> QED BY <1>3, <1>5, <1>7, <1>8, <1>11

-----------------------------------------------------------------------------
(***************************************************************************)
(* The steps of RequestHistory, in the words of DecodeGroups.              *)
(***************************************************************************)

HistoryStays == computed' = computed /\ \A r \in Requests : Held(r)' = Held(r)

HistoryForward(S) ==
    /\ S # {} /\ computed' = computed
    /\ \A r \in S : Held(r) = computed[r] /\ Held(r)' > Held(r)
    /\ \A r \in Requests \ S : Held(r)' = Held(r)

HistorySettle(C, D) ==
    /\ \A r \in Requests : Held(r)' = IF r \in D THEN 0 ELSE Held(r)
    /\ computed' = [r \in Requests |-> IF r \in D THEN 0
                                       ELSE IF r \in C THEN Held(r) ELSE computed[r]]

HistoryStep ==
    \/ HistoryStays
    \/ \E S \in SUBSET Requests : HistoryForward(S)
    \/ \E C, D \in SUBSET Requests : HistorySettle(C, D)

Good == DInv' /\ HistoryStep

-----------------------------------------------------------------------------
(***************************************************************************)
(* Clients' operations.                                                    *)
(***************************************************************************)

LEMMA NoReads == read' = Nothing => ReadsWholeHistory'
  BY DEF Nothing, ReadsWholeHistory

\* Between two steps nothing is scheduled, so nothing is ahead.
LEMMA IdleStays ==
    ASSUME StepOK, pc = "idle", UNCHANGED stepVars
    PROVE  StepOK' /\ \A r \in Requests : Ahead(r) = 0 /\ Ahead(r)' = 0
<1>1. pc' = "idle" /\ DOMAIN scheduled = {} /\ DOMAIN scheduled' = {} /\ todo' = todo
  BY DEF StepOK, ScheduleOK, stepVars
<1>2. todo = << >> /\ todo \in Seq(Keys) /\ DOMAIN todo = {}
  BY <1>1 DEF StepOK, TodoOK
<1>3. ScheduleOK'
  BY <1>1 DEF ScheduleOK, ToDecode
<1>4. TodoOK'
  BY <1>1, <1>2 DEF TodoOK
<1>5. GroupsFitPlan'
  BY <1>1 DEF GroupsFitPlan
<1> QED BY <1>1, <1>3, <1>4, <1>5 DEF StepOK, Ahead

LEMMA CachesStay ==
    ASSUME CachesOK, UNCHANGED cacheVars
    PROVE  CachesOK' /\ \A r \in Requests : Held(r)' = Held(r)
<1>1. CachesOK'
  BY DEF cacheVars, CachesOK, CacheTypes, Apart, Members, PaddedIsCopy
<1>2. Apart(exact, padded) /\ Apart(exact', padded')
  BY DEF cacheVars, CachesOK
<1> QED BY <1>1, <1>2, SameHeld DEF cacheVars

LEMMA FlushHolds ==
    ASSUME CachesOK, NEW E \in SUBSET exact, NEW P \in SUBSET padded, Flush(E, P)
    PROVE  /\ CachesOK' /\ exact' = exact \ E /\ padded' = padded \ P
           /\ \A r \in Requests : Held(r)' = Held(r)
<1>1. exact' = exact \ E /\ padded' = padded \ P /\ cache' = Flushed(E, P)
  BY DEF Flush
<1>2. cache' = [r \in Requests |-> IF r \in {} THEN None ELSE Flushed(E, P)[r]]
  BY <1>1 DEF Flushed
<1>3. Avoids((exact \ E) \cup (padded \ P), {})
  BY DEF Avoids
<1>4. {} \in SUBSET Requests
  OBVIOUS
<1>5. CachesOK' /\ \A r \in Requests : Held(r)' = IF r \in {} THEN 0 ELSE Held(r)
  BY <1>1, <1>2, <1>3, <1>4, FlushKeeps
<1> QED BY <1>1, <1>5

LEMMA TouchingRest ==
    ASSUME NEW G, NEW S PROVE Touching(G, S) \in SUBSET G /\ Avoids(G \ Touching(G, S), S)
  BY DEF Touching, Avoids

LEMMA FlushTouchingHolds ==
    ASSUME CachesOK, NEW S, FlushTouching(S)
    PROVE  /\ CachesOK' /\ exact' \subseteq exact /\ padded' \subseteq padded
           /\ Avoids(exact' \cup padded', S)
           /\ \A r \in Requests : Held(r)' = Held(r)
<1>1. Flush(Touching(exact, S), Touching(padded, S))
  BY DEF FlushTouching
<1>2. /\ CachesOK' /\ \A r \in Requests : Held(r)' = Held(r)
      /\ exact' = exact \ Touching(exact, S) /\ padded' = padded \ Touching(padded, S)
  BY <1>1, TouchingRest, FlushHolds
<1>3. Avoids(exact', S) /\ Avoids(padded', S)
  BY <1>2, TouchingRest
<1> QED BY <1>2, <1>3 DEF Avoids

LEMMA FlushAndDropHolds ==
    ASSUME CachesOK, NEW D \in SUBSET Requests, FlushAndDrop(D)
    PROVE  /\ CachesOK' /\ exact' \subseteq exact /\ padded' \subseteq padded
           /\ Avoids(exact' \cup padded', D)
           /\ \A r \in Requests : Held(r)' = IF r \in D THEN 0 ELSE Held(r)
<1> DEFINE E == Touching(exact, D)
           P == Touching(padded, D)
<1>1. /\ cache' = [r \in Requests |-> IF r \in D THEN None ELSE Flushed(E, P)[r]]
      /\ exact' = exact \ E /\ padded' = padded \ P
  BY DEF FlushAndDrop
<1>2. E \in SUBSET exact /\ P \in SUBSET padded /\ Avoids(exact \ E, D) /\ Avoids(padded \ P, D)
  BY TouchingRest
<1> HIDE DEF E, P
<1>3. Avoids((exact \ E) \cup (padded \ P), D)
  BY <1>2 DEF Avoids
<1>4. CachesOK' /\ \A r \in Requests : Held(r)' = IF r \in D THEN 0 ELSE Held(r)
  BY <1>1, <1>2, <1>3, FlushKeeps
<1> QED BY <1>1, <1>3, <1>4

\* The groups that are left have members that nothing happens to.
LEMMA MembersStay ==
    ASSUME CacheTypes, MembersDecode, NEW D,
           exact' \subseteq exact, padded' \subseteq padded, Avoids(exact' \cup padded', D),
           \A r \in Requests \ D :
               status'[r] = status[r] /\ prompt'[r] = prompt[r] /\ computed'[r] = computed[r]
    PROVE  MembersDecode'
<1>1. ASSUME NEW g \in exact' \cup padded' PROVE Members(g) \subseteq Decoding'
  <2>1. Members(g) \subseteq Decoding /\ Members(g) \cap D = {}
    BY DEF MembersDecode, Avoids
  <2> QED BY <2>1 DEF Decoding
<1> QED BY <1>1 DEF MembersDecode, Members

LEMMA AddRequestGood ==
    ASSUME DInv, NEW r \in Requests, NEW len \in PromptLens, AddRequest(r, len)
    PROVE  Good
<1>1. RequestsOK /\ CachesOK /\ MembersDecode /\ StepOK /\ HistoryIsDue /\ CacheTypes
  BY DEF DInv, CachesOK
<1>2. /\ pc = "idle" /\ status[r] = "new" /\ read' = Nothing
      /\ status' = [status EXCEPT ![r] = "running"] /\ prompt' = [prompt EXCEPT ![r] = len]
      /\ computed' = computed /\ UNCHANGED cacheVars /\ UNCHANGED stepVars
  BY DEF AddRequest
<1>3. CachesOK' /\ \A s \in Requests : Held(s)' = Held(s)
  BY <1>1, <1>2, CachesStay
<1>4. RequestsOK'
  BY <1>1, <1>2, DecodeAssumption DEF RequestsOK
<1>5. MembersDecode'
  <2>1. exact' = exact /\ padded' = padded
    BY <1>2 DEF cacheVars
  <2>2. Avoids(exact' \cup padded', {r})
    BY <1>1, <1>2, <2>1 DEF MembersDecode, Avoids, Decoding
  <2>3. \A s \in Requests \ {r} :
           status'[s] = status[s] /\ prompt'[s] = prompt[s] /\ computed'[s] = computed[s]
    BY <1>1, <1>2 DEF RequestsOK
  <2> QED BY <1>1, <2>1, <2>2, <2>3, MembersStay
<1>6. StepOK' /\ \A s \in Requests : Ahead(s) = 0 /\ Ahead(s)' = 0
  BY <1>1, <1>2, IdleStays
<1>7. HistoryIsDue'
  BY <1>1, <1>2, <1>3, <1>6 DEF HistoryIsDue
<1> QED BY <1>2, <1>3, <1>4, <1>5, <1>6, <1>7, NoReads
        DEF Good, DInv, HistoryStep, HistoryStays

LEMMA ContinueSessionsGood ==
    ASSUME DInv, NEW S \in SUBSET Sessions, NEW len \in SuffixLens, ContinueSessions(S, len)
    PROVE  Good
<1>1. RequestsOK /\ CachesOK /\ MembersDecode /\ StepOK /\ HistoryIsDue /\ CacheTypes
  BY DEF DInv, CachesOK
<1>2. /\ pc = "idle" /\ (\A r \in S : status[r] = "parked") /\ read' = Nothing
      /\ FlushTouching(S) /\ computed' = computed /\ UNCHANGED stepVars
      /\ status' = [r \in Requests |-> IF r \in S THEN "running" ELSE status[r]]
      /\ prompt' = [r \in Requests |-> IF r \in S THEN computed[r] + 1 + len ELSE prompt[r]]
  BY DEF ContinueSessions
<1>3. /\ CachesOK' /\ exact' \subseteq exact /\ padded' \subseteq padded
      /\ Avoids(exact' \cup padded', S)
      /\ \A r \in Requests : Held(r)' = Held(r)
  BY <1>1, <1>2, FlushTouchingHolds
<1>4. RequestsOK'
  <2>1. len \in Nat /\ \A r \in Requests : computed[r] \in Nat /\ prompt[r] \in Nat
    BY <1>1, DecodeAssumption DEF RequestsOK
  <2>2. \A r \in Requests : prompt'[r] \in Nat
    BY <1>2, <2>1
  <2>3. prompt' \in [Requests -> Nat]
    BY <1>2, <2>2
  <2>4. status' \in [Requests -> {"new", "running", "parked", "ended"}]
    BY <1>1, <1>2 DEF RequestsOK
  <2>5. \A r \in Requests : status'[r] = "new" => computed'[r] = 0
    BY <1>1, <1>2 DEF RequestsOK
  <2> QED BY <1>1, <1>2, <2>3, <2>4, <2>5 DEF RequestsOK
<1>5. MembersDecode'
  BY <1>1, <1>2, <1>3, MembersStay
<1>6. StepOK' /\ \A r \in Requests : Ahead(r) = 0 /\ Ahead(r)' = 0
  BY <1>1, <1>2, IdleStays
<1>7. HistoryIsDue'
  BY <1>1, <1>2, <1>3, <1>6 DEF HistoryIsDue
<1> QED BY <1>2, <1>3, <1>4, <1>5, <1>6, <1>7, NoReads
        DEF Good, DInv, HistoryStep, HistoryStays

\* The requests of D end, and so does their history.
LEMMA EndSettles ==
    ASSUME RequestsOK, HistoryIsDue, NEW D \in SUBSET Requests, End(D),
           \A r \in Requests : Held(r)' = IF r \in D THEN 0 ELSE Held(r),
           \A r \in Requests \ D : Ahead(r) = 0, \A r \in Requests : Ahead(r)' = 0
    PROVE  RequestsOK' /\ HistoryIsDue' /\ HistoryStep
<1>1. RequestsOK'
  BY DEF RequestsOK, End
<1>2. HistoryIsDue'
  BY DEF RequestsOK, HistoryIsDue, End
<1>3. HistorySettle({}, D)
  BY DEF HistorySettle, End
<1>4. HistoryStep
  BY <1>3 DEF HistoryStep
<1> QED BY <1>1, <1>2, <1>4

LEMMA LeaveGood ==
    ASSUME DInv, NEW r \in Requests, Leave(r)
    PROVE  Good
<1>1. RequestsOK /\ CachesOK /\ MembersDecode /\ StepOK /\ HistoryIsDue /\ CacheTypes
  BY DEF DInv, CachesOK
<1>2. /\ pc = "idle" /\ FlushAndDrop({r}) /\ End({r}) /\ read' = Nothing
      /\ UNCHANGED stepVars
  BY DEF Leave
<1>3. /\ CachesOK' /\ exact' \subseteq exact /\ padded' \subseteq padded
      /\ Avoids(exact' \cup padded', {r})
      /\ \A s \in Requests : Held(s)' = IF s \in {r} THEN 0 ELSE Held(s)
  BY <1>1, <1>2, FlushAndDropHolds
<1>4. StepOK' /\ \A s \in Requests : Ahead(s) = 0 /\ Ahead(s)' = 0
  BY <1>1, <1>2, IdleStays
<1>5. RequestsOK' /\ HistoryIsDue' /\ HistoryStep
  BY <1>1, <1>2, <1>3, <1>4, EndSettles
<1>6. \A s \in Requests \ {r} :
         status'[s] = status[s] /\ prompt'[s] = prompt[s] /\ computed'[s] = computed[s]
  BY <1>2 DEF End
<1>7. MembersDecode'
  BY <1>1, <1>3, <1>6, MembersStay
<1> QED BY <1>2, <1>3, <1>4, <1>5, <1>7, NoReads DEF Good, DInv

LEMMA FailUnfinishedGood ==
    ASSUME DInv, FailUnfinished
    PROVE  Good
<1> DEFINE D == {r \in Requests : status[r] # "new"}
<1>1. RequestsOK /\ CachesOK /\ MembersDecode /\ StepOK /\ HistoryIsDue /\ CacheTypes
  BY DEF DInv, CachesOK
<1>2. /\ pc = "idle" /\ End(D) /\ read' = Nothing /\ UNCHANGED stepVars
      /\ cache' = [r \in Requests |-> None] /\ exact' = {} /\ padded' = {}
  BY DEF FailUnfinished
<1>3. CachesOK' /\ \A r \in Requests : Held(r)' = 0
  <2>1. cache' = [r \in Requests |-> IF r \in Requests THEN None ELSE cache[r]]
    BY <1>2
  <2>2. Avoids(exact' \cup padded', Requests)
    BY <1>2 DEF Avoids
  <2>3. \A g \in (exact \ exact') \cup (padded \ padded') : Members(g) \subseteq Requests
    BY <1>1, GroupsHaveMembers
  <2> QED BY <1>1, <1>2, <2>1, <2>2, <2>3, DropKeeps
<1>4. StepOK' /\ \A r \in Requests : Ahead(r) = 0 /\ Ahead(r)' = 0
  BY <1>1, <1>2, IdleStays
<1>5. \A r \in Requests : Held(r)' = IF r \in D THEN 0 ELSE Held(r)
  <2>1. \A r \in Requests \ D : Held(r) = 0
    BY <1>1, <1>4 DEF RequestsOK, HistoryIsDue
  <2> QED BY <1>3, <2>1
<1>6. RequestsOK' /\ HistoryIsDue' /\ HistoryStep
  BY <1>1, <1>2, <1>4, <1>5, EndSettles
<1>7. MembersDecode'
  BY <1>2 DEF MembersDecode
<1> QED BY <1>2, <1>3, <1>4, <1>6, <1>7, NoReads DEF Good, DInv

-----------------------------------------------------------------------------
(***************************************************************************)
(* The step, up to the batches.                                            *)
(***************************************************************************)

LEMMA MembersSame ==
    ASSUME CacheTypes, MembersDecode, exact' \subseteq exact, padded' \subseteq padded,
           UNCHANGED requestVars
    PROVE  MembersDecode'
<1>1. Avoids(exact' \cup padded', {})
  BY DEF Avoids
<1> QED BY <1>1, MembersStay DEF requestVars

LEMMA RequestsSame ==
    ASSUME RequestsOK, UNCHANGED requestVars
    PROVE  RequestsOK' /\ Decoding' = Decoding /\ Filling' = Filling /\ computed' = computed
  BY DEF RequestsOK, requestVars, Decoding, Filling

LEMMA ScheduleGood ==
    ASSUME DInv, pc = "idle", NEW D \in SUBSET Decoding, NEW P \in SUBSET Filling,
           NEW n \in PrefillChunks(P), Schedule(D, n)
    PROVE  Good
<1>1. RequestsOK /\ CachesOK /\ MembersDecode /\ StepOK /\ HistoryIsDue /\ CacheTypes
  BY DEF DInv, CachesOK
<1>2. /\ D \cup DOMAIN n # {} /\ pc' = "execute" /\ read' = Nothing
      /\ scheduled' = [r \in D \cup DOMAIN n |-> IF r \in D THEN 1 ELSE n[r]]
      /\ UNCHANGED requestVars /\ UNCHANGED cacheVars /\ todo' = todo
  BY DEF Schedule
<1>3. CachesOK' /\ \A r \in Requests : Held(r)' = Held(r)
  BY <1>1, <1>2, CachesStay
<1>4. RequestsOK' /\ Decoding' = Decoding /\ Filling' = Filling /\ computed' = computed
  BY <1>1, <1>2, RequestsSame
<1>5. MembersDecode'
  BY <1>1, <1>2, MembersSame DEF cacheVars
<1>6. DOMAIN n = P /\ \A r \in P : n[r] \in Nat \ {0}
  <2>1. \A r \in P : prompt[r] \in Nat /\ computed[r] \in Nat /\ computed[r] < prompt[r]
    BY <1>1 DEF RequestsOK, Filling
  <2>2. DOMAIN n = P /\ \A r \in P : n[r] \in {1, prompt[r] - computed[r]}
    BY DEF PrefillChunks
  <2> QED BY <2>1, <2>2
<1>7. ScheduleOK'
  <2>1. DOMAIN scheduled' = D \cup P
    BY <1>2, <1>6
  <2>2. \A r \in DOMAIN scheduled' : scheduled'[r] \in Nat \ {0}
    BY <1>2, <1>6
  <2>3. \A r \in Decoding : r \notin P
    BY <1>1 DEF RequestsOK, Decoding, Filling
  <2>4. \A r \in ToDecode' : scheduled'[r] = 1
    BY <1>2, <1>4, <2>1, <2>3 DEF ToDecode
  <2>5. DOMAIN scheduled' # {}
    BY <1>2, <1>6, <2>1
  <2> QED BY <1>2, <1>4, <2>1, <2>2, <2>4, <2>5 DEF ScheduleOK
<1>8. TodoOK' /\ GroupsFitPlan'
  <2>1. todo = << >> /\ todo \in Seq(Keys) /\ DOMAIN todo = {}
    BY <1>1 DEF StepOK, TodoOK
  <2> QED BY <1>2, <2>1 DEF TodoOK, GroupsFitPlan
<1>9. \A r \in Requests : Ahead(r) = 0 /\ Ahead(r)' = 0
  BY <1>2 DEF Ahead
<1>10. HistoryIsDue'
  BY <1>1, <1>3, <1>4, <1>9 DEF HistoryIsDue
<1> QED BY <1>2, <1>3, <1>4, <1>5, <1>7, <1>8, <1>10, NoReads
        DEF Good, DInv, StepOK, HistoryStep, HistoryStays

LEMMA PrepareMixedGood ==
    ASSUME DInv, PrepareMixed
    PROVE  Good
<1>1. RequestsOK /\ CachesOK /\ MembersDecode /\ StepOK /\ HistoryIsDue /\ CacheTypes
  BY DEF DInv, CachesOK
<1>2. /\ pc = "execute" /\ pc' = "mixed" /\ read' = Nothing
      /\ FlushTouching(DOMAIN scheduled)
      /\ UNCHANGED requestVars /\ scheduled' = scheduled /\ todo' = todo
  BY DEF PrepareMixed
<1>3. /\ CachesOK' /\ exact' \subseteq exact /\ padded' \subseteq padded
      /\ Avoids(exact' \cup padded', DOMAIN scheduled)
      /\ \A r \in Requests : Held(r)' = Held(r)
  BY <1>1, <1>2, FlushTouchingHolds
<1>4. RequestsOK' /\ Decoding' = Decoding /\ Filling' = Filling /\ computed' = computed
  BY <1>1, <1>2, RequestsSame
<1>5. MembersDecode'
  BY <1>1, <1>2, <1>3, MembersSame
<1>6. ScheduleOK'
  BY <1>1, <1>2, <1>4 DEF StepOK, ScheduleOK, ToDecode
<1>7. TodoOK' /\ GroupsFitPlan'
  <2>1. todo = << >> /\ todo \in Seq(Keys) /\ DOMAIN todo = {}
    BY <1>1, <1>2 DEF StepOK, TodoOK
  <2> QED BY <1>2, <1>3, <2>1 DEF TodoOK, GroupsFitPlan
<1>8. \A r \in Requests : Ahead(r) = 0 /\ Ahead(r)' = 0
  BY <1>2 DEF Ahead
<1>9. HistoryIsDue'
  BY <1>1, <1>3, <1>4, <1>8 DEF HistoryIsDue
<1> QED BY <1>2, <1>3, <1>4, <1>5, <1>6, <1>7, <1>9, NoReads
        DEF Good, DInv, StepOK, HistoryStep, HistoryStays

LEMMA ScheduledAreRequests ==
    ASSUME ScheduleOK
    PROVE  DOMAIN scheduled \subseteq Requests /\ \A r \in DOMAIN scheduled : scheduled[r] \in Nat \ {0}
  BY DEF ScheduleOK, Decoding, Filling

LEMMA RunMixedGood ==
    ASSUME DInv, RunMixed
    PROVE  Good
<1>1. RequestsOK /\ CachesOK /\ MembersDecode /\ StepOK /\ HistoryIsDue /\ CacheTypes /\ ScheduleOK
  BY DEF DInv, CachesOK, StepOK
<1>2. /\ pc = "mixed" /\ pc' = "finish" /\ ForwardOwn(scheduled)
      /\ UNCHANGED requestVars /\ UNCHANGED <<exact, padded>>
      /\ scheduled' = scheduled /\ todo' = todo
  BY DEF RunMixed
<1>3. Avoids(exact \cup padded, DOMAIN scheduled)
  BY <1>1, <1>2 DEF StepOK, GroupsFitPlan
<1>4. /\ CachesOK'
      /\ \A r \in DOMAIN scheduled : read'[r] = Held(r) /\ Held(r)' = Held(r) + scheduled[r]
      /\ \A r \in Requests \ DOMAIN scheduled : Held(r)' = Held(r)
  BY <1>1, <1>2, <1>3, ScheduledAreRequests, ForwardOwnHolds
<1>5. RequestsOK' /\ Decoding' = Decoding /\ Filling' = Filling /\ computed' = computed
  BY <1>1, <1>2, RequestsSame
<1>6. MembersDecode'
  BY <1>1, <1>2, MembersSame
<1>7. ScheduleOK'
  BY <1>1, <1>2, <1>5 DEF ScheduleOK, ToDecode
<1>8. TodoOK' /\ GroupsFitPlan'
  <2>1. todo = << >> /\ todo \in Seq(Keys) /\ DOMAIN todo = {}
    BY <1>1, <1>2 DEF StepOK, TodoOK
  <2> QED BY <1>2, <2>1 DEF TodoOK, GroupsFitPlan
<1>9. \A r \in Requests : /\ Ahead(r) = 0
                          /\ Ahead(r)' = IF r \in DOMAIN scheduled THEN scheduled[r] ELSE 0
  BY <1>2 DEF Ahead
<1>10. \A r \in Requests : Held(r) = computed[r] /\ computed[r] \in Nat
  BY <1>1, <1>9 DEF HistoryIsDue, RequestsOK
<1>11. HistoryIsDue'
  <2>1. \A r \in Requests : Held(r)' = computed'[r] + Ahead(r)'
    BY <1>1, <1>4, <1>5, <1>9, <1>10, ScheduledAreRequests
  <2> QED BY <2>1 DEF HistoryIsDue
<1>12. ReadsWholeHistory'
  <2>1. DOMAIN read' = DOMAIN scheduled
    BY <1>2 DEF ForwardOwn
  <2>2. \A r \in DOMAIN read' : read'[r] = computed'[r]
    BY <1>1, <1>4, <1>5, <1>10, <2>1, ScheduledAreRequests
  <2> QED BY <2>2 DEF ReadsWholeHistory
<1>13. HistoryForward(DOMAIN scheduled)
  <2>1. DOMAIN scheduled # {}
    BY <1>1, <1>2 DEF ScheduleOK
  <2>2. \A r \in DOMAIN scheduled : Held(r) = computed[r] /\ Held(r)' > Held(r)
    <3> TAKE r \in DOMAIN scheduled
    <3>1. r \in Requests /\ scheduled[r] \in Nat \ {0}
      BY <1>1, ScheduledAreRequests
    <3>2. Held(r) = computed[r] /\ computed[r] \in Nat /\ Held(r)' = Held(r) + scheduled[r]
      BY <1>4, <1>10, <3>1
    <3> QED BY <3>1, <3>2
  <2> QED BY <1>4, <1>5, <2>1, <2>2 DEF HistoryForward
<1>14. HistoryStep
  BY <1>1, <1>13, ScheduledAreRequests DEF HistoryStep
<1> QED BY <1>4, <1>5, <1>6, <1>7, <1>8, <1>11, <1>12, <1>14 DEF Good, DInv, StepOK

\* What a plan for the requests of D is.
LEMMA PlanFacts ==
    ASSUME NEW D \in SUBSET Requests, NEW plan \in PlansOf[D]
    PROVE  /\ plan \in Seq(Keys)
           /\ \A i, j \in DOMAIN plan : i # j => Range(plan[i]) \cap Range(plan[j]) = {}
           /\ UNION {Range(plan[i]) : i \in DOMAIN plan} = D
<1>1. /\ plan \in BoundedSeq(Keys, Cardinality(D))
      /\ \A i, j \in DOMAIN plan : i # j => Range(plan[i]) \cap Range(plan[j]) = {}
      /\ UNION {Range(plan[i]) : i \in DOMAIN plan} = D
  BY DEF PlansOf
<1>2. Cardinality(D) \in Nat
  BY FS_Subset, FS_CardinalityType, DecodeAssumption
<1>3. PICK m \in 0 .. Cardinality(D) : plan \in [1 .. m -> Keys]
  BY <1>1 DEF BoundedSeq, SeqOf
<1>4. m \in Nat
  BY <1>2
<1> QED BY <1>1, <1>3, <1>4

LEMMA PlanBatchesGood ==
    ASSUME DInv, pc \in {"execute", "mixed"}, NEW plan \in PlansOf[ToDecode], PlanBatches(plan)
    PROVE  Good
<1>1. RequestsOK /\ CachesOK /\ MembersDecode /\ StepOK /\ HistoryIsDue /\ CacheTypes /\ ScheduleOK
  BY DEF DInv, CachesOK, StepOK
<1>2. /\ pc' = "decode" /\ read' = Nothing /\ todo' = plan
      /\ UNCHANGED requestVars /\ scheduled' = scheduled
  BY DEF PlanBatches
<1>3. ToDecode \in SUBSET Requests
  BY DEF ToDecode, Decoding
<1>4. /\ plan \in Seq(Keys)
      /\ \A i, j \in DOMAIN plan : i # j => Range(plan[i]) \cap Range(plan[j]) = {}
      /\ UNION {Range(plan[i]) : i \in DOMAIN plan} = ToDecode
  BY <1>3, PlanFacts
<1>5. /\ CachesOK' /\ exact' \subseteq exact /\ padded' \subseteq padded
      /\ \A r \in Requests : Held(r)' = Held(r)
      /\ plan # << >> => \A g \in exact' \cup padded' : g.key \in Range(plan)
  <2>1. CASE plan = << >>
    <3>1. UNCHANGED cacheVars
      BY <2>1 DEF PlanBatches
    <3> QED BY <1>1, <2>1, <3>1, CachesStay DEF cacheVars
  <2>2. CASE plan # << >>
    <3> DEFINE allowed == {k \in Range(plan) : MayHaveGroup(k)}
               E == {g \in exact : g.key \notin allowed}
               P == {g \in padded : g.key \notin allowed}
    <3>1. Flush(E, P) /\ E \in SUBSET exact /\ P \in SUBSET padded
      BY <2>2 DEF PlanBatches
    <3>2. \A g \in (exact \ E) \cup (padded \ P) : g.key \in Range(plan)
      OBVIOUS
    <3> HIDE DEF E, P
    <3>3. /\ CachesOK' /\ exact' = exact \ E /\ padded' = padded \ P
          /\ \A r \in Requests : Held(r)' = Held(r)
      BY <1>1, <3>1, FlushHolds
    <3> QED BY <3>2, <3>3
  <2> QED BY <2>1, <2>2
<1>6. RequestsOK' /\ Decoding' = Decoding /\ Filling' = Filling /\ computed' = computed
  BY <1>1, <1>2, RequestsSame
<1>7. MembersDecode'
  BY <1>1, <1>2, <1>5, MembersSame
<1>8. ScheduleOK' /\ ToDecode' = ToDecode
  BY <1>1, <1>2, <1>6 DEF ScheduleOK, ToDecode
<1>9. TodoOK'
  BY <1>2, <1>4, <1>8 DEF TodoOK
<1>10. GroupsFitPlan'
  <2>1. ASSUME NEW g \in exact' \cup padded', plan # << >>
        PROVE  /\ Members(g) \subseteq ToDecode
               /\ \A i \in DOMAIN plan : Members(g) \cap Range(plan[i]) # {} => g.key = plan[i]
    <3>1. PICK i \in DOMAIN plan : g.key = plan[i]
      BY <1>5, <2>1 DEF Range
    <3>2. Members(g) = Range(plan[i])
      BY <3>1 DEF Members
    <3> QED BY <1>4, <3>1, <3>2
  <2>2. ASSUME NEW g \in exact' \cup padded', plan = << >>
        PROVE  Members(g) \cap DOMAIN scheduled = {}
    <3>1. ToDecode = {}
      BY <1>4, <2>2
    <3> QED BY <1>1, <1>5, <3>1 DEF ToDecode, MembersDecode
  <2>3. ToDecode \subseteq DOMAIN scheduled
    BY DEF ToDecode
  <2>4. plan = << >> => DOMAIN plan = {}
    OBVIOUS
  <2> QED BY <1>2, <2>1, <2>2, <2>3, <2>4 DEF GroupsFitPlan, Members
<1>11. \A r \in Requests : Ahead(r) = 0
  BY DEF Ahead
<1>12. \A r \in Requests : Ahead(r)' = 0
  <2>1. ToDo' = ToDecode
    BY <1>2, <1>4 DEF ToDo
  <2>2. \A r \in DOMAIN scheduled : r \notin Decoding' \ ToDo'
    BY <1>6, <2>1 DEF ToDecode
  <2> QED BY <1>2, <2>2 DEF Ahead
<1>13. HistoryIsDue'
  BY <1>1, <1>5, <1>6, <1>11, <1>12 DEF HistoryIsDue
<1> QED BY <1>2, <1>5, <1>6, <1>7, <1>8, <1>9, <1>10, <1>13, NoReads
        DEF Good, DInv, StepOK, HistoryStep, HistoryStays

-----------------------------------------------------------------------------
(***************************************************************************)
(* The batches.                                                            *)
(***************************************************************************)

\* The next batch and the batches after it.
LEMMA BatchFacts ==
    ASSUME TodoOK, InDecode
    PROVE  /\ Batch \in Keys /\ Rows \subseteq ToDecode
           /\ 1 \in DOMAIN todo /\ Batch = todo[1]
           /\ Tail(todo) \in Seq(Keys)
           /\ \A i \in DOMAIN Tail(todo) :
                i + 1 \in DOMAIN todo /\ i + 1 # 1 /\ Tail(todo)[i] = todo[i + 1]
           /\ \A i \in DOMAIN todo : i # 1 => i - 1 \in DOMAIN Tail(todo)
<1>1. todo \in Seq(Keys) /\ todo # << >>
  BY DEF TodoOK, InDecode
<1>2. /\ Len(todo) \in Nat \ {0} /\ DOMAIN todo = 1 .. Len(todo) /\ Head(todo) = todo[1]
      /\ Tail(todo) \in Seq(Keys) /\ Len(Tail(todo)) = Len(todo) - 1
      /\ \A i \in 1 .. Len(todo) - 1 : Tail(todo)[i] = todo[i + 1]
  BY <1>1
<1>3. DOMAIN Tail(todo) = 1 .. Len(todo) - 1
  BY <1>2
<1>4. 1 \in DOMAIN todo /\ todo[1] \in Keys
  BY <1>1, <1>2
<1>5. Rows \subseteq ToDecode
  BY <1>2, <1>4 DEF TodoOK, Rows, Batch
<1> QED BY <1>2, <1>3, <1>4, <1>5 DEF Batch

LEMMA RowFacts ==
    ASSUME DInv, InDecode
    PROVE  /\ Rows \subseteq Requests /\ Rows # {} /\ IsFiniteSet(Rows) /\ Batch[1] \in Rows
           /\ \A g \in exact \cup padded : Members(g) \cap Rows # {} => g.key = Batch
           /\ \A r \in Rows : Held(r) = computed[r] /\ computed[r] \in Nat
<1>1. TodoOK /\ GroupsFitPlan /\ pc = "decode" /\ HistoryIsDue /\ RequestsOK
  BY DEF DInv, StepOK, InDecode
<1>2. /\ Batch \in Keys /\ Rows \subseteq ToDecode
      /\ 1 \in DOMAIN todo /\ Batch = todo[1]
  BY <1>1, BatchFacts
<1>3. Rows \subseteq Requests /\ Rows # {} /\ IsFiniteSet(Rows) /\ Batch[1] \in Rows
  BY <1>2, KeyRows DEF Rows
<1>4. \A g \in exact \cup padded : Members(g) \cap Rows # {} => g.key = Batch
  BY <1>1, <1>2 DEF GroupsFitPlan, Rows
<1>5. Rows \subseteq ToDo
  BY <1>2 DEF ToDo, Rows
<1>6. \A r \in Rows : Ahead(r) = 0
  BY <1>1, <1>5 DEF Ahead
<1> QED BY <1>1, <1>3, <1>4, <1>6 DEF HistoryIsDue, RequestsOK

\* A forward for the batch that reads what its rows have, and gives each one
\* token more.
LEMMA DecodedGood ==
    ASSUME DInv, InDecode, NEW T, Decoded(T), CachesOK',
           \A g \in (exact' \cup padded') \ (exact \cup padded) : g.key = Batch,
           DOMAIN read' = Rows,
           \A r \in Rows : read'[r] = Held(r) /\ Held(r)' = Held(r) + 1,
           \A r \in Requests \ Rows : Held(r)' = Held(r)
    PROVE  Good
<1>1. RequestsOK /\ MembersDecode /\ ScheduleOK /\ TodoOK /\ GroupsFitPlan /\ HistoryIsDue
  BY DEF DInv, StepOK
<1>2. /\ todo' = Tail(todo) /\ pc' = pc /\ pc = "decode" /\ scheduled' = scheduled
      /\ UNCHANGED requestVars
  BY DEF Decoded, InDecode
<1>3. /\ Batch \in Keys /\ Rows \subseteq ToDecode
      /\ 1 \in DOMAIN todo /\ Batch = todo[1]
      /\ todo' \in Seq(Keys)
      /\ \A i \in DOMAIN todo' : i + 1 \in DOMAIN todo /\ i + 1 # 1 /\ todo'[i] = todo[i + 1]
      /\ \A i \in DOMAIN todo : i # 1 => i - 1 \in DOMAIN todo'
  BY <1>1, <1>2, BatchFacts
<1>4. /\ Rows \subseteq Requests /\ Rows # {}
      /\ \A r \in Rows : Held(r) = computed[r] /\ computed[r] \in Nat
  BY RowFacts
<1>5. RequestsOK' /\ Decoding' = Decoding /\ Filling' = Filling /\ computed' = computed
  BY <1>1, <1>2, RequestsSame
<1>6. ToDecode \subseteq Decoding /\ ToDecode \subseteq DOMAIN scheduled
  BY DEF ToDecode
<1>7. \A g \in exact' \cup padded' : g \in exact \cup padded \/ Members(g) = Rows
  BY DEF Members, Rows
<1>8. MembersDecode'
  <2>1. \A g \in exact' \cup padded' : Members(g) \subseteq Decoding'
    BY <1>1, <1>3, <1>5, <1>6, <1>7 DEF MembersDecode
  <2> QED BY <2>1 DEF MembersDecode, Members
<1>9. ScheduleOK'
  BY <1>1, <1>2, <1>5 DEF ScheduleOK, ToDecode
<1>10. \A i \in DOMAIN todo' : Range(todo'[i]) \cap Rows = {}
  <2> TAKE i \in DOMAIN todo'
  <2>1. i + 1 \in DOMAIN todo /\ i + 1 # 1 /\ todo'[i] = todo[i + 1] /\ 1 \in DOMAIN todo
    BY <1>3
  <2>2. Range(todo[i + 1]) \cap Range(todo[1]) = {}
    BY <1>1, <2>1 DEF TodoOK
  <2> QED BY <1>3, <2>1, <2>2 DEF Rows
<1>11. TodoOK'
  <2>1. ToDecode' = ToDecode
    BY <1>2, <1>5 DEF ToDecode
  <2>2. \A i \in DOMAIN todo' : Range(todo'[i]) \subseteq ToDecode'
    BY <1>1, <1>3, <2>1 DEF TodoOK
  <2>3. \A i, j \in DOMAIN todo' : i # j => Range(todo'[i]) \cap Range(todo'[j]) = {}
    <3> TAKE i, j \in DOMAIN todo'
    <3> HAVE i # j
    <3>1. i \in Nat /\ j \in Nat
      BY <1>3
    <3>2. i + 1 # j + 1
      BY <3>1
    <3>3. i + 1 \in DOMAIN todo /\ j + 1 \in DOMAIN todo
      BY <1>3
    <3>4. Range(todo[i + 1]) \cap Range(todo[j + 1]) = {}
      BY <1>1, <3>2, <3>3 DEF TodoOK
    <3> QED BY <1>3, <3>4
  <2> QED BY <1>2, <1>3, <2>2, <2>3 DEF TodoOK
<1>12. GroupsFitPlan'
  <2>1. ASSUME NEW g \in exact' \cup padded'
        PROVE  /\ Members(g) \cap DOMAIN scheduled # {} => Members(g) \subseteq DOMAIN scheduled
               /\ \A i \in DOMAIN todo' : Members(g) \cap Range(todo'[i]) # {} => g.key = todo'[i]
    <3>1. CASE g \in exact \cup padded
      BY <1>1, <1>2, <1>3, <3>1 DEF GroupsFitPlan
    <3>2. CASE Members(g) = Rows
      BY <1>3, <1>6, <1>10, <3>2
    <3> QED BY <1>7, <3>1, <3>2
  <2> QED BY <1>2, <2>1 DEF GroupsFitPlan, Members
<1>13. /\ \A r \in Rows : r \in ToDo /\ r \notin ToDo'
       /\ \A r \in Requests \ Rows : r \in ToDo <=> r \in ToDo'
  <2>1. ToDo = Rows \cup ToDo'
    <3>1. ASSUME NEW i \in DOMAIN todo PROVE Range(todo[i]) \subseteq Rows \cup ToDo'
      <4>1. CASE i = 1
        BY <1>3, <4>1 DEF Rows
      <4>2. CASE i # 1
        <5>1. i - 1 \in DOMAIN todo' /\ i \in Int
          BY <1>1, <1>3, <4>2 DEF TodoOK
        <5>2. todo'[i - 1] = todo[i]
          <6>1. todo'[i - 1] = todo[(i - 1) + 1]
            BY <1>3, <5>1
          <6> QED BY <5>1, <6>1
        <5> QED BY <5>1, <5>2 DEF ToDo
      <4> QED BY <4>1, <4>2
    <3>2. ASSUME NEW i \in DOMAIN todo' PROVE Range(todo'[i]) \subseteq ToDo
      BY <1>3 DEF ToDo
    <3>3. Rows \subseteq ToDo
      BY <1>3 DEF ToDo, Rows
    <3> QED BY <3>1, <3>2, <3>3 DEF ToDo
  <2>2. \A r \in Rows : r \notin ToDo'
    BY <1>10 DEF ToDo
  <2> QED BY <2>1, <2>2
<1>14. \A r \in Rows : Ahead(r) = 0 /\ Ahead(r)' = 1
  <2> TAKE r \in Rows
  <2>1. r \in ToDecode /\ r \in Decoding /\ r \in DOMAIN scheduled /\ scheduled[r] = 1
    BY <1>1, <1>3, <1>6 DEF ScheduleOK
  <2>2. Ahead(r) = 0
    BY <1>2, <1>13 DEF Ahead
  <2>3. Ahead(r)' = 1
    BY <1>2, <1>5, <1>13, <2>1 DEF Ahead
  <2> QED BY <2>2, <2>3
<1>15. \A r \in Requests \ Rows : Ahead(r)' = Ahead(r)
  BY <1>2, <1>5, <1>13 DEF Ahead
<1>16. HistoryIsDue'
  <2>1. \A r \in Rows : Held(r)' = computed'[r] + Ahead(r)'
    BY <1>4, <1>5, <1>14
  <2>2. \A r \in Requests \ Rows : Held(r)' = computed'[r] + Ahead(r)'
    BY <1>1, <1>5, <1>15 DEF HistoryIsDue
  <2> QED BY <2>1, <2>2 DEF HistoryIsDue
<1>17. ReadsWholeHistory'
  <2>1. \A r \in DOMAIN read' : read'[r] = computed'[r]
    BY <1>4, <1>5
  <2> QED BY <2>1 DEF ReadsWholeHistory
<1>18. HistoryForward(Rows)
  <2>1. \A r \in Rows : Held(r) = computed[r] /\ Held(r)' > Held(r)
    BY <1>4
  <2> QED BY <1>4, <1>5, <2>1 DEF HistoryForward
<1>19. HistoryStep
  BY <1>4, <1>18 DEF HistoryStep
<1> QED BY <1>5, <1>8, <1>9, <1>11, <1>12, <1>16, <1>17, <1>19 DEF Good, DInv, StepOK

\* The rows of a batch without a group have their own caches.
LEMMA FreeRows ==
    ASSUME DInv, InDecode, ~HasGroup(exact), ~HasGroup(padded)
    PROVE  /\ Avoids(exact, Rows) /\ Avoids(padded, Rows)
           /\ \A r \in Rows : Held(r) = cache[r].held /\ cache[r] \in CacheRecord
<1>1. Avoids(exact, Rows) /\ Avoids(padded, Rows)
  BY RowFacts DEF HasGroup, Avoids
<1>2. CacheTypes /\ Rows \subseteq Requests
  BY RowFacts DEF DInv, CachesOK
<1>3. ASSUME NEW r \in Rows PROVE Held(r) = cache[r].held /\ cache[r] \in CacheRecord
  <2>1. \A g \in exact \cup padded : r \notin Members(g)
    BY <1>1 DEF Avoids
  <2> QED BY <1>2, <2>1, HeldHere, HeldInOwn DEF CacheTypes
<1> QED BY <1>1, <1>3

LEMMA StartExactGood ==
    ASSUME DInv, StartExact
    PROVE  Good
<1> DEFINE g == [key |-> Batch, rows |-> [cache[Batch[1]] EXCEPT !.held = @ + 1]]
<1>1. /\ InDecode /\ ~HasGroup(padded) /\ ~HasGroup(exact) /\ SameLayout
      /\ read' = [r \in Rows |-> cache[r].held] /\ UNCHANGED padded
  BY DEF StartExact, FitsExact
<1>2. PICK T \in SUBSET Rows : KeepExact(g, T) /\ Decoded(T)
  BY DEF StartExact
<1>3. /\ Avoids(exact, Rows) /\ Avoids(padded, Rows)
      /\ \A r \in Rows : Held(r) = cache[r].held /\ cache[r] \in CacheRecord
  BY <1>1, FreeRows
<1>4. Batch[1] \in Rows /\ Batch \in Keys /\ CachesOK
  BY <1>1, RowFacts, BatchFacts DEF DInv, StepOK
<1>5. /\ g \in [key : Keys, rows : CacheRecord] /\ g.key = Batch
      /\ g.rows.held = cache[Batch[1]].held + 1
  BY <1>3, <1>4 DEF CacheRecord
<1>6. Members(g) = Rows
  BY DEF Members, Rows
<1>7. \A r \in Rows : cache[r] = cache[Batch[1]]
  BY <1>1, <1>4 DEF SameLayout
<1> HIDE DEF g
<1>8. \A h \in exact : Members(h) \cap Rows # {} => h.key = g.key
  BY <1>3 DEF Avoids
<1>9. /\ CachesOK' /\ exact' \subseteq exact \cup {g}
      /\ \A r \in Rows : Held(r)' = g.rows.held
      /\ \A r \in Requests \ Rows : Held(r)' = Held(r)
  BY <1>1, <1>2, <1>3, <1>4, <1>5, <1>6, <1>8, KeepExactHolds
<1>10. \A h \in (exact' \cup padded') \ (exact \cup padded) : h.key = Batch
  BY <1>1, <1>5, <1>9
<1>11. DOMAIN read' = Rows /\ \A r \in Rows : read'[r] = Held(r) /\ Held(r)' = Held(r) + 1
  BY <1>1, <1>3, <1>5, <1>7, <1>9
<1> QED BY <1>1, <1>2, <1>9, <1>10, <1>11, DecodedGood

LEMMA ReuseExactGood ==
    ASSUME DInv, ReuseExact
    PROVE  Good
<1>1. InDecode /\ UNCHANGED padded
  BY DEF ReuseExact
<1>2. PICK g \in exact, T \in SUBSET Rows :
        /\ g.key = Batch /\ read' = [r \in Rows |-> g.rows.held]
        /\ KeepExact([g EXCEPT !.rows.held = @ + 1], T) /\ Decoded(T)
  BY DEF ReuseExact
<1> DEFINE more == [g EXCEPT !.rows.held = @ + 1]
<1>3. CachesOK /\ CacheTypes /\ Apart(exact, padded)
  BY DEF DInv, CachesOK
<1>4. g \in [key : Keys, rows : CacheRecord]
  BY <1>3 DEF CacheTypes
<1>5. /\ more \in [key : Keys, rows : CacheRecord] /\ more.key = Batch
      /\ more.rows.held = g.rows.held + 1
  BY <1>2, <1>4 DEF CacheRecord
<1>6. Members(g) = Rows /\ Members(more) = Rows
  BY <1>2, <1>5 DEF Members, Rows
<1>7. KeepExact(more, T)
  BY <1>2
<1> HIDE DEF more
<1>8. Avoids(padded, Rows)
  BY <1>3, <1>6 DEF Apart, Avoids
<1>9. \A h \in exact : Members(h) \cap Rows # {} => h.key = more.key
  BY <1>1, <1>5, RowFacts
<1>10. /\ CachesOK' /\ exact' \subseteq exact \cup {more}
       /\ \A r \in Rows : Held(r)' = more.rows.held
       /\ \A r \in Requests \ Rows : Held(r)' = Held(r)
  BY <1>1, <1>3, <1>5, <1>6, <1>7, <1>8, <1>9, KeepExactHolds
<1>11. \A h \in (exact' \cup padded') \ (exact \cup padded) : h.key = Batch
  BY <1>1, <1>5, <1>10
<1>12. \A r \in Rows : Held(r) = g.rows.held
  BY <1>3, <1>6, HeldHere, HeldInExact
<1>13. DOMAIN read' = Rows /\ \A r \in Rows : read'[r] = Held(r) /\ Held(r)' = Held(r) + 1
  BY <1>2, <1>5, <1>10, <1>12
<1> QED BY <1>1, <1>2, <1>10, <1>11, <1>13, DecodedGood

\* A tail grows by at most the tokens that are added.
LEMMA PendingGrows ==
    ASSUME NEW c \in CacheRecord, NEW n \in Nat
    PROVE  /\ Pending(c) \in Nat
           /\ Pending([c EXCEPT !.held = @ + n]) <= Pending(c) + n
<1>1. c.held \in Nat /\ c.routed \in Nat /\ Keep \in Nat
  BY DecodeAssumption DEF CacheRecord
<1>2. [c EXCEPT !.held = @ + n].held = c.held + n /\ [c EXCEPT !.held = @ + n].routed = c.routed
  BY DEF CacheRecord
<1> QED BY <1>1, <1>2 DEF Pending

LEMMA RangeIsFinite ==
    ASSUME NEW S, IsFiniteSet(S), NEW f, DOMAIN f = S
    PROVE  IsFiniteSet({f[x] : x \in S})
<1> DEFINE T == {f[x] : x \in S}
           h == [x \in S |-> f[x]]
<1>1. h \in Surjection(S, T)
  BY DEF Surjection
<1> HIDE DEF T, h
<1>2. IsFiniteSet(T)
  BY <1>1, FS_Surjection
<1> QED BY <1>2 DEF T

\* The forwards a new padded group is good for leave every tail below a chunk.
LEMMA ReserveLeavesRoom ==
    ASSUME DInv, InDecode, \A r \in Rows : cache[r] \in CacheRecord, ReserveSteps >= 1
    PROVE  /\ ReserveSteps \in Nat
           /\ \A r \in Rows : Pending(cache[r]) + ReserveSteps + 1 <= Chunk
<1> DEFINE tails == {Pending(cache[r]) : r \in Rows}
           left == {MaxNew - Outputs(r) : r \in Rows}
           S == {PaddedSteps, RouteMargin} \cup left
<1>1. Rows \subseteq Requests /\ Rows # {} /\ IsFiniteSet(Rows) /\ RequestsOK
  BY RowFacts DEF DInv
<1>2. {MaxNew, PaddedSteps, Chunk} \subseteq Nat \ {0}
  BY DecodeAssumption
<1>3. \A r \in Rows : Pending(cache[r]) \in Nat
  BY PendingGrows
<1>4. IsFiniteSet(tails) /\ tails \subseteq Int /\ tails # {}
  <2> DEFINE f == [r \in Rows |-> Pending(cache[r])]
  <2>1. IsFiniteSet({f[r] : r \in Rows})
    <3>1. DOMAIN f = Rows
      OBVIOUS
    <3> HIDE DEF f
    <3> QED BY <1>1, <3>1, RangeIsFinite
  <2>2. {f[r] : r \in Rows} = tails
    OBVIOUS
  <2> QED BY <1>1, <1>3, <2>1, <2>2
<1>5. Max(tails) \in tails /\ \A t \in tails : Max(tails) >= t
  <2> HIDE DEF tails
  <2> QED BY <1>4, MaxIsGreatest
<1>6. RouteMargin \in Int /\ \A r \in Rows : Pending(cache[r]) + RouteMargin + 1 <= Chunk
  <2>1. RouteMargin = Chunk - Max(tails) - 1
    BY DEF RouteMargin
  <2>2. Max(tails) \in Int /\ \A r \in Rows : Max(tails) >= Pending(cache[r])
    BY <1>4, <1>5
  <2> HIDE DEF tails
  <2> QED BY <1>2, <1>3, <2>1, <2>2
<1>7. IsFiniteSet(left) /\ left \subseteq Int
  <2> DEFINE f == [r \in Rows |-> MaxNew - Outputs(r)]
  <2>1. IsFiniteSet({f[r] : r \in Rows})
    <3>1. DOMAIN f = Rows
      OBVIOUS
    <3> HIDE DEF f
    <3> QED BY <1>1, <3>1, RangeIsFinite
  <2>2. {f[r] : r \in Rows} = left
    OBVIOUS
  <2>3. \A r \in Rows : Outputs(r) \in Int
    BY <1>1 DEF RequestsOK, Outputs
  <2>4. left \subseteq Int
    BY <1>2, <2>3
  <2> QED BY <2>1, <2>2, <2>4
<1> HIDE DEF left
<1>8. Min(S) \in Int /\ Min(S) <= RouteMargin
  <2>1. IsFiniteSet({PaddedSteps, RouteMargin})
    <3>1. IsFiniteSet({RouteMargin})
      BY FS_Singleton
    <3>2. IsFiniteSet({RouteMargin} \cup {PaddedSteps})
      BY <3>1, FS_AddElement
    <3>3. {RouteMargin} \cup {PaddedSteps} = {PaddedSteps, RouteMargin}
      OBVIOUS
    <3> QED BY <3>2, <3>3
  <2>2. IsFiniteSet(S)
    BY <1>7, <2>1, FS_Union
  <2>3. S \subseteq Int /\ S # {} /\ RouteMargin \in S
    <3>1. PaddedSteps \in Int /\ RouteMargin \in Int
      BY <1>2, <1>6
    <3> HIDE DEF tails
    <3> QED BY <1>7, <3>1
  <2> HIDE DEF S
  <2> QED BY <2>2, <2>3, MinIsLeast
<1>9. ReserveSteps = Max({0, Min(S)})
  BY DEF ReserveSteps, left
<1> HIDE DEF S
<1>10. ReserveSteps \in {0, Min(S)}
  <2>1. IsFiniteSet({0}) /\ IsFiniteSet({0} \cup {Min(S)})
    BY FS_Singleton, FS_AddElement
  <2>2. {0} \cup {Min(S)} = {0, Min(S)}
    OBVIOUS
  <2>3. {0, Min(S)} \subseteq Int /\ {0, Min(S)} # {}
    BY <1>8
  <2>4. Max({0, Min(S)}) \in {0, Min(S)}
    BY <2>1, <2>2, <2>3, MaxIsGreatest
  <2> QED BY <1>9, <2>4
<1>11. ReserveSteps = Min(S)
  BY <1>10
<1> QED BY <1>2, <1>3, <1>6, <1>8, <1>11

LEMMA StartPaddedGood ==
    ASSUME DInv, StartPadded
    PROVE  Good
<1> DEFINE g == [key |-> Batch, base |-> read', added |-> 1, room |-> ReserveSteps - 1]
<1>1. /\ InDecode /\ ~HasGroup(padded) /\ ~HasGroup(exact) /\ ReserveSteps >= 1
      /\ read' = [r \in Rows |-> cache[r].held] /\ UNCHANGED exact
  BY DEF StartPadded, NoExact
<1>2. PICK T \in SUBSET Rows : KeepPadded(g, T) /\ Decoded(T)
  BY DEF StartPadded
<1>3. /\ Avoids(exact, Rows) /\ Avoids(padded, Rows)
      /\ \A r \in Rows : Held(r) = cache[r].held /\ cache[r] \in CacheRecord
  BY <1>1, FreeRows
<1>4. Batch \in Keys /\ CachesOK
  BY <1>1, BatchFacts DEF DInv, StepOK
<1>5. /\ ReserveSteps \in Nat
      /\ \A r \in Rows : Pending(cache[r]) + ReserveSteps + 1 <= Chunk
  BY <1>1, <1>3, ReserveLeavesRoom
<1>6. /\ g.key = Batch /\ g.base = read' /\ g.added = 1 /\ g.room = ReserveSteps - 1
      /\ Members(g) = Rows
  BY DEF Members, Rows
<1>7. g \in [key : Keys, base : [Members(g) -> Nat], added : Nat, room : Nat]
  <2>1. read' \in [Rows -> Nat]
    BY <1>1, <1>3 DEF CacheRecord
  <2>2. ReserveSteps - 1 \in Nat
    BY <1>1, <1>5
  <2>3. g \in [key : Keys, base : [Rows -> Nat], added : Nat, room : Nat]
    BY <1>4, <2>1, <2>2
  <2> HIDE DEF g
  <2> QED BY <1>6, <2>3
<1> HIDE DEF g
<1>8. PaddedIsCopy(g, cache)
  <2>1. ASSUME NEW r \in Rows
        PROVE  /\ g.base[r] = cache[r].held
               /\ Pending([cache[r] EXCEPT !.held = @ + g.added + g.room]) < Chunk
    <3>1. g.base[r] = cache[r].held
      BY <1>1, <1>6
    <3>2. cache[r] \in CacheRecord /\ cache[r].held \in Nat
      BY <1>3 DEF CacheRecord
    <3>3. [cache[r] EXCEPT !.held = @ + g.added + g.room]
            = [cache[r] EXCEPT !.held = @ + ReserveSteps]
      <4>1. cache[r].held + g.added + g.room = cache[r].held + ReserveSteps
        BY <1>5, <1>6, <3>2
      <4> QED BY <4>1
    <3>4. /\ Pending(cache[r]) \in Nat
          /\ Pending([cache[r] EXCEPT !.held = @ + ReserveSteps])
               <= Pending(cache[r]) + ReserveSteps
      BY <1>5, <3>2, PendingGrows
    <3>5. Pending([cache[r] EXCEPT !.held = @ + ReserveSteps]) \in Nat
      <4>1. [cache[r] EXCEPT !.held = @ + ReserveSteps] \in CacheRecord
        BY <1>5, <3>2 DEF CacheRecord
      <4> QED BY <4>1, PendingGrows
    <3>6. Pending([cache[r] EXCEPT !.held = @ + ReserveSteps]) < Chunk
      <4>1. Chunk \in Nat
        BY DecodeAssumption
      <4>2. Pending(cache[r]) + ReserveSteps + 1 <= Chunk
        BY <1>5
      <4> QED BY <1>5, <3>4, <3>5, <4>1, <4>2
    <3> QED BY <3>1, <3>3, <3>6
  <2> QED BY <1>6, <2>1 DEF PaddedIsCopy
<1>9. \A h \in padded : Members(h) \cap Rows # {} => h.key = g.key
  BY <1>3 DEF Avoids
<1>10. /\ CachesOK' /\ padded' \subseteq padded \cup {g}
       /\ \A r \in Rows : Held(r)' = cache[r].held + g.added
       /\ \A r \in Requests \ Rows : Held(r)' = Held(r)
  BY <1>1, <1>2, <1>3, <1>4, <1>6, <1>7, <1>8, <1>9, KeepPaddedHolds
<1>11. \A h \in (exact' \cup padded') \ (exact \cup padded) : h.key = Batch
  BY <1>1, <1>6, <1>10
<1>12. DOMAIN read' = Rows /\ \A r \in Rows : read'[r] = Held(r) /\ Held(r)' = Held(r) + 1
  BY <1>1, <1>3, <1>6, <1>10
<1> QED BY <1>1, <1>2, <1>10, <1>11, <1>12, DecodedGood

LEMMA ReusePaddedGood ==
    ASSUME DInv, ReusePadded
    PROVE  Good
<1>1. InDecode /\ UNCHANGED exact
  BY DEF ReusePadded
<1>2. PICK g \in padded, T \in SUBSET Rows :
        /\ g.key = Batch /\ g.room >= 1
        /\ read' = [r \in Rows |-> g.base[r] + g.added]
        /\ KeepPadded([g EXCEPT !.added = @ + 1, !.room = @ - 1], T) /\ Decoded(T)
  BY DEF ReusePadded
<1> DEFINE more == [g EXCEPT !.added = @ + 1, !.room = @ - 1]
<1>3. CachesOK /\ CacheTypes /\ Apart(exact, padded) /\ PaddedIsCopy(g, cache)
  BY DEF DInv, CachesOK
<1>4. Members(g) = Rows /\ Rows \subseteq Requests
  BY <1>1, <1>2, RowFacts DEF Members, Rows
<1>5. g \in [key : Keys, base : [Rows -> Nat], added : Nat, room : Nat]
  BY <1>3, <1>4 DEF CacheTypes
<1>6. /\ more \in [key : Keys, base : [Rows -> Nat], added : Nat, room : Nat]
      /\ more.key = Batch /\ more.base = g.base
      /\ more.added = g.added + 1 /\ more.room = g.room - 1
  <2>1. g.added + 1 \in Nat /\ g.room - 1 \in Nat
    BY <1>2, <1>5
  <2> QED BY <1>2, <1>5, <2>1
<1>7. KeepPadded(more, T)
  BY <1>2
<1> HIDE DEF more
<1>8. Members(more) = Rows
  BY <1>6 DEF Members, Rows
<1>9. PaddedIsCopy(more, cache)
  <2>1. ASSUME NEW r \in Rows
        PROVE  /\ more.base[r] = cache[r].held
               /\ Pending([cache[r] EXCEPT !.held = @ + more.added + more.room]) < Chunk
    <3>1. /\ g.base[r] = cache[r].held
          /\ Pending([cache[r] EXCEPT !.held = @ + g.added + g.room]) < Chunk
      BY <1>3, <1>4 DEF PaddedIsCopy
    <3>2. cache[r].held \in Nat /\ g.added \in Nat /\ g.room \in Nat
      BY <1>3, <1>4, <1>5 DEF CacheTypes, CacheRecord
    <3>3. cache[r].held + more.added + more.room = cache[r].held + g.added + g.room
      BY <1>6, <3>2
    <3>4. [cache[r] EXCEPT !.held = @ + more.added + more.room]
            = [cache[r] EXCEPT !.held = @ + g.added + g.room]
      BY <3>3
    <3> QED BY <1>6, <3>1, <3>4
  <2> QED BY <1>8, <2>1 DEF PaddedIsCopy
<1>10. Avoids(exact, Rows)
  BY <1>3, <1>4 DEF Apart, Avoids
<1>11. \A h \in padded : Members(h) \cap Rows # {} => h.key = more.key
  BY <1>1, <1>6, RowFacts
<1>12. /\ CachesOK' /\ padded' \subseteq padded \cup {more}
       /\ \A r \in Rows : Held(r)' = cache[r].held + more.added
       /\ \A r \in Requests \ Rows : Held(r)' = Held(r)
  BY <1>1, <1>3, <1>6, <1>7, <1>8, <1>9, <1>10, <1>11, KeepPaddedHolds
<1>13. \A h \in (exact' \cup padded') \ (exact \cup padded) : h.key = Batch
  BY <1>1, <1>6, <1>12
<1>14. ASSUME NEW r \in Rows PROVE read'[r] = Held(r) /\ Held(r)' = Held(r) + 1
  <2>1. Held(r) = cache[r].held + g.added
    BY <1>3, <1>4, HeldHere, HeldInPadded
  <2>2. g.base[r] = cache[r].held
    BY <1>3, <1>4 DEF PaddedIsCopy
  <2>3. cache[r].held \in Nat /\ g.added \in Nat
    BY <1>3, <1>4, <1>5 DEF CacheTypes, CacheRecord
  <2> QED BY <1>2, <1>6, <1>12, <2>1, <2>2, <2>3
<1>15. DOMAIN read' = Rows
  BY <1>2
<1> QED BY <1>1, <1>2, <1>12, <1>13, <1>14, <1>15, DecodedGood

\* A forward for one batch over its rows' own caches.
LEMMA DecodeOwnGood ==
    ASSUME DInv, InDecode, NoGroup, ForwardOwn([r \in Rows |-> 1]),
           NEW T, Decoded(T), UNCHANGED <<exact, padded>>
    PROVE  Good
<1> DEFINE n == [r \in Rows |-> 1]
<1>1. Avoids(exact, Rows) /\ Avoids(padded, Rows)
  BY FreeRows DEF NoGroup, NoExact
<1>2. CachesOK /\ Rows \subseteq Requests
  BY RowFacts DEF DInv
<1>3. DOMAIN n = Rows /\ \A r \in Rows : n[r] = 1
  OBVIOUS
<1>4. ForwardOwn(n)
  OBVIOUS
<1>5. DOMAIN read' = Rows
  BY <1>3 DEF ForwardOwn
<1> HIDE DEF n
<1>6. /\ Avoids(exact \cup padded, DOMAIN n)
      /\ DOMAIN n \subseteq Requests /\ \A r \in DOMAIN n : n[r] \in Nat
  BY <1>1, <1>2, <1>3 DEF Avoids
<1>7. /\ CachesOK'
      /\ \A r \in DOMAIN n : read'[r] = Held(r) /\ Held(r)' = Held(r) + n[r]
      /\ \A r \in Requests \ DOMAIN n : Held(r)' = Held(r)
  BY <1>2, <1>4, <1>6, ForwardOwnHolds
<1>8. /\ \A r \in Rows : read'[r] = Held(r) /\ Held(r)' = Held(r) + 1
      /\ \A r \in Requests \ Rows : Held(r)' = Held(r)
  BY <1>3, <1>7
<1> QED BY <1>5, <1>7, <1>8, DecodedGood

LEMMA DecodeOnceGood ==
    ASSUME DInv, DecodeOnce \/ DecodeRows
    PROVE  Good
<1>1. /\ InDecode /\ NoGroup /\ ForwardOwn([r \in Rows |-> 1])
      /\ UNCHANGED <<exact, padded>>
      /\ \E T \in SUBSET Rows : Decoded(T)
  BY DEF DecodeOnce, DecodeRows
<1> QED BY <1>1, DecodeOwnGood

-----------------------------------------------------------------------------
(***************************************************************************)
(* The end of the step.                                                    *)
(***************************************************************************)

LEMMA PrefillGood ==
    ASSUME DInv, Prefill
    PROVE  Good
<1> DEFINE n == [r \in ToFill |-> scheduled[r]]
<1>1. RequestsOK /\ CachesOK /\ MembersDecode /\ StepOK /\ HistoryIsDue /\ CacheTypes /\ ScheduleOK
  BY DEF DInv, CachesOK, StepOK
<1>2. /\ pc = "decode" /\ pc' = "finish" /\ ForwardOwn(n) /\ ToFill # {} /\ todo = << >>
      /\ UNCHANGED requestVars /\ UNCHANGED <<exact, padded>>
      /\ scheduled' = scheduled /\ todo' = todo
  BY DEF Prefill
<1>3. /\ DOMAIN n = ToFill /\ ToFill \subseteq Requests
      /\ \A r \in ToFill : n[r] = scheduled[r] /\ scheduled[r] \in Nat \ {0} /\ r \in DOMAIN scheduled
  BY <1>1, ScheduledAreRequests DEF ToFill
<1>4. \A r \in ToFill : r \notin Decoding
  BY <1>1 DEF ToFill, RequestsOK, Filling, Decoding
<1>5. DOMAIN read' = ToFill
  BY <1>2, <1>3 DEF ForwardOwn
<1> HIDE DEF n
<1>6. /\ Avoids(exact \cup padded, DOMAIN n)
      /\ DOMAIN n \subseteq Requests /\ \A r \in DOMAIN n : n[r] \in Nat
  BY <1>1, <1>3, <1>4 DEF Avoids, MembersDecode
<1>7. /\ CachesOK'
      /\ \A r \in DOMAIN n : read'[r] = Held(r) /\ Held(r)' = Held(r) + n[r]
      /\ \A r \in Requests \ DOMAIN n : Held(r)' = Held(r)
  BY <1>1, <1>2, <1>6, ForwardOwnHolds
<1>8. RequestsOK' /\ Decoding' = Decoding /\ Filling' = Filling /\ computed' = computed
  BY <1>1, <1>2, RequestsSame
<1>9. MembersDecode'
  BY <1>1, <1>2, MembersSame
<1>10. ScheduleOK'
  BY <1>1, <1>2, <1>8 DEF ScheduleOK, ToDecode
<1>11. TodoOK' /\ GroupsFitPlan'
  <2>1. todo \in Seq(Keys) /\ DOMAIN todo = {}
    BY <1>1, <1>2 DEF StepOK, TodoOK
  <2> QED BY <1>2, <2>1 DEF TodoOK, GroupsFitPlan
<1>12. /\ \A r \in ToFill : Ahead(r) = 0 /\ Ahead(r)' = scheduled[r]
       /\ \A r \in Requests \ ToFill : Ahead(r)' = Ahead(r)
  <2>1. ToDo = {}
    BY <1>2 DEF ToDo
  <2>2. \A r \in ToFill : Ahead(r) = 0 /\ Ahead(r)' = scheduled[r]
    BY <1>2, <1>3, <1>4 DEF Ahead
  <2>3. \A r \in DOMAIN scheduled \ ToFill : r \in Decoding
    BY <1>1 DEF ScheduleOK, ToFill
  <2>4. \A r \in Requests \ ToFill : Ahead(r)' = Ahead(r)
    BY <1>2, <2>1, <2>3 DEF Ahead
  <2> QED BY <2>2, <2>4
<1>13. \A r \in ToFill : Held(r) = computed[r] /\ computed[r] \in Nat
  BY <1>1, <1>3, <1>12 DEF HistoryIsDue, RequestsOK
<1>14. HistoryIsDue'
  <2>1. \A r \in ToFill : Held(r)' = computed'[r] + Ahead(r)'
    BY <1>3, <1>7, <1>8, <1>12, <1>13
  <2>2. \A r \in Requests \ ToFill : Held(r)' = computed'[r] + Ahead(r)'
    BY <1>1, <1>3, <1>7, <1>8, <1>12 DEF HistoryIsDue
  <2> QED BY <2>1, <2>2 DEF HistoryIsDue
<1>15. ReadsWholeHistory'
  <2>1. \A r \in DOMAIN read' : read'[r] = computed'[r]
    BY <1>3, <1>5, <1>7, <1>8, <1>13
  <2> QED BY <2>1 DEF ReadsWholeHistory
<1>16. HistoryForward(ToFill)
  <2>1. \A r \in ToFill : Held(r) = computed[r] /\ Held(r)' > Held(r)
    <3> TAKE r \in ToFill
    <3>1. Held(r) = computed[r] /\ computed[r] \in Nat /\ scheduled[r] \in Nat \ {0}
      BY <1>3, <1>13
    <3>2. Held(r)' = Held(r) + scheduled[r]
      BY <1>3, <1>7
    <3> QED BY <3>1, <3>2
  <2> QED BY <1>2, <1>3, <1>7, <1>8, <2>1 DEF HistoryForward
<1>17. HistoryStep
  BY <1>3, <1>16 DEF HistoryStep
<1> QED BY <1>7, <1>8, <1>9, <1>10, <1>11, <1>14, <1>15, <1>17 DEF Good, DInv, StepOK

LEMMA StepOverIsIdle ==
    ASSUME StepOver
    PROVE  StepOK' /\ ReadsWholeHistory' /\ \A r \in Requests : Ahead(r)' = 0
<1>1. /\ pc' = "idle" /\ scheduled' = Nothing /\ DOMAIN scheduled' = {}
      /\ todo' = << >> /\ todo' \in Seq(Keys) /\ DOMAIN todo' = {} /\ read' = Nothing
  BY DEF StepOver, Nothing
<1>2. ScheduleOK' /\ TodoOK' /\ GroupsFitPlan'
  BY <1>1 DEF ScheduleOK, TodoOK, GroupsFitPlan, ToDecode
<1> QED BY <1>1, <1>2, NoReads DEF StepOK, Ahead

LEMMA FinishGood ==
    ASSUME DInv, Finish
    PROVE  Good
<1> DEFINE completed == {r \in Closing : r \in stopped \/ LastByLength(r)}
           parked == completed \cap Sessions
           gone == completed \ Sessions
           E == Touching(exact, completed)
           P == Touching(padded, completed)
<1>1. RequestsOK /\ CachesOK /\ MembersDecode /\ StepOK /\ HistoryIsDue /\ CacheTypes /\ ScheduleOK
  BY DEF DInv, CachesOK, StepOK
<1>2. /\ pc = "finish" \/ (pc = "decode" /\ todo = << >> /\ ToFill = {})
      /\ cache' = [r \in Requests |-> IF r \in gone THEN None ELSE Flushed(E, P)[r]]
      /\ exact' = exact \ E /\ padded' = padded \ P
      /\ status' = [r \in Requests |-> CASE r \in gone -> "ended"
                                         [] r \in parked -> "parked"
                                         [] OTHER -> status[r]]
      /\ computed' = [r \in Requests |->
                        CASE r \in gone -> 0
                          [] r \in DOMAIN scheduled \ gone -> computed[r] + scheduled[r]
                          [] OTHER -> computed[r]]
      /\ prompt' = prompt /\ StepOver
  BY Zenon DEF Finish
<1>3. completed \subseteq DOMAIN scheduled /\ gone \subseteq completed /\ parked \cap gone = {}
      /\ parked \cup gone = completed
  BY DEF Closing
<1>4. gone \in SUBSET Requests /\ DOMAIN scheduled \subseteq Requests
  BY <1>1, <1>3, ScheduledAreRequests
<1> HIDE DEF completed, parked, gone
<1>5. E \in SUBSET exact /\ P \in SUBSET padded /\ Avoids((exact \ E) \cup (padded \ P), completed)
  <2>1. Avoids(exact \ E, completed) /\ Avoids(padded \ P, completed)
    BY TouchingRest
  <2>2. E \in SUBSET exact /\ P \in SUBSET padded
    BY TouchingRest
  <2> HIDE DEF E, P
  <2> QED BY <2>1, <2>2 DEF Avoids
<1> HIDE DEF E, P
<1>6. CachesOK' /\ \A r \in Requests : Held(r)' = IF r \in gone THEN 0 ELSE Held(r)
  <2>1. Avoids((exact \ E) \cup (padded \ P), gone)
    BY <1>3, <1>5 DEF Avoids
  <2> QED BY <1>1, <1>2, <1>4, <1>5, <2>1, FlushKeeps
<1>7. StepOK' /\ ReadsWholeHistory' /\ \A r \in Requests : Ahead(r)' = 0
  BY <1>2, StepOverIsIdle
<1>8. \A r \in Requests : Ahead(r) = IF r \in DOMAIN scheduled THEN scheduled[r] ELSE 0
  <2>1. CASE pc = "finish"
    BY <2>1 DEF Ahead
  <2>2. CASE pc = "decode" /\ todo = << >> /\ ToFill = {}
    <3>1. ToDo = {}
      BY <2>2 DEF ToDo
    <3>2. \A r \in DOMAIN scheduled : r \in Decoding
      BY <1>1, <2>2 DEF ScheduleOK, ToFill
    <3> QED BY <2>2, <3>1, <3>2 DEF Ahead
  <2> QED BY <1>2, <2>1, <2>2
<1>9. \A r \in Requests : /\ computed[r] \in Nat /\ prompt[r] \in Nat
                          /\ r \in DOMAIN scheduled => scheduled[r] \in Nat \ {0}
  BY <1>1, ScheduledAreRequests DEF RequestsOK
<1>10. \A r \in Requests :
         /\ r \in gone => computed'[r] = 0
         /\ r \notin gone /\ r \in DOMAIN scheduled => computed'[r] = computed[r] + scheduled[r]
         /\ r \notin gone /\ r \notin DOMAIN scheduled => computed'[r] = computed[r]
  <2> TAKE r \in Requests
  <2>1. computed'[r] = CASE r \in gone -> 0
                         [] r \in DOMAIN scheduled \ gone -> computed[r] + scheduled[r]
                         [] OTHER -> computed[r]
    BY <1>2, Zenon
  <2> QED BY <2>1
<1>11. \A r \in Requests :
         /\ r \in completed => status'[r] \in {"ended", "parked"}
         /\ r \notin completed => status'[r] = status[r]
  BY <1>2, <1>3
<1>12. \A r \in Requests : computed'[r] \in Nat /\ (r \notin gone => computed'[r] >= computed[r])
  BY <1>9, <1>10
<1>13. RequestsOK'
  <2>1. status' \in [Requests -> {"new", "running", "parked", "ended"}]
    <3>1. \A r \in Requests : status'[r] \in {"new", "running", "parked", "ended"}
      BY <1>1, <1>11 DEF RequestsOK
    <3>2. status' = [r \in Requests |-> status'[r]]
      BY <1>2
    <3> QED BY <3>1, <3>2
  <2>2. computed' \in [Requests -> Nat]
    <3>1. computed' = [r \in Requests |-> computed'[r]]
      BY <1>2
    <3> QED BY <1>12, <3>1
  <2>3. \A r \in Requests : status'[r] = "new" => computed'[r] = 0
    <3>1. \A r \in DOMAIN scheduled : status[r] = "running"
      BY <1>1 DEF ScheduleOK, Decoding, Filling
    <3> QED BY <1>1, <1>3, <1>10, <1>11, <3>1 DEF RequestsOK
  <2> QED BY <1>1, <1>2, <2>1, <2>2, <2>3 DEF RequestsOK
<1>14. MembersDecode'
  <2>1. ASSUME NEW g \in exact' \cup padded' PROVE Members(g) \subseteq Decoding'
    <3>1. Members(g) \subseteq Decoding /\ Members(g) \cap completed = {}
      BY <1>1, <1>2, <1>5 DEF MembersDecode, Avoids
    <3>2. ASSUME NEW r \in Members(g) PROVE r \in Decoding'
      <4>1. /\ r \in Requests /\ status[r] = "running" /\ computed[r] >= prompt[r]
            /\ r \notin completed /\ r \notin gone
        BY <1>3, <3>1 DEF Decoding
      <4>2. status'[r] = "running" /\ computed'[r] >= prompt'[r]
        BY <1>2, <1>9, <1>11, <1>12, <4>1
      <4> QED BY <4>1, <4>2 DEF Decoding
    <3> QED BY <3>2
  <2> QED BY <2>1 DEF MembersDecode, Members
<1>15. \A r \in DOMAIN scheduled : Held(r) = computed[r] + scheduled[r]
  BY <1>1, <1>4, <1>8 DEF HistoryIsDue
<1>16. HistorySettle(DOMAIN scheduled, gone)
  <2>1. computed' = [r \in Requests |-> IF r \in gone THEN 0
                                        ELSE IF r \in DOMAIN scheduled THEN Held(r)
                                        ELSE computed[r]]
    <3>1. \A r \in Requests : computed'[r] = IF r \in gone THEN 0
                                        ELSE IF r \in DOMAIN scheduled THEN Held(r)
                                        ELSE computed[r]
      BY <1>10, <1>15
    <3>2. computed' = [r \in Requests |-> computed'[r]]
      BY <1>2
    <3> QED BY <3>1, <3>2
  <2> QED BY <1>6, <2>1 DEF HistorySettle
<1>17. HistoryIsDue'
  <2>1. ASSUME NEW r \in Requests PROVE Held(r)' = computed'[r] + Ahead(r)'
    <3>1. CASE r \in gone
      BY <1>6, <1>7, <1>10, <3>1
    <3>2. CASE r \notin gone /\ r \in DOMAIN scheduled
      BY <1>6, <1>7, <1>9, <1>10, <1>15, <3>2
    <3>3. CASE r \notin gone /\ r \notin DOMAIN scheduled
      BY <1>1, <1>6, <1>7, <1>8, <1>10, <3>3 DEF HistoryIsDue
    <3> QED BY <3>1, <3>2, <3>3
  <2> QED BY <2>1 DEF HistoryIsDue
<1>18. HistoryStep
  BY <1>4, <1>16 DEF HistoryStep
<1> QED BY <1>6, <1>7, <1>13, <1>14, <1>17, <1>18 DEF Good, DInv

\* Whoever fails a step takes along every group that the step touches, and
\* those have no other members.
LEMMA FailScheduledGood ==
    ASSUME DInv, pc \in {"mixed", "decode"}, FailScheduled
    PROVE  Good
<1> DEFINE S == DOMAIN scheduled
<1>1. RequestsOK /\ CachesOK /\ MembersDecode /\ StepOK /\ HistoryIsDue /\ CacheTypes /\ ScheduleOK
  BY DEF DInv, CachesOK, StepOK
<1>2. /\ cache' = [r \in Requests |-> IF r \in S THEN None ELSE cache[r]]
      /\ exact' = exact \ Touching(exact, S) /\ padded' = padded \ Touching(padded, S)
      /\ End(S) /\ StepOver
  BY DEF FailScheduled
<1>3. S \in SUBSET Requests
  BY <1>1, ScheduledAreRequests
<1>4. \A g \in exact \cup padded : Members(g) \cap S # {} => Members(g) \subseteq S
  BY <1>1 DEF StepOK, GroupsFitPlan, Avoids
<1> HIDE DEF S
<1>5. /\ exact' \subseteq exact /\ padded' \subseteq padded /\ Avoids(exact' \cup padded', S)
      /\ \A g \in (exact \ exact') \cup (padded \ padded') : Members(g) \subseteq S
  <2>1. Avoids(exact', S) /\ Avoids(padded', S)
    BY <1>2, TouchingRest
  <2> QED BY <1>2, <1>4, <2>1 DEF Avoids, Touching
<1>6. CachesOK' /\ \A r \in Requests : Held(r)' = IF r \in S THEN 0 ELSE Held(r)
  BY <1>1, <1>2, <1>3, <1>5, DropKeeps
<1>7. StepOK' /\ ReadsWholeHistory' /\ \A r \in Requests : Ahead(r)' = 0
  BY <1>2, StepOverIsIdle
<1>8. \A r \in Requests \ S : Ahead(r) = 0
  BY DEF Ahead, S
<1>9. RequestsOK' /\ HistoryIsDue' /\ HistoryStep
  BY <1>1, <1>2, <1>3, <1>6, <1>7, <1>8, EndSettles
<1>10. \A r \in Requests \ S :
          status'[r] = status[r] /\ prompt'[r] = prompt[r] /\ computed'[r] = computed[r]
  BY <1>2 DEF End
<1>11. MembersDecode'
  BY <1>1, <1>5, <1>10, MembersStay
<1> QED BY <1>6, <1>7, <1>9, <1>11 DEF Good, DInv

-----------------------------------------------------------------------------
(***************************************************************************)
(* The theorems.                                                           *)
(***************************************************************************)

LEMMA InitIsGood == Init => DInv
<1> SUFFICES ASSUME Init PROVE DInv
  OBVIOUS
<1>1. /\ status = [r \in Requests |-> "new"] /\ prompt = [r \in Requests |-> 0]
      /\ computed = [r \in Requests |-> 0] /\ cache = [r \in Requests |-> None]
      /\ exact = {} /\ padded = {} /\ pc = "idle" /\ todo = << >>
      /\ DOMAIN scheduled = {} /\ DOMAIN read = {}
  BY DEF Init, Nothing
<1>2. RequestsOK /\ MembersDecode /\ ReadsWholeHistory
  BY <1>1 DEF RequestsOK, MembersDecode, ReadsWholeHistory
<1>3. CachesOK
  BY <1>1 DEF CachesOK, CacheTypes, CacheRecord, None, Apart
<1>4. StepOK
  <2>1. todo \in Seq(Keys) /\ DOMAIN todo = {}
    BY <1>1
  <2> QED BY <1>1, <2>1 DEF StepOK, ScheduleOK, TodoOK, GroupsFitPlan, ToDecode
<1>5. HistoryIsDue
  <2>1. ASSUME NEW r \in Requests PROVE Held(r) = computed[r] + Ahead(r)
    <3>1. Held(r) = cache[r].held
      BY <1>1, HeldHere, HeldInOwn
    <3>2. cache[r].held = 0 /\ computed[r] = 0 /\ Ahead(r) = 0
      BY <1>1 DEF None, Ahead
    <3> QED BY <3>1, <3>2
  <2> QED BY <2>1 DEF HistoryIsDue
<1> QED BY <1>2, <1>3, <1>4, <1>5 DEF DInv

LEMMA NextIsGood ==
    ASSUME DInv, Next
    PROVE  Good
<1>1. CASE ClientOperation
  BY <1>1, AddRequestGood, ContinueSessionsGood, LeaveGood, FailUnfinishedGood
     DEF ClientOperation
<1>2. CASE /\ pc = "idle"
           /\ \E D \in SUBSET Decoding, P \in SUBSET Filling :
                \E n \in PrefillChunks(P) : Schedule(D, n)
  BY <1>2, ScheduleGood
<1>3. CASE PrepareMixed \/ RunMixed
  BY <1>3, PrepareMixedGood, RunMixedGood
<1>4. CASE /\ pc \in {"execute", "mixed"}
           /\ \E plan \in PlansOf[ToDecode] : PlanBatches(plan)
  BY <1>4, PlanBatchesGood
<1>5. CASE DecodeStep
  <2>1. CASE RouteInGroup
    BY <2>1, FailScheduledGood DEF RouteInGroup, InDecode
  <2> QED BY <1>5, <2>1, StartExactGood, ReuseExactGood, StartPaddedGood, ReusePaddedGood,
             DecodeOnceGood DEF DecodeStep
<1>6. CASE Prefill
  BY <1>6, PrefillGood
<1>7. CASE Finish
  BY <1>7, FinishGood
<1>8. CASE ForwardRaises
  BY <1>8, FailScheduledGood DEF ForwardRaises, InDecode
<1> QED BY <1>1, <1>2, <1>3, <1>4, <1>5, <1>6, <1>7, <1>8 DEF Next

LEMMA StutterIsGood ==
    ASSUME DInv, UNCHANGED vars
    PROVE  Good
<1>1. UNCHANGED requestVars /\ UNCHANGED cacheVars /\ UNCHANGED <<pc, scheduled, todo>>
      /\ read' = read
  BY DEF vars, stepVars
<1>2. RequestsOK' /\ Decoding' = Decoding /\ Filling' = Filling /\ computed' = computed
  BY <1>1, RequestsSame DEF DInv
<1>3. CachesOK' /\ \A r \in Requests : Held(r)' = Held(r)
  BY <1>1, CachesStay DEF DInv
<1>4. MembersDecode'
  BY <1>1, MembersSame DEF DInv, CachesOK, cacheVars
<1>5. StepOK'
  <2>1. ToDecode' = ToDecode
    BY <1>1, <1>2 DEF ToDecode
  <2>2. ScheduleOK' /\ TodoOK'
    BY <1>1, <1>2, <2>1 DEF DInv, StepOK, ScheduleOK, TodoOK
  <2>3. GroupsFitPlan'
    BY <1>1 DEF DInv, StepOK, GroupsFitPlan, Avoids, Members, cacheVars
  <2> QED BY <2>2, <2>3 DEF StepOK
<1>6. \A r \in Requests : Ahead(r)' = Ahead(r)
  <2>1. ToDo' = ToDo
    BY <1>1 DEF ToDo
  <2> QED BY <1>1, <1>2, <2>1 DEF Ahead
<1>7. HistoryIsDue' /\ ReadsWholeHistory'
  BY <1>1, <1>2, <1>3, <1>6 DEF DInv, HistoryIsDue, ReadsWholeHistory
<1> QED BY <1>2, <1>3, <1>4, <1>5, <1>7 DEF Good, DInv, HistoryStep, HistoryStays

\* The invariant holds in every state of every execution.
THEOREM DecodeInvariant == Spec => []DInv
<1>1. Init => DInv
  BY InitIsGood
<1>2. DInv /\ [Next]_vars => DInv'
  BY NextIsGood, StutterIsGood DEF Good
<1> QED BY <1>1, <1>2, PTL DEF Spec

\* Every forward of the engine, in whatever form the batch is decoded and
\* whatever was flushed, kept, written back or dropped before, reads for each
\* of its rows all that was computed for the request.
THEOREM WholeHistoryIsRead == Spec => []ReadsWholeHistory
<1>1. DInv => ReadsWholeHistory
  BY DEF DInv
<1> QED BY <1>1, DecodeInvariant, PTL

\* No two groups share a request, and a group has only requests that decode.
THEOREM GroupsStayApart == Spec => []GroupsAreApart
<1>1. DInv => GroupsAreApart
  BY DEF DInv, CachesOK, Apart, MembersDecode, GroupsAreApart
<1> QED BY <1>1, DecodeInvariant, PTL

\* A padded group is given only forwards that leave every tail of its rows
\* below a chunk, so that writing it back never has to fold.
THEOREM PaddedGroupsDoNotFold == Spec => []PaddedGroupsNeverFold
<1>1. DInv => PaddedGroupsNeverFold
  BY DEF DInv, CachesOK, PaddedIsCopy, PaddedGroupsNeverFold
<1> QED BY <1>1, DecodeInvariant, PTL

\* Groups are invisible: the engine implements one plain history per request,
\* which a forward reads whole and extends, and which only the end of the
\* request takes away.
THEOREM EngineImplementsHistory == Spec => IsRequestHistory
<1>1. Init => History!HistoryInit
  <2> SUFFICES ASSUME Init PROVE History!HistoryInit
    OBVIOUS
  <2>1. computed = [r \in Requests |-> 0]
    BY DEF Init
  <2>2. \A r \in Requests : Held(r) = 0
    <3> TAKE r \in Requests
    <3>1. cache[r].held = 0 /\ \A g \in exact \cup padded : r \notin Members(g)
      BY DEF Init, None
    <3> QED BY <3>1, HeldHere, HeldInOwn
  <2> QED BY <2>1, <2>2 DEF History!HistoryInit
<1>2. DInv /\ [Next]_vars => [History!HistoryNext]_(History!historyVars)
  <2> SUFFICES ASSUME DInv, [Next]_vars
               PROVE  [History!HistoryNext]_(History!historyVars)
    OBVIOUS
  <2>1. HistoryStep
    BY NextIsGood, StutterIsGood DEF Good
  <2>2. CASE HistoryStays
    BY <2>2 DEF HistoryStays, History!historyVars
  <2>3. ASSUME NEW S \in SUBSET Requests, HistoryForward(S)
        PROVE  History!HistoryNext
    <3>1. History!Forward(S)
      BY <2>3 DEF HistoryForward, History!Forward
    <3> QED BY <2>3, <3>1 DEF HistoryForward, History!HistoryNext
  <2>4. ASSUME NEW C \in SUBSET Requests, NEW D \in SUBSET Requests, HistorySettle(C, D)
        PROVE  History!HistoryNext
    <3>1. History!Settle(C, D)
      BY <2>4 DEF HistorySettle, History!Settle
    <3> QED BY <3>1 DEF History!HistoryNext
  <2> QED BY <2>1, <2>2, <2>3, <2>4 DEF HistoryStep
<1> QED BY <1>1, <1>2, DecodeInvariant, PTL DEF Spec, IsRequestHistory, History!HistorySpec

=============================================================================
