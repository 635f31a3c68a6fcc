---------------------------- MODULE ServiceProofs ----------------------------
(***************************************************************************)
(* What the books of BoundedGemmaService promise its clients, for any      *)
(* requests, ids, turns and sessions and any limits: marks, deadlines and  *)
(* completed requests are those of tracked ones, a cancel that was         *)
(* confirmed is kept, engine state always has its session, and close()     *)
(* leaves nobody waiting.                                                  *)
(***************************************************************************)
EXTENDS GemmaService, ListLemmas

-----------------------------------------------------------------------------
(***************************************************************************)
(* The inductive invariant.                                                *)
(***************************************************************************)

Status == {"NEW"} \cup LiveStatus \cup Finished
Places == {"take", "taken", "add", "start", "settle", "failing", "dying",
           "stopped", "dead"}
Worker == [at : Places, requests : Seq(Requests), turns : Seq(Turns),
           settled : SUBSET Turns, retry : Seq(Turns)]
Call   == [at : {"idle", "marked", "aborted", "done"},
           request : Requests \cup {Nobody}, result : BOOLEAN]

ServiceTypes ==
    /\ status \in [Objects -> Status]
    /\ waiting \in Seq(Objects) /\ known \subseteq Objects
    /\ pending \in Seq(Requests) /\ pending_chat \in Seq(Turns)
    /\ tracked \in Seq(Requests) /\ completed \in Seq(Requests)
    /\ cancelled \subseteq Ids /\ deadlines \subseteq Ids
    /\ DOMAIN sessions \subseteq EngineIds
    /\ sessions \in [DOMAIN sessions -> Session]
    /\ opened \in 0 .. MaxEngineIds
    /\ worker \in Worker
    /\ worker.at = "start" => worker.turns # << >>
    /\ cancel \in [Canceller -> Call]
    /\ told \subseteq Requests

\* Where a plain request is that is not finished: in a queue, in the worker's
\* hands or in the engine, unless the round that had it is failing.
Queue == ToSet(pending)
Hands == ToSet(worker.requests)

Whereabouts ==
    /\ IsInjective(pending) /\ IsInjective(worker.requests)
    /\ Queue \cap Hands = {}
    /\ \A r \in Queue \cup Hands : status[r] = "WAITING" /\ r \notin known
    /\ \A r \in Requests : Live(r) =>
          /\ r \in ToSet(tracked)
          /\ r \in Queue \cup Hands \cup known \/ worker.at = "failing"
    /\ \A r \in Requests : status[r] = "NEW" =>
          r \notin ToSet(tracked) \cup Queue \cup Hands \cup known \cup told
    /\ Hands # {} => worker.at \in {"taken", "add"}
    /\ \A c \in Canceller : cancel[c].request # Nobody =>
          status[cancel[c].request] # "NEW" /\ cancel[c].request \notin Queue
    /\ told \cap Queue = {}

\* The engine knows whatever it has queued or runs.
EngineKnows ==
    /\ \A o \in ToSet(waiting) : status[o] = "WAITING" /\ o \in known
    /\ \A o \in Objects : status[o] \in {"RUNNING", "PARKED"} => o \in known
    /\ \A r \in Requests : status[r] \notin {"PARKED", "CLOSED"}

\* A finished request that is remembered has neither mark nor deadline.
CompletedAreSettled ==
    \A r \in ToSet(completed) : IdOf[r] \notin cancelled /\ IdOf[r] \notin deadlines

\* A call that is still on its way.
Asks(c, r, at) == cancel[c].request = r /\ cancel[c].at \in at

\* Why a mark is there: somebody will remove it, the worker will find it, or
\* everything is about to fail.
MarksHaveReason ==
    /\ \A c \in Canceller :
          cancel[c].request # Nobody <=> cancel[c].at \in {"marked", "aborted"}
    /\ \A i \in cancelled : TrackedAs(i) # {}
    /\ \A r \in ToSet(tracked) : IdOf[r] \in cancelled =>
          \/ r \in Hands
          \/ worker.at = "failing" /\ Live(r) /\ r \notin known
          \/ \E c \in Canceller : Asks(c, r, {"marked"})
          \/ IsFinished(r) /\ \E c \in Canceller : Asks(c, r, {"aborted"})

\* No other request that was sent has the id.
Unique(r) == \A q \in Requests : IdOf[q] = IdOf[r] /\ status[q] # "NEW" => q = r

\* Somebody was told that r is cancelled, or is about to be.
Promised(r) ==
    \/ r \in told
    \/ \E c \in Canceller : Asks(c, r, {"aborted"}) /\ cancel[c].result

PromisesKept ==
    \A r \in Requests : Unique(r) =>
        /\ r \in Hands /\ (r \in told \/ \E c \in Canceller : cancel[c].request = r)
             => IdOf[r] \in cancelled
        /\ Promised(r) => \/ status[r] \in {"ABORTED", "ERROR"}
                          \/ r \in Hands
                          \/ worker.at = "failing" /\ Live(r) /\ r \notin known

BooksPart ==
    /\ BooksAgree /\ Whereabouts
    /\ CompletedAreSettled /\ MarksHaveReason /\ PromisesKept

BooksInv == ServiceTypes /\ EngineKnows /\ BooksPart

-----------------------------------------------------------------------------
(***************************************************************************)
(* Sequences.                                                              *)
(***************************************************************************)

\* What holds of 0 and goes from k - 1 to k holds up to n.
LEMMA UpTo ==
    ASSUME NEW n \in Nat, NEW G, 0 \in G, \A k \in 1 .. n : k - 1 \in G => k \in G
    PROVE  0 .. n \subseteq G
<1> DEFINE B == (0 .. n) \ G
<1>1. SUFFICES ASSUME B # {} PROVE FALSE
  OBVIOUS
<1>2. IsFiniteSet(B) /\ B \subseteq Int
  <2>1. IsFiniteSet(0 .. n)
    BY FS_Interval
  <2> QED BY <2>1, FS_Subset
<1>3. PICK m \in B : \A y \in B : m <= y
  <2> HIDE DEF B
  <2> QED BY <1>1, <1>2, LeastExists
<1>4. m \in 1 .. n /\ m - 1 \in 0 .. n
  OBVIOUS
<1>5. m - 1 \notin B
  BY <1>3, <1>4
<1> QED BY <1>4, <1>5

LEMMA AppendSet ==
    ASSUME NEW S, NEW s \in Seq(S), NEW e \in S
    PROVE  /\ Append(s, e) \in Seq(S)
           /\ ToSet(Append(s, e)) = ToSet(s) \cup {e}
<1> DEFINE t == Append(s, e)
<1>1. /\ t \in Seq(S) /\ Len(t) = Len(s) + 1 /\ t[Len(s) + 1] = e
      /\ \A i \in 1 .. Len(s) : t[i] = s[i]
  OBVIOUS
<1> HIDE DEF t
<1>2. ToSet(t) = ToSet(s) \cup {e}
  BY <1>1 DEF ToSet
<1> QED BY <1>1, <1>2 DEF t

\* The function that Only computes up to k.
Keeps(g, s, S, k) ==
    g = [i \in 0 .. k |->
            IF i = 0 THEN << >>
            ELSE IF s[i] \in S THEN Append(g[i - 1], s[i]) ELSE g[i - 1]]

LEMMA KeepsExists ==
    ASSUME NEW s, NEW S, NEW n \in Nat
    PROVE  \E g : Keeps(g, s, S, n)
<1> DEFINE G == {k \in 0 .. n : \E g : Keeps(g, s, S, k)}
<1>1. 0 \in G
  <2>1. Keeps([i \in 0 .. 0 |-> << >>], s, S, 0)
    BY DEF Keeps
  <2> QED BY <2>1
<1>2. ASSUME NEW k \in 1 .. n, k - 1 \in G PROVE k \in G
  <2>1. PICK g : Keeps(g, s, S, k - 1)
    BY <1>2
  <2> DEFINE h == [i \in 0 .. k |->
                      IF i < k THEN g[i]
                      ELSE IF s[i] \in S THEN Append(g[i - 1], s[i]) ELSE g[i - 1]]
  <2>2. \A i \in 0 .. k - 1 :
          g[i] = IF i = 0 THEN << >>
                 ELSE IF s[i] \in S THEN Append(g[i - 1], s[i]) ELSE g[i - 1]
    <3>1. \A i \in 0 .. k - 1 :
            [j \in 0 .. k - 1 |->
                IF j = 0 THEN << >>
                ELSE IF s[j] \in S THEN Append(g[j - 1], s[j]) ELSE g[j - 1]][i]
            = IF i = 0 THEN << >>
              ELSE IF s[i] \in S THEN Append(g[i - 1], s[i]) ELSE g[i - 1]
      OBVIOUS
    <3> QED BY <2>1, <3>1, Zenon DEF Keeps
  <2>3. \A i \in 0 .. k : i # 0 => h[i - 1] = g[i - 1]
    OBVIOUS
  <2>4. \A i \in 0 .. k :
          h[i] = IF i = 0 THEN << >>
                 ELSE IF s[i] \in S THEN Append(h[i - 1], s[i]) ELSE h[i - 1]
    <3> TAKE i \in 0 .. k
    <3>1. CASE i < k
      <4>1. i \in 0 .. k - 1 /\ h[i] = g[i]
        BY <3>1
      <4> HIDE DEF h
      <4> QED BY <2>2, <2>3, <4>1
    <3>2. CASE i = k
      <4>1. h[k] = IF s[k] \in S THEN Append(g[k - 1], s[k]) ELSE g[k - 1]
        OBVIOUS
      <4> HIDE DEF h
      <4> QED BY <2>3, <3>2, <4>1
    <3> QED BY <3>1, <3>2
  <2>5. Keeps(h, s, S, k)
    <3>1. h = [i \in 0 .. k |-> h[i]]
      OBVIOUS
    <3> HIDE DEF h
    <3> QED BY <2>4, <3>1 DEF Keeps
  <2> HIDE DEF h
  <2> QED BY <2>5
<1>3. 0 .. n \subseteq G
  <2> HIDE DEF G
  <2> QED BY <1>1, <1>2, UpTo
<1> QED BY <1>3

\* What Only keeps: what is in S, in no other order.
LEMMA OnlyKeeps ==
    ASSUME NEW X, NEW S, NEW s \in Seq(X)
    PROVE  /\ Only(s, S) \in Seq(X)
           /\ ToSet(Only(s, S)) = ToSet(s) \cap S
           /\ IsInjective(s) => IsInjective(Only(s, S))
<1> DEFINE n == Len(s)
           h == CHOOSE g : Keeps(g, s, S, n)
           has(i) == {s[j] : j \in 1 .. i} \cap S
           Good(i) == /\ h[i] \in Seq(X) /\ ToSet(h[i]) = has(i)
                      /\ IsInjective(s) => IsInjective(h[i])
           G == {i \in 0 .. n : Good(i)}
<1>1. n \in Nat /\ \A j \in 1 .. n : s[j] \in X
  OBVIOUS
<1>2. Keeps(h, s, S, n)
  <2> HIDE DEF n
  <2>1. \E g : Keeps(g, s, S, n)
    BY <1>1, KeepsExists
  <2> QED BY <2>1, Zenon
<1>3. Only(s, S) = h[n]
  BY DEF Only, Keeps
<1> HIDE DEF h, n
<1>4. \A i \in 0 .. n :
        h[i] = IF i = 0 THEN << >>
               ELSE IF s[i] \in S THEN Append(h[i - 1], s[i]) ELSE h[i - 1]
  <2>1. \A i \in 0 .. n :
          [j \in 0 .. n |->
              IF j = 0 THEN << >>
              ELSE IF s[j] \in S THEN Append(h[j - 1], s[j]) ELSE h[j - 1]][i]
          = IF i = 0 THEN << >>
            ELSE IF s[i] \in S THEN Append(h[i - 1], s[i]) ELSE h[i - 1]
    OBVIOUS
  <2> QED BY <1>2, <2>1, Zenon DEF Keeps
<1>5. 0 \in G
  <2>4. 0 \in 0 .. n
    BY <1>1
  <2>1. h[0] = << >>
    BY <1>4, <2>4, Zenon
  <2>2. << >> \in Seq(X) /\ ToSet(<< >>) = {} /\ IsInjective(<< >>)
    BY DEF ToSet, IsInjective
  <2>3. has(0) = {}
    OBVIOUS
  <2> HIDE DEF has
  <2>5. Good(0)
    BY <2>1, <2>2, <2>3
  <2> HIDE DEF Good
  <2> QED BY <2>4, <2>5
<1>6. ASSUME NEW k \in 1 .. n, k - 1 \in G PROVE k \in G
  <2> DEFINE t == h[k - 1]
  <2>0. Good(k - 1)
    <3> HIDE DEF Good
    <3> QED BY <1>6
  <2>1. /\ t \in Seq(X) /\ ToSet(t) = has(k - 1)
        /\ IsInjective(s) => IsInjective(t)
    <3> HIDE DEF has
    <3> QED BY <2>0
  <2>2. k \in 0 .. n /\ k # 0 /\ s[k] \in X
    BY <1>1
  <2>3. h[k] = IF s[k] \in S THEN Append(t, s[k]) ELSE t
    BY <1>4, <2>2
  <2>4. has(k) = has(k - 1) \cup ({s[k]} \cap S)
    <3>1. \A j \in 1 .. k : j \in 1 .. k - 1 \/ j = k
      BY <1>1
    <3>2. \A j \in 1 .. k - 1 : j \in 1 .. k
      BY <1>1
    <3>3. {s[j] : j \in 1 .. k} = {s[j] : j \in 1 .. k - 1} \cup {s[k]}
      <4>1. k \in 1 .. k
        BY <1>1
      <4> QED BY <3>1, <3>2, <4>1
    <3> QED BY <3>3
  <2>5. CASE s[k] \notin S
    <3>1. h[k] = t /\ has(k) = has(k - 1)
      BY <2>3, <2>4, <2>5
    <3> HIDE DEF t, has
    <3> QED BY <2>1, <2>2, <3>1
  <2>6. CASE s[k] \in S
    <3>1. Append(t, s[k]) \in Seq(X) /\ ToSet(Append(t, s[k])) = ToSet(t) \cup {s[k]}
      BY <2>1, <2>2, AppendSet
    <3>2. ASSUME IsInjective(s) PROVE IsInjective(Append(t, s[k]))
      <4>1. s[k] \notin ToSet(t)
        <5>1. \A j \in 1 .. k - 1 : j \in DOMAIN s /\ k \in DOMAIN s /\ j # k
          BY <1>1 DEF n
        <5>2. \A j \in 1 .. k - 1 : s[j] # s[k]
          BY <3>2, <5>1 DEF IsInjective
        <5> QED BY <2>1, <5>2
      <4> QED BY <2>1, <2>2, <3>2, <4>1, AppendFresh
    <3>3. h[k] = Append(t, s[k]) /\ has(k) = has(k - 1) \cup {s[k]}
      BY <2>3, <2>4, <2>6
    <3> HIDE DEF t, has
    <3> QED BY <2>1, <2>2, <3>1, <3>2, <3>3
  <2> QED BY <2>5, <2>6
<1>7. n \in G
  <2> HIDE DEF G
  <2>1. 0 .. n \subseteq G
    BY <1>1, <1>5, <1>6, UpTo
  <2> QED BY <1>1, <2>1
<1>8. has(n) = ToSet(s) \cap S
  BY <1>1 DEF n, ToSet
<1> QED BY <1>3, <1>7, <1>8

LEMMA WithoutKeeps ==
    ASSUME NEW X, NEW S, NEW s \in Seq(X)
    PROVE  /\ Without(s, S) \in Seq(X)
           /\ ToSet(Without(s, S)) = ToSet(s) \ S
           /\ IsInjective(s) => IsInjective(Without(s, S))
<1>1. ToSet(s) \cap (ToSet(s) \ S) = ToSet(s) \ S
  OBVIOUS
<1> QED BY <1>1, OnlyKeeps, Zenon DEF Without

\* Joining two lists that share nothing.
LEMMA JoinApart ==
    ASSUME NEW X, NEW s \in Seq(X), NEW w \in Seq(X)
    PROVE  /\ s \o w \in Seq(X) /\ ToSet(s \o w) = ToSet(s) \cup ToSet(w)
           /\ IsInjective(s) /\ IsInjective(w) /\ ToSet(s) \cap ToSet(w) = {}
                => IsInjective(s \o w)
<1> DEFINE t == s \o w
<1>1. /\ t \in Seq(X) /\ Len(t) = Len(s) + Len(w)
      /\ \A i \in 1 .. Len(s) : t[i] = s[i]
      /\ \A i \in Len(s) + 1 .. Len(s) + Len(w) : t[i] = w[i - Len(s)]
  BY Joined
<1>2. Len(s) \in Nat /\ Len(w) \in Nat
  OBVIOUS
<1> HIDE DEF t
<1>3. DOMAIN t = 1 .. Len(s) + Len(w) /\ DOMAIN s = 1 .. Len(s) /\ DOMAIN w = 1 .. Len(w)
  BY <1>1
<1>4. ASSUME NEW i \in DOMAIN t
      PROVE  \/ i \in DOMAIN s /\ t[i] = s[i]
             \/ i - Len(s) \in DOMAIN w /\ t[i] = w[i - Len(s)]
  BY <1>1, <1>2, <1>3
<1>5. ToSet(t) = ToSet(s) \cup ToSet(w)
  <2>1. ASSUME NEW x \in ToSet(t) PROVE x \in ToSet(s) \cup ToSet(w)
    BY <1>4 DEF ToSet
  <2>2. ASSUME NEW x \in ToSet(s) PROVE x \in ToSet(t)
    <3>1. PICK i \in DOMAIN s : x = s[i]
      BY DEF ToSet
    <3>2. i \in DOMAIN t /\ t[i] = s[i]
      BY <1>1, <1>2, <1>3
    <3> QED BY <3>1, <3>2 DEF ToSet
  <2>3. ASSUME NEW x \in ToSet(w) PROVE x \in ToSet(t)
    <3>1. PICK i \in DOMAIN w : x = w[i]
      BY DEF ToSet
    <3> DEFINE k == Len(s) + i
    <3>2. k \in Len(s) + 1 .. Len(s) + Len(w) /\ k - Len(s) = i /\ k \in DOMAIN t
      BY <1>2, <1>3, <3>1
    <3> HIDE DEF k
    <3>3. t[k] = w[i]
      BY <1>1, <3>2
    <3> QED BY <3>1, <3>2, <3>3 DEF ToSet
  <2> QED BY <2>1, <2>2, <2>3
<1>6. ASSUME IsInjective(s), IsInjective(w), ToSet(s) \cap ToSet(w) = {}
      PROVE  IsInjective(t)
  <2>1. SUFFICES ASSUME NEW i \in DOMAIN t, NEW j \in DOMAIN t, t[i] = t[j]
                 PROVE  i = j
    BY DEF IsInjective
  <2>2. i \in Nat /\ j \in Nat
    BY <1>3
  <2>3. \A x \in DOMAIN s, y \in DOMAIN w : s[x] # w[y]
    BY <1>6 DEF ToSet
  <2>4. CASE i \in DOMAIN s /\ t[i] = s[i]
    <3>1. j \in DOMAIN s /\ t[j] = s[j]
      BY <1>4, <2>1, <2>3, <2>4
    <3> QED BY <1>6, <2>1, <2>4, <3>1 DEF IsInjective
  <2>5. CASE i - Len(s) \in DOMAIN w /\ t[i] = w[i - Len(s)]
    <3>1. j - Len(s) \in DOMAIN w /\ t[j] = w[j - Len(s)]
      BY <1>4, <2>1, <2>3, <2>5
    <3>2. i - Len(s) = j - Len(s)
      BY <1>6, <2>1, <2>5, <3>1 DEF IsInjective
    <3> QED BY <1>2, <2>2, <3>2
  <2> QED BY <1>4, <2>4, <2>5
<1> QED BY <1>1, <1>5, <1>6 DEF t

\* Dropping the front of a list without duplicates drops a set.
LEMMA DropsSet ==
    ASSUME NEW X, NEW s \in Seq(X), IsInjective(s), NEW n \in 0 .. Len(s)
    PROVE  LET t == SubSeq(s, n + 1, Len(s))
               u == SubSeq(s, 1, n) IN
           /\ t \in Seq(X) /\ IsInjective(t) /\ Len(t) = Len(s) - n
           /\ ToSet(t) = ToSet(s) \ ToSet(u) /\ ToSet(u) \subseteq ToSet(s)
<1> DEFINE t == SubSeq(s, n + 1, Len(s))
           u == SubSeq(s, 1, n)
<1>1. t \in Seq(X) /\ IsInjective(t) /\ Len(t) = Len(s) - n
  BY DropFront, DropFrontInjective
<1>2. ToSet(u) = {s[i] : i \in 1 .. n}
  BY TakeFront DEF ToSet
<1>3. ToSet(t) = ToSet(s) \ {s[i] : i \in 1 .. n}
  BY DropFrontInjective
<1>4. {s[i] : i \in 1 .. n} \subseteq ToSet(s)
  BY DEF ToSet
<1> QED BY <1>1, <1>2, <1>3, <1>4

-----------------------------------------------------------------------------
(***************************************************************************)
(* The books.                                                              *)
(***************************************************************************)

LEMMA Distinct ==
    /\ Nobody \notin Requests \cup Turns /\ Requests \cap EngineIds = {}
    /\ Requests \subseteq Objects /\ EngineIds \subseteq Objects
    /\ \A r \in Requests : IdOf[r] \in Ids
    /\ \A t \in Turns : SessionOf[t] \in Sessions
    /\ NoId \notin EngineIds
  BY ServiceAssumption DEF Nobody, EngineIds, Objects, NoId

\* What is recorded, as statuses are st: nothing that was remembered has a mark
\* or a deadline.
Records(st, first, rest, marks, due) ==
    /\ first \in SUBSET Requests /\ rest \in SUBSET Requests
    /\ marks \in SUBSET Ids /\ due \in SUBSET deadlines
    /\ \A r \in ToSet(tracked) : IsFinished(r) => st[r] \in Finished
    /\ \A r \in ToSet(completed) : IdOf[r] \notin marks /\ IdOf[r] \notin due
    /\ \A r \in Requests : status'[r] = st[r]
    /\ RecordAndTrim(st, first, rest, marks, due)

\* _record_completed_locked and _trim_completed_locked keep the books in order,
\* if what they start from is: nothing that is not finished is forgotten, and
\* what is recorded or forgotten leaves no mark.
LEMMA RecordKeeps ==
    ASSUME tracked \in Seq(Requests), completed \in Seq(Requests), BooksAgree,
           NEW st, NEW first, NEW rest, NEW marks, NEW due,
           Records(st, first, rest, marks, due)
    PROVE  /\ BooksAgree' /\ CompletedAreSettled'
           /\ tracked' \in Seq(Requests) /\ completed' \in Seq(Requests)
           /\ cancelled' \subseteq marks /\ deadlines' \subseteq due
           /\ ToSet(tracked') \subseteq ToSet(tracked)
           /\ \A r \in ToSet(tracked) :
                 r \in ToSet(tracked') \/ (st[r] \in Finished /\ IdOf[r] \notin cancelled')
           /\ \A r \in ToSet(tracked) \cap (first \cup rest) :
                 st[r] \in Finished => IdOf[r] \notin cancelled'
           /\ \A i \in marks : \/ i \in cancelled'
                               \/ \E r \in ToSet(tracked) : IdOf[r] = i /\ st[r] \in Finished
<1> USE DEF Records
<1> DEFINE due1(S) == {r \in S : st[r] \in Finished /\ r \notin ToSet(completed)}
           new(S)  == Only(tracked, due1(S))
           fresh   == new(first) \o new(rest \ first)
           all     == completed \o fresh
           drop    == IF Len(all) > MaxCompleted THEN Len(all) - MaxCompleted ELSE 0
           gone    == SubSeq(all, 1, drop)
           over    == ToSet(gone)
           ids     == {IdOf[r] : r \in ToSet(fresh)}
<1>1. /\ completed' = SubSeq(all, drop + 1, Len(all))
      /\ tracked' = Without(tracked, over)
      /\ cancelled' = marks \ ids /\ deadlines' = due \ ids
  BY Zenon DEF RecordAndTrim, StillDue
<1>2. \A S : /\ new(S) \in Seq(Requests) /\ IsInjective(new(S))
             /\ ToSet(new(S)) = ToSet(tracked) \cap due1(S)
  <2> HIDE DEF due1
  <2> QED BY OnlyKeeps DEF BooksAgree
<1> HIDE DEF new
<1>3. /\ fresh \in Seq(Requests) /\ IsInjective(fresh)
      /\ ToSet(fresh) = ToSet(tracked) \cap due1(first \cup rest)
  <2>1. /\ fresh \in Seq(Requests)
        /\ ToSet(fresh) = ToSet(new(first)) \cup ToSet(new(rest \ first))
    BY <1>2, JoinApart
  <2>2. ToSet(new(first)) \cap ToSet(new(rest \ first)) = {}
    BY <1>2
  <2>3. IsInjective(fresh)
    BY <1>2, <2>2, JoinApart
  <2>4. ToSet(fresh) = ToSet(tracked) \cap due1(first \cup rest)
    BY <1>2, <2>1
  <2> QED BY <2>1, <2>3, <2>4
<1> HIDE DEF fresh
<1>4. /\ all \in Seq(Requests) /\ IsInjective(all)
      /\ ToSet(all) = ToSet(completed) \cup ToSet(fresh)
  <2>1. ToSet(completed) \cap ToSet(fresh) = {}
    BY <1>3
  <2> QED BY <1>3, <2>1, JoinApart DEF BooksAgree
<1>5. drop \in 0 .. Len(all) /\ Len(all) - drop <= MaxCompleted
  <2>1. Len(all) \in Nat /\ MaxCompleted \in Nat
    BY <1>4, ServiceAssumption
  <2> HIDE DEF all
  <2> QED BY <2>1
<1> HIDE DEF all, drop
<1>6. /\ completed' \in Seq(Requests) /\ IsInjective(completed')
      /\ Len(completed') = Len(all) - drop
      /\ ToSet(completed') = ToSet(all) \ over /\ over \subseteq ToSet(all)
  BY <1>1, <1>4, <1>5, DropsSet
<1> HIDE DEF gone
<1>7. /\ tracked' \in Seq(Requests) /\ IsInjective(tracked')
      /\ ToSet(tracked') = ToSet(tracked) \ over
  BY <1>1, WithoutKeeps DEF BooksAgree
<1>8. \A r \in ToSet(all) : /\ r \in ToSet(tracked) /\ st[r] \in Finished
                            /\ r \in ToSet(completed) \/ IdOf[r] \in ids
  BY <1>3, <1>4 DEF BooksAgree
<1>9. \A r \in ToSet(all) : IdOf[r] \notin cancelled' /\ IdOf[r] \notin deadlines'
  BY <1>1, <1>8
<1>10. ToSet(tracked) \subseteq Requests
  BY DEF ToSet
<1>11. \A i \in ids : \E r \in ToSet(tracked) : IdOf[r] = i /\ st[r] \in Finished
  BY <1>3
<1> HIDE DEF over, ids
<1>12. BooksAgree'
  <2>1. \A r, q \in ToSet(tracked') : IdOf[r] = IdOf[q] => r = q
    BY <1>7 DEF BooksAgree
  <2>2. deadlines' \subseteq {IdOf[r] : r \in ToSet(tracked')}
    <3> SUFFICES ASSUME NEW i \in deadlines' PROVE \E r \in ToSet(tracked') : i = IdOf[r]
      OBVIOUS
    <3>1. i \in deadlines
      BY <1>1
    <3>2. PICK r \in ToSet(tracked) : i = IdOf[r]
      BY <3>1 DEF BooksAgree
    <3>3. r \notin ToSet(all)
      BY <1>9, <3>2
    <3> QED BY <1>6, <1>7, <3>2, <3>3
  <2>3. \A r \in ToSet(completed') : r \in ToSet(tracked') /\ status'[r] \in Finished
    BY <1>6, <1>7, <1>8, <1>10
  <2>4. Len(completed') <= MaxCompleted
    BY <1>5, <1>6
  <2> QED BY <1>6, <1>7, <2>1, <2>2, <2>3, <2>4 DEF BooksAgree, IsFinished
<1>13. CompletedAreSettled'
  BY <1>6, <1>9 DEF CompletedAreSettled
<1>14. \A r \in ToSet(tracked) :
          r \in ToSet(tracked') \/ (st[r] \in Finished /\ IdOf[r] \notin cancelled')
  BY <1>6, <1>7, <1>8, <1>9
<1>15. \A r \in ToSet(tracked) \cap (first \cup rest) :
          st[r] \in Finished => IdOf[r] \notin cancelled'
  <2> TAKE r \in ToSet(tracked) \cap (first \cup rest)
  <2>1. st[r] \in Finished => r \in ToSet(all)
    BY <1>3, <1>4
  <2> QED BY <1>9, <2>1
<1> QED BY <1>1, <1>6, <1>7, <1>11, <1>12, <1>13, <1>14, <1>15

LEMMA StatusesDiffer ==
    /\ LiveStatus \cap Finished = {} /\ "NEW" \notin LiveStatus \cup Finished
    /\ {"ABORTED", "ERROR"} \subseteq Finished /\ "WAITING" \in LiveStatus
    /\ \A o \in Objects : status \in [Objects -> Status] =>
          status[o] = "NEW" \/ Live(o) \/ IsFinished(o)
  BY DEF LiveStatus, Finished, Status, Live, IsFinished

\* The requests of G end where they are, which the books learn at once: an
\* expired deadline, a cancel in the queue, a round that fails.
EndIn(G, st, first, rest, marks, due) ==
    /\ G \in SUBSET Requests
    /\ \A r \in G : Live(r) /\ status'[r] \in {"ABORTED", "ERROR"}
    /\ \A r \in Requests \ G : status'[r] = status[r]
    /\ \A r \in Requests : status'[r] = st[r]
    /\ first \in SUBSET Requests /\ rest \in SUBSET Requests
    /\ G \subseteq first \cup rest
    /\ marks \in SUBSET cancelled /\ due \in SUBSET deadlines
    /\ \A i \in cancelled \ marks : \A r \in TrackedAs(i) : st[r] \in Finished
    /\ RecordAndTrim(st, first, rest, marks, due)
    /\ IsInjective(pending') /\ IsInjective(worker'.requests)
    /\ Queue' \subseteq Queue /\ Queue' \cap Hands' = {} /\ Hands \ G \subseteq Hands'
    /\ Queue' \cup Hands' = (Queue \cup Hands) \ G
    /\ Hands' # {} => worker'.at \in {"taken", "add"}
    /\ known' \cap Requests = known \cap Requests
    /\ worker.at = "failing" =>
           worker'.at = "failing" \/ \A r \in Requests : Live(r) => r \in G
    /\ \A c \in Canceller :
           /\ cancel'[c].request = cancel[c].request
           /\ cancel[c].request # Nobody => cancel'[c] = cancel[c]
           /\ cancel'[c].request # Nobody <=> cancel'[c].at \in {"marked", "aborted"}
    /\ told' \subseteq told \cup G

LEMMA EndsKeep ==
    ASSUME BooksInv, NEW G, NEW st, NEW first, NEW rest, NEW marks, NEW due,
           EndIn(G, st, first, rest, marks, due)
    PROVE  /\ BooksPart'
           /\ tracked' \in Seq(Requests) /\ completed' \in Seq(Requests)
           /\ cancelled' \subseteq Ids /\ deadlines' \subseteq Ids
<1> USE DEF EndIn
<1>1. /\ status \in [Objects -> Status] /\ tracked \in Seq(Requests)
      /\ completed \in Seq(Requests) /\ cancelled \subseteq Ids /\ deadlines \subseteq Ids
      /\ Requests \subseteq Objects /\ ToSet(tracked) \subseteq Requests
      /\ ToSet(completed) \subseteq Requests
      /\ Queue \cup Hands \subseteq Requests
      /\ \A c \in Canceller : cancel[c].request \in Requests \cup {Nobody}
  <2>1. worker.requests \in Seq(Requests)
    BY DEF BooksInv, ServiceTypes, Worker
  <2>2. \A c \in Canceller : cancel[c].request \in Requests \cup {Nobody}
    BY DEF BooksInv, ServiceTypes, Call
  <2> QED BY <2>1, <2>2, Distinct DEF BooksInv, ServiceTypes, ToSet, Queue, Hands
<1>2. /\ BooksAgree /\ Whereabouts /\ CompletedAreSettled /\ MarksHaveReason
      /\ PromisesKept
  BY DEF BooksInv, BooksPart
<1>3. /\ \A r \in Requests : status[r] = "NEW" \/ Live(r) \/ IsFinished(r)
      /\ \A r \in Requests : ~(Live(r) /\ IsFinished(r))
      /\ \A r \in Requests : status[r] = "NEW" => ~Live(r) /\ ~IsFinished(r)
      /\ \A r \in G : st[r] \in Finished /\ st[r] # "NEW" /\ st[r] \notin LiveStatus
      /\ \A r \in Requests : status[r] = "WAITING" => Live(r)
  BY <1>1, StatusesDiffer DEF Live, IsFinished
<1>4. /\ BooksAgree' /\ CompletedAreSettled'
      /\ tracked' \in Seq(Requests) /\ completed' \in Seq(Requests)
      /\ cancelled' \subseteq marks /\ deadlines' \subseteq due
      /\ ToSet(tracked') \subseteq ToSet(tracked)
      /\ \A r \in ToSet(tracked) :
            r \in ToSet(tracked') \/ (st[r] \in Finished /\ IdOf[r] \notin cancelled')
      /\ \A r \in ToSet(tracked) \cap (first \cup rest) :
            st[r] \in Finished => IdOf[r] \notin cancelled'
      /\ \A i \in marks : \/ i \in cancelled'
                          \/ \E r \in ToSet(tracked) : IdOf[r] = i /\ st[r] \in Finished
  <2>1. marks \in SUBSET Ids
    BY <1>1
  <2>2. \A r \in ToSet(tracked) : IsFinished(r) => st[r] \in Finished
    BY <1>1, <1>3 DEF IsFinished
  <2>3. \A r \in ToSet(completed) : IdOf[r] \notin marks /\ IdOf[r] \notin due
    BY <1>2 DEF CompletedAreSettled
  <2>4. Records(st, first, rest, marks, due)
    BY <2>1, <2>2, <2>3 DEF Records
  <2> QED BY <1>1, <1>2, <2>4, RecordKeeps
<1> HIDE DEF BooksInv
<1>5. \A r \in G : r \in ToSet(tracked) /\ IdOf[r] \notin cancelled'
  BY <1>2, <1>3, <1>4 DEF Whereabouts
<1>6. \A r \in Requests : (st[r] \in LiveStatus \/ st[r] = "NEW") =>
          r \notin G /\ status'[r] = status[r]
  BY <1>3
\* A mark stays as long as the request that it is for goes on.
<1>7. \A r \in ToSet(tracked) :
          Live(r) /\ r \notin G /\ IdOf[r] \in cancelled => IdOf[r] \in cancelled'
  <2> SUFFICES ASSUME NEW r \in ToSet(tracked), Live(r), r \notin G, IdOf[r] \in cancelled
               PROVE  IdOf[r] \in cancelled'
    OBVIOUS
  <2>1. st[r] \notin Finished
    BY <1>1, <1>3 DEF IsFinished
  <2>2. r \in TrackedAs(IdOf[r])
    BY DEF TrackedAs
  <2>3. IdOf[r] \in marks
    BY <2>1, <2>2
  <2>4. \A q \in ToSet(tracked) : IdOf[q] = IdOf[r] => q = r
    BY <1>2 DEF BooksAgree
  <2> QED BY <1>4, <2>1, <2>3, <2>4
<1>8. Whereabouts'
  <2>1. \A r \in Queue' \cup Hands' : status'[r] = "WAITING" /\ r \notin known'
    BY <1>1, <1>2 DEF Whereabouts
  <2>2. \A r \in Requests : status'[r] \in LiveStatus =>
            /\ r \in ToSet(tracked')
            /\ r \in Queue' \cup Hands' \cup known' \/ worker'.at = "failing"
    <3> SUFFICES ASSUME NEW r \in Requests, status'[r] \in LiveStatus
                 PROVE  /\ r \in ToSet(tracked')
                        /\ r \in Queue' \cup Hands' \cup known' \/ worker'.at = "failing"
      OBVIOUS
    <3>1. r \notin G /\ Live(r) /\ st[r] \notin Finished
      BY <1>6, <1>3 DEF Live, IsFinished
    <3>2. r \in ToSet(tracked) /\ (r \in Queue \cup Hands \cup known \/ worker.at = "failing")
      BY <1>2, <3>1 DEF Whereabouts
    <3> QED BY <1>4, <3>1, <3>2
  <2>3. \A r \in Requests : status'[r] = "NEW" =>
            r \notin ToSet(tracked') \cup Queue' \cup Hands' \cup known' \cup told'
    <3> SUFFICES ASSUME NEW r \in Requests, status'[r] = "NEW"
                 PROVE  r \notin ToSet(tracked') \cup Queue' \cup Hands' \cup known' \cup told'
      OBVIOUS
    <3>1. r \notin G /\ status[r] = "NEW"
      BY <1>6
    <3>2. r \notin ToSet(tracked) \cup Queue \cup Hands \cup known \cup told
      BY <1>2, <3>1 DEF Whereabouts
    <3> QED BY <1>4, <3>1, <3>2
  <2>4. \A c \in Canceller : cancel'[c].request # Nobody =>
            status'[cancel'[c].request] # "NEW" /\ cancel'[c].request \notin Queue'
    <3> SUFFICES ASSUME NEW c \in Canceller, cancel'[c].request # Nobody
                 PROVE  /\ status'[cancel'[c].request] # "NEW"
                        /\ cancel'[c].request \notin Queue'
      OBVIOUS
    <3>1. cancel[c].request \in Requests /\ cancel'[c].request = cancel[c].request
      BY <1>1
    <3>2. status[cancel[c].request] # "NEW" /\ cancel[c].request \notin Queue
      BY <1>2, <3>1 DEF Whereabouts
    <3> QED BY <1>6, <3>1, <3>2
  <2>5. told' \cap Queue' = {}
    BY <1>2 DEF Whereabouts
  <2> QED BY <2>1, <2>2, <2>3, <2>4, <2>5 DEF Whereabouts, Live, Queue, Hands
<1>9. MarksHaveReason'
  <2>1. \A i \in cancelled' : \E r \in ToSet(tracked') : IdOf[r] = i
    <3> TAKE i \in cancelled'
    <3>1. PICK r \in ToSet(tracked) : IdOf[r] = i
      BY <1>2, <1>4 DEF MarksHaveReason, TrackedAs
    <3> QED BY <1>4, <3>1
  <2>2. ASSUME NEW r \in ToSet(tracked'), IdOf[r] \in cancelled'
        PROVE  \/ r \in Hands'
               \/ worker'.at = "failing" /\ status'[r] \in LiveStatus /\ r \notin known'
               \/ \E c \in Canceller : Asks(c, r, {"marked"})'
               \/ status'[r] \in Finished /\ \E c \in Canceller : Asks(c, r, {"aborted"})'
    <3>1. /\ r \in ToSet(tracked) /\ r \in Requests /\ IdOf[r] \in cancelled /\ r \notin G
          /\ status'[r] = status[r]
      BY <1>1, <1>4, <1>5, <2>2
    <3>2. \A c \in Canceller, at \in {{"marked"}, {"aborted"}} :
              Asks(c, r, at) => Asks(c, r, at)'
      BY <3>1, Distinct DEF Asks
    <3>3. \/ r \in Hands
          \/ worker.at = "failing" /\ Live(r) /\ r \notin known
          \/ \E c \in Canceller : Asks(c, r, {"marked"})
          \/ IsFinished(r) /\ \E c \in Canceller : Asks(c, r, {"aborted"})
      BY <1>2, <3>1 DEF MarksHaveReason
    <3> QED BY <3>1, <3>2, <3>3 DEF Live, IsFinished
  <2> QED BY <2>1, <2>2 DEF MarksHaveReason, TrackedAs, Live, IsFinished, Hands
<1>10. PromisesKept'
  <2> SUFFICES ASSUME NEW r \in Requests, Unique(r)'
               PROVE  /\ r \in Hands'
                         /\ (r \in told' \/ \E c \in Canceller : cancel'[c].request = r)
                             => IdOf[r] \in cancelled'
                      /\ Promised(r)' => \/ status'[r] \in {"ABORTED", "ERROR"}
                                         \/ r \in Hands'
                                         \/ /\ worker'.at = "failing" /\ status'[r] \in LiveStatus
                                            /\ r \notin known'
    BY DEF PromisesKept, Hands, Live
  <2>1. Unique(r)
    BY <1>6 DEF Unique
  <2>2. /\ r \in Hands /\ (r \in told \/ \E c \in Canceller : cancel[c].request = r)
             => IdOf[r] \in cancelled
        /\ Promised(r) => \/ status[r] \in {"ABORTED", "ERROR"}
                          \/ r \in Hands
                          \/ worker.at = "failing" /\ Live(r) /\ r \notin known
    BY <1>2, <2>1 DEF PromisesKept
  <2>3. ASSUME r \in Hands', r \in told' \/ \E c \in Canceller : cancel'[c].request = r
        PROVE  IdOf[r] \in cancelled'
    <3>1. r \notin G /\ r \in Queue \cup Hands
      BY <2>3
    <3>2. r \in told \/ \E c \in Canceller : cancel[c].request = r
      BY <2>3, <3>1
    <3>3. r \notin Queue
      BY <1>2, <3>2, Distinct DEF Whereabouts
    <3>4. r \in ToSet(tracked) /\ Live(r)
      BY <1>2, <1>3, <3>1 DEF Whereabouts
    <3> QED BY <1>7, <2>2, <3>1, <3>2, <3>3, <3>4
  <2>4. ASSUME Promised(r)'
        PROVE  \/ status'[r] \in {"ABORTED", "ERROR"}
               \/ r \in Hands'
               \/ worker'.at = "failing" /\ status'[r] \in LiveStatus /\ r \notin known'
    <3>1. CASE r \in G
      BY <3>1
    <3>2. CASE r \notin G
      <4>1. Promised(r)
        BY <2>4, <3>2, Distinct DEF Promised, Asks
      <4> QED BY <2>2, <3>2, <4>1 DEF Live
    <3> QED BY <3>1, <3>2
  <2> QED BY <2>3, <2>4
<1> QED BY <1>1, <1>4, <1>8, <1>9, <1>10 DEF BooksPart

\* Nothing changes that the books are about, unless a mark goes that nobody
\* needs.
LEMMA UnconcernedKeep ==
    ASSUME BooksInv,
           UNCHANGED <<tracked, completed, pending, told>>,
           cancelled' \subseteq cancelled, deadlines' \subseteq deadlines,
           \A r \in Hands : IdOf[r] \in cancelled => IdOf[r] \in cancelled',
           cancel' \in [Canceller -> Call],
           \A c \in Canceller :
               /\ cancel'[c].request = cancel[c].request
               /\ cancel[c].request # Nobody => cancel'[c] = cancel[c]
               /\ cancel'[c].request # Nobody <=> cancel'[c].at \in {"marked", "aborted"},
           \A r \in Requests : status'[r] = status[r],
           known' \cap Requests = known \cap Requests,
           worker'.requests = worker.requests,
           worker'.at = "failing" <=> worker.at = "failing",
           Hands # {} => worker'.at \in {"taken", "add"}
    PROVE  BooksPart'
<1>1. /\ \A r \in ToSet(tracked) : r \in Requests
      /\ \A r \in Queue \cup Hands : r \in Requests
      /\ \A r \in ToSet(completed) : r \in Requests
      /\ \A c \in Canceller : cancel[c].request \in Requests \cup {Nobody}
  <2>1. worker.requests \in Seq(Requests)
    BY DEF BooksInv, ServiceTypes, Worker
  <2>2. \A c \in Canceller : cancel[c].request \in Requests \cup {Nobody}
    BY DEF BooksInv, ServiceTypes, Call
  <2> QED BY <2>1, <2>2 DEF BooksInv, ServiceTypes, ToSet, Queue, Hands
<1>2. /\ BooksAgree /\ Whereabouts /\ CompletedAreSettled /\ MarksHaveReason
      /\ PromisesKept
  BY DEF BooksInv, BooksPart
<1> HIDE DEF BooksInv
<1>3. Queue' = Queue /\ Hands' = Hands
  BY DEF Queue, Hands
<1>4. \A c \in Canceller, r \in Requests, at \in {{"marked"}, {"aborted"}} :
          Asks(c, r, at)' <=> Asks(c, r, at)
  BY <1>1, Distinct DEF Asks
<1>5. BooksAgree' /\ CompletedAreSettled'
  BY <1>1, <1>2 DEF BooksAgree, CompletedAreSettled, IsFinished
<1>6. Whereabouts'
  <2>1. \A r \in Queue' \cup Hands' : status'[r] = "WAITING" /\ r \notin known'
    BY <1>1, <1>2, <1>3 DEF Whereabouts
  <2>2. \A r \in Requests : Live(r)' =>
            /\ r \in ToSet(tracked)'
            /\ r \in (Queue \cup Hands \cup known)' \/ worker'.at = "failing"
    BY <1>2, <1>3 DEF Whereabouts, Live
  <2>3. \A r \in Requests : status'[r] = "NEW" =>
            r \notin (ToSet(tracked) \cup Queue \cup Hands \cup known \cup told)'
    BY <1>2, <1>3 DEF Whereabouts
  <2>4. \A c \in Canceller : cancel'[c].request # Nobody =>
            status'[cancel'[c].request] # "NEW" /\ cancel'[c].request \notin Queue'
    BY <1>1, <1>2, <1>3 DEF Whereabouts
  <2> QED BY <1>2, <1>3, <2>1, <2>2, <2>3, <2>4 DEF Whereabouts
<1>7. MarksHaveReason'
  <2>1. \A i \in cancelled' : TrackedAs(i)' # {}
    BY <1>2 DEF MarksHaveReason, TrackedAs
  <2>2. ASSUME NEW r \in ToSet(tracked'), IdOf[r] \in cancelled'
        PROVE  \/ r \in Hands'
               \/ worker'.at = "failing" /\ Live(r)' /\ r \notin known'
               \/ \E c \in Canceller : Asks(c, r, {"marked"})'
               \/ IsFinished(r)' /\ \E c \in Canceller : Asks(c, r, {"aborted"})'
    <3>1. r \in ToSet(tracked) /\ r \in Requests /\ IdOf[r] \in cancelled
      BY <1>1, <2>2
    <3>2. \/ r \in Hands
          \/ worker.at = "failing" /\ Live(r) /\ r \notin known
          \/ \E c \in Canceller : Asks(c, r, {"marked"})
          \/ IsFinished(r) /\ \E c \in Canceller : Asks(c, r, {"aborted"})
      BY <1>2, <3>1 DEF MarksHaveReason
    <3> QED BY <1>3, <1>4, <3>1, <3>2 DEF Live, IsFinished
  <2> QED BY <2>1, <2>2 DEF MarksHaveReason
<1>8. PromisesKept'
  <2> SUFFICES ASSUME NEW r \in Requests, Unique(r)'
               PROVE  /\ r \in Hands'
                         /\ (r \in told' \/ \E c \in Canceller : cancel'[c].request = r)
                             => IdOf[r] \in cancelled'
                      /\ Promised(r)' => \/ status'[r] \in {"ABORTED", "ERROR"}
                                         \/ r \in Hands'
                                         \/ worker'.at = "failing" /\ Live(r)'
                                            /\ r \notin known'
    BY DEF PromisesKept
  <2>1. Unique(r)
    BY DEF Unique
  <2>2. Promised(r)' => Promised(r)
    BY <1>4, Distinct DEF Promised, Asks
  <2> QED BY <1>2, <1>3, <2>1, <2>2 DEF PromisesKept, Live
<1> QED BY <1>5, <1>6, <1>7, <1>8 DEF BooksPart

\* The calls of _cancel_request that are under way have requests.
LEMMA CallsAre ==
    ASSUME BooksInv
    PROVE  /\ cancel \in [Canceller -> Call]
           /\ \A c \in Canceller :
                 /\ cancel[c].request # Nobody <=> cancel[c].at \in {"marked", "aborted"}
                 /\ cancel[c].request \in Requests \cup {Nobody}
                 /\ cancel[c].result \in BOOLEAN
  BY DEF BooksInv, BooksPart, ServiceTypes, MarksHaveReason, Call

\* Nothing changes but where a client is, or what waits for its turn.
LEMMA StutterKeeps ==
    ASSUME BooksInv,
           UNCHANGED <<engineVars, pending, bookVars, sessVars, worker, cancel, told>>,
           pending_chat' \in Seq(Turns)
    PROVE  BooksInv'
<1>1. BooksPart'
  <2>1. Hands # {} => worker.at \in {"taken", "add"}
    BY DEF BooksInv, BooksPart, Whereabouts
  <2> QED BY <2>1, CallsAre, UnconcernedKeep DEF engineVars, bookVars
<1>2. ServiceTypes'
  BY DEF BooksInv, ServiceTypes, engineVars, bookVars, sessVars
<1>3. EngineKnows'
  BY DEF BooksInv, EngineKnows, engineVars
<1> QED BY <1>1, <1>2, <1>3 DEF BooksInv

-----------------------------------------------------------------------------
(***************************************************************************)
(* The clients' actions.                                                   *)
(***************************************************************************)

LEMMA ClientsStutter ==
    ASSUME BooksInv,
           \/ \E r \in Requests : Answered(r) \/ GivesUp(r)
           \/ \E t \in Turns :
                 \/ \E mode \in Modes : EnqueueChat(t, mode)
                 \/ AcceptTurn(t) \/ TurnReturns(t) \/ LeaveDone(t)
                 \/ \E timed_out \in BOOLEAN : LeaveTurn(t, timed_out)
           \/ Close \/ CloseTimesOut
    PROVE  BooksInv'
<1>1. pending_chat \in Seq(Turns)
  BY DEF BooksInv, ServiceTypes
<1>2. CASE \/ \E r \in Requests : Answered(r) \/ GivesUp(r)
           \/ \E t \in Turns : \/ \E mode \in Modes : EnqueueChat(t, mode)
                               \/ TurnReturns(t) \/ LeaveDone(t)
           \/ Close \/ CloseTimesOut
  <2>1. UNCHANGED <<engineVars, queueVars, bookVars, sessVars, worker, cancel, told>>
    BY <1>2 DEF Answered, GivesUp, EnqueueChat, TurnReturns, LeaveDone, Close,
                CloseTimesOut, turnVars
  <2> QED BY <1>1, <2>1, StutterKeeps DEF queueVars
<1>3. ASSUME NEW t \in Turns, AcceptTurn(t) PROVE BooksInv'
  <2>1. pending_chat' \in Seq(Turns)
    BY <1>1, <1>3 DEF AcceptTurn
  <2> QED BY <1>3, <2>1, StutterKeeps DEF AcceptTurn
<1>4. ASSUME NEW t \in Turns, NEW timed_out \in BOOLEAN, LeaveTurn(t, timed_out)
      PROVE  BooksInv'
  <2>1. pending_chat' \in Seq(Turns)
    BY <1>1, <1>4, WithoutKeeps DEF LeaveTurn
  <2> QED BY <1>4, <2>1, StutterKeeps DEF LeaveTurn
<1> QED BY <1>2, <1>3, <1>4

LEMMA ReturnsIdle ==
    ASSUME BooksInv, NEW c \in Canceller, NEW result \in BOOLEAN, Returns(c, result)
    PROVE  /\ cancel' \in [Canceller -> Call]
           /\ cancel'[c].request = Nobody /\ cancel'[c].at \in {"idle", "done"}
           /\ \A b \in Canceller \ {c} : cancel'[b] = cancel[b]
<1> DEFINE d == [at |-> IF c \in Requests THEN "idle" ELSE "done", request |-> Nobody,
                 result |-> FALSE]
<1>1. cancel' = [cancel EXCEPT ![c] = d]
  BY DEF Returns
<1>2. d \in Call /\ d.request = Nobody /\ d.at \in {"idle", "done"}
  BY DEF Call
<1>3. cancel \in [Canceller -> Call]
  BY CallsAre
<1> HIDE DEF d
<1> QED BY <1>1, <1>2, <1>3

LEMMA CancelUnknownKeeps ==
    ASSUME BooksInv, NEW c \in Canceller, NEW i \in Ids, CancelUnknown(c, i)
    PROVE  BooksInv'
<1>1. /\ cancel' \in [Canceller -> Call]
      /\ cancel'[c].request = Nobody /\ cancel'[c].at \in {"idle", "done"}
      /\ \A b \in Canceller \ {c} : cancel'[b] = cancel[b]
  BY ReturnsIdle DEF CancelUnknown
<1>2. cancel[c].at = "idle"
  BY DEF CancelUnknown, MayCancel
<1>3. /\ UNCHANGED <<status, waiting, known, pending, pending_chat, tracked, completed,
                     cancelled, deadlines, sessions, opened, worker, told>>
  BY DEF CancelUnknown, engineVars, queueVars, bookVars, sessVars
<1>4. Hands # {} => worker.at \in {"taken", "add"}
  BY DEF BooksInv, BooksPart, Whereabouts
<1>5. \A b \in Canceller :
          /\ cancel'[b].request = cancel[b].request
          /\ cancel[b].request # Nobody => cancel'[b] = cancel[b]
          /\ cancel'[b].request # Nobody <=> cancel'[b].at \in {"marked", "aborted"}
  BY <1>1, <1>2, CallsAre
<1>6. BooksPart'
  BY <1>1, <1>3, <1>4, <1>5, UnconcernedKeep DEF bookVars
<1>7. ServiceTypes'
  BY <1>1, <1>3 DEF BooksInv, ServiceTypes
<1>8. EngineKnows'
  BY <1>3 DEF BooksInv, EngineKnows
<1> QED BY <1>6, <1>7, <1>8 DEF BooksInv

LEMMA CancelPendingKeeps ==
    ASSUME BooksInv, NEW c \in Canceller, NEW i \in Ids, CancelPending(c, i)
    PROVE  BooksInv'
<1>1. PICK r \in TrackedAs(i) :
          /\ ~IsFinished(r) /\ r \in ToSet(pending)
          /\ pending' = Without(pending, {r})
          /\ status' = [status EXCEPT ![r] = "ABORTED"]
          /\ RecordAndTrim(status', {r}, {}, cancelled \ {i}, deadlines \ {i})
          /\ told' = told \cup {r}
  BY DEF CancelPending
<1>2. /\ cancel' \in [Canceller -> Call]
      /\ cancel'[c].request = Nobody /\ cancel'[c].at \in {"idle", "done"}
      /\ \A b \in Canceller \ {c} : cancel'[b] = cancel[b]
      /\ cancel[c].at = "idle"
  BY ReturnsIdle DEF CancelPending, MayCancel
<1>3. UNCHANGED <<waiting, known, pending_chat, sessions, opened, worker>>
  BY DEF CancelPending, sessVars
<1>4. /\ r \in Requests /\ r \in ToSet(tracked) /\ IdOf[r] = i /\ r \in Objects
      /\ status \in [Objects -> Status] /\ pending \in Seq(Requests)
  <2>1. tracked \in Seq(Requests)
    BY DEF BooksInv, ServiceTypes
  <2> QED BY <2>1, Distinct DEF BooksInv, ServiceTypes, TrackedAs, ToSet
<1>5. Whereabouts /\ BooksAgree
  BY DEF BooksInv, BooksPart
<1>6. r \in Queue /\ r \notin Hands /\ r \notin known /\ Live(r)
  BY <1>1, <1>5 DEF Whereabouts, Queue, Live, LiveStatus
<1>7. /\ pending' \in Seq(Requests) /\ IsInjective(pending')
      /\ Queue' = Queue \ {r} /\ Hands' = Hands
  BY <1>1, <1>3, <1>4, <1>5, WithoutKeeps DEF Queue, Hands, Whereabouts
<1>8. /\ status'[r] = "ABORTED" /\ status' \in [Objects -> Status]
      /\ \A o \in Objects \ {r} : status'[o] = status[o]
  BY <1>1, <1>4 DEF Status, Finished
<1>9. \A b \in Canceller :
          /\ cancel'[b].request = cancel[b].request
          /\ cancel[b].request # Nobody => cancel'[b] = cancel[b]
          /\ cancel'[b].request # Nobody <=> cancel'[b].at \in {"marked", "aborted"}
  BY <1>2, CallsAre
<1>10. /\ BooksPart'
       /\ tracked' \in Seq(Requests) /\ completed' \in Seq(Requests)
       /\ cancelled' \subseteq Ids /\ deadlines' \subseteq Ids
  <2> DEFINE G == {r}
             st == status'
             marks == cancelled \ {i}
             due == deadlines \ {i}
             none == {}
  <2>1. /\ G \in SUBSET Requests /\ marks \in SUBSET cancelled /\ due \in SUBSET deadlines
        /\ none \in SUBSET Requests /\ G \subseteq G \cup none
        /\ RecordAndTrim(st, G, none, marks, due)
    BY <1>1, <1>4
  <2>2. \A q \in G : Live(q) /\ status'[q] \in {"ABORTED", "ERROR"}
    BY <1>6, <1>8
  <2>3. \A q \in Requests \ G : status'[q] = status[q]
    BY <1>8, Distinct
  <2>4. \A j \in cancelled \ marks : \A q \in TrackedAs(j) : st[q] \in Finished
    <3> SUFFICES ASSUME NEW j \in cancelled \ marks, NEW q \in TrackedAs(j)
                 PROVE  st[q] \in Finished
      OBVIOUS
    <3>1. q = r
      BY <1>4, <1>5 DEF BooksAgree, TrackedAs
    <3> QED BY <1>8, <3>1 DEF Finished
  <2>5. /\ Queue' \subseteq Queue /\ Queue' \cap Hands' = {} /\ Hands \ G \subseteq Hands'
        /\ Queue' \cup Hands' = (Queue \cup Hands) \ G
    BY <1>5, <1>6, <1>7 DEF Whereabouts
  <2>6. /\ IsInjective(worker'.requests) /\ known' \cap Requests = known \cap Requests
        /\ Hands' # {} => worker'.at \in {"taken", "add"}
        /\ worker.at = "failing" =>
               worker'.at = "failing" \/ \A q \in Requests : Live(q) => q \in G
    BY <1>3, <1>5, <1>7 DEF Whereabouts
  <2>7. told' \subseteq told \cup G /\ \A q \in Requests : status'[q] = st[q]
    BY <1>1
  <2> HIDE DEF G, st, marks, due, none
  <2>8. EndIn(G, st, G, none, marks, due)
    BY <1>7, <1>9, <2>1, <2>2, <2>3, <2>4, <2>5, <2>6, <2>7 DEF EndIn
  <2> QED BY <2>8, EndsKeep
<1>11. ServiceTypes'
  BY <1>1, <1>2, <1>3, <1>4, <1>7, <1>8, <1>10 DEF BooksInv, ServiceTypes
<1>12. EngineKnows'
  <2>1. \A o \in ToSet(waiting) : o \in Objects /\ o # r
    BY <1>6 DEF BooksInv, ServiceTypes, EngineKnows, ToSet
  <2> QED BY <1>3, <1>4, <1>8, <2>1, Distinct DEF BooksInv, EngineKnows
<1> QED BY <1>10, <1>11, <1>12 DEF BooksInv

LEMMA CancelFinishedKeeps ==
    ASSUME BooksInv, NEW c \in Canceller, NEW i \in Ids, CancelFinished(c, i)
    PROVE  BooksInv'
<1>1. /\ cancel' \in [Canceller -> Call]
      /\ cancel'[c].request = Nobody /\ cancel'[c].at \in {"idle", "done"}
      /\ \A b \in Canceller \ {c} : cancel'[b] = cancel[b]
      /\ cancel[c].at = "idle"
  BY ReturnsIdle DEF CancelFinished, MayCancel
<1>2. /\ UNCHANGED <<status, waiting, known, pending, pending_chat, tracked, completed,
                     sessions, opened, worker, told>>
      /\ cancelled' = cancelled \ {i} /\ deadlines' = deadlines \ {i}
  BY DEF CancelFinished, engineVars, queueVars, sessVars
<1>3. PICK r \in TrackedAs(i) : IsFinished(r)
  BY DEF CancelFinished
<1>4. Hands # {} => worker.at \in {"taken", "add"}
  BY DEF BooksInv, BooksPart, Whereabouts
<1>5. \A b \in Canceller :
          /\ cancel'[b].request = cancel[b].request
          /\ cancel[b].request # Nobody => cancel'[b] = cancel[b]
          /\ cancel'[b].request # Nobody <=> cancel'[b].at \in {"marked", "aborted"}
  BY <1>1, CallsAre
<1>6. \A q \in Hands : IdOf[q] # i
  <2> SUFFICES ASSUME NEW q \in Hands, IdOf[q] = i PROVE FALSE
    OBVIOUS
  <2>1. q \in Requests /\ status[q] = "WAITING"
    BY DEF BooksInv, BooksPart, ServiceTypes, Worker, Whereabouts, Hands, ToSet
  <2>2. q \in ToSet(tracked) /\ ~IsFinished(q)
    BY <2>1 DEF BooksInv, BooksPart, Whereabouts, Live, LiveStatus, IsFinished, Finished
  <2> QED BY <1>3, <2>2 DEF BooksInv, BooksPart, BooksAgree, TrackedAs
<1>7. BooksPart'
  BY <1>1, <1>2, <1>4, <1>5, <1>6, UnconcernedKeep
<1>8. ServiceTypes'
  BY <1>1, <1>2 DEF BooksInv, ServiceTypes
<1>9. EngineKnows'
  BY <1>2 DEF BooksInv, EngineKnows
<1> QED BY <1>7, <1>8, <1>9 DEF BooksInv

LEMMA CancelMarkKeeps ==
    ASSUME BooksInv, NEW c \in Canceller, NEW i \in Ids, CancelMark(c, i)
    PROVE  BooksInv'
<1> DEFINE call(r) == [at |-> "marked", request |-> r, result |-> FALSE]
<1>1. PICK r \in TrackedAs(i) : /\ ~IsFinished(r) /\ r \notin ToSet(pending)
                                /\ cancel' = [cancel EXCEPT ![c] = call(r)]
  BY DEF CancelMark
<1>2. /\ UNCHANGED <<status, waiting, known, pending, pending_chat, tracked, completed,
                     sessions, opened, worker, told>>
      /\ cancelled' = cancelled \cup {i} /\ deadlines' = deadlines \ {i}
      /\ cancel[c].at = "idle"
  BY DEF CancelMark, MayCancel, engineVars, queueVars, sessVars
<1>3. /\ r \in Requests /\ r \in ToSet(tracked) /\ IdOf[r] = i
      /\ \A q \in ToSet(tracked) : q \in Requests
      /\ \A q \in ToSet(completed) : q \in Requests
  <2>1. tracked \in Seq(Requests) /\ completed \in Seq(Requests)
    BY DEF BooksInv, ServiceTypes
  <2> QED BY <2>1 DEF TrackedAs, ToSet
<1>4. /\ BooksAgree /\ Whereabouts /\ CompletedAreSettled /\ MarksHaveReason
      /\ PromisesKept
  BY DEF BooksInv, BooksPart
<1>5. /\ cancel' \in [Canceller -> Call]
      /\ cancel'[c].at = "marked" /\ cancel'[c].request = r /\ cancel'[c].result = FALSE
      /\ \A b \in Canceller \ {c} : cancel'[b] = cancel[b]
      /\ cancel[c].request = Nobody
  <2>1. call(r) \in Call /\ call(r).at = "marked" /\ call(r).request = r
        /\ call(r).result = FALSE
    BY <1>3 DEF Call
  <2> HIDE DEF call
  <2> QED BY <1>1, <1>2, <2>1, CallsAre
<1>6. \A q \in ToSet(tracked) : IdOf[q] = i => q = r
  BY <1>3, <1>4 DEF BooksAgree
<1>7. Queue' = Queue /\ Hands' = Hands
  BY <1>2 DEF Queue, Hands
<1>8. status[r] # "NEW" /\ r # Nobody
  BY <1>3, <1>4, Distinct DEF Whereabouts
<1>9. BooksAgree'
  BY <1>2, <1>4 DEF BooksAgree, IsFinished
<1>10. CompletedAreSettled'
  BY <1>1, <1>2, <1>4, <1>6 DEF CompletedAreSettled, BooksAgree
<1>11. Whereabouts'
  <2>1. \A b \in Canceller : cancel'[b].request # Nobody =>
            status'[cancel'[b].request] # "NEW" /\ cancel'[b].request \notin Queue'
    BY <1>1, <1>2, <1>4, <1>5, <1>7, <1>8 DEF Whereabouts, Queue
  <2> QED BY <1>2, <1>4, <1>7, <2>1 DEF Whereabouts, Live
<1>12. MarksHaveReason'
  <2>1. \A b \in Canceller :
            cancel'[b].request # Nobody <=> cancel'[b].at \in {"marked", "aborted"}
    BY <1>4, <1>5, <1>8 DEF MarksHaveReason
  <2>2. \A j \in cancelled' : TrackedAs(j)' # {}
    BY <1>2, <1>3, <1>4 DEF MarksHaveReason, TrackedAs
  <2>3. ASSUME NEW q \in ToSet(tracked'), IdOf[q] \in cancelled'
        PROVE  \/ q \in Hands'
               \/ worker'.at = "failing" /\ Live(q)' /\ q \notin known'
               \/ \E b \in Canceller : Asks(b, q, {"marked"})'
               \/ IsFinished(q)' /\ \E b \in Canceller : Asks(b, q, {"aborted"})'
    <3>1. CASE q = r
      BY <1>5, <3>1 DEF Asks
    <3>2. CASE q # r
      <4>1. q \in ToSet(tracked) /\ q \in Requests /\ IdOf[q] \in cancelled
        BY <1>2, <1>3, <1>6, <2>3, <3>2
      <4>2. \A b \in Canceller, at \in {{"marked"}, {"aborted"}} :
                Asks(b, q, at) => Asks(b, q, at)'
        BY <1>5, <4>1, Distinct DEF Asks
      <4>3. \/ q \in Hands
            \/ worker.at = "failing" /\ Live(q) /\ q \notin known
            \/ \E b \in Canceller : Asks(b, q, {"marked"})
            \/ IsFinished(q) /\ \E b \in Canceller : Asks(b, q, {"aborted"})
        BY <1>4, <4>1 DEF MarksHaveReason
      <4> QED BY <1>2, <1>7, <4>2, <4>3 DEF Live, IsFinished
    <3> QED BY <3>1, <3>2
  <2> QED BY <2>1, <2>2, <2>3 DEF MarksHaveReason
<1>13. PromisesKept'
  <2> SUFFICES ASSUME NEW q \in Requests, Unique(q)'
               PROVE  /\ q \in Hands'
                         /\ (q \in told' \/ \E b \in Canceller : cancel'[b].request = q)
                             => IdOf[q] \in cancelled'
                      /\ Promised(q)' => \/ status'[q] \in {"ABORTED", "ERROR"}
                                         \/ q \in Hands'
                                         \/ worker'.at = "failing" /\ Live(q)'
                                            /\ q \notin known'
    BY DEF PromisesKept
  <2>1. Unique(q)
    BY <1>2 DEF Unique
  <2>2. Promised(q)' => Promised(q)
    BY <1>2, <1>5, Distinct DEF Promised, Asks
  <2>3. \A b \in Canceller : cancel'[b].request = q => cancel[b].request = q \/ q = r
    BY <1>5
  <2> QED BY <1>2, <1>3, <1>4, <1>7, <2>1, <2>2, <2>3 DEF PromisesKept, Live
<1>14. ServiceTypes'
  BY <1>2, <1>5 DEF BooksInv, ServiceTypes
<1>15. EngineKnows'
  BY <1>2 DEF BooksInv, EngineKnows
<1> QED BY <1>9, <1>10, <1>11, <1>12, <1>13, <1>14, <1>15 DEF BooksInv, BooksPart

LEMMA CancelInEngineKeeps ==
    ASSUME BooksInv, NEW c \in Canceller, CancelInEngine(c)
    PROVE  BooksInv'
<1> DEFINE r    == cancel[c].request
           same == {q \in known \cap Requests : IdOf[q] = IdOf[r] /\ Live(q)}
           hit  == {q \in same : ~IsFinished(r)}
           st   == [o \in Objects |->
                      IF o \in same /\ ~IsFinished(r) THEN "ABORTED" ELSE status[o]]
           done == st[r] \notin Finished \ {"ABORTED"}
<1>0. cancel' = [cancel EXCEPT ![c].at = "aborted", ![c].result = done]
  BY DEF CancelInEngine
<1>1. /\ cancel[c].at = "marked" /\ status' = st
      /\ waiting' = Only(waiting, {o \in Objects : st[o] \in LiveStatus})
      /\ UNCHANGED <<known, pending, pending_chat, tracked, completed, cancelled,
                     deadlines, sessions, opened, worker, told>>
  BY DEF CancelInEngine, queueVars, bookVars, sessVars
<1>2. /\ status \in [Objects -> Status] /\ waiting \in Seq(Objects)
      /\ r \in Requests /\ r \in Objects
      /\ \A q \in ToSet(tracked) : q \in Requests
      /\ \A q \in ToSet(completed) : q \in Requests
      /\ \A q \in Queue \cup Hands : q \in Requests
  <2>1. r \in Requests
    BY <1>1, CallsAre
  <2>2. /\ tracked \in Seq(Requests) /\ completed \in Seq(Requests)
        /\ pending \in Seq(Requests) /\ worker.requests \in Seq(Requests)
    BY DEF BooksInv, ServiceTypes, Worker
  <2> HIDE DEF r
  <2> QED BY <2>1, <2>2, Distinct DEF BooksInv, ServiceTypes, ToSet, Queue, Hands
<1>3. /\ cancel' \in [Canceller -> Call]
      /\ cancel'[c].at = "aborted" /\ cancel'[c].request = r /\ cancel'[c].result = done
      /\ \A b \in Canceller \ {c} : cancel'[b] = cancel[b]
      /\ \A b \in Canceller : cancel'[b].request = cancel[b].request
  <2> DEFINE a == cancel[c]
             d == [a EXCEPT !.at = "aborted", !.result = done]
  <2>1. a \in Call /\ done \in BOOLEAN /\ a.request = r
    BY CallsAre
  <2>2. cancel' = [cancel EXCEPT ![c] = d]
    BY <1>0
  <2> HIDE DEF a, done, r
  <2>3. d \in Call /\ d.at = "aborted" /\ d.request = r /\ d.result = done
    BY <2>1 DEF Call
  <2> HIDE DEF d
  <2> QED BY <2>1, <2>2, <2>3, CallsAre DEF a
<1>4. /\ BooksAgree /\ Whereabouts /\ CompletedAreSettled /\ MarksHaveReason
      /\ PromisesKept /\ EngineKnows
  BY DEF BooksInv, BooksPart
<1>5. /\ status' \in [Objects -> Status]
      /\ \A o \in Objects : status'[o] = IF o \in hit THEN "ABORTED" ELSE status[o]
      /\ hit \subseteq Requests /\ hit \subseteq known /\ hit \subseteq Objects
      /\ \A q \in hit : Live(q) /\ IdOf[q] = IdOf[r]
      /\ \A q \in Requests :
            q \in known /\ Live(q) /\ IdOf[q] = IdOf[r] /\ ~IsFinished(r) => q \in hit
  <2>1. \A o : o \in same /\ ~IsFinished(r) <=> o \in hit
    OBVIOUS
  <2>2. hit \subseteq Objects
    BY Distinct
  <2> HIDE DEF r
  <2>3. /\ hit \subseteq Requests /\ hit \subseteq known
        /\ \A q \in hit : Live(q) /\ IdOf[q] = IdOf[r]
        /\ \A q \in Requests :
              q \in known /\ Live(q) /\ IdOf[q] = IdOf[r] /\ ~IsFinished(r) => q \in hit
    OBVIOUS
  <2> HIDE DEF hit, same
  <2>4. /\ status' \in [Objects -> Status]
        /\ \A o \in Objects : status'[o] = IF o \in hit THEN "ABORTED" ELSE status[o]
    BY <1>1, <1>2, <2>1, <2>2 DEF Status, Finished
  <2> QED BY <2>2, <2>3, <2>4
<1>6. done = (status'[r] \notin Finished \ {"ABORTED"})
  BY <1>1
<1> HIDE DEF hit, same, r, st, done
<1>7. \A q \in Requests : /\ status'[q] \in LiveStatus => status'[q] = status[q] /\ q \notin hit
                          /\ status'[q] = "NEW" <=> status[q] = "NEW"
                          /\ IsFinished(q) => status'[q] = status[q]
                          /\ q \in hit => status'[q] \in Finished
                          /\ q \notin hit => status'[q] = status[q]
  BY <1>5, Distinct DEF Live, IsFinished, LiveStatus, Finished
<1>8. Queue' = Queue /\ Hands' = Hands
  BY <1>1 DEF Queue, Hands
<1>9. \A q \in Queue \cup Hands : q \notin hit
  BY <1>4, <1>5 DEF Whereabouts
<1>10. BooksAgree' /\ CompletedAreSettled'
  <2>1. \A q \in ToSet(completed) : status'[q] \in Finished
    BY <1>2, <1>4, <1>7 DEF BooksAgree, IsFinished
  <2> QED BY <1>1, <1>4, <2>1 DEF BooksAgree, CompletedAreSettled, IsFinished
<1>11. Whereabouts'
  <2>1. \A q \in Queue' \cup Hands' : status'[q] = "WAITING" /\ q \notin known'
    BY <1>1, <1>2, <1>4, <1>7, <1>8, <1>9 DEF Whereabouts
  <2>2. \A q \in Requests : Live(q)' =>
            /\ q \in ToSet(tracked)'
            /\ q \in (Queue \cup Hands \cup known)' \/ worker'.at = "failing"
    BY <1>1, <1>4, <1>7, <1>8 DEF Whereabouts, Live
  <2>3. \A q \in Requests : status'[q] = "NEW" =>
            q \notin (ToSet(tracked) \cup Queue \cup Hands \cup known \cup told)'
    BY <1>1, <1>4, <1>7, <1>8 DEF Whereabouts
  <2>4. \A b \in Canceller : cancel'[b].request # Nobody =>
            status'[cancel'[b].request] # "NEW" /\ cancel'[b].request \notin Queue'
    BY <1>3, <1>4, <1>7, <1>8, CallsAre DEF Whereabouts
  <2> QED BY <1>1, <1>4, <1>8, <2>1, <2>2, <2>3, <2>4 DEF Whereabouts
\* What the call is about was aborted now, has finished, or is where the engine
\* does not know it.
<1>12. \/ status'[r] \in Finished
       \/ Live(r) /\ status'[r] = status[r] /\ r \notin known
            /\ (r \in Hands \/ worker.at = "failing")
  <2>1. status[r] # "NEW" /\ r \notin Queue
    BY <1>1, <1>2, <1>4, CallsAre, Distinct DEF Whereabouts, r
  <2>2. CASE IsFinished(r)
    BY <1>2, <1>7, <2>2 DEF IsFinished
  <2>3. CASE Live(r)
    <3>1. ~IsFinished(r)
      BY <2>3, StatusesDiffer DEF Live, IsFinished
    <3> QED BY <1>2, <1>4, <1>5, <1>7, <2>1, <2>3, <3>1 DEF Whereabouts
  <2> QED BY <1>2, <2>1, <2>2, <2>3, StatusesDiffer
<1>13. MarksHaveReason'
  <2>1. \A b \in Canceller :
            cancel'[b].request # Nobody <=> cancel'[b].at \in {"marked", "aborted"}
    BY <1>2, <1>3, <1>4, Distinct DEF MarksHaveReason
  <2>2. \A j \in cancelled' : TrackedAs(j)' # {}
    BY <1>1, <1>4 DEF MarksHaveReason, TrackedAs
  <2>3. ASSUME NEW q \in ToSet(tracked'), IdOf[q] \in cancelled'
        PROVE  \/ q \in Hands'
               \/ worker'.at = "failing" /\ Live(q)' /\ q \notin known'
               \/ \E b \in Canceller : Asks(b, q, {"marked"})'
               \/ IsFinished(q)' /\ \E b \in Canceller : Asks(b, q, {"aborted"})'
    <3>1. q \in ToSet(tracked) /\ q \in Requests /\ IdOf[q] \in cancelled
      BY <1>1, <1>2, <2>3
    <3>2. CASE q \in Hands
      BY <1>8, <3>2
    <3>3. CASE worker.at = "failing" /\ Live(q) /\ q \notin known
      BY <1>1, <1>5, <1>7, <3>1, <3>3 DEF Live
    <3>4. ASSUME NEW b \in Canceller, b # c, Asks(b, q, {"marked"})
          PROVE  Asks(b, q, {"marked"})'
      BY <1>3, <3>4 DEF Asks
    <3>5. CASE q = r
      BY <1>1, <1>3, <1>8, <1>12, <3>5 DEF Asks, IsFinished, Live
    <3>6. CASE IsFinished(q) /\ \E b \in Canceller : Asks(b, q, {"aborted"})
      <4>1. PICK b \in Canceller : Asks(b, q, {"aborted"})
        BY <3>6
      <4>2. b # c
        BY <1>1, <4>1 DEF Asks
      <4>3. Asks(b, q, {"aborted"})'
        BY <1>3, <4>1, <4>2 DEF Asks
      <4> QED BY <1>7, <3>1, <3>6, <4>3 DEF IsFinished
    <3>7. \/ q \in Hands
          \/ worker.at = "failing" /\ Live(q) /\ q \notin known
          \/ \E b \in Canceller : Asks(b, q, {"marked"})
          \/ IsFinished(q) /\ \E b \in Canceller : Asks(b, q, {"aborted"})
      BY <1>4, <3>1 DEF MarksHaveReason
    <3>8. Asks(c, q, {"marked"}) => q = r
      BY DEF Asks, r
    <3> QED BY <3>2, <3>3, <3>4, <3>5, <3>6, <3>7, <3>8
  <2> QED BY <2>1, <2>2, <2>3 DEF MarksHaveReason
<1>14. PromisesKept'
  <2> SUFFICES ASSUME NEW q \in Requests, Unique(q)'
               PROVE  /\ q \in Hands'
                         /\ (q \in told' \/ \E b \in Canceller : cancel'[b].request = q)
                             => IdOf[q] \in cancelled'
                      /\ Promised(q)' => \/ status'[q] \in {"ABORTED", "ERROR"}
                                         \/ q \in Hands'
                                         \/ worker'.at = "failing" /\ Live(q)'
                                            /\ q \notin known'
    BY DEF PromisesKept
  <2>1. Unique(q)
    BY <1>7 DEF Unique
  <2>2. q \in Hands' /\ (q \in told' \/ \E b \in Canceller : cancel'[b].request = q)
             => IdOf[q] \in cancelled'
    BY <1>1, <1>3, <1>4, <1>8, <2>1 DEF PromisesKept
  <2>3. CASE Promised(q)
    <3>1. \/ status[q] \in {"ABORTED", "ERROR"}
          \/ q \in Hands
          \/ worker.at = "failing" /\ Live(q) /\ q \notin known
      BY <1>4, <2>1, <2>3 DEF PromisesKept
    <3>2. status[q] \in {"ABORTED", "ERROR"} => status'[q] = status[q]
      BY <1>7 DEF IsFinished, Finished
    <3> QED BY <1>1, <1>5, <1>7, <1>8, <2>2, <3>1, <3>2 DEF Live
  <2>4. CASE q = r /\ done
    <3>1. status'[r] \in Finished => status'[r] = "ABORTED"
      BY <1>6, <2>4
    <3> QED BY <1>1, <1>8, <1>12, <2>2, <2>4, <3>1 DEF Live
  <2>5. Promised(q)' => Promised(q) \/ (q = r /\ done)
    BY <1>1, <1>3 DEF Promised, Asks
  <2> QED BY <2>2, <2>3, <2>4, <2>5
<1>15. /\ waiting' \in Seq(Objects)
       /\ ToSet(waiting') = ToSet(waiting) \cap {o \in Objects : st[o] \in LiveStatus}
  BY <1>1, <1>2, OnlyKeeps
<1>16. ServiceTypes'
  BY <1>1, <1>3, <1>5, <1>15 DEF BooksInv, ServiceTypes
<1>17. EngineKnows'
  <2>1. \A o \in ToSet(waiting') :
            o \in Objects /\ o \in ToSet(waiting) /\ status'[o] \in LiveStatus
    BY <1>1, <1>15
  <2>2. \A o \in ToSet(waiting') : o \notin hit
    BY <1>5, <1>7, <2>1
  <2>3. \A o \in ToSet(waiting') : status'[o] = "WAITING" /\ o \in known'
    BY <1>1, <1>4, <1>5, <2>1, <2>2 DEF EngineKnows
  <2> QED BY <1>1, <1>4, <1>5, <2>3, Distinct DEF EngineKnows
<1> QED BY <1>10, <1>11, <1>13, <1>14, <1>16, <1>17 DEF BooksInv, BooksPart

LEMMA CancelRecordKeeps ==
    ASSUME BooksInv, NEW c \in Canceller, CancelRecord(c)
    PROVE  BooksInv'
<1> DEFINE r == cancel[c].request
<1>1. /\ cancel[c].at = "aborted"
      /\ \/ /\ IsFinished(r)
            /\ RecordAndTrim(status, TrackedAs(IdOf[r]), {}, cancelled \ {IdOf[r]}, deadlines)
         \/ /\ ~IsFinished(r)
            /\ UNCHANGED <<tracked, completed, cancelled, deadlines>>
      /\ told' = IF cancel[c].result THEN told \cup {r} ELSE told
      /\ UNCHANGED <<status, waiting, known, pending, pending_chat, sessions, opened, worker>>
  BY DEF CancelRecord, engineVars, queueVars, bookVars, sessVars
<1>2. /\ cancel' \in [Canceller -> Call]
      /\ cancel'[c].request = Nobody /\ cancel'[c].at \in {"idle", "done"}
      /\ \A b \in Canceller \ {c} : cancel'[b] = cancel[b]
  BY CallsAre, ReturnsIdle DEF CancelRecord
<1>3. /\ status \in [Objects -> Status] /\ tracked \in Seq(Requests)
      /\ completed \in Seq(Requests) /\ cancelled \subseteq Ids /\ deadlines \subseteq Ids
      /\ r \in Requests
      /\ \A q \in ToSet(tracked) : q \in Requests
      /\ \A q \in ToSet(completed) : q \in Requests
      /\ \A q \in Queue \cup Hands : q \in Requests
  <2>1. r \in Requests
    BY <1>1, CallsAre
  <2>2. pending \in Seq(Requests) /\ worker.requests \in Seq(Requests)
    BY DEF BooksInv, ServiceTypes, Worker
  <2> HIDE DEF r
  <2> QED BY <2>1, <2>2 DEF BooksInv, ServiceTypes, ToSet, Queue, Hands
<1>4. /\ BooksAgree /\ Whereabouts /\ CompletedAreSettled /\ MarksHaveReason
      /\ PromisesKept
  BY DEF BooksInv, BooksPart
<1>5. /\ status[r] # "NEW" /\ r \notin Queue /\ r # Nobody
      /\ \A b \in Canceller :
            cancel[b].request # Nobody <=> cancel[b].at \in {"marked", "aborted"}
  BY <1>3, <1>4, CallsAre, Distinct DEF Whereabouts
<1>6. cancel[c].request = r
  OBVIOUS
<1> HIDE DEF r
\* What the books are after it, whether it recorded anything or not.
<1>7. /\ BooksAgree' /\ CompletedAreSettled'
      /\ tracked' \in Seq(Requests) /\ completed' \in Seq(Requests)
      /\ cancelled' \subseteq cancelled /\ deadlines' \subseteq deadlines
      /\ \A q \in ToSet(tracked') : q \in ToSet(tracked)
      /\ \A q \in ToSet(tracked) : ~IsFinished(q) =>
            /\ q \in ToSet(tracked')
            /\ IdOf[q] \in cancelled /\ (IdOf[q] # IdOf[r] \/ ~IsFinished(r)) =>
                  IdOf[q] \in cancelled'
      /\ \A i \in cancelled' : \E q \in ToSet(tracked') : IdOf[q] = i
      /\ IsFinished(r) => IdOf[r] \notin cancelled'
  <2>1. \A i \in cancelled : \E q \in ToSet(tracked) : IdOf[q] = i
    BY <1>4 DEF MarksHaveReason, TrackedAs
  <2>2. CASE ~IsFinished(r)
    <3>1. UNCHANGED <<tracked, completed, cancelled, deadlines, status>>
      BY <1>1, <2>2
    <3> QED BY <1>3, <1>4, <2>1, <2>2, <3>1 DEF BooksAgree, CompletedAreSettled, IsFinished
  <2>3. CASE IsFinished(r)
    <3> DEFINE first == TrackedAs(IdOf[r])
               none  == {}
               marks == cancelled \ {IdOf[r]}
               st    == status
               due   == deadlines
    <3>1. /\ first \in SUBSET Requests /\ none \in SUBSET Requests
          /\ marks \in SUBSET Ids /\ deadlines \in SUBSET deadlines
          /\ marks \subseteq cancelled /\ IdOf[r] \notin marks
          /\ \A i \in cancelled : i = IdOf[r] \/ i \in marks
          /\ due \in SUBSET deadlines
          /\ RecordAndTrim(st, first, none, marks, due)
          /\ \A q \in Requests : status'[q] = st[q]
          /\ \A q \in ToSet(tracked) : IsFinished(q) => st[q] \in Finished
      BY <1>1, <1>3, <2>3 DEF TrackedAs, IsFinished
    <3>0. st = status /\ due = deadlines
      OBVIOUS
    <3> HIDE DEF first, none, marks, st, due
    <3>2. \A q \in ToSet(completed) : IdOf[q] \notin marks /\ IdOf[q] \notin due
      BY <1>4, <3>0, <3>1 DEF CompletedAreSettled
    <3>3. /\ BooksAgree' /\ CompletedAreSettled'
          /\ tracked' \in Seq(Requests) /\ completed' \in Seq(Requests)
          /\ cancelled' \subseteq marks /\ deadlines' \subseteq due
          /\ ToSet(tracked') \subseteq ToSet(tracked)
          /\ \A q \in ToSet(tracked) :
                q \in ToSet(tracked') \/ (st[q] \in Finished /\ IdOf[q] \notin cancelled')
          /\ \A i \in marks : \/ i \in cancelled'
                              \/ \E q \in ToSet(tracked) : IdOf[q] = i /\ st[q] \in Finished
      <4>1. Records(st, first, none, marks, due)
        BY <3>1, <3>2 DEF Records
      <4> QED BY <1>3, <1>4, <4>1, RecordKeeps
    <3>4. ASSUME NEW q \in ToSet(tracked), ~IsFinished(q), IdOf[q] \in cancelled,
                 IdOf[q] # IdOf[r]
          PROVE  IdOf[q] \in cancelled'
      <4>1. \A p \in ToSet(tracked) : IdOf[p] = IdOf[q] => p = q
        BY <1>4 DEF BooksAgree
      <4> QED BY <3>0, <3>1, <3>3, <3>4, <4>1 DEF IsFinished
    <3>5. \A i \in cancelled' : \E q \in ToSet(tracked') : IdOf[q] = i
      <4> TAKE i \in cancelled'
      <4>1. PICK q \in ToSet(tracked) : IdOf[q] = i
        BY <2>1, <3>1, <3>3
      <4> QED BY <3>3, <4>1
    <3>6. \A q \in ToSet(tracked) : ~IsFinished(q) => q \in ToSet(tracked')
      BY <3>0, <3>3 DEF IsFinished
    <3> QED BY <2>3, <3>0, <3>1, <3>3, <3>4, <3>5, <3>6
  <2> QED BY <2>2, <2>3
<1>8. Queue' = Queue /\ Hands' = Hands
  BY <1>1 DEF Queue, Hands
<1>9. \A q \in Requests : Live(q) \/ q \in Hands => ~IsFinished(q) /\ q \in ToSet(tracked)
  <2>1. \A q \in Requests : Live(q) => ~IsFinished(q) /\ q \in ToSet(tracked)
    BY <1>4, StatusesDiffer DEF Whereabouts, Live, IsFinished
  <2>2. \A q \in Hands : Live(q)
    BY <1>4, StatusesDiffer DEF Whereabouts, Live
  <2> QED BY <2>1, <2>2
<1>10. Whereabouts'
  <2>1. \A q \in Requests : Live(q)' =>
            /\ q \in ToSet(tracked)'
            /\ q \in (Queue \cup Hands \cup known)' \/ worker'.at = "failing"
    BY <1>1, <1>4, <1>7, <1>8, <1>9 DEF Whereabouts, Live
  <2>2. \A q \in Requests : status'[q] = "NEW" =>
            q \notin (ToSet(tracked) \cup Queue \cup Hands \cup known \cup told)'
    BY <1>1, <1>4, <1>5, <1>7, <1>8 DEF Whereabouts
  <2>3. \A b \in Canceller : cancel'[b].request # Nobody =>
            status'[cancel'[b].request] # "NEW" /\ cancel'[b].request \notin Queue'
    BY <1>1, <1>2, <1>4, <1>8 DEF Whereabouts
  <2>4. told' \cap Queue' = {}
    BY <1>1, <1>4, <1>5, <1>8 DEF Whereabouts
  <2> QED BY <1>1, <1>4, <1>8, <2>1, <2>2, <2>3, <2>4 DEF Whereabouts
<1>11. MarksHaveReason'
  <2>1. \A b \in Canceller :
            cancel'[b].request # Nobody <=> cancel'[b].at \in {"marked", "aborted"}
    BY <1>2, <1>5
  <2>2. ASSUME NEW q \in ToSet(tracked'), IdOf[q] \in cancelled'
        PROVE  \/ q \in Hands'
               \/ worker'.at = "failing" /\ Live(q)' /\ q \notin known'
               \/ \E b \in Canceller : Asks(b, q, {"marked"})'
               \/ IsFinished(q)' /\ \E b \in Canceller : Asks(b, q, {"aborted"})'
    <3>1. q \in ToSet(tracked) /\ q \in Requests /\ IdOf[q] \in cancelled
      BY <1>3, <1>7, <2>2
    <3>2. ~Asks(c, q, {"marked"}) /\ ~(IsFinished(q) /\ Asks(c, q, {"aborted"}))
      BY <1>1, <1>6, <1>7, <2>2 DEF Asks
    <3>3. \A b \in Canceller, at \in {{"marked"}, {"aborted"}} :
              b # c /\ Asks(b, q, at) => Asks(b, q, at)'
      BY <1>2 DEF Asks
    <3>4. \/ q \in Hands
          \/ worker.at = "failing" /\ Live(q) /\ q \notin known
          \/ \E b \in Canceller : Asks(b, q, {"marked"})
          \/ IsFinished(q) /\ \E b \in Canceller : Asks(b, q, {"aborted"})
      BY <1>4, <3>1 DEF MarksHaveReason
    <3> QED BY <1>1, <1>8, <3>2, <3>3, <3>4 DEF Live, IsFinished
  <2> QED BY <1>7, <2>1, <2>2 DEF MarksHaveReason, TrackedAs
<1>12. PromisesKept'
  <2> SUFFICES ASSUME NEW q \in Requests, Unique(q)'
               PROVE  /\ q \in Hands'
                         /\ (q \in told' \/ \E b \in Canceller : cancel'[b].request = q)
                             => IdOf[q] \in cancelled'
                      /\ Promised(q)' => \/ status'[q] \in {"ABORTED", "ERROR"}
                                         \/ q \in Hands'
                                         \/ worker'.at = "failing" /\ Live(q)'
                                            /\ q \notin known'
    BY DEF PromisesKept
  <2>1. Unique(q)
    BY <1>1 DEF Unique
  <2>2. ASSUME q \in Hands', q \in told' \/ \E b \in Canceller : cancel'[b].request = q
        PROVE  IdOf[q] \in cancelled'
    <3>1. q \in Hands /\ ~IsFinished(q) /\ q \in ToSet(tracked)
      BY <1>8, <1>9, <2>2
    <3>2. q \in told \/ \E b \in Canceller : cancel[b].request = q
      <4>1. CASE q \in told'
        BY <1>1, <1>6, <4>1
      <4>2. CASE \E b \in Canceller : cancel'[b].request = q
        BY <1>2, <4>2, Distinct
      <4> QED BY <2>2, <4>1, <4>2
    <3>3. IdOf[q] \in cancelled
      BY <1>4, <2>1, <3>1, <3>2 DEF PromisesKept
    <3>4. IdOf[q] = IdOf[r] => r = q
      BY <1>3, <1>5, <2>1 DEF Unique
    <3> QED BY <1>7, <3>1, <3>3, <3>4
  <2>3. Promised(q)' => Promised(q)
    <3>1. q \in told' => Promised(q)
      BY <1>1, <1>6 DEF Promised, Asks
    <3>2. ASSUME NEW b \in Canceller, Asks(b, q, {"aborted"})', cancel'[b].result
          PROVE  Promised(q)
      BY <1>2, <3>2, Distinct DEF Promised, Asks
    <3> QED BY <3>1, <3>2 DEF Promised
  <2>4. Promised(q) => \/ status[q] \in {"ABORTED", "ERROR"}
                       \/ q \in Hands
                       \/ worker.at = "failing" /\ Live(q) /\ q \notin known
    BY <1>4, <2>1 DEF PromisesKept
  <2> QED BY <1>1, <1>8, <2>2, <2>3, <2>4 DEF Live
<1>13. ServiceTypes'
  <2>1. told' \subseteq Requests
    BY <1>1, <1>3 DEF BooksInv, ServiceTypes
  <2> QED BY <1>1, <1>2, <1>3, <1>7, <2>1 DEF BooksInv, ServiceTypes
<1>14. EngineKnows'
  BY <1>1 DEF BooksInv, EngineKnows
<1> QED BY <1>7, <1>10, <1>11, <1>12, <1>13, <1>14 DEF BooksInv, BooksPart

\* A request that nobody has sent is nowhere yet.
ClientsIdle ==
    /\ client \in [Requests \cup Turns ->
                     {"idle", "waiting", "leaving", "done", "queueing"}]
    /\ \A r \in Requests : client[r] = "idle" => status[r] = "NEW"

LEMMA EnqueueKeeps ==
    ASSUME BooksInv, ClientsIdle, NEW r \in Requests, NEW waits, NEW due,
           Enqueue(r, waits, due)
    PROVE  BooksInv'
<1>1. /\ status' = [status EXCEPT ![r] = "WAITING"]
      /\ pending' = Append(pending, r) /\ tracked' = Append(tracked, r)
      /\ deadlines' \subseteq deadlines \cup {IdOf[r]}
      /\ TrackedAs(IdOf[r]) = {} /\ status[r] = "NEW"
      /\ UNCHANGED <<waiting, known, pending_chat, completed, cancelled, sessions, opened,
                     worker, cancel, told>>
  BY DEF Enqueue, ClientsIdle, sessVars
<1>2. /\ status \in [Objects -> Status] /\ tracked \in Seq(Requests)
      /\ pending \in Seq(Requests) /\ waiting \in Seq(Objects)
      /\ cancelled \subseteq Ids /\ deadlines \subseteq Ids
      /\ r \in Objects /\ IdOf[r] \in Ids
      /\ \A q \in ToSet(tracked) : q \in Requests
      /\ \A q \in ToSet(completed) : q \in Requests
      /\ \A q \in Queue \cup Hands : q \in Requests
      /\ \A c \in Canceller : cancel[c].request \in Requests \cup {Nobody}
  <2>1. /\ completed \in Seq(Requests) /\ pending \in Seq(Requests)
        /\ worker.requests \in Seq(Requests)
    BY DEF BooksInv, ServiceTypes, Worker
  <2> QED BY <2>1, CallsAre, Distinct DEF BooksInv, ServiceTypes, ToSet, Queue, Hands
<1>3. /\ BooksAgree /\ Whereabouts /\ CompletedAreSettled /\ MarksHaveReason
      /\ PromisesKept /\ EngineKnows
  BY DEF BooksInv, BooksPart
<1>4. /\ status' \in [Objects -> Status] /\ status'[r] = "WAITING"
      /\ \A o \in Objects \ {r} : status'[o] = status[o]
  BY <1>1, <1>2 DEF Status, LiveStatus
<1>5. /\ r \notin ToSet(tracked) \cup Queue \cup Hands \cup known \cup told
      /\ \A c \in Canceller : cancel[c].request # r
      /\ ~Live(r) /\ ~IsFinished(r) /\ r # Nobody
  BY <1>1, <1>3, StatusesDiffer, Distinct DEF Whereabouts, Live, IsFinished
<1>6. \A q \in ToSet(tracked) : IdOf[q] # IdOf[r]
  BY <1>1 DEF TrackedAs
<1>7. /\ tracked' \in Seq(Requests) /\ ToSet(tracked') = ToSet(tracked) \cup {r}
      /\ IsInjective(tracked')
      /\ pending' \in Seq(Requests) /\ Queue' = Queue \cup {r}
      /\ IsInjective(pending') /\ Hands' = Hands
  <2>1. r \notin ToSet(tracked) /\ r \notin ToSet(pending)
    BY <1>5 DEF Queue
  <2>2. IsInjective(tracked') /\ IsInjective(pending')
    BY <1>1, <1>2, <1>3, <2>1, AppendFresh DEF BooksAgree, Whereabouts
  <2> QED BY <1>1, <1>2, <2>2, AppendSet DEF Queue, Hands
<1>8. \A q \in Requests : q # r => status'[q] = status[q]
  BY <1>4, Distinct
<1>9. BooksAgree'
  <2>1. \A p, q \in ToSet(tracked') : IdOf[p] = IdOf[q] => p = q
    BY <1>3, <1>6, <1>7 DEF BooksAgree
  <2>2. deadlines' \subseteq {IdOf[q] : q \in ToSet(tracked')}
    BY <1>1, <1>3, <1>7 DEF BooksAgree
  <2>3. \A q \in ToSet(completed') : q \in ToSet(tracked') /\ IsFinished(q)'
    BY <1>1, <1>2, <1>3, <1>5, <1>7, <1>8 DEF BooksAgree, IsFinished
  <2> QED BY <1>1, <1>3, <1>7, <2>1, <2>2, <2>3 DEF BooksAgree
<1>10. CompletedAreSettled'
  BY <1>1, <1>3, <1>6 DEF CompletedAreSettled, BooksAgree
<1>11. Whereabouts'
  <2>1. \A q \in Queue' \cup Hands' : status'[q] = "WAITING" /\ q \notin known'
    BY <1>1, <1>2, <1>3, <1>4, <1>5, <1>7, <1>8 DEF Whereabouts
  <2>2. \A q \in Requests : Live(q)' =>
            /\ q \in ToSet(tracked)'
            /\ q \in (Queue \cup Hands \cup known)' \/ worker'.at = "failing"
    BY <1>1, <1>3, <1>7, <1>8 DEF Whereabouts, Live
  <2>3. \A q \in Requests : status'[q] = "NEW" =>
            q \notin (ToSet(tracked) \cup Queue \cup Hands \cup known \cup told)'
    BY <1>1, <1>3, <1>4, <1>7, <1>8 DEF Whereabouts
  <2>4. \A c \in Canceller : cancel'[c].request # Nobody =>
            status'[cancel'[c].request] # "NEW" /\ cancel'[c].request \notin Queue'
    BY <1>1, <1>2, <1>3, <1>5, <1>7, <1>8 DEF Whereabouts
  <2>5. /\ Queue' \cap Hands' = {} /\ told' \cap Queue' = {}
        /\ IsInjective(worker'.requests)
        /\ Hands' # {} => worker'.at \in {"taken", "add"}
    BY <1>1, <1>3, <1>5, <1>7 DEF Whereabouts
  <2> QED BY <1>7, <2>1, <2>2, <2>3, <2>4, <2>5 DEF Whereabouts
<1>12. MarksHaveReason'
  <2>1. \A i \in cancelled' : TrackedAs(i)' # {}
    BY <1>1, <1>3, <1>7 DEF MarksHaveReason, TrackedAs
  <2>2. ASSUME NEW q \in ToSet(tracked'), IdOf[q] \in cancelled'
        PROVE  \/ q \in Hands'
               \/ worker'.at = "failing" /\ Live(q)' /\ q \notin known'
               \/ \E c \in Canceller : Asks(c, q, {"marked"})'
               \/ IsFinished(q)' /\ \E c \in Canceller : Asks(c, q, {"aborted"})'
    <3>1. IdOf[r] \notin cancelled
      BY <1>1, <1>3 DEF MarksHaveReason
    <3>2. q # r /\ q \in ToSet(tracked) /\ q \in Requests /\ IdOf[q] \in cancelled
      BY <1>1, <1>2, <1>7, <2>2, <3>1
    <3>3. \/ q \in Hands
          \/ worker.at = "failing" /\ Live(q) /\ q \notin known
          \/ \E c \in Canceller : Asks(c, q, {"marked"})
          \/ IsFinished(q) /\ \E c \in Canceller : Asks(c, q, {"aborted"})
      BY <1>3, <3>2 DEF MarksHaveReason
    <3> QED BY <1>1, <1>7, <1>8, <3>2, <3>3 DEF Live, IsFinished, Asks
  <2> QED BY <1>1, <1>3, <2>1, <2>2 DEF MarksHaveReason
<1>13. PromisesKept'
  <2> SUFFICES ASSUME NEW q \in Requests, Unique(q)'
               PROVE  /\ q \in Hands'
                         /\ (q \in told' \/ \E c \in Canceller : cancel'[c].request = q)
                             => IdOf[q] \in cancelled'
                      /\ Promised(q)' => \/ status'[q] \in {"ABORTED", "ERROR"}
                                         \/ q \in Hands'
                                         \/ worker'.at = "failing" /\ Live(q)'
                                            /\ q \notin known'
    BY DEF PromisesKept
  <2>1. Unique(q)
    BY <1>1, <1>8 DEF Unique
  <2>2. Promised(q)' => Promised(q) /\ q # r
    BY <1>1, <1>5 DEF Promised, Asks
  <2>3. q \in Hands' => q # r
    BY <1>5, <1>7
  <2> QED BY <1>1, <1>3, <1>7, <1>8, <2>1, <2>2, <2>3 DEF PromisesKept, Live
<1>14. ServiceTypes'
  <2>1. deadlines' \subseteq Ids
    BY <1>1, <1>2
  <2> QED BY <1>1, <1>4, <1>7, <2>1 DEF BooksInv, ServiceTypes
<1>15. EngineKnows'
  <2>1. \A o \in ToSet(waiting) : o \in Objects /\ o # r
    BY <1>2, <1>3, <1>5 DEF EngineKnows, ToSet
  <2> QED BY <1>1, <1>3, <1>4, <2>1, Distinct DEF EngineKnows
<1> QED BY <1>9, <1>10, <1>11, <1>12, <1>13, <1>14, <1>15 DEF BooksInv, BooksPart

-----------------------------------------------------------------------------
(***************************************************************************)
(* The worker's actions.                                                   *)
(***************************************************************************)

LEMMA AtIs ==
    ASSUME NEW a \in Places
    PROVE  /\ At(a) \in Worker /\ At(a).at = a /\ At(a).requests = << >>
           /\ At(a).turns = << >> /\ At(a).settled = {} /\ At(a).retry = << >>
<1>1. "take" \in Places /\ << >> \in Seq(Requests) /\ << >> \in Seq(Turns)
  BY DEF Places
<1>2. /\ NoWork \in Worker /\ NoWork.requests = << >> /\ NoWork.turns = << >>
      /\ NoWork.settled = {} /\ NoWork.retry = << >>
  BY <1>1 DEF NoWork, Worker
<1>3. /\ At(a) \in Worker /\ At(a).at = a /\ At(a).requests = NoWork.requests
      /\ At(a).turns = NoWork.turns /\ At(a).settled = NoWork.settled
      /\ At(a).retry = NoWork.retry
  BY <1>2 DEF At, Worker
<1> QED BY <1>2, <1>3

LEMMA ListEmpty == ToSet(<< >>) = {} /\ IsInjective(<< >>)
  BY DEF ToSet, IsInjective

\* _expire_deadlines_locked, when the worker has no request in its hands.
LEMMA ExpireKeeps ==
    ASSUME BooksInv, NEW D, NEW rest \in SUBSET Requests, Expire(D, rest),
           Hands = {}, worker.at # "failing",
           pending' \in Seq(Requests), pending_chat' \in Seq(Turns), worker' \in Worker,
           worker'.at = "start" => worker'.turns # << >>,
           IsInjective(pending'), IsInjective(worker'.requests),
           Queue' \subseteq Queue, Queue' \cap Hands' = {},
           Queue' \cup Hands' = Queue \ Expiring(D),
           Hands' # {} => worker'.at \in {"taken", "add"},
           UNCHANGED <<sessions, opened, cancel, told>>
    PROVE  BooksInv'
<1> DEFINE G     == Expiring(D)
           st    == [o \in Objects |-> IF o \in G THEN "ABORTED" ELSE status[o]]
           late  == {IdOf[r] : r \in {r \in ToSet(tracked) \ G :
                                        IdOf[r] \in D /\ ~IsFinished(r)}}
           marks == cancelled \ D
           due   == deadlines \ D
<1>1. /\ status' = st /\ waiting' = Without(waiting, G)
      /\ RecordAndTrim(st, G, rest, marks \cup late, due)
      /\ known' = known
  BY DEF Expire
<1>2. /\ status \in [Objects -> Status] /\ tracked \in Seq(Requests)
      /\ waiting \in Seq(Objects) /\ known \subseteq Objects
      /\ cancelled \subseteq Ids /\ deadlines \subseteq Ids
      /\ ToSet(tracked) \subseteq Requests /\ Queue \subseteq Requests
  BY DEF BooksInv, ServiceTypes, ToSet, Queue
<1>3. /\ BooksAgree /\ Whereabouts /\ EngineKnows
  BY DEF BooksInv, BooksPart
\* A request that is tracked and not finished is in the queue or in the engine.
<1>4. \A r \in ToSet(tracked) : ~IsFinished(r) => Live(r) /\ r \in Queue \cup known
  <2> TAKE r \in ToSet(tracked)
  <2>1. r \in Requests /\ status[r] # "NEW" /\ r \in Objects
    BY <1>2, <1>3, Distinct DEF Whereabouts
  <2>2. ~IsFinished(r) => Live(r)
    BY <1>2, <2>1, StatusesDiffer
  <2> QED BY <1>3, <2>1, <2>2 DEF Whereabouts
<1>5. /\ \A r \in G : /\ r \in ToSet(tracked) /\ r \in Requests /\ IdOf[r] \in D
                      /\ Live(r) /\ r \in Queue \cup known
      /\ \A r \in ToSet(tracked) : IdOf[r] \in D /\ ~IsFinished(r) => r \in G
  BY <1>2, <1>4 DEF Expiring, Queue
<1>6. late = {}
  <2> HIDE DEF G
  <2> QED BY <1>5
<1>7. G \in SUBSET Requests /\ G \subseteq Objects
  BY <1>5, Distinct
<1> HIDE DEF G
<1>8. /\ status' \in [Objects -> Status]
      /\ \A o \in Objects : status'[o] = IF o \in G THEN "ABORTED" ELSE status[o]
  BY <1>1, <1>2 DEF Status, Finished
<1>9. RecordAndTrim(st, G, rest, marks, due)
  <2>1. marks \cup late = marks
    BY <1>6
  <2> HIDE DEF st, late, marks, due
  <2> QED BY <1>1, <2>1
<1>10. marks \in SUBSET cancelled /\ due \in SUBSET deadlines
  OBVIOUS
<1>11. \A i \in cancelled \ marks : \A r \in TrackedAs(i) : status'[r] \in Finished
  <2> SUFFICES ASSUME NEW i \in cancelled \ marks, NEW r \in TrackedAs(i)
               PROVE  status'[r] \in Finished
    OBVIOUS
  <2>1. r \in ToSet(tracked) /\ IdOf[r] \in D /\ r \in Requests /\ r \in Objects
    BY <1>2, Distinct DEF TrackedAs
  <2>2. CASE r \in G
    BY <1>8, <2>1, <2>2 DEF Finished
  <2>3. CASE r \notin G
    BY <1>5, <1>8, <2>1, <2>3 DEF IsFinished
  <2> QED BY <2>2, <2>3
<1>12. status' = st
  BY <1>1
<1> HIDE DEF st, marks, due, late
<1>13. EndIn(G, st, G, rest, marks, due)
  <2>1. \A r \in G : Live(r) /\ status'[r] \in {"ABORTED", "ERROR"}
    BY <1>5, <1>7, <1>8
  <2>2. \A r \in Requests \ G : status'[r] = status[r]
    BY <1>8, Distinct
  <2>3. \A r \in Requests : status'[r] = st[r]
    BY <1>12
  <2>4. \A i \in cancelled \ marks : \A r \in TrackedAs(i) : st[r] \in Finished
    BY <1>11, <1>12
  <2>5. Hands \ G \subseteq Hands' /\ Queue' \cup Hands' = (Queue \cup Hands) \ G
    BY DEF G
  <2>6. \A c \in Canceller :
           /\ cancel'[c].request = cancel[c].request
           /\ cancel[c].request # Nobody => cancel'[c] = cancel[c]
           /\ cancel'[c].request # Nobody <=> cancel'[c].at \in {"marked", "aborted"}
    BY CallsAre
  <2> QED BY <1>1, <1>7, <1>9, <1>10, <2>1, <2>2, <2>3, <2>4, <2>5, <2>6 DEF EndIn
<1>14. /\ BooksPart'
       /\ tracked' \in Seq(Requests) /\ completed' \in Seq(Requests)
       /\ cancelled' \subseteq Ids /\ deadlines' \subseteq Ids
  BY <1>13, EndsKeep
<1>15. /\ waiting' \in Seq(Objects) /\ ToSet(waiting') = ToSet(waiting) \ G
  BY <1>1, <1>2, WithoutKeeps
<1>16. ServiceTypes'
  BY <1>1, <1>8, <1>14, <1>15 DEF BooksInv, ServiceTypes
<1>17. EngineKnows'
  <2>1. \A o \in ToSet(waiting') : o \in Objects /\ o \in ToSet(waiting) /\ o \notin G
    BY <1>2, <1>15 DEF ToSet
  <2>2. \A o \in Objects : status'[o] \in {"RUNNING", "PARKED"} => status'[o] = status[o]
    BY <1>8
  <2>3. \A r \in Requests : status'[r] \notin {"PARKED", "CLOSED"}
    BY <1>3, <1>8, Distinct DEF EngineKnows
  <2> QED BY <1>1, <1>3, <1>8, <2>1, <2>2, <2>3 DEF EngineKnows
<1> QED BY <1>14, <1>16, <1>17 DEF BooksInv

LEMMA TakeKeeps ==
    ASSUME BooksInv, NEW D, Take(D)
    PROVE  BooksInv'
<1> DEFINE left == Without(pending, Expiring(D))
           w == At("taken")
<1>1. /\ worker.at = "take" /\ Expire(D, {})
      /\ worker' = [w EXCEPT !.requests = left, !.turns = pending_chat]
      /\ pending' = << >> /\ pending_chat' = << >>
      /\ UNCHANGED <<sessions, opened, cancel, told>>
  BY DEF Take, sessVars
<1>2. /\ pending \in Seq(Requests) /\ pending_chat \in Seq(Turns)
      /\ IsInjective(pending) /\ Hands = {}
  BY <1>1 DEF BooksInv, BooksPart, ServiceTypes, Whereabouts
<1>3. /\ left \in Seq(Requests) /\ IsInjective(left)
      /\ ToSet(left) = Queue \ Expiring(D)
  BY <1>2, WithoutKeeps DEF Queue
<1>4. w \in Worker /\ w.at = "taken"
  BY AtIs DEF Places
<1> HIDE DEF left, w
<1>5. worker' \in Worker /\ worker'.at = "taken" /\ worker'.requests = left
  BY <1>1, <1>2, <1>3, <1>4 DEF Worker
<1>6. Queue' = {} /\ IsInjective(pending') /\ pending' \in Seq(Requests)
      /\ pending_chat' \in Seq(Turns) /\ Hands' = Queue \ Expiring(D)
  BY <1>1, <1>3, <1>5, ListEmpty DEF Queue, Hands
<1> DEFINE none == {}
<1>7. none \in SUBSET Requests /\ Expire(D, none)
  BY <1>1
<1> HIDE DEF none
<1> QED BY <1>1, <1>2, <1>3, <1>5, <1>6, <1>7, ExpireKeeps

LEMMA SettleKeeps ==
    ASSUME BooksInv, NEW D, Settle(D)
    PROVE  BooksInv'
<1> DEFINE rest == ToSet(tracked)
<1>1. /\ worker.at = "settle" /\ Expire(D, rest)
      /\ pending_chat' = pending_chat \o Requeued
      /\ pending' = Without(pending, Expiring(D))
      /\ worker' = At("take")
      /\ UNCHANGED <<sessions, opened, cancel, told>>
  BY DEF Settle, sessVars
<1>2. /\ pending \in Seq(Requests) /\ pending_chat \in Seq(Turns)
      /\ IsInjective(pending) /\ Hands = {} /\ worker.retry \in Seq(Turns)
      /\ rest \in SUBSET Requests
  BY <1>1 DEF BooksInv, BooksPart, ServiceTypes, Whereabouts, Worker, ToSet
<1>3. /\ pending' \in Seq(Requests) /\ IsInjective(pending')
      /\ Queue' = Queue \ Expiring(D)
  BY <1>1, <1>2, WithoutKeeps DEF Queue
<1>4. pending_chat' \in Seq(Turns)
  <2>1. Requeued \in Seq(Turns)
    BY <1>2, OnlyKeeps DEF Requeued
  <2> QED BY <1>1, <1>2, <2>1, JoinApart
<1>5. worker' \in Worker /\ worker'.at = "take" /\ worker'.requests = << >>
  BY <1>1, AtIs DEF Places
<1>6. Hands' = {} /\ IsInjective(worker'.requests)
  BY <1>5, ListEmpty DEF Hands
<1> HIDE DEF rest
<1> QED BY <1>1, <1>2, <1>3, <1>4, <1>5, <1>6, ExpireKeeps

\* _fail_unfinished_locked, when the worker has no request in its hands.
LEMMA FailKeeps ==
    ASSUME BooksInv, FailUnfinished, Hands = {}, Hands' = {},
           worker' \in Worker, worker'.at # "start", IsInjective(worker'.requests),
           UNCHANGED <<cancel, told>>
    PROVE  BooksInv'
<1> DEFINE G    == {r \in Requests : Live(r)}
           st   == [o \in Objects |-> IF o \in Failing /\ Live(o) THEN "ERROR" ELSE status[o]]
           none == {}
           rest == ToSet(tracked)
           marks == cancelled
<1>1. /\ pending' = << >> /\ pending_chat' = << >>
      /\ status' = st /\ waiting' = Without(waiting, known)
      /\ known' = known \ DOMAIN sessions /\ sessions' = << >>
      /\ RecordAndTrim(st, none, rest, marks, none)
      /\ opened' = opened
  BY DEF FailUnfinished
<1>2. /\ status \in [Objects -> Status] /\ waiting \in Seq(Objects) /\ known \subseteq Objects
      /\ cancelled \subseteq Ids /\ rest \in SUBSET Requests /\ Queue \subseteq Requests
      /\ DOMAIN sessions \subseteq EngineIds
  BY DEF BooksInv, ServiceTypes, ToSet, Queue
<1>3. /\ Whereabouts /\ EngineKnows
  BY DEF BooksInv, BooksPart
<1>4. \A r \in Requests : Live(r) => r \in rest /\ r \in Failing
  BY <1>3 DEF Whereabouts, Failing
<1>5. /\ status' \in [Objects -> Status]
      /\ \A o \in Objects :
            status'[o] = IF o \in Failing /\ Live(o) THEN "ERROR" ELSE status[o]
  <2> HIDE DEF Failing
  <2> QED BY <1>1, <1>2 DEF Status, Finished
<1>6. \A r \in Requests : status'[r] = IF r \in G THEN "ERROR" ELSE status[r]
  BY <1>4, <1>5, Distinct
<1>7. Queue' = {} /\ IsInjective(pending') /\ Queue \subseteq G
  <2>1. \A r \in Queue : Live(r)
    BY <1>3, StatusesDiffer DEF Whereabouts, Live
  <2> QED BY <1>1, <1>2, <2>1, ListEmpty DEF Queue
<1>8. known' \cap Requests = known \cap Requests
  BY <1>1, <1>2, Distinct
<1>9. status' = st /\ G \in SUBSET Requests /\ G \subseteq none \cup rest
  BY <1>1, <1>4
<1>10. \A r \in G : Live(r)
  OBVIOUS
<1>11. \A r \in Requests : Live(r) => r \in G
  OBVIOUS
<1>12. /\ none \in SUBSET Requests /\ none \in SUBSET deadlines
       /\ marks \in SUBSET cancelled /\ cancelled \ marks = {}
  OBVIOUS
<1> HIDE DEF st, G, rest, marks, none
<1>13. EndIn(G, st, none, rest, marks, none)
  <2>1. \A r \in G : Live(r) /\ status'[r] \in {"ABORTED", "ERROR"}
    BY <1>6, <1>9, <1>10
  <2>2. \A r \in Requests \ G : status'[r] = status[r]
    BY <1>6
  <2>3. \A r \in Requests : status'[r] = st[r]
    BY <1>9
  <2>4. /\ Queue' \subseteq Queue /\ Queue' \cap Hands' = {} /\ Hands \ G \subseteq Hands'
        /\ Queue' \cup Hands' = (Queue \cup Hands) \ G
    BY <1>7
  <2>5. \A c \in Canceller :
           /\ cancel'[c].request = cancel[c].request
           /\ cancel[c].request # Nobody => cancel'[c] = cancel[c]
           /\ cancel'[c].request # Nobody <=> cancel'[c].at \in {"marked", "aborted"}
    BY CallsAre
  <2> QED BY <1>1, <1>2, <1>7, <1>8, <1>9, <1>11, <1>12, <2>1, <2>2, <2>3, <2>4, <2>5 DEF EndIn
<1>14. /\ BooksPart'
       /\ tracked' \in Seq(Requests) /\ completed' \in Seq(Requests)
       /\ cancelled' \subseteq Ids /\ deadlines' \subseteq Ids
  BY <1>13, EndsKeep
<1>15. waiting' \in Seq(Objects) /\ ToSet(waiting') = {}
  <2>1. waiting' \in Seq(Objects) /\ ToSet(waiting') = ToSet(waiting) \ known
    BY <1>1, <1>2, WithoutKeeps
  <2> QED BY <1>3, <2>1 DEF EngineKnows
<1>16. ServiceTypes'
  <2>1. pending' \in Seq(Requests) /\ pending_chat' \in Seq(Turns)
    BY <1>1
  <2>2. DOMAIN sessions' = {} /\ sessions' \in [DOMAIN sessions' -> Session]
    BY <1>1
  <2>3. known' \subseteq Objects /\ cancel' \in [Canceller -> Call] /\ told' \subseteq Requests
        /\ opened' \in 0 .. MaxEngineIds
    BY <1>1, <1>2 DEF BooksInv, ServiceTypes
  <2> QED BY <1>5, <1>14, <1>15, <2>1, <2>2, <2>3 DEF ServiceTypes
<1>17. EngineKnows'
  <2>1. \A o \in Objects : status'[o] \notin {"RUNNING", "PARKED"}
    BY <1>3, <1>5 DEF EngineKnows, Failing, Live, LiveStatus
  <2>2. \A r \in Requests : status'[r] \notin {"PARKED", "CLOSED"}
    BY <1>3, <1>6 DEF EngineKnows
  <2> QED BY <1>15, <2>1, <2>2 DEF EngineKnows
<1> QED BY <1>14, <1>16, <1>17 DEF BooksInv

LEMMA FailuresKeep ==
    ASSUME BooksInv, FailRound \/ Die \/ CloseReturns
    PROVE  BooksInv'
<1>1. worker \in Worker /\ IsInjective(worker.requests)
      /\ (Hands # {} => worker.at \in {"taken", "add"})
  BY DEF BooksInv, BooksPart, ServiceTypes, Whereabouts
<1>2. FailUnfinished /\ UNCHANGED <<cancel, told>>
  BY DEF FailRound, Die, CloseReturns
<1>3. worker.at \in {"failing", "dying", "stopped", "dead"} /\ Hands = {}
  BY <1>1 DEF FailRound, Die, CloseReturns, WorkerAlive
<1>4. CASE worker' = At("take") \/ worker' = At("dead")
  <2>1. worker' \in Worker /\ worker'.at # "start" /\ worker'.requests = << >>
    BY <1>4, AtIs DEF Places
  <2>2. Hands' = {} /\ IsInjective(worker'.requests)
    BY <2>1, ListEmpty DEF Hands
  <2> QED BY <1>2, <1>3, <2>1, <2>2, FailKeeps
<1>5. CASE worker' = worker
  <2>1. worker' \in Worker /\ worker'.at # "start" /\ Hands' = {}
        /\ IsInjective(worker'.requests)
    BY <1>1, <1>3, <1>5 DEF Hands
  <2> QED BY <1>2, <1>3, <2>1, FailKeeps
<1> QED BY <1>4, <1>5 DEF FailRound, Die, CloseReturns

LEMMA TailKeeps ==
    ASSUME NEW X, NEW s \in Seq(X), IsInjective(s), s # << >>
    PROVE  /\ Head(s) \in X /\ Head(s) \in ToSet(s)
           /\ Tail(s) \in Seq(X) /\ IsInjective(Tail(s))
           /\ ToSet(Tail(s)) = ToSet(s) \ {Head(s)}
<1> DEFINE n == 1
<1>1. /\ Len(s) \in Nat /\ n \in 0 .. Len(s) /\ n \in 1 .. Len(s)
      /\ Head(s) = s[n] /\ Head(s) \in X
  OBVIOUS
<1>2. Tail(s) = SubSeq(s, n + 1, Len(s))
  OBVIOUS
<1>3. {s[i] : i \in 1 .. n} = {s[n]}
  OBVIOUS
<1> HIDE DEF n
<1>4. /\ Tail(s) \in Seq(X) /\ IsInjective(Tail(s))
      /\ ToSet(Tail(s)) = ToSet(s) \ {s[i] : i \in 1 .. n}
  BY <1>1, <1>2, DropFront, DropFrontInjective
<1>5. Head(s) \in ToSet(s)
  BY <1>1 DEF ToSet
<1> QED BY <1>1, <1>3, <1>4, <1>5

\* The worker deals with the first request in its hands.
LEMMA DealtIs ==
    ASSUME BooksInv, Adding, worker' = Dealt
    PROVE  LET r == Head(worker.requests) IN
           /\ r \in Requests /\ r \in Hands /\ r \notin Queue /\ r \notin known
           /\ status[r] = "WAITING" /\ Live(r) /\ ~IsFinished(r) /\ r \in ToSet(tracked)
           /\ worker' \in Worker /\ worker'.at = "add" /\ worker.at = "add"
           /\ IsInjective(worker'.requests) /\ Hands' = Hands \ {r}
<1> DEFINE s == worker.requests
           r == Head(s)
           w == worker
<1>1. /\ w \in Worker /\ s \in Seq(Requests) /\ s # << >> /\ w.at = "add"
      /\ IsInjective(s) /\ Whereabouts
  BY DEF BooksInv, BooksPart, ServiceTypes, Whereabouts, Worker, Adding
<1>2. /\ r \in Requests /\ r \in ToSet(s) /\ Tail(s) \in Seq(Requests)
      /\ IsInjective(Tail(s)) /\ ToSet(Tail(s)) = ToSet(s) \ {r}
  <2> HIDE DEF s
  <2> QED BY <1>1, TailKeeps
<1>3. w' = [w EXCEPT !.requests = Tail(s)]
  BY DEF Dealt
<1> DEFINE t == Tail(s)
<1> HIDE DEF t, s, r
<1>4. w' \in Worker /\ w'.at = w.at /\ w'.requests = t
  <2>1. w' = [w EXCEPT !.requests = t] /\ t \in Seq(Requests)
    BY <1>2, <1>3 DEF t
  <2> HIDE DEF w
  <2> QED BY <1>1, <2>1 DEF Worker
<1>5. r \in Hands /\ Hands' = Hands \ {r} /\ IsInjective(worker'.requests)
  BY <1>2, <1>4 DEF Hands, s, t
<1>6. status[r] = "WAITING" /\ r \notin known /\ r \notin Queue
  BY <1>1, <1>5 DEF Whereabouts
<1>7. Live(r) /\ ~IsFinished(r)
  BY <1>6 DEF Live, IsFinished, LiveStatus, Finished
<1>8. r \in ToSet(tracked)
  BY <1>1, <1>2, <1>7 DEF Whereabouts
<1> QED BY <1>1, <1>2, <1>4, <1>5, <1>6, <1>7, <1>8 DEF r, s

LEMMA AddCancelledKeeps ==
    ASSUME BooksInv, AddCancelled
    PROVE  BooksInv'
<1> DEFINE r == Head(worker.requests)
<1>1. /\ cancelled' = cancelled \ {IdOf[r]} /\ status' = [status EXCEPT ![r] = "ABORTED"]
      /\ UNCHANGED <<waiting, known, pending, pending_chat, tracked, completed, deadlines,
                     sessions, opened, cancel, told>>
  BY DEF AddCancelled, queueVars, sessVars
<1>2. /\ r \in Requests /\ r \in Hands /\ r \notin Queue /\ r \notin known
      /\ status[r] = "WAITING" /\ Live(r) /\ ~IsFinished(r) /\ r \in ToSet(tracked)
      /\ worker' \in Worker /\ worker'.at = "add" /\ worker.at = "add"
      /\ IsInjective(worker'.requests) /\ Hands' = Hands \ {r}
  BY DealtIs DEF AddCancelled
<1> HIDE DEF r
<1>3. /\ status \in [Objects -> Status] /\ waiting \in Seq(Objects) /\ r \in Objects
      /\ \A q \in ToSet(tracked) : q \in Requests
      /\ \A q \in ToSet(completed) : q \in Requests
      /\ \A q \in Queue \cup Hands : q \in Requests
      /\ Queue' = Queue
  <2>1. /\ tracked \in Seq(Requests) /\ completed \in Seq(Requests)
        /\ pending \in Seq(Requests) /\ worker.requests \in Seq(Requests)
    BY DEF BooksInv, ServiceTypes, Worker
  <2> QED BY <1>1, <1>2, <2>1, Distinct DEF BooksInv, ServiceTypes, ToSet, Queue, Hands
<1>4. /\ BooksAgree /\ Whereabouts /\ CompletedAreSettled /\ MarksHaveReason
      /\ PromisesKept /\ EngineKnows
  BY DEF BooksInv, BooksPart
<1>5. /\ status' \in [Objects -> Status] /\ status'[r] = "ABORTED"
      /\ \A o \in Objects \ {r} : status'[o] = status[o]
  BY <1>1, <1>3 DEF Status, Finished
<1>6. /\ \A q \in Requests : q # r => status'[q] = status[q]
      /\ status'[r] \in Finished \ (LiveStatus \cup {"NEW"})
  BY <1>5, Distinct DEF Finished, LiveStatus
<1>7. \A q \in ToSet(tracked) : IdOf[q] = IdOf[r] => q = r
  BY <1>2, <1>4 DEF BooksAgree
<1>8. BooksAgree' /\ CompletedAreSettled'
  <2>1. \A q \in ToSet(completed) : IsFinished(q)'
    BY <1>3, <1>4, <1>6 DEF BooksAgree, IsFinished
  <2> QED BY <1>1, <1>4, <2>1 DEF BooksAgree, CompletedAreSettled
<1>9. Whereabouts'
  <2>1. \A q \in Queue' \cup Hands' : status'[q] = "WAITING" /\ q \notin known'
    BY <1>1, <1>2, <1>3, <1>4, <1>6 DEF Whereabouts
  <2>2. \A q \in Requests : Live(q)' =>
            /\ q \in ToSet(tracked)'
            /\ q \in (Queue \cup Hands \cup known)' \/ worker'.at = "failing"
    <3> SUFFICES ASSUME NEW q \in Requests, Live(q)'
                 PROVE  /\ q \in ToSet(tracked)'
                        /\ q \in (Queue \cup Hands \cup known)' \/ worker'.at = "failing"
      OBVIOUS
    <3>1. q # r /\ Live(q)
      BY <1>6 DEF Live
    <3> QED BY <1>1, <1>2, <1>3, <1>4, <3>1 DEF Whereabouts
  <2>3. \A q \in Requests : status'[q] = "NEW" =>
            q \notin (ToSet(tracked) \cup Queue \cup Hands \cup known \cup told)'
    BY <1>1, <1>2, <1>3, <1>4, <1>6 DEF Whereabouts
  <2>4. \A c \in Canceller : cancel'[c].request # Nobody =>
            status'[cancel'[c].request] # "NEW" /\ cancel'[c].request \notin Queue'
    BY <1>1, <1>3, <1>4, <1>6, CallsAre DEF Whereabouts
  <2> QED BY <1>1, <1>2, <1>3, <1>4, <2>1, <2>2, <2>3, <2>4 DEF Whereabouts
<1>10. MarksHaveReason'
  <2>1. \A i \in cancelled' : TrackedAs(i)' # {}
    BY <1>1, <1>4 DEF MarksHaveReason, TrackedAs
  <2>2. ASSUME NEW q \in ToSet(tracked'), IdOf[q] \in cancelled'
        PROVE  \/ q \in Hands'
               \/ worker'.at = "failing" /\ Live(q)' /\ q \notin known'
               \/ \E c \in Canceller : Asks(c, q, {"marked"})'
               \/ IsFinished(q)' /\ \E c \in Canceller : Asks(c, q, {"aborted"})'
    <3>1. q # r /\ q \in ToSet(tracked) /\ q \in Requests /\ IdOf[q] \in cancelled
      BY <1>1, <1>3, <2>2
    <3>2. \/ q \in Hands
          \/ worker.at = "failing" /\ Live(q) /\ q \notin known
          \/ \E c \in Canceller : Asks(c, q, {"marked"})
          \/ IsFinished(q) /\ \E c \in Canceller : Asks(c, q, {"aborted"})
      BY <1>4, <3>1 DEF MarksHaveReason
    <3> QED BY <1>1, <1>2, <1>6, <3>1, <3>2 DEF IsFinished, Asks
  <2> QED BY <1>1, <1>4, <2>1, <2>2 DEF MarksHaveReason
<1>11. PromisesKept'
  <2> SUFFICES ASSUME NEW q \in Requests, Unique(q)'
               PROVE  /\ q \in Hands'
                         /\ (q \in told' \/ \E c \in Canceller : cancel'[c].request = q)
                             => IdOf[q] \in cancelled'
                      /\ Promised(q)' => \/ status'[q] \in {"ABORTED", "ERROR"}
                                         \/ q \in Hands'
                                         \/ worker'.at = "failing" /\ Live(q)'
                                            /\ q \notin known'
    BY DEF PromisesKept
  <2>1. Unique(q)
    BY <1>2, <1>6 DEF Unique
  <2>2. Promised(q)' => Promised(q)
    BY <1>1 DEF Promised, Asks
  <2>3. q \in Hands' => q # r /\ q \in Hands /\ IdOf[q] # IdOf[r]
    <3>1. q \in Hands => q \in ToSet(tracked)
      BY <1>4, StatusesDiffer DEF Whereabouts, Live
    <3> QED BY <1>2, <1>7, <3>1
  <2> QED BY <1>1, <1>2, <1>4, <1>5, <1>6, <2>1, <2>2, <2>3 DEF PromisesKept
<1>12. ServiceTypes'
  <2>1. cancelled' \subseteq Ids
    BY <1>1 DEF BooksInv, ServiceTypes
  <2> QED BY <1>1, <1>2, <1>5, <2>1 DEF BooksInv, ServiceTypes
<1>13. EngineKnows'
  <2>1. \A o \in ToSet(waiting) : o \in Objects /\ o # r
    BY <1>2, <1>3, <1>4 DEF EngineKnows, ToSet
  <2> QED BY <1>1, <1>3, <1>4, <1>5, <2>1, Distinct DEF EngineKnows
<1> QED BY <1>8, <1>9, <1>10, <1>11, <1>12, <1>13 DEF BooksInv, BooksPart

LEMMA AddRequestKeeps ==
    ASSUME BooksInv, AddRequest
    PROVE  BooksInv'
<1> DEFINE r == Head(worker.requests)
<1>1. /\ IdOf[r] \notin cancelled
      /\ \/ waiting' = Append(waiting, r) /\ known' = known \cup {r} /\ worker' = Dealt
         \/ UNCHANGED <<waiting, known>> /\ worker' = At("failing")
      /\ UNCHANGED <<status, pending, pending_chat, tracked, completed, cancelled, deadlines,
                     sessions, opened, cancel, told>>
  BY DEF AddRequest, IsMarked, queueVars, bookVars, sessVars
<1>2. /\ r \in Requests /\ r \in Hands /\ r \notin known
      /\ status[r] = "WAITING" /\ r \in ToSet(tracked)
      /\ worker' = Dealt =>
            /\ worker' \in Worker /\ worker'.at = "add"
            /\ IsInjective(worker'.requests) /\ Hands' = Hands \ {r}
  <2>1. Adding
    BY DEF AddRequest
  <2>2. worker.requests \in Seq(Requests) /\ IsInjective(worker.requests)
    BY DEF BooksInv, BooksPart, ServiceTypes, Worker, Whereabouts
  <2>3. r \in Requests /\ r \in Hands
    BY <2>1, <2>2, TailKeeps DEF Adding, Hands
  <2>4. status[r] = "WAITING" /\ r \notin known /\ r \in ToSet(tracked)
    <3> HIDE DEF r
    <3>1. Whereabouts
      BY DEF BooksInv, BooksPart
    <3>2. status[r] = "WAITING" /\ r \notin known
      BY <2>3, <3>1 DEF Whereabouts
    <3> QED BY <2>3, <3>1, <3>2, StatusesDiffer DEF Whereabouts, Live
  <2>5. worker' = Dealt =>
            /\ worker' \in Worker /\ worker'.at = "add"
            /\ IsInjective(worker'.requests) /\ Hands' = Hands \ {r}
    BY <2>1, DealtIs
  <2> QED BY <2>3, <2>4, <2>5
<1> HIDE DEF r
<1>3. /\ status \in [Objects -> Status] /\ waiting \in Seq(Objects) /\ known \subseteq Objects
      /\ r \in Objects
      /\ \A q \in ToSet(tracked) : q \in Requests
      /\ \A q \in Queue \cup Hands : q \in Requests
      /\ Queue' = Queue
  <2>1. /\ tracked \in Seq(Requests) /\ pending \in Seq(Requests)
        /\ worker.requests \in Seq(Requests)
    BY DEF BooksInv, ServiceTypes, Worker
  <2> QED BY <1>1, <1>2, <2>1, Distinct DEF BooksInv, ServiceTypes, ToSet, Queue, Hands
<1>4. /\ BooksAgree /\ Whereabouts /\ CompletedAreSettled /\ MarksHaveReason
      /\ PromisesKept /\ EngineKnows
  BY DEF BooksInv, BooksPart
<1>5. \/ /\ waiting' \in Seq(Objects) /\ ToSet(waiting') = ToSet(waiting) \cup {r}
         /\ known' = known \cup {r} /\ Hands' = Hands \ {r} /\ worker'.at = "add"
      \/ /\ waiting' = waiting /\ known' = known /\ Hands' = {} /\ worker'.at = "failing"
  <2>1. worker' = At("failing") => worker'.at = "failing" /\ Hands' = {}
    BY AtIs, ListEmpty DEF Places, Hands
  <2>2. /\ Append(waiting, r) \in Seq(Objects)
        /\ ToSet(Append(waiting, r)) = ToSet(waiting) \cup {r}
    BY <1>3, AppendSet
  <2>3. CASE waiting' = Append(waiting, r) /\ known' = known \cup {r} /\ worker' = Dealt
    BY <1>2, <2>2, <2>3
  <2>4. CASE UNCHANGED <<waiting, known>> /\ worker' = At("failing")
    BY <2>1, <2>4
  <2> QED BY <1>1, <2>3, <2>4
<1>6. worker' \in Worker /\ IsInjective(worker'.requests)
  <2>1. worker' = At("failing") => worker' \in Worker /\ worker'.requests = << >>
    BY AtIs DEF Places
  <2> QED BY <1>1, <1>2, <2>1, ListEmpty
\* Whoever was in the worker's hands still is, or went to the engine without a
\* mark, or waits for everything to fail.
<1>7. \A q \in Hands : \/ q \in Hands'
                       \/ q = r /\ q \in known'
                       \/ worker'.at = "failing" /\ Live(q)' /\ q \notin known'
  <2>1. \A q \in Hands : status[q] \in LiveStatus /\ q \notin known
    BY <1>4, StatusesDiffer DEF Whereabouts
  <2> QED BY <1>1, <1>5, <2>1 DEF Live
<1>8. /\ Hands' \subseteq Hands /\ known \subseteq known'
      /\ \A q \in known' : q \in known \/ q = r
      /\ r \notin Hands'
      /\ \A q \in Queue' \cup Hands' : q \notin known'
  BY <1>2, <1>3, <1>4, <1>5 DEF Whereabouts
<1>9. worker.at = "add"
  BY DEF AddRequest, Adding
<1>10. BooksAgree' /\ CompletedAreSettled'
  BY <1>1, <1>4 DEF BooksAgree, CompletedAreSettled, IsFinished
<1>11. Whereabouts'
  <2>1. \A q \in Queue' \cup Hands' : status'[q] = "WAITING" /\ q \notin known'
    BY <1>1, <1>3, <1>4, <1>8 DEF Whereabouts
  <2>2. \A q \in Requests : Live(q)' =>
            /\ q \in ToSet(tracked)'
            /\ q \in (Queue \cup Hands \cup known)' \/ worker'.at = "failing"
    BY <1>1, <1>3, <1>4, <1>7, <1>8, <1>9 DEF Whereabouts, Live
  <2>3. \A q \in Requests : status'[q] = "NEW" =>
            q \notin (ToSet(tracked) \cup Queue \cup Hands \cup known \cup told)'
    BY <1>1, <1>2, <1>3, <1>4, <1>8 DEF Whereabouts
  <2>4. \A c \in Canceller : cancel'[c].request # Nobody =>
            status'[cancel'[c].request] # "NEW" /\ cancel'[c].request \notin Queue'
    BY <1>1, <1>3, <1>4 DEF Whereabouts
  <2>5. Hands' # {} => worker'.at \in {"taken", "add"}
    BY <1>5
  <2> QED BY <1>1, <1>3, <1>4, <1>6, <1>8, <2>1, <2>2, <2>3, <2>4, <2>5 DEF Whereabouts
<1>12. MarksHaveReason'
  <2>1. \A i \in cancelled' : TrackedAs(i)' # {}
    BY <1>1, <1>4 DEF MarksHaveReason, TrackedAs
  <2>2. ASSUME NEW q \in ToSet(tracked'), IdOf[q] \in cancelled'
        PROVE  \/ q \in Hands'
               \/ worker'.at = "failing" /\ Live(q)' /\ q \notin known'
               \/ \E c \in Canceller : Asks(c, q, {"marked"})'
               \/ IsFinished(q)' /\ \E c \in Canceller : Asks(c, q, {"aborted"})'
    <3>1. q # r /\ q \in ToSet(tracked) /\ q \in Requests /\ IdOf[q] \in cancelled
      BY <1>1, <1>3, <2>2
    <3>2. \/ q \in Hands
          \/ \E c \in Canceller : Asks(c, q, {"marked"})
          \/ IsFinished(q) /\ \E c \in Canceller : Asks(c, q, {"aborted"})
      BY <1>4, <1>9, <3>1 DEF MarksHaveReason
    <3> QED BY <1>1, <1>7, <3>1, <3>2 DEF IsFinished, Asks
  <2> QED BY <1>1, <1>4, <2>1, <2>2 DEF MarksHaveReason
<1>13. PromisesKept'
  <2> SUFFICES ASSUME NEW q \in Requests, Unique(q)'
               PROVE  /\ q \in Hands'
                         /\ (q \in told' \/ \E c \in Canceller : cancel'[c].request = q)
                             => IdOf[q] \in cancelled'
                      /\ Promised(q)' => \/ status'[q] \in {"ABORTED", "ERROR"}
                                         \/ q \in Hands'
                                         \/ worker'.at = "failing" /\ Live(q)'
                                            /\ q \notin known'
    BY DEF PromisesKept
  <2>1. Unique(q)
    BY <1>1 DEF Unique
  <2>2. Promised(q)' => Promised(q)
    BY <1>1 DEF Promised, Asks
  <2>3. q \in Hands' /\ (q \in told' \/ \E c \in Canceller : cancel'[c].request = q)
             => IdOf[q] \in cancelled'
    BY <1>1, <1>4, <1>8, <2>1 DEF PromisesKept
  <2>4. ASSUME Promised(q)
        PROVE  \/ status'[q] \in {"ABORTED", "ERROR"}
               \/ q \in Hands'
               \/ worker'.at = "failing" /\ Live(q)' /\ q \notin known'
    <3>1. status[q] \in {"ABORTED", "ERROR"} \/ q \in Hands
      BY <1>4, <1>9, <2>1, <2>4 DEF PromisesKept
    <3>2. CASE q \in Hands
      <4>1. IdOf[q] \in cancelled
        BY <1>4, <2>1, <2>4, <3>2 DEF PromisesKept, Promised, Asks
      <4> QED BY <1>1, <1>7, <3>2, <4>1
    <3> QED BY <1>1, <3>1, <3>2
  <2> QED BY <2>2, <2>3, <2>4
<1>14. ServiceTypes'
  <2>1. waiting' \in Seq(Objects) /\ known' \subseteq Objects /\ worker'.at # "start"
    BY <1>3, <1>5, <1>8
  <2> QED BY <1>1, <1>6, <2>1 DEF BooksInv, ServiceTypes
<1>15. EngineKnows'
  <2>1. \A o \in ToSet(waiting') : o \in ToSet(waiting) \/ (o = r /\ r \in known')
    BY <1>5
  <2> QED BY <1>1, <1>2, <1>4, <1>8, <2>1 DEF EngineKnows
<1> QED BY <1>10, <1>11, <1>12, <1>13, <1>14, <1>15 DEF BooksInv, BooksPart

\* The engine queues nothing twice, and the ids of sessions are fresh.
EngineQueue ==
    /\ IsInjective(waiting)
    /\ \A x \in EngineIds : x > opened => status[x] = "NEW"

\* What may happen to the requests that run when the engine has admitted k.
LEMMA RunningIs ==
    ASSUME BooksInv, EngineQueue, NEW k, Admits(k)
    PROVE  /\ waiting' \in Seq(Objects) /\ IsInjective(waiting')
           /\ RunningAfter(k) \subseteq Objects
           /\ \A o \in RunningAfter(k) : Live(o) /\ o \in known /\ o \notin ToSet(waiting')
           /\ ToSet(waiting') \subseteq ToSet(waiting)
<1> DEFINE u == SubSeq(waiting, 1, k)
<1>1. waiting \in Seq(Objects) /\ IsInjective(waiting) /\ EngineKnows
  BY DEF BooksInv, ServiceTypes, EngineQueue
<1>2. k \in 0 .. Len(waiting) /\ waiting' = SubSeq(waiting, k + 1, Len(waiting))
  BY DEF Admits
<1>3. /\ waiting' \in Seq(Objects) /\ IsInjective(waiting')
      /\ ToSet(waiting') = ToSet(waiting) \ ToSet(u) /\ ToSet(u) \subseteq ToSet(waiting)
  BY <1>1, <1>2, DropsSet
<1>4. RunningAfter(k) = Running \cup ToSet(u)
  BY DEF RunningAfter
<1> HIDE DEF u
<1>5. ToSet(waiting) \subseteq Objects
  BY <1>1 DEF ToSet
<1>6. \A o \in Running : o \in Objects /\ status[o] = "RUNNING" /\ o \in known
                         /\ o \notin ToSet(waiting)
  BY <1>1 DEF Running, EngineKnows
<1>7. \A o \in ToSet(u) : Live(o) /\ o \in known
  BY <1>1, <1>3 DEF EngineKnows, Live, LiveStatus
<1>8. \A o \in Running : Live(o)
  BY <1>6 DEF Live, LiveStatus
<1> QED BY <1>3, <1>4, <1>5, <1>6, <1>7, <1>8

\* engine.step(): nothing changes for the books but the statuses of what runs.
LEMMA StepKeeps ==
    ASSUME BooksInv, EngineQueue, Stepping, NEW k, Admits(k), NEW bad \in SUBSET EngineIds,
           status' \in [Objects -> Status],
           \A o \in Objects : o \notin RunningAfter(k) => status'[o] = status[o] \/ o \in bad,
           \A r \in Requests : r \in RunningAfter(k) =>
               status'[r] \in {"FINISHED", "ERROR", "RUNNING"},
           \A o \in bad : status'[o] = "CLOSED" /\ o \in RunningAfter(k),
           known' = known \ bad,
           DOMAIN sessions' \subseteq EngineIds, sessions' \in [DOMAIN sessions' -> Session],
           worker' \in Worker, worker'.at # "start", worker'.requests = << >>,
           UNCHANGED <<pending, pending_chat, tracked, completed, cancelled, deadlines,
                       opened, cancel, told>>
    PROVE  BooksInv'
<1> DEFINE R == RunningAfter(k)
<1>1. /\ waiting' \in Seq(Objects) /\ IsInjective(waiting')
      /\ R \subseteq Objects
      /\ \A o \in R : Live(o) /\ o \in known /\ o \notin ToSet(waiting')
      /\ ToSet(waiting') \subseteq ToSet(waiting)
  BY RunningIs
<1>2. /\ \A o \in Objects : o \notin R => status'[o] = status[o]
      /\ \A r \in Requests : r \in R => status'[r] \in {"FINISHED", "ERROR", "RUNNING"}
  OBVIOUS
<1> HIDE DEF R
<1>3. /\ BooksAgree /\ Whereabouts /\ CompletedAreSettled /\ MarksHaveReason
      /\ PromisesKept /\ EngineKnows
  BY DEF BooksInv, BooksPart
<1>4. /\ \A q \in ToSet(tracked) : q \in Requests
      /\ \A q \in ToSet(completed) : q \in Requests
      /\ \A q \in Queue : q \in Requests
      /\ \A o \in ToSet(waiting) : o \in Objects
  BY DEF BooksInv, ServiceTypes, ToSet, Queue
<1>5. worker.at = "add" /\ Hands = {} /\ Hands' = {} /\ Queue' = Queue
      /\ IsInjective(worker'.requests)
  BY ListEmpty DEF Stepping, Hands, Queue
<1>6. /\ \A r \in Requests : status'[r] \in LiveStatus => Live(r)
      /\ \A r \in Requests : status'[r] = "NEW" => status[r] = "NEW"
      /\ \A r \in Requests : IsFinished(r) => status'[r] = status[r]
      /\ \A r \in Requests : status[r] # "NEW" => status'[r] # "NEW"
      /\ \A r \in Requests : r \in known' <=> r \in known
  <2>1. \A r \in R : ~IsFinished(r)
    BY <1>1, StatusesDiffer DEF Live, IsFinished
  <2> QED BY <1>1, <1>2, <2>1, Distinct DEF Live
<1>7. BooksAgree' /\ CompletedAreSettled'
  <2>1. \A q \in ToSet(completed) : status'[q] \in Finished
    BY <1>3, <1>4, <1>6 DEF BooksAgree, IsFinished
  <2> QED BY <1>3, <2>1 DEF BooksAgree, CompletedAreSettled, IsFinished
<1>8. Whereabouts'
  <2>1. \A q \in Queue' \cup Hands' : status'[q] = "WAITING" /\ q \notin known'
    <3>1. \A q \in Queue : status[q] = "WAITING" /\ q \notin known /\ q \notin R
      BY <1>1, <1>3 DEF Whereabouts
    <3> QED BY <1>2, <1>4, <1>5, <1>6, <3>1, Distinct
  <2>2. \A q \in Requests : Live(q)' =>
            /\ q \in ToSet(tracked)'
            /\ q \in (Queue \cup Hands \cup known)' \/ worker'.at = "failing"
    BY <1>3, <1>5, <1>6 DEF Whereabouts, Live
  <2>3. \A q \in Requests : status'[q] = "NEW" =>
            q \notin (ToSet(tracked) \cup Queue \cup Hands \cup known \cup told)'
    BY <1>3, <1>5, <1>6 DEF Whereabouts
  <2>4. \A c \in Canceller : cancel'[c].request # Nobody =>
            status'[cancel'[c].request] # "NEW" /\ cancel'[c].request \notin Queue'
    BY <1>3, <1>5, <1>6, CallsAre DEF Whereabouts
  <2> QED BY <1>3, <1>5, <2>1, <2>2, <2>3, <2>4 DEF Whereabouts
<1>9. MarksHaveReason'
  <2>1. \A i \in cancelled' : TrackedAs(i)' # {}
    BY <1>3 DEF MarksHaveReason, TrackedAs
  <2>2. ASSUME NEW q \in ToSet(tracked'), IdOf[q] \in cancelled'
        PROVE  \/ \E c \in Canceller : Asks(c, q, {"marked"})'
               \/ IsFinished(q)' /\ \E c \in Canceller : Asks(c, q, {"aborted"})'
    <3>1. q \in ToSet(tracked) /\ q \in Requests /\ IdOf[q] \in cancelled
      BY <1>4, <2>2
    <3>2. \/ \E c \in Canceller : Asks(c, q, {"marked"})
          \/ IsFinished(q) /\ \E c \in Canceller : Asks(c, q, {"aborted"})
      BY <1>3, <1>5, <3>1 DEF MarksHaveReason
    <3> QED BY <1>6, <3>1, <3>2 DEF IsFinished, Asks
  <2> QED BY <1>3, <2>1, <2>2 DEF MarksHaveReason
<1>10. PromisesKept'
  <2> SUFFICES ASSUME NEW q \in Requests, Unique(q)', Promised(q)'
               PROVE  status'[q] \in {"ABORTED", "ERROR"}
    BY <1>5 DEF PromisesKept
  <2>1. Unique(q) /\ Promised(q)
    BY <1>6 DEF Unique, Promised, Asks
  <2>2. status[q] \in {"ABORTED", "ERROR"}
    BY <1>3, <1>5, <2>1 DEF PromisesKept
  <2> QED BY <1>6, <2>2 DEF IsFinished, Finished
<1>11. ServiceTypes'
  BY <1>1 DEF BooksInv, ServiceTypes
<1>12. EngineKnows'
  <2>1. \A o \in ToSet(waiting') : status'[o] = "WAITING" /\ o \in known'
    <3>1. \A o \in ToSet(waiting') : o \in Objects /\ o \notin R /\ o \notin bad
      BY <1>1, <1>4 DEF R
    <3> QED BY <1>1, <1>2, <1>3, <3>1 DEF EngineKnows
  <2>2. \A o \in Objects : status'[o] \in {"RUNNING", "PARKED"} => o \in known'
    <3> SUFFICES ASSUME NEW o \in Objects, status'[o] \in {"RUNNING", "PARKED"}
                 PROVE  o \in known'
      OBVIOUS
    <3>1. o \notin bad
      OBVIOUS
    <3> QED BY <1>1, <1>2, <1>3, <3>1 DEF EngineKnows
  <2>3. \A r \in Requests : status'[r] \notin {"PARKED", "CLOSED"}
    BY <1>2, <1>3, Distinct DEF EngineKnows
  <2> QED BY <2>1, <2>2, <2>3 DEF EngineKnows
<1> QED BY <1>7, <1>8, <1>9, <1>10, <1>11, <1>12 DEF BooksInv, BooksPart

LEMMA SessionFreed ==
    ASSUME NEW s \in Session
    PROVE  [s EXCEPT !.active = Nobody] \in Session
  BY DEF Session

LEMMA StepEndsKeeps ==
    ASSUME BooksInv, EngineQueue, NEW k, NEW done, StepEnds(k, done)
    PROVE  BooksInv'
<1> DEFINE over == {x \in done \cap DOMAIN sessions : sessions[x].active # Nobody}
           T    == {sessions[x].active : x \in over}
           R    == RunningAfter(k)
<1>1. PICK bad \in SUBSET {x \in over : sessions[x].kind = "token"} :
         /\ status' = [o \in Objects |->
               IF o \in bad THEN "CLOSED"
               ELSE IF o \in done \cap Requests THEN "FINISHED"
               ELSE IF o \in done THEN "PARKED"
               ELSE IF o \in R THEN "RUNNING" ELSE status[o]]
         /\ sessions' = [x \in DOMAIN sessions \ bad |->
               IF x \in over THEN [sessions[x] EXCEPT !.active = Nobody] ELSE sessions[x]]
         /\ known' = known \ bad
  BY DEF StepEnds
<1>2. /\ Stepping /\ Admits(k) /\ done \subseteq R
      /\ worker' = [worker EXCEPT !.at = "settle", !.settled = @ \cup T]
      /\ UNCHANGED <<pending, pending_chat, tracked, completed, cancelled, deadlines,
                     opened, cancel, told>>
  BY DEF StepEnds, queueVars, bookVars
<1>3. /\ status \in [Objects -> Status] /\ DOMAIN sessions \subseteq EngineIds
      /\ sessions \in [DOMAIN sessions -> Session] /\ worker \in Worker
      /\ worker.requests = << >>
  BY <1>2 DEF BooksInv, ServiceTypes, Stepping
<1>4. over \subseteq done /\ over \subseteq DOMAIN sessions /\ over \subseteq EngineIds
      /\ bad \subseteq over /\ bad \subseteq R
      /\ \A x \in over : sessions[x].active # Nobody
  BY <1>2, <1>3
<1>5. T \subseteq Turns
  <2>1. \A x \in DOMAIN sessions : sessions[x].active \in Turns \cup {Nobody}
    BY <1>3 DEF Session
  <2> HIDE DEF over
  <2> QED BY <1>4, <2>1
<1> HIDE DEF over, T, R
<1>6. \A o \in Objects : status'[o] =
               IF o \in bad THEN "CLOSED"
               ELSE IF o \in done \cap Requests THEN "FINISHED"
               ELSE IF o \in done THEN "PARKED"
               ELSE IF o \in R THEN "RUNNING" ELSE status[o]
  BY <1>1
<1>7. status' \in [Objects -> Status]
  <2>1. {"CLOSED", "FINISHED", "PARKED", "RUNNING"} \subseteq Status
    BY DEF Status, Finished, LiveStatus
  <2> QED BY <1>1, <1>3, <2>1
<1>8. worker' \in Worker /\ worker'.at = "settle" /\ worker'.requests = << >>
  <2> DEFINE w == worker
             s == w.settled \cup T
  <2>1. w' = [w EXCEPT !.at = "settle", !.settled = s] /\ s \in SUBSET Turns
        /\ w.requests = << >> /\ w \in Worker
    BY <1>2, <1>3, <1>5 DEF Worker
  <2> HIDE DEF w, s
  <2>2. w' \in Worker /\ w'.at = "settle" /\ w'.requests = << >>
    BY <2>1 DEF Worker, Places
  <2> QED BY <2>2 DEF w
<1>9. DOMAIN sessions' \subseteq EngineIds /\ sessions' \in [DOMAIN sessions' -> Session]
  <2>1. DOMAIN sessions' = DOMAIN sessions \ bad
    BY <1>1
  <2>2. \A x \in DOMAIN sessions : sessions[x] \in Session
                                   /\ [sessions[x] EXCEPT !.active = Nobody] \in Session
    BY <1>3, SessionFreed
  <2>3. \A x \in DOMAIN sessions \ bad :
           (IF x \in over THEN [sessions[x] EXCEPT !.active = Nobody] ELSE sessions[x])
              \in Session
    BY <2>2, Zenon
  <2>4. sessions' \in [DOMAIN sessions \ bad -> Session]
    BY <1>1, <2>3, Zenon
  <2> QED BY <1>3, <2>1, <2>4
<1>10. \A r \in Requests : r \notin bad /\ r \in Objects
  BY <1>4, Distinct
<1>11. bad \in SUBSET EngineIds /\ bad \subseteq Objects
  BY <1>4, Distinct
<1>12. \A o \in Objects : o \notin R => status'[o] = status[o] \/ o \in bad
  BY <1>2, <1>6 DEF R
<1>13. \A r \in Requests : r \in R => status'[r] \in {"FINISHED", "ERROR", "RUNNING"}
  BY <1>6, <1>10
<1>14. \A o \in bad : status'[o] = "CLOSED" /\ o \in R
  BY <1>4, <1>6, <1>11
<1> QED BY <1>1, <1>2, <1>7, <1>8, <1>9, <1>11, <1>12, <1>13, <1>14, StepKeeps DEF R

LEMMA StepRaisesKeeps ==
    ASSUME BooksInv, EngineQueue, NEW k, NEW bad, StepRaises(k, bad)
    PROVE  BooksInv'
<1> DEFINE R    == RunningAfter(k)
           none == {}
<1>1. /\ Stepping /\ Admits(k) /\ bad \subseteq R
      /\ status' = [o \in Objects |-> IF o \in bad THEN "ERROR"
                                     ELSE IF o \in R THEN "RUNNING" ELSE status[o]]
      /\ worker' = At("failing") \/ worker' = At("dying")
      /\ UNCHANGED <<known, sessions, pending, pending_chat, tracked, completed, cancelled,
                     deadlines, opened, cancel, told>>
  BY DEF StepRaises, queueVars, bookVars, sessVars
<1> HIDE DEF R
<1>2. /\ status \in [Objects -> Status] /\ DOMAIN sessions \subseteq EngineIds
      /\ sessions \in [DOMAIN sessions -> Session]
  BY DEF BooksInv, ServiceTypes
<1>3. worker' \in Worker /\ worker'.at # "start" /\ worker'.requests = << >>
  BY <1>1, AtIs DEF Places
<1>4. status' \in [Objects -> Status]
  BY <1>1, <1>2 DEF Status, Finished, LiveStatus
<1>5. \A o \in Objects : status'[o] = IF o \in bad THEN "ERROR"
                                     ELSE IF o \in R THEN "RUNNING" ELSE status[o]
  BY <1>1
<1>6. \A o \in Objects : o \notin R => status'[o] = status[o] \/ o \in none
  BY <1>1, <1>5
<1>7. \A r \in Requests : r \in R => status'[r] \in {"FINISHED", "ERROR", "RUNNING"}
  BY <1>5, Distinct
<1>8. /\ none \in SUBSET EngineIds /\ known' = known \ none
      /\ \A o \in none : status'[o] = "CLOSED" /\ o \in R
      /\ DOMAIN sessions' \subseteq EngineIds /\ sessions' \in [DOMAIN sessions' -> Session]
  BY <1>1, <1>2
<1> HIDE DEF none
<1> QED BY <1>1, <1>3, <1>4, <1>6, <1>7, <1>8, StepKeeps DEF R

-----------------------------------------------------------------------------
(***************************************************************************)
(* The engine's side: the sessions.                                        *)
(***************************************************************************)

\* The parts of SessionsOwnState.
LiveAreOpen ==
    \A x \in EngineIds : status[x] \in LiveStatus => x \in DOMAIN sessions /\ x \in known
NamesAreUnique ==
    \A x, y \in DOMAIN sessions : sessions[x].session = sessions[y].session => x = y
FreeAreParked ==
    \A x \in DOMAIN sessions : sessions[x].active = Nobody => status[x] = "PARKED"

EngineInv == EngineQueue /\ LiveAreOpen /\ NamesAreUnique /\ FreeAreParked

EngineTypes ==
    /\ status \in [Objects -> Status]
    /\ waiting \in Seq(Objects) /\ known \subseteq Objects
    /\ DOMAIN sessions \subseteq EngineIds
    /\ sessions \in [DOMAIN sessions -> Session]
    /\ opened \in 0 .. MaxEngineIds

EngineSide == EngineTypes /\ EngineKnows /\ EngineInv

\* What a step that is about sessions leaves alone.
RequestsUntouched ==
    \A r \in Requests : status'[r] = status[r] /\ (r \in known' <=> r \in known)

LEMMA SidesMeet ==
    ASSUME BooksInv, EngineSide',
           RequestsUntouched,
           UNCHANGED <<pending, tracked, completed, cancelled, deadlines, cancel, told>>,
           pending_chat' \in Seq(Turns), worker' \in Worker,
           worker'.at = "start" => worker'.turns # << >>,
           worker'.requests = worker.requests,
           worker'.at = "failing" <=> worker.at = "failing",
           Hands # {} => worker'.at \in {"taken", "add"}
    PROVE  BooksInv' /\ EngineInv'
<1>1. BooksPart'
  <2>1. known' \cap Requests = known \cap Requests
    BY DEF RequestsUntouched
  <2>2. \A r \in Requests : status'[r] = status[r]
    BY DEF RequestsUntouched
  <2> QED BY <2>1, <2>2, CallsAre, UnconcernedKeep
<1>2. ServiceTypes'
  BY DEF BooksInv, ServiceTypes, EngineSide, EngineTypes
<1> QED BY <1>1, <1>2 DEF BooksInv, EngineSide

LEMMA SideIs ==
    ASSUME BooksInv, EngineInv
    PROVE  EngineSide
  BY DEF BooksInv, ServiceTypes, EngineSide, EngineTypes

LEMMA SideStays ==
    ASSUME EngineSide, UNCHANGED <<engineVars, sessVars>>
    PROVE  EngineSide' /\ RequestsUntouched
<1>1. EngineTypes' /\ EngineKnows' /\ EngineQueue'
  BY DEF EngineSide, EngineTypes, EngineKnows, EngineInv, EngineQueue, engineVars, sessVars
<1>2. LiveAreOpen' /\ NamesAreUnique' /\ FreeAreParked'
  BY DEF EngineSide, EngineInv, LiveAreOpen, NamesAreUnique, FreeAreParked, engineVars, sessVars
<1> QED BY <1>1, <1>2 DEF EngineSide, EngineInv, RequestsUntouched, engineVars

\* Parked sessions are closed and forgotten.
Forgets(X) ==
    /\ X \subseteq DOMAIN sessions /\ \A x \in X : status[x] = "PARKED"
    /\ status' = Retired(X) /\ known' = known \ X
    /\ sessions' = Restrict(sessions, DOMAIN sessions \ X)
    /\ UNCHANGED <<waiting, opened>>

LEMMA SideForgets ==
    ASSUME EngineSide, NEW X, Forgets(X)
    PROVE  EngineSide' /\ RequestsUntouched
<1>1. /\ EngineTypes /\ EngineKnows /\ EngineQueue
      /\ LiveAreOpen /\ NamesAreUnique /\ FreeAreParked
      /\ X \subseteq EngineIds
  BY DEF EngineSide, EngineInv, EngineTypes, Forgets
<1>2. /\ status' \in [Objects -> Status]
      /\ \A o \in Objects : status'[o] = IF o \in X THEN "CLOSED" ELSE status[o]
  BY <1>1 DEF Forgets, Retired, EngineTypes, Status, Finished
<1>3. /\ DOMAIN sessions' = DOMAIN sessions \ X
      /\ \A x \in DOMAIN sessions' : sessions'[x] = sessions[x]
      /\ sessions' \in [DOMAIN sessions' -> Session]
  BY <1>1 DEF Forgets, Restrict, EngineTypes
<1>4. /\ waiting' = waiting /\ opened' = opened /\ known' = known \ X
      /\ \A x \in X : status[x] = "PARKED"
  BY DEF Forgets
<1>5. EngineTypes'
  BY <1>1, <1>2, <1>3, <1>4 DEF EngineTypes
<1>6. RequestsUntouched
  BY <1>1, <1>2, <1>4, Distinct DEF RequestsUntouched
<1>7. EngineKnows'
  <2>1. \A o \in ToSet(waiting) : o \in Objects /\ o \notin X
    BY <1>1, <1>4 DEF EngineKnows, EngineTypes, ToSet
  <2>2. \A r \in Requests : r \in Objects /\ r \notin X
    BY <1>1, Distinct
  <2> QED BY <1>1, <1>2, <1>4, <2>1, <2>2 DEF EngineKnows
<1>8. EngineQueue'
  <2>1. \A x \in EngineIds : x > opened => x \notin X /\ x \in Objects
    BY <1>1, <1>4, Distinct DEF EngineQueue
  <2> QED BY <1>1, <1>2, <1>4, <2>1 DEF EngineQueue
<1>9. LiveAreOpen'
  <2> SUFFICES ASSUME NEW x \in EngineIds, status'[x] \in LiveStatus
               PROVE  x \in DOMAIN sessions' /\ x \in known'
    BY DEF LiveAreOpen
  <2>1. x \in Objects /\ "CLOSED" \notin LiveStatus
    BY Distinct DEF LiveStatus
  <2>2. x \notin X /\ status'[x] = status[x]
    BY <1>2, <2>1
  <2> QED BY <1>1, <1>3, <1>4, <2>2 DEF LiveAreOpen
<1>10. NamesAreUnique'
  BY <1>1, <1>3 DEF NamesAreUnique
<1>11. FreeAreParked'
  <2>1. \A x \in DOMAIN sessions' : x \in DOMAIN sessions /\ x \notin X /\ x \in Objects
    BY <1>1, <1>3, Distinct DEF EngineTypes
  <2> QED BY <1>1, <1>2, <1>3, <2>1 DEF FreeAreParked
<1> QED BY <1>5, <1>6, <1>7, <1>8, <1>9, <1>10, <1>11 DEF EngineSide, EngineInv

\* A parked session gets a turn and runs, or is left without one.
Reassigns(x, a) ==
    /\ x \in DOMAIN sessions /\ status[x] = "PARKED" /\ a \in Turns \cup {Nobody}
    /\ status' = [status EXCEPT ![x] = IF a = Nobody THEN "PARKED" ELSE "RUNNING"]
    /\ sessions' = [sessions EXCEPT ![x].active = a]
    /\ UNCHANGED <<waiting, known, opened>>

LEMMA SideReassigns ==
    ASSUME EngineSide, NEW x, NEW a, Reassigns(x, a)
    PROVE  EngineSide' /\ RequestsUntouched
<1>1. /\ EngineTypes /\ EngineKnows /\ EngineQueue
      /\ LiveAreOpen /\ NamesAreUnique /\ FreeAreParked
      /\ x \in DOMAIN sessions /\ x \in EngineIds /\ x \in Objects
      /\ status[x] = "PARKED" /\ a \in Turns \cup {Nobody}
  BY Distinct DEF EngineSide, EngineInv, EngineTypes, Reassigns
<1>2. /\ status' \in [Objects -> Status]
      /\ status'[x] = IF a = Nobody THEN "PARKED" ELSE "RUNNING"
      /\ \A o \in Objects \ {x} : status'[o] = status[o]
  BY <1>1 DEF Reassigns, EngineTypes, Status, LiveStatus
<1>3. waiting' = waiting /\ known' = known /\ opened' = opened
  BY DEF Reassigns
<1>4. /\ DOMAIN sessions' = DOMAIN sessions
      /\ \A y \in DOMAIN sessions : y # x => sessions'[y] = sessions[y]
      /\ sessions'[x].active = a /\ sessions'[x].session = sessions[x].session
      /\ sessions' \in [DOMAIN sessions' -> Session]
  <2> DEFINE s == sessions[x]
             d == [s EXCEPT !.active = a]
  <2>1. s \in Session /\ sessions' = [sessions EXCEPT ![x] = d]
    BY <1>1 DEF Reassigns, EngineTypes
  <2> HIDE DEF s
  <2>2. d \in Session /\ d.active = a /\ d.session = s.session
    BY <1>1, <2>1 DEF Session
  <2> HIDE DEF d
  <2> QED BY <1>1, <2>1, <2>2 DEF s, EngineTypes
<1>5. EngineTypes'
  BY <1>1, <1>2, <1>3, <1>4 DEF EngineTypes
<1>6. RequestsUntouched
  <2>1. \A r \in Requests : r \in Objects \ {x}
    BY <1>1, Distinct
  <2> QED BY <1>2, <1>3, <2>1 DEF RequestsUntouched
<1>7. EngineKnows'
  <2>1. \A o \in ToSet(waiting) : o \in Objects \ {x}
    BY <1>1 DEF EngineKnows, EngineTypes, ToSet
  <2>2. x \in known
    BY <1>1 DEF EngineKnows
  <2>3. \A o \in Objects : status'[o] \in {"RUNNING", "PARKED"} => o \in known'
    BY <1>1, <1>2, <1>3, <2>2 DEF EngineKnows
  <2>4. \A r \in Requests : status'[r] \notin {"PARKED", "CLOSED"}
    BY <1>1, <1>6 DEF EngineKnows, RequestsUntouched
  <2> QED BY <1>1, <1>2, <1>3, <2>1, <2>3, <2>4 DEF EngineKnows
<1>8. EngineQueue'
  <2>1. \A y \in EngineIds : y > opened => y # x /\ y \in Objects
    BY <1>1, Distinct DEF EngineQueue
  <2> QED BY <1>1, <1>2, <1>3, <2>1 DEF EngineQueue
<1>9. LiveAreOpen'
  <2>1. x \in known
    BY <1>1 DEF EngineKnows
  <2> QED BY <1>1, <1>2, <1>3, <1>4, <2>1, Distinct DEF LiveAreOpen
<1>10. NamesAreUnique'
  <2>1. \A y \in DOMAIN sessions : sessions'[y].session = sessions[y].session
    BY <1>4
  <2> QED BY <1>1, <1>4, <2>1 DEF NamesAreUnique
<1>11. FreeAreParked'
  <2>1. \A y \in DOMAIN sessions : y \in Objects
    BY <1>1, Distinct DEF EngineTypes
  <2> QED BY <1>1, <1>2, <1>4, <2>1 DEF FreeAreParked
<1> QED BY <1>5, <1>6, <1>7, <1>8, <1>9, <1>10, <1>11 DEF EngineSide, EngineInv

\* A session is closed whatever it is doing.
Drops(x) ==
    /\ x \in DOMAIN sessions /\ status[x] # "PARKED"
    /\ status' = [status EXCEPT ![x] = IF Live(x) THEN "ABORTED" ELSE @]
    /\ waiting' = Without(waiting, {x}) /\ known' = known \ {x}
    /\ sessions' = Restrict(sessions, DOMAIN sessions \ {x})
    /\ opened' = opened

LEMMA SideDrops ==
    ASSUME EngineSide, NEW x, Drops(x)
    PROVE  EngineSide' /\ RequestsUntouched
<1>1. /\ EngineTypes /\ EngineKnows /\ EngineQueue
      /\ LiveAreOpen /\ NamesAreUnique /\ FreeAreParked
      /\ x \in DOMAIN sessions /\ x \in EngineIds /\ x \in Objects
      /\ status[x] # "PARKED" /\ known' = known \ {x} /\ opened' = opened
  BY Distinct DEF EngineSide, EngineInv, EngineTypes, Drops
<1>2. /\ status' \in [Objects -> Status]
      /\ status'[x] = IF Live(x) THEN "ABORTED" ELSE status[x]
      /\ \A o \in Objects \ {x} : status'[o] = status[o]
  BY <1>1 DEF Drops, EngineTypes, Status, Finished
<1>3. /\ status'[x] \notin LiveStatus
      /\ ~Live(x) => status'[x] = status[x]
      /\ status'[x] = "NEW" <=> status[x] = "NEW"
  BY <1>2 DEF Live, LiveStatus
<1>4. /\ waiting' \in Seq(Objects) /\ ToSet(waiting') = ToSet(waiting) \ {x}
      /\ IsInjective(waiting')
  BY <1>1, WithoutKeeps DEF Drops, EngineTypes, EngineQueue
<1>5. /\ DOMAIN sessions' = DOMAIN sessions \ {x}
      /\ \A y \in DOMAIN sessions' : sessions'[y] = sessions[y]
      /\ sessions' \in [DOMAIN sessions' -> Session]
  BY <1>1 DEF Drops, Restrict, EngineTypes
<1>6. EngineTypes'
  BY <1>1, <1>2, <1>4, <1>5 DEF EngineTypes
<1>7. \A r \in Requests : r \in Objects \ {x}
  BY <1>1, Distinct
<1>8. RequestsUntouched
  BY <1>1, <1>2, <1>7 DEF RequestsUntouched
<1>9. EngineKnows'
  <2>1. \A o \in ToSet(waiting') : o \in ToSet(waiting) /\ o \in Objects \ {x}
    <3>1. \A o \in ToSet(waiting) : o \in Objects
      BY <1>1 DEF EngineTypes, ToSet
    <3> QED BY <1>4, <3>1
  <2>2. \A o \in Objects : status'[o] \in {"RUNNING", "PARKED"} => o \in known'
    <3> SUFFICES ASSUME NEW o \in Objects, status'[o] \in {"RUNNING", "PARKED"}
                 PROVE  o \in known'
      OBVIOUS
    <3>1. o # x
      BY <1>3 DEF LiveStatus
    <3> QED BY <1>1, <1>2, <3>1 DEF EngineKnows
  <2>3. \A r \in Requests : status'[r] \notin {"PARKED", "CLOSED"}
    BY <1>1, <1>8 DEF EngineKnows, RequestsUntouched
  <2> QED BY <1>1, <1>2, <2>1, <2>2, <2>3 DEF EngineKnows
<1>10. EngineQueue'
  <2>1. \A y \in EngineIds : y \in Objects
    BY Distinct
  <2>2. \A y \in Objects : status[y] = "NEW" => status'[y] = "NEW"
    BY <1>2, <1>3
  <2> QED BY <1>1, <1>4, <2>1, <2>2 DEF EngineQueue
<1>11. LiveAreOpen'
  BY <1>1, <1>2, <1>3, <1>5, Distinct DEF LiveAreOpen
<1>12. NamesAreUnique'
  BY <1>1, <1>5 DEF NamesAreUnique
<1>13. FreeAreParked'
  <2>1. \A y \in DOMAIN sessions' : y \in DOMAIN sessions /\ y \in Objects \ {x}
    BY <1>1, <1>5, Distinct DEF EngineTypes
  <2> QED BY <1>1, <1>2, <1>5, <2>1 DEF FreeAreParked
<1> QED BY <1>6, <1>8, <1>9, <1>10, <1>11, <1>12, <1>13 DEF EngineSide, EngineInv

\* Parked sessions make room for a new one.
Opens(gone, new) ==
    /\ gone \subseteq DOMAIN sessions /\ \A x \in gone : status[x] = "PARKED"
    /\ new \in Session /\ new.active # Nobody
    /\ OpenAs(new.session) \subseteq gone
    /\ opened < MaxEngineIds /\ opened' = opened + 1
    /\ status' = [Retired(gone) EXCEPT ![opened'] = "WAITING"]
    /\ waiting' = Append(waiting, opened')
    /\ known' = (known \ gone) \cup {opened'}
    /\ sessions' = Assign(Restrict(sessions, DOMAIN sessions \ gone), opened', new)

LEMMA SideOpens ==
    ASSUME EngineSide, NEW gone, NEW new, Opens(gone, new)
    PROVE  EngineSide' /\ RequestsUntouched
<1> DEFINE n == opened'
<1>1. /\ EngineTypes /\ EngineKnows /\ EngineQueue
      /\ LiveAreOpen /\ NamesAreUnique /\ FreeAreParked
      /\ gone \subseteq EngineIds /\ gone \subseteq DOMAIN sessions
      /\ \A x \in gone : status[x] = "PARKED"
      /\ new \in Session /\ new.active # Nobody
  BY DEF EngineSide, EngineInv, EngineTypes, Opens
<1>2. /\ n \in EngineIds /\ n \in Objects /\ status[n] = "NEW" /\ n \in 0 .. MaxEngineIds
      /\ \A x \in EngineIds : x > n => x > opened /\ x # n
      /\ n \notin Requests
  <2>1. opened \in 0 .. MaxEngineIds /\ MaxEngineIds \in Nat /\ opened < MaxEngineIds
    BY <1>1, ServiceAssumption DEF EngineTypes, Opens
  <2>2. n = opened + 1
    BY DEF Opens
  <2>3. n \in EngineIds /\ n > opened /\ n \in 0 .. MaxEngineIds
    BY <2>1, <2>2 DEF EngineIds
  <2>4. \A x \in EngineIds : x > n => x > opened /\ x # n
    BY <2>1, <2>2 DEF EngineIds
  <2> QED BY <1>1, <2>3, <2>4, Distinct DEF EngineQueue
<1> HIDE DEF n
<1>3. n \notin gone /\ n \notin ToSet(waiting)
  BY <1>1, <1>2 DEF EngineKnows
<1>4. /\ status' \in [Objects -> Status]
      /\ \A o \in Objects : status'[o] = IF o = n THEN "WAITING"
                                        ELSE IF o \in gone THEN "CLOSED" ELSE status[o]
  <2> DEFINE st == Retired(gone)
  <2>1. st \in [Objects -> Status]
    BY <1>1 DEF Retired, EngineTypes, Status, Finished
  <2>2. \A o \in Objects : st[o] = IF o \in gone THEN "CLOSED" ELSE status[o]
    BY <1>1 DEF Retired
  <2>3. status' = [st EXCEPT ![n] = "WAITING"]
    BY DEF Opens, n
  <2> HIDE DEF st
  <2> QED BY <1>2, <2>1, <2>2, <2>3 DEF Status, LiveStatus
<1>5. /\ waiting' \in Seq(Objects) /\ IsInjective(waiting')
      /\ ToSet(waiting') = ToSet(waiting) \cup {n}
  <2>1. waiting' = Append(waiting, n)
    BY DEF Opens, n
  <2> QED BY <1>1, <1>2, <1>3, <2>1, AppendFresh DEF EngineTypes, EngineQueue
<1>6. known' = (known \ gone) \cup {n}
  BY DEF Opens, n
<1>7. /\ DOMAIN sessions' = (DOMAIN sessions \ gone) \cup {n}
      /\ sessions'[n] = new
      /\ \A x \in DOMAIN sessions' : x # n => /\ x \in DOMAIN sessions /\ x \notin gone
                                              /\ sessions'[x] = sessions[x]
      /\ sessions' \in [DOMAIN sessions' -> Session]
  <2> DEFINE f == Restrict(sessions, DOMAIN sessions \ gone)
             D == (DOMAIN sessions \ gone) \cup {n}
  <2>1. DOMAIN f = DOMAIN sessions \ gone /\ \A x \in DOMAIN f : f[x] = sessions[x]
    BY DEF Restrict
  <2>2. sessions' = Assign(f, n, new)
    BY DEF Opens, n
  <2> HIDE DEF f
  <2>3. sessions' = [x \in D |-> IF x = n THEN new ELSE f[x]]
    BY <2>1, <2>2 DEF Assign
  <2>4. n \in D /\ \A x \in D : x # n => x \in DOMAIN sessions /\ x \notin gone
    OBVIOUS
  <2>5. \A x \in DOMAIN sessions : sessions[x] \in Session
    BY <1>1 DEF EngineTypes
  <2>6. DOMAIN sessions' = D
    BY <2>3
  <2>7. \A x \in D : sessions'[x] = IF x = n THEN new ELSE sessions[x]
    BY <2>1, <2>3, <2>4
  <2>8. sessions' = [x \in D |-> sessions'[x]]
    BY <2>3
  <2>9. \A x \in D : sessions'[x] \in Session
    BY <1>1, <2>4, <2>5, <2>7
  <2> HIDE DEF D
  <2>10. sessions' \in [D -> Session]
    BY <2>8, <2>9
  <2> QED BY <2>4, <2>6, <2>7, <2>10 DEF D
<1>8. EngineTypes'
  <2>1. DOMAIN sessions' \subseteq EngineIds /\ known' \subseteq Objects
    BY <1>1, <1>2, <1>6, <1>7 DEF EngineTypes
  <2> QED BY <1>2, <1>4, <1>5, <1>7, <2>1 DEF EngineTypes, n
<1>9. \A r \in Requests : r \in Objects /\ r \notin gone /\ r # n
  BY <1>1, <1>2, Distinct
<1>10. RequestsUntouched
  BY <1>4, <1>6, <1>9 DEF RequestsUntouched
<1>11. EngineKnows'
  <2>1. \A o \in ToSet(waiting') : status'[o] = "WAITING" /\ o \in known'
    <3>1. \A o \in ToSet(waiting) : o \in Objects /\ o \notin gone
      BY <1>1 DEF EngineKnows, EngineTypes, ToSet
    <3> QED BY <1>1, <1>2, <1>4, <1>5, <1>6, <3>1 DEF EngineKnows
  <2>2. \A o \in Objects : status'[o] \in {"RUNNING", "PARKED"} => o \in known'
    BY <1>1, <1>4, <1>6 DEF EngineKnows
  <2>3. \A r \in Requests : status'[r] \notin {"PARKED", "CLOSED"}
    BY <1>1, <1>10 DEF EngineKnows, RequestsUntouched
  <2> QED BY <2>1, <2>2, <2>3 DEF EngineKnows
<1>12. EngineQueue'
  <2>1. \A x \in EngineIds : x > n => status'[x] = "NEW"
    <3> SUFFICES ASSUME NEW x \in EngineIds, x > n PROVE status'[x] = "NEW"
      OBVIOUS
    <3>1. x # n /\ status[x] = "NEW" /\ x \in Objects
      BY <1>1, <1>2, Distinct DEF EngineQueue
    <3>2. x \notin gone
      BY <1>1, <3>1
    <3> QED BY <1>4, <3>1, <3>2
  <2> QED BY <1>5, <2>1 DEF EngineQueue, n
<1>13. LiveAreOpen'
  <2> SUFFICES ASSUME NEW x \in EngineIds, status'[x] \in LiveStatus
               PROVE  x \in DOMAIN sessions' /\ x \in known'
    BY DEF LiveAreOpen
  <2>1. CASE x = n
    BY <1>6, <1>7, <2>1
  <2>2. CASE x # n
    <3>1. x \in Objects /\ "CLOSED" \notin LiveStatus
      BY Distinct DEF LiveStatus
    <3>2. x \notin gone /\ status[x] \in LiveStatus
      BY <1>4, <2>2, <3>1
    <3> QED BY <1>1, <1>6, <1>7, <3>2 DEF LiveAreOpen
  <2> QED BY <2>1, <2>2
<1>14. NamesAreUnique'
  <2>1. \A x \in DOMAIN sessions : sessions[x].session = new.session => x \in gone
    BY DEF Opens, OpenAs
  <2> QED BY <1>1, <1>7, <2>1 DEF NamesAreUnique
<1>15. FreeAreParked'
  <2>1. \A x \in DOMAIN sessions : x \in Objects
    BY <1>1, Distinct DEF EngineTypes
  <2> QED BY <1>1, <1>4, <1>7, <2>1 DEF FreeAreParked
<1> QED BY <1>8, <1>10, <1>11, <1>12, <1>13, <1>14, <1>15 DEF EngineSide, EngineInv

-----------------------------------------------------------------------------
(***************************************************************************)
(* The actions that are about sessions and turns.                          *)
(***************************************************************************)

\* The worker moves on, with no other request in its hands.
MovesOn ==
    /\ worker' \in Worker /\ worker'.requests = worker.requests
    /\ worker'.at = "start" => worker'.turns # << >>
    /\ worker.at # "failing" /\ worker'.at # "failing"
    /\ Hands = {} \/ worker'.at \in {"taken", "add"}

LEMMA EmptyList ==
    ASSUME NEW X, NEW s \in Seq(X), ToSet(s) = {}
    PROVE  s = << >>
<1>1. Len(s) = 0
  <2>1. SUFFICES ASSUME Len(s) # 0 PROVE FALSE
    OBVIOUS
  <2>2. 1 \in DOMAIN s
    BY <2>1
  <2> QED BY <2>2 DEF ToSet
<1> QED BY <1>1

LEMMA WorkerMoves ==
    ASSUME BooksInv, EngineInv, MovesOn, EngineSide', RequestsUntouched,
           UNCHANGED <<pending, pending_chat, bookVars, cancel, told>>
    PROVE  BooksInv' /\ EngineInv'
<1>1. pending_chat' \in Seq(Turns)
  BY DEF BooksInv, ServiceTypes
<1> QED BY <1>1, SidesMeet DEF MovesOn, bookVars

LEMMA IdleMoves ==
    ASSUME BooksInv, EngineInv, Stop \/ PickTurn \/ StepNone
    PROVE  BooksInv' /\ EngineInv'
<1> DEFINE w == worker
<1>1. EngineSide' /\ RequestsUntouched
  BY SideIs, SideStays DEF Stop, PickTurn, StepNone
<1>2. UNCHANGED <<pending, pending_chat, bookVars, cancel, told>>
  BY DEF Stop, PickTurn, StepNone, queueVars
<1>3. /\ w \in Worker /\ w.requests \in Seq(Requests) /\ w.turns \in Seq(Turns)
      /\ Hands # {} => w.at \in {"taken", "add"}
  BY DEF BooksInv, BooksPart, ServiceTypes, Worker, Whereabouts
<1>4. CASE Stop
  <2>1. w.at = "take" /\ w' = At("stopped") /\ Hands = {}
    BY <1>3, <1>4 DEF Stop
  <2>2. w.requests = << >>
    BY <1>3, <2>1, EmptyList DEF Hands
  <2>3. MovesOn
    BY <2>1, <2>2, AtIs DEF MovesOn, Places
  <2> QED BY <1>1, <1>2, <2>3, WorkerMoves
<1>5. CASE PickTurn
  <2> DEFINE t == Tail(w.turns)
  <2>1. /\ w.at = "add" /\ w.requests = << >> /\ w.turns # << >>
        /\ w' = [w EXCEPT !.turns = t] \/ w' = [w EXCEPT !.at = "start"]
    BY <1>5 DEF PickTurn
  <2>2. t \in Seq(Turns)
    BY <1>3, <2>1
  <2>3. Hands = {}
    BY <2>1, ListEmpty DEF Hands
  <2> HIDE DEF w, t
  <2>4. w' \in Worker /\ w'.requests = w.requests /\ w'.at \in {"add", "start"}
        /\ (w'.at = "start" => w'.turns # << >>)
    <3>1. CASE w' = [w EXCEPT !.turns = t]
      BY <1>3, <2>1, <2>2, <3>1 DEF Worker
    <3>2. CASE w' = [w EXCEPT !.at = "start"]
      BY <1>3, <2>1, <3>2 DEF Worker, Places
    <3> QED BY <2>1, <3>1, <3>2
  <2>5. MovesOn
    BY <2>1, <2>3, <2>4 DEF MovesOn, w
  <2> QED BY <1>1, <1>2, <2>5, WorkerMoves
<1>6. CASE StepNone
  <2>1. w.at = "add" /\ w.requests = << >> /\ w' = [w EXCEPT !.at = "settle"]
    BY <1>6 DEF StepNone, Stepping
  <2>2. Hands = {}
    BY <2>1, ListEmpty DEF Hands
  <2> HIDE DEF w
  <2>3. w' \in Worker /\ w'.requests = w.requests /\ w'.at = "settle"
    BY <1>3, <2>1 DEF Worker, Places
  <2>4. MovesOn
    BY <2>1, <2>2, <2>3 DEF MovesOn, w
  <2> QED BY <1>1, <1>2, <2>4, WorkerMoves
<1> QED BY <1>4, <1>5, <1>6

LEMMA EvictExpiredKeeps ==
    ASSUME BooksInv, EngineInv, NEW X, EvictExpired(X)
    PROVE  BooksInv' /\ EngineInv'
<1> DEFINE w == worker
<1>1. Forgets(X)
  BY DEF EvictExpired, Evictable, Forgets
<1>2. EngineSide' /\ RequestsUntouched
  BY <1>1, SideIs, SideForgets
<1>3. UNCHANGED <<pending, pending_chat, bookVars, cancel, told>>
  BY DEF EvictExpired, queueVars
<1>4. w \in Worker /\ w.at = "taken" /\ w' = [w EXCEPT !.at = "add"]
  BY DEF BooksInv, ServiceTypes, EvictExpired
<1> HIDE DEF w
<1>5. w' \in Worker /\ w'.requests = w.requests /\ w'.at = "add"
  BY <1>4 DEF Worker, Places
<1>6. MovesOn
  BY <1>4, <1>5 DEF MovesOn, w
<1> QED BY <1>2, <1>3, <1>6, WorkerMoves

LEMMA LeaveEngineKeeps ==
    ASSUME BooksInv, EngineInv, NEW t \in Turns, LeaveEngine(t)
    PROVE  BooksInv' /\ EngineInv'
<1> DEFINE x == leave[t].engine_req_id
           nobody == Nobody
<1>1. UNCHANGED <<pending, pending_chat, bookVars, opened, worker, cancel, told>>
  BY DEF LeaveEngine, queueVars
<1>2. /\ pending_chat \in Seq(Turns) /\ worker \in Worker
      /\ worker.at = "start" => worker.turns # << >>
      /\ Hands # {} => worker.at \in {"taken", "add"}
  BY DEF BooksInv, BooksPart, ServiceTypes, Whereabouts
<1>3. EngineSide' /\ RequestsUntouched
  <2>1. CASE UNCHANGED <<engineVars, sessions>>
    BY <1>1, <2>1, SideIs, SideStays DEF sessVars
  <2>2. CASE /\ x \in DOMAIN sessions /\ status[x] = "PARKED"
             /\ sessions' = [sessions EXCEPT ![x].active = Nobody]
             /\ UNCHANGED engineVars
    <3>1. status' = [status EXCEPT ![x] = "PARKED"]
      BY <2>2 DEF BooksInv, ServiceTypes, engineVars
    <3>2. Reassigns(x, nobody)
      BY <1>1, <2>2, <3>1 DEF Reassigns, engineVars
    <3> QED BY <3>2, SideIs, SideReassigns
  <2>3. CASE /\ x \in DOMAIN sessions /\ status[x] # "PARKED"
             /\ status' = [status EXCEPT ![x] = IF Live(x) THEN "ABORTED" ELSE @]
             /\ waiting' = Without(waiting, {x})
             /\ known' = known \ {x}
             /\ sessions' = Restrict(sessions, DOMAIN sessions \ {x})
    <3>1. Drops(x)
      BY <1>1, <2>3 DEF Drops
    <3> QED BY <3>1, SideIs, SideDrops
  <2> QED BY <2>1, <2>2, <2>3 DEF LeaveEngine
<1> QED BY <1>1, <1>2, <1>3, SidesMeet DEF bookVars

\* The worker is done with the first turn in its hands.
LEMMA StartedMoves ==
    ASSUME BooksInv, worker.at = "start"
    PROVE  LET t == Head(worker.turns) IN
           /\ t \in Turns
           /\ worker' = Started => MovesOn
           /\ worker' = [Started EXCEPT !.retry = Append(@, t)] => MovesOn
           /\ worker' = [Started EXCEPT !.settled = @ \cup {t}] => MovesOn
<1> DEFINE w == worker
           s == w.turns
           t == Head(s)
           u == Tail(s)
           v == Started
<1>1. /\ w \in Worker /\ s \in Seq(Turns) /\ s # << >> /\ w.at = "start"
      /\ Hands = {}
  BY DEF BooksInv, BooksPart, ServiceTypes, Worker, Whereabouts
<1>2. t \in Turns /\ u \in Seq(Turns)
  <2> HIDE DEF s
  <2> QED BY <1>1
<1>3. v = [w EXCEPT !.at = "add", !.turns = u]
  BY DEF Started
<1> HIDE DEF s, t, u, v
<1>4. v \in Worker /\ v.at = "add" /\ v.requests = w.requests
  <2> HIDE DEF w
  <2> QED BY <1>1, <1>2, <1>3 DEF Worker, Places
<1> DEFINE a == Append(v.retry, t)
           b == v.settled \cup {t}
<1>5. a \in Seq(Turns) /\ b \in SUBSET Turns
  BY <1>2, <1>4 DEF Worker
<1> HIDE DEF a, b
<1> DEFINE va == [v EXCEPT !.retry = a]
           vb == [v EXCEPT !.settled = b]
<1>6. /\ va \in Worker /\ va.at = "add" /\ va.requests = v.requests
      /\ vb \in Worker /\ vb.at = "add" /\ vb.requests = v.requests
  BY <1>4, <1>5 DEF Worker
<1>7. ASSUME \/ worker' = Started
             \/ worker' = [Started EXCEPT !.retry = Append(@, t)]
             \/ worker' = [Started EXCEPT !.settled = @ \cup {t}]
      PROVE  MovesOn
  <2>1. worker' = v \/ worker' = va \/ worker' = vb
    BY <1>7 DEF a, b, v
  <2> HIDE DEF va, vb, w
  <2>2. worker' \in Worker /\ worker'.at = "add" /\ worker'.requests = w.requests
    BY <1>4, <1>6, <2>1
  <2> QED BY <1>1, <2>2 DEF MovesOn, w
<1> QED BY <1>2, <1>7 DEF t, s

LEMMA StartTurnKeeps ==
    ASSUME BooksInv, EngineInv, StartTurn
    PROVE  BooksInv' /\ EngineInv'
<1> DEFINE t    == Head(worker.turns)
           open == OpenAs(SessionOf[t])
           mode == turn[t].mode
           busy == \E x \in open : sessions[x].active # Nobody
           rest == {x \in open : status[x] = "PARKED"}
<1>1. worker.at = "start" /\ UNCHANGED <<pending, pending_chat, bookVars, cancel, told>>
  BY DEF StartTurn, queueVars
<1>2. /\ t \in Turns
      /\ worker' = Started => MovesOn
      /\ worker' = [Started EXCEPT !.retry = Append(@, t)] => MovesOn
      /\ worker' = [Started EXCEPT !.settled = @ \cup {t}] => MovesOn
  BY <1>1, StartedMoves
<1>3. EngineSide
  BY SideIs
\* Whatever became of the turn, the worker goes on.
<1>4. ASSUME EngineSide' /\ RequestsUntouched,
             RetryTurn(t) \/ FailTurn(t) \/ \E x : RunTurn(t, x)
      PROVE  BooksInv' /\ EngineInv'
  <2>1. MovesOn
    BY <1>2, <1>4 DEF RetryTurn, FailTurn, RunTurn
  <2> QED BY <1>1, <1>4, <2>1, WorkerMoves
<1>5. CASE FailTurn(t)
  <2>1. EngineSide' /\ RequestsUntouched
    BY <1>3, <1>5, SideStays DEF FailTurn
  <2> QED BY <1>4, <1>5, <2>1
<1>6. CASE RetryTurn(t) /\ UNCHANGED <<engineVars, sessions>>
  <2>1. EngineSide' /\ RequestsUntouched
    BY <1>3, <1>6, SideStays DEF RetryTurn, sessVars
  <2> QED BY <1>4, <1>6, <2>1
<1>7. ASSUME NEW x \in rest, ResumeTurn(t, x) PROVE BooksInv' /\ EngineInv'
  <2>1. CASE /\ RunTurn(t, x)
             /\ status' = [status EXCEPT ![x] = "RUNNING"]
             /\ sessions' = [sessions EXCEPT ![x].active = t]
             /\ UNCHANGED <<waiting, known, opened>>
    <3>1. x \in DOMAIN sessions /\ status[x] = "PARKED" /\ t # Nobody
      BY <1>2, Distinct DEF OpenAs
    <3> HIDE DEF t, rest
    <3>2. Reassigns(x, t)
      BY <1>2, <2>1, <3>1 DEF Reassigns
    <3>3. EngineSide' /\ RequestsUntouched
      BY <1>3, <3>2, SideReassigns
    <3> QED BY <1>4, <2>1, <3>3
  <2> QED BY <1>5, <1>6, <1>7, <2>1 DEF ResumeTurn
<1>8. ASSUME ~busy, RestartTurn(t, open) PROVE BooksInv' /\ EngineInv'
  <2> DEFINE can  == Evictable \ open
             need == ToMakeRoom(open)
  <2>1. /\ open \subseteq DOMAIN sessions /\ can \subseteq DOMAIN sessions
        /\ \A x \in open \cup can : status[x] = "PARKED"
    <3>1. \A x \in open : x \in DOMAIN sessions /\ sessions[x].active = Nobody
      BY <1>8 DEF OpenAs
    <3>2. \A x \in open : status[x] = "PARKED"
      BY <3>1 DEF EngineInv, FreeAreParked
    <3>3. \A x \in can : x \in DOMAIN sessions /\ status[x] = "PARKED"
      BY DEF Evictable
    <3> HIDE DEF open, can
    <3> QED BY <3>1, <3>2, <3>3
  <2>2. \/ /\ status' = Retired(open \cup can)
           /\ known' = known \ (open \cup can)
           /\ sessions' = Restrict(sessions, DOMAIN sessions \ (open \cup can))
           /\ UNCHANGED waiting
           /\ RetryTurn(t)
        \/ /\ opened < MaxEngineIds /\ opened' = opened + 1
           /\ \E V \in kSubset(need, can) :
                /\ status' = [Retired(open \cup V) EXCEPT ![opened'] = "WAITING"]
                /\ waiting' = Append(waiting, opened')
                /\ known' = (known \ (open \cup V)) \cup {opened'}
                /\ sessions' = Assign(Restrict(sessions, DOMAIN sessions \ (open \cup V)),
                                      opened',
                                      [session |-> SessionOf[t], active |-> t,
                                       kind |-> Kind(turn[t].mode)])
           /\ RunTurn(t, opened')
    BY <1>8 DEF RestartTurn
  <2> HIDE DEF open, need, t
  <2>3. CASE /\ status' = Retired(open \cup can)
             /\ known' = known \ (open \cup can)
             /\ sessions' = Restrict(sessions, DOMAIN sessions \ (open \cup can))
             /\ UNCHANGED waiting
             /\ RetryTurn(t)
    <3> DEFINE X == open \cup can
    <3>1. Forgets(X)
      BY <2>1, <2>3 DEF Forgets, RetryTurn
    <3> HIDE DEF X
    <3>2. EngineSide' /\ RequestsUntouched
      BY <1>3, <3>1, SideForgets
    <3> QED BY <1>4, <2>3, <3>2
  <2>4. ASSUME NEW V \in kSubset(need, can), opened < MaxEngineIds, opened' = opened + 1,
               status' = [Retired(open \cup V) EXCEPT ![opened'] = "WAITING"],
               waiting' = Append(waiting, opened'),
               known' = (known \ (open \cup V)) \cup {opened'},
               sessions' = Assign(Restrict(sessions, DOMAIN sessions \ (open \cup V)), opened',
                                  [session |-> SessionOf[t], active |-> t,
                                   kind |-> Kind(turn[t].mode)]),
               RunTurn(t, opened')
        PROVE  BooksInv' /\ EngineInv'
    <3> DEFINE gone == open \cup V
               new  == [session |-> SessionOf[t], active |-> t, kind |-> Kind(turn[t].mode)]
    <3>1. V \subseteq can
      BY DEF kSubset
    <3>2. gone \subseteq DOMAIN sessions /\ \A x \in gone : status[x] = "PARKED"
      BY <2>1, <3>1
    <3>3. new \in Session /\ new.active # Nobody /\ new.session = SessionOf[t]
      BY <1>2, Distinct DEF Session, Kind
    <3>4. OpenAs(new.session) \subseteq gone
      BY <3>3 DEF open
    <3> HIDE DEF gone
    <3>5. Opens(gone, new)
      <4>1. /\ status' = [Retired(gone) EXCEPT ![opened'] = "WAITING"]
            /\ known' = (known \ gone) \cup {opened'}
            /\ sessions' = Assign(Restrict(sessions, DOMAIN sessions \ gone), opened', new)
        BY <2>4 DEF gone
      <4> HIDE DEF new
      <4> QED BY <2>4, <3>2, <3>3, <3>4, <4>1 DEF Opens
    <3> HIDE DEF new
    <3>6. EngineSide' /\ RequestsUntouched
      BY <1>3, <3>5, SideOpens
    <3> QED BY <1>4, <2>4, <3>6
  <2> QED BY <2>2, <2>3, <2>4
<1>9. \/ FailTurn(t)
      \/ RetryTurn(t) /\ UNCHANGED <<engineVars, sessions>>
      \/ \E x \in rest : ResumeTurn(t, x)
      \/ ~busy /\ RestartTurn(t, open)
  BY DEF StartTurn
<1> QED BY <1>5, <1>6, <1>7, <1>8, <1>9

-----------------------------------------------------------------------------
(***************************************************************************)
(* The engine's side under the actions that are about requests.            *)
(***************************************************************************)

\* No session is touched.
SessionsUntouched ==
    /\ \A x \in EngineIds : status'[x] = status[x] /\ (x \in known => x \in known')
    /\ IsInjective(waiting')
    /\ UNCHANGED sessVars

LEMMA UntouchedStay ==
    ASSUME BooksInv, EngineInv, SessionsUntouched
    PROVE  EngineInv'
<1>1. DOMAIN sessions \subseteq EngineIds
  BY DEF BooksInv, ServiceTypes
<1>2. EngineQueue' /\ LiveAreOpen'
  BY DEF EngineInv, EngineQueue, LiveAreOpen, SessionsUntouched, sessVars
<1>3. NamesAreUnique' /\ FreeAreParked'
  BY <1>1 DEF EngineInv, NamesAreUnique, FreeAreParked, SessionsUntouched, sessVars
<1> QED BY <1>2, <1>3 DEF EngineInv

LEMMA EngineRests ==
    ASSUME BooksInv, EngineInv, UNCHANGED <<engineVars, sessVars>>
    PROVE  EngineInv'
<1>1. SessionsUntouched
  BY DEF SessionsUntouched, EngineInv, EngineQueue, engineVars, sessVars
<1> QED BY <1>1, UntouchedStay

\* One request changes its status.
LEMMA OneChanges ==
    ASSUME BooksInv, EngineInv, NEW r \in Requests, NEW s,
           status' = [status EXCEPT ![r] = s], UNCHANGED <<waiting, known, sessVars>>
    PROVE  EngineInv'
<1>1. \A x \in EngineIds : x \in Objects /\ x # r
  BY Distinct
<1>2. SessionsUntouched
  BY <1>1 DEF SessionsUntouched, EngineInv, EngineQueue, BooksInv, ServiceTypes
<1> QED BY <1>2, UntouchedStay

\* Requests of G end, and leave the engine's queue.
LEMMA SomeEnd ==
    ASSUME BooksInv, EngineInv, NEW G \in SUBSET Requests,
           \A o \in Objects \ G : status'[o] = status[o],
           IsInjective(waiting'), UNCHANGED <<known, sessVars>>
    PROVE  EngineInv'
<1>1. \A x \in EngineIds : x \in Objects /\ x \notin G
  BY Distinct
<1>2. SessionsUntouched
  BY <1>1 DEF SessionsUntouched
<1> QED BY <1>2, UntouchedStay

LEMMA ExpireRests ==
    ASSUME BooksInv, EngineInv, NEW D, NEW rest, Expire(D, rest), UNCHANGED sessVars
    PROVE  EngineInv'
<1> DEFINE G == Expiring(D)
<1>1. /\ status' = [o \in Objects |-> IF o \in G THEN "ABORTED" ELSE status[o]]
      /\ waiting' = Without(waiting, G) /\ known' = known
  BY DEF Expire
<1>2. G \in SUBSET Requests
  BY DEF Expiring, BooksInv, ServiceTypes, ToSet
<1> HIDE DEF G
<1>3. IsInjective(waiting')
  BY <1>1, WithoutKeeps DEF BooksInv, ServiceTypes, EngineInv, EngineQueue
<1> QED BY <1>1, <1>2, <1>3, SomeEnd

LEMMA FailRests ==
    ASSUME BooksInv, EngineInv, FailUnfinished
    PROVE  EngineInv'
<1>1. /\ status' = [o \in Objects |-> IF o \in Failing /\ Live(o) THEN "ERROR" ELSE status[o]]
      /\ waiting' = Without(waiting, known) /\ sessions' = << >> /\ opened' = opened
  BY DEF FailUnfinished
<1>2. /\ waiting \in Seq(Objects) /\ IsInjective(waiting)
      /\ \A o \in Objects : Live(o) <=> status[o] \in LiveStatus
      /\ \A x \in EngineIds : x \in Objects
      /\ "NEW" \notin LiveStatus /\ "ERROR" \notin LiveStatus
  BY Distinct, StatusesDiffer DEF BooksInv, ServiceTypes, EngineInv, EngineQueue, Live
<1>3. EngineQueue'
  BY <1>1, <1>2, WithoutKeeps DEF EngineInv, EngineQueue
<1>4. LiveAreOpen'
  <2>1. \A x \in EngineIds : status[x] \in LiveStatus => x \in Failing
    BY DEF EngineInv, LiveAreOpen, Failing
  <2>2. \A x \in EngineIds : status'[x] \notin LiveStatus
    BY <1>1, <1>2, <2>1
  <2> QED BY <2>2 DEF LiveAreOpen
<1>5. NamesAreUnique' /\ FreeAreParked'
  <2>1. DOMAIN sessions' = {}
    BY <1>1
  <2> QED BY <2>1 DEF NamesAreUnique, FreeAreParked
<1> QED BY <1>3, <1>4, <1>5 DEF EngineInv

LEMMA CancelInEngineRests ==
    ASSUME BooksInv, EngineInv, NEW c \in Canceller, CancelInEngine(c)
    PROVE  EngineInv'
<1> DEFINE r   == cancel[c].request
           hit == {q \in known \cap Requests : IdOf[q] = IdOf[r] /\ Live(q)}
           st  == [o \in Objects |->
                      IF o \in hit /\ ~IsFinished(r) THEN "ABORTED" ELSE status[o]]
           S   == {o \in Objects : st[o] \in LiveStatus}
<1>1. status' = st /\ waiting' = Only(waiting, S) /\ UNCHANGED <<known, sessVars>>
  BY DEF CancelInEngine
<1>2. hit \in SUBSET Requests
  OBVIOUS
<1>3. \A o \in Objects \ hit : status'[o] = status[o]
  BY <1>1
<1> HIDE DEF hit, S
<1>4. IsInjective(waiting')
  BY <1>1, OnlyKeeps DEF BooksInv, ServiceTypes, EngineInv, EngineQueue
<1> QED BY <1>1, <1>2, <1>3, <1>4, SomeEnd

LEMMA AddRequestRests ==
    ASSUME BooksInv, EngineInv, AddRequest
    PROVE  EngineInv'
<1> DEFINE r == Head(worker.requests)
<1>1. /\ UNCHANGED <<status, sessVars>>
      /\ \/ waiting' = Append(waiting, r) /\ known' = known \cup {r}
         \/ UNCHANGED <<waiting, known>>
  BY DEF AddRequest
<1>2. waiting \in Seq(Objects) /\ IsInjective(waiting)
  BY DEF BooksInv, ServiceTypes, EngineInv, EngineQueue
<1>3. r \in Objects /\ r \notin ToSet(waiting)
  <2>1. worker.requests \in Seq(Requests) /\ worker.requests # << >>
        /\ IsInjective(worker.requests)
    BY DEF BooksInv, BooksPart, ServiceTypes, Worker, Whereabouts, AddRequest, Adding
  <2>2. r \in Requests /\ r \in Hands
    BY <2>1, TailKeeps DEF Hands
  <2>3. r \notin known
    BY <2>2 DEF BooksInv, BooksPart, Whereabouts
  <2> QED BY <2>2, <2>3, Distinct DEF BooksInv, EngineKnows
<1> HIDE DEF r
<1>4. IsInjective(waiting')
  <2>1. IsInjective(Append(waiting, r))
    BY <1>2, <1>3, AppendFresh
  <2>2. waiting' = Append(waiting, r) \/ waiting' = waiting
    BY <1>1
  <2> QED BY <1>2, <2>1, <2>2, Zenon
<1>5. SessionsUntouched
  BY <1>1, <1>4 DEF SessionsUntouched
<1> QED BY <1>5, UntouchedStay

\* What runs, or is about to, is live in the engine.
LEMMA RunningIsLive ==
    ASSUME BooksInv, EngineInv, NEW k, Admits(k)
    PROVE  \A o \in RunningAfter(k) : status[o] \in {"RUNNING", "WAITING"}
<1> DEFINE u == SubSeq(waiting, 1, k)
<1>1. waiting \in Seq(Objects) /\ k \in 0 .. Len(waiting) /\ IsInjective(waiting)
  BY DEF BooksInv, ServiceTypes, EngineInv, EngineQueue, Admits
<1>2. ToSet(u) \subseteq ToSet(waiting)
  BY <1>1, DropsSet
<1>3. RunningAfter(k) = Running \cup ToSet(u)
  BY DEF RunningAfter
<1> HIDE DEF u
<1> QED BY <1>2, <1>3 DEF Running, BooksInv, EngineKnows

LEMMA StepEndsRests ==
    ASSUME BooksInv, EngineInv, NEW k, NEW done, StepEnds(k, done)
    PROVE  EngineInv'
<1> DEFINE over == {x \in done \cap DOMAIN sessions : sessions[x].active # Nobody}
           R    == RunningAfter(k)
           free(x) == [sessions[x] EXCEPT !.active = Nobody]
<1>1. PICK bad \in SUBSET {x \in over : sessions[x].kind = "token"} :
         /\ status' = [o \in Objects |->
               IF o \in bad THEN "CLOSED"
               ELSE IF o \in done \cap Requests THEN "FINISHED"
               ELSE IF o \in done THEN "PARKED"
               ELSE IF o \in R THEN "RUNNING" ELSE status[o]]
         /\ sessions' = [x \in DOMAIN sessions \ bad |->
               IF x \in over THEN free(x) ELSE sessions[x]]
         /\ known' = known \ bad
  BY DEF StepEnds
<1>2. Admits(k) /\ done \subseteq R /\ opened' = opened
  BY DEF StepEnds
<1>3. /\ DOMAIN sessions \subseteq EngineIds /\ sessions \in [DOMAIN sessions -> Session]
      /\ IsInjective(waiting')
      /\ \A o \in R : status[o] \in {"RUNNING", "WAITING"}
  BY <1>2, RunningIs, RunningIsLive DEF BooksInv, ServiceTypes, EngineInv
<1>4. /\ bad \subseteq over /\ over \subseteq done /\ over \subseteq DOMAIN sessions
      /\ \A x \in over : sessions[x].active # Nobody
      /\ \A x \in DOMAIN sessions : sessions[x].active # Nobody /\ x \in done => x \in over
  OBVIOUS
<1> HIDE DEF over, R
<1>5. \A x \in EngineIds : x \in Objects /\ x \notin Requests
  BY Distinct
<1>6. \A x \in EngineIds :
          status'[x] = IF x \in bad THEN "CLOSED"
                       ELSE IF x \in done THEN "PARKED"
                       ELSE IF x \in R THEN "RUNNING" ELSE status[x]
  BY <1>1, <1>5
<1>7. DOMAIN sessions' = DOMAIN sessions \ bad
  BY <1>1
<1>8. \A x \in DOMAIN sessions' :
          /\ sessions'[x].session = sessions[x].session
          /\ sessions'[x].active = Nobody => x \in over \/ sessions[x].active = Nobody
  <2>1. \A x \in DOMAIN sessions' : sessions'[x] = IF x \in over THEN free(x) ELSE sessions[x]
    BY <1>1, <1>7
  <2>2. \A x \in DOMAIN sessions : free(x).session = sessions[x].session
    BY <1>3 DEF Session
  <2> HIDE DEF free
  <2> QED BY <1>7, <2>1, <2>2
<1>9. EngineQueue'
  <2>1. \A x \in EngineIds : x > opened => x \notin R /\ x \notin done /\ x \notin bad
                                           /\ status[x] = "NEW"
    BY <1>2, <1>3, <1>4 DEF EngineInv, EngineQueue
  <2> QED BY <1>2, <1>3, <1>6, <2>1 DEF EngineQueue
<1>10. LiveAreOpen'
  <2> SUFFICES ASSUME NEW x \in EngineIds, status'[x] \in LiveStatus
               PROVE  x \in DOMAIN sessions' /\ x \in known'
    BY DEF LiveAreOpen
  <2>1. x \notin bad /\ status[x] \in LiveStatus
    BY <1>2, <1>3, <1>6 DEF LiveStatus
  <2> QED BY <1>1, <1>7, <2>1 DEF EngineInv, LiveAreOpen
<1>11. NamesAreUnique'
  BY <1>7, <1>8 DEF EngineInv, NamesAreUnique
<1>12. FreeAreParked'
  <2> SUFFICES ASSUME NEW x \in DOMAIN sessions', sessions'[x].active = Nobody
               PROVE  status'[x] = "PARKED"
    BY DEF FreeAreParked
  <2>1. x \in EngineIds /\ x \in DOMAIN sessions /\ x \notin bad
    BY <1>3, <1>7
  <2>2. CASE x \in over
    BY <1>4, <1>6, <2>1, <2>2
  <2>3. CASE sessions[x].active = Nobody
    <3>1. status[x] = "PARKED"
      BY <2>1, <2>3 DEF EngineInv, FreeAreParked
    <3> QED BY <1>3, <1>6, <2>1, <3>1
  <2> QED BY <1>8, <2>2, <2>3
<1> QED BY <1>9, <1>10, <1>11, <1>12 DEF EngineInv

LEMMA StepRaisesRests ==
    ASSUME BooksInv, EngineInv, NEW k, NEW bad, StepRaises(k, bad)
    PROVE  EngineInv'
<1> DEFINE R == RunningAfter(k)
<1>1. /\ Admits(k) /\ bad \subseteq R
      /\ status' = [o \in Objects |-> IF o \in bad THEN "ERROR"
                                     ELSE IF o \in R THEN "RUNNING" ELSE status[o]]
      /\ UNCHANGED <<known, sessions, opened>>
  BY DEF StepRaises, sessVars
<1>2. /\ DOMAIN sessions \subseteq EngineIds /\ IsInjective(waiting')
      /\ \A o \in R : status[o] \in {"RUNNING", "WAITING"}
  BY <1>1, RunningIs, RunningIsLive DEF BooksInv, ServiceTypes, EngineInv
<1> HIDE DEF R
<1>3. \A x \in EngineIds : status'[x] = IF x \in bad THEN "ERROR"
                                        ELSE IF x \in R THEN "RUNNING" ELSE status[x]
  BY <1>1, Distinct
<1>4. EngineQueue'
  BY <1>1, <1>2, <1>3 DEF EngineInv, EngineQueue
<1>5. LiveAreOpen'
  <2>1. \A x \in EngineIds : status'[x] \in LiveStatus => status[x] \in LiveStatus
    BY <1>2, <1>3 DEF LiveStatus
  <2> QED BY <1>1, <2>1 DEF EngineInv, LiveAreOpen
<1>6. NamesAreUnique'
  BY <1>1 DEF EngineInv, NamesAreUnique
<1>7. FreeAreParked'
  <2>1. \A x \in EngineIds : status[x] = "PARKED" => status'[x] = "PARKED"
    BY <1>1, <1>2, <1>3
  <2> QED BY <1>1, <1>2, <2>1 DEF EngineInv, FreeAreParked
<1> QED BY <1>4, <1>5, <1>6, <1>7 DEF EngineInv

-----------------------------------------------------------------------------
(***************************************************************************)
(* Where the clients are.                                                  *)
(***************************************************************************)

\* Nobody takes up a request again, and one that is sent is no longer new.
LEMMA ClientsMove ==
    ASSUME ClientsIdle, NEW q \in Requests \cup Turns,
           NEW s \in {"waiting", "leaving", "done", "queueing"},
           client' = [client EXCEPT ![q] = s],
           \A r \in Requests : r # q /\ status[r] = "NEW" => status'[r] = "NEW"
    PROVE  ClientsIdle'
  BY DEF ClientsIdle

\* Sending a request is what makes it other than new.
NewStay == \A r \in Requests : status[r] = "NEW" => status'[r] = "NEW"

LEMMA ClientsStay ==
    ASSUME ClientsIdle, client' = client, NewStay
    PROVE  ClientsIdle'
  BY DEF ClientsIdle, NewStay

LEMMA ReturnsKeeps ==
    ASSUME ClientsIdle, NEW c \in Canceller, NEW result, Returns(c, result), NewStay
    PROVE  ClientsIdle'
<1> DEFINE s == IF result THEN "done" ELSE "waiting"
<1>1. s \in {"waiting", "leaving", "done", "queueing"}
  OBVIOUS
<1>2. client' = IF c \notin Requests THEN client ELSE [client EXCEPT ![c] = s]
  BY DEF Returns
<1> HIDE DEF s
<1> QED BY <1>1, <1>2, ClientsMove, ClientsStay DEF NewStay

LEMMA UnchangedNew ==
    ASSUME UNCHANGED status
    PROVE  NewStay
  BY DEF NewStay

\* A request that a client or the worker ends, or that starts anew under a
\* session's id, was not new.
LEMMA EndsNoNew ==
    ASSUME BooksInv, NEW G, \A o \in Objects \ G : status'[o] = status[o],
           \A o \in G : o \in Requests => status[o] # "NEW"
    PROVE  NewStay
  BY Distinct DEF NewStay

LEMMA CancelsNoNew ==
    ASSUME BooksInv, NEW c \in Canceller,
           \/ \E i \in Ids : CancelPending(c, i)
           \/ CancelInEngine(c)
    PROVE  NewStay
<1>1. status \in [Objects -> Status] /\ tracked \in Seq(Requests)
      /\ \A r \in ToSet(tracked) : r \in Requests /\ status[r] # "NEW"
  BY DEF BooksInv, BooksPart, ServiceTypes, Whereabouts, ToSet
<1>2. ASSUME NEW i \in Ids, CancelPending(c, i) PROVE NewStay
  <2>1. PICK r \in TrackedAs(i) : status' = [status EXCEPT ![r] = "ABORTED"]
    BY <1>2 DEF CancelPending
  <2>2. r \in ToSet(tracked)
    BY DEF TrackedAs
  <2> QED BY <1>1, <2>1, <2>2 DEF NewStay
<1>3. CASE CancelInEngine(c)
  <2> DEFINE r   == cancel[c].request
             hit == {q \in known \cap Requests : IdOf[q] = IdOf[r] /\ Live(q)}
  <2>1. status' = [o \in Objects |->
                      IF o \in hit /\ ~IsFinished(r) THEN "ABORTED" ELSE status[o]]
    BY <1>3 DEF CancelInEngine
  <2>2. \A o \in hit : status[o] # "NEW"
    BY StatusesDiffer DEF Live
  <2> HIDE DEF hit
  <2>3. \A o \in Objects \ hit : status'[o] = status[o]
    BY <2>1
  <2> QED BY <2>2, <2>3, EndsNoNew
<1> QED BY <1>2, <1>3

LEMMA ExpireNoNew ==
    ASSUME BooksInv, NEW D, NEW rest, Expire(D, rest)
    PROVE  NewStay
<1> DEFINE G == Expiring(D)
<1>1. status' = [o \in Objects |-> IF o \in G THEN "ABORTED" ELSE status[o]]
  BY DEF Expire
<1>2. \A r \in Requests : status[r] = "NEW" => r \notin G
  BY DEF Expiring, BooksInv, BooksPart, Whereabouts
<1> HIDE DEF G
<1> QED BY <1>1, <1>2, Distinct DEF NewStay

LEMMA FailNoNew ==
    ASSUME BooksInv, FailUnfinished
    PROVE  NewStay
<1>1. status' = [o \in Objects |-> IF o \in Failing /\ Live(o) THEN "ERROR" ELSE status[o]]
  BY DEF FailUnfinished
<1>2. \A o \in Objects : Live(o) => status[o] # "NEW"
  BY StatusesDiffer DEF Live
<1> QED BY <1>1, <1>2, Distinct DEF NewStay

LEMMA RetiredNoNew ==
    ASSUME NEW X, NEW r \in Requests, status[r] = "NEW"
    PROVE  Retired(X)[r] = "NEW"
  BY Distinct DEF Retired

LEMMA EvictNoNew ==
    ASSUME NEW X, EvictExpired(X)
    PROVE  NewStay
  BY RetiredNoNew DEF EvictExpired, NewStay

LEMMA LeaveNoNew ==
    ASSUME BooksInv, NEW t \in Turns, LeaveEngine(t)
    PROVE  NewStay
<1> DEFINE x == leave[t].engine_req_id
<1>1. /\ status \in [Objects -> Status] /\ DOMAIN sessions \subseteq EngineIds
  BY DEF BooksInv, ServiceTypes
<1>2. \/ status' = status
      \/ x \in EngineIds /\ status' = [status EXCEPT ![x] = IF Live(x) THEN "ABORTED" ELSE @]
  BY <1>1 DEF LeaveEngine, engineVars
<1> HIDE DEF x
<1>3. \A r \in Requests : r \in Objects /\ r \notin EngineIds
  BY Distinct
<1> QED BY <1>1, <1>2, <1>3 DEF NewStay

LEMMA StartNoNew ==
    ASSUME BooksInv, StartTurn
    PROVE  NewStay
<1> DEFINE t == Head(worker.turns)
           open == OpenAs(SessionOf[t])
<1>1. /\ status \in [Objects -> Status] /\ DOMAIN sessions \subseteq EngineIds
      /\ opened \in 0 .. MaxEngineIds /\ MaxEngineIds \in Nat
      /\ \A r \in Requests : r \in Objects /\ r \notin EngineIds
  BY Distinct, ServiceAssumption DEF BooksInv, ServiceTypes
<1>2. CASE UNCHANGED status
  BY <1>2, UnchangedNew
<1>3. ASSUME NEW x \in open, ResumeTurn(t, x) PROVE NewStay
  <2>1. x \in EngineIds
    BY <1>1 DEF OpenAs
  <2>2. status' = status \/ status' = [status EXCEPT ![x] = "RUNNING"]
    BY <1>3 DEF ResumeTurn, FailTurn, engineVars
  <2> QED BY <1>1, <2>1, <2>2 DEF NewStay
<1>4. CASE RestartTurn(t, open)
  <2>1. \/ \E X : status' = Retired(X)
        \/ /\ opened < MaxEngineIds /\ opened' = opened + 1
           /\ \E X : status' = [Retired(X) EXCEPT ![opened'] = "WAITING"]
    BY <1>4 DEF RestartTurn
  <2>2. ASSUME NEW X, opened < MaxEngineIds, opened' = opened + 1,
               status' = [Retired(X) EXCEPT ![opened'] = "WAITING"]
        PROVE  NewStay
    <3> DEFINE n == opened'
               d == Retired(X)
    <3>1. n \in EngineIds
      BY <1>1, <2>2 DEF EngineIds
    <3>2. status' = [d EXCEPT ![n] = "WAITING"] /\ DOMAIN d = Objects
      BY <2>2 DEF Retired
    <3>3. \A r \in Requests : status[r] = "NEW" => d[r] = "NEW"
      BY RetiredNoNew
    <3> HIDE DEF n, d
    <3> QED BY <1>1, <3>1, <3>2, <3>3 DEF NewStay
  <2> QED BY <2>1, <2>2, RetiredNoNew DEF NewStay
<1>5. \/ FailTurn(t) \/ UNCHANGED <<engineVars, sessions>>
      \/ (\E x \in open : ResumeTurn(t, x)) \/ RestartTurn(t, open)
  BY DEF StartTurn
<1>6. FailTurn(t) \/ UNCHANGED <<engineVars, sessions>> => UNCHANGED status
  BY DEF FailTurn, engineVars
<1> HIDE DEF t, open
<1> QED BY <1>2, <1>3, <1>4, <1>5, <1>6

LEMMA AddCancelledNoNew ==
    ASSUME BooksInv, AddCancelled
    PROVE  NewStay
<1> DEFINE r == Head(worker.requests)
<1>1. status' = [status EXCEPT ![r] = "ABORTED"]
  BY DEF AddCancelled
<1>2. worker.requests \in Seq(Requests) /\ worker.requests # << >>
      /\ IsInjective(worker.requests) /\ status \in [Objects -> Status]
  BY DEF BooksInv, BooksPart, ServiceTypes, Worker, Whereabouts, AddCancelled, Adding
<1>3. r \in Hands
  BY <1>2, TailKeeps DEF Hands
<1>4. status[r] # "NEW"
  BY <1>3 DEF BooksInv, BooksPart, Whereabouts
<1> HIDE DEF r
<1> QED BY <1>1, <1>2, <1>4, Distinct DEF NewStay

LEMMA StepEndsNoNew ==
    ASSUME BooksInv, EngineInv, NEW k, NEW done, StepEnds(k, done)
    PROVE  NewStay
<1> DEFINE R    == RunningAfter(k)
           over == {x \in done \cap DOMAIN sessions : sessions[x].active # Nobody}
<1>1. PICK bad \in SUBSET {x \in over : sessions[x].kind = "token"} :
         status' = [o \in Objects |->
               IF o \in bad THEN "CLOSED"
               ELSE IF o \in done \cap Requests THEN "FINISHED"
               ELSE IF o \in done THEN "PARKED"
               ELSE IF o \in R THEN "RUNNING" ELSE status[o]]
  BY DEF StepEnds
<1>2. Admits(k) /\ done \subseteq R
  BY DEF StepEnds
<1>3. bad \subseteq done
  OBVIOUS
<1>4. \A o \in R : o \in Requests => status[o] # "NEW"
  BY <1>2, RunningIsLive
<1> HIDE DEF R, over
<1>5. \A o \in Objects \ R : status'[o] = status[o]
  BY <1>1, <1>2, <1>3
<1> QED BY <1>4, <1>5, EndsNoNew

LEMMA StepRaisesNoNew ==
    ASSUME BooksInv, EngineInv, NEW k, NEW bad, StepRaises(k, bad)
    PROVE  NewStay
<1> DEFINE R == RunningAfter(k)
<1>1. /\ Admits(k) /\ bad \subseteq R
      /\ status' = [o \in Objects |-> IF o \in bad THEN "ERROR"
                                     ELSE IF o \in R THEN "RUNNING" ELSE status[o]]
  BY DEF StepRaises
<1>2. \A o \in R : o \in Requests => status[o] # "NEW"
  BY <1>1, RunningIsLive
<1> HIDE DEF R
<1>3. \A o \in Objects \ R : status'[o] = status[o]
  BY <1>1
<1> QED BY <1>2, <1>3, EndsNoNew

-----------------------------------------------------------------------------
(***************************************************************************)
(* The invariant holds.                                                    *)
(***************************************************************************)

ServiceInv == BooksInv /\ EngineInv /\ ClientsIdle

LEMMA InitHolds == Init => ServiceInv
<1> SUFFICES ASSUME Init PROVE ServiceInv
  OBVIOUS
<1>1. /\ waiting = << >> /\ pending = << >> /\ pending_chat = << >>
      /\ tracked = << >> /\ completed = << >> /\ worker = At("take")
      /\ known = {} /\ cancelled = {} /\ deadlines = {} /\ told = {}
      /\ DOMAIN sessions = {} /\ opened = 0
      /\ status = [o \in Objects |-> "NEW"]
      /\ client = [c \in Requests \cup Turns |-> "idle"]
  BY DEF Init
<1>2. /\ worker \in Worker /\ worker.at = "take" /\ worker.requests = << >>
  BY <1>1, AtIs DEF Places
<1>3. cancel \in [Canceller -> Call]
      /\ \A c \in Canceller : cancel[c].request = Nobody /\ cancel[c].at = "idle"
  <2> DEFINE d == [at |-> "idle", request |-> Nobody, result |-> FALSE]
  <2>1. d \in Call /\ d.request = Nobody /\ d.at = "idle"
    BY DEF Call
  <2>2. cancel = [c \in Canceller |-> d]
    BY DEF Init
  <2> HIDE DEF d
  <2> QED BY <2>1, <2>2
<1>4. /\ ToSet(waiting) = {} /\ Queue = {} /\ Hands = {}
      /\ ToSet(tracked) = {} /\ ToSet(completed) = {}
      /\ IsInjective(waiting) /\ IsInjective(pending) /\ IsInjective(worker.requests)
      /\ IsInjective(tracked) /\ IsInjective(completed)
  BY <1>1, <1>2, ListEmpty DEF Queue, Hands
<1>5. \A o \in Objects : status[o] = "NEW" /\ ~Live(o)
  BY <1>1 DEF Live, LiveStatus
<1>6. ServiceTypes
  <2>1. status \in [Objects -> Status]
    BY <1>1 DEF Status
  <2>2. MaxEngineIds \in Nat
    BY ServiceAssumption
  <2>3. sessions \in [DOMAIN sessions -> Session]
    BY DEF Init
  <2>4. /\ waiting \in Seq(Objects) /\ pending \in Seq(Requests) /\ pending_chat \in Seq(Turns)
        /\ tracked \in Seq(Requests) /\ completed \in Seq(Requests)
    BY <1>1
  <2> QED BY <1>1, <1>2, <1>3, <2>1, <2>2, <2>3, <2>4 DEF ServiceTypes
<1>7. EngineKnows
  BY <1>4, <1>5, Distinct DEF EngineKnows
<1>8. BooksAgree
  <2>1. Len(completed) <= MaxCompleted
    BY <1>1, ServiceAssumption
  <2> QED BY <1>1, <1>4, <2>1 DEF BooksAgree
<1>9. Whereabouts
  BY <1>1, <1>3, <1>4, <1>5, Distinct DEF Whereabouts
<1>10. CompletedAreSettled /\ MarksHaveReason
  BY <1>1, <1>3, <1>4 DEF CompletedAreSettled, MarksHaveReason
<1>11. PromisesKept
  BY <1>1, <1>3, <1>4 DEF PromisesKept, Promised, Asks
<1>12. EngineInv
  <2>1. EngineQueue
    BY <1>4, <1>5, Distinct DEF EngineQueue
  <2>2. LiveAreOpen /\ NamesAreUnique /\ FreeAreParked
    BY <1>1, <1>5, Distinct DEF LiveAreOpen, NamesAreUnique, FreeAreParked, Live
  <2> QED BY <2>1, <2>2 DEF EngineInv
<1>13. ClientsIdle
  BY <1>1, <1>5, Distinct DEF ClientsIdle
<1> QED BY <1>6, <1>7, <1>8, <1>9, <1>10, <1>11, <1>12, <1>13
        DEF ServiceInv, BooksInv, BooksPart

LEMMA StutterHolds ==
    ASSUME ServiceInv, UNCHANGED vars
    PROVE  ServiceInv'
<1>1. BooksInv'
  <2>1. pending_chat' \in Seq(Turns)
    BY DEF ServiceInv, BooksInv, ServiceTypes, vars
  <2> QED BY <2>1, StutterKeeps DEF ServiceInv, vars, engineVars, bookVars, sessVars
<1>2. EngineInv'
  BY EngineRests DEF ServiceInv, vars, engineVars, sessVars
<1>3. ClientsIdle'
  BY ClientsStay, UnchangedNew DEF ServiceInv, vars
<1> QED BY <1>1, <1>2, <1>3 DEF ServiceInv

\* What a thread of RequestThreads does.
LEMMA RequestThreadsHold ==
    ASSUME ServiceInv, RequestThreads
    PROVE  ServiceInv'
<1>1. BooksInv /\ EngineInv /\ ClientsIdle
  BY DEF ServiceInv
<1>2. ASSUME NEW r \in Requests, NEW waits \in BOOLEAN, NEW due \in BOOLEAN,
             Enqueue(r, waits, due)
      PROVE  ServiceInv'
  <2>1. BooksInv'
    BY <1>1, <1>2, EnqueueKeeps
  <2> DEFINE s == IF waits THEN "waiting" ELSE "done"
  <2>2. /\ status' = [status EXCEPT ![r] = "WAITING"]
        /\ client' = [client EXCEPT ![r] = s]
        /\ UNCHANGED <<waiting, known, sessVars>>
    BY <1>2 DEF Enqueue
  <2>3. s \in {"waiting", "leaving", "done", "queueing"}
    OBVIOUS
  <2> HIDE DEF s
  <2>4. EngineInv'
    BY <1>1, <2>2, OneChanges
  <2>5. \A q \in Requests : q # r /\ status[q] = "NEW" => status'[q] = "NEW"
    BY <1>1, <2>2, Distinct DEF BooksInv, ServiceTypes
  <2>6. ClientsIdle'
    BY <1>1, <2>2, <2>3, <2>5, ClientsMove
  <2> QED BY <2>1, <2>4, <2>6 DEF ServiceInv
<1>3. ASSUME NEW r \in Requests, Answered(r) \/ GivesUp(r) PROVE ServiceInv'
  <2>1. BooksInv'
    BY <1>1, <1>3, ClientsStutter
  <2>2. /\ UNCHANGED <<engineVars, sessVars>>
        /\ \/ client' = [client EXCEPT ![r] = "done"]
           \/ client' = [client EXCEPT ![r] = "leaving"]
    BY <1>3 DEF Answered, GivesUp
  <2>3. EngineInv'
    BY <1>1, <2>2, EngineRests
  <2>4. ClientsIdle'
    BY <1>1, <2>2, ClientsMove DEF engineVars
  <2> QED BY <2>1, <2>3, <2>4 DEF ServiceInv
<1>4. ASSUME NEW c \in Canceller, NEW i \in Ids,
             CancelUnknown(c, i) \/ CancelFinished(c, i) \/ CancelPending(c, i)
      PROVE  ServiceInv'
  <2>1. BooksInv'
    BY <1>1, <1>4, CancelUnknownKeeps, CancelFinishedKeeps, CancelPendingKeeps
  <2>2. EngineInv'
    <3>1. CASE CancelUnknown(c, i) \/ CancelFinished(c, i)
      <4>1. UNCHANGED <<engineVars, sessVars>>
        BY <3>1 DEF CancelUnknown, CancelFinished
      <4> QED BY <1>1, <4>1, EngineRests
    <3>2. CASE CancelPending(c, i)
      <4>1. PICK r \in TrackedAs(i) : status' = [status EXCEPT ![r] = "ABORTED"]
        BY <3>2 DEF CancelPending
      <4>2. r \in Requests
        BY <1>1 DEF BooksInv, ServiceTypes, TrackedAs, ToSet
      <4>3. UNCHANGED <<waiting, known, sessVars>>
        BY <3>2 DEF CancelPending
      <4> QED BY <1>1, <4>1, <4>2, <4>3, OneChanges
    <3> QED BY <1>4, <3>1, <3>2
  <2>3. NewStay
    <3>1. CASE CancelUnknown(c, i) \/ CancelFinished(c, i)
      <4>1. UNCHANGED status
        BY <3>1 DEF CancelUnknown, CancelFinished, engineVars
      <4> QED BY <4>1, UnchangedNew
    <3>2. CASE CancelPending(c, i)
      BY <1>1, <3>2, CancelsNoNew
    <3> QED BY <1>4, <3>1, <3>2
  <2>4. \E result : Returns(c, result)
    BY <1>4 DEF CancelUnknown, CancelFinished, CancelPending
  <2>5. ClientsIdle'
    BY <1>1, <2>3, <2>4, ReturnsKeeps
  <2> QED BY <2>1, <2>2, <2>5 DEF ServiceInv
<1>5. ASSUME NEW c \in Canceller, NEW i \in Ids, CancelMark(c, i) PROVE ServiceInv'
  <2>1. BooksInv'
    BY <1>1, <1>5, CancelMarkKeeps
  <2>2. UNCHANGED <<engineVars, sessVars, client>>
    BY <1>5 DEF CancelMark
  <2>3. EngineInv' /\ ClientsIdle'
    BY <1>1, <2>2, EngineRests, ClientsStay, UnchangedNew DEF engineVars
  <2> QED BY <2>1, <2>3 DEF ServiceInv
<1>6. ASSUME NEW c \in Canceller, CancelInEngine(c) PROVE ServiceInv'
  <2>1. BooksInv' /\ EngineInv' /\ NewStay
    BY <1>1, <1>6, CancelInEngineKeeps, CancelInEngineRests, CancelsNoNew
  <2>2. client' = client
    BY <1>6 DEF CancelInEngine
  <2> QED BY <1>1, <2>1, <2>2, ClientsStay DEF ServiceInv
<1>7. ASSUME NEW c \in Canceller, CancelRecord(c) PROVE ServiceInv'
  <2>1. BooksInv'
    BY <1>1, <1>7, CancelRecordKeeps
  <2>2. UNCHANGED <<engineVars, sessVars>> /\ \E result : Returns(c, result)
    BY <1>7 DEF CancelRecord
  <2>3. EngineInv' /\ NewStay
    BY <1>1, <2>2, EngineRests, UnchangedNew DEF engineVars
  <2>4. ClientsIdle'
    BY <1>1, <2>2, <2>3, ReturnsKeeps
  <2> QED BY <2>1, <2>3, <2>4 DEF ServiceInv
<1> QED BY <1>2, <1>3, <1>4, <1>5, <1>6, <1>7 DEF RequestThreads

\* What a thread of a turn does.
LEMMA TurnThreadsHold ==
    ASSUME ServiceInv, TurnThreads
    PROVE  ServiceInv'
<1>1. BooksInv /\ EngineInv /\ ClientsIdle
  BY DEF ServiceInv
<1>2. PICK t \in Turns :
        \/ \E mode \in Modes : EnqueueChat(t, mode)
        \/ AcceptTurn(t)
        \/ TurnReturns(t)
        \/ \E timed_out \in BOOLEAN : LeaveTurn(t, timed_out)
        \/ LeaveEngine(t)
        \/ LeaveDone(t)
  BY DEF TurnThreads
<1>3. CASE LeaveEngine(t)
  <2>1. BooksInv' /\ EngineInv' /\ NewStay
    BY <1>1, <1>3, LeaveEngineKeeps, LeaveNoNew
  <2>2. client' = client
    BY <1>3 DEF LeaveEngine
  <2> QED BY <1>1, <2>1, <2>2, ClientsStay DEF ServiceInv
<1>4. CASE \/ \E mode \in Modes : EnqueueChat(t, mode)
           \/ AcceptTurn(t) \/ TurnReturns(t) \/ LeaveDone(t)
           \/ \E timed_out \in BOOLEAN : LeaveTurn(t, timed_out)
  <2>1. BooksInv'
    BY <1>1, <1>4, ClientsStutter
  <2>2. UNCHANGED <<engineVars, sessVars>>
    BY <1>4 DEF EnqueueChat, AcceptTurn, TurnReturns, LeaveDone, LeaveTurn
  <2>3. EngineInv'
    BY <1>1, <2>2, EngineRests
  <2>4. \E s \in {"waiting", "leaving", "done", "queueing"} :
            client' = [client EXCEPT ![t] = s]
    BY <1>4 DEF EnqueueChat, AcceptTurn, TurnReturns, LeaveDone, LeaveTurn
  <2>5. ClientsIdle'
    BY <1>1, <2>2, <2>4, ClientsMove DEF engineVars
  <2> QED BY <2>1, <2>3, <2>5 DEF ServiceInv
<1> QED BY <1>2, <1>3, <1>4

\* What the worker does in a round.
LEMMA RoundHolds ==
    ASSUME ServiceInv, Round
    PROVE  ServiceInv'
<1>1. BooksInv /\ EngineInv /\ ClientsIdle
  BY DEF ServiceInv
<1>2. ASSUME client' = client, BooksInv', EngineInv', NewStay PROVE ServiceInv'
  BY <1>1, <1>2, ClientsStay DEF ServiceInv
<1>3. ASSUME NEW D \in SUBSET deadlines, Take(D) \/ Settle(D) PROVE ServiceInv'
  <2>1. /\ client' = client /\ UNCHANGED sessVars
        /\ Expire(D, {}) \/ Expire(D, ToSet(tracked))
    BY <1>3 DEF Take, Settle
  <2>2. EngineInv' /\ NewStay
    BY <1>1, <2>1, ExpireRests, ExpireNoNew
  <2>3. BooksInv'
    BY <1>1, <1>3, TakeKeeps, SettleKeeps
  <2> QED BY <1>2, <2>1, <2>2, <2>3
<1>4. CASE Stop \/ PickTurn \/ StepNone
  <2>1. client' = client /\ UNCHANGED status
    BY <1>4 DEF Stop, PickTurn, StepNone, engineVars
  <2>2. BooksInv' /\ EngineInv'
    BY <1>1, <1>4, IdleMoves
  <2> QED BY <1>2, <2>1, <2>2, UnchangedNew
<1>5. ASSUME NEW X, EvictExpired(X) PROVE ServiceInv'
  <2>1. client' = client
    BY <1>5 DEF EvictExpired
  <2> QED BY <1>1, <1>2, <1>5, <2>1, EvictExpiredKeeps, EvictNoNew
<1>6. CASE AddCancelled
  <2> DEFINE r == Head(worker.requests)
  <2>1. /\ client' = client /\ status' = [status EXCEPT ![r] = "ABORTED"]
        /\ UNCHANGED <<waiting, known, sessVars>>
    BY <1>6 DEF AddCancelled
  <2>2. r \in Requests
    <3>1. /\ worker.requests \in Seq(Requests) /\ worker.requests # << >>
          /\ IsInjective(worker.requests)
      BY <1>1, <1>6 DEF BooksInv, BooksPart, ServiceTypes, Worker, Whereabouts,
                        AddCancelled, Adding
    <3> QED BY <3>1, TailKeeps
  <2> HIDE DEF r
  <2>3. EngineInv'
    BY <1>1, <2>1, <2>2, OneChanges
  <2> QED BY <1>1, <1>2, <1>6, <2>1, <2>3, AddCancelledKeeps, AddCancelledNoNew
<1>7. CASE AddRequest
  <2>1. client' = client /\ UNCHANGED status
    BY <1>7 DEF AddRequest
  <2> QED BY <1>1, <1>2, <1>7, <2>1, AddRequestKeeps, AddRequestRests, UnchangedNew
<1>8. CASE StartTurn
  <2>1. client' = client
    BY <1>8 DEF StartTurn
  <2> QED BY <1>1, <1>2, <1>8, <2>1, StartTurnKeeps, StartNoNew
<1>9. ASSUME NEW k, NEW done, StepEnds(k, done) PROVE ServiceInv'
  <2>1. client' = client
    BY <1>9 DEF StepEnds
  <2>2. EngineQueue
    BY <1>1 DEF EngineInv
  <2>3. BooksInv' /\ EngineInv' /\ NewStay
    BY <1>1, <1>9, <2>2, StepEndsKeeps, StepEndsRests, StepEndsNoNew
  <2> QED BY <1>2, <2>1, <2>3
<1>10. CASE FailRound \/ Die
  <2>1. client' = client /\ FailUnfinished
    BY <1>10 DEF FailRound, Die
  <2>2. BooksInv' /\ EngineInv' /\ NewStay
    BY <1>1, <1>10, <2>1, FailuresKeep, FailRests, FailNoNew
  <2> QED BY <1>2, <2>1, <2>2
<1> QED BY <1>3, <1>4, <1>5, <1>6, <1>7, <1>8, <1>9, <1>10 DEF Round

LEMMA StepFailsHolds ==
    ASSUME ServiceInv, StepFails
    PROVE  ServiceInv'
<1>1. BooksInv /\ EngineInv /\ ClientsIdle /\ EngineQueue
  BY DEF ServiceInv, EngineInv
<1>2. PICK k, bad : StepRaises(k, bad)
  BY DEF StepFails
<1>3. client' = client
  BY <1>2 DEF StepRaises
<1>4. BooksInv' /\ EngineInv' /\ NewStay
  BY <1>1, <1>2, StepRaisesKeeps, StepRaisesRests, StepRaisesNoNew
<1> QED BY <1>1, <1>3, <1>4, ClientsStay DEF ServiceInv

LEMMA ClosingHolds ==
    ASSUME ServiceInv, Closing
    PROVE  ServiceInv'
<1>1. BooksInv /\ EngineInv /\ ClientsIdle
  BY DEF ServiceInv
<1>2. CASE Close \/ CloseTimesOut
  <2>1. client' = client /\ UNCHANGED <<engineVars, sessVars>>
    BY <1>2 DEF Close, CloseTimesOut
  <2>2. BooksInv' /\ EngineInv' /\ NewStay
    BY <1>1, <1>2, <2>1, ClientsStutter, EngineRests, UnchangedNew DEF engineVars
  <2> QED BY <1>1, <2>1, <2>2, ClientsStay DEF ServiceInv
<1>3. CASE CloseReturns
  <2>1. client' = client /\ FailUnfinished
    BY <1>3 DEF CloseReturns
  <2>2. BooksInv' /\ EngineInv' /\ NewStay
    BY <1>1, <1>3, <2>1, FailuresKeep, FailRests, FailNoNew
  <2> QED BY <1>1, <2>1, <2>2, ClientsStay DEF ServiceInv
<1> QED BY <1>2, <1>3 DEF Closing

\* The invariant of the proofs below.
THEOREM ServiceInvHolds == Spec => []ServiceInv
<1>1. Init => ServiceInv
  BY InitHolds
<1>2. ServiceInv /\ [Next]_vars => ServiceInv'
  BY StutterHolds, RequestThreadsHold, TurnThreadsHold, RoundHolds, StepFailsHolds,
     ClosingHolds DEF Next
<1> QED BY <1>1, <1>2, PTL DEF Spec

-----------------------------------------------------------------------------
(***************************************************************************)
(* What it means for the clients.                                          *)
(***************************************************************************)

\* The books of the service agree with each other: an id is tracked once, a
\* deadline belongs to a tracked request, so that expiring it cannot end the
\* worker's thread, and what is remembered as completed is finished.
THEOREM BooksHold == Spec => []BooksAgree
<1>1. ServiceInv => BooksAgree
  BY DEF ServiceInv, BooksInv, BooksPart
<1> QED BY <1>1, ServiceInvHolds, PTL

\* A mark for the worker is that of an unfinished request, or of a call that
\* is still going to remove it.
THEOREM MarksHold == Spec => []MarksAreCurrent
<1>1. ASSUME ServiceInv PROVE MarksAreCurrent
  <2>1. BooksAgree /\ Whereabouts /\ MarksHaveReason
    BY <1>1 DEF ServiceInv, BooksInv, BooksPart
  <2>2. worker.requests \in Seq(Requests) /\ tracked \in Seq(Requests)
    BY <1>1 DEF ServiceInv, BooksInv, ServiceTypes, Worker
  <2>3. ASSUME NEW i \in cancelled
        PROVE  \E r \in TrackedAs(i) :
                  ~IsFinished(r) \/ \E c \in Canceller : cancel[c].request = r
    <3>1. PICK r \in ToSet(tracked) : IdOf[r] = i
      BY <2>1 DEF MarksHaveReason, TrackedAs
    <3>2. r \in TrackedAs(i) /\ r \in Requests
      BY <2>2, <3>1 DEF TrackedAs, ToSet
    <3>3. r \in Hands \/ Live(r) => ~IsFinished(r)
      BY <2>1, StatusesDiffer DEF Whereabouts, Live, IsFinished
    <3>4. \/ r \in Hands \/ Live(r)
          \/ \E c \in Canceller : cancel[c].request = r
      BY <2>1, <3>1 DEF MarksHaveReason, Asks
    <3> QED BY <3>2, <3>3, <3>4
  <2> QED BY <2>3 DEF MarksAreCurrent
<1> QED BY <1>1, ServiceInvHolds, PTL

\* A request whose caller was told that it is cancelled never completes,
\* wherever it was when the caller looked.
THEOREM CancelsHold == Spec => []CancelHonoured
<1>1. ASSUME ServiceInv PROVE CancelHonoured
  <2>1. Whereabouts /\ PromisesKept /\ told \subseteq Requests
    BY <1>1 DEF ServiceInv, BooksInv, BooksPart, ServiceTypes
  <2>2. ASSUME NEW r \in told, Unique(r) PROVE status[r] # "FINISHED"
    <3>1. r \in Requests /\ Promised(r)
      BY <2>1 DEF Promised
    <3>2. status[r] \in {"ABORTED", "ERROR"} \/ r \in Hands \/ Live(r)
      BY <2>1, <2>2, <3>1 DEF PromisesKept
    <3>3. r \in Hands => status[r] = "WAITING"
      BY <2>1 DEF Whereabouts
    <3> QED BY <3>2, <3>3 DEF Live, LiveStatus
  <2> QED BY <2>2 DEF CancelHonoured, Unique
<1> QED BY <1>1, ServiceInvHolds, PTL

\* A session request that is queued, runs or keeps its slot is the request of
\* exactly one open session, so that eviction finds it, and a session without
\* a turn is parked.
THEOREM SessionsHold == Spec => []SessionsOwnState
<1>1. ASSUME ServiceInv PROVE SessionsOwnState
  <2>1. LiveAreOpen /\ NamesAreUnique /\ FreeAreParked
    BY <1>1 DEF ServiceInv, EngineInv
  <2>2. \A x \in EngineIds : Live(x) => x \in DOMAIN sessions /\ x \in known
    BY <2>1 DEF LiveAreOpen, Live
  <2>3. \A x \in DOMAIN sessions : OpenAs(sessions[x].session) = {x}
    BY <2>1 DEF NamesAreUnique, OpenAs
  <2>4. \A x \in DOMAIN sessions : sessions[x].active = Nobody => status[x] = "PARKED"
    BY <2>1 DEF FreeAreParked
  <2> QED BY <2>2, <2>3, <2>4 DEF SessionsOwnState
<1> QED BY <1>1, ServiceInvHolds, PTL

-----------------------------------------------------------------------------
(***************************************************************************)
(* The turns.                                                              *)
(***************************************************************************)

TurnRecord ==
    [state : {"new", "pending", "running", "finished"},
     mode : {"chat", "prompt", "delta"}, cancel_requested : BOOLEAN,
     engine_req_id : EngineIds \cup {NoId},
     finish_reason : {"none", "done", "aborted", "error"}]
LeaveRecord ==
    [at : {"idle", "asked", "left"}, engine_req_id : EngineIds \cup {NoId},
     completed_race : BOOLEAN, timed_out : BOOLEAN]

TurnTypes ==
    /\ turn \in [Turns -> TurnRecord] /\ leave \in [Turns -> LeaveRecord]
    /\ cv \in Turns \cup {Nobody}

\* A turn that waits to be started is in one list, once, and nobody can find an
\* engine id in it.
Lists        == ToSet(pending_chat) \cup ToSet(worker.turns) \cup ToSet(worker.retry)
Early(t)     == client[t] \in {"idle", "queueing"}
Unstarted(t) == /\ turn[t].engine_req_id = NoId
                /\ leave[t].engine_req_id = NoId /\ ~leave[t].completed_race

ListsApart ==
    /\ IsInjective(pending_chat) /\ IsInjective(worker.turns) /\ IsInjective(worker.retry)
    /\ ToSet(pending_chat) \cap ToSet(worker.turns) = {}
    /\ ToSet(pending_chat) \cap ToSet(worker.retry) = {}
    /\ ToSet(worker.turns) \cap ToSet(worker.retry) = {}

WaitersAreUnstarted ==
    /\ \A t \in Lists : ~Early(t)
    /\ \A t \in Turns : t \in Lists \/ Early(t) => Unstarted(t)

\* The turn of a client that waits is finished, or the active one of its
\* session, so that whatever ends the session's turn ends it.
IsActive(t) == SessionOf[t] \in DOMAIN active_turns /\ active_turns[SessionOf[t]] = t

WaitersAreActive ==
    \A t \in Turns : client[t] = "waiting" => turn[t].state = "finished" \/ IsActive(t)

\* A client that lets go of engine_lock before its turn is accepted keeps cv, and
\* no other turn of its session gets in.
QueueingIsFree ==
    cv # Nobody => client[cv] = "queueing" /\ SessionOf[cv] \notin DOMAIN active_turns

\* If the turn that is being started was finished in between, then by its client,
\* which does not wait for it any more.
PickedIsOpen ==
    worker.at = "start" =>
        LET t == Head(worker.turns) IN
        turn[t].state = "finished" => client[t] # "waiting" /\ leave[t].at = "idle"

TurnsInv ==
    /\ TurnTypes /\ ListsApart /\ WaitersAreUnstarted /\ WaitersAreActive
    /\ QueueingIsFree /\ PickedIsOpen

\* After close() has returned.
ClosedIsDone ==
    /\ service \in [closed : BOOLEAN, ready : BOOLEAN,
                    close : {"open", "joining", "returned"}]
    /\ service.close \in {"joining", "returned"} => service.closed
    /\ service.close = "returned" =>
          /\ ~WorkerAlive /\ cv = Nobody
          /\ \A r \in ToSet(tracked) : IsFinished(r)
          /\ \A t \in Turns : client[t] = "waiting" => turn[t].state = "finished"
          /\ Holders = {}

CloseInv == ServiceInv /\ TurnsInv /\ ClosedIsDone

LEMMA TurnsAre ==
    ASSUME ServiceInv, TurnsInv
    PROVE  /\ pending_chat \in Seq(Turns) /\ worker.turns \in Seq(Turns)
           /\ worker.retry \in Seq(Turns) /\ Lists \subseteq Turns
           /\ worker.at = "start" => Head(worker.turns) \in ToSet(worker.turns)
           /\ client \in [Requests \cup Turns ->
                             {"idle", "waiting", "leaving", "done", "queueing"}]
           /\ \A t \in Turns : t \notin Requests
<1>1. /\ pending_chat \in Seq(Turns) /\ worker.turns \in Seq(Turns)
      /\ worker.retry \in Seq(Turns)
      /\ worker.at = "start" => worker.turns # << >>
  BY DEF ServiceInv, BooksInv, ServiceTypes, Worker
<1>2. Lists \subseteq Turns
  BY <1>1 DEF Lists, ToSet
<1>3. worker.turns # << >> => Head(worker.turns) \in ToSet(worker.turns)
  BY <1>1, TailKeeps DEF TurnsInv, ListsApart
<1>4. \A t \in Turns : t \notin Requests
  BY ServiceAssumption
<1> QED BY <1>1, <1>2, <1>3, <1>4 DEF ServiceInv, ClientsIdle

\* What a step of the thread of t may change of the turns.
ThreadStep(t) ==
    /\ worker' = worker
    /\ TurnTypes' /\ QueueingIsFree'
    /\ \A u \in Turns \ {t} :
          /\ turn'[u].state = turn[u].state
          /\ turn'[u].engine_req_id = turn[u].engine_req_id
          /\ leave'[u] = leave[u] /\ client'[u] = client[u]
          /\ IsActive(u) => IsActive(u)'
    /\ IsInjective(pending_chat')
    /\ \/ ToSet(pending_chat') \subseteq ToSet(pending_chat)
       \/ Early(t) /\ ToSet(pending_chat') = ToSet(pending_chat) \cup {t}
    /\ t \in Lists' => ~Early(t)'
    /\ t \in Lists' \/ Early(t)' => Unstarted(t)'
    /\ client'[t] = "waiting" => turn'[t].state = "finished" \/ IsActive(t)'
    /\ client'[t] = "waiting" =>
          \/ cv = t
          \/ turn'[t].state = "finished"
          \/ /\ client[t] = "waiting"
             /\ turn'[t].state = turn[t].state
    /\ t \in ToSet(worker.turns) /\ worker.at = "start" /\ turn'[t].state = "finished"
         => \/ client'[t] # "waiting" /\ leave'[t].at = "idle"
            \/ t # Head(worker.turns)

LEMMA ThreadKeeps ==
    ASSUME ServiceInv, TurnsInv, NEW t \in Turns, ThreadStep(t)
    PROVE  TurnsInv'
<1> USE DEF ThreadStep
<1>1. /\ TurnTypes /\ ListsApart /\ WaitersAreUnstarted /\ WaitersAreActive
      /\ QueueingIsFree /\ PickedIsOpen
  BY DEF TurnsInv
<1>2. /\ Lists \subseteq Turns
      /\ worker.at = "start" => Head(worker.turns) \in ToSet(worker.turns)
  BY TurnsAre
<1>3. Early(t) => t \notin Lists
  BY <1>1 DEF WaitersAreUnstarted
<1>4. Lists' \subseteq Lists \cup {t} /\ Lists' \subseteq Turns
  BY <1>2 DEF Lists
<1>5. ListsApart'
  BY <1>1, <1>3 DEF ListsApart, Lists
<1>6. WaitersAreUnstarted'
  <2>1. \A u \in Turns \ {t} : /\ Early(u)' = Early(u) /\ Unstarted(u)' = Unstarted(u)
                               /\ u \in Lists' => u \in Lists
    BY <1>4 DEF Early, Unstarted
  <2>2. \A u \in Lists' : ~Early(u)'
    BY <1>1, <1>4, <2>1 DEF WaitersAreUnstarted
  <2>3. \A u \in Turns : u \in Lists' \/ Early(u)' => Unstarted(u)'
    BY <1>1, <2>1 DEF WaitersAreUnstarted
  <2> QED BY <2>2, <2>3 DEF WaitersAreUnstarted
<1>7. WaitersAreActive'
  <2> SUFFICES ASSUME NEW u \in Turns, client'[u] = "waiting"
               PROVE  turn'[u].state = "finished" \/ IsActive(u)'
    BY DEF WaitersAreActive
  <2>1. CASE u # t
    BY <1>1, <2>1 DEF WaitersAreActive
  <2> QED BY <2>1
<1>8. PickedIsOpen'
  <2> SUFFICES ASSUME worker.at = "start", turn'[Head(worker.turns)].state = "finished"
               PROVE  /\ client'[Head(worker.turns)] # "waiting"
                      /\ leave'[Head(worker.turns)].at = "idle"
    BY DEF PickedIsOpen
  <2> DEFINE h == Head(worker.turns)
  <2>1. h \in Turns /\ h \in ToSet(worker.turns)
    BY <1>2 DEF Lists
  <2>2. turn'[h].state = "finished"
    OBVIOUS
  <2>3. turn[h].state = "finished" => client[h] # "waiting" /\ leave[h].at = "idle"
    BY <1>1 DEF PickedIsOpen
  <2>4. t = h => client'[h] # "waiting" /\ leave'[h].at = "idle"
    BY <2>1, <2>2
  <2> HIDE DEF h
  <2>5. client'[h] # "waiting" /\ leave'[h].at = "idle"
    BY <2>1, <2>2, <2>3, <2>4
  <2> QED BY <2>5 DEF h
<1> QED BY <1>5, <1>6, <1>7, <1>8 DEF TurnsInv

\* What a step of the worker may change of the turns.
WorkerStep ==
    /\ UNCHANGED <<client, leave, cv>>
    /\ turn' \in [Turns -> TurnRecord]
    /\ ListsApart' /\ Lists' \subseteq Lists
    /\ \A t \in Turns : t \in Lists' \/ Early(t) =>
          turn'[t].engine_req_id = turn[t].engine_req_id
    /\ \A t \in Turns :
          client[t] = "waiting" /\ (turn[t].state = "finished" \/ IsActive(t))
            => turn'[t].state = "finished" \/ IsActive(t)'
    /\ DOMAIN active_turns' \subseteq DOMAIN active_turns
    /\ worker'.at = "start" => turn'[Head(worker'.turns)].state # "finished"

LEMMA WorkerKeeps ==
    ASSUME ServiceInv, TurnsInv, WorkerStep
    PROVE  TurnsInv'
<1> USE DEF WorkerStep
<1>1. /\ TurnTypes /\ WaitersAreUnstarted /\ WaitersAreActive /\ QueueingIsFree
  BY DEF TurnsInv
<1>2. TurnTypes'
  BY <1>1 DEF TurnTypes
<1>3. WaitersAreUnstarted'
  <2>1. \A t \in Lists' : ~Early(t)'
    BY <1>1 DEF WaitersAreUnstarted, Early
  <2>2. ASSUME NEW t \in Turns, t \in Lists' \/ Early(t)' PROVE Unstarted(t)'
    <3>1. t \in Lists' \/ Early(t)
      BY <2>2 DEF Early
    <3>2. Unstarted(t)
      BY <1>1, <3>1 DEF WaitersAreUnstarted
    <3> QED BY <3>1, <3>2 DEF Unstarted
  <2> QED BY <2>1, <2>2 DEF WaitersAreUnstarted
<1>4. WaitersAreActive'
  BY <1>1 DEF WaitersAreActive
<1>5. QueueingIsFree'
  BY <1>1 DEF QueueingIsFree
<1>6. PickedIsOpen'
  BY DEF PickedIsOpen
<1> QED BY <1>2, <1>3, <1>4, <1>5, <1>6 DEF TurnsInv

\* The worker keeps, or drops, its lists and no turn changes.
LEMMA TurnsStay ==
    ASSUME ServiceInv, TurnsInv,
           UNCHANGED <<turn, active_turns, leave, cv, pending_chat>>,
           \A t \in Turns : client'[t] = client[t],
           \/ worker'.turns = worker.turns /\ worker'.retry = worker.retry
           \/ worker'.turns = << >> /\ worker'.retry = << >>,
           worker'.at = "start" => worker.at = "start" /\ worker'.turns = worker.turns
    PROVE  TurnsInv'
<1>1. /\ TurnTypes /\ ListsApart /\ WaitersAreUnstarted /\ WaitersAreActive
      /\ QueueingIsFree /\ PickedIsOpen
  BY DEF TurnsInv
<1>2. /\ Lists \subseteq Turns
      /\ worker.at = "start" => Head(worker.turns) \in Turns
  BY TurnsAre DEF Lists
<1>3. Lists' \subseteq Lists /\ ListsApart'
  BY <1>1, ListEmpty DEF Lists, ListsApart
<1>4. \A t \in Turns : Early(t)' = Early(t) /\ Unstarted(t)' = Unstarted(t)
                       /\ IsActive(t)' = IsActive(t)
  BY DEF Early, Unstarted, IsActive
<1>5. TurnTypes' /\ QueueingIsFree'
  BY <1>1 DEF TurnTypes, QueueingIsFree, ServiceAssumption
<1>6. WaitersAreUnstarted'
  BY <1>1, <1>2, <1>3, <1>4 DEF WaitersAreUnstarted
<1>7. WaitersAreActive'
  BY <1>1, <1>4 DEF WaitersAreActive
<1>8. PickedIsOpen'
  BY <1>1, <1>2 DEF PickedIsOpen
<1> QED BY <1>3, <1>5, <1>6, <1>7, <1>8 DEF TurnsInv

\* What the lemmas on a thread start from.
LEMMA BeforeThread ==
    ASSUME ServiceInv, TurnsInv, NEW t \in Turns
    PROVE  /\ turn \in [Turns -> TurnRecord] /\ leave \in [Turns -> LeaveRecord]
           /\ turn[t] \in TurnRecord /\ leave[t] \in LeaveRecord
           /\ cv \in Turns \cup {Nobody}
           /\ client \in [Requests \cup Turns ->
                             {"idle", "waiting", "leaving", "done", "queueing"}]
           /\ pending_chat \in Seq(Turns) /\ IsInjective(pending_chat)
           /\ t \in Lists => ~Early(t)
           /\ t \in Lists \/ Early(t) => Unstarted(t)
           /\ client[t] = "waiting" => turn[t].state = "finished" \/ IsActive(t)
           /\ cv # Nobody => client[cv] = "queueing"
                             /\ SessionOf[cv] \notin DOMAIN active_turns
           /\ t = Head(worker.turns) /\ worker.at = "start" /\ turn[t].state = "finished"
                => client[t] # "waiting" /\ leave[t].at = "idle"
           /\ \A u \in Turns : u \in Requests \cup Turns /\ u # Nobody
<1>1. /\ TurnTypes /\ ListsApart /\ WaitersAreUnstarted /\ WaitersAreActive
      /\ QueueingIsFree /\ PickedIsOpen
  BY DEF TurnsInv
<1>2. turn[t] \in TurnRecord /\ leave[t] \in LeaveRecord
  BY <1>1 DEF TurnTypes
<1>3. \A u \in Turns : u \in Requests \cup Turns /\ u # Nobody
  BY ServiceAssumption DEF Nobody
<1> QED BY <1>1, <1>2, <1>3, TurnsAre
        DEF TurnTypes, ListsApart, WaitersAreUnstarted, WaitersAreActive, QueueingIsFree,
            PickedIsOpen

LEMMA EnqueueChatSteps ==
    ASSUME ServiceInv, TurnsInv, NEW t \in Turns, NEW mode \in Modes, EnqueueChat(t, mode)
    PROVE  ThreadStep(t)
<1>1. /\ client[t] = "idle" /\ SessionOf[t] \notin DOMAIN active_turns /\ cv' = t
      /\ turn' = [turn EXCEPT ![t].mode = mode]
      /\ client' = [client EXCEPT ![t] = "queueing"]
      /\ UNCHANGED <<pending_chat, active_turns, worker, leave>>
  BY DEF EnqueueChat, queueVars
<1> DEFINE new == [turn[t] EXCEPT !.mode = mode]
<1>2. new \in TurnRecord /\ new.state = turn[t].state
      /\ new.engine_req_id = turn[t].engine_req_id
  <2> DEFINE r == turn[t]
  <2>1. r \in TurnRecord /\ mode \in {"chat", "prompt", "delta"}
    BY BeforeThread, ServiceAssumption
  <2> HIDE DEF r
  <2>2. /\ [r EXCEPT !.mode = mode] \in TurnRecord
        /\ [r EXCEPT !.mode = mode].state = r.state
        /\ [r EXCEPT !.mode = mode].engine_req_id = r.engine_req_id
    BY <2>1 DEF TurnRecord
  <2> QED BY <2>2 DEF r
<1>3. turn' = [turn EXCEPT ![t] = new]
  BY <1>1
<1> HIDE DEF new
<1>4. turn' \in [Turns -> TurnRecord] /\ turn'[t] = new
      /\ \A u \in Turns \ {t} : turn'[u] = turn[u]
  BY <1>2, <1>3, BeforeThread
<1>5. client'[t] = "queueing" /\ \A u \in Turns \ {t} : client'[u] = client[u]
  BY <1>1, BeforeThread
<1>6. TurnTypes' /\ QueueingIsFree'
  BY <1>1, <1>4, <1>5, BeforeThread DEF TurnTypes, QueueingIsFree
<1>7. t \notin Lists' /\ Unstarted(t)'
  <2>1. Early(t)
    BY <1>1 DEF Early
  <2>2. t \notin Lists /\ Unstarted(t)
    BY <2>1, BeforeThread
  <2> QED BY <1>1, <1>2, <1>4, <2>2 DEF Lists, Unstarted
<1>8. t \notin ToSet(worker.turns)
  BY <1>1, <1>7 DEF Lists
<1> QED BY <1>1, <1>4, <1>5, <1>6, <1>7, <1>8, BeforeThread DEF ThreadStep, IsActive

LEMMA AcceptTurnSteps ==
    ASSUME ServiceInv, TurnsInv, NEW t \in Turns, AcceptTurn(t)
    PROVE  ThreadStep(t)
<1>1. /\ cv = t /\ client[t] = "queueing" /\ cv' = Nobody
      /\ pending_chat' = Append(pending_chat, t)
      /\ active_turns' = Assign(active_turns, SessionOf[t], t)
      /\ turn' = [turn EXCEPT ![t].state = "pending"]
      /\ client' = [client EXCEPT ![t] = "waiting"]
      /\ UNCHANGED <<worker, leave>>
  BY DEF AcceptTurn
<1> DEFINE new == [turn[t] EXCEPT !.state = "pending"]
<1>2. new \in TurnRecord /\ new.engine_req_id = turn[t].engine_req_id
  BY BeforeThread DEF TurnRecord
<1>3. turn' = [turn EXCEPT ![t] = new]
  BY <1>1
<1> HIDE DEF new
<1>4. turn' \in [Turns -> TurnRecord] /\ turn'[t] = new
      /\ \A u \in Turns \ {t} : turn'[u] = turn[u]
  BY <1>2, <1>3, BeforeThread
<1>5. client'[t] = "waiting" /\ \A u \in Turns \ {t} : client'[u] = client[u]
  BY <1>1, BeforeThread
<1>6. TurnTypes' /\ QueueingIsFree'
  BY <1>1, <1>4, BeforeThread DEF TurnTypes, QueueingIsFree
<1>7. Early(t) /\ t \notin Lists /\ Unstarted(t) /\ SessionOf[t] \notin DOMAIN active_turns
  BY <1>1, BeforeThread DEF Early
<1>8. ~Early(t)' /\ Unstarted(t)'
  BY <1>1, <1>2, <1>4, <1>5, <1>7 DEF Early, Unstarted
<1>9. IsActive(t)' /\ \A u \in Turns \ {t} : IsActive(u) => IsActive(u)'
  BY <1>1, <1>7 DEF IsActive, Assign
<1>10. ToSet(pending_chat') = ToSet(pending_chat) \cup {t}
  BY <1>1, BeforeThread, AppendSet
<1>11. IsInjective(pending_chat')
  BY <1>1, <1>7, BeforeThread, AppendFresh DEF Lists
<1>12. t \notin ToSet(worker.turns)
  BY <1>7 DEF Lists
<1> QED BY <1>1, <1>4, <1>5, <1>6, <1>7, <1>8, <1>9, <1>10, <1>11, <1>12 DEF ThreadStep

LEMMA TurnReturnsSteps ==
    ASSUME ServiceInv, TurnsInv, NEW t \in Turns, TurnReturns(t)
    PROVE  ThreadStep(t)
<1>1. /\ cv = Nobody /\ client[t] \in {"waiting", "leaving"} /\ leave[t].at = "idle"
      /\ client' = [client EXCEPT ![t] = "done"]
      /\ UNCHANGED <<pending_chat, active_turns, turn, leave, worker, cv>>
  BY DEF TurnReturns, CvFree, queueVars, turnVars
<1>2. client'[t] = "done" /\ \A u \in Turns \ {t} : client'[u] = client[u]
  BY <1>1, BeforeThread
<1>3. TurnTypes' /\ QueueingIsFree'
  BY <1>1, BeforeThread DEF TurnTypes, QueueingIsFree
<1>4. ~Early(t)' /\ (t \in Lists' => Unstarted(t)')
  BY <1>1, <1>2, BeforeThread DEF Early, Unstarted, Lists
<1> QED BY <1>1, <1>2, <1>3, <1>4, BeforeThread DEF ThreadStep, IsActive

LEMMA LeaveTurnSteps ==
    ASSUME ServiceInv, TurnsInv, NEW t \in Turns, NEW timed_out \in BOOLEAN,
           LeaveTurn(t, timed_out)
    PROVE  ThreadStep(t)
<1>1. /\ cv = Nobody /\ turn[t].state # "finished"
      /\ turn' = [turn EXCEPT ![t].cancel_requested = TRUE]
      /\ pending_chat' = Without(pending_chat, {t})
      /\ leave' = [leave EXCEPT ![t] =
                      [at |-> "asked", engine_req_id |-> turn[t].engine_req_id,
                       completed_race |-> FALSE, timed_out |-> timed_out]]
      /\ client' = [client EXCEPT ![t] = "leaving"]
      /\ UNCHANGED <<active_turns, worker, cv>>
  BY DEF LeaveTurn, CvFree
<1> DEFINE new == [turn[t] EXCEPT !.cancel_requested = TRUE]
           call == [at |-> "asked", engine_req_id |-> turn[t].engine_req_id,
                    completed_race |-> FALSE, timed_out |-> timed_out]
<1>2. new \in TurnRecord /\ new.engine_req_id = turn[t].engine_req_id
      /\ new.state = turn[t].state
  BY BeforeThread DEF TurnRecord
<1>3. call \in LeaveRecord /\ call.engine_req_id = turn[t].engine_req_id
      /\ ~call.completed_race
  BY BeforeThread DEF LeaveRecord, TurnRecord
<1>4. turn' = [turn EXCEPT ![t] = new] /\ leave' = [leave EXCEPT ![t] = call]
  BY <1>1
<1> HIDE DEF new, call
<1>5. turn' \in [Turns -> TurnRecord] /\ turn'[t] = new
      /\ \A u \in Turns \ {t} : turn'[u] = turn[u]
  BY <1>2, <1>4, BeforeThread
<1>6. leave' \in [Turns -> LeaveRecord] /\ leave'[t] = call
      /\ \A u \in Turns \ {t} : leave'[u] = leave[u]
  BY <1>3, <1>4, BeforeThread
<1>7. client'[t] = "leaving" /\ \A u \in Turns \ {t} : client'[u] = client[u]
  BY <1>1, BeforeThread
<1>8. TurnTypes' /\ QueueingIsFree'
  BY <1>1, <1>5, <1>6, BeforeThread DEF TurnTypes, QueueingIsFree
<1>9. /\ ToSet(pending_chat') \subseteq ToSet(pending_chat) /\ IsInjective(pending_chat')
  BY <1>1, BeforeThread, WithoutKeeps
<1>10. ~Early(t)' /\ (t \in Lists' => t \in Lists)
  BY <1>1, <1>7, <1>9 DEF Early, Lists
<1>11. t \in Lists => Unstarted(t)'
  BY <1>2, <1>3, <1>5, <1>6, BeforeThread DEF Unstarted
<1>12. turn'[t].state # "finished" /\ client'[t] # "waiting"
  BY <1>1, <1>2, <1>5, <1>7
<1>13. \A u \in Turns : IsActive(u)' = IsActive(u)
  BY <1>1 DEF IsActive
<1> QED BY <1>1, <1>5, <1>6, <1>7, <1>8, <1>9, <1>10, <1>11, <1>12, <1>13 DEF ThreadStep

LEMMA LeaveEngineSteps ==
    ASSUME ServiceInv, TurnsInv, NEW t \in Turns, LeaveEngine(t)
    PROVE  ThreadStep(t)
<1> DEFINE x == leave[t].engine_req_id
           Writes(reason, race) ==
             /\ turn' = [turn EXCEPT ![t] = [turn[t] EXCEPT !.finish_reason = reason]]
             /\ leave' = [leave EXCEPT ![t] =
                            [leave[t] EXCEPT !.at = "left", !.completed_race = race]]
             /\ x = NoId => race = leave[t].completed_race
<1> HIDE DEF Writes
<1>1. /\ leave[t].at = "asked"
      /\ UNCHANGED <<pending_chat, active_turns, worker, cv, client>>
  BY DEF LeaveEngine, queueVars
<1>2. x = NoId => x \notin DOMAIN sessions
  BY ServiceAssumption DEF ServiceInv, BooksInv, ServiceTypes, EngineIds, NoId
<1>3. \E reason \in {"done", "aborted", "error"}, race \in BOOLEAN : Writes(reason, race)
  <2>1. turn[t] \in TurnRecord /\ leave[t] \in LeaveRecord
    BY BeforeThread
  <2>2. leave[t].completed_race \in BOOLEAN
        /\ OrAborted(turn[t].finish_reason) \in {"done", "aborted", "error"}
    BY <2>1 DEF TurnRecord, LeaveRecord, OrAborted
  <2>3. leave[t].completed_race = leave[t]["completed_race"] /\
        [leave[t] EXCEPT !.at = "left"] =
          [leave[t] EXCEPT !.at = "left", !.completed_race = leave[t].completed_race]
    BY <2>1 DEF LeaveRecord
  <2>4. CASE /\ leave' = [leave EXCEPT ![t].at = "left"]
             /\ turn' = [turn EXCEPT ![t].finish_reason = OrAborted(@)]
    <3>1. turn' = [turn EXCEPT ![t] =
                     [turn[t] EXCEPT !.finish_reason = OrAborted(turn[t].finish_reason)]]
      BY <2>4
    <3>2. leave' = [leave EXCEPT ![t] = [leave[t] EXCEPT !.at = "left"]]
      BY <2>4
    <3>3. Writes(OrAborted(turn[t].finish_reason), leave[t].completed_race)
      BY <3>1, <3>2, <2>3 DEF Writes
    <3> QED BY <3>3, <2>2
  <2>5. CASE /\ leave' = [leave EXCEPT ![t].at = "left", ![t].completed_race = TRUE]
             /\ turn' = [turn EXCEPT ![t].finish_reason = "done"]
             /\ x \in DOMAIN sessions
    <3>1. turn' = [turn EXCEPT ![t] = [turn[t] EXCEPT !.finish_reason = "done"]]
      BY <2>5
    <3>2. leave' = [leave EXCEPT ![t] =
                      [leave[t] EXCEPT !.at = "left", !.completed_race = TRUE]]
      BY <2>5, BeforeThread
    <3>3. Writes("done", TRUE)
      BY <3>1, <3>2, <1>2, <2>5 DEF Writes
    <3> QED BY <3>3
  <2>6. CASE /\ leave' = [leave EXCEPT ![t].at = "left"]
             /\ turn' = [turn EXCEPT ![t].finish_reason = "aborted"]
    <3>1. turn' = [turn EXCEPT ![t] = [turn[t] EXCEPT !.finish_reason = "aborted"]]
      BY <2>6
    <3>2. leave' = [leave EXCEPT ![t] = [leave[t] EXCEPT !.at = "left"]]
      BY <2>6
    <3>3. Writes("aborted", leave[t].completed_race)
      BY <3>1, <3>2, <2>3 DEF Writes
    <3> QED BY <3>3, <2>2
  <2> QED BY <2>4, <2>5, <2>6 DEF LeaveEngine
<1> PICK reason \in {"done", "aborted", "error"}, race \in BOOLEAN : Writes(reason, race)
  BY <1>3
<1> DEFINE new == [turn[t] EXCEPT !.finish_reason = reason]
           call == [leave[t] EXCEPT !.at = "left", !.completed_race = race]
<1>4. new \in TurnRecord /\ new.engine_req_id = turn[t].engine_req_id
      /\ new.state = turn[t].state
  BY BeforeThread DEF TurnRecord
<1>5. call \in LeaveRecord /\ call.engine_req_id = leave[t].engine_req_id
      /\ call.completed_race = race
  BY BeforeThread DEF LeaveRecord
<1>6. turn' = [turn EXCEPT ![t] = new] /\ leave' = [leave EXCEPT ![t] = call]
  BY DEF Writes
<1> HIDE DEF new, call
<1>7. turn' \in [Turns -> TurnRecord] /\ turn'[t] = new
      /\ \A u \in Turns \ {t} : turn'[u] = turn[u]
  BY <1>4, <1>6, BeforeThread
<1>8. leave' \in [Turns -> LeaveRecord] /\ leave'[t] = call
      /\ \A u \in Turns \ {t} : leave'[u] = leave[u]
  BY <1>5, <1>6, BeforeThread
<1>9. TurnTypes' /\ QueueingIsFree'
  BY <1>1, <1>7, <1>8, BeforeThread DEF TurnTypes, QueueingIsFree
<1>10. \A u \in Turns : /\ IsActive(u)' = IsActive(u) /\ Early(u)' = Early(u)
                        /\ (u \in Lists') = (u \in Lists)
  BY <1>1 DEF IsActive, Early, Lists
<1>11. Unstarted(t) => Unstarted(t)'
  BY <1>4, <1>5, <1>7, <1>8 DEF Unstarted, Writes
<1>12. t = Head(worker.turns) /\ worker.at = "start" => turn'[t].state # "finished"
  BY <1>1, <1>4, <1>7, BeforeThread
<1> QED BY <1>1, <1>4, <1>7, <1>8, <1>9, <1>10, <1>11, <1>12, BeforeThread DEF ThreadStep

LEMMA LeaveDoneSteps ==
    ASSUME ServiceInv, TurnsInv, NEW t \in Turns, LeaveDone(t)
    PROVE  ThreadStep(t)
<1> DEFINE lost == turn[t].state = "finished" \/ leave[t].completed_race
           to   == IF ~leave[t].timed_out THEN "done"
                   ELSE IF lost THEN "waiting" ELSE "leaving"
           new  == [turn[t] EXCEPT !.state = "finished"]
           call == [leave[t] EXCEPT !.at = "idle", !.engine_req_id = NoId,
                                    !.completed_race = FALSE]
<1>1. /\ cv = Nobody /\ leave[t].at = "left"
      /\ turn' = [u \in Turns |-> IF u \in {t} THEN [turn[u] EXCEPT !.state = "finished"]
                                  ELSE turn[u]]
      /\ active_turns' = Restrict(active_turns,
                           {s \in DOMAIN active_turns : active_turns[s] \notin {t}})
      /\ client' = [client EXCEPT ![t] = to]
      /\ UNCHANGED <<pending_chat, worker, cv>>
  BY DEF LeaveDone, CvFree, FinishTurns, queueVars
<1>2. leave' = [leave EXCEPT ![t] = call]
  BY BeforeThread DEF LeaveDone
<1>3. new \in TurnRecord /\ new.engine_req_id = turn[t].engine_req_id
      /\ new.state = "finished"
  BY BeforeThread DEF TurnRecord
<1>4. call \in LeaveRecord /\ call.engine_req_id = NoId /\ call.at = "idle"
      /\ ~call.completed_race
  BY BeforeThread DEF LeaveRecord
<1>5. to \in {"done", "waiting", "leaving"} /\ (to = "waiting" => lost)
  OBVIOUS
<1>6. turn'[t] = new /\ \A u \in Turns \ {t} : turn'[u] = turn[u]
  BY <1>1
<1>7. DOMAIN turn' = Turns /\ turn' = [u \in Turns |-> turn'[u]]
  BY <1>1
<1> HIDE DEF new, call, to
<1>8. turn' \in [Turns -> TurnRecord]
  <2>1. \A u \in Turns : turn'[u] \in TurnRecord
    BY <1>3, <1>6, BeforeThread
  <2> QED BY <1>7, <2>1
<1>9. leave' \in [Turns -> LeaveRecord] /\ leave'[t] = call
      /\ \A u \in Turns \ {t} : leave'[u] = leave[u]
  BY <1>2, <1>4, BeforeThread
<1>10. client'[t] = to /\ \A u \in Turns \ {t} : client'[u] = client[u]
  BY <1>1, BeforeThread
<1>11. TurnTypes' /\ QueueingIsFree'
  BY <1>1, <1>8, <1>9, BeforeThread DEF TurnTypes, QueueingIsFree
<1>12. ~Early(t)'
  BY <1>5, <1>10 DEF Early
<1>13. t \in Lists' => t \in Lists
  BY <1>1 DEF Lists
<1>14. Unstarted(t) => Unstarted(t)'
  BY <1>3, <1>4, <1>6, <1>9 DEF Unstarted
<1>15. \A u \in Turns \ {t} : IsActive(u) => IsActive(u)'
  BY <1>1 DEF IsActive, Restrict
<1>16. turn'[t].state = "finished"
  BY <1>3, <1>6
<1>17. t \in ToSet(worker.turns) /\ worker.at = "start" =>
         \/ client'[t] # "waiting" /\ leave'[t].at = "idle"
         \/ t # Head(worker.turns)
  <2> SUFFICES ASSUME t \in ToSet(worker.turns), worker.at = "start",
                      t = Head(worker.turns)
               PROVE  client'[t] # "waiting" /\ leave'[t].at = "idle"
    OBVIOUS
  <2>1. turn[t].state # "finished"
    BY <1>1, BeforeThread
  <2>2. ~leave[t].completed_race
    BY BeforeThread DEF Lists, Unstarted
  <2> QED BY <2>1, <2>2, <1>4, <1>5, <1>9, <1>10
<1> QED BY <1>1, <1>3, <1>6, <1>9, <1>10, <1>11, <1>12, <1>13, <1>14, <1>15, <1>16, <1>17,
           BeforeThread DEF ThreadStep

LEMMA TurnThreadsKeepTurns ==
    ASSUME ServiceInv, TurnsInv, TurnThreads
    PROVE  TurnsInv'
<1> PICK t \in Turns :
      \/ \E mode \in Modes : EnqueueChat(t, mode)
      \/ AcceptTurn(t)
      \/ TurnReturns(t)
      \/ \E timed_out \in BOOLEAN : LeaveTurn(t, timed_out)
      \/ LeaveEngine(t)
      \/ LeaveDone(t)
  BY DEF TurnThreads
<1> ThreadStep(t)
  BY EnqueueChatSteps, AcceptTurnSteps, TurnReturnsSteps, LeaveTurnSteps,
     LeaveEngineSteps, LeaveDoneSteps
<1> QED BY ThreadKeeps

\* The thread of a request leaves the clients of turns where they are.
LEMMA RequestThreadsClients ==
    ASSUME ServiceInv, RequestThreads
    PROVE  \A t \in Turns : client'[t] = client[t]
<1>1. /\ client \in [Requests \cup Turns ->
                        {"idle", "waiting", "leaving", "done", "queueing"}]
      /\ \A t \in Turns : t \notin Requests
  BY ServiceAssumption DEF ServiceInv, ClientsIdle
<1>2. ASSUME NEW r \in Requests, NEW to, client' = [client EXCEPT ![r] = to]
      PROVE  \A t \in Turns : client'[t] = client[t]
  BY <1>1, <1>2
<1>3. ASSUME NEW c \in Canceller, NEW result, Returns(c, result)
      PROVE  \A t \in Turns : client'[t] = client[t]
  <2> DEFINE to == IF result THEN "done" ELSE "waiting"
  <2>1. client' = IF c \notin Requests THEN client ELSE [client EXCEPT ![c] = to]
    BY <1>3 DEF Returns
  <2> HIDE DEF to
  <2> QED BY <1>2, <2>1
<1>4. ASSUME NEW r \in Requests, NEW waits \in BOOLEAN, NEW due \in BOOLEAN,
             Enqueue(r, waits, due)
      PROVE  \A t \in Turns : client'[t] = client[t]
  <2> DEFINE to == IF waits THEN "waiting" ELSE "done"
  <2>1. client' = [client EXCEPT ![r] = to]
    BY <1>4 DEF Enqueue
  <2> HIDE DEF to
  <2> QED BY <1>2, <2>1
<1>5. ASSUME NEW r \in Requests, Answered(r) \/ GivesUp(r)
      PROVE  \A t \in Turns : client'[t] = client[t]
  BY <1>2, <1>5 DEF Answered, GivesUp
<1>6. ASSUME NEW c \in Canceller, NEW i \in Ids,
             CancelUnknown(c, i) \/ CancelFinished(c, i) \/ CancelPending(c, i)
      PROVE  \A t \in Turns : client'[t] = client[t]
  BY <1>3, <1>6 DEF CancelUnknown, CancelFinished, CancelPending
<1>7. ASSUME NEW c \in Canceller, CancelRecord(c)
      PROVE  \A t \in Turns : client'[t] = client[t]
  BY <1>3, <1>7 DEF CancelRecord
<1>8. ASSUME \/ \E c \in Canceller, i \in Ids : CancelMark(c, i)
             \/ \E c \in Canceller : CancelInEngine(c)
      PROVE  client' = client
  BY <1>8 DEF CancelMark, CancelInEngine
<1> QED BY <1>4, <1>5, <1>6, <1>7, <1>8 DEF RequestThreads

LEMMA RequestThreadsKeepTurns ==
    ASSUME ServiceInv, TurnsInv, RequestThreads
    PROVE  TurnsInv'
<1>1. UNCHANGED <<turn, active_turns, pending_chat, leave, cv, worker>>
  BY DEF RequestThreads, Enqueue, Answered, GivesUp, CancelUnknown, CancelFinished,
         CancelPending, CancelMark, CancelInEngine, CancelRecord, turnVars, queueVars
<1> QED BY <1>1, RequestThreadsClients, TurnsStay

\* The actions of the worker that leave the turns alone.
LEMMA TurnsLeftAlone ==
    ASSUME ServiceInv, TurnsInv,
           \/ Stop \/ \E X \in SUBSET Evictable : EvictExpired(X)
           \/ AddCancelled \/ AddRequest \/ StepNone \/ StepFails
    PROVE  TurnsInv'
<1> DEFINE w == worker
<1>1. UNCHANGED <<turn, active_turns, leave, cv, pending_chat, client>>
  BY DEF Stop, EvictExpired, AddCancelled, AddRequest, StepNone, StepFails, StepRaises,
         queueVars, turnVars
<1>2. w \in Worker
  BY DEF ServiceInv, BooksInv, ServiceTypes
<1>3. ASSUME NEW a \in {"stopped", "failing", "dying"}, w' = At(a)
      PROVE  w'.turns = << >> /\ w'.retry = << >> /\ w'.at # "start"
  BY <1>3, AtIs DEF Places
<1>4. ASSUME NEW a \in {"add", "settle"}, w' = [w EXCEPT !.at = a]
      PROVE  w'.turns = w.turns /\ w'.retry = w.retry /\ w'.at # "start"
  <2> HIDE DEF w
  <2> QED BY <1>2, <1>4 DEF Worker
<1>5. ASSUME Adding, w' = Dealt
      PROVE  w'.turns = w.turns /\ w'.retry = w.retry /\ w'.at # "start"
  <2>1. w' = [w EXCEPT !.requests = Tail(w.requests)] /\ w.at = "add"
    BY <1>5 DEF Dealt, Adding
  <2> HIDE DEF w
  <2> QED BY <1>2, <2>1 DEF Worker
<1>6. \/ \E a \in {"stopped", "failing", "dying"} : w' = At(a)
      \/ \E a \in {"add", "settle"} : w' = [w EXCEPT !.at = a]
      \/ Adding /\ w' = Dealt
  BY DEF Stop, EvictExpired, AddCancelled, AddRequest, StepNone, StepFails, StepRaises
<1> HIDE DEF w
<1>7. /\ \/ w'.turns = w.turns /\ w'.retry = w.retry
         \/ w'.turns = << >> /\ w'.retry = << >>
      /\ w'.at # "start"
  BY <1>3, <1>4, <1>5, <1>6
<1> QED BY <1>1, <1>7, TurnsStay DEF w

\* A turn that is finished is active no more.
LEMMA FinishKeeps ==
    ASSUME NEW T, NEW tn \in [Turns -> TurnRecord], FinishTurns(T, tn),
           \A t \in Turns : /\ tn[t].engine_req_id = turn[t].engine_req_id
                            /\ tn[t].state = turn[t].state
    PROVE  /\ turn' \in [Turns -> TurnRecord]
           /\ \A t \in Turns : turn'[t].engine_req_id = turn[t].engine_req_id
           /\ \A t \in Turns : turn[t].state = "finished" \/ IsActive(t)
                                 => turn'[t].state = "finished" \/ IsActive(t)'
           /\ DOMAIN active_turns' \subseteq DOMAIN active_turns
           /\ \A t \in T \cap Turns : turn'[t].state = "finished"
<1>1. /\ turn' = [t \in Turns |-> IF t \in T THEN [tn[t] EXCEPT !.state = "finished"]
                                  ELSE tn[t]]
      /\ active_turns' = Restrict(active_turns,
                           {s \in DOMAIN active_turns : active_turns[s] \notin T})
  BY DEF FinishTurns
<1>2. ASSUME NEW t \in Turns
      PROVE  /\ [tn[t] EXCEPT !.state = "finished"] \in TurnRecord
             /\ [tn[t] EXCEPT !.state = "finished"].state = "finished"
             /\ [tn[t] EXCEPT !.state = "finished"].engine_req_id = tn[t].engine_req_id
             /\ tn[t] \in TurnRecord
  <2> DEFINE r == tn[t]
  <2>1. r \in TurnRecord
    OBVIOUS
  <2> HIDE DEF r
  <2>2. /\ [r EXCEPT !.state = "finished"] \in TurnRecord
        /\ [r EXCEPT !.state = "finished"].state = "finished"
        /\ [r EXCEPT !.state = "finished"].engine_req_id = r.engine_req_id
    BY <2>1 DEF TurnRecord
  <2> QED BY <2>1, <2>2 DEF r
<1>3. ASSUME NEW t \in Turns
      PROVE  /\ turn'[t] \in TurnRecord
             /\ turn'[t].engine_req_id = turn[t].engine_req_id
             /\ t \in T => turn'[t].state = "finished"
             /\ t \notin T => turn'[t].state = turn[t].state
  <2>1. turn'[t] = IF t \in T THEN [tn[t] EXCEPT !.state = "finished"] ELSE tn[t]
    BY <1>1
  <2>2. CASE t \in T
    <3>1. turn'[t] = [tn[t] EXCEPT !.state = "finished"]
      BY <2>1, <2>2
    <3> QED BY <1>2, <2>2, <3>1
  <2>3. CASE t \notin T
    <3>1. turn'[t] = tn[t]
      BY <2>1, <2>3
    <3> QED BY <1>2, <2>3, <3>1
  <2> QED BY <2>2, <2>3
<1>4. turn' \in [Turns -> TurnRecord]
  <2>1. DOMAIN turn' = Turns /\ turn' = [t \in Turns |-> turn'[t]]
    BY <1>1
  <2> QED BY <1>3, <2>1
<1>5. \A t \in Turns : t \notin T /\ IsActive(t) => IsActive(t)'
  BY <1>1 DEF IsActive, Restrict
<1>6. DOMAIN active_turns' \subseteq DOMAIN active_turns
  BY <1>1 DEF Restrict
<1> QED BY <1>3, <1>4, <1>5, <1>6

LEMMA TakeSteps ==
    ASSUME ServiceInv, TurnsInv, NEW D, Take(D)
    PROVE  WorkerStep
<1> DEFINE left == Without(pending, Expiring(D))
           w == At("taken")
<1>1. /\ worker' = [w EXCEPT !.requests = left, !.turns = pending_chat]
      /\ pending_chat' = << >>
      /\ UNCHANGED <<turn, active_turns, client, leave, cv>>
  BY DEF Take, turnVars
<1>2. w \in Worker /\ w.at = "taken" /\ w.retry = << >>
  BY AtIs DEF Places
<1> HIDE DEF left, w
<1>3. worker'.at = "taken" /\ worker'.turns = pending_chat /\ worker'.retry = << >>
  BY <1>1, <1>2 DEF Worker
<1>4. TurnTypes /\ ListsApart
  BY DEF TurnsInv
<1>5. ListsApart' /\ Lists' \subseteq Lists
  BY <1>1, <1>3, <1>4, ListEmpty DEF ListsApart, Lists
<1> QED BY <1>1, <1>3, <1>4, <1>5 DEF WorkerStep, TurnTypes, IsActive

LEMMA SettleSteps ==
    ASSUME ServiceInv, TurnsInv, NEW D, Settle(D)
    PROVE  WorkerStep
<1> DEFINE T == worker.settled
<1>1. /\ FinishTurns(T, turn)
      /\ pending_chat' = pending_chat \o Requeued
      /\ worker' = At("take")
      /\ UNCHANGED <<client, leave, cv>>
  BY DEF Settle
<1>2. worker'.at = "take" /\ worker'.turns = << >> /\ worker'.retry = << >>
  BY <1>1, AtIs DEF Places
<1>3. ListsApart /\ turn \in [Turns -> TurnRecord]
  BY DEF TurnsInv, TurnTypes
<1>4. /\ Requeued \in Seq(Turns) /\ IsInjective(Requeued)
      /\ ToSet(Requeued) \subseteq ToSet(worker.retry)
  BY <1>3, TurnsAre, OnlyKeeps DEF Requeued, ListsApart
<1>5. /\ ToSet(pending_chat') = ToSet(pending_chat) \cup ToSet(Requeued)
      /\ IsInjective(pending_chat')
  <2>1. ToSet(pending_chat) \cap ToSet(Requeued) = {} /\ IsInjective(pending_chat)
    BY <1>3, <1>4 DEF ListsApart
  <2> QED BY <1>1, <1>4, <2>1, TurnsAre, JoinApart
<1>6. ListsApart' /\ Lists' \subseteq Lists
  BY <1>2, <1>4, <1>5, ListEmpty DEF ListsApart, Lists
<1> HIDE DEF T
<1> QED BY <1>1, <1>2, <1>3, <1>6, FinishKeeps DEF WorkerStep

LEMMA FailSteps ==
    ASSUME ServiceInv, TurnsInv, FailRound \/ Die \/ CloseReturns
    PROVE  /\ WorkerStep
           /\ \A t \in Turns : client[t] = "waiting" => turn'[t].state = "finished"
<1> DEFINE T  == {active_turns[s] : s \in DOMAIN active_turns}
           tn == [t \in Turns |-> IF t \in T
                                  THEN [turn[t] EXCEPT !.finish_reason = "error"]
                                  ELSE turn[t]]
<1>1. /\ FinishTurns(T, tn)
      /\ pending_chat' = << >>
      /\ UNCHANGED <<client, leave, cv>>
  BY DEF FailRound, Die, CloseReturns, FailUnfinished
<1>2. /\ worker'.at # "start"
      /\ \/ worker'.turns = << >> /\ worker'.retry = << >>
         \/ worker'.turns = worker.turns /\ worker'.retry = worker.retry
  <2>1. \/ worker' = At("take") \/ worker' = At("dead")
        \/ worker' = worker /\ worker.at # "start"
    BY DEF FailRound, Die, CloseReturns, WorkerAlive
  <2> QED BY <2>1, AtIs DEF Places
<1>3. ListsApart /\ WaitersAreActive /\ turn \in [Turns -> TurnRecord]
  BY DEF TurnsInv, TurnTypes
<1>4. ListsApart' /\ Lists' \subseteq Lists
  BY <1>1, <1>2, <1>3, ListEmpty DEF ListsApart, Lists
<1>5. ASSUME NEW t \in Turns
      PROVE  /\ tn[t] \in TurnRecord /\ tn[t].state = turn[t].state
             /\ tn[t].engine_req_id = turn[t].engine_req_id
  <2> DEFINE r == turn[t]
             e == [r EXCEPT !.finish_reason = "error"]
  <2>1. r \in TurnRecord /\ (tn[t] = e \/ tn[t] = r)
    BY <1>3
  <2> HIDE DEF r, tn
  <2>2. e \in TurnRecord /\ e.state = r.state /\ e.engine_req_id = r.engine_req_id
    BY <2>1 DEF TurnRecord
  <2> HIDE DEF e
  <2>3. /\ tn[t] \in TurnRecord /\ tn[t].state = r.state
        /\ tn[t].engine_req_id = r.engine_req_id
    BY <2>1, <2>2
  <2> QED BY <2>3 DEF r
<1>6. DOMAIN tn = Turns /\ tn = [t \in Turns |-> tn[t]]
  OBVIOUS
<1>7. \A t \in Turns : IsActive(t) => t \in T
  BY DEF IsActive
<1> HIDE DEF tn, T
<1>8. tn \in [Turns -> TurnRecord]
  BY <1>5, <1>6
<1>9. /\ turn' \in [Turns -> TurnRecord]
      /\ \A t \in Turns : turn'[t].engine_req_id = turn[t].engine_req_id
      /\ \A t \in Turns : turn[t].state = "finished" \/ IsActive(t)
                            => turn'[t].state = "finished" \/ IsActive(t)'
      /\ DOMAIN active_turns' \subseteq DOMAIN active_turns
      /\ \A t \in T \cap Turns : turn'[t].state = "finished"
  BY <1>1, <1>5, <1>8, FinishKeeps
<1>10. WorkerStep
  BY <1>1, <1>2, <1>4, <1>9 DEF WorkerStep
<1>11. \A t \in Turns : turn[t].state = "finished" => turn'[t].state = "finished"
  <2>1. \A t \in Turns \ T : turn'[t].state = turn[t].state
    <3>1. turn' = [t \in Turns |-> IF t \in T THEN [tn[t] EXCEPT !.state = "finished"]
                                   ELSE tn[t]]
      BY <1>1 DEF FinishTurns
    <3> QED BY <1>5, <3>1
  <2> QED BY <1>9, <2>1
<1> QED BY <1>3, <1>7, <1>9, <1>10, <1>11 DEF WaitersAreActive

LEMMA PickTurnSteps ==
    ASSUME ServiceInv, TurnsInv, PickTurn
    PROVE  WorkerStep
<1> DEFINE w == worker
           s == w.turns
           t == Head(s)
<1>1. /\ s # << >>
      /\ \/ w' = [w EXCEPT !.turns = Tail(s)]
         \/ turn[t].state # "finished" /\ w' = [w EXCEPT !.at = "start"]
      /\ UNCHANGED <<turn, active_turns, pending_chat, client, leave, cv>>
      /\ w.at = "add"
  BY DEF PickTurn, queueVars, turnVars
<1>2. w \in Worker /\ s \in Seq(Turns)
  BY TurnsAre DEF ServiceInv, BooksInv, ServiceTypes
<1>3. ListsApart /\ turn \in [Turns -> TurnRecord]
  BY DEF TurnsInv, TurnTypes
<1>4. /\ Tail(s) \in Seq(Turns) /\ IsInjective(Tail(s))
      /\ ToSet(Tail(s)) \subseteq ToSet(s)
  <2>1. IsInjective(s)
    BY <1>3 DEF ListsApart
  <2> HIDE DEF s
  <2> QED BY <1>1, <1>2, <2>1, TailKeeps
<1>5. /\ w'.retry = w.retry
      /\ \/ w'.turns = Tail(s) /\ w'.at = "add"
         \/ w'.turns = s /\ w'.at = "start" /\ turn[t].state # "finished"
  <2> DEFINE u == Tail(s)
  <2>1. \/ w' = [w EXCEPT !.turns = u]
        \/ turn[t].state # "finished" /\ w' = [w EXCEPT !.at = "start"]
    BY <1>1
  <2>2. w.turns = s
    OBVIOUS
  <2>5. u \in Seq(Turns)
    BY <1>4
  <2> HIDE DEF u, t, s, w
  <2>3. CASE w' = [w EXCEPT !.turns = u]
    BY <1>1, <1>2, <2>3, <2>5 DEF Worker, u
  <2>4. CASE turn[t].state # "finished" /\ w' = [w EXCEPT !.at = "start"]
    BY <1>1, <1>2, <2>2, <2>4 DEF Worker
  <2> QED BY <2>1, <2>3, <2>4
<1>6. w'.at = "start" => turn'[Head(w'.turns)].state # "finished"
  BY <1>1, <1>5
<1>7. ToSet(w'.turns) \subseteq ToSet(s) /\ IsInjective(w'.turns)
  BY <1>3, <1>4, <1>5 DEF ListsApart
<1>8. ListsApart' /\ Lists' \subseteq Lists
  BY <1>1, <1>3, <1>5, <1>7 DEF ListsApart, Lists
<1> QED BY <1>1, <1>3, <1>6, <1>8 DEF WorkerStep, IsActive

\* The outcomes of starting a turn.
LEMMA StartOutcomes ==
    ASSUME ServiceInv, StartTurn
    PROVE  LET t == Head(worker.turns) IN
           RetryTurn(t) \/ FailTurn(t) \/ \E x \in EngineIds : RunTurn(t, x)
<1> DEFINE t == Head(worker.turns)
<1>1. /\ DOMAIN sessions \subseteq EngineIds /\ opened \in 0 .. MaxEngineIds
  BY DEF ServiceInv, BooksInv, ServiceTypes
<1>2. opened < MaxEngineIds => opened + 1 \in EngineIds
  BY <1>1, ServiceAssumption DEF EngineIds
<1>3. ASSUME NEW x \in {x \in OpenAs(SessionOf[t]) : status[x] = "PARKED"}, ResumeTurn(t, x)
      PROVE  RetryTurn(t) \/ FailTurn(t) \/ \E y \in EngineIds : RunTurn(t, y)
  <2>1. x \in EngineIds
    BY <1>1 DEF OpenAs
  <2> QED BY <1>3, <2>1, Zenon DEF ResumeTurn
<1>4. ASSUME RestartTurn(t, OpenAs(SessionOf[t]))
      PROVE  RetryTurn(t) \/ FailTurn(t) \/ \E y \in EngineIds : RunTurn(t, y)
  <2>1. \/ RetryTurn(t)
        \/ opened < MaxEngineIds /\ opened' = opened + 1 /\ RunTurn(t, opened')
    BY <1>4, Zenon DEF RestartTurn
  <2> QED BY <1>2, <2>1
<1> QED BY <1>3, <1>4, Zenon DEF StartTurn

LEMMA StartTurnSteps ==
    ASSUME ServiceInv, TurnsInv, StartTurn
    PROVE  WorkerStep
<1> DEFINE w == worker
           s == w.turns
           t == Head(s)
           u == Tail(s)
           v == Started
<1>1. /\ w \in Worker /\ w.at = "start" /\ s \in Seq(Turns) /\ s # << >>
      /\ w.retry \in Seq(Turns)
      /\ UNCHANGED <<active_turns, pending_chat, client, leave, cv>>
  BY TurnsAre DEF ServiceInv, BooksInv, ServiceTypes, StartTurn, queueVars
<1>2. ListsApart /\ WaitersAreUnstarted /\ turn \in [Turns -> TurnRecord]
  BY DEF TurnsInv, TurnTypes
<1>3. /\ t \in Turns /\ t \in ToSet(s) /\ u \in Seq(Turns) /\ IsInjective(u)
      /\ ToSet(u) = ToSet(s) \ {t}
  <2>1. IsInjective(s)
    BY <1>2 DEF ListsApart
  <2> HIDE DEF s
  <2> QED BY <1>1, <2>1, TailKeeps
<1>4. t \in Lists /\ t \notin ToSet(pending_chat) /\ t \notin ToSet(w.retry) /\ ~Early(t)
  BY <1>2, <1>3 DEF Lists, ListsApart, WaitersAreUnstarted
<1>5. turn[t].state = "finished" => client[t] # "waiting"
  BY <1>1 DEF TurnsInv, PickedIsOpen
<1>6. turn[t] \in TurnRecord
  BY <1>2, <1>3
<1>7. RetryTurn(t) \/ FailTurn(t) \/ \E x \in EngineIds : RunTurn(t, x)
  BY StartOutcomes
<1>8. v = [w EXCEPT !.at = "add", !.turns = u]
  BY DEF Started
<1> HIDE DEF s, t, u, v
<1>9. v \in Worker /\ v.at = "add" /\ v.turns = u /\ v.retry = w.retry
  <2> HIDE DEF w
  <2> QED BY <1>1, <1>3, <1>8 DEF Worker, Places
<1>10. ASSUME w'.at = "add", w'.turns = u, w'.retry = w.retry, turn' \in [Turns -> TurnRecord],
              \A x \in Turns \ {t} : turn'[x] = turn[x]
       PROVE  WorkerStep
  <2>1. ListsApart'
    BY <1>1, <1>2, <1>3, <1>10 DEF ListsApart, s
  <2>2. Lists' = Lists \ {t}
    BY <1>1, <1>3, <1>4, <1>10 DEF Lists, s
  <2>3. \A x \in Turns : x \in Lists' \/ Early(x) =>
           turn'[x].engine_req_id = turn[x].engine_req_id
    BY <1>4, <1>10, <2>2
  <2>4. \A x \in Turns : client[x] = "waiting" /\ (turn[x].state = "finished" \/ IsActive(x))
                           => turn'[x].state = "finished" \/ IsActive(x)'
    BY <1>1, <1>5, <1>10 DEF IsActive
  <2> QED BY <1>1, <1>10, <2>1, <2>2, <2>3, <2>4 DEF WorkerStep
<1>11. CASE RetryTurn(t)
  <2> DEFINE a == Append(w.retry, t)
  <2>1. turn' = turn /\ w' = [v EXCEPT !.retry = a]
    BY <1>9, <1>11 DEF RetryTurn, v
  <2>2. a \in Seq(Turns) /\ IsInjective(a) /\ ToSet(a) = ToSet(w.retry) \cup {t}
    BY <1>1, <1>2, <1>3, <1>4, AppendFresh DEF ListsApart
  <2> HIDE DEF a
  <2>3. w'.at = "add" /\ w'.turns = u /\ w'.retry = a
    <3> HIDE DEF w
    <3> QED BY <1>9, <2>1, <2>2 DEF Worker
  <2>4. ListsApart'
    BY <1>1, <1>2, <1>3, <1>4, <2>2, <2>3 DEF ListsApart, s
  <2>5. Lists' \subseteq Lists
    BY <1>1, <1>3, <2>2, <2>3 DEF Lists, s
  <2> QED BY <1>1, <1>2, <2>1, <2>3, <2>4, <2>5 DEF WorkerStep, IsActive
<1>12. CASE FailTurn(t)
  <2> DEFINE e == [turn[t] EXCEPT !.finish_reason = "error"]
             b == v.settled \cup {t}
  <2>1. turn' = [turn EXCEPT ![t] = e] /\ w' = [v EXCEPT !.settled = b]
    BY <1>12 DEF FailTurn, v
  <2>2. e \in TurnRecord
    BY <1>6 DEF TurnRecord
  <2> HIDE DEF e, b
  <2>3. w'.at = "add" /\ w'.turns = u /\ w'.retry = w.retry
    <3> HIDE DEF w
    <3> QED BY <1>9, <2>1 DEF Worker
  <2>4. turn' \in [Turns -> TurnRecord] /\ \A x \in Turns \ {t} : turn'[x] = turn[x]
    BY <1>2, <2>1, <2>2
  <2> QED BY <1>10, <2>3, <2>4
<1>13. ASSUME NEW x \in EngineIds, RunTurn(t, x) PROVE WorkerStep
  <2> DEFINE e == [turn[t] EXCEPT !.state = "running", !.engine_req_id = x]
  <2>1. turn' = [turn EXCEPT ![t] = e] /\ w' = v
    BY <1>2, <1>3, <1>13 DEF RunTurn, v
  <2>2. e \in TurnRecord
    BY <1>6 DEF TurnRecord
  <2> HIDE DEF e
  <2>3. turn' \in [Turns -> TurnRecord] /\ \A y \in Turns \ {t} : turn'[y] = turn[y]
    BY <1>2, <2>1, <2>2
  <2> QED BY <1>9, <1>10, <2>1, <2>3
<1> QED BY <1>7, <1>11, <1>12, <1>13

LEMMA StepEndsSteps ==
    ASSUME ServiceInv, TurnsInv, NEW k, NEW done, StepEnds(k, done)
    PROVE  WorkerStep
<1> DEFINE w == worker
           T == {sessions[x].active :
                   x \in {x \in done \cap DOMAIN sessions : sessions[x].active # Nobody}}
           b == w.settled \cup T
<1>1. /\ w' = [w EXCEPT !.at = "settle", !.settled = b]
      /\ UNCHANGED <<active_turns, pending_chat, client, leave, cv>>
  BY DEF StepEnds, queueVars
<1>2. PICK bad : turn' = [t \in Turns |->
                    IF t \notin T THEN turn[t]
                    ELSE [turn[t] EXCEPT !.finish_reason =
                            IF turn[t].engine_req_id \in bad THEN "error" ELSE "done"]]
  BY DEF StepEnds
<1>3. ListsApart /\ turn \in [Turns -> TurnRecord] /\ w \in Worker
  BY DEF TurnsInv, TurnTypes, ServiceInv, BooksInv, ServiceTypes
<1> HIDE DEF T, b
<1>4. w'.at = "settle" /\ w'.turns = w.turns /\ w'.retry = w.retry
  <2> HIDE DEF w
  <2> QED BY <1>1, <1>3 DEF Worker
<1>5. ASSUME NEW t \in Turns
      PROVE  /\ turn'[t] \in TurnRecord /\ turn'[t].state = turn[t].state
             /\ turn'[t].engine_req_id = turn[t].engine_req_id
  <2> DEFINE r == turn[t]
             why == IF r.engine_req_id \in bad THEN "error" ELSE "done"
             e == [r EXCEPT !.finish_reason = why]
  <2>1. r \in TurnRecord /\ why \in {"error", "done"}
    BY <1>3
  <2>2. turn'[t] = r \/ turn'[t] = e
    BY <1>2
  <2> HIDE DEF r, why
  <2>3. e \in TurnRecord /\ e.state = r.state /\ e.engine_req_id = r.engine_req_id
    BY <2>1 DEF TurnRecord
  <2> HIDE DEF e
  <2>4. /\ turn'[t] \in TurnRecord /\ turn'[t].state = r.state
        /\ turn'[t].engine_req_id = r.engine_req_id
    BY <2>1, <2>2, <2>3
  <2> QED BY <2>4 DEF r
<1>6. turn' \in [Turns -> TurnRecord]
  <2>1. DOMAIN turn' = Turns /\ turn' = [t \in Turns |-> turn'[t]]
    BY <1>2
  <2> QED BY <1>5, <2>1
<1>7. ListsApart' /\ Lists' \subseteq Lists
  BY <1>1, <1>3, <1>4 DEF ListsApart, Lists
<1> QED BY <1>1, <1>4, <1>5, <1>6, <1>7 DEF WorkerStep, IsActive

LEMMA RoundKeepsTurns ==
    ASSUME ServiceInv, TurnsInv, Round
    PROVE  TurnsInv'
<1>1. ASSUME NEW D, Take(D) \/ Settle(D) PROVE TurnsInv'
  BY <1>1, TakeSteps, SettleSteps, WorkerKeeps
<1>2. CASE \/ Stop \/ \E X \in SUBSET Evictable : EvictExpired(X)
           \/ AddCancelled \/ AddRequest \/ StepNone
  BY <1>2, TurnsLeftAlone
<1>3. CASE PickTurn \/ StartTurn
  BY <1>3, PickTurnSteps, StartTurnSteps, WorkerKeeps
<1>4. ASSUME NEW k, NEW done, StepEnds(k, done) PROVE TurnsInv'
  BY <1>4, StepEndsSteps, WorkerKeeps
<1>5. CASE FailRound \/ Die
  BY <1>5, FailSteps, WorkerKeeps
<1> QED BY <1>1, <1>2, <1>3, <1>4, <1>5 DEF Round

LEMMA ClosingKeepsTurns ==
    ASSUME ServiceInv, TurnsInv, Closing
    PROVE  TurnsInv'
<1>1. CASE Close \/ CloseTimesOut
  <2>1. UNCHANGED <<turn, active_turns, leave, cv, pending_chat, client, worker>>
    BY <1>1 DEF Close, CloseTimesOut, queueVars, turnVars
  <2> QED BY <2>1, TurnsStay
<1>2. CASE CloseReturns
  BY <1>2, FailSteps, WorkerKeeps
<1> QED BY <1>1, <1>2 DEF Closing

LEMMA NextKeepsTurns ==
    ASSUME ServiceInv, TurnsInv, [Next]_vars
    PROVE  TurnsInv'
<1>1. CASE UNCHANGED vars
  <2>1. UNCHANGED <<turn, active_turns, leave, cv, pending_chat, client, worker>>
    BY <1>1 DEF vars, queueVars, turnVars
  <2> QED BY <2>1, TurnsStay
<1>2. CASE StepFails
  BY <1>2, TurnsLeftAlone
<1> QED BY <1>1, <1>2, RequestThreadsKeepTurns, TurnThreadsKeepTurns, RoundKeepsTurns,
           ClosingKeepsTurns DEF Next

LEMMA InitTurns == Init => TurnsInv
<1> SUFFICES ASSUME Init PROVE TurnsInv
  OBVIOUS
<1>1. /\ pending_chat = << >> /\ turn = [t \in Turns |-> NewTurn] /\ active_turns = << >>
      /\ worker = At("take") /\ cv = Nobody
      /\ client = [c \in Requests \cup Turns |-> "idle"]
      /\ leave = [t \in Turns |-> [at |-> "idle", engine_req_id |-> NoId,
                                   completed_race |-> FALSE, timed_out |-> FALSE]]
  BY DEF Init
<1>2. worker.at = "take" /\ worker.turns = << >> /\ worker.retry = << >>
  BY <1>1, AtIs DEF Places
<1>3. TurnTypes
  BY <1>1 DEF TurnTypes, NewTurn, TurnRecord, LeaveRecord
<1>4. ListsApart /\ Lists = {}
  BY <1>1, <1>2, ListEmpty DEF ListsApart, Lists
<1>5. WaitersAreUnstarted
  BY <1>1, <1>4 DEF WaitersAreUnstarted, Unstarted, NewTurn
<1>6. WaitersAreActive /\ QueueingIsFree /\ PickedIsOpen
  BY <1>1, <1>2 DEF WaitersAreActive, QueueingIsFree, PickedIsOpen
<1> QED BY <1>3, <1>4, <1>5, <1>6 DEF TurnsInv

-----------------------------------------------------------------------------
(***************************************************************************)
(* After close().                                                          *)
(***************************************************************************)

\* What no step undoes once close() has returned.
Settled ==
    /\ ToSet(tracked') \subseteq ToSet(tracked)
    /\ \A o \in Objects : status'[o] = status[o] \/ status'[o] \in Finished
    /\ \A t \in Turns : client'[t] = "waiting" =>
          \/ turn'[t].state = "finished"
          \/ client[t] = "waiting" /\ turn'[t].state = turn[t].state
    /\ UNCHANGED <<worker, cv, service>>

LEMMA SettledKeeps ==
    ASSUME ServiceInv, ClosedIsDone, service.close = "returned", Settled
    PROVE  ClosedIsDone'
<1> USE DEF Settled
<1>1. tracked \in Seq(Requests) /\ Requests \subseteq Objects
  BY DEF ServiceInv, BooksInv, ServiceTypes, Objects
<1>2. ToSet(tracked) \subseteq Objects
  BY <1>1 DEF ToSet
<1>3. \A r \in ToSet(tracked') : IsFinished(r)'
  BY <1>2 DEF ClosedIsDone, IsFinished
<1>4. \A t \in Turns : client'[t] = "waiting" => turn'[t].state = "finished"
  BY DEF ClosedIsDone
<1>5. Holders' = {}
  <2>1. \A o \in Objects : status[o] \notin {"RUNNING", "PARKED"}
    BY DEF ClosedIsDone, Holders
  <2>2. \A o \in Objects : status'[o] \notin {"RUNNING", "PARKED"}
    BY <2>1 DEF Finished
  <2> QED BY <2>2 DEF Holders
<1> QED BY <1>3, <1>4, <1>5 DEF ClosedIsDone, WorkerAlive

LEMMA RequestThreadsSettled ==
    ASSUME ServiceInv, TurnsInv, ClosedIsDone, service.close = "returned", RequestThreads
    PROVE  Settled
<1>1. service.closed /\ \A r \in ToSet(tracked) : IsFinished(r)
  BY DEF ClosedIsDone
<1>2. tracked \in Seq(Requests) /\ status \in [Objects -> Status]
  BY DEF ServiceInv, BooksInv, ServiceTypes
<1>3. UNCHANGED <<turn, worker, cv, service>>
  BY DEF RequestThreads, Enqueue, Answered, GivesUp, CancelUnknown, CancelFinished,
         CancelPending, CancelMark, CancelInEngine, CancelRecord, turnVars
<1>4. \A t \in Turns : client'[t] = client[t]
  BY RequestThreadsClients
<1>5. ASSUME UNCHANGED <<status, tracked>> PROVE Settled
  BY <1>3, <1>4, <1>5 DEF Settled
<1>6. ASSUME NEW r \in Requests, NEW waits \in BOOLEAN, NEW due \in BOOLEAN,
             Enqueue(r, waits, due)
      PROVE  FALSE
  BY <1>1, <1>6 DEF Enqueue, Admitting
<1>7. ASSUME NEW r \in Requests, Answered(r) \/ GivesUp(r) PROVE Settled
  BY <1>5, <1>7 DEF Answered, GivesUp, engineVars, bookVars
<1>8. ASSUME NEW c \in Canceller, NEW i \in Ids,
             CancelUnknown(c, i) \/ CancelFinished(c, i) \/ CancelMark(c, i)
      PROVE  Settled
  BY <1>5, <1>8 DEF CancelUnknown, CancelFinished, CancelMark, engineVars, bookVars
<1>9. ASSUME NEW c \in Canceller, NEW i \in Ids, CancelPending(c, i) PROVE FALSE
  BY <1>1, <1>9 DEF CancelPending, TrackedAs
<1>10. ASSUME NEW c \in Canceller, CancelInEngine(c) PROVE Settled
  <2>1. tracked' = tracked
    BY <1>10 DEF CancelInEngine, bookVars
  <2>2. \A o \in Objects : status'[o] = status[o] \/ status'[o] = "ABORTED"
    BY <1>10 DEF CancelInEngine
  <2> QED BY <1>3, <1>4, <2>1, <2>2 DEF Settled, Finished
<1>11. ASSUME NEW c \in Canceller, CancelRecord(c) PROVE Settled
  <2>1. status' = status
    BY <1>11 DEF CancelRecord, engineVars
  <2>2. \/ tracked' = tracked
        \/ \E S : tracked' = Without(tracked, S)
    BY <1>11 DEF CancelRecord, RecordAndTrim, bookVars
  <2>3. ToSet(tracked') \subseteq ToSet(tracked)
    BY <1>2, <2>2, WithoutKeeps
  <2> QED BY <1>3, <1>4, <2>1, <2>3 DEF Settled
<1> QED BY <1>6, <1>7, <1>8, <1>9, <1>10, <1>11 DEF RequestThreads

LEMMA TurnThreadsSettled ==
    ASSUME ServiceInv, TurnsInv, ClosedIsDone, service.close = "returned", TurnThreads
    PROVE  Settled
<1>1. PICK t \in Turns :
        \/ \E mode \in Modes : EnqueueChat(t, mode)
        \/ AcceptTurn(t)
        \/ TurnReturns(t)
        \/ \E timed_out \in BOOLEAN : LeaveTurn(t, timed_out)
        \/ LeaveEngine(t)
        \/ LeaveDone(t)
  BY DEF TurnThreads
<1>2. ~service.closed => FALSE
  BY DEF ClosedIsDone
<1>3. cv = Nobody /\ cv # t
  BY BeforeThread DEF ClosedIsDone
<1>4. ThreadStep(t)
  BY <1>1, EnqueueChatSteps, AcceptTurnSteps, TurnReturnsSteps, LeaveTurnSteps,
     LeaveEngineSteps, LeaveDoneSteps
<1>5. \/ TurnReturns(t)
      \/ \E timed_out \in BOOLEAN : LeaveTurn(t, timed_out)
      \/ LeaveEngine(t)
      \/ LeaveDone(t)
  BY <1>1, <1>2, <1>3 DEF EnqueueChat, Admitting, AcceptTurn
<1>6. UNCHANGED <<tracked, worker, cv, service>>
  BY <1>5 DEF TurnReturns, LeaveTurn, LeaveEngine, LeaveDone, bookVars
<1>7. \A o \in Objects : status'[o] = status[o] \/ status'[o] = "ABORTED"
  <2>1. CASE LeaveEngine(t)
    <3> DEFINE x  == leave[t].engine_req_id
               st == IF Live(x) THEN "ABORTED" ELSE status[x]
    <3>1. status' = status \/ status' = [status EXCEPT ![x] = st]
      BY <2>1 DEF LeaveEngine, engineVars
    <3>2. status \in [Objects -> Status]
      BY DEF ServiceInv, BooksInv, ServiceTypes
    <3>3. st = "ABORTED" \/ st = status[x]
      OBVIOUS
    <3> HIDE DEF st, x
    <3> QED BY <3>1, <3>2, <3>3
  <2>2. CASE \/ TurnReturns(t) \/ LeaveDone(t)
             \/ \E timed_out \in BOOLEAN : LeaveTurn(t, timed_out)
    BY <2>2 DEF TurnReturns, LeaveTurn, LeaveDone, engineVars
  <2> QED BY <1>5, <2>1, <2>2
<1>8. \A u \in Turns : client'[u] = "waiting" =>
        \/ turn'[u].state = "finished"
        \/ client[u] = "waiting" /\ turn'[u].state = turn[u].state
  BY <1>3, <1>4 DEF ThreadStep
<1> QED BY <1>6, <1>7, <1>8 DEF Settled, Finished

\* The worker's thread has ended, and close() does not return twice.
LEMMA NobodyElseMoves ==
    ASSUME ClosedIsDone, service.close = "returned"
    PROVE  ~Round /\ ~StepFails /\ ~Closing
<1>1. worker.at \in {"stopped", "dead"}
  BY DEF ClosedIsDone, WorkerAlive
<1>2. ~Round
  <2>1. \A D : ~Take(D) /\ ~Settle(D)
    BY <1>1 DEF Take, Settle
  <2>2. ~Stop /\ \A X : ~EvictExpired(X)
    BY <1>1 DEF Stop, EvictExpired
  <2>3. ~AddCancelled /\ ~AddRequest /\ ~PickTurn /\ ~StartTurn
    BY <1>1 DEF AddCancelled, AddRequest, Adding, PickTurn, StartTurn
  <2>4. ~StepNone /\ \A k, done : ~StepEnds(k, done)
    <3>1. ~Stepping
      BY <1>1 DEF Stepping
    <3> QED BY <3>1, Zenon DEF StepNone, StepEnds
  <2>5. ~FailRound /\ ~Die
    BY <1>1 DEF FailRound, Die
  <2> QED BY <2>1, <2>2, <2>3, <2>4, <2>5 DEF Round
<1>3. ~StepFails
  BY <1>1 DEF StepFails, StepRaises, Stepping
<1>4. ~Closing
  BY DEF Closing, Close, CloseTimesOut, CloseReturns
<1> QED BY <1>2, <1>3, <1>4

\* close() returns with everything ended.
LEMMA CloseReturnsDone ==
    ASSUME ServiceInv, TurnsInv, ClosedIsDone, CloseReturns
    PROVE  ClosedIsDone'
<1> DEFINE sv == service
<1>1. /\ sv.close = "joining" /\ ~WorkerAlive /\ cv = Nobody
      /\ sv' = [sv EXCEPT !.close = "returned"]
      /\ UNCHANGED <<worker, cv, client>>
      /\ FailUnfinished
  BY DEF CloseReturns, CvFree
<1>2. sv \in [closed : BOOLEAN, ready : BOOLEAN, close : {"open", "joining", "returned"}]
      /\ sv.closed
  BY <1>1 DEF ClosedIsDone
<1> HIDE DEF sv
<1>3. sv' \in [closed : BOOLEAN, ready : BOOLEAN, close : {"open", "joining", "returned"}]
      /\ sv'.closed /\ sv'.close = "returned"
  BY <1>1, <1>2
<1>4. \A t \in Turns : client'[t] = "waiting" => turn'[t].state = "finished"
  BY <1>1, FailSteps
<1>5. /\ status' = [o \in Objects |-> IF o \in Failing /\ Live(o) THEN "ERROR" ELSE status[o]]
      /\ \E S : tracked' = Without(tracked, S)
  BY <1>1 DEF FailUnfinished, RecordAndTrim
<1>6. /\ tracked \in Seq(Requests) /\ status \in [Objects -> Status]
      /\ Whereabouts /\ EngineKnows
  BY DEF ServiceInv, BooksInv, BooksPart, ServiceTypes
<1>7. ToSet(tracked') \subseteq ToSet(tracked) /\ ToSet(tracked) \subseteq Requests
  <2>1. ToSet(tracked') \subseteq ToSet(tracked)
    BY <1>5, <1>6, WithoutKeeps
  <2>2. ToSet(tracked) \subseteq Requests
    BY <1>6 DEF ToSet
  <2> QED BY <2>1, <2>2
<1>8. ASSUME NEW r \in ToSet(tracked') PROVE IsFinished(r)'
  <2>1. r \in Requests /\ r \in Objects /\ r \in Failing /\ status[r] # "NEW"
    BY <1>6, <1>7 DEF Objects, Failing, Whereabouts
  <2>2. status[r] \in LiveStatus \/ status[r] \in Finished
    BY <1>6, <2>1 DEF Status
  <2>3. status'[r] = IF Live(r) THEN "ERROR" ELSE status[r]
    BY <1>5, <2>1
  <2> QED BY <2>2, <2>3 DEF Live, IsFinished, Finished
<1>9. Holders' = {}
  <2>1. ASSUME NEW o \in Objects, status'[o] \in {"RUNNING", "PARKED"} PROVE FALSE
    <3>1. status[o] \in {"RUNNING", "PARKED"}
      BY <1>5, <2>1
    <3>2. o \in Failing /\ Live(o)
      BY <1>6, <3>1 DEF EngineKnows, Failing, Live, LiveStatus
    <3>3. status'[o] = "ERROR"
      BY <1>5, <3>2
    <3> QED BY <2>1, <3>3
  <2> QED BY <2>1 DEF Holders
<1> QED BY <1>1, <1>3, <1>4, <1>8, <1>9 DEF ClosedIsDone, WorkerAlive, sv

\* Until then there is little to say.
LEMMA NotYetClosed ==
    ASSUME ClosedIsDone, service.close # "returned", [Next]_vars, ~CloseReturns
    PROVE  ClosedIsDone'
<1> DEFINE sv == service
<1>1. \/ sv' = sv
      \/ sv' = [sv EXCEPT !.ready = FALSE]
      \/ sv' = [closed |-> TRUE, ready |-> FALSE, close |-> "joining"]
      \/ sv' = [sv EXCEPT !.close = "open"]
  <2>1. CASE UNCHANGED vars
    BY <2>1 DEF vars
  <2>2. CASE RequestThreads
    BY <2>2 DEF RequestThreads, Enqueue, Answered, GivesUp, CancelUnknown, CancelFinished,
                CancelPending, CancelMark, CancelInEngine, CancelRecord
  <2>3. CASE TurnThreads
    <3>1. \A t, mode : EnqueueChat(t, mode) => sv' = sv
      BY DEF EnqueueChat
    <3>2. \A t : AcceptTurn(t) \/ TurnReturns(t) => sv' = sv
      BY DEF AcceptTurn, TurnReturns
    <3>3. \A t, timed_out : LeaveTurn(t, timed_out) => sv' = sv
      BY DEF LeaveTurn
    <3>4. \A t : LeaveEngine(t) => sv' = sv
      BY DEF LeaveEngine
    <3>5. \A t : LeaveDone(t) => sv' = sv
      BY DEF LeaveDone
    <3> HIDE DEF sv
    <3> QED BY <2>3, <3>1, <3>2, <3>3, <3>4, <3>5 DEF TurnThreads
  <2>4. CASE Round
    <3>1. \A D : Take(D) \/ Settle(D) => sv' = sv
      BY DEF Take, Settle
    <3>2. \A X : Stop \/ EvictExpired(X) => sv' = sv
      BY DEF Stop, EvictExpired
    <3>3. AddCancelled \/ AddRequest \/ PickTurn \/ StartTurn => sv' = sv
      BY DEF AddCancelled, AddRequest, PickTurn, StartTurn
    <3>4. \A k, done : StepNone \/ StepEnds(k, done) => sv' = sv
      BY DEF StepNone, StepEnds
    <3>5. FailRound => sv' = sv
      BY DEF FailRound, FailUnfinished
    <3>6. Die => sv' = [sv EXCEPT !.ready = FALSE]
      BY DEF Die
    <3> HIDE DEF sv
    <3> QED BY <2>4, <3>1, <3>2, <3>3, <3>4, <3>5, <3>6 DEF Round
  <2>5. CASE StepFails
    BY <2>5 DEF StepFails, StepRaises
  <2>6. CASE Closing
    BY <2>6 DEF Closing, Close, CloseTimesOut
  <2> QED BY <2>1, <2>2, <2>3, <2>4, <2>5, <2>6 DEF Next
<1>2. /\ sv \in [closed : BOOLEAN, ready : BOOLEAN, close : {"open", "joining", "returned"}]
      /\ sv.close # "returned" /\ (sv.close = "joining" => sv.closed)
  BY DEF ClosedIsDone
<1> HIDE DEF sv
<1>3. /\ sv' \in [closed : BOOLEAN, ready : BOOLEAN, close : {"open", "joining", "returned"}]
      /\ sv'.close # "returned" /\ (sv'.close = "joining" => sv'.closed)
  <2>1. CASE sv' = sv
    BY <1>2, <2>1
  <2>2. CASE sv' = [sv EXCEPT !.ready = FALSE]
    BY <1>2, <2>2
  <2>3. CASE sv' = [closed |-> TRUE, ready |-> FALSE, close |-> "joining"]
    BY <2>3
  <2>4. CASE sv' = [sv EXCEPT !.close = "open"]
    BY <1>2, <2>4
  <2> QED BY <1>1, <2>1, <2>2, <2>3, <2>4
<1> QED BY <1>3 DEF ClosedIsDone, sv

LEMMA ClosedStays ==
    ASSUME ServiceInv, TurnsInv, ClosedIsDone, [Next]_vars
    PROVE  ClosedIsDone'
<1>1. CASE CloseReturns
  BY <1>1, CloseReturnsDone
<1>2. CASE service.close # "returned" /\ ~CloseReturns
  BY <1>2, NotYetClosed
<1>3. CASE service.close = "returned"
  <2>1. CASE UNCHANGED vars
    <3>1. Settled
      BY <2>1 DEF Settled, vars, engineVars, bookVars, turnVars
    <3> QED BY <1>3, <3>1, SettledKeeps
  <2>2. CASE RequestThreads \/ TurnThreads
    BY <1>3, <2>2, RequestThreadsSettled, TurnThreadsSettled, SettledKeeps
  <2> QED BY <1>3, <2>1, <2>2, NobodyElseMoves DEF Next
<1> QED BY <1>1, <1>2, <1>3

\* The invariant of the last theorem.
THEOREM CloseInvHolds == Spec => []CloseInv
<1>1. Init => CloseInv
  <2>1. Init => ClosedIsDone
    BY DEF Init, ClosedIsDone
  <2> QED BY <2>1, InitHolds, InitTurns DEF CloseInv
<1>2. CloseInv /\ [Next]_vars => CloseInv'
  <2> SUFFICES ASSUME CloseInv, [Next]_vars PROVE CloseInv'
    OBVIOUS
  <2>1. ServiceInv /\ TurnsInv /\ ClosedIsDone
    BY DEF CloseInv
  <2>2. ServiceInv'
    BY <2>1, StutterHolds, RequestThreadsHold, TurnThreadsHold, RoundHolds,
       StepFailsHolds, ClosingHolds DEF Next
  <2> QED BY <2>1, <2>2, NextKeepsTurns, ClosedStays DEF CloseInv
<1> QED BY <1>1, <1>2, PTL DEF Spec

\* No client thread is left behind by close(): once it has returned, every
\* request that was accepted is finished, every turn whose client still waits
\* has its result, wherever it was on its way between the queue, the worker's
\* hands and the engine, and the engine holds nothing.
THEOREM CloseHolds == Spec => []ClosedLeavesNobody
<1>1. CloseInv => ClosedLeavesNobody
  BY DEF CloseInv, ClosedIsDone, ClosedLeavesNobody
<1> QED BY <1>1, CloseInvHolds, PTL

=============================================================================
