---------------------------- MODULE ListLemmas ----------------------------
(***************************************************************************)
(* What the Python list and deque operations of wkvm/core do to a list     *)
(* without repetitions: popleft, append, remove and concatenation.         *)
(***************************************************************************)
EXTENDS SequencesExt, FiniteSetTheorems, TLAPS

\* Taking the first n elements off a sequence, as n popleft() calls do.
LEMMA DropFront ==
    ASSUME NEW S, NEW s \in Seq(S), NEW n \in 0 .. Len(s)
    PROVE  LET t == SubSeq(s, n + 1, Len(s)) IN
           /\ t \in Seq(S) /\ Len(t) = Len(s) - n
           /\ \A i \in 1 .. Len(t) : t[i] = s[i + n]
  OBVIOUS

\* The first n elements.
LEMMA TakeFront ==
    ASSUME NEW S, NEW s \in Seq(S), NEW n \in 0 .. Len(s)
    PROVE  LET t == SubSeq(s, 1, n) IN
           /\ t \in Seq(S) /\ Len(t) = n
           /\ \A i \in 1 .. n : t[i] = s[i]
  OBVIOUS

\* Two lists one after the other.
LEMMA Joined ==
    ASSUME NEW S, NEW s \in Seq(S), NEW w \in Seq(S)
    PROVE  /\ s \o w \in Seq(S) /\ Len(s \o w) = Len(s) + Len(w)
           /\ \A i \in 1 .. Len(s) : (s \o w)[i] = s[i]
           /\ \A i \in Len(s) + 1 .. Len(s) + Len(w) :
                  (s \o w)[i] = w[i - Len(s)]
  OBVIOUS

\* What is left after n popleft() calls, and what they returned, share nothing.
LEMMA DropFrontInjective ==
    ASSUME NEW S, NEW s \in Seq(S), IsInjective(s), NEW n \in 0 .. Len(s)
    PROVE  LET t == SubSeq(s, n + 1, Len(s)) IN
           /\ IsInjective(t)
           /\ ToSet(t) = ToSet(s) \ {s[i] : i \in 1 .. n}
<1> DEFINE t == SubSeq(s, n + 1, Len(s))
<1>1. /\ t \in Seq(S) /\ Len(t) = Len(s) - n
      /\ \A i \in 1 .. Len(t) : t[i] = s[i + n]
  BY DropFront
<1> HIDE DEF t
<1>2. IsInjective(t)
  <2>1. ASSUME NEW a \in 1 .. Len(t), NEW b \in 1 .. Len(t), t[a] = t[b]
        PROVE  a = b
    <3>1. a + n \in DOMAIN s /\ b + n \in DOMAIN s /\ s[a + n] = s[b + n]
      BY <1>1, <2>1
    <3> QED BY <3>1 DEF IsInjective
  <2> QED BY <1>1, <2>1 DEF IsInjective
<1>3. ASSUME NEW x \in ToSet(t)
      PROVE  x \in ToSet(s) \ {s[i] : i \in 1 .. n}
  <2>1. PICK j \in 1 .. Len(t) : t[j] = x
    BY <1>1 DEF ToSet
  <2>2. j + n \in DOMAIN s /\ s[j + n] = x
    BY <1>1, <2>1
  <2>3. \A i \in 1 .. n : s[i] # x
    BY <2>2 DEF IsInjective
  <2> QED BY <2>2, <2>3 DEF ToSet
<1>4. ASSUME NEW x \in ToSet(s) \ {s[i] : i \in 1 .. n}
      PROVE  x \in ToSet(t)
  <2>1. PICK j \in DOMAIN s : s[j] = x
    BY DEF ToSet
  <2>2. j \in n + 1 .. Len(s)
    BY <2>1, <1>4
  <2>3. j - n \in DOMAIN t /\ t[j - n] = x
    BY <1>1, <2>1, <2>2
  <2> QED BY <2>3 DEF ToSet
<1> QED BY <1>2, <1>3, <1>4 DEF t

\* Appending a value that is not there yet, as _free[name].append(slot) does.
LEMMA AppendFresh ==
    ASSUME NEW S, NEW s \in Seq(S), IsInjective(s), NEW e \in S,
           e \notin ToSet(s)
    PROVE  /\ Append(s, e) \in Seq(S)
           /\ IsInjective(Append(s, e))
           /\ ToSet(Append(s, e)) = ToSet(s) \cup {e}
<1> DEFINE t == Append(s, e)
<1>1. /\ t \in Seq(S) /\ Len(t) = Len(s) + 1 /\ t[Len(s) + 1] = e
      /\ \A i \in 1 .. Len(s) : t[i] = s[i]
  OBVIOUS
<1> HIDE DEF t
<1>2. IsInjective(t)
  BY <1>1 DEF IsInjective, ToSet
<1>3. ToSet(t) = ToSet(s) \cup {e}
  BY <1>1 DEF ToSet
<1> QED BY <1>1, <1>2, <1>3 DEF t

\* list.remove(e) on a list that holds e once.
LEMMA RemoveOne ==
    ASSUME NEW S, NEW s \in Seq(S), IsInjective(s), NEW e \in ToSet(s)
    PROVE  /\ RemoveFirst(s, e) \in Seq(S)
           /\ IsInjective(RemoveFirst(s, e))
           /\ ToSet(RemoveFirst(s, e)) = ToSet(s) \ {e}
           /\ Len(RemoveFirst(s, e)) = Len(s) - 1
<1>1. PICK k \in 1 .. Len(s) : s[k] = e
  BY DEF ToSet
<1> DEFINE I == {i \in 1 .. Len(s) : s[i] = e}
<1>2. I = {k}
  BY <1>1 DEF IsInjective
<1>3. Min(I) = k
  BY <1>2 DEF Min
<1>4. SelectInSeq(s, LAMBDA v : v = e) = k
  BY <1>2, <1>3 DEF SelectInSeq
<1>5. RemoveFirst(s, e) = RemoveAt(s, k)
  BY <1>1, <1>4 DEF RemoveFirst
<1> DEFINE t == RemoveAt(s, k)
<1>6. PICK a \in Seq(S), b \in Seq(S) :
        /\ t = a \o b
        /\ Len(a) = k - 1 /\ \A i \in 1 .. k - 1 : a[i] = s[i]
        /\ Len(b) = Len(s) - k /\ \A i \in 1 .. Len(s) - k : b[i] = s[k + i]
  <2> DEFINE a == SubSeq(s, 1, k - 1)
             b == SubSeq(s, k + 1, Len(s))
  <2>1. a \in Seq(S) /\ Len(a) = k - 1 /\ \A i \in 1 .. k - 1 : a[i] = s[i]
    OBVIOUS
  <2>2. /\ b \in Seq(S) /\ Len(b) = Len(s) - k
        /\ \A i \in 1 .. Len(s) - k : b[i] = s[k + i]
    OBVIOUS
  <2>3. t = a \o b
    BY DEF RemoveAt
  <2> HIDE DEF a, b, t
  <2> QED BY <2>1, <2>2, <2>3
<1>7. /\ t \in Seq(S) /\ Len(t) = Len(s) - 1
      /\ \A i \in 1 .. Len(t) : t[i] = IF i < k THEN s[i] ELSE s[i + 1]
  <2> HIDE DEF t
  <2>1. t \in Seq(S) /\ Len(t) = Len(s) - 1
    BY <1>6
  <2>2. ASSUME NEW i \in 1 .. Len(t)
        PROVE  t[i] = IF i < k THEN s[i] ELSE s[i + 1]
    <3>1. CASE i < k
      BY <1>6, <2>1, <3>1
    <3>2. CASE i >= k
      <4>1. t[i] = b[i - (k - 1)] /\ i - (k - 1) \in 1 .. Len(s) - k
        BY <1>6, <2>1, <3>2, SMTT(30)
      <4> QED BY <1>6, <3>2, <4>1
    <3> QED BY <3>1, <3>2
  <2> QED BY <2>1, <2>2
<1> HIDE DEF t
<1>8. IsInjective(t)
  <2>1. ASSUME NEW i \in 1 .. Len(t), NEW j \in 1 .. Len(t), t[i] = t[j]
        PROVE  i = j
    <3> DEFINE at(x) == IF x < k THEN x ELSE x + 1
    <3>1. at(i) \in DOMAIN s /\ at(j) \in DOMAIN s /\ s[at(i)] = s[at(j)]
      BY <1>7, <2>1
    <3>2. at(i) = at(j)
      BY <3>1 DEF IsInjective
    <3> QED BY <3>2
  <2>2. DOMAIN t = 1 .. Len(t)
    BY <1>7
  <2> QED BY <2>1, <2>2 DEF IsInjective
<1>9. ToSet(t) = ToSet(s) \ {e}
  <2>1. ASSUME NEW x \in ToSet(t) PROVE x \in ToSet(s) \ {e}
    <3>1. PICK i \in 1 .. Len(t) : t[i] = x
      BY <1>7 DEF ToSet
    <3>2. PICK j \in 1 .. Len(s) : s[j] = x /\ j # k
      BY <1>7, <3>1
    <3> QED BY <1>1, <3>2 DEF ToSet, IsInjective
  <2>2. ASSUME NEW x \in ToSet(s), x # e PROVE x \in ToSet(t)
    <3>1. PICK j \in 1 .. Len(s) : s[j] = x
      BY DEF ToSet
    <3>2. CASE j < k
      BY <1>7, <3>1, <3>2 DEF ToSet
    <3>3. CASE j > k
      <4>1. j - 1 \in DOMAIN t /\ t[j - 1] = x
        BY <1>7, <3>1, <3>3
      <4> QED BY <4>1 DEF ToSet
    <3> QED BY <1>1, <2>2, <3>1, <3>2, <3>3
  <2> QED BY <2>1, <2>2
<1> QED BY <1>5, <1>7, <1>8, <1>9 DEF t

\* Moving the first k of one list to the end of another, as admission does.
LEMMA MoveFront ==
    ASSUME NEW S, NEW s \in Seq(S), NEW w \in Seq(S),
           IsInjective(s), IsInjective(w), ToSet(s) \cap ToSet(w) = {},
           NEW k \in 0 .. Len(w)
    PROVE  LET t == s \o SubSeq(w, 1, k) IN
           /\ t \in Seq(S) /\ IsInjective(t)
           /\ ToSet(t) = ToSet(s) \cup {w[i] : i \in 1 .. k}
<1> DEFINE t == s \o SubSeq(w, 1, k)
<1>1. /\ t \in Seq(S) /\ Len(t) = Len(s) + k
      /\ \A i \in 1 .. Len(s) : t[i] = s[i]
      /\ \A i \in 1 .. k : t[Len(s) + i] = w[i]
  OBVIOUS
<1> HIDE DEF t
<1>2. \A i \in 1 .. Len(t) :
        \/ i \in 1 .. Len(s) /\ t[i] = s[i]
        \/ i - Len(s) \in 1 .. k /\ t[i] = w[i - Len(s)]
  <2> TAKE i \in 1 .. Len(t)
  <2>1. CASE i <= Len(s)
    BY <1>1, <2>1
  <2>2. CASE i > Len(s)
    <3>1. i - Len(s) \in 1 .. k /\ Len(s) + (i - Len(s)) = i
      BY <1>1, <2>2
    <3> QED BY <1>1, <3>1
  <2> QED BY <1>1, <2>1, <2>2
<1>3. \A i \in 1 .. Len(s), j \in 1 .. k : s[i] # w[j]
  BY DEF ToSet
<1>4. IsInjective(t)
  <2>1. ASSUME NEW i \in 1 .. Len(t), NEW j \in 1 .. Len(t), t[i] = t[j]
        PROVE  i = j
    <3>1. CASE i \in 1 .. Len(s) /\ j \in 1 .. Len(s)
      BY <1>1, <2>1, <3>1 DEF IsInjective
    <3>2. CASE i - Len(s) \in 1 .. k /\ j - Len(s) \in 1 .. k
      <4> DEFINE p == i - Len(s)
                 q == j - Len(s)
      <4>1. t[Len(s) + p] = w[p] /\ t[Len(s) + q] = w[q]
        BY <1>1, <3>2
      <4>2. Len(s) + p = i /\ Len(s) + q = j
        OBVIOUS
      <4>3. p \in DOMAIN w /\ q \in DOMAIN w /\ w[p] = w[q]
        BY <2>1, <3>2, <4>1, <4>2
      <4>4. p = q
        BY <4>3 DEF IsInjective
      <4> QED BY <4>2, <4>4
    <3> QED BY <1>1, <1>2, <1>3, <2>1, <3>1, <3>2
  <2> QED BY <1>1, <2>1 DEF IsInjective
<1>5. ToSet(t) = ToSet(s) \cup {w[i] : i \in 1 .. k}
  <2>1. ASSUME NEW x \in ToSet(t)
        PROVE  x \in ToSet(s) \cup {w[i] : i \in 1 .. k}
    <3>1. PICK i \in 1 .. Len(t) : t[i] = x
      BY <1>1 DEF ToSet
    <3>2. CASE i \in 1 .. Len(s) /\ t[i] = s[i]
      BY <3>1, <3>2 DEF ToSet
    <3>3. CASE i - Len(s) \in 1 .. k /\ t[i] = w[i - Len(s)]
      BY <3>1, <3>3
    <3> QED BY <1>2, <3>2, <3>3
  <2>2. ASSUME NEW x \in ToSet(s) PROVE x \in ToSet(t)
    BY <1>1, SMTT(30) DEF ToSet
  <2>3. ASSUME NEW i \in 1 .. k PROVE w[i] \in ToSet(t)
    <3>1. Len(s) + i \in DOMAIN t /\ t[Len(s) + i] = w[i]
      BY <1>1
    <3> QED BY <3>1 DEF ToSet
  <2> QED BY <2>1, <2>2, <2>3
<1> QED BY <1>1, <1>4, <1>5 DEF t

-----------------------------------------------------------------------------
\* Every finite set of numbers has a least one: counting the elements up to
\* each ranks them, and the first rank is taken.
LEMMA LeastExists ==
    ASSUME NEW S, IsFiniteSet(S), S \subseteq Int, S # {}
    PROVE  \E m \in S : \A y \in S : m <= y
<1> DEFINE n == Cardinality(S)
           upto(x) == {y \in S : y <= x}
           rank == [x \in S |-> Cardinality(upto(x))]
<1>1. n \in Nat \ {0}
  BY FS_EmptySet, FS_CardinalityType
<1>2. ASSUME NEW x \in S
      PROVE  IsFiniteSet(upto(x)) /\ x \in upto(x) /\ rank[x] \in 1 .. n
  <2>1. upto(x) \in SUBSET S /\ x \in upto(x)
    OBVIOUS
  <2>2. /\ IsFiniteSet(upto(x)) /\ Cardinality(upto(x)) <= n
        /\ Cardinality(upto(x)) \in Nat
    BY <2>1, FS_Subset, FS_CardinalityType
  <2>3. Cardinality(upto(x)) # 0
    BY <2>1, <2>2, FS_EmptySet
  <2>4. rank[x] = Cardinality(upto(x))
    OBVIOUS
  <2> HIDE DEF upto, n, rank
  <2>5. rank[x] \in 1 .. n
    BY <1>1, <2>2, <2>3, <2>4
  <2> QED BY <2>1, <2>2, <2>5
<1>3. ASSUME NEW x \in S, NEW y \in S, x < y PROVE rank[x] # rank[y]
  <2>0. x \in Int /\ y \in Int /\ \A z \in S : z \in Int
    OBVIOUS
  <2>1. /\ \A z \in upto(x) : z \in S /\ z <= y
        /\ y \in upto(y) /\ y \notin upto(x)
    BY <1>3, <2>0
  <2>4. upto(x) \in SUBSET upto(y)
    BY <2>1
  <2>2. IsFiniteSet(upto(y))
    BY <1>2
  <2>3. Cardinality(upto(y)) = Cardinality(upto(x)) => upto(y) = upto(x)
    BY <2>2, <2>4, FS_Subset
  <2> HIDE DEF upto
  <2> QED BY <2>1, <2>3
<1>4. rank \in Injection(S, 1 .. n)
  <2>1. \A x, y \in S : rank[x] = rank[y] => x = y
    <3> TAKE x, y \in S
    <3>1. x < y \/ y < x \/ x = y
      OBVIOUS
    <3> QED BY <1>3, <3>1
  <2> QED BY <1>2, <2>1 DEF Injection, IsInjective
<1>5. rank \in Surjection(S, 1 .. n)
  <2>1. IsFiniteSet(1 .. n) /\ Cardinality(1 .. n) = n
    <3>1. n \in Int /\ 1 \in Int /\ ~(1 > n) /\ n - 1 + 1 = n
      BY <1>1
    <3>2. /\ IsFiniteSet(1 .. n)
          /\ Cardinality(1 .. n) = IF 1 > n THEN 0 ELSE n - 1 + 1
      BY <3>1, FS_Interval
    <3> QED BY <3>1, <3>2
  <2> HIDE DEF rank
  <2> QED BY <1>4, <2>1, FS_Injection
<1>6. PICK m \in S : rank[m] = 1
  <2>1. 1 \in 1 .. n
    BY <1>1
  <2> HIDE DEF rank, n
  <2> QED BY <1>5, <2>1 DEF Surjection
<1>7. ASSUME NEW y \in S PROVE m <= y
  <2>1. SUFFICES ASSUME y < m PROVE FALSE
    OBVIOUS
  <2>2. {y, m} \in SUBSET upto(m)
    BY <2>1
  <2>3. IsFiniteSet(upto(m)) /\ Cardinality(upto(m)) = 1
    BY <1>2, <1>6
  <2>4. \E z : upto(m) = {z}
    BY <2>3, FS_Singleton
  <2> HIDE DEF upto
  <2>5. y = m
    BY <2>2, <2>4
  <2> QED BY <2>1, <2>5
<1> QED BY <1>7

=============================================================================
