--------------------------- MODULE RoutedLemmas ---------------------------
(***************************************************************************)
(* One routed-span layer (RoutedSpans), for any number of slots and any    *)
(* sizes: where its tokens are, what it reads out, how wide that is, and   *)
(* that appending, splitting, folding and materializing keep all of this,  *)
(* whichever slots the leader assigns and whichever spans it keeps.        *)
(*                                                                         *)
(* Recursive functions are reasoned about as sequences of states: there is *)
(* a function with this first value and these steps (StepsExist), and what *)
(* holds of 0 and of each next number holds of all up to n (UpTo).         *)
(***************************************************************************)
EXTENDS RoutedSpans, ListLemmas, SequenceTheorems

-----------------------------------------------------------------------------
(***************************************************************************)
(* Numbers, and functions by recursion.                                    *)
(***************************************************************************)

\* What holds of 0 and goes from k - 1 to k holds up to n.
LEMMA UpTo ==
    ASSUME NEW n \in Nat, NEW G, 0 \in G, \A k \in 1 .. n : k - 1 \in G => k \in G
    PROVE  0 .. n \subseteq G
<1> DEFINE B == (0 .. n) \ G
<1>1. SUFFICES ASSUME B # {} PROVE FALSE
  OBVIOUS
<1>2. IsFiniteSet(B) /\ B \subseteq Int
  <2>1. IsFiniteSet(0 .. n)
    BY FS_Interval
  <2> QED BY <2>1, FS_Subset
<1>3. PICK m \in B : \A y \in B : m <= y
  <2> HIDE DEF B
  <2> QED BY <1>1, <1>2, LeastExists
<1>4. m \in 1 .. n /\ m - 1 \in 0 .. n
  OBVIOUS
<1>5. m - 1 \notin B
  BY <1>3, <1>4
<1> QED BY <1>4, <1>5

\* A function with a first value and a step.
Steps(g, n, V, b, step) ==
    /\ g \in [0 .. n -> V] /\ g[0] = b
    /\ \A i \in 1 .. n : g[i] = step[i][g[i - 1]]

\* There is a function with this first value and these steps.
LEMMA StepsExist ==
    ASSUME NEW n \in Nat, NEW V, NEW b \in V, NEW step, step \in [1 .. n -> [V -> V]]
    PROVE  \E g : Steps(g, n, V, b, step)
<1> DEFINE Ok(k, g) == /\ g \in [0 .. k -> V] /\ g[0] = b
                       /\ \A i \in 1 .. k : g[i] = step[i][g[i - 1]]
           G == {k \in 0 .. n : \E g : Ok(k, g)}
<1>1. 0 \in G
  <2> DEFINE h == [i \in 0 .. 0 |-> b]
  <2>1. Ok(0, h)
    <3>1. h \in [0 .. 0 -> V] /\ h[0] = b
      OBVIOUS
    <3> HIDE DEF h
    <3> QED BY <3>1
  <2> HIDE DEF Ok
  <2> QED BY <2>1
<1>2. ASSUME NEW k \in 1 .. n, k - 1 \in G PROVE k \in G
  <2>1. PICK g : Ok(k - 1, g)
    BY <1>2
  <2> DEFINE h == [i \in 0 .. k |-> IF i < k THEN g[i] ELSE step[k][g[k - 1]]]
  <2>2. \A i \in 0 .. k - 1 : h[i] = g[i] /\ g[i] \in V
    BY <2>1
  <2>3. h[k] = step[k][g[k - 1]] /\ step[k][g[k - 1]] \in V
    BY <2>2
  <2>4. h \in [0 .. k -> V]
    <3>1. ASSUME NEW i \in 0 .. k PROVE h[i] \in V
      <4>1. i \in 0 .. k - 1 \/ i = k
        OBVIOUS
      <4> HIDE DEF h
      <4> QED BY <2>2, <2>3, <4>1
    <3>2. h = [i \in 0 .. k |-> h[i]]
      OBVIOUS
    <3> HIDE DEF h
    <3> QED BY <3>1, <3>2
  <2>5. \A i \in 1 .. k : h[i] = step[i][h[i - 1]]
    <3> TAKE i \in 1 .. k
    <3>1. h[i - 1] = g[i - 1]
      BY <2>2
    <3>2. CASE i < k
      <4>1. g[i] = step[i][g[i - 1]] /\ h[i] = g[i]
        BY <2>1, <2>2, <3>2
      <4> HIDE DEF h, Ok
      <4> QED BY <3>1, <4>1
    <3>3. CASE i = k
      <4> HIDE DEF h, Ok
      <4> QED BY <2>3, <3>1, <3>3
    <3> QED BY <3>2, <3>3
  <2>6. h[0] = b
    BY <2>1, <2>2
  <2>7. Ok(k, h)
    <3> HIDE DEF h
    <3> QED BY <2>4, <2>5, <2>6
  <2> HIDE DEF Ok
  <2> QED BY <2>7
<1>3. n \in G
  <2> HIDE DEF G
  <2>1. 0 .. n \subseteq G
    BY <1>1, <1>2, UpTo
  <2> QED BY <2>1
<1>4. PICK g : Ok(n, g)
  BY <1>3
<1>5. Steps(g, n, V, b, step)
  BY <1>4 DEF Steps
<1> QED BY <1>5

\* max(a, b) of two numbers.
LEMMA MaxOfTwo ==
    ASSUME NEW a \in Int, NEW b \in Int
    PROVE  Max({a, b}) = IF a >= b THEN a ELSE b
  BY DEF Max

\* min(a, b) of two numbers.
LEMMA MinOfTwo ==
    ASSUME NEW a \in Int, NEW b \in Int
    PROVE  Min({a, b}) = IF a <= b THEN a ELSE b
  BY DEF Min

\* The greatest number of a finite set is one of them, and no other is greater.
LEMMA MaxOfSet ==
    ASSUME NEW S, IsFiniteSet(S), S \subseteq Int, S # {}
    PROVE  Max(S) \in S /\ \A y \in S : y <= Max(S)
<1> DEFINE N == {-x : x \in S}
<1>1. IsFiniteSet(N)
  <2> DEFINE f == [x \in S |-> -x]
  <2>1. f \in Surjection(S, N)
    BY DEF Surjection
  <2> HIDE DEF f
  <2> QED BY <2>1, FS_Surjection
<1>2. N \subseteq Int /\ N # {}
  OBVIOUS
<1>3. PICK m \in N : \A y \in N : m <= y
  <2> HIDE DEF N
  <2> QED BY <1>1, <1>2, LeastExists
<1>4. PICK x \in S : m = -x
  OBVIOUS
<1>5. \A y \in S : x >= y
  BY <1>3, <1>4
<1> QED BY <1>5 DEF Max

-----------------------------------------------------------------------------
(***************************************************************************)
(* A set of numbers in their order.                                        *)
(***************************************************************************)

\* Ascending(S) has each number of S once, from the least to the greatest.
LEMMA AscendingIs ==
    ASSUME NEW S, IsFiniteSet(S), S \subseteq Int
    PROVE  /\ Cardinality(S) \in Nat
           /\ Ascending(S) \in [1 .. Cardinality(S) -> S]
           /\ \A x \in S : \E i \in 1 .. Cardinality(S) : Ascending(S)[i] = x
           /\ \A i, j \in 1 .. Cardinality(S) : i < j => Ascending(S)[i] < Ascending(S)[j]
<1> DEFINE n == Cardinality(S)
           upto(x) == {y \in S : y <= x}
           rank == [x \in S |-> Cardinality(upto(x))]
<1>1. n \in Nat
  BY FS_CardinalityType
<1>2. ASSUME NEW x \in S
      PROVE  IsFiniteSet(upto(x)) /\ x \in upto(x) /\ rank[x] \in 1 .. n
  <2>1. upto(x) \in SUBSET S /\ x \in upto(x)
    OBVIOUS
  <2>2. /\ IsFiniteSet(upto(x)) /\ Cardinality(upto(x)) <= n
        /\ Cardinality(upto(x)) \in Nat
    BY <2>1, FS_Subset, FS_CardinalityType
  <2>3. Cardinality(upto(x)) # 0
    BY <2>1, <2>2, FS_EmptySet
  <2>4. rank[x] = Cardinality(upto(x))
    OBVIOUS
  <2> HIDE DEF upto, n, rank
  <2>5. rank[x] \in 1 .. n
    BY <1>1, <2>2, <2>3, <2>4
  <2> QED BY <2>1, <2>2, <2>5
<1>3. ASSUME NEW x \in S, NEW y \in S, x < y PROVE rank[x] < rank[y]
  <2>0. x \in Int /\ y \in Int /\ \A z \in S : z \in Int
    OBVIOUS
  <2>1. /\ \A z \in upto(x) : z \in S /\ z <= y
        /\ y \in upto(y) /\ y \notin upto(x)
    BY <1>3, <2>0
  <2>2. upto(x) \in SUBSET upto(y)
    BY <2>1
  <2>3. IsFiniteSet(upto(y))
    BY <1>2
  <2>4. /\ Cardinality(upto(x)) <= Cardinality(upto(y))
        /\ Cardinality(upto(y)) = Cardinality(upto(x)) => upto(y) = upto(x)
    BY <2>2, <2>3, FS_Subset
  <2>5. Cardinality(upto(x)) # Cardinality(upto(y))
    <3> HIDE DEF upto
    <3> QED BY <2>1, <2>4
  <2>6. rank[x] = Cardinality(upto(x)) /\ rank[y] = Cardinality(upto(y))
    OBVIOUS
  <2>7. rank[x] \in Int /\ rank[y] \in Int
    BY <1>2
  <2> HIDE DEF rank, upto
  <2> QED BY <2>4, <2>5, <2>6, <2>7
<1>4. rank \in Injection(S, 1 .. n)
  <2>1. \A x, y \in S : rank[x] = rank[y] => x = y
    <3> TAKE x, y \in S
    <3>1. x < y \/ y < x \/ x = y
      OBVIOUS
    <3>2. rank[x] \in Int /\ rank[y] \in Int
      BY <1>2
    <3> HIDE DEF rank
    <3> QED BY <1>3, <3>1, <3>2
  <2> QED BY <1>2, <2>1 DEF Injection, IsInjective
<1>5. rank \in Surjection(S, 1 .. n)
  <2>1. IsFiniteSet(1 .. n) /\ Cardinality(1 .. n) = n
    <3>1. n \in Int /\ 1 \in Int /\ (IF 1 > n THEN 0 ELSE n - 1 + 1) = n
      BY <1>1
    <3>2. /\ IsFiniteSet(1 .. n)
          /\ Cardinality(1 .. n) = IF 1 > n THEN 0 ELSE n - 1 + 1
      BY <3>1, FS_Interval
    <3> HIDE DEF n
    <3> QED BY <3>1, <3>2
  <2> HIDE DEF rank
  <2> QED BY <1>4, <2>1, FS_Injection
<1> DEFINE a == Ascending(S)
<1>6. \A i \in 1 .. n : a[i] \in S /\ rank[a[i]] = i
  <2> TAKE i \in 1 .. n
  <2>1. PICK x \in S : rank[x] = i
    <3> HIDE DEF rank, n
    <3> QED BY <1>5 DEF Surjection
  <2>2. \A y \in S : rank[y] = Cardinality({z \in S : z <= y})
    OBVIOUS
  <2>3. a[i] = CHOOSE y \in S : Cardinality({z \in S : z <= y}) = i
    BY DEF Ascending
  <2> HIDE DEF rank, a, n
  <2> QED BY <2>1, <2>2, <2>3
<1>7. a \in [1 .. n -> S]
  BY <1>6 DEF Ascending
<1>8. \A x \in S : \E i \in 1 .. n : a[i] = x
  <2> TAKE x \in S
  <2>1. rank[x] \in 1 .. n
    BY <1>2
  <2> HIDE DEF rank, a, n
  <2>2. a[rank[x]] \in S /\ rank[a[rank[x]]] = rank[x]
    BY <1>6, <2>1
  <2>3. a[rank[x]] = x
    BY <1>4, <2>2 DEF Injection, IsInjective
  <2> QED BY <2>1, <2>3
<1>9. \A i, j \in 1 .. n : i < j => a[i] < a[j]
  <2> HIDE DEF rank, a, n
  <2> TAKE i, j \in 1 .. n
  <2> HAVE i < j
  <2>1. a[i] \in S /\ a[j] \in S /\ rank[a[i]] = i /\ rank[a[j]] = j
    BY <1>6
  <2>2. ~ a[j] < a[i] /\ a[i] # a[j]
    <3>1. a[j] < a[i] => rank[a[j]] < rank[a[i]]
      BY <1>3, <2>1
    <3> QED BY <2>1, <3>1
  <2>3. a[i] \in Int /\ a[j] \in Int
    BY <2>1
  <2> QED BY <2>2, <2>3
<1> QED
  <2> HIDE DEF rank
  <2> QED BY <1>1, <1>7, <1>8, <1>9

\* There is only one such order.
LEMMA AscendingUnique ==
    ASSUME NEW S, IsFiniteSet(S), S \subseteq Int, NEW n \in Nat, NEW a \in [1 .. n -> S],
           \A x \in S : \E i \in 1 .. n : a[i] = x,
           \A i, j \in 1 .. n : i < j => a[i] < a[j]
    PROVE  Cardinality(S) = n /\ Ascending(S) = a
<1>1. \A i, j \in 1 .. n : a[i] \in Int /\ (a[i] <= a[j] <=> i <= j)
  <2> TAKE i, j \in 1 .. n
  <2>1. i < j \/ i = j \/ j < i
    OBVIOUS
  <2>2. a[i] \in Int /\ a[j] \in Int
    OBVIOUS
  <2> QED BY <2>1, <2>2
<1>2. a \in Bijection(1 .. n, S)
  <2>1. \A i, j \in 1 .. n : a[i] = a[j] => i = j
    BY <1>1
  <2> QED BY <2>1 DEF Bijection, Injection, Surjection, IsInjective
<1>3. /\ IsFiniteSet(1 .. n) /\ Cardinality(1 .. n) = n
      /\ \A k \in 1 .. n : IsFiniteSet(1 .. k) /\ Cardinality(1 .. k) = k
  <2>1. \A k \in Nat : (IF 1 > k THEN 0 ELSE k - 1 + 1) = k
    OBVIOUS
  <2>2. ASSUME NEW k \in Nat PROVE IsFiniteSet(1 .. k) /\ Cardinality(1 .. k) = k
    <3>1. 1 \in Int /\ k \in Int
      OBVIOUS
    <3>2. /\ IsFiniteSet(1 .. k)
          /\ Cardinality(1 .. k) = IF 1 > k THEN 0 ELSE k - 1 + 1
      BY <3>1, FS_Interval
    <3> QED BY <2>1, <3>2
  <2> QED BY <2>2
<1>4. Cardinality(S) = n
  <2>1. ExistsBijection(1 .. n, S)
    BY <1>2 DEF ExistsBijection
  <2> QED BY <1>3, <2>1, FS_Bijection
<1>5. ASSUME NEW k \in 1 .. n
      PROVE  Cardinality({y \in S : y <= a[k]}) = k
  <2> DEFINE T == {y \in S : y <= a[k]}
             b == [i \in 1 .. k |-> a[i]]
  <2>1. \A i \in 1 .. k : i \in 1 .. n /\ b[i] = a[i] /\ b[i] \in T
    BY <1>1
  <2>2. \A y \in T : \E i \in 1 .. k : b[i] = y
    <3> TAKE y \in T
    <3>1. PICK i \in 1 .. n : a[i] = y
      OBVIOUS
    <3>2. i \in 1 .. k
      BY <1>1, <3>1
    <3> QED BY <2>1, <3>1, <3>2
  <2>3. \A i, j \in 1 .. k : b[i] = b[j] => i = j
    BY <1>1, <2>1
  <2>4. b \in Bijection(1 .. k, T)
    <3>1. b \in [1 .. k -> T]
      BY <2>1
    <3> HIDE DEF b, T
    <3> QED BY <2>2, <2>3, <3>1 DEF Bijection, Injection, Surjection, IsInjective
  <2>5. ExistsBijection(1 .. k, T)
    BY <2>4 DEF ExistsBijection
  <2> HIDE DEF T
  <2>6. Cardinality(T) = k
    BY <1>3, <2>5, FS_Bijection
  <2> QED BY <2>6 DEF T
<1>6. \A k \in 1 .. n : Ascending(S)[k] = a[k]
  <2> TAKE k \in 1 .. n
  <2>1. Ascending(S)[k] = CHOOSE x \in S : Cardinality({y \in S : y <= x}) = k
    BY <1>4 DEF Ascending
  <2>2. \A x \in S : Cardinality({y \in S : y <= x}) = k => x = a[k]
    <3> TAKE x \in S
    <3>1. PICK i \in 1 .. n : a[i] = x
      OBVIOUS
    <3>2. Cardinality({y \in S : y <= x}) = i
      BY <1>5, <3>1
    <3> QED BY <3>1, <3>2
  <2>3. a[k] \in S /\ Cardinality({y \in S : y <= a[k]}) = k
    BY <1>5
  <2> QED BY <2>1, <2>2, <2>3
<1>7. Ascending(S) = [k \in 1 .. n |-> Ascending(S)[k]]
  <2> DEFINE e(k) == CHOOSE x \in S : Cardinality({y \in S : y <= x}) = k
  <2>1. Ascending(S) = [k \in 1 .. n |-> e(k)]
    BY <1>4 DEF Ascending
  <2> HIDE DEF e
  <2> QED BY <2>1
<1>8. a = [k \in 1 .. n |-> a[k]]
  OBVIOUS
<1> QED BY <1>4, <1>6, <1>7, <1>8

-----------------------------------------------------------------------------
(***************************************************************************)
(* Sequences of positions, and what the tail and the ring are made of.     *)
(***************************************************************************)

\* Positions(a, b) are the positions from a up to, but without, b.
LEMMA PositionsAre ==
    ASSUME NEW a \in Nat, NEW b \in Nat
    PROVE  /\ Positions(a, b) \in Seq(Nat)
           /\ Len(Positions(a, b)) = IF a <= b THEN b - a ELSE 0
           /\ \A i \in 1 .. b - a : Positions(a, b)[i] = a + i - 1
<1>1. ASSUME NEW i \in 1 .. b - a PROVE a + i - 1 \in Nat
  OBVIOUS
<1>2. CASE a <= b
  <2> DEFINE n == b - a
  <2>1. n \in Nat
    BY <1>2
  <2>2. Positions(a, b) = [i \in 1 .. n |-> a + i - 1]
    BY DEF Positions
  <2>3. \A i \in 1 .. n : a + i - 1 \in Nat
    BY <1>1
  <2> HIDE DEF n
  <2>4. Positions(a, b) \in Seq(Nat) /\ Len(Positions(a, b)) = n
    BY <2>1, <2>2, <2>3
  <2> QED BY <1>2, <2>2, <2>4 DEF n
<1>3. CASE b < a
  <2>1. 1 .. b - a = {}
    BY <1>3
  <2>2. Positions(a, b) = << >>
    BY <2>1 DEF Positions
  <2> QED BY <1>3, <2>1, <2>2
<1> QED BY <1>2, <1>3

\* A sequence that counts up from a is Positions(a, b).
LEMMA PositionsEqual ==
    ASSUME NEW a \in Nat, NEW b \in Nat, NEW s \in Seq(Nat), a <= b, Len(s) = b - a,
           \A i \in 1 .. Len(s) : s[i] = a + i - 1
    PROVE  s = Positions(a, b)
<1>1. /\ Positions(a, b) \in Seq(Nat)
      /\ Len(Positions(a, b)) = b - a
      /\ \A i \in 1 .. b - a : Positions(a, b)[i] = a + i - 1
  BY PositionsAre
<1> QED BY <1>1, SeqEqual

\* The positions up to b and those from b on.
LEMMA PositionsJoin ==
    ASSUME NEW a \in Nat, NEW b \in Nat, NEW c \in Nat, a <= b, b <= c
    PROVE  Positions(a, b) \o Positions(b, c) = Positions(a, c)
<1> DEFINE s == Positions(a, b)  t == Positions(b, c)
<1>1. /\ s \in Seq(Nat) /\ Len(s) = b - a
      /\ \A i \in 1 .. b - a : s[i] = a + i - 1
  BY PositionsAre
<1>2. /\ t \in Seq(Nat) /\ Len(t) = c - b
      /\ \A i \in 1 .. c - b : t[i] = b + i - 1
  BY PositionsAre
<1> HIDE DEF s, t
<1> DEFINE u == s \o t
<1>3. /\ u \in Seq(Nat) /\ Len(u) = Len(s) + Len(t)
      /\ \A i \in 1 .. Len(s) + Len(t) :
            u[i] = IF i <= Len(s) THEN s[i] ELSE t[i - Len(s)]
  BY <1>1, <1>2, ConcatProperties
<1> HIDE DEF u
<1>4. Len(u) = c - a /\ \A i \in 1 .. Len(u) : u[i] = a + i - 1
  BY <1>1, <1>2, <1>3
<1>5. u = Positions(a, c)
  <2>1. a <= c
    OBVIOUS
  <2> QED BY <1>3, <1>4, <2>1, PositionsEqual
<1>6. s \o t = Positions(a, c)
  BY <1>5 DEF u
<1> QED BY <1>6 DEF s, t

\* A part of them.
LEMMA PositionsPart ==
    ASSUME NEW a \in Nat, NEW b \in Nat, NEW i \in Nat \ {0}, NEW j \in Nat,
           a <= b, i <= j + 1, j <= b - a
    PROVE  SubSeq(Positions(a, b), i, j) = Positions(a + i - 1, a + j)
<1> DEFINE s == Positions(a, b)  t == SubSeq(s, i, j)
<1>1. /\ s \in Seq(Nat) /\ Len(s) = b - a
      /\ \A k \in 1 .. b - a : s[k] = a + k - 1
  BY PositionsAre
<1> HIDE DEF s
<1>2. \A k \in i .. j : s[k] \in Nat
  BY <1>1
<1>3. /\ t \in Seq(Nat) /\ Len(t) = IF i <= j THEN j - i + 1 ELSE 0
      /\ \A k \in 1 .. j - i + 1 : t[k] = s[i + k - 1]
  BY <1>2, SubSeqProperties
<1> HIDE DEF t
<1>4. Len(t) = (a + j) - (a + i - 1)
  BY <1>3
<1>5. \A k \in 1 .. Len(t) : t[k] = (a + i - 1) + k - 1
  BY <1>1, <1>3, <1>4
<1>6. a + i - 1 \in Nat /\ a + j \in Nat /\ a + i - 1 <= a + j
  OBVIOUS
<1> QED BY <1>3, <1>4, <1>5, <1>6, PositionsEqual DEF t, s

\* Two sequences with the same elements in front of something have the same end.
LEMMA PositionsCut ==
    ASSUME NEW a \in Nat, NEW b \in Nat, NEW s \in Seq(Nat), NEW t \in Seq(Nat),
           s \o t = Positions(a, b), a <= b
    PROVE  /\ Len(s) + Len(t) = b - a
           /\ s = Positions(a, a + Len(s)) /\ t = Positions(a + Len(s), b)
<1> DEFINE p == Positions(a, b)
<1>1. /\ p \in Seq(Nat) /\ Len(p) = b - a
      /\ \A k \in 1 .. b - a : p[k] = a + k - 1
  BY PositionsAre
<1> DEFINE u == s \o t
<1>2. /\ Len(u) = Len(s) + Len(t)
      /\ \A k \in 1 .. Len(s) + Len(t) :
            u[k] = IF k <= Len(s) THEN s[k] ELSE t[k - Len(s)]
  BY ConcatProperties
<1>3. p = u
  OBVIOUS
<1>0. Len(s) \in Nat /\ Len(t) \in Nat
  OBVIOUS
<1> HIDE DEF p, u
<1>4. Len(s) \in Nat /\ Len(t) \in Nat /\ Len(s) + Len(t) = b - a
  BY <1>0, <1>1, <1>2, <1>3
<1>5. \A k \in 1 .. Len(s) : s[k] = a + k - 1
  BY <1>1, <1>2, <1>3, <1>4, SMTT(20)
<1>6. \A k \in 1 .. Len(t) : t[k] = (a + Len(s)) + k - 1
  <2> TAKE k \in 1 .. Len(t)
  <2> DEFINE q == k + Len(s)
  <2>1. q \in 1 .. Len(s) + Len(t) /\ ~ q <= Len(s) /\ q - Len(s) = k
    BY <1>4
  <2> HIDE DEF q
  <2>2. p[q] = t[k] /\ p[q] = a + q - 1
    BY <1>1, <1>2, <1>3, <1>4, <2>1
  <2> QED BY <1>4, <2>2 DEF q
<1>7. s = Positions(a, a + Len(s))
  BY <1>4, <1>5, PositionsEqual
<1>8. t = Positions(a + Len(s), b)
  BY <1>4, <1>6, PositionsEqual
<1> QED BY <1>4, <1>7, <1>8

-----------------------------------------------------------------------------
(***************************************************************************)
(* Sequences one after the other, and sums.                                *)
(***************************************************************************)

\* Lists are joined one after the other.
LEMMA FlattenIs ==
    ASSUME NEW S, NEW ss \in Seq(Seq(S))
    PROVE  \E f \in [0 .. Len(ss) -> Seq(S)] :
              /\ f[0] = << >> /\ FlattenSeq(ss) = f[Len(ss)]
              /\ \A i \in 1 .. Len(ss) : f[i] = f[i - 1] \o ss[i]
<1> DEFINE n == Len(ss)
           step == [i \in 1 .. n |-> [s \in Seq(S) |-> s \o ss[i]]]
<1>1. n \in Nat /\ \A i \in 1 .. n : ss[i] \in Seq(S)
  OBVIOUS
<1>2. PICK g : /\ g \in [0 .. n -> Seq(S)] /\ g[0] = << >>
               /\ \A i \in 1 .. n : g[i] = step[i][g[i - 1]]
  <2>1. step \in [1 .. n -> [Seq(S) -> Seq(S)]]
    BY <1>1
  <2>2. << >> \in Seq(S)
    OBVIOUS
  <2> HIDE DEF step, n
  <2>3. PICK g : Steps(g, n, Seq(S), << >>, step)
    BY <1>1, <2>1, <2>2, StepsExist
  <2> QED BY <2>3 DEF Steps
<1>3. \A i \in 1 .. n : g[i - 1] \in Seq(S) /\ g[i] = g[i - 1] \o ss[i]
  <2> TAKE i \in 1 .. n
  <2>1. g[i - 1] \in Seq(S)
    <3>1. i - 1 \in 0 .. n
      BY <1>1
    <3> HIDE DEF n, step
    <3> QED BY <1>2, <3>1
  <2>2. step[i][g[i - 1]] = g[i - 1] \o ss[i]
    BY <2>1
  <2> HIDE DEF step
  <2> QED BY <1>2, <2>1, <2>2
<1>4. CASE n = 0
  <2>1. FlattenSeq(ss) = << >>
    BY <1>4 DEF FlattenSeq
  <2> HIDE DEF n
  <2>2. FlattenSeq(ss) = g[n]
    BY <1>2, <1>4, <2>1
  <2> QED BY <1>2, <1>3, <2>2 DEF n
<1>5. CASE n # 0
  <2> DEFINE Rec(h) == h = [i \in 1 .. n |-> IF i = 1 THEN ss[i] ELSE h[i - 1] \o ss[i]]
             h0 == [i \in 1 .. n |-> g[i]]
             fl == CHOOSE h : Rec(h)
  <2>1. Rec(h0)
    <3>1. \A i \in 1 .. n : h0[i] = IF i = 1 THEN ss[i] ELSE h0[i - 1] \o ss[i]
      <4> TAKE i \in 1 .. n
      <4>1. CASE i = 1
        <5>1. g[1] = g[0] \o ss[1] /\ g[0] = << >> /\ ss[1] \in Seq(S)
          <6>1. 1 \in 1 .. n /\ 1 - 1 = 0
            BY <4>1
          <6> HIDE DEF n
          <6> QED BY <1>1, <1>2, <1>3, <6>1
        <5>2. g[1] = ss[1]
          BY <5>1
        <5> QED BY <4>1, <5>2
      <4>2. CASE i # 1
        <5>1. i - 1 \in 1 .. n
          BY <4>2
        <5>2. h0[i - 1] = g[i - 1] /\ h0[i] = g[i]
          BY <5>1
        <5> HIDE DEF h0, n
        <5> QED BY <1>3, <4>2, <5>2
      <4> QED BY <4>1, <4>2
    <3>2. h0 = [i \in 1 .. n |-> h0[i]]
      OBVIOUS
    <3> HIDE DEF h0, n
    <3> QED BY <3>1, <3>2, Zenon
  <2>2. Rec(fl)
    <3> HIDE DEF Rec, h0
    <3> QED BY <2>1
  <2>3. FlattenSeq(ss) = fl[n]
    BY <1>5 DEF FlattenSeq
  <2> HIDE DEF fl, h0
  <2>4. \A i \in 1 .. n : fl[i] = IF i = 1 THEN ss[i] ELSE fl[i - 1] \o ss[i]
    <3>1. \A i \in 1 .. n :
             [j \in 1 .. n |-> IF j = 1 THEN ss[j] ELSE fl[j - 1] \o ss[j]][i]
             = IF i = 1 THEN ss[i] ELSE fl[i - 1] \o ss[i]
      OBVIOUS
    <3> HIDE DEF n
    <3> QED BY <2>2, <3>1, Zenon
  <2> HIDE DEF Rec
  <2> DEFINE G == {i \in 0 .. n : i = 0 \/ fl[i] = g[i]}
  <2>5. 0 .. n \subseteq G
    <3>1. 0 \in G
      BY <1>1
    <3>2. ASSUME NEW k \in 1 .. n, k - 1 \in G PROVE k \in G
      <4>1. CASE k = 1
        <5>0. 1 \in 1 .. n /\ 1 - 1 = 0
          BY <4>1
        <5>1. fl[1] = ss[1] /\ g[1] = g[0] \o ss[1] /\ ss[1] \in Seq(S)
          <6> HIDE DEF n
          <6> QED BY <1>1, <1>3, <2>4, <5>0
        <5>2. fl[k] = g[k]
          BY <1>2, <4>1, <5>1
        <5> QED BY <5>2
      <4>2. CASE k # 1
        <5>1. fl[k - 1] = g[k - 1]
          BY <3>2, <4>2
        <5>2. fl[k] = g[k]
          <6> HIDE DEF n
          <6> QED BY <1>3, <2>4, <4>2, <5>1
        <5> QED BY <5>2
      <4> QED BY <4>1, <4>2
    <3> HIDE DEF G
    <3> QED BY <1>1, <3>1, <3>2, UpTo
  <2>6. fl[n] = g[n]
    <3>1. n \in G
      BY <1>1, <2>5
    <3> QED BY <1>5, <3>1
  <2> HIDE DEF n
  <2>7. FlattenSeq(ss) = g[n]
    BY <2>3, <2>6
  <2> QED BY <1>2, <1>3, <2>7 DEF n
<1> QED BY <1>4, <1>5

\* The sum over the slots is made slot after slot.
LEMMA TotalIs ==
    ASSUME NEW count \in [Slots -> Nat], RoutedSlots \in Nat
    PROVE  \E f \in [0 .. RoutedSlots -> Nat] :
              /\ f[0] = 0 /\ TotalOf(count) = f[RoutedSlots]
              /\ \A i \in 1 .. RoutedSlots : f[i] = f[i - 1] + count[i]
<1> DEFINE n == RoutedSlots
           step == [i \in 1 .. n |-> [s \in Nat |-> s + count[i]]]
<1>1. n \in Nat /\ \A i \in 1 .. n : count[i] \in Nat
  BY DEF Slots
<1>2. PICK g : /\ g \in [0 .. n -> Nat] /\ g[0] = 0
               /\ \A i \in 1 .. n : g[i] = step[i][g[i - 1]]
  <2>1. step \in [1 .. n -> [Nat -> Nat]]
    BY <1>1
  <2>2. 0 \in Nat
    OBVIOUS
  <2> HIDE DEF step, n
  <2>3. PICK g : Steps(g, n, Nat, 0, step)
    BY <1>1, <2>1, <2>2, StepsExist
  <2> QED BY <2>3 DEF Steps
<1>3. \A i \in 1 .. n : g[i - 1] \in Nat /\ g[i] = g[i - 1] + count[i]
  <2> TAKE i \in 1 .. n
  <2>1. g[i - 1] \in Nat
    BY <1>2
  <2>2. step[i][g[i - 1]] = g[i - 1] + count[i]
    BY <2>1
  <2> HIDE DEF step
  <2> QED BY <1>2, <2>1, <2>2
<1> DEFINE Rec(h) == h = [i \in 0 .. n |-> IF i = 0 THEN 0 ELSE h[i - 1] + count[i]]
           fl == CHOOSE h : Rec(h)
<1>4. Rec(g)
  <2>1. \A i \in 0 .. n : g[i] = IF i = 0 THEN 0 ELSE g[i - 1] + count[i]
    <3> HIDE DEF n, step
    <3> QED BY <1>1, <1>2, <1>3
  <2>2. g = [i \in 0 .. n |-> g[i]]
    BY <1>2
  <2> HIDE DEF n
  <2> QED BY <2>1, <2>2, Zenon
<1>5. Rec(fl)
  <2> HIDE DEF Rec
  <2> QED BY <1>4
<1>6. TotalOf(count) = fl[n]
  BY DEF TotalOf
<1> HIDE DEF fl
<1>7. \A i \in 0 .. n : fl[i] = IF i = 0 THEN 0 ELSE fl[i - 1] + count[i]
  <2>1. \A i \in 0 .. n :
           [j \in 0 .. n |-> IF j = 0 THEN 0 ELSE fl[j - 1] + count[j]][i]
           = IF i = 0 THEN 0 ELSE fl[i - 1] + count[i]
    OBVIOUS
  <2> HIDE DEF n
  <2> QED BY <1>5, <2>1, Zenon
<1> HIDE DEF Rec, step
<1> DEFINE G == {i \in 0 .. n : fl[i] = g[i]}
<1>8. 0 .. n \subseteq G
  <2>1. 0 \in G
    BY <1>1, <1>2, <1>7
  <2>2. ASSUME NEW k \in 1 .. n, k - 1 \in G PROVE k \in G
    <3>1. fl[k - 1] = g[k - 1] /\ k \in 0 .. n /\ k # 0
      BY <2>2
    <3>2. fl[k] = g[k]
      <4> HIDE DEF n
      <4> QED BY <1>3, <1>7, <3>1
    <3> QED BY <3>1, <3>2
  <2> HIDE DEF G
  <2> QED BY <1>1, <2>1, <2>2, UpTo
<1>9. fl[n] = g[n]
  BY <1>1, <1>8
<1> HIDE DEF n
<1>10. TotalOf(count) = g[n]
  BY <1>6, <1>9
<1> QED BY <1>2, <1>3, <1>10 DEF n

-----------------------------------------------------------------------------
(***************************************************************************)
(* What is true of a layer.                                                *)
(***************************************************************************)

Spans == [kv : Seq(Nat), pos : Seq(Nat)]
Keys  == Nat \X SUBSET Nat

LayerStates ==
    [cumulative : Nat, sink : Seq(Nat), ring : Seq(Nat), pend : Seq(Nat),
     spans : [Slots -> Seq(Spans)], means : [Slots -> SUBSET Nat],
     spanTokens : [Slots -> Nat], bankTokens : Int, activeSlots : Int,
     evicted : Nat, cursor : Nat, dense : Seq(Keys), released : BOOLEAN]

\* A span is a few tokens in a row.
FirstOf(span) == span.kv[1]
LastOf(span)  == span.kv[Len(span.kv)]
IsSpan(span)  ==
    /\ span.pos = span.kv /\ Len(span.kv) \in 1 .. MaxSpan
    /\ span.kv = Positions(FirstOf(span), FirstOf(span) + Len(span.kv))

\* The tokens are where PositionsKept says, but for the length of the tail.
Placed(y) ==
    /\ y.sink = Positions(0, Min({SinkTokens, y.cumulative}))
    /\ y.pend \o y.ring = Positions(Len(y.sink) + y.evicted, y.cumulative)
    /\ y.evicted = 0 \/ SinkTokens + y.evicted <= y.cumulative
    /\ Len(y.ring) <= RingTokens
    /\ UNION Range(y.means) = SinkTokens .. SinkTokens + y.evicted - 1
    /\ \A s, t \in Slots : s # t => y.means[s] \cap y.means[t] = {}
    /\ \A s \in Slots :
         /\ \A i \in DOMAIN y.spans[s] :
              /\ IsSpan(y.spans[s][i])
              /\ ToSet(y.spans[s][i].kv) \subseteq y.means[s]
         /\ \A i, j \in DOMAIN y.spans[s] :
              i < j => LastOf(y.spans[s][i]) < FirstOf(y.spans[s][j])

\* The counters count what is there, and no slot has more than its budget.
Sized(y) ==
    /\ \A s \in Slots :
         /\ y.spanTokens[s] = Len(KV(y.spans[s]))
         /\ y.spanTokens[s] <= Max({SpanBudget, MaxSpan})
    /\ y.bankTokens = TotalOf(y.spanTokens)
    /\ y.activeSlots = Cardinality({s \in Slots : y.spans[s] # << >>})

Sound(y) == y \in LayerStates /\ Placed(y) /\ Sized(y)

\* A layer that no forward is at: its tail is short, its readout is right.
AtRest(y) ==
    /\ Sound(y)
    /\ Len(y.pend) < RouteChunk
    /\ ~y.released => y.dense = Readout(y)

\* What a fold makes of a layer.
FoldBy(y, op) == Trimmed(Folded(y, op, SubSeq(y.pend, 1, RouteChunk)), op.routed)

Cuts == [spans : Seq(Nat \X Nat), routed : Nat, cut : Seq(Nat)]

-----------------------------------------------------------------------------
(***************************************************************************)
(* A layer gets tokens.                                                    *)
(***************************************************************************)

\* What the assumptions say of the sizes.
LEMMA ConstantTypes ==
    /\ NumLayers \in Nat /\ NumLayers >= 1 /\ RingTokens \in Nat /\ RingTokens >= 1
    /\ RoutedSlots \in Nat /\ RoutedSlots >= 1 /\ SpanBudget \in Nat /\ SpanBudget >= 1
    /\ MaxSpan \in Nat /\ MaxSpan >= 1 /\ Stride \in Nat /\ Stride >= 1
    /\ RouteChunk \in Nat /\ RouteChunk >= 1 /\ SinkTokens \in Nat
<1>1. /\ \A n \in {NumLayers, RingTokens, RoutedSlots, SpanBudget, MaxSpan, Stride} :
            n \in Nat \ {0}
      /\ SinkTokens \in Nat
  BY RoutedAssumption, Zenon
<1>2. RouteChunk \in Nat \ {0}
  BY PaddedAssumption, Zenon
<1>3. \A n \in Nat \ {0} : n \in Nat /\ n >= 1
  OBVIOUS
<1> QED BY <1>1, <1>2, <1>3, Zenon

\* Seq facts as needed.
LEMMA JoinEmpty ==
    ASSUME NEW s \in Seq(Nat)
    PROVE  s \o << >> = s /\ << >> \o s = s
  OBVIOUS

\* The fields of a layer.
LEMMA LayerTypes ==
    ASSUME NEW y \in LayerStates
    PROVE  /\ y.cumulative \in Nat /\ y.evicted \in Nat /\ y.cursor \in Nat
           /\ y.sink \in Seq(Nat) /\ y.pend \in Seq(Nat) /\ y.ring \in Seq(Nat)
           /\ y.spans \in [Slots -> Seq(Spans)] /\ y.means \in [Slots -> SUBSET Nat]
           /\ y.spanTokens \in [Slots -> Nat] /\ y.bankTokens \in Int
           /\ y.activeSlots \in Int /\ y.dense \in Seq(Keys) /\ y.released \in BOOLEAN
  BY DEF LayerStates

\* Which positions the sink, the tail and the ring have.
LEMMA PlacedPieces ==
    ASSUME NEW y \in LayerStates, Placed(y)
    PROVE  LET k == Len(y.sink)  b == k + y.evicted + Len(y.pend) IN
           /\ k \in Nat /\ k + y.evicted \in Nat /\ k + y.evicted <= y.cumulative
           /\ y.sink = Positions(0, k)
           /\ k = IF SinkTokens <= y.cumulative THEN SinkTokens ELSE y.cumulative
           /\ Len(y.pend) \in Nat /\ Len(y.ring) \in Nat
           /\ y.cumulative = k + y.evicted + Len(y.pend) + Len(y.ring)
           /\ y.pend = Positions(k + y.evicted, b)
           /\ y.ring = Positions(b, y.cumulative)
           /\ y.cumulative < SinkTokens =>
                k = y.cumulative /\ y.evicted = 0 /\ y.pend = << >> /\ y.ring = << >>
<1> DEFINE st == SinkTokens  c == y.cumulative  e == y.evicted  k == Len(y.sink)
           sink == y.sink  pend == y.pend  ring == y.ring
<1>1. /\ st \in Nat /\ c \in Nat /\ e \in Nat /\ pend \in Seq(Nat) /\ ring \in Seq(Nat)
  BY ConstantTypes, LayerTypes, Zenon
<1>2. /\ sink = Positions(0, Min({st, c})) /\ k = Len(sink)
      /\ pend \o ring = Positions(k + e, c) /\ (e = 0 \/ st + e <= c)
  BY Zenon DEF Placed
<1> HIDE DEF st, c, e, k, sink, pend, ring
<1>3. Min({st, c}) = IF st <= c THEN st ELSE c
  BY <1>1, MinOfTwo, st \in Int, c \in Int
<1>4. k = Min({st, c})
  <2> DEFINE m == Min({st, c})
  <2>0. sink = Positions(0, m)
    BY <1>2
  <2>1. m \in Nat
    BY <1>1, <1>3
  <2> HIDE DEF m
  <2>2. Len(Positions(0, m)) = IF 0 <= m THEN m - 0 ELSE 0
    BY <2>1, PositionsAre
  <2>3. k = m
    BY <1>2, <2>0, <2>1, <2>2
  <2> QED BY <2>3 DEF m
<1>5. k \in Nat /\ k <= c /\ k + e \in Nat /\ k + e <= c /\ k = IF st <= c THEN st ELSE c
  BY <1>1, <1>2, <1>3, <1>4
<1>6. /\ Len(pend) + Len(ring) = c - (k + e)
      /\ pend = Positions(k + e, k + e + Len(pend))
      /\ ring = Positions(k + e + Len(pend), c)
  <2> DEFINE a == k + e
  <2>1. a \in Nat /\ a <= c /\ pend \o ring = Positions(a, c)
    BY <1>2, <1>5
  <2> HIDE DEF a
  <2>2. /\ Len(pend) + Len(ring) = c - a
        /\ pend = Positions(a, a + Len(pend)) /\ ring = Positions(a + Len(pend), c)
    <3>1. /\ a \in Nat /\ c \in Nat /\ a <= c /\ pend \in Seq(Nat) /\ ring \in Seq(Nat)
          /\ pend \o ring = Positions(a, c)
      BY <1>1, <2>1
    <3> QED BY <3>1, PositionsCut, ZenonT(40)
  <2> QED BY <2>2, Zenon DEF a
<1>7. Len(pend) \in Nat /\ Len(ring) \in Nat
  BY <1>1
<1>8. ASSUME c < st PROVE k = c /\ e = 0 /\ pend = << >> /\ ring = << >>
  <2>1. k = c /\ e = 0
    BY <1>1, <1>2, <1>5, <1>8
  <2>2. Len(pend) = 0 /\ Len(ring) = 0
    BY <1>1, <1>6, <1>7, <2>1
  <2> QED BY <1>1, <2>1, <2>2
<1>9. c = k + e + Len(pend) + Len(ring)
  <2> DEFINE p == Len(pend)  r == Len(ring)
  <2>1. p \in Nat /\ r \in Nat /\ p + r = c - (k + e)
    BY <1>6, <1>7
  <2> HIDE DEF p, r
  <2>2. c = k + e + p + r
    BY <1>1, <1>5, <2>1
  <2> QED BY <2>2 DEF p, r
<1>10. sink = Positions(0, k)
  BY <1>2, <1>4
<1> QED BY <1>5, <1>6, <1>7, <1>8, <1>9, <1>10, Zenon DEF st, c, e, k, sink, pend, ring

\* The state but for the dense readout.
SameBank(y, z) ==
    /\ z.spans = y.spans /\ z.means = y.means /\ z.spanTokens = y.spanTokens
    /\ z.bankTokens = y.bankTokens /\ z.activeSlots = y.activeSlots
    /\ z.evicted = y.evicted /\ z.cursor = y.cursor
SameState(y, z) ==
    /\ SameBank(y, z) /\ z.cumulative = y.cumulative
    /\ z.sink = y.sink /\ z.pend = y.pend /\ z.ring = y.ring

AppendedTo(y, z, n) ==
    /\ z \in LayerStates /\ SameBank(y, z) /\ z.dense = y.dense /\ z.released = y.released
    /\ z.cumulative = y.cumulative + n
    /\ z.sink = Positions(0, Len(z.sink))
    /\ Len(z.sink) = IF SinkTokens <= z.cumulative THEN SinkTokens ELSE z.cumulative
    /\ z.pend \o z.ring = Positions(Len(z.sink) + y.evicted, z.cumulative)
    /\ Len(z.ring) <= RingTokens
    /\ Len(z.pend) <= Len(y.pend) + n

\* What _append_state_tokens makes of a placed layer.
LEMMA AppendedIs ==
    ASSUME NEW y \in LayerStates, Placed(y), NEW n \in Nat, NEW toks,
           toks = Positions(y.cumulative, y.cumulative + n)
    PROVE  AppendedTo(y, Appended(y, toks), n)
<1> DEFINE st == SinkTokens  rt == RingTokens
           k == Len(y.sink)  e == y.evicted  c == y.cumulative  p == Len(y.pend)
           r == Len(y.ring)  b == k + e + p
           rk == y.ring \o toks
           take == Min({Max({st - k, 0}), Len(rk)})
           cut == Max({Len(rk) - take - rt, 0})
           sink2 == y.sink \o SubSeq(rk, 1, take)
           pend2 == y.pend \o SubSeq(rk, take + 1, take + cut)
           ring2 == SubSeq(rk, take + cut + 1, Len(rk))
           d == c + n
<1>1. /\ st \in Nat /\ rt \in Nat /\ k \in Nat /\ e \in Nat /\ c \in Nat /\ p \in Nat
      /\ r \in Nat /\ d \in Nat /\ n \in Nat
  <2>1. st \in Nat /\ rt \in Nat /\ e \in Nat /\ c \in Nat
    BY ConstantTypes, LayerTypes, Zenon
  <2>2. k \in Nat /\ p \in Nat /\ r \in Nat
    BY PlacedPieces, Zenon
  <2>3. d \in Nat
    <3> HIDE DEF c
    <3> QED BY <2>1
  <2> QED BY <2>1, <2>2, <2>3, Zenon
<1>2. /\ k + e <= c /\ c = k + e + p + r
      /\ k = IF st <= c THEN st ELSE c
      /\ y.sink = Positions(0, k) /\ y.pend = Positions(k + e, b) /\ y.ring = Positions(b, c)
      /\ c < st => k = c /\ e = 0 /\ y.pend = << >> /\ y.ring = << >>
  BY PlacedPieces, Zenon
<1>3. toks = Positions(c, d) /\ r <= rt
  BY Zenon DEF Placed
<1>4. Appended(y, toks) = [y EXCEPT !.cumulative = c + Len(toks), !.sink = sink2,
                                    !.pend = pend2, !.ring = ring2]
  BY Zenon DEF Appended
<1> HIDE DEF st, rt, k, e, c, p, r
<1>5. b \in Nat /\ b <= c /\ c <= d /\ d = c + n
  BY <1>1, <1>2
<1>6. (p = 0 /\ r = 0) \/ c >= st
  <2>1. ASSUME c < st PROVE p = 0 /\ r = 0
    BY <1>2, <2>1, Len(<< >>) = 0 DEF p, r
  <2> QED BY <1>1, <2>1
<1>7. rk = Positions(b, d)
  <2> HIDE DEF b, d
  <2>1. b \in Nat /\ c \in Nat /\ d \in Nat /\ b <= c /\ c <= d
    BY <1>1, <1>5
  <2>2. Positions(b, c) \o Positions(c, d) = Positions(b, d)
    BY <2>1, PositionsJoin, Zenon
  <2> QED BY <1>2, <1>3, <2>2, Zenon
<1> DEFINE w == d - b
<1>8. rk \in Seq(Nat) /\ Len(rk) = w /\ w \in Nat
  <2> HIDE DEF b, d
  <2>1. b <= d /\ b \in Nat /\ d \in Nat
    BY <1>1, <1>5
  <2>2. /\ Positions(b, d) \in Seq(Nat) /\ Len(Positions(b, d)) = IF b <= d THEN d - b ELSE 0
    BY <2>1, PositionsAre, Zenon
  <2> HIDE DEF rk
  <2> QED BY <1>7, <2>1, <2>2
<1>9. w = r + n /\ b + w = d
  <2> HIDE DEF rk
  <2> QED BY <1>1, <1>2
<1> HIDE DEF b, d, w, rk
<1>10. /\ st - k \in Nat /\ Max({st - k, 0}) = st - k
  <2>1. st - k \in Nat
    BY <1>1, <1>2
  <2> DEFINE g == st - k
  <2> HIDE DEF g
  <2>2. Max({g, 0}) = IF g >= 0 THEN g ELSE 0
    <3>1. g \in Int /\ 0 \in Int
      BY <2>1 DEF g
    <3> QED BY <3>1, MaxOfTwo, Zenon
  <2>3. Max({g, 0}) = g
    BY <2>1, <2>2 DEF g
  <2> QED BY <2>1, <2>3 DEF g
<1>11. take \in Nat /\ take = IF st - k <= w THEN st - k ELSE w
  <2> DEFINE g == st - k
  <2>0. g \in Nat /\ Max({g, 0}) = g
    BY <1>10, Zenon
  <2> HIDE DEF g
  <2>1. take = Min({g, w})
    BY <1>8, <2>0, Zenon DEF g
  <2>2. g \in Int /\ w \in Int
    BY <1>8, <2>0
  <2>3. Min({g, w}) = IF g <= w THEN g ELSE w
    BY <2>2, MinOfTwo, Zenon
  <2>4. take = IF g <= w THEN g ELSE w
    BY <2>1, <2>3, Zenon
  <2> HIDE DEF take
  <2> QED BY <1>8, <2>0, <2>4 DEF g
<1> HIDE DEF take
<1>12. cut \in Nat /\ cut = IF w - take - rt >= 0 THEN w - take - rt ELSE 0
  <2> DEFINE g == w - take - rt
  <2>0. g \in Int
    BY <1>1, <1>8, <1>11
  <2>1. cut = Max({g, 0})
    BY <1>8, Zenon DEF g
  <2> HIDE DEF g
  <2>2. Max({g, 0}) = IF g >= 0 THEN g ELSE 0
    <3>1. g \in Int /\ 0 \in Int
      BY <2>0
    <3> QED BY <3>1, MaxOfTwo, Zenon
  <2> HIDE DEF cut
  <2> QED BY <2>0, <2>1, <2>2 DEF g
<1> HIDE DEF cut
<1>13. /\ take <= w /\ take + cut <= w /\ w - take - cut <= rt /\ cut <= n
       /\ take = 0 \/ (c < st /\ e = 0 /\ p = 0 /\ b = c /\ k = c)
       /\ k + take = IF st <= d THEN st ELSE d
       /\ b + take <= b + take + cut /\ b + take + cut <= d
       /\ k + take + e <= b + take + cut
  <2>1. b = k + e + p
    BY DEF b
  <2>2. take <= w /\ take + cut <= w /\ w - take - cut <= rt
    BY <1>1, <1>8, <1>11, <1>12
  <2>3. cut <= n
    BY <1>1, <1>3, <1>8, <1>9, <1>11, <1>12
  <2>4. take = 0 \/ (c < st /\ e = 0 /\ p = 0 /\ b = c /\ k = c)
    <3>1. CASE c < st
      BY <1>1, <1>2, <1>6, <2>1, <3>1
    <3>2. CASE c >= st
      <4>1. k = st /\ st - k = 0
        BY <1>1, <1>2, <3>2
      <4> QED BY <1>8, <1>11, <4>1
    <3> QED BY <1>1, <3>1, <3>2
  <2>5. k + take = IF st <= d THEN st ELSE d
    <3>1. CASE c < st
      <4>1. k = c /\ p = 0 /\ r = 0 /\ w = n
        BY <1>1, <1>2, <1>6, <1>9, <3>1
      <4> QED BY <1>1, <1>5, <1>11, <3>1, <4>1
    <3>2. CASE c >= st
      <4>1. k = st /\ st - k = 0 /\ take = 0
        BY <1>1, <1>2, <1>8, <1>11, <3>2
      <4> QED BY <1>1, <1>5, <3>2, <4>1
    <3> QED BY <1>1, <3>1, <3>2
  <2>6. b + take <= b + take + cut /\ b + take + cut <= d
    BY <1>1, <1>5, <1>8, <1>9, <1>11, <1>12, <2>2
  <2>7. k + take + e <= b + take + cut
    BY <1>1, <1>11, <1>12, <2>1
  <2> QED BY <2>2, <2>3, <2>4, <2>5, <2>6, <2>7, Zenon
<1> DEFINE i1 == b + take  i2 == b + take + cut  i0 == k + take + e  k2 == k + take
<1>14. i1 \in Nat /\ i2 \in Nat /\ i0 \in Nat /\ k2 \in Nat /\ i1 <= i2 /\ i2 <= d /\ i0 <= i2
  <2>1. i1 \in Nat /\ i2 \in Nat /\ i0 \in Nat /\ k2 \in Nat
    <3>1. b \in Nat /\ take \in Nat /\ cut \in Nat /\ k \in Nat /\ e \in Nat
      BY <1>1, <1>5, <1>11, <1>12, Zenon
    <3> QED BY <3>1
  <2>2. i1 <= i2 /\ i2 <= d /\ i0 <= i2
    BY <1>13, Zenon
  <2> QED BY <2>1, <2>2, Zenon
<1>15. SubSeq(rk, 1, take) = Positions(b, i1)
  <2>1. /\ b \in Nat /\ d \in Nat /\ 1 \in Nat \ {0} /\ take \in Nat /\ b <= d /\ 1 <= take + 1
        /\ take <= d - b
    BY <1>1, <1>5, <1>11, <1>13 DEF w
  <2>2. SubSeq(Positions(b, d), 1, take) = Positions(b + 1 - 1, b + take)
    BY <2>1, PositionsPart, ZenonT(40)
  <2>3. b + 1 - 1 = b
    BY <1>5
  <2> QED BY <1>7, <2>2, <2>3
<1>16. SubSeq(rk, take + 1, take + cut) = Positions(i1, i2)
  <2> DEFINE f == take + 1  g == take + cut
  <2>1. /\ b \in Nat /\ d \in Nat /\ f \in Nat \ {0} /\ g \in Nat /\ b <= d /\ f <= g + 1
        /\ g <= d - b
    BY <1>1, <1>5, <1>11, <1>12, <1>13 DEF w
  <2>3. b + f - 1 = i1 /\ b + g = i2
    BY <1>5, <1>11, <1>12
  <2> HIDE DEF f, g
  <2>2. SubSeq(Positions(b, d), f, g) = Positions(b + f - 1, b + g)
    BY <2>1, PositionsPart, ZenonT(40)
  <2>4. SubSeq(Positions(b, d), f, g) = Positions(i1, i2)
    BY <2>2, <2>3
  <2> QED BY <1>7, <2>4 DEF f, g
<1>17. ring2 = Positions(i2, d)
  <2> DEFINE f == take + cut + 1
  <2>1. /\ b \in Nat /\ d \in Nat /\ f \in Nat \ {0} /\ w \in Nat /\ b <= d /\ f <= w + 1
        /\ w <= d - b
    BY <1>1, <1>5, <1>8, <1>11, <1>12, <1>13 DEF w
  <2>3. b + f - 1 = i2 /\ b + w = d
    BY <1>5, <1>9, <1>11, <1>12
  <2> HIDE DEF f
  <2>2. SubSeq(Positions(b, d), f, w) = Positions(b + f - 1, b + w)
    BY <2>1, PositionsPart, ZenonT(40)
  <2>4. SubSeq(Positions(b, d), f, w) = Positions(i2, d)
    BY <2>2, <2>3
  <2> QED BY <1>7, <1>8, <2>4 DEF f
<1> HIDE DEF i1, i2, i0, k2
<1>18. sink2 = Positions(0, k2)
  <2>1. CASE take = 0
    <3>1. i1 = b /\ k2 = k
      BY <1>1, <1>5, <2>1 DEF i1, k2
    <3>2. SubSeq(rk, 1, take) = << >>
      BY <1>8, <2>1
    <3>3. y.sink \in Seq(Nat)
      BY LayerTypes, Zenon
    <3> QED BY <1>2, <3>1, <3>2, <3>3, JoinEmpty
  <2>2. CASE take # 0
    <3>1. b = c /\ k = c /\ i1 = k2
      BY <1>13, <2>2 DEF i1, k2
    <3>2. 0 \in Nat /\ k \in Nat /\ k2 \in Nat /\ 0 <= k /\ k <= k2
      BY <1>1, <1>11, <1>14 DEF k2
    <3>3. Positions(0, k) \o Positions(k, k2) = Positions(0, k2)
      BY <3>2, PositionsJoin, Zenon
    <3> QED BY <1>2, <1>15, <3>1, <3>3
  <2> QED BY <2>1, <2>2
<1>19. pend2 = Positions(i0, i2)
  <2>1. CASE take = 0
    <3> DEFINE a == k + e
    <3>1. i1 = b /\ i0 = a /\ a \in Nat /\ a <= b /\ b <= i2
      BY <1>1, <1>5, <1>14, <2>1 DEF i1, i0, b
    <3> HIDE DEF a
    <3>2. a \in Nat /\ b \in Nat /\ i2 \in Nat /\ a <= b /\ b <= i2
      BY <1>5, <1>14, <3>1
    <3>3. Positions(a, b) \o Positions(b, i2) = Positions(a, i2)
      BY <3>2, PositionsJoin, Zenon
    <3> QED BY <1>2, <1>16, <3>1, <3>3 DEF a
  <2>2. CASE take # 0
    <3>1. e = 0 /\ b = c /\ k = c /\ c < st
      BY <1>13, <2>2
    <3>2. y.pend = << >> /\ i0 = i1
      BY <1>1, <1>2, <1>11, <3>1 DEF i0, i1
    <3>3. Positions(i1, i2) \in Seq(Nat)
      BY <1>14, PositionsAre, Zenon
    <3> QED BY <1>16, <3>2, <3>3, JoinEmpty
  <2> QED BY <2>1, <2>2
<1> HIDE DEF sink2, pend2, ring2
<1>20. Len(toks) = n /\ toks \in Seq(Nat)
  <2>1. c \in Nat /\ d \in Nat
    BY <1>1
  <2>2. /\ Positions(c, d) \in Seq(Nat)
        /\ Len(Positions(c, d)) = IF c <= d THEN d - c ELSE 0
    BY <2>1, PositionsAre, Zenon
  <2> QED BY <1>1, <1>3, <1>5, <2>2
<1>21. sink2 \in Seq(Nat) /\ Len(sink2) = k2
  <2>1. 0 \in Nat /\ k2 \in Nat
    BY <1>14
  <2>2. sink2 \in Seq(Nat) /\ Len(sink2) = IF 0 <= k2 THEN k2 - 0 ELSE 0
    BY <1>18, <2>1, PositionsAre, Zenon
  <2> QED BY <2>1, <2>2
<1>22. pend2 \in Seq(Nat) /\ Len(pend2) = i2 - i0
  <2>1. pend2 \in Seq(Nat) /\ Len(pend2) = IF i0 <= i2 THEN i2 - i0 ELSE 0
    BY <1>14, <1>19, PositionsAre, Zenon
  <2> QED BY <1>14, <2>1
<1>23. ring2 \in Seq(Nat) /\ Len(ring2) = d - i2
  <2>1. ring2 \in Seq(Nat) /\ Len(ring2) = IF i2 <= d THEN d - i2 ELSE 0
    BY <1>1, <1>14, <1>17, PositionsAre, Zenon
  <2> QED BY <1>1, <1>14, <2>1
<1>24. pend2 \o ring2 = Positions(i0, d)
  <2>1. i0 \in Nat /\ i2 \in Nat /\ d \in Nat /\ i0 <= i2 /\ i2 <= d
    BY <1>1, <1>14
  <2>2. Positions(i0, i2) \o Positions(i2, d) = Positions(i0, d)
    BY <2>1, PositionsJoin, Zenon
  <2> QED BY <1>17, <1>19, <2>2, Zenon
<1>25. Len(ring2) <= rt
  <2>1. d - i2 = w - take - cut
    BY <1>1, <1>5, <1>8, <1>9, <1>11, <1>12 DEF i2
  <2> QED BY <1>1, <1>13, <1>23, <2>1
<1>26. Len(pend2) <= p + n
  <2>1. i2 - i0 = p + cut
    BY <1>1, <1>5, <1>11, <1>12 DEF i2, i0, b
  <2> QED BY <1>1, <1>12, <1>13, <1>22, <2>1
<1>27. c + Len(toks) = d
  BY <1>5, <1>20
<1> DEFINE z == [y EXCEPT !.cumulative = d, !.sink = sink2, !.pend = pend2, !.ring = ring2]
<1>28. Appended(y, toks) = z
  BY <1>4, <1>27, Zenon
<1>29. /\ z \in LayerStates
       /\ z.cumulative = d /\ z.sink = sink2 /\ z.pend = pend2 /\ z.ring = ring2
  BY <1>1, <1>21, <1>22, <1>23 DEF LayerStates
<1>30. SameBank(y, z) /\ z.dense = y.dense /\ z.released = y.released
  BY DEF SameBank, LayerStates
<1> HIDE DEF z
<1>31. d = y.cumulative + n
  BY <1>5 DEF c
<1>32. Len(z.sink) = k2 /\ z.sink = Positions(0, Len(z.sink))
  BY <1>18, <1>21, <1>29
<1>33. k2 = IF SinkTokens <= d THEN SinkTokens ELSE d
  BY <1>13, Zenon DEF k2, st
<1>34. z.pend \o z.ring = Positions(k2 + y.evicted, d)
  BY <1>24, <1>29 DEF i0, k2, e
<1>35. Len(z.ring) <= RingTokens /\ Len(z.pend) <= Len(y.pend) + n
  BY <1>25, <1>26, <1>29 DEF rt, p
<1>36. /\ z.cumulative = y.cumulative + n /\ z.sink = Positions(0, Len(z.sink))
       /\ Len(z.sink) = IF SinkTokens <= z.cumulative THEN SinkTokens ELSE z.cumulative
       /\ z.pend \o z.ring = Positions(Len(z.sink) + y.evicted, z.cumulative)
  BY <1>29, <1>31, <1>32, <1>33, <1>34, Zenon
<1>37. AppendedTo(y, z, n)
  BY <1>29, <1>30, <1>35, <1>36, Zenon DEF AppendedTo
<1> QED BY <1>28, <1>37, Zenon

-----------------------------------------------------------------------------
(***************************************************************************)
(* What depends on which of the fields.                                    *)
(***************************************************************************)

\* The counters do not depend on the readout that is kept.
LEMMA SameSized ==
    ASSUME NEW y, NEW z, SameBank(y, z), Sized(y)
    PROVE  Sized(z)
  BY Zenon DEF SameBank, Sized

\* Nor do the places of the tokens,
LEMMA SamePlaced ==
    ASSUME NEW y, NEW z, SameState(y, z), Placed(y)
    PROVE  Placed(z)
  BY Zenon DEF SameState, SameBank, Placed

\* nor the readout they give,
LEMMA SameReadout ==
    ASSUME NEW y, NEW z, SameState(y, z)
    PROVE  Readout(z) = Readout(y) /\ Width(z) = Width(y)
<1>1. \A s \in Slots : SlotReadout(z, s) = SlotReadout(y, s)
  BY Zenon DEF SameState, SameBank, SlotReadout
<1>2. [s \in Slots |-> SlotReadout(z, s)] = [s \in Slots |-> SlotReadout(y, s)]
  BY <1>1, Zenon
<1> QED BY <1>2, Zenon DEF SameState, SameBank, Readout, Width

\* nor, then, whether the layer is sound.
LEMMA SameSound ==
    ASSUME NEW y, NEW z \in LayerStates, SameState(y, z), Sound(y)
    PROVE  Sound(z)
  BY SameSized, SamePlaced, Zenon DEF Sound, SameState

\* A readout or none in place of another.
WithDense(y, d, r) == [y EXCEPT !.dense = d, !.released = r]

\* Any readout may be put in place of another.
LEMMA DenseIsFree ==
    \A y \in LayerStates : \A d \in Seq(Keys) : \A r \in BOOLEAN :
      /\ WithDense(y, d, r) \in LayerStates /\ SameState(y, WithDense(y, d, r))
      /\ WithDense(y, d, r).dense = d /\ WithDense(y, d, r).released = r
<1> DEFINE K == Keys
<1>1. ASSUME NEW y \in LayerStates, NEW d \in Seq(K), NEW r \in BOOLEAN
      PROVE  LET z == WithDense(y, d, r) IN
             z \in LayerStates /\ SameState(y, z) /\ z.dense = d /\ z.released = r
  BY <1>1 DEF LayerStates, SameState, SameBank, WithDense
<1> QED BY <1>1, Zenon

\* _append_state_tokens keeps a layer sound, and the tail gets n tokens at most.
LEMMA AppendedSound ==
    ASSUME NEW y, Sound(y), NEW n \in Nat, NEW toks,
           toks = Positions(y.cumulative, y.cumulative + n)
    PROVE  LET z == Appended(y, toks) IN
           /\ Sound(z) /\ SameBank(y, z) /\ z.cumulative = y.cumulative + n
           /\ Len(z.pend) <= Len(y.pend) + n
           /\ z.dense = y.dense /\ z.released = y.released
<1>1. y \in LayerStates /\ Placed(y) /\ Sized(y)
  BY Zenon DEF Sound
<1> DEFINE z == Appended(y, toks)  k == Len(z.sink)
<1>2. AppendedTo(y, z, n)
  BY <1>1, AppendedIs, Zenon
<1> HIDE DEF z
<1>3. /\ SameBank(y, z) /\ z.dense = y.dense /\ z.released = y.released
      /\ z \in LayerStates /\ z.cumulative = y.cumulative + n
      /\ z.sink = Positions(0, k)
      /\ k = IF SinkTokens <= z.cumulative THEN SinkTokens ELSE z.cumulative
      /\ z.pend \o z.ring = Positions(k + y.evicted, z.cumulative)
      /\ Len(z.ring) <= RingTokens
      /\ Len(z.pend) <= Len(y.pend) + n
  BY <1>2, Zenon DEF AppendedTo
<1>4. Sized(z)
  BY <1>1, <1>3, SameSized, Zenon
<1>5. Placed(z)
  <2> DEFINE c == y.cumulative  d == z.cumulative  e == y.evicted  st == SinkTokens
  <2>1. st \in Nat /\ c \in Nat /\ d \in Nat /\ e \in Nat
    BY <1>1, <1>3, LayerTypes, ConstantTypes, Zenon
  <2>2. /\ d = c + n /\ k = (IF st <= d THEN st ELSE d) /\ (e = 0 \/ st + e <= c)
    BY <1>1, <1>3, Zenon DEF Placed
  <2>3. z.evicted = e
    BY <1>3, Zenon DEF SameBank
  <2> HIDE DEF c, d, e, st, k
  <2>4. e = 0 \/ st + e <= d
    BY <2>1, <2>2
  <2>5. Min({st, d}) = k
    <3>1. st \in Int /\ d \in Int
      BY <2>1
    <3>2. Min({st, d}) = IF st <= d THEN st ELSE d
      BY <3>1, MinOfTwo, Zenon
    <3> QED BY <2>2, <3>2, Zenon
  <2>6. z.sink = Positions(0, Min({SinkTokens, z.cumulative}))
    BY <1>3, <2>5, Zenon DEF d, st
  <2>7. z.pend \o z.ring = Positions(Len(z.sink) + z.evicted, z.cumulative)
    BY <1>3, <2>3, Zenon DEF k, e
  <2>8. z.evicted = 0 \/ SinkTokens + z.evicted <= z.cumulative
    BY <2>3, <2>4, Zenon DEF d, st
  <2>9. /\ UNION Range(z.means) = SinkTokens .. SinkTokens + z.evicted - 1
        /\ \A s, t \in Slots : s # t => z.means[s] \cap z.means[t] = {}
        /\ \A s \in Slots :
             /\ \A i \in DOMAIN z.spans[s] :
                  /\ IsSpan(z.spans[s][i])
                  /\ ToSet(z.spans[s][i].kv) \subseteq z.means[s]
             /\ \A i, j \in DOMAIN z.spans[s] :
                  i < j => LastOf(z.spans[s][i]) < FirstOf(z.spans[s][j])
    BY <1>1, <1>3, Zenon DEF Placed, SameBank
  <2> QED BY <1>3, <2>6, <2>7, <2>8, <2>9, Zenon DEF Placed
<1> QED BY <1>3, <1>3, <1>4, <1>5, Zenon DEF Sound, z

-----------------------------------------------------------------------------
(***************************************************************************)
(* The tokens of spans.                                                    *)
(***************************************************************************)

\* The positions of a span.
LEMMA SpanIs ==
    ASSUME NEW sp \in Spans, IsSpan(sp)
    PROVE  LET n == Len(sp.kv)  a == FirstOf(sp) IN
           /\ sp.kv \in Seq(Nat) /\ n \in 1 .. MaxSpan /\ a \in Nat /\ n \in Nat
           /\ \A i \in 1 .. n : sp.kv[i] = a + i - 1
           /\ LastOf(sp) = a + n - 1
<1> DEFINE kv == sp.kv  n == Len(kv)  a == kv[1]
<1>1. kv \in Seq(Nat)
  BY DEF Spans
<1>2. n \in 1 .. MaxSpan /\ kv = Positions(a, a + n) /\ MaxSpan \in Nat
  BY ConstantTypes, Zenon DEF IsSpan, FirstOf
<1> HIDE DEF kv
<1>3. n \in Nat /\ n >= 1 /\ 1 \in 1 .. n
  BY <1>1, <1>2
<1>4. a \in Nat
  BY <1>1, <1>3
<1>5. LastOf(sp) = kv[n] /\ FirstOf(sp) = a
  BY Zenon DEF LastOf, FirstOf, kv
<1> HIDE DEF a, n
<1>6. \A i \in 1 .. n : kv[i] = a + i - 1
  <2> DEFINE b == a + n
  <2>1. b \in Nat /\ b - a = n
    BY <1>3, <1>4
  <2> HIDE DEF b
  <2>2. \A i \in 1 .. b - a : Positions(a, b)[i] = a + i - 1
    BY <1>4, <2>1, PositionsAre, Zenon
  <2> QED BY <1>2, <2>1, <2>2, Zenon DEF b
<1>7. kv[n] = a + n - 1
  BY <1>3, <1>6
<1> QED BY <1>1, <1>2, <1>3, <1>4, <1>5, <1>6, <1>7, Zenon DEF n, kv

\* A function on 1 .. n is a list.
LEMMA ListOf ==
    ASSUME NEW S, NEW n \in Nat, NEW h, h = [i \in 1 .. n |-> h[i]], \A i \in 1 .. n : h[i] \in S
    PROVE  h \in Seq(S) /\ Len(h) = n /\ DOMAIN h = 1 .. n
  OBVIOUS

\* The lists of positions that KV joins.
LEMMA KVParts ==
    ASSUME NEW spans \in Seq(Spans)
    PROVE  LET ss == [i \in DOMAIN spans |-> spans[i].kv]  n == Len(spans) IN
           /\ ss \in Seq(Seq(Nat)) /\ Len(ss) = n /\ n \in Nat /\ DOMAIN spans = 1 .. n
           /\ \A i \in 1 .. n : ss[i] = spans[i].kv
<1> DEFINE n == Len(spans)  h == [i \in 1 .. n |-> spans[i].kv]
<1>1. n \in Nat /\ DOMAIN spans = 1 .. n /\ \A i \in 1 .. n : spans[i] \in Spans
  OBVIOUS
<1>2. \A sp \in Spans : sp.kv \in Seq(Nat)
  BY DEF Spans
<1>3. h = [i \in 1 .. n |-> h[i]] /\ \A i \in 1 .. n : h[i] = spans[i].kv
  BY Zenon
<1>4. [i \in DOMAIN spans |-> spans[i].kv] = h
  BY <1>1, Zenon
<1> HIDE DEF n, h
<1>5. \A i \in 1 .. n : h[i] \in Seq(Nat)
  BY <1>1, <1>2, <1>3, Zenon
<1>6. h \in Seq(Seq(Nat)) /\ Len(h) = n
  BY <1>1, <1>3, <1>5, ListOf, Zenon
<1> QED BY <1>1, <1>3, <1>4, <1>6, Zenon DEF n

\* The tokens of spans are a list of positions.
LEMMA KVTypes ==
    ASSUME NEW spans \in Seq(Spans)
    PROVE  KV(spans) \in Seq(Nat) /\ Len(KV(spans)) \in Nat
<1> DEFINE ss == [i \in DOMAIN spans |-> spans[i].kv]
<1>1. ss \in Seq(Seq(Nat)) /\ Len(ss) \in Nat
  <2> DEFINE n == Len(spans)
  <2>1. ss \in Seq(Seq(Nat)) /\ Len(ss) = n /\ n \in Nat
    BY KVParts, Zenon
  <2> QED BY <2>1, Zenon
<1>2. KV(spans) = FlattenSeq(ss)
  BY Zenon DEF KV
<1> HIDE DEF ss
<1>3. PICK f \in [0 .. Len(ss) -> Seq(Nat)] : FlattenSeq(ss) = f[Len(ss)]
  BY <1>1, FlattenIs, Zenon
<1> QED BY <1>1, <1>2, <1>3

\* No spans, no tokens.
LEMMA KVEmpty == KV(<< >>) = << >>
<1> DEFINE ss == [i \in DOMAIN << >> |-> << >>[i].kv]
<1>1. ss = << >>
  OBVIOUS
<1>2. KV(<< >>) = FlattenSeq(ss)
  BY Zenon DEF KV
<1>3. << >> \in Seq(Seq(Nat)) /\ Len(<< >>) = 0
  OBVIOUS
<1>4. PICK f \in [0 .. Len(<< >>) -> Seq(Nat)] :
        f[0] = << >> /\ FlattenSeq(<< >>) = f[Len(<< >>)]
  BY <1>3, FlattenIs, Zenon
<1> QED BY <1>1, <1>2, <1>3, <1>4

\* Spans one after the other.
InOrder(spans) ==
    /\ \A i \in DOMAIN spans : IsSpan(spans[i])
    /\ \A i, j \in DOMAIN spans : i < j => LastOf(spans[i]) < FirstOf(spans[j])

KVUpTo(spans, f, i) ==
    /\ f[i] \in Seq(Nat)
    /\ \A a \in 1 .. Len(f[i]) : \E j \in 1 .. i : f[i][a] \in ToSet(spans[j].kv)
    /\ \A a, b \in 1 .. Len(f[i]) : a < b => f[i][a] < f[i][b]
    /\ \A j \in 1 .. i : ToSet(spans[j].kv) \subseteq ToSet(f[i])

\* What is in two lists that are joined.
LEMMA JoinedSet ==
    ASSUME NEW S, NEW s \in Seq(S), NEW t \in Seq(S)
    PROVE  ToSet(s \o t) = ToSet(s) \cup ToSet(t)
<1> DEFINE m == Len(s)  n == Len(t)  w == s \o t
<1>1. /\ DOMAIN s = 1 .. m /\ DOMAIN t = 1 .. n /\ DOMAIN w = 1 .. m + n /\ m \in Nat /\ n \in Nat
      /\ \A a \in 1 .. m : w[a] = s[a]
      /\ \A a \in m + 1 .. m + n : w[a] = t[a - m]
  OBVIOUS
<1> HIDE DEF m, n, w
<1>2. \A a \in 1 .. m + n : a \in 1 .. m \/ (a \in m + 1 .. m + n /\ a - m \in 1 .. n)
  BY <1>1
<1>3. \A a \in 1 .. m : a \in 1 .. m + n
  BY <1>1
<1>4. \A a \in 1 .. n : a + m \in 1 .. m + n /\ a + m \in m + 1 .. m + n /\ (a + m) - m = a
  BY <1>1
<1>5. \A x \in ToSet(w) : x \in ToSet(s) \cup ToSet(t)
  <2> TAKE x \in ToSet(w)
  <2>1. PICK a \in 1 .. m + n : x = w[a]
    BY <1>1, Zenon DEF ToSet
  <2>2. CASE a \in 1 .. m
    <3>1. x = s[a] /\ a \in DOMAIN s
      BY <1>1, <2>1, <2>2, Zenon
    <3> QED BY <3>1, Zenon DEF ToSet
  <2>3. CASE a \in m + 1 .. m + n /\ a - m \in 1 .. n
    <3>1. x = t[a - m] /\ a - m \in DOMAIN t
      BY <1>1, <2>1, <2>3, Zenon
    <3> QED BY <3>1, Zenon DEF ToSet
  <2> QED BY <1>2, <2>1, <2>2, <2>3, Zenon
<1>6. \A x \in ToSet(s) : x \in ToSet(w)
  <2> TAKE x \in ToSet(s)
  <2>1. PICK a \in 1 .. m : x = s[a]
    BY <1>1, Zenon DEF ToSet
  <2>2. x = w[a] /\ a \in DOMAIN w
    BY <1>1, <1>3, <2>1, Zenon
  <2> QED BY <2>2, Zenon DEF ToSet
<1>7. \A x \in ToSet(t) : x \in ToSet(w)
  <2> TAKE x \in ToSet(t)
  <2>1. PICK a \in 1 .. n : x = t[a]
    BY <1>1, Zenon DEF ToSet
  <2>2. x = w[a + m] /\ a + m \in DOMAIN w
    BY <1>1, <1>4, <2>1
  <2> QED BY <2>2, Zenon DEF ToSet
<1> QED BY <1>5, <1>6, <1>7, Zenon DEF w

\* A token of a span is between its first and its last.
LEMMA SpanBounds ==
    ASSUME NEW sp \in Spans, IsSpan(sp), NEW x \in ToSet(sp.kv)
    PROVE  x \in Nat /\ FirstOf(sp) \in Nat /\ LastOf(sp) \in Nat
           /\ FirstOf(sp) <= x /\ x <= LastOf(sp)
<1> DEFINE n == Len(sp.kv)  a == FirstOf(sp)  kv == sp.kv
<1>1. /\ kv \in Seq(Nat) /\ a \in Nat /\ n \in Nat /\ n \in 1 .. MaxSpan
      /\ \A i \in 1 .. n : kv[i] = a + i - 1
      /\ LastOf(sp) = a + n - 1
  BY SpanIs, Zenon
<1>2. PICK i \in DOMAIN kv : x = kv[i]
  BY Zenon DEF ToSet
<1>3. DOMAIN kv = 1 .. n
  BY <1>1
<1> HIDE DEF n, a, kv
<1>4. x = a + i - 1 /\ i \in 1 .. n
  BY <1>1, <1>2, <1>3
<1>5. n >= 1 /\ MaxSpan \in Nat
  BY <1>1, ConstantTypes
<1>6. x \in Nat /\ a <= x /\ x <= a + n - 1 /\ a + n - 1 \in Nat
  BY <1>1, <1>4, <1>5
<1> QED BY <1>1, <1>6, Zenon DEF a

\* One more span: its tokens come after those of the spans before.
LEMMA KVStep ==
    ASSUME NEW spans \in Seq(Spans), InOrder(spans), NEW f, NEW i \in 1 .. Len(spans),
           KVUpTo(spans, f, i - 1), f[i] = f[i - 1] \o spans[i].kv
    PROVE  KVUpTo(spans, f, i)
<1> DEFINE s == f[i - 1]  sp == spans[i]  t == sp.kv  m == Len(s)  n == Len(t)
<1>0. /\ sp \in Spans /\ IsSpan(sp) /\ i \in DOMAIN spans /\ i \in Nat /\ i - 1 \in Nat
      /\ Len(spans) \in Nat
  BY DEF InOrder
<1>1. s \in Seq(Nat) /\ t \in Seq(Nat) /\ f[i] = s \o t
  BY <1>0, SpanIs, Zenon DEF KVUpTo
<1>2. /\ \A a \in 1 .. m : \E j \in 1 .. i - 1 : s[a] \in ToSet(spans[j].kv)
      /\ \A a, b \in 1 .. m : a < b => s[a] < s[b]
  BY Zenon DEF KVUpTo
<1>3. \A a \in 1 .. n : t[a] = FirstOf(sp) + a - 1 /\ FirstOf(sp) \in Nat
  BY <1>0, SpanIs, Zenon
<1>4. \A a \in 1 .. n : t[a] \in ToSet(t)
  <2>1. DOMAIN t = 1 .. n
    BY <1>1
  <2> QED BY <2>1, Zenon DEF ToSet
<1>5. \A a \in 1 .. m : s[a] \in Nat /\ s[a] < FirstOf(sp)
  <2> TAKE a \in 1 .. m
  <2>1. PICK j \in 1 .. i - 1 : s[a] \in ToSet(spans[j].kv)
    BY <1>2
  <2>2. j \in DOMAIN spans /\ j < i /\ spans[j] \in Spans
    BY <1>0, <2>1
  <2>3. IsSpan(spans[j]) /\ LastOf(spans[j]) < FirstOf(sp)
    BY <1>0, <2>2, Zenon DEF InOrder
  <2>4. s[a] \in Nat /\ LastOf(spans[j]) \in Nat /\ s[a] <= LastOf(spans[j])
    BY <2>1, <2>2, <2>3, SpanBounds, Zenon
  <2>5. FirstOf(sp) \in Nat
    BY <1>0, SpanIs, Zenon
  <2> DEFINE x == s[a]  u == LastOf(spans[j])  v == FirstOf(sp)
  <2>6. x \in Nat /\ u \in Nat /\ v \in Nat /\ x <= u /\ u < v
    BY <2>3, <2>4, <2>5, Zenon
  <2> HIDE DEF x, u, v
  <2>7. x \in Nat /\ x < v
    BY <2>6
  <2> QED BY <2>7, Zenon DEF x, v
<1> HIDE DEF s, t
<1>6. /\ f[i] \in Seq(Nat) /\ Len(f[i]) = m + n /\ m \in Nat /\ n \in Nat
      /\ \A a \in 1 .. m : f[i][a] = s[a]
      /\ \A a \in m + 1 .. m + n : f[i][a] = t[a - m] /\ a - m \in 1 .. n
  BY <1>1, SMTT(20)
<1> HIDE DEF m, n
<1>7. \A a \in 1 .. m + n : a \in 1 .. m \/ a \in m + 1 .. m + n
  BY <1>6
<1>8. \A a \in 1 .. Len(f[i]) : \E j \in 1 .. i : f[i][a] \in ToSet(spans[j].kv)
  <2> TAKE a \in 1 .. Len(f[i])
  <2>1. CASE a \in 1 .. m
    <3>1. PICK j \in 1 .. i - 1 : s[a] \in ToSet(spans[j].kv)
      BY <1>2, <2>1
    <3>2. j \in 1 .. i
      BY <1>0
    <3> QED BY <1>6, <2>1, <3>1, <3>2
  <2>2. CASE a \in m + 1 .. m + n
    <3>1. f[i][a] \in ToSet(spans[i].kv)
      BY <1>4, <1>6, <2>2 DEF t
    <3>2. i \in 1 .. i
      BY <1>0
    <3> QED BY <3>1, <3>2
  <2> QED BY <1>6, <1>7, <2>1, <2>2
<1>9. \A a, b \in 1 .. Len(f[i]) : a < b => f[i][a] < f[i][b]
  <2> TAKE a, b \in 1 .. Len(f[i])
  <2> HAVE a < b
  <2>0. a \in 1 .. m + n /\ b \in 1 .. m + n
    BY <1>6
  <2>1. CASE b \in 1 .. m
    <3>1. a \in 1 .. m
      BY <1>6, <2>0, <2>1
    <3> QED BY <1>2, <1>6, <2>1, <3>1
  <2>2. CASE a \in 1 .. m /\ b \in m + 1 .. m + n
    <3> DEFINE c == b - m  v == FirstOf(sp)
    <3>0. c \in 1 .. n /\ f[i][b] = t[c]
      BY <1>6, <2>2, Zenon
    <3>1. c \in 1 .. n /\ c \in Nat /\ c >= 1 /\ f[i][b] = t[c]
      BY <1>6, <3>0
    <3>2. t[c] = v + c - 1 /\ v \in Nat
      BY <1>3, <3>1
    <3>3. f[i][a] = s[a] /\ s[a] \in Nat /\ s[a] < v
      BY <1>5, <1>6, <2>2
    <3> HIDE DEF c, v
    <3> QED BY <3>1, <3>2, <3>3
  <2>3. CASE a \in m + 1 .. m + n /\ b \in m + 1 .. m + n
    <3> DEFINE c == b - m  v == FirstOf(sp)  e == a - m
    <3>0. c \in 1 .. n /\ f[i][b] = t[c] /\ e \in 1 .. n /\ f[i][a] = t[e]
      BY <1>6, <2>3, Zenon
    <3>3. c \in Nat /\ e \in Nat /\ e < c
      BY <1>6, <2>3
    <3>1. c \in 1 .. n /\ c \in Nat /\ f[i][b] = t[c] /\ e \in 1 .. n /\ e \in Nat
          /\ f[i][a] = t[e] /\ e < c
      BY <3>0, <3>3
    <3>2. t[c] = v + c - 1 /\ v \in Nat /\ t[e] = v + e - 1
      BY <1>3, <3>1
    <3> HIDE DEF c, v, e
    <3> QED BY <3>1, <3>2
  <2> QED BY <1>6, <1>7, <2>0, <2>1, <2>2, <2>3
<1>10. \A j \in 1 .. i : ToSet(spans[j].kv) \subseteq ToSet(f[i])
  <2>1. ToSet(f[i]) = ToSet(s) \cup ToSet(t)
    <3>1. s \in Seq(Nat) /\ t \in Seq(Nat)
      BY <1>1, Zenon
    <3>2. ToSet(s \o t) = ToSet(s) \cup ToSet(t)
      BY <3>1, JoinedSet
    <3> QED BY <1>1, <3>2, Zenon
  <2>2. \A j \in 1 .. i - 1 : ToSet(spans[j].kv) \subseteq ToSet(s)
    BY Zenon DEF KVUpTo, s
  <2>3. \A j \in 1 .. i : j \in 1 .. i - 1 \/ j = i
    BY <1>0
  <2>4. t = spans[i].kv
    BY DEF t
  <2> QED BY <2>1, <2>2, <2>3, <2>4, Zenon
<1> QED BY <1>6, <1>8, <1>9, <1>10, Zenon DEF KVUpTo

\* The tokens of spans in order are in order, and are those of the spans.
LEMMA KVInOrder ==
    ASSUME NEW spans \in Seq(Spans), InOrder(spans)
    PROVE  /\ KV(spans) \in Seq(Nat) /\ Len(KV(spans)) \in Nat
           /\ \A a \in 1 .. Len(KV(spans)) :
                \E j \in DOMAIN spans : KV(spans)[a] \in ToSet(spans[j].kv)
           /\ \A a, b \in 1 .. Len(KV(spans)) : a < b => KV(spans)[a] < KV(spans)[b]
           /\ \A x : x \in ToSet(KV(spans)) <=> \E j \in DOMAIN spans : x \in ToSet(spans[j].kv)
<1> DEFINE ss == [i \in DOMAIN spans |-> spans[i].kv]  n == Len(spans)
<1>1. /\ ss \in Seq(Seq(Nat)) /\ Len(ss) = n /\ n \in Nat /\ DOMAIN spans = 1 .. n
      /\ \A i \in 1 .. n : ss[i] = spans[i].kv
  BY KVParts, Zenon
<1>2. KV(spans) = FlattenSeq(ss)
  BY Zenon DEF KV
<1> HIDE DEF ss
<1>3. PICK f \in [0 .. Len(ss) -> Seq(Nat)] :
         /\ f[0] = << >> /\ FlattenSeq(ss) = f[Len(ss)]
         /\ \A i \in 1 .. Len(ss) : f[i] = f[i - 1] \o ss[i]
  BY <1>1, FlattenIs, Zenon
<1> DEFINE G == {i \in 0 .. n : KVUpTo(spans, f, i)}
<1>4. 0 \in G
  <2>1. f[0] = << >> /\ 0 \in 0 .. n
    BY <1>1, <1>3
  <2> QED BY <2>1 DEF KVUpTo
<1>5. ASSUME NEW k \in 1 .. n, k - 1 \in G PROVE k \in G
  <2>1. KVUpTo(spans, f, k - 1) /\ k \in 1 .. Len(spans) /\ k \in 0 .. n
    BY <1>1, <1>5
  <2>2. f[k] = f[k - 1] \o spans[k].kv
    BY <1>1, <1>3
  <2>3. KVUpTo(spans, f, k)
    BY <2>1, <2>2, KVStep, Zenon
  <2> QED BY <2>1, <2>3
<1>6. 0 .. n \subseteq G
  <2> HIDE DEF G, n
  <2>1. \A k \in 1 .. n : k - 1 \in G => k \in G
    BY <1>5
  <2> QED BY <1>1, <1>4, <2>1, UpTo, Zenon
<1>7. n \in 0 .. n
  BY <1>1
<1>9. Len(KV(spans)) \in Nat
  BY KVTypes, Zenon
<1>8. KVUpTo(spans, f, n) /\ KV(spans) = f[n]
  BY <1>1, <1>2, <1>3, <1>6, <1>7
<1> HIDE DEF n
<1>10. DOMAIN KV(spans) = 1 .. Len(KV(spans))
  <2>1. KV(spans) \in Seq(Nat)
    BY KVTypes, Zenon
  <2> HIDE DEF n
  <2> QED BY <2>1
<1>11. /\ KV(spans) \in Seq(Nat)
       /\ \A a \in 1 .. Len(KV(spans)) :
            \E j \in DOMAIN spans : KV(spans)[a] \in ToSet(spans[j].kv)
       /\ \A a, b \in 1 .. Len(KV(spans)) : a < b => KV(spans)[a] < KV(spans)[b]
       /\ \A j \in DOMAIN spans : ToSet(spans[j].kv) \subseteq ToSet(KV(spans))
  BY <1>1, <1>8, Zenon DEF KVUpTo
<1>12. \A x \in ToSet(KV(spans)) : \E j \in DOMAIN spans : x \in ToSet(spans[j].kv)
  BY <1>10, <1>11, Zenon DEF ToSet
<1> QED BY <1>9, <1>11, <1>12, Zenon

-----------------------------------------------------------------------------
(***************************************************************************)
(* The width of a readout.                                                 *)
(***************************************************************************)

\* Tokens(kv) has a key for each position.
LEMMA TokensAre ==
    ASSUME NEW kv \in Seq(Nat)
    PROVE  /\ Tokens(kv) \in Seq(Keys) /\ Len(Tokens(kv)) = Len(kv) /\ Len(kv) \in Nat
           /\ \A i \in 1 .. Len(kv) : Tokens(kv)[i] = Token(kv[i])
<1> DEFINE n == Len(kv)  h == [i \in 1 .. n |-> Token(kv[i])]
<1>1. n \in Nat /\ \A i \in 1 .. n : kv[i] \in Nat
  OBVIOUS
<1>2. \A p \in Nat : Token(p) \in Keys
  BY DEF Token, Keys
<1>3. h = [i \in 1 .. n |-> h[i]] /\ (\A i \in 1 .. n : h[i] = Token(kv[i])) /\ Tokens(kv) = h
  BY Zenon DEF Tokens
<1> HIDE DEF n, h
<1>4. \A i \in 1 .. n : h[i] \in Keys
  BY <1>1, <1>2, <1>3, Zenon
<1>5. h \in Seq(Keys) /\ Len(h) = n
  <2>1. n \in Nat /\ h = [i \in 1 .. n |-> h[i]] /\ \A i \in 1 .. n : h[i] \in Keys
    BY <1>1, <1>3, <1>4, Zenon
  <2> QED BY <2>1, ListOf, Zenon
<1> QED BY <1>1, <1>3, <1>5, Zenon DEF n

\* A slot in use reads out as its mean and its tokens, another as nothing.
LEMMA SlotReadoutIs ==
    ASSUME NEW y, Sound(y), NEW s \in Slots
    PROVE  /\ SlotReadout(y, s) \in Seq(Keys) /\ y.spanTokens[s] \in Nat
           /\ y.spans[s] = << >> =>
                SlotReadout(y, s) = << >> /\ Len(SlotReadout(y, s)) = 0 /\ y.spanTokens[s] = 0
           /\ y.spans[s] # << >> => Len(SlotReadout(y, s)) = 1 + y.spanTokens[s]
<1> DEFINE sp == y.spans[s]  c == y.spanTokens[s]  t == Tokens(KV(sp))  m == y.means[s]
<1>1. y \in LayerStates /\ Sized(y)
  BY Zenon DEF Sound
<1>2. y.spans \in [Slots -> Seq(Spans)] /\ y.means \in [Slots -> SUBSET Nat]
  BY <1>1, LayerTypes, Zenon
<1>3. sp \in Seq(Spans) /\ m \in SUBSET Nat /\ s \in Nat
  <2>1. s \in Nat
    BY ConstantTypes DEF Slots
  <2> QED BY <1>2, <2>1, Zenon
<1>4. c = Len(KV(sp))
  BY <1>1, Zenon DEF Sized
<1>5. SlotReadout(y, s) = IF sp = << >> THEN << >> ELSE << <<s, m>> >> \o t
  BY Zenon DEF SlotReadout
<1> HIDE DEF sp, c, m
<1>6. KV(sp) \in Seq(Nat) /\ c \in Nat
  BY <1>3, <1>4, KVTypes, Zenon
<1>7. t \in Seq(Keys) /\ Len(t) = c
  BY <1>4, <1>6, TokensAre, Zenon
<1>8. <<s, m>> \in Keys
  BY <1>3 DEF Keys
<1> HIDE DEF t
<1>9. CASE sp = << >>
  <2>1. c = 0
    BY <1>4, <1>9, KVEmpty
  <2>2. SlotReadout(y, s) = << >>
    BY <1>5, <1>9
  <2>3. << >> \in Seq(Keys) /\ Len(<< >>) = 0
    OBVIOUS
  <2> QED BY <1>6, <1>9, <2>1, <2>2, <2>3, Zenon DEF sp, c
<1>10. CASE sp # << >>
  <2>1. SlotReadout(y, s) = << <<s, m>> >> \o t
    BY <1>5, <1>10
  <2> DEFINE k == <<s, m>>
  <2>2. k \in Keys
    BY <1>8
  <2> HIDE DEF k
  <2>3. <<k>> \o t \in Seq(Keys) /\ Len(<<k>> \o t) = 1 + c
    BY <1>7, <2>2
  <2> QED BY <1>6, <1>10, <2>1, <2>3, Zenon DEF sp, c, k
<1> QED BY <1>9, <1>10

\* The slots in use among the first.
UsedUpTo(y, i) == {s \in 1 .. i : y.spans[s] # << >>}

\* Counting the slots in use up to i.
LEMMA UsedAre ==
    ASSUME NEW y, NEW i \in Nat, i >= 1
    PROVE  /\ IsFiniteSet(UsedUpTo(y, i)) /\ Cardinality(UsedUpTo(y, i)) \in Nat
           /\ IsFiniteSet(UsedUpTo(y, i - 1)) /\ Cardinality(UsedUpTo(y, i - 1)) \in Nat
           /\ Cardinality(UsedUpTo(y, i)) = Cardinality(UsedUpTo(y, i - 1))
                                             + IF y.spans[i] = << >> THEN 0 ELSE 1
           /\ Cardinality(UsedUpTo(y, i)) <= i
<1> DEFINE A == UsedUpTo(y, i)  B == UsedUpTo(y, i - 1)
<1>1. /\ A \subseteq 1 .. i /\ B \subseteq 1 .. i /\ i \notin B
      /\ y.spans[i] = << >> => A = B
      /\ y.spans[i] # << >> => A = B \cup {i}
  BY DEF UsedUpTo
<1>2. IsFiniteSet(1 .. i) /\ Cardinality(1 .. i) = i
  BY FS_Interval
<1>3. IsFiniteSet(A) /\ IsFiniteSet(B) /\ Cardinality(A) <= i
  BY <1>1, <1>2, FS_Subset, Zenon
<1>4. Cardinality(A) \in Nat /\ Cardinality(B) \in Nat
  BY <1>3, FS_CardinalityType, Zenon
<1> HIDE DEF A, B
<1>5. CASE y.spans[i] = << >>
  BY <1>1, <1>3, <1>4, <1>5 DEF A, B
<1>6. CASE y.spans[i] # << >>
  <2>1. Cardinality(B \cup {i}) = Cardinality(B) + 1
    BY <1>1, <1>3, FS_AddElement
  <2>2. Cardinality(A) = Cardinality(B) + 1
    BY <1>1, <1>6, <2>1
  <2> QED BY <1>3, <1>4, <1>6, <2>2 DEF A, B
<1> QED BY <1>5, <1>6

SlotReadouts(y) == [s \in Slots |-> SlotReadout(y, s)]

\* The readouts of all slots.
LEMMA SlotReadoutsAre ==
    ASSUME NEW y, Sound(y)
    PROVE  /\ SlotReadouts(y) \in Seq(Seq(Keys)) /\ Len(SlotReadouts(y)) = RoutedSlots
           /\ \A s \in Slots : SlotReadouts(y)[s] = SlotReadout(y, s)
<1> DEFINE h == SlotReadouts(y)  n == RoutedSlots
<1>1. n \in Nat /\ Slots = 1 .. n
  BY ConstantTypes, Zenon DEF Slots
<1>2. h = [s \in Slots |-> h[s]] /\ \A s \in Slots : h[s] = SlotReadout(y, s)
  BY Zenon DEF SlotReadouts
<1> HIDE DEF h, n
<1>3. \A s \in Slots : h[s] \in Seq(Keys)
  BY <1>2, SlotReadoutIs, Zenon
<1>4. h = [s \in 1 .. n |-> h[s]] /\ \A s \in 1 .. n : h[s] \in Seq(Keys)
  BY <1>1, <1>2, <1>3, Zenon
<1>5. h \in Seq(Seq(Keys)) /\ Len(h) = n
  BY <1>1, <1>4, ListOf, Zenon
<1> QED BY <1>2, <1>5, Zenon DEF h, n

BankIs(y, f, g, i) ==
    Len(f[i]) \in Nat /\ Len(f[i]) = g[i] + Cardinality(UsedUpTo(y, i))

\* The slots read out as the counters say: a mean for each slot in use, and a key
\* for each token.
LEMMA BankReadout ==
    ASSUME NEW y, Sound(y)
    PROVE  /\ FlattenSeq(SlotReadouts(y)) \in Seq(Keys)
           /\ Len(FlattenSeq(SlotReadouts(y))) = y.bankTokens + y.activeSlots
           /\ y.activeSlots \in Nat /\ y.activeSlots <= RoutedSlots /\ y.bankTokens \in Nat
<1> DEFINE h == SlotReadouts(y)  n == RoutedSlots  count == y.spanTokens
<1>1. n \in Nat /\ n >= 1 /\ Slots = 1 .. n
  BY ConstantTypes, Zenon DEF Slots
<1>2. h \in Seq(Seq(Keys)) /\ Len(h) = n /\ \A s \in Slots : h[s] = SlotReadout(y, s)
  BY SlotReadoutsAre, Zenon
<1>3. y \in LayerStates /\ Sized(y)
  BY Zenon DEF Sound
<1>4. count \in [Slots -> Nat]
  BY <1>3, LayerTypes, Zenon
<1>5. y.bankTokens = TotalOf(count)
  BY <1>3, Zenon DEF Sized
<1>6. y.activeSlots = Cardinality(UsedUpTo(y, n))
  BY <1>1, <1>3, Zenon DEF Sized, UsedUpTo
<1> HIDE DEF h, n
<1>7. PICK f \in [0 .. n -> Seq(Keys)] :
         /\ f[0] = << >> /\ FlattenSeq(h) = f[n]
         /\ \A i \in 1 .. n : f[i] = f[i - 1] \o h[i]
  <2>1. \E f \in [0 .. Len(h) -> Seq(Keys)] :
         /\ f[0] = << >> /\ FlattenSeq(h) = f[Len(h)]
         /\ \A i \in 1 .. Len(h) : f[i] = f[i - 1] \o h[i]
    BY <1>2, FlattenIs, Zenon
  <2> QED BY <1>2, <2>1, Zenon
<1>8. PICK g \in [0 .. n -> Nat] :
         /\ g[0] = 0 /\ TotalOf(count) = g[n]
         /\ \A i \in 1 .. n : g[i] = g[i - 1] + count[i]
  BY <1>1, <1>4, TotalIs, Zenon DEF n
<1> HIDE DEF count
<1> DEFINE G == {i \in 0 .. n : BankIs(y, f, g, i)}
<1>9. 0 \in G
  <2>1. UsedUpTo(y, 0) = {} /\ 0 \in 0 .. n
    BY <1>1 DEF UsedUpTo
  <2>2. Cardinality(UsedUpTo(y, 0)) = 0
    BY <2>1, FS_EmptySet
  <2>3. Len(f[0]) = 0
    BY <1>7
  <2>4. BankIs(y, f, g, 0)
    BY <1>8, <2>2, <2>3 DEF BankIs
  <2> QED BY <2>1, <2>4
<1>10. ASSUME NEW i \in 1 .. n, i - 1 \in G PROVE i \in G
  <2>0. i \in Nat /\ i >= 1 /\ i \in 0 .. n /\ i - 1 \in 0 .. n /\ i \in Slots
    BY <1>1
  <2>1. BankIs(y, f, g, i - 1)
    BY <1>10
  <2> DEFINE s == SlotReadout(y, i)  c == count[i]  sp == y.spans[i]
             u == Cardinality(UsedUpTo(y, i - 1))  v == Cardinality(UsedUpTo(y, i))
  <2>2. /\ s \in Seq(Keys) /\ c \in Nat
        /\ sp = << >> => Len(s) = 0 /\ c = 0
        /\ sp # << >> => Len(s) = 1 + c
    BY <2>0, SlotReadoutIs, Zenon DEF count
  <2>3. u \in Nat /\ v = u + IF sp = << >> THEN 0 ELSE 1
    BY <2>0, UsedAre, Zenon
  <2>4. f[i - 1] \in Seq(Keys) /\ f[i] = f[i - 1] \o s /\ g[i] = g[i - 1] + c /\ g[i - 1] \in Nat
    BY <1>2, <1>7, <1>8, <2>0
  <2>5. Len(f[i - 1]) = g[i - 1] + u
    BY <2>1, Zenon DEF BankIs
  <2> HIDE DEF s, c, sp, u
  <2>6. Len(f[i]) \in Nat /\ Len(f[i]) = Len(f[i - 1]) + Len(s) /\ Len(s) \in Nat
    BY <2>2, <2>4
  <2>7. v = u + IF sp = << >> THEN 0 ELSE 1
    BY <2>3
  <2> HIDE DEF v
  <2>8. Len(f[i]) = g[i] + v
    <3> DEFINE p == f[i - 1]  q == g[i - 1]
    <3>1. Len(f[i]) = q + u + Len(s) /\ g[i] = q + c /\ q \in Nat
      BY <2>4, <2>5, <2>6, Zenon
    <3> HIDE DEF q
    <3>2. CASE sp = << >>
      BY <2>2, <2>3, <2>7, <3>1, <3>2
    <3>3. CASE sp # << >>
      BY <2>2, <2>3, <2>7, <3>1, <3>3
    <3> QED BY <3>2, <3>3
  <2>9. BankIs(y, f, g, i)
    BY <2>6, <2>8, Zenon DEF BankIs, v
  <2> QED BY <2>0, <2>9
<1>11. 0 .. n \subseteq G
  <2> HIDE DEF G
  <2>1. \A k \in 1 .. n : k - 1 \in G => k \in G
    BY <1>10
  <2> QED BY <1>1, <1>9, <2>1, UpTo, Zenon
<1>12. n \in 0 .. n
  BY <1>1
<1>13. BankIs(y, f, g, n) /\ f[n] \in Seq(Keys) /\ g[n] \in Nat
  BY <1>7, <1>8, <1>11, <1>12
<1>14. Cardinality(UsedUpTo(y, n)) \in Nat /\ Cardinality(UsedUpTo(y, n)) <= n
  BY <1>1, UsedAre, Zenon
<1> QED BY <1>5, <1>6, <1>7, <1>8, <1>13, <1>14, Zenon DEF BankIs, h, n

\* _materialized_width is the length of what _materialize builds.
LEMMA ReadoutIs ==
    ASSUME NEW y, Sound(y)
    PROVE  /\ Readout(y) \in Seq(Keys) /\ Width(y) = Len(Readout(y)) /\ Width(y) \in Nat
           /\ y.activeSlots \in Nat /\ y.activeSlots <= RoutedSlots /\ y.bankTokens \in Nat
<1> DEFINE a == Tokens(y.sink)  b == FlattenSeq(SlotReadouts(y))  c == Tokens(y.pend)
           d == Tokens(y.ring)
           la == Len(y.sink)  lb == y.bankTokens  ac == y.activeSlots  lc == Len(y.pend)
           ld == Len(y.ring)
<1>1. y.sink \in Seq(Nat) /\ y.pend \in Seq(Nat) /\ y.ring \in Seq(Nat)
  BY LayerTypes, Zenon DEF Sound
<1>2. /\ a \in Seq(Keys) /\ Len(a) = la /\ la \in Nat /\ c \in Seq(Keys) /\ Len(c) = lc
      /\ lc \in Nat /\ d \in Seq(Keys) /\ Len(d) = ld /\ ld \in Nat
  BY <1>1, TokensAre, Zenon
<1>3. b \in Seq(Keys) /\ Len(b) = lb + ac /\ ac \in Nat /\ ac <= RoutedSlots /\ lb \in Nat
  BY BankReadout, Zenon
<1>4. Readout(y) = a \o b \o c \o d
  BY Zenon DEF Readout, SlotReadouts
<1>5. Width(y) = la + ac + lb + lc + ld
  BY Zenon DEF Width
<1> HIDE DEF a, b, c, d, la, lb, lc, ld, ac
<1>6. a \o b \o c \o d \in Seq(Keys) /\ Len(a \o b \o c \o d) = Len(a) + Len(b) + Len(c) + Len(d)
  BY <1>2, <1>3, SMTT(20)
<1>7. Len(a \o b \o c \o d) = la + ac + lb + lc + ld /\ la + ac + lb + lc + ld \in Nat
  BY <1>2, <1>3, <1>6
<1> QED BY <1>3, <1>4, <1>5, <1>6, <1>7, Zenon DEF lb, ac

-----------------------------------------------------------------------------
(***************************************************************************)
(* The planned sizes.                                                      *)
(***************************************************************************)

\* i times m, one step after i - 1 times m.
LEMMA ProductStep ==
    ASSUME NEW i \in Nat, NEW m \in Nat, i >= 1
    PROVE  (i - 1) * m + m = i * m /\ i * m \in Nat
  OBVIOUS

\* No slot has more than its budget, so the bank has at most that times the slots.
LEMMA BankBound ==
    ASSUME NEW y, Sound(y)
    PROVE  y.bankTokens <= RoutedSlots * Max({SpanBudget, MaxSpan})
           /\ Max({SpanBudget, MaxSpan}) \in Nat
<1> DEFINE n == RoutedSlots  count == y.spanTokens  m == Max({SpanBudget, MaxSpan})
<1>1. n \in Nat /\ Slots = 1 .. n
  BY ConstantTypes, Zenon DEF Slots
<1>2. m \in Nat
  <2>1. SpanBudget \in Int /\ MaxSpan \in Int /\ SpanBudget \in Nat /\ MaxSpan \in Nat
    BY ConstantTypes
  <2>2. m = IF SpanBudget >= MaxSpan THEN SpanBudget ELSE MaxSpan
    BY <2>1, MaxOfTwo, Zenon
  <2> HIDE DEF m
  <2> QED BY <2>1, <2>2
<1>3. y \in LayerStates /\ Sized(y)
  BY Zenon DEF Sound
<1>4. count \in [Slots -> Nat]
  BY <1>3, LayerTypes, Zenon
<1>5. y.bankTokens = TotalOf(count) /\ \A s \in Slots : count[s] <= m
  BY <1>3, Zenon DEF Sized
<1> HIDE DEF n, m
<1>8. PICK g \in [0 .. n -> Nat] :
         /\ g[0] = 0 /\ TotalOf(count) = g[n]
         /\ \A i \in 1 .. n : g[i] = g[i - 1] + count[i]
  BY <1>1, <1>4, TotalIs, Zenon DEF n
<1> HIDE DEF count
<1> DEFINE G == {i \in 0 .. n : g[i] <= i * m}
<1>9. 0 \in G
  <2>1. 0 \in 0 .. n /\ 0 * m = 0
    BY <1>1, <1>2
  <2> QED BY <1>8, <2>1
<1>10. ASSUME NEW i \in 1 .. n, i - 1 \in G PROVE i \in G
  <2>1. i \in Nat /\ i >= 1 /\ i \in 0 .. n /\ i - 1 \in 0 .. n /\ i \in Slots
    BY <1>1
  <2>2. g[i - 1] <= (i - 1) * m /\ g[i] = g[i - 1] + count[i] /\ count[i] <= m
        /\ g[i - 1] \in Nat /\ count[i] \in Nat
    BY <1>4, <1>5, <1>8, <1>10, <2>1
  <2>3. (i - 1) * m + m = i * m /\ i * m \in Nat
    BY <1>2, <2>1, ProductStep, Zenon
  <2> DEFINE a == (i - 1) * m  b == i * m  c == g[i - 1]  d == count[i]
  <2>4. a \in Nat
    <3>1. i - 1 \in Nat
      BY <2>1
    <3> QED BY <1>2, <3>1
  <2>5. a + m = b /\ b \in Nat /\ c <= a /\ g[i] = c + d /\ d <= m /\ c \in Nat /\ d \in Nat
    BY <2>2, <2>3, Zenon
  <2> HIDE DEF a, b, c, d
  <2>6. g[i] <= b
    BY <1>2, <2>4, <2>5
  <2> QED BY <2>1, <2>6 DEF b
<1>11. 0 .. n \subseteq G
  <2> HIDE DEF G
  <2>1. \A k \in 1 .. n : k - 1 \in G => k \in G
    BY <1>10
  <2> QED BY <1>1, <1>9, <2>1, UpTo, Zenon
<1>12. n \in 0 .. n
  BY <1>1
<1>13. g[n] <= n * m
  BY <1>11, <1>12
<1> QED BY <1>2, <1>5, <1>8, <1>13, Zenon DEF n, m

\* A layer at rest fits in what GemmaRoutedSpanConfig planned.
LEMMA LayerWithinPlan ==
    ASSUME NEW y, AtRest(y)
    PROVE  /\ Len(Readout(y)) <= MaterializedTokens
           /\ Len(y.sink) + Len(y.pend) + Len(y.ring) + y.bankTokens <= AuthoritativeTokens
<1> DEFINE k == Len(y.sink)  p == Len(y.pend)  r == Len(y.ring)  b == y.bankTokens
           ac == y.activeSlots  bound == RoutedSlots * Max({SpanBudget, MaxSpan})
           st == SinkTokens  rt == RingTokens  rs == RoutedSlots  ch == RouteChunk
           c == y.cumulative
<1>1. Sound(y) /\ p < ch
  BY Zenon DEF AtRest
<1>2. y \in LayerStates /\ Placed(y)
  BY <1>1, Zenon DEF Sound
<1>3. /\ st \in Nat /\ rt \in Nat /\ rs \in Nat /\ ch \in Nat
  BY ConstantTypes, Zenon
<1>4. k \in Nat /\ p \in Nat /\ r \in Nat /\ k = IF st <= c THEN st ELSE c
  BY <1>2, PlacedPieces, Zenon
<1>5. c \in Nat
  BY <1>2, LayerTypes, Zenon
<1>6. r <= rt
  BY <1>2, Zenon DEF Placed
<1>7. /\ Width(y) = Len(Readout(y)) /\ ac \in Nat /\ ac <= rs /\ b \in Nat
  BY <1>1, ReadoutIs, Zenon
<1>8. b <= bound
  BY <1>1, BankBound, Zenon
<1>9. Width(y) = k + ac + b + p + r
  BY Zenon DEF Width
<1>10. AuthoritativeTokens = st + rt + ch - 1 + bound
  BY Zenon DEF AuthoritativeTokens
<1>11. MaterializedTokens = AuthoritativeTokens + rs
  BY Zenon DEF MaterializedTokens
<1>12. bound \in Nat
  <2> DEFINE m == Max({SpanBudget, MaxSpan})
  <2>1. m \in Nat
    BY <1>1, BankBound, Zenon
  <2> HIDE DEF m, rs
  <2>2. rs * m \in Nat
    BY <1>3, <2>1
  <2> QED BY <2>2 DEF m, rs
<1> HIDE DEF k, p, r, b, ac, bound, st, rt, rs, ch, c
<1>13. k <= st
  BY <1>3, <1>4, <1>5
<1>14. k + p + r + b <= st + rt + ch - 1 + bound
  BY <1>1, <1>3, <1>4, <1>6, <1>7, <1>8, <1>12, <1>13
<1>15. k + ac + b + p + r <= st + rt + ch - 1 + bound + rs
  <2> DEFINE u == k + p + r + b  v == st + rt + ch - 1 + bound
  <2>1. u \in Nat /\ v \in Int /\ k + ac + b + p + r = u + ac
    BY <1>3, <1>4, <1>7, <1>12
  <2>2. u <= v
    BY <1>14
  <2> HIDE DEF u, v
  <2>3. u + ac <= v + rs
    BY <1>3, <1>7, <2>1, <2>2
  <2> QED BY <2>1, <2>3 DEF v
<1> QED BY <1>7, <1>9, <1>10, <1>11, <1>14, <1>15, Zenon DEF k, p, r, b

-----------------------------------------------------------------------------
(***************************************************************************)
(* The split of a cut.                                                     *)
(***************************************************************************)

\* Division with a remainder.
LEMMA DivMod ==
    ASSUME NEW a \in Nat, NEW d \in Nat, d >= 1
    PROVE  /\ a \div d \in Int /\ a % d \in Int /\ a = d * (a \div d) + (a % d)
           /\ 0 <= a % d /\ a % d < d
  BY SMT

\* Only zero is a multiple of d and less than d.
LEMMA OnlyZero ==
    ASSUME NEW t \in Int, NEW d \in Nat, d >= 1, 0 <= d * t, d * t < d
    PROVE  t = 0
<1>1. CASE t >= 1
  <2>1. d * t >= d
    BY <1>1
  <2> QED BY <2>1
<1>2. CASE t <= -1
  <2>1. d * t <= -1
    BY <1>2
  <2> QED BY <2>1
<1> QED BY <1>1, <1>2

\* A multiple of d, d later.
LEMMA NextMultiple ==
    ASSUME NEW a \in Nat, NEW d \in Nat, d >= 1, a % d = 0
    PROVE  (a + d) % d = 0
<1> DEFINE q == a \div d  b == a + d  p == b \div d  r == b % d  t == q + 1 - p
<1>1. q \in Int /\ a = d * q + (a % d)
  BY DivMod, Zenon
<1>2. b \in Nat
  OBVIOUS
<1>3. p \in Int /\ r \in Int /\ b = d * p + r /\ 0 <= r /\ r < d
  <2> HIDE DEF b
  <2> QED BY <1>2, DivMod, Zenon
<1>4. a + d = d * p + r /\ a = d * q
  <2>1. d * q \in Int
    BY <1>1
  <2> HIDE DEF q, p, r
  <2> QED BY <1>1, <1>3, <2>1
<1> HIDE DEF q, p, r, b
<1>5. r = d * t /\ t \in Int
  <2>1. d * (q + 1 - p) = d * q + d - d * p
    BY <1>1, <1>3
  <2>2. d * q \in Int /\ d * p \in Int
    BY <1>1, <1>3
  <2> QED BY <1>1, <1>3, <1>4, <2>1, <2>2
<1> HIDE DEF t
<1>6. t = 0
  <2>1. 0 <= d * t /\ d * t < d
    BY <1>3, <1>5
  <2> QED BY <1>5, <2>1, OnlyZero, Zenon
<1>7. r = 0
  BY <1>5, <1>6
<1> QED BY <1>7 DEF r, b

\* Zero is a multiple of any d.
LEMMA ZeroMultiple ==
    ASSUME NEW d \in Nat, d >= 1
    PROVE  0 % d = 0
  BY SMT

-----------------------------------------------------------------------------
(***************************************************************************)
(* The spans of a cut.                                                     *)
(***************************************************************************)

\* Spans that cover what is routed of n tokens, one after the other, none of
\* them too long.
Tiles(split, n) ==
    /\ split.routed \in 1 .. n /\ split.spans \in Seq(Nat \X Nat)
    /\ \A j \in 1 .. Len(split.spans) :
         /\ split.spans[j][1] \in Nat /\ split.spans[j][2] \in Nat
         /\ split.spans[j][1] < split.spans[j][2] /\ split.spans[j][2] <= split.routed
         /\ split.spans[j][2] - split.spans[j][1] <= MaxSpan
    /\ \A i, j \in 1 .. Len(split.spans) : i < j => split.spans[i][2] <= split.spans[j][1]
    /\ \A x \in 0 .. split.routed - 1 :
         \E j \in 1 .. Len(split.spans) : split.spans[j][1] <= x /\ x < split.spans[j][2]

\* Numbers that are bounds: in order, from the first to the last, none too far
\* from the one before.
Bounds(b, c, routed, size) ==
    /\ c \in Nat /\ \A i \in 1 .. c + 1 : b[i] \in Nat /\ b[i] <= routed
    /\ \A i, j \in 1 .. c + 1 : i < j => b[i] < b[j]
    /\ b[1] = 0 /\ b[c + 1] = routed
    /\ \A j \in 1 .. c : b[j + 1] - b[j] <= size

\* Bounds in order, the first 0, the last the number routed, none too far from the
\* next, make spans that follow one another.
LEMMA BoundsTile ==
    ASSUME NEW b, NEW c, NEW n \in Nat, NEW routed \in 1 .. n, NEW size \in Nat,
           Bounds(b, c, routed, size), size <= MaxSpan
    PROVE  Tiles([spans |-> [j \in 1 .. c |-> <<b[j], b[j + 1]>>], routed |-> routed], n)
<1> DEFINE h == [j \in 1 .. c |-> <<b[j], b[j + 1]>>]
           split == [spans |-> h, routed |-> routed]
<1>1. /\ c \in Nat /\ \A i \in 1 .. c + 1 : b[i] \in Nat /\ b[i] <= routed
      /\ \A i, j \in 1 .. c + 1 : i < j => b[i] < b[j]
      /\ b[1] = 0 /\ b[c + 1] = routed
      /\ \A j \in 1 .. c : b[j + 1] - b[j] <= size
  BY Zenon DEF Bounds
<1>2. \A j \in 1 .. c : j \in 1 .. c + 1 /\ j + 1 \in 1 .. c + 1 /\ j < j + 1
  BY <1>1
<1>3. h = [j \in 1 .. c |-> h[j]] /\ \A j \in 1 .. c : h[j] = <<b[j], b[j + 1]>>
  BY Zenon
<1>4. \A j \in 1 .. c : h[j][1] = b[j] /\ h[j][2] = b[j + 1]
  BY <1>3
<1>5. split.spans = h /\ split.routed = routed
  OBVIOUS
<1> HIDE DEF h, split
<1>6. \A j \in 1 .. c : h[j] \in Nat \X Nat
  <2> TAKE j \in 1 .. c
  <2> DEFINE u == b[j]  v == b[j + 1]
  <2>1. u \in Nat /\ v \in Nat
    BY <1>1, <1>2
  <2>2. h[j] = <<u, v>>
    BY <1>3, Zenon
  <2> HIDE DEF u, v
  <2> QED BY <2>1, <2>2
<1>7. h \in Seq(Nat \X Nat) /\ Len(h) = c
  <2> DEFINE P == Nat \X Nat
  <2>1. c \in Nat /\ h = [j \in 1 .. c |-> h[j]] /\ \A j \in 1 .. c : h[j] \in P
    BY <1>1, <1>3, <1>6, Zenon
  <2> HIDE DEF P
  <2>2. h \in Seq(P) /\ Len(h) = c
    BY <2>1, ListOf, Zenon
  <2> QED BY <2>2, Zenon DEF P
<1>8. routed \in Nat /\ MaxSpan \in Nat
  BY ConstantTypes
<1>9. ASSUME NEW j \in 1 .. c
      PROVE  /\ h[j][1] \in Nat /\ h[j][2] \in Nat /\ h[j][1] < h[j][2] /\ h[j][2] <= routed
             /\ h[j][2] - h[j][1] <= MaxSpan
  <2> DEFINE u == b[j]  v == b[j + 1]
  <2>1. u \in Nat /\ v \in Nat /\ u < v /\ v <= routed /\ v - u <= size
    BY <1>1, <1>2
  <2>2. h[j][1] = u /\ h[j][2] = v
    BY <1>4
  <2> HIDE DEF u, v
  <2> QED BY <1>8, <2>1, <2>2
<1>10. ASSUME NEW i \in 1 .. c, NEW j \in 1 .. c, i < j PROVE h[i][2] <= h[j][1]
  <2>1. i + 1 = j \/ i + 1 < j
    BY <1>1, <1>10
  <2>2. i + 1 \in 1 .. c + 1 /\ j \in 1 .. c + 1 /\ b[j] \in Nat
    BY <1>1, <1>2
  <2>3. b[i + 1] <= b[j]
    <3>1. CASE i + 1 = j
      BY <2>2, <3>1
    <3>2. CASE i + 1 < j
      <4>1. b[i + 1] < b[j] /\ b[i + 1] \in Nat
        BY <1>1, <2>2, <3>2
      <4> QED BY <2>2, <4>1
    <3> QED BY <2>1, <3>1, <3>2
  <2> QED BY <1>4, <2>3
<1>11. ASSUME NEW x \in 0 .. routed - 1 PROVE \E j \in 1 .. c : h[j][1] <= x /\ x < h[j][2]
  <2> DEFINE S == {i \in 1 .. c + 1 : b[i] <= x}  m == Max(S)
  <2>0. x \in Nat /\ 0 <= x /\ x < routed
    BY <1>8
  <2>1. 1 \in S /\ S \subseteq Int
    <3>1. 1 \in 1 .. c + 1
      BY <1>1
    <3> QED BY <1>1, <2>0, <3>1
  <2>2. IsFiniteSet(S)
    <3>1. S \subseteq 1 .. c + 1 /\ c + 1 \in Int /\ 1 \in Int
      BY <1>1
    <3>2. IsFiniteSet(1 .. c + 1)
      BY <3>1, FS_Interval, Zenon
    <3> HIDE DEF S
    <3>3. S \in SUBSET (1 .. c + 1)
      BY <3>1
    <3> QED BY <3>2, <3>3, FS_Subset, Zenon
  <2>3. m \in S /\ \A y \in S : y <= m
    <3> HIDE DEF S
    <3>1. S # {}
      BY <2>1
    <3> QED BY <2>1, <2>2, <3>1, MaxOfSet, Zenon
  <2> HIDE DEF m
  <2>4. m \in 1 .. c + 1 /\ b[m] <= x
    BY <2>3
  <2>5. m # c + 1
    BY <1>1, <1>8, <2>0, <2>4
  <2>6. m \in 1 .. c /\ m + 1 \in 1 .. c + 1 /\ ~(m + 1 <= m)
    BY <1>1, <2>4, <2>5
  <2>7. m + 1 \notin S
    BY <2>3, <2>6
  <2>8. ~(b[m + 1] <= x) /\ b[m + 1] \in Nat
    BY <1>1, <2>6, <2>7
  <2>9. h[m][1] <= x /\ x < h[m][2]
    BY <1>4, <2>0, <2>4, <2>6, <2>8
  <2> QED BY <2>6, <2>9
<1>12. /\ \A j \in 1 .. c :
            /\ h[j][1] \in Nat /\ h[j][2] \in Nat /\ h[j][1] < h[j][2] /\ h[j][2] <= routed
            /\ h[j][2] - h[j][1] <= MaxSpan
       /\ \A i, j \in 1 .. c : i < j => h[i][2] <= h[j][1]
       /\ \A x \in 0 .. routed - 1 : \E j \in 1 .. c : h[j][1] <= x /\ x < h[j][2]
  BY <1>9, <1>10, <1>11, Zenon
<1>13. Tiles(split, n)
  BY <1>5, <1>7, <1>12, Zenon DEF Tiles
<1> QED BY <1>13, Zenon DEF split, h

\* The numbers of a set that has stops, in their order.
LEMMA BoundsAre ==
    ASSUME NEW stops, NEW routed \in Nat, NEW size \in Nat, stops \subseteq 1 .. routed,
           routed \in stops, size >= 1,
           \A u \in {0} \cup stops : \A v \in stops :
              (u < v /\ \A w \in stops : ~(u < w /\ w < v)) => v - u <= size
    PROVE  Bounds(Ascending({0} \cup stops), Cardinality(stops), routed, size)
<1> DEFINE B == {0} \cup stops  b == Ascending(B)  c == Cardinality(stops)
<1>1. IsFiniteSet(stops) /\ c \in Nat
  <2>1. 1 \in Int /\ routed \in Int /\ stops \in SUBSET (1 .. routed)
    OBVIOUS
  <2>2. IsFiniteSet(1 .. routed)
    BY <2>1, FS_Interval, Zenon
  <2>3. IsFiniteSet(stops)
    BY <2>1, <2>2, FS_Subset, Zenon
  <2> QED BY <2>3, FS_CardinalityType, Zenon
<1>2. IsFiniteSet(B) /\ Cardinality(B) = c + 1
  <2>1. 0 \notin stops
    OBVIOUS
  <2>2. IsFiniteSet(stops \cup {0}) /\ Cardinality(stops \cup {0}) = c + 1
    BY <1>1, <2>1, FS_AddElement
  <2>3. stops \cup {0} = B
    OBVIOUS
  <2> QED BY <2>2, <2>3
<1>3. B \subseteq Int /\ \A x \in B : x \in Nat /\ x <= routed
  OBVIOUS
<1> HIDE DEF B, c
<1>4. /\ b \in [1 .. c + 1 -> B] /\ \A x \in B : \E i \in 1 .. c + 1 : b[i] = x
      /\ \A i, j \in 1 .. c + 1 : i < j => b[i] < b[j]
  <2>1. /\ b \in [1 .. Cardinality(B) -> B]
        /\ \A x \in B : \E i \in 1 .. Cardinality(B) : b[i] = x
        /\ \A i, j \in 1 .. Cardinality(B) : i < j => b[i] < b[j]
    BY <1>2, <1>3, AscendingIs, Zenon
  <2> QED BY <1>2, <2>1, Zenon
<1> HIDE DEF b
<1>5. \A i \in 1 .. c + 1 : b[i] \in Nat /\ b[i] <= routed /\ b[i] \in B
  BY <1>3, <1>4
<1>6. b[1] = 0
  <2>1. 0 \in B /\ 1 \in 1 .. c + 1
    BY <1>1 DEF B
  <2>2. PICK i \in 1 .. c + 1 : b[i] = 0
    BY <1>4, <2>1
  <2>3. i = 1 \/ 1 < i
    BY <1>1
  <2>4. 1 < i => b[1] < b[i]
    BY <1>4, <2>1
  <2> QED BY <1>5, <2>1, <2>2, <2>3, <2>4
<1>7. b[c + 1] = routed
  <2>1. routed \in B /\ c + 1 \in 1 .. c + 1
    BY <1>1 DEF B
  <2>2. PICK i \in 1 .. c + 1 : b[i] = routed
    BY <1>4, <2>1
  <2>3. i = c + 1 \/ i < c + 1
    BY <1>1
  <2>4. i < c + 1 => b[i] < b[c + 1]
    BY <1>4, <2>1
  <2> QED BY <1>5, <2>1, <2>2, <2>3, <2>4
<1>8. ASSUME NEW j \in 1 .. c PROVE b[j + 1] - b[j] <= size
  <2>1. /\ j \in 1 .. c + 1 /\ j + 1 \in 1 .. c + 1 /\ j < j + 1 /\ j \in Nat
    BY <1>1
  <2>2. b[j] < b[j + 1] /\ b[j] \in B /\ b[j + 1] \in B /\ b[j] \in Nat /\ b[j + 1] \in Nat
    BY <1>4, <1>5, <2>1
  <2>3. b[j + 1] \in stops
    BY <2>2 DEF B
  <2>4. ASSUME NEW w \in stops, b[j] < w, w < b[j + 1] PROVE FALSE
    <3>1. w \in B
      BY DEF B
    <3>2. PICK i \in 1 .. c + 1 : b[i] = w
      BY <1>4, <3>1
    <3>3. i <= j \/ j + 1 <= i
      BY <1>1, <2>1
    <3>4. CASE i <= j
      <4>1. i = j \/ i < j
        BY <2>1, <3>4
      <4>2. i < j => b[i] < b[j]
        BY <1>4, <2>1
      <4> QED BY <1>5, <2>2, <2>4, <3>2, <4>1, <4>2
    <3>5. CASE j + 1 <= i
      <4>1. i = j + 1 \/ j + 1 < i
        BY <2>1, <3>5
      <4>2. j + 1 < i => b[j + 1] < b[i]
        BY <1>4, <2>1
      <4> QED BY <1>5, <2>2, <2>4, <3>2, <4>1, <4>2
    <3> QED BY <3>3, <3>4, <3>5
  <2>5. b[j] \in {0} \cup stops
    BY <2>2 DEF B
  <2> QED BY <2>2, <2>3, <2>4, <2>5
<1>9. Bounds(b, c, routed, size)
  BY <1>1, <1>4, <1>5, <1>6, <1>7, <1>8, Zenon DEF Bounds
<1> QED BY <1>9, Zenon DEF b, c, B

\* _split_spans covers what it routes with spans one after the other, none empty and
\* none longer than max_span_tokens.
LEMMA SplitIs ==
    ASSUME NEW start \in Nat, NEW n \in Nat, n >= 1
    PROVE  Tiles(SplitSpans(start, n), n)
<1> DEFINE ends == EndsIn(start, n)
           routed == IF ends = {} THEN n ELSE Max(ends)
           size == IF ends = {} THEN Min({Stride, MaxSpan}) ELSE MaxSpan
           begun(i) == Max({0} \cup {e \in ends : e < i})
           stops == {i \in 1 .. routed : i \in ends \cup {routed} \/ (i - begun(i)) % size = 0}
           c == Cardinality(stops)
           bounds == Ascending({0} \cup stops)
<1>1. ends \subseteq 1 .. n /\ IsFiniteSet(ends)
  <2>1. ends \in SUBSET (1 .. n)
    BY DEF EndsIn
  <2>2. IsFiniteSet(1 .. n)
    <3>1. 1 \in Int /\ n \in Int
      OBVIOUS
    <3> QED BY <3>1, FS_Interval, Zenon
  <2> HIDE DEF ends
  <2>3. IsFiniteSet(ends)
    BY <2>1, <2>2, FS_Subset, Zenon
  <2> QED BY <2>1, <2>3
<1>2. SplitSpans(start, n) = [spans |-> [j \in 1 .. c |-> <<bounds[j], bounds[j + 1]>>],
                              routed |-> routed]
  BY Zenon DEF SplitSpans
<1> HIDE DEF ends
<1>3. routed \in 1 .. n /\ \A e \in ends : e <= routed
  <2>1. CASE ends = {}
    BY <2>1
  <2>2. CASE ends # {}
    <3>0. \A e \in 1 .. n : e \in Int
      OBVIOUS
    <3>1. ends \subseteq Int /\ routed = Max(ends)
      BY <1>1, <2>2, <3>0, Zenon
    <3>2. Max(ends) \in ends /\ \A e \in ends : e <= Max(ends)
      BY <1>1, <2>2, <3>1, MaxOfSet, Zenon
    <3> HIDE DEF routed
    <3> QED BY <1>1, <3>1, <3>2
  <2> QED BY <2>1, <2>2
<1>4. size \in Nat /\ size >= 1 /\ size <= MaxSpan
  <2>1. Stride \in Nat /\ Stride >= 1 /\ MaxSpan \in Nat /\ MaxSpan >= 1
    BY ConstantTypes, Zenon
  <2>2. Stride \in Int /\ MaxSpan \in Int
    BY <2>1
  <2>3. Min({Stride, MaxSpan}) = IF Stride <= MaxSpan THEN Stride ELSE MaxSpan
    BY <2>2, MinOfTwo, Zenon
  <2>4. CASE ends = {}
    <3>1. size = IF Stride <= MaxSpan THEN Stride ELSE MaxSpan
      BY <2>3, <2>4, Zenon
    <3> HIDE DEF size
    <3> QED BY <2>1, <3>1
  <2>5. CASE ends # {}
    <3>1. size = MaxSpan
      BY <2>5
    <3> HIDE DEF size
    <3> QED BY <2>1, <3>1
  <2> QED BY <2>4, <2>5
<1> HIDE DEF routed, size
<1>5. \A i \in Nat : /\ begun(i) \in {0} \cup {e \in ends : e < i}
                     /\ \A e \in {0} \cup {e \in ends : e < i} : e <= begun(i)
  <2> TAKE i \in Nat
  <2> DEFINE S == {0} \cup {e \in ends : e < i}
  <2>1. S \subseteq Int /\ S # {}
    <3>1. 0 \in Int /\ \A e \in 1 .. n : e \in Int
      OBVIOUS
    <3>2. \A e \in ends : e \in Int
      BY <1>1, <3>1, Zenon
    <3> QED BY <3>1, <3>2, Zenon
  <2>2. IsFiniteSet(S)
    <3> DEFINE T == {e \in ends : e < i}
    <3>1. T \in SUBSET ends
      OBVIOUS
    <3>2. IsFiniteSet(T)
      BY <1>1, <3>1, FS_Subset, Zenon
    <3>3. IsFiniteSet(T \cup {0})
      BY <3>2, FS_AddElement, Zenon
    <3>4. S = T \cup {0}
      OBVIOUS
    <3> QED BY <3>3, <3>4
  <2>3. begun(i) = Max(S)
    OBVIOUS
  <2> HIDE DEF S
  <2>4. Max(S) \in S /\ \A e \in S : e <= Max(S)
    BY <2>1, <2>2, MaxOfSet, Zenon
  <2> QED BY <2>3, <2>4 DEF S
<1> HIDE DEF begun
<1>6. \A i \in Nat : begun(i) \in Nat /\ (i > 0 => begun(i) < i)
  <2> TAKE i \in Nat
  <2>1. \A e \in ends : e \in Nat
    BY <1>1
  <2>2. begun(i) = 0 \/ (begun(i) \in ends /\ begun(i) < i)
    BY <1>5
  <2> QED BY <2>1, <2>2
\* Between two bounds no sentence ends, so that what is between them has one begin.
<1>7. ASSUME NEW u \in {0} \cup stops, NEW v \in stops, u < v,
             \A w \in stops : ~(u < w /\ w < v)
      PROVE  v - u <= size
  <2>0. u \in Nat /\ v \in Nat /\ v <= routed /\ u < routed /\ routed \in Nat
    BY <1>3, <1>7
  <2> SUFFICES ASSUME v - u > size PROVE FALSE
    BY <1>4, <2>0
  <2> DEFINE i == u + size
  <2>1. i \in Nat /\ u < i /\ i < v /\ i \in 1 .. routed /\ i > 0
    BY <1>4, <2>0
  <2>2. i \notin stops
    BY <1>7, <2>1
  <2> DEFINE b == begun(i)
  <2>3. i \notin ends /\ ~((i - b) % size = 0)
    BY <2>1, <2>2
  <2>4. \A e \in ends : e <= u \/ v <= e
    <3> TAKE e \in ends
    <3>1. e \in 1 .. routed
      BY <1>1, <1>3
    <3>2. e \in stops
      BY <3>1
    <3>3. ~(u < e /\ e < v)
      BY <1>7, <3>2
    <3> QED BY <2>0, <3>1, <3>3
  <2>5. b \in Nat /\ b <= u
    <3>1. b \in {0} \cup {e \in ends : e < i} /\ b \in Nat
      BY <1>5, <1>6, <2>1
    <3>2. CASE b = 0
      BY <2>0, <3>2
    <3>3. CASE b \in ends /\ b < i
      <4> HIDE DEF b, i
      <4>1. b <= u \/ v <= b
        BY <2>4, <3>3
      <4> QED BY <2>0, <2>1, <3>1, <3>3, <4>1
    <3> QED BY <3>1, <3>2, <3>3
  <2>6. (u - b) % size = 0
    <3>1. CASE u = 0
      <4>1. b = 0
        BY <2>5, <3>1
      <4>2. u - b = 0
        BY <3>1, <4>1
      <4> QED BY <1>4, <4>2, ZeroMultiple
    <3>2. CASE u \in ends
      <4>1. u < i
        BY <2>1
      <4>2. u <= b
        <5> HIDE DEF i
        <5> QED BY <1>5, <2>1, <3>2, <4>1
      <4>3. u - b = 0
        BY <2>0, <2>5, <4>2
      <4> QED BY <1>4, <4>3, ZeroMultiple
    <3>3. CASE u # 0 /\ u \notin ends
      <4>1. u \in stops /\ u # routed /\ u > 0
        BY <1>7, <2>0, <3>3
      <4>2. (u - begun(u)) % size = 0
        BY <3>3, <4>1
      <4>3. begun(u) = b
        <5> DEFINE a == begun(u)
        <5>1. a \in {0} \cup {e \in ends : e < u} /\ a \in Nat
          BY <1>5, <1>6, <2>0
        <5>2. b \in {0} \cup {e \in ends : e < u}
          <6>1. b \in {0} \cup {e \in ends : e < i}
            BY <1>5, <2>1
          <6>2. b # u \/ b = 0
            BY <3>3, <6>1
          <6> HIDE DEF b, i
          <6> QED BY <2>0, <2>5, <3>3, <6>1, <6>2
        <5>3. b <= a
          BY <1>5, <2>0, <5>2
        <5>4. a \in {0} \cup {e \in ends : e < i}
          <6> HIDE DEF a, i
          <6>1. \A e \in ends : e < u => e < i
            BY <1>1, <2>0, <2>1
          <6> QED BY <5>1, <6>1
        <5>5. a <= b
          BY <1>5, <2>1, <5>4
        <5> HIDE DEF a, b
        <5>6. a = b
          BY <2>5, <5>1, <5>3, <5>5
        <5> QED BY <5>6 DEF a
      <4> QED BY <4>2, <4>3
    <3> QED BY <3>1, <3>2, <3>3
  <2>7. (i - b) % size = 0
    <3> DEFINE d == u - b
    <3>1. d \in Nat /\ d % size = 0
      BY <2>0, <2>5, <2>6
    <3>2. i - b = d + size
      BY <1>4, <2>0, <2>5
    <3> HIDE DEF d, i, b
    <3>3. (d + size) % size = 0
      BY <1>4, <3>1, NextMultiple, Zenon
    <3> QED BY <3>2, <3>3
  <2> QED BY <2>3, <2>7
<1>8. stops \subseteq 1 .. routed /\ routed \in stops /\ routed \in Nat
  BY <1>3
<1> HIDE DEF stops
<1>9. \A u \in {0} \cup stops : \A v \in stops :
         (u < v /\ \A w \in stops : ~(u < w /\ w < v)) => v - u <= size
  BY <1>7
<1>10. Bounds(bounds, c, routed, size)
  BY <1>4, <1>8, <1>9, BoundsAre, Zenon
<1> HIDE DEF bounds, c
<1>11. Tiles([spans |-> [j \in 1 .. c |-> <<bounds[j], bounds[j + 1]>>], routed |-> routed], n)
  BY <1>3, <1>4, <1>10, BoundsTile, Zenon
<1> QED BY <1>2, <1>11, Zenon

-----------------------------------------------------------------------------
(***************************************************************************)
(* The spans of a fold.                                                    *)
(***************************************************************************)

PieceOf(cut, start, a, b) ==
    [kv |-> SubSeq(cut, a + 1, b), pos |-> Positions(start + a, start + b)]

IsPiece(sp, u, v) ==
    /\ sp \in Spans /\ IsSpan(sp) /\ FirstOf(sp) = u /\ LastOf(sp) = v - 1
    /\ \A x : x \in ToSet(sp.kv) <=> x \in u .. v - 1

\* Which positions Positions(u, v) has.
LEMMA RangeOfPositions ==
    ASSUME NEW u \in Nat, NEW v \in Nat, u <= v
    PROVE  \A x : x \in ToSet(Positions(u, v)) <=> x \in u .. v - 1
<1> DEFINE p == Positions(u, v)
<1>1. DOMAIN p = 1 .. v - u /\ \A i \in 1 .. v - u : p[i] = u + i - 1
  BY DEF Positions
<1> HIDE DEF p
<1>2. \A x \in ToSet(p) : x \in u .. v - 1
  <2> TAKE x \in ToSet(p)
  <2>1. PICK i \in 1 .. v - u : x = p[i]
    BY <1>1, Zenon DEF ToSet
  <2>2. x = u + i - 1
    BY <1>1, <2>1
  <2> QED BY <2>2
<1>3. \A x \in u .. v - 1 : x \in ToSet(p)
  <2> TAKE x \in u .. v - 1
  <2> DEFINE i == x - u + 1
  <2>1. i \in 1 .. v - u /\ u + i - 1 = x
    OBVIOUS
  <2> HIDE DEF i
  <2>2. p[i] = x /\ i \in DOMAIN p
    BY <1>1, <2>1
  <2> QED BY <2>2, Zenon DEF ToSet
<1> QED BY <1>2, <1>3, Zenon DEF p

PartsOfPositions ==
    \A a, b, j \in Nat : \A i \in Nat \ {0} :
        a <= b /\ i <= j + 1 /\ j <= b - a
          => SubSeq(Positions(a, b), i, j) = Positions(a + i - 1, a + j)

\* PositionsPart, to be instantiated.
LEMMA PartsHold == PartsOfPositions
<1> SUFFICES ASSUME NEW a \in Nat, NEW b \in Nat, NEW j \in Nat, NEW i \in Nat \ {0},
                    a <= b, i <= j + 1, j <= b - a
             PROVE  SubSeq(Positions(a, b), i, j) = Positions(a + i - 1, a + j)
  BY ZenonT(40) DEF PartsOfPositions
<1> QED BY PositionsPart, ZenonT(40)

\* A part of the positions from start on.
LEMMA PositionsSub ==
    ASSUME NEW start \in Nat, NEW n \in Nat, NEW a \in Nat, NEW b \in Nat, a <= b, b <= n
    PROVE  SubSeq(Positions(start, start + n), a + 1, b) = Positions(start + a, start + b)
<1>1. /\ start + n \in Nat /\ a + 1 \in Nat \ {0} /\ start <= start + n
      /\ a + 1 <= b + 1 /\ b <= (start + n) - start
  OBVIOUS
<1>2. SubSeq(Positions(start, start + n), a + 1, b) = Positions(start + (a + 1) - 1, start + b)
  BY <1>1, PartsHold, ZenonT(40) DEF PartsOfPositions
<1>3. start + (a + 1) - 1 = start + a
  OBVIOUS
<1> QED BY <1>2, <1>3, Zenon

\* A piece of a cut is a span with the positions it says.
LEMMA PieceIs ==
    ASSUME NEW start \in Nat, NEW n \in Nat, NEW cut, cut = Positions(start, start + n),
           NEW a \in Nat, NEW b \in Nat, a < b, b <= n, b - a <= MaxSpan
    PROVE  IsPiece(PieceOf(cut, start, a, b), start + a, start + b)
<1> DEFINE u == start + a  v == start + b  p == Positions(u, v)
           sp == PieceOf(cut, start, a, b)
<1>1. u \in Nat /\ v \in Nat /\ u < v /\ v - u = b - a
  OBVIOUS
<1>2. SubSeq(cut, a + 1, b) = p
  <2>1. SubSeq(Positions(start, start + n), a + 1, b) = Positions(start + a, start + b)
    <3>1. a <= b
      OBVIOUS
    <3> QED BY <3>1, PositionsSub, ZenonT(40)
  <2> QED BY <2>1, Zenon DEF u, v
<1>3. sp.kv = p /\ sp.pos = p /\ sp = [kv |-> p, pos |-> p]
  BY <1>2 DEF PieceOf
<1> HIDE DEF u, v, sp
<1>4. /\ p \in Seq(Nat) /\ Len(p) = v - u /\ \A i \in 1 .. v - u : p[i] = u + i - 1
  <2>1. Len(p) = IF u <= v THEN v - u ELSE 0
    BY <1>1, PositionsAre
  <2> QED BY <1>1, <2>1, PositionsAre
<1> HIDE DEF p
<1>5. p[1] = u /\ p[Len(p)] = v - 1
  <2> DEFINE k == v - u
  <2>1. 1 \in 1 .. k /\ k \in 1 .. k /\ u + 1 - 1 = u /\ u + k - 1 = v - 1 /\ k \in Nat
    BY <1>1
  <2>2. Len(p) = k /\ \A i \in 1 .. k : p[i] = u + i - 1
    BY <1>4, Zenon
  <2> HIDE DEF k
  <2>3. p[1] = u + 1 - 1 /\ p[k] = u + k - 1
    BY <2>1, <2>2
  <2> QED BY <2>1, <2>2, <2>3
<1>6. FirstOf(sp) = u /\ LastOf(sp) = v - 1
  BY <1>3, <1>5 DEF FirstOf, LastOf
<1>7. sp \in Spans
  BY <1>3, <1>4 DEF Spans
<1>8. Len(p) \in 1 .. MaxSpan
  BY <1>1, <1>4, ConstantTypes
<1>9. u + Len(p) = v
  BY <1>1, <1>4
<1>10. IsSpan(sp)
  BY <1>3, <1>6, <1>8, <1>9 DEF IsSpan, p
<1>11. \A x : x \in ToSet(sp.kv) <=> x \in u .. v - 1
  <2>1. u \in Nat /\ v \in Nat /\ u <= v
    BY <1>1
  <2>2. \A x : x \in ToSet(Positions(u, v)) <=> x \in u .. v - 1
    BY <2>1, RangeOfPositions, Zenon
  <2> QED BY <1>3, <2>2, Zenon DEF p
<1> QED BY <1>6, <1>7, <1>10, <1>11, Zenon DEF IsPiece, u, v, sp

\* Where span j of a split begins and ends, if it starts there.
Begins(split, start, j) == start + split.spans[j][1]
Ends(split, start, j)   == start + split.spans[j][2]
Piece(split, start, j)  == Begins(split, start, j) .. Ends(split, start, j) - 1

\* What a slot gets of a fold.
NewFor(new, split, assign, start, s) ==
    /\ new \in Seq(Spans) /\ InOrder(new)
    /\ \A i \in DOMAIN new :
         FirstOf(new[i]) \in Nat /\ start <= FirstOf(new[i])
    /\ \A x : x \in ToSet(KV(new)) <=>
         \E j \in 1 .. Len(split.spans) :
            assign[j] = s /\ x \in Piece(split, start, j)

\* The spans of a cut that go to a slot: in order, with the tokens of the cut that
\* were assigned to the slot.
LEMMA NewSpansAre ==
    ASSUME NEW start \in Nat, NEW n \in Nat, NEW cut, cut = Positions(start, start + n),
           NEW split, Tiles(split, n),
           NEW assign, assign \in [1 .. Len(split.spans) -> Slots], NEW s \in Slots
    PROVE  NewFor(SpansFor(split, assign, cut, start, s), split, assign, start, s)
<1> DEFINE m == Len(split.spans)  S == {j \in DOMAIN assign : assign[j] = s}
           mine == Ascending(S)  c == Cardinality(S)
           piece(j) == PieceOf(cut, start, split.spans[j][1], split.spans[j][2])
           new == [i \in DOMAIN mine |-> piece(mine[i])]
<1>1. SpansFor(split, assign, cut, start, s) = new
  BY Zenon DEF SpansFor, PieceOf
<1>2. /\ m \in Nat /\ split.routed \in 1 .. n
      /\ \A j \in 1 .. m :
           /\ split.spans[j][1] \in Nat /\ split.spans[j][2] \in Nat
           /\ split.spans[j][1] < split.spans[j][2] /\ split.spans[j][2] <= split.routed
           /\ split.spans[j][2] - split.spans[j][1] <= MaxSpan
      /\ \A i, j \in 1 .. m : i < j => split.spans[i][2] <= split.spans[j][1]
  <2>1. split.spans \in Seq(Nat \X Nat)
    BY Zenon DEF Tiles
  <2>2. m \in Nat
    BY <2>1
  <2> QED BY <2>2, Zenon DEF Tiles
<1>3. DOMAIN assign = 1 .. m
  BY Zenon
<1> HIDE DEF m
<1>4. S \subseteq 1 .. m /\ S \subseteq Int /\ IsFiniteSet(S)
  <2>1. S \in SUBSET (1 .. m)
    BY <1>3
  <2>2. 1 \in Int /\ m \in Int /\ \A j \in 1 .. m : j \in Int
    BY <1>2
  <2>3. IsFiniteSet(1 .. m)
    BY <2>2, FS_Interval, Zenon
  <2> HIDE DEF S
  <2>4. IsFiniteSet(S)
    BY <2>1, <2>3, FS_Subset, Zenon
  <2> QED BY <2>1, <2>2, <2>4, Zenon
<1>5. \A j \in S : j \in 1 .. m /\ assign[j] = s
  BY <1>4
<1>6. \A j \in 1 .. m : assign[j] = s => j \in S
  BY <1>3
<1> HIDE DEF S
<1>7. /\ c \in Nat /\ mine \in [1 .. c -> S] /\ \A x \in S : \E i \in 1 .. c : mine[i] = x
      /\ \A i, j \in 1 .. c : i < j => mine[i] < mine[j]
  BY <1>4, AscendingIs, Zenon
<1> HIDE DEF mine, c
<1>8. new = [i \in 1 .. c |-> new[i]] /\ \A i \in 1 .. c : new[i] = piece(mine[i])
  <2>1. DOMAIN mine = 1 .. c
    BY <1>7, Zenon
  <2> QED BY <2>1, Zenon
<1> HIDE DEF new
<1>9. ASSUME NEW j \in 1 .. m
      PROVE  /\ IsPiece(piece(j), Begins(split, start, j), Ends(split, start, j))
             /\ Begins(split, start, j) \in Nat /\ Ends(split, start, j) \in Nat
             /\ start <= Begins(split, start, j)
  <2> DEFINE a == split.spans[j][1]  b == split.spans[j][2]
  <2>1. a \in Nat /\ b \in Nat /\ a < b /\ b <= split.routed /\ b - a <= MaxSpan
    BY <1>2, <1>9, Zenon
  <2>2. split.routed \in Nat /\ split.routed <= n
    BY <1>2
  <2> HIDE DEF a, b
  <2>3. b <= n
    BY <2>1, <2>2
  <2>4. IsPiece(PieceOf(cut, start, a, b), start + a, start + b)
    BY <2>1, <2>3, PieceIs
  <2>5. start + a \in Nat /\ start + b \in Nat /\ start <= start + a
    BY <2>1
  <2> QED BY <2>4, <2>5, Zenon DEF a, b, Begins, Ends
<1> HIDE DEF piece
<1>10. \A i \in 1 .. c : mine[i] \in S /\ mine[i] \in 1 .. m /\ mine[i] \in Nat
  <2>1. \A i \in 1 .. c : mine[i] \in S
    BY <1>7, Zenon
  <2>2. \A j \in 1 .. m : j \in Nat
    OBVIOUS
  <2> QED BY <1>5, <2>1, <2>2, Zenon
<1>11. \A i \in 1 .. c :
         /\ IsPiece(new[i], Begins(split, start, mine[i]), Ends(split, start, mine[i]))
         /\ Begins(split, start, mine[i]) \in Nat /\ Ends(split, start, mine[i]) \in Nat
         /\ start <= Begins(split, start, mine[i])
  BY <1>8, <1>9, <1>10, Zenon
<1>12. new \in Seq(Spans) /\ DOMAIN new = 1 .. c
  <2>1. \A i \in 1 .. c : new[i] \in Spans
    BY <1>11, Zenon DEF IsPiece
  <2> DEFINE P == Spans
  <2>2. \A i \in 1 .. c : new[i] \in P
    BY <2>1
  <2> HIDE DEF P
  <2>3. new \in Seq(P) /\ DOMAIN new = 1 .. c
    BY <1>7, <1>8, <2>2, ListOf
  <2> QED BY <2>3 DEF P
<1>13. \A i, k \in 1 .. c : i < k => LastOf(new[i]) < FirstOf(new[k])
  <2> TAKE i, k \in 1 .. c
  <2> HAVE i < k
  <2> DEFINE a == mine[i]  b == mine[k]  p == split.spans[a][2]  q == split.spans[b][1]
  <2>1. a < b /\ a \in 1 .. m /\ b \in 1 .. m
    BY <1>7, <1>10
  <2>2. p <= q /\ p \in Nat /\ q \in Nat
    BY <1>2, <2>1, Zenon
  <2>4. /\ IsPiece(new[i], Begins(split, start, a), Ends(split, start, a))
        /\ IsPiece(new[k], Begins(split, start, b), Ends(split, start, b))
    BY <1>11, Zenon
  <2>3. LastOf(new[i]) = start + p - 1 /\ FirstOf(new[k]) = start + q
    <3>1. /\ LastOf(new[i]) = Ends(split, start, a) - 1
          /\ FirstOf(new[k]) = Begins(split, start, b)
      BY <2>4, Zenon DEF IsPiece
    <3>2. Ends(split, start, a) = start + p /\ Begins(split, start, b) = start + q
      BY Zenon DEF Begins, Ends
    <3> DEFINE d == LastOf(new[i])  e == FirstOf(new[k])
    <3>3. d = Ends(split, start, a) - 1 /\ e = Begins(split, start, b)
      BY <3>1, Zenon
    <3> DEFINE u == Ends(split, start, a)  v == Begins(split, start, b)
    <3>5. d = u - 1 /\ e = v /\ u = start + p /\ v = start + q
      BY <3>2, <3>3, Zenon
    <3>6. p \in Nat /\ q \in Nat /\ start \in Nat
      BY <2>2, Zenon
    <3> HIDE DEF d, e, p, q, u, v
    <3>4. d = start + p - 1 /\ e = start + q
      BY <3>5, <3>6
    <3> QED BY <3>4, Zenon DEF d, e
  <2> HIDE DEF p, q
  <2> QED BY <2>2, <2>3
<1>14. InOrder(new)
  <2>1. \A i \in 1 .. c : IsSpan(new[i])
    BY <1>11, Zenon DEF IsPiece
  <2> QED BY <1>12, <1>13, <2>1, Zenon DEF InOrder
<1>15. \A i \in 1 .. c : FirstOf(new[i]) \in Nat /\ start <= FirstOf(new[i])
  <2>1. \A i \in 1 .. c : FirstOf(new[i]) = Begins(split, start, mine[i])
    BY <1>11, Zenon DEF IsPiece
  <2> QED BY <1>11, <2>1, Zenon
<1>16. \A x : x \in ToSet(KV(new)) <=>
         \E i \in 1 .. c :
            x \in Begins(split, start, mine[i]) .. Ends(split, start, mine[i]) - 1
  <2>1. \A x : x \in ToSet(KV(new)) <=> \E i \in DOMAIN new : x \in ToSet(new[i].kv)
    BY <1>12, <1>14, KVInOrder, Zenon
  <2>2. \A i \in 1 .. c : \A x :
          x \in ToSet(new[i].kv) <=>
            x \in Begins(split, start, mine[i]) .. Ends(split, start, mine[i]) - 1
    BY <1>11, Zenon DEF IsPiece
  <2> QED BY <1>12, <2>1, <2>2, Zenon
<1>17. \A x : x \in ToSet(KV(new)) <=>
         \E j \in 1 .. m :
            assign[j] = s /\ x \in Begins(split, start, j) .. Ends(split, start, j) - 1
  <2> TAKE x
  <2>1. ASSUME NEW i \in 1 .. c,
               x \in Begins(split, start, mine[i]) .. Ends(split, start, mine[i]) - 1
        PROVE  \E j \in 1 .. m :
                  assign[j] = s /\ x \in Begins(split, start, j) .. Ends(split, start, j) - 1
    <3>1. mine[i] \in 1 .. m /\ assign[mine[i]] = s
      BY <1>5, <1>10, Zenon
    <3> QED BY <2>1, <3>1, Zenon
  <2>2. ASSUME NEW j \in 1 .. m, assign[j] = s,
               x \in Begins(split, start, j) .. Ends(split, start, j) - 1
        PROVE  \E i \in 1 .. c :
                  x \in Begins(split, start, mine[i]) .. Ends(split, start, mine[i]) - 1
    <3>1. PICK i \in 1 .. c : mine[i] = j
      BY <1>6, <1>7, <2>2, Zenon
    <3> QED BY <2>2, <3>1, Zenon
  <2> QED BY <1>16, <2>1, <2>2, Zenon
<1>18. NewFor(new, split, assign, start, s)
  <2>1. \A x : x \in ToSet(KV(new)) <=>
          \E j \in 1 .. Len(split.spans) : assign[j] = s /\ x \in Piece(split, start, j)
    <3>1. \A x : x \in ToSet(KV(new)) <=>
            \E j \in 1 .. m : assign[j] = s /\ x \in Piece(split, start, j)
      BY <1>17, Zenon DEF Piece
    <3> QED BY <3>1, Zenon DEF m
  <2>2. \A i \in DOMAIN new : FirstOf(new[i]) \in Nat /\ start <= FirstOf(new[i])
    BY <1>12, <1>15, Zenon
  <2> QED BY <1>12, <1>14, <2>1, <2>2, Zenon DEF NewFor
<1> QED BY <1>1, <1>18, Zenon

-----------------------------------------------------------------------------
(***************************************************************************)
(* What a slot keeps.                                                      *)
(***************************************************************************)

\* Old spans and new ones, which begin where no old one is.
LEMMA JoinInOrder ==
    ASSUME NEW old \in Seq(Spans), InOrder(old), NEW new \in Seq(Spans), InOrder(new),
           NEW start \in Nat,
           \A i \in DOMAIN old : LastOf(old[i]) \in Nat /\ LastOf(old[i]) < start,
           \A i \in DOMAIN new : FirstOf(new[i]) \in Nat /\ start <= FirstOf(new[i])
    PROVE  LET w == old \o new IN
           /\ w \in Seq(Spans) /\ InOrder(w)
           /\ \A i \in DOMAIN w : \/ \E k \in DOMAIN old : w[i] = old[k]
                                  \/ \E k \in DOMAIN new : w[i] = new[k]
<1> DEFINE P == Spans  m == Len(old)  n == Len(new)  w == old \o new
<1>1. old \in Seq(P) /\ new \in Seq(P)
  OBVIOUS
<1> HIDE DEF P
<1>2. m \in Nat /\ n \in Nat /\ DOMAIN old = 1 .. m /\ DOMAIN new = 1 .. n
  BY <1>1
<1>3. /\ w \in Seq(P) /\ Len(w) = m + n
      /\ \A i \in 1 .. m : w[i] = old[i]
      /\ \A i \in m + 1 .. m + n : w[i] = new[i - m]
  BY <1>1, Joined, Zenon
<1>4. DOMAIN w = 1 .. m + n
  BY <1>1, <1>3
<1> HIDE DEF m, n, w
<1>5. \A i \in 1 .. m + n : i \in 1 .. m \/ (i \in m + 1 .. m + n /\ i - m \in 1 .. n)
  BY <1>2
<1>6. \A i \in 1 .. m + n : \/ \E k \in 1 .. m : w[i] = old[k]
                            \/ \E k \in 1 .. n : w[i] = new[k]
  BY <1>3, <1>5, Zenon
<1>7. \A i \in 1 .. m + n : IsSpan(w[i])
  <2>1. (\A i \in 1 .. m : IsSpan(old[i])) /\ \A i \in 1 .. n : IsSpan(new[i])
    BY <1>2, Zenon DEF InOrder
  <2> QED BY <1>6, <2>1, Zenon
<1>8. ASSUME NEW i \in 1 .. m + n, NEW j \in 1 .. m + n, i < j
      PROVE  LastOf(w[i]) < FirstOf(w[j])
  <2>1. CASE j \in 1 .. m
    <3>1. i \in 1 .. m
      BY <1>2, <1>8, <2>1
    <3>2. LastOf(old[i]) < FirstOf(old[j])
      BY <1>2, <1>8, <2>1, <3>1, Zenon DEF InOrder
    <3> QED BY <1>3, <2>1, <3>1, <3>2, Zenon
  <2>2. CASE i \in m + 1 .. m + n
    <3> DEFINE a == i - m  b == j - m
    <3>1. j \in m + 1 .. m + n /\ a \in 1 .. n /\ b \in 1 .. n /\ a < b
      BY <1>2, <1>8, <2>2
    <3>2. w[i] = new[a] /\ w[j] = new[b]
      BY <1>3, <2>2, <3>1, Zenon
    <3> HIDE DEF a, b
    <3>3. LastOf(new[a]) < FirstOf(new[b])
      BY <1>2, <3>1, Zenon DEF InOrder
    <3> QED BY <3>2, <3>3, Zenon
  <2>3. CASE i \in 1 .. m /\ j \in m + 1 .. m + n
    <3> DEFINE b == j - m
    <3>1. b \in 1 .. n
      BY <1>2, <2>3
    <3>2. w[i] = old[i] /\ w[j] = new[b]
      BY <1>3, <2>3, Zenon
    <3> HIDE DEF b
    <3> DEFINE p == LastOf(old[i])  q == FirstOf(new[b])
    <3>3. p \in Nat /\ p < start /\ q \in Nat /\ start <= q
      BY <1>2, <2>3, <3>1, Zenon
    <3> HIDE DEF p, q
    <3>4. p < q
      BY <3>3
    <3> QED BY <3>2, <3>4, Zenon DEF p, q
  <2> QED BY <1>5, <1>8, <2>1, <2>2, <2>3, Zenon
<1>9. InOrder(w)
  BY <1>4, <1>7, <1>8, Zenon DEF InOrder
<1>10. w \in Seq(Spans)
  BY <1>3, Zenon DEF P
<1>11. \A i \in DOMAIN w : \/ \E k \in DOMAIN old : w[i] = old[k]
                           \/ \E k \in DOMAIN new : w[i] = new[k]
  BY <1>2, <1>4, <1>6, Zenon
<1> QED BY <1>9, <1>10, <1>11, Zenon DEF w

\* Some of the spans, in their order.
LEMMA PickIs ==
    ASSUME NEW seq \in Seq(Spans), InOrder(seq), NEW kept \in SUBSET DOMAIN seq
    PROVE  LET w == Pick(seq, kept) IN
           /\ w \in Seq(Spans) /\ InOrder(w) /\ Len(w) = Cardinality(kept)
           /\ DOMAIN w = 1 .. Len(w) /\ Len(w) \in Nat
           /\ \A i \in DOMAIN w : \E k \in kept : w[i] = seq[k]
<1> DEFINE P == Spans  n == Len(seq)  ix == Ascending(kept)  c == Cardinality(kept)
           w == Pick(seq, kept)
<1>1. seq \in Seq(P)
  OBVIOUS
<1> HIDE DEF P
<1>2. n \in Nat /\ DOMAIN seq = 1 .. n /\ \A i \in 1 .. n : seq[i] \in P
  BY <1>1
<1>3. kept \subseteq 1 .. n /\ kept \subseteq Int /\ IsFiniteSet(kept)
  <2>1. kept \in SUBSET (1 .. n)
    BY <1>2
  <2>2. 1 \in Int /\ n \in Int /\ \A j \in 1 .. n : j \in Int
    BY <1>2
  <2>3. IsFiniteSet(1 .. n)
    BY <2>2, FS_Interval, Zenon
  <2>4. IsFiniteSet(kept)
    BY <2>1, <2>3, FS_Subset, Zenon
  <2> QED BY <2>1, <2>2, <2>4, Zenon
<1> HIDE DEF n
<1>4. /\ c \in Nat /\ ix \in [1 .. c -> kept]
      /\ \A i, j \in 1 .. c : i < j => ix[i] < ix[j]
  BY <1>3, AscendingIs, Zenon
<1>5. w = [i \in DOMAIN ix |-> seq[ix[i]]]
  BY Zenon DEF Pick
<1> HIDE DEF ix, c, w
<1>6. w = [i \in 1 .. c |-> w[i]] /\ \A i \in 1 .. c : w[i] = seq[ix[i]]
  <2>1. DOMAIN ix = 1 .. c
    BY <1>4, Zenon
  <2>2. w = [i \in 1 .. c |-> seq[ix[i]]]
    BY <1>5, <2>1, Zenon
  <2> QED BY <2>2, Zenon
<1>7. \A i \in 1 .. c : ix[i] \in kept /\ ix[i] \in 1 .. n
  BY <1>3, <1>4, Zenon
<1>8. w \in Seq(P) /\ Len(w) = c /\ DOMAIN w = 1 .. c
  <2>1. \A i \in 1 .. c : w[i] \in P
    BY <1>2, <1>6, <1>7, Zenon
  <2> QED BY <1>4, <1>6, <2>1, ListOf
<1>9. InOrder(w)
  <2>1. \A i \in 1 .. c : IsSpan(w[i])
    BY <1>2, <1>6, <1>7, Zenon DEF InOrder
  <2>2. \A i, j \in 1 .. c : i < j => LastOf(w[i]) < FirstOf(w[j])
    BY <1>2, <1>4, <1>6, <1>7, Zenon DEF InOrder
  <2> QED BY <1>8, <2>1, <2>2, Zenon DEF InOrder
<1>10. \A i \in DOMAIN w : \E k \in kept : w[i] = seq[k]
  BY <1>6, <1>7, <1>8, Zenon
<1>11. w \in Seq(Spans)
  BY <1>8, Zenon DEF P
<1> QED BY <1>4, <1>8, <1>9, <1>10, <1>11, Zenon DEF w, c

\* One span has at most MaxSpan tokens.
LEMMA KVOne ==
    ASSUME NEW w \in Seq(Spans), InOrder(w), Len(w) = 1
    PROVE  Len(KV(w)) <= MaxSpan
<1> DEFINE ss == [i \in DOMAIN w |-> w[i].kv]  sp == w[1]  kv == sp.kv  n == Len(kv)
<1>1. ss \in Seq(Seq(Nat)) /\ Len(ss) = 1 /\ 1 \in 1 .. 1 /\ DOMAIN w = 1 .. 1
      /\ \A i \in 1 .. 1 : ss[i] = w[i].kv
  <2>1. 1 \in 1 .. 1
    OBVIOUS
  <2> QED BY <2>1, KVParts, Zenon
<1>2. KV(w) = FlattenSeq(ss)
  BY Zenon DEF KV
<1>3. ss[1] = kv
  BY <1>1, Zenon
<1>4. sp \in Spans /\ IsSpan(sp)
  <2>1. \A i \in DOMAIN w : w[i] \in Spans
    OBVIOUS
  <2>2. 1 \in DOMAIN w
    BY <1>1, Zenon
  <2> QED BY <2>1, <2>2, Zenon DEF InOrder
<1> HIDE DEF ss, sp
<1>5. kv \in Seq(Nat) /\ n \in 1 .. MaxSpan
  BY <1>4, SpanIs, Zenon
<1> HIDE DEF kv
<1>6. PICK f \in [0 .. Len(ss) -> Seq(Nat)] :
        /\ f[0] = << >> /\ FlattenSeq(ss) = f[Len(ss)]
        /\ \A i \in 1 .. Len(ss) : f[i] = f[i - 1] \o ss[i]
  BY <1>1, FlattenIs, Zenon
<1>7. f[1] = << >> \o kv
  <2>1. 1 - 1 = 0
    OBVIOUS
  <2>2. f[1] = f[1 - 1] \o ss[1]
    BY <1>1, <1>6, Zenon
  <2> QED BY <1>3, <1>6, <2>1, <2>2, Zenon
<1>8. KV(w) = kv
  <2>1. << >> \o kv = kv
    BY <1>5, JoinEmpty, Zenon
  <2> QED BY <1>1, <1>2, <1>6, <1>7, <2>1, Zenon
<1> QED BY <1>5, <1>8, ConstantTypes

\* What is kept of the candidates is within the budget.
LEMMA KeepIs ==
    ASSUME NEW seq \in Seq(Spans), InOrder(seq), NEW kept \in KeepSets(seq)
    PROVE  LET w == Pick(seq, kept) IN
           /\ w \in Seq(Spans) /\ InOrder(w) /\ Len(w) = Cardinality(kept)
           /\ DOMAIN w = 1 .. Len(w) /\ Len(w) \in Nat
           /\ \A i \in DOMAIN w : \E k \in DOMAIN seq : w[i] = seq[k]
           /\ Len(KV(w)) <= Max({SpanBudget, MaxSpan}) /\ Len(KV(w)) \in Nat
<1>1. /\ kept \in SUBSET DOMAIN seq
      /\ Cardinality(kept) = 1 \/ Len(KV(Pick(seq, kept))) <= SpanBudget
  BY DEF KeepSets
<1> DEFINE w == Pick(seq, kept)  n == Len(KV(w))
<1>2. /\ w \in Seq(Spans) /\ InOrder(w) /\ Len(w) = Cardinality(kept)
      /\ DOMAIN w = 1 .. Len(w) /\ Len(w) \in Nat
      /\ \A i \in DOMAIN w : \E k \in kept : w[i] = seq[k]
  BY <1>1, PickIs, Zenon
<1> HIDE DEF w
<1>3. n \in Nat
  BY <1>2, KVTypes, Zenon
<1>4. n <= MaxSpan \/ n <= SpanBudget
  BY <1>1, <1>2, KVOne, Zenon DEF w
<1> HIDE DEF n
<1>5. n <= Max({SpanBudget, MaxSpan})
  <2>1. SpanBudget \in Int /\ MaxSpan \in Int
    BY ConstantTypes
  <2>2. Max({SpanBudget, MaxSpan}) = IF SpanBudget >= MaxSpan THEN SpanBudget ELSE MaxSpan
    BY <2>1, MaxOfTwo, Zenon
  <2> QED BY <1>3, <1>4, <2>1, <2>2
<1>6. \A i \in DOMAIN w : \E k \in DOMAIN seq : w[i] = seq[k]
  BY <1>1, <1>2, Zenon
<1> QED BY <1>2, <1>3, <1>5, <1>6, Zenon DEF w, n

-----------------------------------------------------------------------------
(***************************************************************************)
(* A fold of a layer.                                                      *)
(***************************************************************************)

\* The tail when there is something to fold.
LEMMA TailIs ==
    ASSUME NEW y, Sound(y), NEW n \in Nat, n <= Len(y.pend), n >= 1
    PROVE  LET start == SinkTokens + y.evicted  p == Len(y.pend) IN
           /\ start \in Nat /\ p \in Nat /\ Len(y.sink) = SinkTokens
           /\ y.pend = Positions(start, start + p) /\ start + p <= y.cumulative
           /\ SubSeq(y.pend, 1, n) = Positions(start, start + n)
           /\ SubSeq(y.pend, n + 1, Len(y.pend)) = Positions(start + n, start + p)
           /\ y.ring = Positions(start + p, y.cumulative)
<1> DEFINE k == Len(y.sink)  e == y.evicted  p == Len(y.pend)  r == Len(y.ring)
           c == y.cumulative  st == SinkTokens  start == st + e
<1>1. y \in LayerStates /\ Placed(y)
  BY Zenon DEF Sound
<1>2. /\ k \in Nat /\ k + e \in Nat /\ k + e <= c
      /\ k = (IF st <= c THEN st ELSE c)
      /\ p \in Nat /\ r \in Nat /\ c = k + e + p + r
      /\ y.pend = Positions(k + e, k + e + p)
      /\ y.ring = Positions(k + e + p, c)
      /\ c < st => k = c /\ e = 0 /\ y.pend = << >> /\ y.ring = << >>
  BY <1>1, PlacedPieces, Zenon
<1>3. c \in Nat /\ e \in Nat /\ st \in Nat /\ n \in Nat
  BY <1>1, LayerTypes, ConstantTypes, Zenon
<1>4. y.pend = << >> => p = 0
  BY DEF p
<1> HIDE DEF k, e, p, r, c, st
<1>5. n <= p /\ n >= 1
  BY Zenon DEF p
<1>6. k = st
  BY <1>2, <1>3, <1>4, <1>5
<1>7. start \in Nat /\ k + e = start /\ start + p <= c
  BY <1>2, <1>3, <1>6
<1>8. y.pend = Positions(start, start + p) /\ y.ring = Positions(start + p, c)
  BY <1>2, <1>7, Zenon
<1> HIDE DEF start
<1>9. SubSeq(y.pend, 1, n) = Positions(start, start + n)
  <2>1. 0 \in Nat /\ 0 <= n /\ start \in Nat /\ p \in Nat /\ n \in Nat /\ n <= p
    BY <1>2, <1>5, <1>7
  <2>2. SubSeq(Positions(start, start + p), 0 + 1, n) = Positions(start + 0, start + n)
    BY <2>1, PositionsSub, ZenonT(40)
  <2>3. 0 + 1 = 1 /\ start + 0 = start
    BY <1>7
  <2> QED BY <1>8, <2>2, <2>3, Zenon
<1>10. SubSeq(y.pend, n + 1, p) = Positions(start + n, start + p)
  <2>1. start \in Nat /\ p \in Nat /\ n \in Nat /\ n <= p /\ p <= p
    BY <1>2, <1>5, <1>7
  <2>2. SubSeq(Positions(start, start + p), n + 1, p) = Positions(start + n, start + p)
    BY <2>1, PositionsSub
  <2> QED BY <1>8, <2>2, Zenon
<1> QED BY <1>2, <1>6, <1>7, <1>8, <1>9, <1>10, Zenon DEF k, e, p, c, st, start

\* The pieces of a split: none of them before the cut or past what is routed,
\* each position in one of them.
LEMMA TilesMeet ==
    ASSUME NEW n \in Nat, NEW split, Tiles(split, n), NEW start \in Nat
    PROVE  LET m == Len(split.spans)  w == start + split.routed IN
           /\ \A j \in 1 .. m : \A x \in Piece(split, start, j) :
                x \in Nat /\ start <= x /\ x < w
           /\ \A i, j \in 1 .. m : \A x :
                x \in Piece(split, start, i) /\ x \in Piece(split, start, j) => i = j
           /\ \A x \in start .. w - 1 : \E j \in 1 .. m : x \in Piece(split, start, j)
           /\ w \in Nat /\ start < w /\ w <= start + n /\ split.routed \in Nat
<1> DEFINE m == Len(split.spans)  routed == split.routed  w == start + routed
           a(j) == split.spans[j][1]  b(j) == split.spans[j][2]
           A == [j \in 1 .. m |-> split.spans[j][1]]  B == [j \in 1 .. m |-> split.spans[j][2]]
<1>1. /\ m \in Nat /\ routed \in 1 .. n
      /\ \A j \in 1 .. m : /\ A[j] \in Nat /\ B[j] \in Nat
                           /\ A[j] < B[j] /\ B[j] <= routed
      /\ \A i, j \in 1 .. m : i < j => B[i] <= A[j]
      /\ \A x \in 0 .. routed - 1 : \E j \in 1 .. m : A[j] <= x /\ x < B[j]
  <2>1. split.spans \in Seq(Nat \X Nat)
    BY Zenon DEF Tiles
  <2>2. m \in Nat
    BY <2>1
  <2>3. \A j \in 1 .. m : A[j] = split.spans[j][1] /\ B[j] = split.spans[j][2]
    BY Zenon
  <2>4. /\ routed \in 1 .. n
        /\ \A j \in 1 .. m :
             /\ split.spans[j][1] \in Nat /\ split.spans[j][2] \in Nat
             /\ split.spans[j][1] < split.spans[j][2] /\ split.spans[j][2] <= routed
        /\ \A i, j \in 1 .. m : i < j => split.spans[i][2] <= split.spans[j][1]
        /\ \A x \in 0 .. routed - 1 :
             \E j \in 1 .. m : split.spans[j][1] <= x /\ x < split.spans[j][2]
    BY Zenon DEF Tiles
  <2> HIDE DEF A, B, m
  <2> QED BY <2>2, <2>3, <2>4, Zenon
<1>2. \A j \in 1 .. m : Piece(split, start, j) = start + A[j] .. (start + B[j]) - 1
  <2> TAKE j \in 1 .. m
  <2>1. A[j] = split.spans[j][1] /\ B[j] = split.spans[j][2]
    BY Zenon
  <2> HIDE DEF A, B, m
  <2> QED BY <2>1 DEF Piece, Begins, Ends
<1> HIDE DEF m, routed, A, B
<1>3. w \in Nat /\ start < w /\ w <= start + n /\ routed \in Nat
  BY <1>1
<1>4. ASSUME NEW j \in 1 .. m, NEW x \in Piece(split, start, j)
      PROVE  x \in Nat /\ start <= x /\ x < w
  <2> DEFINE c == A[j]  d == B[j]
  <2>1. c \in Nat /\ d \in Nat /\ d <= routed /\ x \in start + c .. (start + d) - 1
    BY <1>1, <1>2, <1>4, Zenon
  <2> HIDE DEF c, d
  <2> QED BY <1>3, <2>1
<1>5. ASSUME NEW i \in 1 .. m, NEW j \in 1 .. m, NEW x, i < j,
             x \in Piece(split, start, i), x \in Piece(split, start, j)
      PROVE  FALSE
  <2> DEFINE c == A[i]  d == B[i]  e == A[j]  f == B[j]
  <2>1. /\ c \in Nat /\ d \in Nat /\ e \in Nat /\ f \in Nat /\ d <= e
        /\ x \in start + c .. (start + d) - 1 /\ x \in start + e .. (start + f) - 1
    BY <1>1, <1>2, <1>5, Zenon
  <2> HIDE DEF c, d, e, f
  <2> QED BY <2>1
<1>6. \A i, j \in 1 .. m : \A x :
         x \in Piece(split, start, i) /\ x \in Piece(split, start, j) => i = j
  <2>1. \A i, j \in 1 .. m : i < j \/ j < i \/ i = j
    BY <1>1
  <2> QED BY <1>5, <2>1, Zenon
<1>7. ASSUME NEW x \in start .. w - 1
      PROVE  \E j \in 1 .. m : x \in Piece(split, start, j)
  <2> DEFINE z == x - start
  <2>1. z \in 0 .. routed - 1 /\ x = start + z /\ z \in Nat
    BY <1>3
  <2> HIDE DEF z
  <2>2. PICK j \in 1 .. m : A[j] <= z /\ z < B[j]
    BY <1>1, <2>1, Zenon
  <2> DEFINE c == A[j]  d == B[j]
  <2>3. c \in Nat /\ d \in Nat /\ c <= z /\ z < d
    BY <1>1, <2>2, Zenon
  <2> HIDE DEF c, d
  <2>4. x \in start + c .. (start + d) - 1
    BY <2>1, <2>3
  <2> QED BY <1>2, <2>4, Zenon DEF c, d
<1> QED BY <1>3, <1>4, <1>6, <1>7, Zenon DEF m, routed

\* What is decided of the cut of a layer.
CutOf(y)   == SubSeq(y.pend, 1, RouteChunk)
StartOf(y) == SinkTokens + y.evicted
NewOf(y, op, s)  == SpansFor(op, op.assign, CutOf(y), StartOf(y), s)
KeptOf(y, op, s) ==
                    IF s \in DOMAIN op.keeps THEN Pick(y.spans[s] \o NewOf(y, op, s), op.keeps[s])
                                             ELSE y.spans[s]
Decided(y, op) ==
    /\ Tiles(op, RouteChunk)
    /\ op.assign \in [1 .. Len(op.spans) -> Slots]
    /\ DOMAIN op.keeps \subseteq Slots
    /\ \A s \in DOMAIN op.keeps : op.keeps[s] \in KeepSets(y.spans[s] \o NewOf(y, op, s))

MeansOf(y, op, s) == y.means[s] \cup ToSet(KV(NewOf(y, op, s)))

\* What a slot has after the fold.
SlotSound(y, op, s) ==
    /\ KeptOf(y, op, s) \in Seq(Spans) /\ InOrder(KeptOf(y, op, s))
    /\ \A i \in DOMAIN KeptOf(y, op, s) :
         ToSet(KeptOf(y, op, s)[i].kv) \subseteq MeansOf(y, op, s)
    /\ Len(KV(KeptOf(y, op, s))) \in Nat
    /\ Len(KV(KeptOf(y, op, s))) <= Max({SpanBudget, MaxSpan})
    /\ Len(KeptOf(y, op, s)) = IF s \in DOMAIN op.keeps THEN Cardinality(op.keeps[s])
                                                       ELSE Len(y.spans[s])
    /\ NewFor(NewOf(y, op, s), op, op.assign, StartOf(y), s)
    /\ MeansOf(y, op, s) \subseteq Nat

\* Every old token is before the cut.
LEMMA OldIsBefore ==
    ASSUME NEW y, Sound(y), NEW s \in Slots
    PROVE  /\ \A x \in y.means[s] : x \in Nat /\ x < StartOf(y)
           /\ y.spans[s] \in Seq(Spans) /\ InOrder(y.spans[s])
           /\ \A i \in DOMAIN y.spans[s] :
                LastOf(y.spans[s][i]) \in Nat /\ LastOf(y.spans[s][i]) < StartOf(y)
<1> DEFINE old == y.spans[s]  start == StartOf(y)  M == y.means[s]
<1>1. y \in LayerStates /\ Placed(y)
  BY Zenon DEF Sound
<1>2. old \in Seq(Spans) /\ y.evicted \in Nat /\ SinkTokens \in Nat
      /\ y.means \in [Slots -> SUBSET Nat]
  BY <1>1, LayerTypes, ConstantTypes, Zenon
<1>3. start \in Nat /\ start = SinkTokens + y.evicted
  BY <1>2 DEF StartOf
<1>4. UNION Range(y.means) = SinkTokens .. start - 1
  <2>1. UNION Range(y.means) = SinkTokens .. SinkTokens + y.evicted - 1
    BY <1>1, Zenon DEF Placed
  <2> DEFINE st == SinkTokens  e == y.evicted
  <2>2. st \in Nat /\ e \in Nat /\ start = st + e
    BY <1>2, <1>3, Zenon
  <2> HIDE DEF start, st, e
  <2>3. st + e - 1 = start - 1
    BY <2>2
  <2> QED BY <2>1, <2>3, Zenon DEF st, e
<1>5. M \subseteq SinkTokens .. start - 1
  <2>1. M \in Range(y.means)
    BY <1>2 DEF Range
  <2> QED BY <1>4, <2>1, Zenon
<1> HIDE DEF start
<1>6. \A x \in M : x \in Nat /\ x < start
  BY <1>2, <1>3, <1>5
<1>7. /\ \A i \in DOMAIN old : IsSpan(old[i]) /\ ToSet(old[i].kv) \subseteq M
      /\ \A i, j \in DOMAIN old : i < j => LastOf(old[i]) < FirstOf(old[j])
  BY <1>1, Zenon DEF Placed
<1>8. InOrder(old)
  BY <1>7, Zenon DEF InOrder
<1>9. ASSUME NEW i \in DOMAIN old
      PROVE  LastOf(old[i]) \in Nat /\ LastOf(old[i]) < start
  <2> DEFINE sp == old[i]  kv == sp.kv  n == Len(kv)
  <2>1. sp \in Spans /\ IsSpan(sp) /\ ToSet(kv) \subseteq M
    <3>1. \A j \in DOMAIN old : old[j] \in Spans
      BY <1>2
    <3> QED BY <1>7, <1>9, <3>1, Zenon
  <2> HIDE DEF sp
  <2>2. kv \in Seq(Nat) /\ n \in 1 .. MaxSpan /\ n \in Nat
    BY <2>1, SpanIs, Zenon
  <2>3. n \in DOMAIN kv
    BY <2>2
  <2>4. kv[n] \in ToSet(kv)
    BY <2>3, Zenon DEF ToSet
  <2>5. LastOf(sp) = kv[n]
    BY Zenon DEF LastOf
  <2> QED BY <1>6, <2>1, <2>4, <2>5, Zenon DEF sp
<1> QED BY <1>2, <1>6, <1>8, <1>9, Zenon DEF start

\* After a fold a slot is as Sound wants it, if the decision was one of Decisions.
LEMMA SlotFolded ==
    ASSUME NEW y, Sound(y), Len(y.pend) >= RouteChunk, NEW op, Decided(y, op), NEW s \in Slots
    PROVE  SlotSound(y, op, s)
<1> DEFINE old == y.spans[s]  new == NewOf(y, op, s)  kept == KeptOf(y, op, s)
           start == StartOf(y)  n == RouteChunk  cut == CutOf(y)
           budget == Max({SpanBudget, MaxSpan})
<1>1. /\ \A x \in y.means[s] : x \in Nat /\ x < start
      /\ old \in Seq(Spans) /\ InOrder(old)
      /\ \A i \in DOMAIN old : LastOf(old[i]) \in Nat /\ LastOf(old[i]) < start
  BY OldIsBefore, Zenon
<1>2. n \in Nat /\ start \in Nat /\ cut = Positions(start, start + n)
  <2>1. n \in Nat /\ n >= 1
    BY ConstantTypes, Zenon
  <2>2. Len(y.pend) \in Nat
    <3>1. y.pend \in Seq(Nat)
      BY LayerTypes, Zenon DEF Sound
    <3> QED BY <3>1
  <2>3. n <= Len(y.pend)
    BY <2>1, <2>2
  <2> QED BY <2>1, <2>3, TailIs, Zenon DEF CutOf, StartOf
<1>3. NewFor(new, op, op.assign, start, s)
  <2>1. Tiles(op, n) /\ op.assign \in [1 .. Len(op.spans) -> Slots]
    BY Zenon DEF Decided
  <2> HIDE DEF start, n, cut
  <2>2. NewFor(SpansFor(op, op.assign, cut, start, s), op, op.assign, start, s)
    BY <1>2, <2>1, NewSpansAre, Zenon
  <2> QED BY <2>2, Zenon DEF NewOf, cut, start
<1>4. /\ new \in Seq(Spans) /\ InOrder(new)
      /\ \A i \in DOMAIN new : FirstOf(new[i]) \in Nat /\ start <= FirstOf(new[i])
  BY <1>3, Zenon DEF NewFor
<1>5. MeansOf(y, op, s) \subseteq Nat
  <2>1. KV(new) \in Seq(Nat)
    BY <1>4, KVTypes, Zenon
  <2>2. ToSet(KV(new)) \subseteq Nat
    BY <2>1 DEF ToSet
  <2> QED BY <1>1, <2>2, Zenon DEF MeansOf
<1>6. \A i \in DOMAIN old : ToSet(old[i].kv) \subseteq y.means[s]
  BY Zenon DEF Sound, Placed
<1>7. \A i \in DOMAIN new : ToSet(new[i].kv) \subseteq ToSet(KV(new))
  BY <1>4, KVInOrder, Zenon
<1>8. CASE s \in DOMAIN op.keeps
  <2> DEFINE w == old \o new
  <2>1. op.keeps[s] \in KeepSets(w)
    BY <1>8, Zenon DEF Decided
  <2> HIDE DEF old, new, start
  <2>2. /\ w \in Seq(Spans) /\ InOrder(w)
        /\ \A i \in DOMAIN w : \/ \E k \in DOMAIN old : w[i] = old[k]
                               \/ \E k \in DOMAIN new : w[i] = new[k]
    BY <1>1, <1>2, <1>4, JoinInOrder, Zenon
  <2>3. kept = Pick(w, op.keeps[s])
    BY <1>8, Zenon DEF KeptOf, old, new
  <2> HIDE DEF w, kept
  <2>4. /\ kept \in Seq(Spans) /\ InOrder(kept) /\ Len(kept) = Cardinality(op.keeps[s])
        /\ \A i \in DOMAIN kept : \E k \in DOMAIN w : kept[i] = w[k]
        /\ Len(KV(kept)) <= budget /\ Len(KV(kept)) \in Nat
    BY <2>1, <2>2, <2>3, KeepIs, Zenon
  <2>5. \A i \in DOMAIN kept : ToSet(kept[i].kv) \subseteq MeansOf(y, op, s)
    <3>1. \A i \in DOMAIN old : ToSet(old[i].kv) \subseteq MeansOf(y, op, s)
      BY <1>6, Zenon DEF MeansOf
    <3>2. \A i \in DOMAIN new : ToSet(new[i].kv) \subseteq MeansOf(y, op, s)
      BY <1>7, Zenon DEF MeansOf, new
    <3> TAKE i \in DOMAIN kept
    <3>3. PICK k \in DOMAIN w : kept[i] = w[k]
      BY <2>4, Zenon
    <3>4. CASE \E a \in DOMAIN old : w[k] = old[a]
      BY <3>1, <3>3, <3>4, Zenon
    <3>5. CASE \E a \in DOMAIN new : w[k] = new[a]
      BY <3>2, <3>3, <3>5, Zenon
    <3> QED BY <2>2, <3>4, <3>5, Zenon
  <2> QED BY <1>3, <1>5, <1>8, <2>4, <2>5, Zenon DEF SlotSound, kept, new, start
<1>9. CASE s \notin DOMAIN op.keeps
  <2>1. kept = old
    BY <1>9, Zenon DEF KeptOf
  <2>2. y.spanTokens[s] = Len(KV(old)) /\ y.spanTokens[s] <= budget
    BY Zenon DEF Sound, Sized
  <2>3. Len(KV(old)) \in Nat
    BY <1>1, KVTypes, Zenon
  <2>4. \A i \in DOMAIN old : ToSet(old[i].kv) \subseteq MeansOf(y, op, s)
    BY <1>6, Zenon DEF MeansOf
  <2> QED BY <1>1, <1>3, <1>5, <1>9, <2>1, <2>2, <2>3, <2>4, Zenon DEF SlotSound
<1> QED BY <1>8, <1>9, Zenon

-----------------------------------------------------------------------------
(***************************************************************************)
(* A fold, field by field.                                                 *)
(***************************************************************************)

FoldRecord(y, f, e, c, k, m, n, b, a) ==
    /\ f \in LayerStates /\ f.cumulative = y.cumulative
    /\ f.sink = y.sink /\ f.pend = y.pend /\ f.ring = y.ring
    /\ f.dense = y.dense /\ f.released = y.released
    /\ f.evicted = e /\ f.cursor = c /\ f.spans = k /\ f.means = m
    /\ f.spanTokens = n /\ f.bankTokens = b /\ f.activeSlots = a

\* What a fold changes of a layer, field by field.
LEMMA RecordFold ==
    \A y \in LayerStates, e \in Nat, c \in Nat, k \in [Slots -> Seq(Spans)],
       m \in [Slots -> SUBSET Nat], n \in [Slots -> Nat], b \in Int, a \in Int :
       FoldRecord(y, [y EXCEPT !.evicted = e, !.cursor = c, !.spans = k, !.means = m,
                               !.spanTokens = n, !.bankTokens = b, !.activeSlots = a],
                  e, c, k, m, n, b, a)
<1> SUFFICES ASSUME NEW y \in LayerStates, NEW e \in Nat, NEW c \in Nat,
                    NEW k \in [Slots -> Seq(Spans)], NEW m \in [Slots -> SUBSET Nat],
                    NEW n \in [Slots -> Nat], NEW b \in Int, NEW a \in Int
             PROVE  FoldRecord(y, [y EXCEPT !.evicted = e, !.cursor = c, !.spans = k,
                                            !.means = m, !.spanTokens = n, !.bankTokens = b,
                                            !.activeSlots = a], e, c, k, m, n, b, a)
  BY Zenon
<1> DEFINE f == [y EXCEPT !.evicted = e, !.cursor = c, !.spans = k, !.means = m,
                          !.spanTokens = n, !.bankTokens = b, !.activeSlots = a]
<1>1. /\ f \in LayerStates /\ f.cumulative = y.cumulative
      /\ f.sink = y.sink /\ f.pend = y.pend /\ f.ring = y.ring
      /\ f.dense = y.dense /\ f.released = y.released
      /\ f.evicted = e /\ f.cursor = c /\ f.spans = k /\ f.means = m
      /\ f.spanTokens = n /\ f.bankTokens = b /\ f.activeSlots = a
  BY DEF LayerStates
<1> QED BY <1>1, Zenon DEF FoldRecord

\* Another tail in place of the tail.
LEMMA RecordPend ==
    ASSUME NEW y \in LayerStates, NEW p \in Seq(Nat)
    PROVE  LET f == [y EXCEPT !.pend = p] IN
           /\ f \in LayerStates /\ f.cumulative = y.cumulative
           /\ f.sink = y.sink /\ f.pend = p /\ f.ring = y.ring
           /\ f.dense = y.dense /\ f.released = y.released
           /\ f.evicted = y.evicted /\ f.cursor = y.cursor /\ f.spans = y.spans
           /\ f.means = y.means /\ f.spanTokens = y.spanTokens
           /\ f.bankTokens = y.bankTokens /\ f.activeSlots = y.activeSlots
  BY DEF LayerStates

\* Two states of a layer are equal if their fields are.
LEMMA SameFields ==
    ASSUME NEW y \in LayerStates, NEW z \in LayerStates, SameState(y, z),
           z.dense = y.dense, z.released = y.released
    PROVE  z = y
<1>1. \A x \in LayerStates :
         x = [cumulative |-> x.cumulative, sink |-> x.sink, ring |-> x.ring, pend |-> x.pend,
              spans |-> x.spans, means |-> x.means, spanTokens |-> x.spanTokens,
              bankTokens |-> x.bankTokens, activeSlots |-> x.activeSlots,
              evicted |-> x.evicted, cursor |-> x.cursor, dense |-> x.dense,
              released |-> x.released]
  BY DEF LayerStates
<1> QED BY <1>1, Zenon DEF SameState, SameBank

\* A sum of counts is a count.
LEMMA TotalTypes ==
    ASSUME NEW count \in [Slots -> Nat]
    PROVE  TotalOf(count) \in Nat
<1>1. RoutedSlots \in Nat
  BY ConstantTypes, Zenon
<1>2. PICK f \in [0 .. RoutedSlots -> Nat] : TotalOf(count) = f[RoutedSlots]
  BY <1>1, TotalIs, Zenon
<1> QED BY <1>1, <1>2

\* The slots that are in use.
LEMMA UsedTypes ==
    ASSUME NEW f
    PROVE  Cardinality({s \in Slots : f[s] # << >>}) \in Nat
<1> DEFINE A == {s \in Slots : f[s] # << >>}
<1>1. RoutedSlots \in Nat
  BY ConstantTypes, Zenon
<1>2. IsFiniteSet(Slots)
  <2>1. 1 \in Int /\ RoutedSlots \in Int
    BY <1>1
  <2> QED BY <2>1, FS_Interval, Zenon DEF Slots
<1>3. A \in SUBSET Slots
  OBVIOUS
<1> HIDE DEF A
<1> QED BY <1>2, <1>3, FS_Subset, FS_CardinalityType, Zenon DEF A

\* The state of z, which has the bank of y, after the spans of the cut of y went
\* to their slots: all but the tail.
SpansOf(y, op)  == [s \in Slots |-> KeptOf(y, op, s)]
CountOf(y, op)  == [s \in Slots |-> Len(KV(KeptOf(y, op, s)))]
Committing(y, op, z, f) ==
    /\ f \in LayerStates /\ f.cumulative = z.cumulative
    /\ f.sink = z.sink /\ f.pend = z.pend /\ f.ring = z.ring
    /\ f.dense = z.dense /\ f.released = z.released
    /\ f.evicted = y.evicted + op.routed /\ f.cursor = y.cursor + 1
    /\ f.spans = SpansOf(y, op) /\ f.means = [s \in Slots |-> MeansOf(y, op, s)]
    /\ f.spanTokens = CountOf(y, op)
    /\ f.bankTokens = y.bankTokens + TotalOf(CountOf(y, op)) - TotalOf(y.spanTokens)
    /\ f.activeSlots = y.activeSlots + Cardinality({s \in Slots : SpansOf(y, op)[s] # << >>})
                                     - Cardinality({s \in Slots : y.spans[s] # << >>})

\* _commit_route_fold, field by field; z is y but for its tail.
LEMMA FoldFields ==
    ASSUME NEW y, Sound(y), Len(y.pend) >= RouteChunk, NEW op, Decided(y, op),
           NEW z \in LayerStates, SameBank(y, z)
    PROVE  Committing(y, op, z, Folded(z, op, CutOf(y)))
<1> DEFINE e == y.evicted + op.routed  c == y.cursor + 1
           k == SpansOf(y, op)  m == [s \in Slots |-> MeansOf(y, op, s)]  n == CountOf(y, op)
           u == Cardinality({s \in Slots : k[s] # << >>})
           v == Cardinality({s \in Slots : y.spans[s] # << >>})
           b == y.bankTokens + TotalOf(n) - TotalOf(y.spanTokens)
           a == y.activeSlots + u - v
           f == Folded(z, op, CutOf(y))
<1>1. y \in LayerStates
  BY Zenon DEF Sound
<1>2. \A s \in Slots : SlotSound(y, op, s)
  BY SlotFolded, Zenon
<1>3. e \in Nat /\ c \in Nat
  <2> DEFINE w == RouteChunk  r == op.routed
  <2>1. r \in 1 .. w /\ w \in Nat /\ y.evicted \in Nat /\ y.cursor \in Nat
    BY <1>1, LayerTypes, ConstantTypes, Zenon DEF Decided, Tiles
  <2> HIDE DEF w, r
  <2>2. r \in Nat
    BY <2>1
  <2> QED BY <2>1, <2>2 DEF r
<1>4. k \in [Slots -> Seq(Spans)]
  <2>1. \A s \in Slots : KeptOf(y, op, s) \in Seq(Spans)
    BY <1>2, Zenon DEF SlotSound
  <2> QED BY <2>1, Zenon DEF SpansOf
<1>5. m \in [Slots -> SUBSET Nat]
  <2>1. \A s \in Slots : MeansOf(y, op, s) \in SUBSET Nat
    BY <1>2, Zenon DEF SlotSound
  <2> QED BY <2>1, Zenon
<1>6. n \in [Slots -> Nat]
  <2>1. \A s \in Slots : Len(KV(KeptOf(y, op, s))) \in Nat
    BY <1>2, Zenon DEF SlotSound
  <2> QED BY <2>1, Zenon DEF CountOf
<1>7. b \in Int
  <2> DEFINE t == TotalOf(n)  w == TotalOf(y.spanTokens)
  <2>1. t \in Nat /\ w \in Nat /\ y.bankTokens \in Int
    BY <1>1, <1>6, LayerTypes, TotalTypes, Zenon
  <2> HIDE DEF t, w
  <2>2. y.bankTokens + t - w \in Int
    BY <2>1
  <2> QED BY <2>2, Zenon DEF t, w
<1>8. a \in Int
  <2>1. u \in Nat /\ v \in Nat /\ y.activeSlots \in Int
    BY <1>1, LayerTypes, UsedTypes, Zenon
  <2> HIDE DEF u, v
  <2> QED BY <2>1
<1>9. f = [z EXCEPT !.evicted = e, !.cursor = c, !.spans = k, !.means = m,
                    !.spanTokens = n, !.bankTokens = b, !.activeSlots = a]
  <2>1. /\ z.spans = y.spans /\ z.means = y.means /\ z.spanTokens = y.spanTokens
        /\ z.bankTokens = y.bankTokens /\ z.activeSlots = y.activeSlots
        /\ z.evicted = y.evicted /\ z.cursor = y.cursor
    BY Zenon DEF SameBank
  <2> DEFINE new == [s \in Slots |->
                       SpansFor(op, op.assign, CutOf(y), SinkTokens + z.evicted, s)]
             kept == [s \in Slots |-> IF s \in DOMAIN op.keeps
                                      THEN Pick(z.spans[s] \o new[s], op.keeps[s])
                                      ELSE z.spans[s]]
             count == [s \in Slots |-> Len(KV(kept[s]))]
  <2>2. \A s \in Slots : new[s] = NewOf(y, op, s)
    BY <2>1, Zenon DEF NewOf, StartOf
  <2>3. f = [z EXCEPT
            !.evicted = @ + op.routed, !.cursor = @ + 1, !.spans = kept,
            !.means = [s \in Slots |-> @[s] \cup ToSet(KV(new[s]))],
            !.spanTokens = count,
            !.bankTokens = @ + TotalOf(count) - TotalOf(z.spanTokens),
            !.activeSlots = @ + Cardinality({s \in Slots : kept[s] # << >>})
                              - Cardinality({s \in Slots : z.spans[s] # << >>})]
    BY Zenon DEF Folded
  <2> HIDE DEF new
  <2>4. kept = k
    <3>1. \A s \in Slots : kept[s] = KeptOf(y, op, s)
      BY <2>1, <2>2, Zenon DEF KeptOf
    <3>2. kept = [s \in Slots |-> kept[s]]
      BY Zenon
    <3> HIDE DEF kept
    <3> QED BY <3>1, <3>2, Zenon DEF SpansOf
  <2>5. count = n
    <3>1. \A s \in Slots : k[s] = KeptOf(y, op, s)
      BY Zenon DEF SpansOf
    <3> HIDE DEF kept, k
    <3> QED BY <2>4, <3>1, Zenon DEF CountOf
  <2>6. [s \in Slots |-> z.means[s] \cup ToSet(KV(new[s]))] = m
    BY <2>1, <2>2, Zenon DEF MeansOf
  <2> HIDE DEF kept, count, k, m, n, f
  <2> QED BY <2>1, <2>3, <2>4, <2>5, <2>6, Zenon
<1> HIDE DEF e, c, k, m, n, b, a, f
<1>10. /\ f \in LayerStates /\ f.cumulative = z.cumulative
       /\ f.sink = z.sink /\ f.pend = z.pend /\ f.ring = z.ring
       /\ f.dense = z.dense /\ f.released = z.released
       /\ f.evicted = e /\ f.cursor = c /\ f.spans = k /\ f.means = m
       /\ f.spanTokens = n /\ f.bankTokens = b /\ f.activeSlots = a
  <2>1. FoldRecord(z, [z EXCEPT !.evicted = e, !.cursor = c, !.spans = k, !.means = m,
                                !.spanTokens = n, !.bankTokens = b, !.activeSlots = a],
                   e, c, k, m, n, b, a)
    BY <1>1, <1>3, <1>4, <1>5, <1>6, <1>7, <1>8, RecordFold, Zenon
  <2>2. FoldRecord(z, f, e, c, k, m, n, b, a)
    BY <1>9, <2>1, Zenon
  <2> QED BY <2>2, Zenon DEF FoldRecord
<1> QED BY <1>10, Zenon DEF Committing, f, e, c, k, m, n, b, a

-----------------------------------------------------------------------------
(***************************************************************************)
(* A fold keeps a layer sound.                                             *)
(***************************************************************************)

\* Each token that is routed goes to one slot, where no other one has it.
LEMMA MeansFolded ==
    ASSUME NEW y, Sound(y), Len(y.pend) >= RouteChunk, NEW op, Decided(y, op),
           NEW means, means = [s \in Slots |-> MeansOf(y, op, s)]
    PROVE  /\ UNION Range(means) = SinkTokens .. SinkTokens + (y.evicted + op.routed) - 1
           /\ \A s, t \in Slots : s # t => means[s] \cap means[t] = {}
<1> DEFINE start == StartOf(y)  r == op.routed  m == Len(op.spans)  w == start + r
           st == SinkTokens  e == y.evicted
<1>1. y \in LayerStates /\ Placed(y) /\ Tiles(op, RouteChunk)
  BY Zenon DEF Sound, Decided
<1>2. e \in Nat /\ st \in Nat /\ RouteChunk \in Nat /\ y.means \in [Slots -> SUBSET Nat]
      /\ start = st + e
  BY <1>1, LayerTypes, ConstantTypes, Zenon DEF StartOf
<1>3. start \in Nat
  <2> HIDE DEF start, st, e
  <2> QED BY <1>2
<1>4. /\ \A j \in 1 .. m : \A x \in Piece(op, start, j) :
           x \in Nat /\ start <= x /\ x < w
      /\ \A i, j \in 1 .. m : \A x :
           x \in Piece(op, start, i) /\ x \in Piece(op, start, j) => i = j
      /\ \A x \in start .. w - 1 : \E j \in 1 .. m : x \in Piece(op, start, j)
      /\ w \in Nat /\ start < w /\ r \in Nat
  <2> HIDE DEF start
  <2> QED BY <1>1, <1>2, <1>3, TilesMeet, Zenon
<1>5. op.assign \in [1 .. m -> Slots]
  BY Zenon DEF Decided
<1>6. \A s \in Slots : \A x : x \in means[s] <=>
         \/ x \in y.means[s]
         \/ \E j \in 1 .. m : op.assign[j] = s /\ x \in Piece(op, start, j)
  <2> TAKE s \in Slots
  <2>1. SlotSound(y, op, s)
    BY SlotFolded, Zenon
  <2>2. \A x : x \in ToSet(KV(NewOf(y, op, s))) <=>
          \E j \in 1 .. m : op.assign[j] = s /\ x \in Piece(op, start, j)
    BY <2>1, Zenon DEF SlotSound, NewFor
  <2>3. means[s] = y.means[s] \cup ToSet(KV(NewOf(y, op, s)))
    BY Zenon DEF MeansOf
  <2> QED BY <2>2, <2>3, Zenon
<1>7. \A s \in Slots : \A x \in y.means[s] : x \in Nat /\ x < start
  BY OldIsBefore, Zenon
<1> HIDE DEF start, m, st, e
<1>8. \A x : ~(x \in Nat /\ x < start /\ start <= x)
  <2>1. \A x \in Nat : ~(x < start /\ start <= x)
    BY <1>3
  <2> QED BY <2>1, Zenon
<1>9. ASSUME NEW s \in Slots, NEW t \in Slots, s # t, NEW x, x \in means[s], x \in means[t]
      PROVE  FALSE
  <2>1. CASE x \in y.means[s] /\ x \in y.means[t]
    <3>1. y.means[s] \cap y.means[t] = {}
      BY <1>1, <1>9, Zenon DEF Placed
    <3> QED BY <2>1, <3>1, Zenon
  <2>2. CASE x \in y.means[s] /\ x \notin y.means[t]
    <3>1. PICK j \in 1 .. m : x \in Piece(op, start, j)
      BY <1>6, <1>9, <2>2, Zenon
    <3> QED BY <1>4, <1>7, <1>8, <2>2, <3>1, Zenon
  <2>3. CASE x \notin y.means[s] /\ x \in y.means[t]
    <3>1. PICK j \in 1 .. m : x \in Piece(op, start, j)
      BY <1>6, <1>9, <2>3, Zenon
    <3> QED BY <1>4, <1>7, <1>8, <2>3, <3>1, Zenon
  <2>4. CASE x \notin y.means[s] /\ x \notin y.means[t]
    <3>1. PICK i \in 1 .. m : op.assign[i] = s /\ x \in Piece(op, start, i)
      BY <1>6, <1>9, <2>4, Zenon
    <3>2. PICK j \in 1 .. m : op.assign[j] = t /\ x \in Piece(op, start, j)
      BY <1>6, <1>9, <2>4, Zenon
    <3>3. i = j
      BY <1>4, <3>1, <3>2, Zenon
    <3> QED BY <1>9, <3>1, <3>2, <3>3, Zenon
  <2> QED BY <2>1, <2>2, <2>3, <2>4, Zenon
<1>10. \A s, t \in Slots : s # t => means[s] \cap means[t] = {}
  BY <1>9, Zenon
<1>11. \A x : x \in UNION Range(means) <=> \E s \in Slots : x \in means[s]
  BY DEF Range
<1>12. \A x : (\E s \in Slots : x \in y.means[s]) <=> x \in st .. start - 1
  <2>1. UNION Range(y.means) = st .. st + e - 1
    BY <1>1, Zenon DEF Placed, st, e
  <2>2. st + e - 1 = start - 1
    BY <1>2
  <2>3. DOMAIN y.means = Slots
    BY <1>2, Zenon
  <2>4. \A x : x \in UNION Range(y.means) <=> \E s \in Slots : x \in y.means[s]
    BY <2>3 DEF Range
  <2>5. UNION Range(y.means) = st .. start - 1
    BY <2>1, <2>2, Zenon
  <2> QED BY <2>4, <2>5, Zenon
<1>13. \A x : x \in st .. w - 1 <=> x \in st .. start - 1 \/ x \in start .. w - 1
  BY <1>2, <1>3, <1>4
<1>14. \A x : x \in UNION Range(means) <=> x \in st .. w - 1
  <2> TAKE x
  <2>1. ASSUME x \in UNION Range(means)  PROVE x \in st .. w - 1
    <3>1. PICK s \in Slots : x \in means[s]
      BY <1>11, <2>1, Zenon
    <3>2. CASE x \in y.means[s]
      BY <1>12, <1>13, <3>2, Zenon
    <3>3. CASE \E j \in 1 .. m : op.assign[j] = s /\ x \in Piece(op, start, j)
      <4>1. x \in Nat /\ start <= x /\ x < w
        BY <1>4, <3>3, Zenon
      <4>2. x \in start .. w - 1
        BY <1>3, <1>4, <4>1
      <4> QED BY <1>13, <4>2, Zenon
    <3> QED BY <1>6, <3>1, <3>2, <3>3, Zenon
  <2>2. ASSUME x \in st .. w - 1  PROVE x \in UNION Range(means)
    <3>1. CASE x \in st .. start - 1
      <4>1. PICK s \in Slots : x \in y.means[s]
        BY <1>12, <3>1, Zenon
      <4> QED BY <1>6, <1>11, <4>1, Zenon
    <3>2. CASE x \in start .. w - 1
      <4>1. PICK j \in 1 .. m : x \in Piece(op, start, j)
        BY <1>4, <3>2, Zenon
      <4>2. op.assign[j] \in Slots
        BY <1>5, Zenon
      <4>3. x \in means[op.assign[j]]
        BY <1>6, <4>1, <4>2, Zenon
      <4> QED BY <1>11, <4>2, <4>3, Zenon
    <3> QED BY <1>13, <2>2, <3>1, <3>2, Zenon
  <2> QED BY <2>1, <2>2, Zenon
<1>15. UNION Range(means) = st .. st + (e + r) - 1
  <2>1. UNION Range(means) = st .. w - 1
    BY <1>14, Zenon
  <2>2. st + (e + r) - 1 = w - 1
    BY <1>2, <1>4
  <2> QED BY <2>1, <2>2, Zenon
<1> QED BY <1>10, <1>15, Zenon DEF st, e

\* The counters after the fold.
LEMMA SizedFolded ==
    ASSUME NEW y, Sound(y), Len(y.pend) >= RouteChunk, NEW op, Decided(y, op),
           NEW f, Committing(y, op, y, f)
    PROVE  Sized(f)
<1> DEFINE n == CountOf(y, op)  k == SpansOf(y, op)
           t == TotalOf(n)  v == TotalOf(y.spanTokens)
           u == Cardinality({s \in Slots : k[s] # << >>})
           q == Cardinality({s \in Slots : y.spans[s] # << >>})
<1>1. \A s \in Slots : SlotSound(y, op, s)
  BY SlotFolded, Zenon
<1>2. \A s \in Slots : n[s] = Len(KV(k[s])) /\ n[s] <= Max({SpanBudget, MaxSpan}) /\ n[s] \in Nat
  <2>1. \A s \in Slots : n[s] = Len(KV(KeptOf(y, op, s))) /\ k[s] = KeptOf(y, op, s)
    BY Zenon DEF CountOf, SpansOf
  <2> HIDE DEF n, k
  <2> QED BY <1>1, <2>1, Zenon DEF SlotSound
<1>3. n \in [Slots -> Nat]
  <2>1. n = [s \in Slots |-> n[s]]
    BY Zenon DEF CountOf
  <2> HIDE DEF n
  <2> QED BY <1>2, <2>1, Zenon
<1>4. y \in LayerStates /\ Sized(y)
  BY Zenon DEF Sound
<1>5. t \in Nat /\ v \in Nat
  BY <1>3, <1>4, LayerTypes, TotalTypes, Zenon
<1>6. u \in Nat /\ q \in Nat
  BY UsedTypes, Zenon
<1>7. /\ f.spans = k /\ f.spanTokens = n /\ f.bankTokens = y.bankTokens + t - v
      /\ f.activeSlots = y.activeSlots + u - q
  BY Zenon DEF Committing
<1>8. y.bankTokens = v /\ y.activeSlots = q
  BY <1>4, Zenon DEF Sized
<1> HIDE DEF n, k
<1>9. f.bankTokens = t
  <2> HIDE DEF t, v
  <2> QED BY <1>5, <1>7, <1>8
<1>10. f.activeSlots = u
  <2> HIDE DEF u, q
  <2> QED BY <1>6, <1>7, <1>8
<1> QED BY <1>2, <1>7, <1>9, <1>10, Zenon DEF Sized

\* What a fold makes of a sound layer.
FoldsTo(y, op, z) ==
    /\ Sound(z) /\ z.cumulative = y.cumulative /\ z.cursor = y.cursor + 1
    /\ z.evicted = y.evicted + op.routed /\ op.routed \in 1 .. RouteChunk
    /\ z.pend = SubSeq(y.pend, op.routed + 1, Len(y.pend)) /\ Len(z.pend) <= Len(y.pend)
    /\ z.sink = y.sink /\ z.ring = y.ring /\ z.dense = y.dense /\ z.released = y.released
    /\ \A s \in Slots : Len(z.spans[s]) = IF s \in DOMAIN op.keeps THEN Cardinality(op.keeps[s])
                                                                  ELSE Len(y.spans[s])

\* A fold that was decided keeps a layer sound: tokens, spans, means and counters.
LEMMA FoldIs ==
    ASSUME NEW y, Sound(y), Len(y.pend) >= RouteChunk, NEW op, Decided(y, op)
    PROVE  FoldsTo(y, op, FoldBy(y, op))
<1> DEFINE f == Folded(y, op, CutOf(y))  z == FoldBy(y, op)  r == op.routed  p == Len(y.pend)
           pend == SubSeq(y.pend, r + 1, p)  st == SinkTokens  e == y.evicted  start == st + e
           c == y.cumulative
<1>1. Committing(y, op, y, f) /\ Sized(f)
  <2>1. SameBank(y, y) /\ y \in LayerStates
    BY Zenon DEF SameBank, Sound
  <2> QED BY <2>1, FoldFields, SizedFolded, Zenon
<1>2. z = [f EXCEPT !.pend = SubSeq(f.pend, r + 1, Len(f.pend))]
  BY Zenon DEF FoldBy, Trimmed, CutOf
<1> HIDE DEF f, z
<1>3. /\ f \in LayerStates /\ f.cumulative = c
      /\ f.sink = y.sink /\ f.pend = y.pend /\ f.ring = y.ring
      /\ f.dense = y.dense /\ f.released = y.released
      /\ f.evicted = e + r /\ f.cursor = y.cursor + 1
      /\ f.spans = SpansOf(y, op) /\ f.means = [s \in Slots |-> MeansOf(y, op, s)]
  BY <1>1, Zenon DEF Committing
<1>4. y \in LayerStates /\ Placed(y)
  BY Zenon DEF Sound
<1>5. e \in Nat /\ c \in Nat /\ st \in Nat /\ RouteChunk \in Nat /\ y.pend \in Seq(Nat)
      /\ y.cursor \in Nat
  BY <1>4, LayerTypes, ConstantTypes, Zenon
<1>6. p \in Nat
  BY <1>5
<1>7. r \in 1 .. RouteChunk
  BY Zenon DEF Decided, Tiles
<1>8. p >= RouteChunk
  BY Zenon
<1> HIDE DEF r, p
<1>9. r \in Nat /\ r <= p /\ r >= 1 /\ p >= 1
  BY <1>5, <1>6, <1>7, <1>8
<1>10. /\ start \in Nat /\ Len(y.sink) = st /\ start + p <= c
       /\ pend = Positions(start + r, start + p)
       /\ y.ring = Positions(start + p, c)
  <2>1. r \in Nat /\ r <= Len(y.pend) /\ r >= 1
    BY <1>9 DEF p
  <2> QED BY <2>1, TailIs, Zenon DEF p
<1> HIDE DEF start, st, e, c
<1>11. start + r \in Nat /\ start + p \in Nat /\ start + r <= start + p /\ start = st + e
       /\ start + r = st + (e + r) /\ st + (e + r) <= c /\ c \in Nat /\ st + (e + r) \in Nat
  BY <1>5, <1>6, <1>9, <1>10 DEF start
<1>12. /\ pend \in Seq(Nat) /\ Len(pend) = (start + p) - (start + r)
       /\ pend \o y.ring = Positions(start + r, c)
  <2>1. /\ Positions(start + r, start + p) \in Seq(Nat)
        /\ Len(Positions(start + r, start + p)) =
             IF start + r <= start + p THEN (start + p) - (start + r) ELSE 0
    BY <1>11, PositionsAre, Zenon
  <2>2. Positions(start + r, start + p) \o Positions(start + p, c) = Positions(start + r, c)
    <3>1. start + r \in Nat /\ start + p \in Nat /\ c \in Nat /\ start + r <= start + p
          /\ start + p <= c
      BY <1>10, <1>11, Zenon
    <3> QED BY <3>1, PositionsJoin, Zenon
  <2> QED BY <1>10, <1>11, <2>1, <2>2, Zenon
<1>13. z = [f EXCEPT !.pend = pend]
  BY <1>2, <1>3, Zenon DEF p
<1> HIDE DEF pend
<1>14. /\ z \in LayerStates /\ z.cumulative = c
       /\ z.sink = y.sink /\ z.pend = pend /\ z.ring = y.ring
       /\ z.dense = y.dense /\ z.released = y.released
       /\ z.evicted = e + r /\ z.cursor = y.cursor + 1
       /\ z.spans = SpansOf(y, op) /\ z.means = [s \in Slots |-> MeansOf(y, op, s)]
       /\ SameBank(f, z)
  <2>1. \A x \in LayerStates : \A q \in Seq(Nat) :
          LET w == [x EXCEPT !.pend = q] IN
           /\ w \in LayerStates /\ w.cumulative = x.cumulative
           /\ w.sink = x.sink /\ w.pend = q /\ w.ring = x.ring
           /\ w.dense = x.dense /\ w.released = x.released
           /\ w.evicted = x.evicted /\ w.cursor = x.cursor /\ w.spans = x.spans
           /\ w.means = x.means /\ SameBank(x, w)
    BY ZenonT(40) DEF LayerStates, SameBank
  <2> QED BY <1>3, <1>12, <1>13, <2>1, ZenonT(40)
<1>15. Sized(z)
  BY <1>1, <1>14, SameSized, Zenon
<1>16. \A s \in Slots : SlotSound(y, op, s)
  BY SlotFolded, Zenon
<1>17. \A s \in Slots : z.spans[s] = KeptOf(y, op, s) /\ z.means[s] = MeansOf(y, op, s)
  BY <1>14, Zenon DEF SpansOf
<1>18. Placed(z)
  <2>1. z.sink = Positions(0, Min({SinkTokens, z.cumulative})) /\ Len(z.ring) <= RingTokens
    BY <1>4, <1>14, Zenon DEF Placed, c
  <2>2. Len(z.sink) + z.evicted = start + r
    BY <1>10, <1>11, <1>14, Zenon
  <2>3. z.pend \o z.ring = Positions(Len(z.sink) + z.evicted, z.cumulative)
    BY <1>12, <1>14, <2>2, Zenon
  <2>4. SinkTokens + z.evicted <= z.cumulative
    BY <1>11, <1>14, Zenon DEF st
  <2>5. /\ UNION Range(z.means) = SinkTokens .. SinkTokens + (y.evicted + op.routed) - 1
        /\ \A s, t \in Slots : s # t => z.means[s] \cap z.means[t] = {}
    <3> DEFINE means == z.means
    <3>1. means = [s \in Slots |-> MeansOf(y, op, s)]
      BY <1>14, Zenon
    <3>2. Sound(y) /\ Len(y.pend) >= RouteChunk /\ Decided(y, op)
      BY Zenon
    <3> HIDE DEF means
    <3>3. /\ UNION Range(means) = SinkTokens .. SinkTokens + (y.evicted + op.routed) - 1
          /\ \A s, t \in Slots : s # t => means[s] \cap means[t] = {}
      BY <3>1, <3>2, MeansFolded
    <3> QED BY <3>3, Zenon DEF means
  <2>6. UNION Range(z.means) = SinkTokens .. SinkTokens + z.evicted - 1
    BY <1>14, <2>5, Zenon DEF e, r
  <2>7. \A s \in Slots :
         /\ \A i \in DOMAIN z.spans[s] :
              /\ IsSpan(z.spans[s][i])
              /\ ToSet(z.spans[s][i].kv) \subseteq z.means[s]
         /\ \A i, j \in DOMAIN z.spans[s] :
              i < j => LastOf(z.spans[s][i]) < FirstOf(z.spans[s][j])
    BY <1>16, <1>17, Zenon DEF SlotSound, InOrder
  <2> QED BY <2>1, <2>3, <2>4, <2>5, <2>6, <2>7, Zenon DEF Placed
<1>19. Sound(z)
  BY <1>14, <1>15, <1>18, Zenon DEF Sound
<1>20. Len(z.pend) <= p
  BY <1>6, <1>9, <1>10, <1>12, <1>14
<1>21. \A s \in Slots : Len(z.spans[s]) = IF s \in DOMAIN op.keeps THEN Cardinality(op.keeps[s])
                                                                  ELSE Len(y.spans[s])
  BY <1>16, <1>17, Zenon DEF SlotSound
<1> QED BY <1>7, <1>14, <1>19, <1>20, <1>21, Zenon DEF FoldsTo, z, e, r, p, c, pend

-----------------------------------------------------------------------------
(***************************************************************************)
(* What the leader decides.                                                *)
(***************************************************************************)

\* z has the bank of y, and the cut is what y alone would fold.
Deciding(y, z, split, op) ==
    /\ Sound(y) /\ z.spans = y.spans /\ z.evicted = y.evicted
    /\ split.cut = CutOf(y) /\ Tiles(split, RouteChunk)
    /\ op \in Decisions(z, split)
DecidedBy(y, split, op) ==
    Decided(y, op) /\ op.spans = split.spans /\ op.routed = split.routed

\* A decision says which spans of the cut go where, and what the slots keep.
LEMMA DecisionIs ==
    \A y, z, split, op : Deciding(y, z, split, op) => DecidedBy(y, split, op)
<1> SUFFICES ASSUME NEW y, NEW z, NEW split, NEW op, Deciding(y, z, split, op)
             PROVE  DecidedBy(y, split, op)
  OBVIOUS
<1>0. /\ Sound(y) /\ z.spans = y.spans /\ z.evicted = y.evicted
      /\ split.cut = CutOf(y) /\ Tiles(split, RouteChunk)
      /\ op \in Decisions(z, split)
  BY DEF Deciding
<1> DEFINE n == Len(split.spans)
           cand(f) == [s \in ToSet(f) |->
                  z.spans[s] \o SpansFor(split, f, split.cut, SinkTokens + z.evicted, s)]
           sets(f) == [s \in ToSet(f) |-> KeepSets(cand(f)[s])]
           all(f) == {[spans |-> split.spans, routed |-> split.routed,
                       assign |-> f, keeps |-> k] :
                        k \in {h \in [ToSet(f) -> UNION Range(sets(f))] :
                                 \A s \in DOMAIN h : h[s] \in sets(f)[s]}}
<1>1. PICK assign \in Assignments(n, Seeded(n)) : op \in all(assign)
  BY <1>0, Zenon DEF Decisions
<1>2. PICK keeps \in {h \in [ToSet(assign) -> UNION Range(sets(assign))] :
                        \A s \in DOMAIN h : h[s] \in sets(assign)[s]} :
        op = [spans |-> split.spans, routed |-> split.routed, assign |-> assign, keeps |-> keeps]
  BY <1>1, Zenon
<1>3. /\ op.spans = split.spans /\ op.routed = split.routed
      /\ op.assign = assign /\ op.keeps = keeps
  BY <1>2
<1>4. assign \in [1 .. n -> Slots]
  BY <1>1, Zenon DEF Assignments
<1>5. DOMAIN keeps = ToSet(assign) /\ \A s \in ToSet(assign) : keeps[s] \in sets(assign)[s]
  BY <1>2, Zenon
<1>6. ToSet(assign) \subseteq Slots
  BY <1>4 DEF ToSet
<1>7. \A s : SpansFor(split, assign, split.cut, SinkTokens + z.evicted, s) = NewOf(y, op, s)
  <2> TAKE s
  <2>1. SpansFor(split, assign, split.cut, SinkTokens + z.evicted, s)
          = SpansFor(op, op.assign, split.cut, SinkTokens + z.evicted, s)
    <3> DEFINE a == op.spans
    <3>1. split.spans = a /\ assign = op.assign
      BY <1>3, Zenon
    <3>2. SpansFor(op, op.assign, split.cut, SinkTokens + z.evicted, s) =
            LET mine == Ascending({j \in DOMAIN op.assign : op.assign[j] = s})
            IN  [i \in DOMAIN mine |->
                   PieceOf(split.cut, SinkTokens + z.evicted, a[mine[i]][1], a[mine[i]][2])]
      BY Zenon DEF SpansFor, PieceOf
    <3>3. SpansFor(split, assign, split.cut, SinkTokens + z.evicted, s) =
            LET mine == Ascending({j \in DOMAIN assign : assign[j] = s})
            IN  [i \in DOMAIN mine |->
                   PieceOf(split.cut, SinkTokens + z.evicted,
                           split.spans[mine[i]][1], split.spans[mine[i]][2])]
      BY Zenon DEF SpansFor, PieceOf
    <3> HIDE DEF a
    <3> QED BY <3>1, <3>2, <3>3, ZenonT(40)
  <2> QED BY <1>0, <2>1, Zenon DEF NewOf, StartOf
<1>8. \A s \in DOMAIN op.keeps : op.keeps[s] \in KeepSets(y.spans[s] \o NewOf(y, op, s))
  <2> TAKE s \in DOMAIN op.keeps
  <2>1. s \in ToSet(assign) /\ op.keeps[s] \in sets(assign)[s]
    BY <1>3, <1>5, Zenon
  <2>2. sets(assign)[s] = KeepSets(z.spans[s] \o SpansFor(split, assign, split.cut,
                                                          SinkTokens + z.evicted, s))
    BY <2>1, Zenon
  <2> QED BY <1>0, <1>7, <2>1, <2>2, Zenon
<1>9. Tiles(op, RouteChunk)
  BY <1>0, <1>3, Zenon DEF Tiles
<1> QED BY <1>3, <1>4, <1>5, <1>6, <1>8, <1>9, Zenon DEF Decided, DecidedBy

\* What the split of the chunk at the front of the tail is.
LEMMA CutIs ==
    ASSUME NEW y, Sound(y), NEW t \in Nat
    PROVE  LET split == CutAfter(y, t) IN
           /\ Tiles(split, RouteChunk)
           /\ split.cut = SubSeq(y.pend, t + 1, t + RouteChunk)
<1> DEFINE start == SinkTokens + y.evicted + t  s == SplitSpans(start, RouteChunk)
           split == CutAfter(y, t)
<1>1. start \in Nat /\ RouteChunk \in Nat /\ RouteChunk >= 1
  <2>1. SinkTokens \in Nat /\ y.evicted \in Nat /\ RouteChunk \in Nat /\ RouteChunk >= 1
    BY LayerTypes, ConstantTypes, Zenon DEF Sound
  <2> QED BY <2>1
<1> HIDE DEF start
<1>2. Tiles(s, RouteChunk)
  BY <1>1, SplitIs, Zenon
<1>3. split = [spans |-> s.spans, routed |-> s.routed,
               cut |-> SubSeq(y.pend, t + 1, t + RouteChunk)]
  BY Zenon DEF CutAfter, start
<1> HIDE DEF s, split
<1>4. /\ split.spans = s.spans /\ split.routed = s.routed
      /\ split.cut = SubSeq(y.pend, t + 1, t + RouteChunk)
  BY <1>3
<1>5. Tiles(split, RouteChunk)
  BY <1>2, <1>4, Zenon DEF Tiles
<1> QED BY <1>4, <1>5, Zenon DEF split

\* The chunk in front of the tail.
LEMMA FrontCut ==
    ASSUME NEW y, Sound(y)
    PROVE  Tiles(CutAfter(y, 0), RouteChunk) /\ CutAfter(y, 0).cut = CutOf(y)
<1>1. 0 \in Nat /\ 0 + 1 = 1 /\ 0 + RouteChunk = RouteChunk
  BY ConstantTypes
<1>2. /\ Tiles(CutAfter(y, 0), RouteChunk)
      /\ CutAfter(y, 0).cut = SubSeq(y.pend, 0 + 1, 0 + RouteChunk)
  BY <1>1, CutIs, Zenon
<1> QED BY <1>1, <1>2, Zenon DEF CutOf

WithPend(y, pend) == [y EXCEPT !.pend = pend]
Folding(y, op, pend) ==
    /\ Sound(y) /\ Len(y.pend) >= RouteChunk /\ Decided(y, op) /\ pend \in Seq(Nat)

\* A fold of the packet, whose tail is cut when all folds are done.
LEMMA PacketFold ==
    \A y, op, pend : Folding(y, op, pend) =>
        Trimmed(Folded(WithPend(y, pend), op, CutOf(y)), 0) = WithPend(FoldBy(y, op), pend)
<1> SUFFICES ASSUME NEW y, NEW op, NEW pend, Folding(y, op, pend)
             PROVE  Trimmed(Folded(WithPend(y, pend), op, CutOf(y)), 0)
                      = WithPend(FoldBy(y, op), pend)
  OBVIOUS
<1>0. Sound(y) /\ Len(y.pend) >= RouteChunk /\ Decided(y, op) /\ pend \in Seq(Nat)
  BY DEF Folding
<1> DEFINE z == WithPend(y, pend)
<1> DEFINE f == Folded(z, op, CutOf(y))  g == Folded(y, op, CutOf(y))  w == FoldBy(y, op)
           t == Trimmed(f, 0)  p == SubSeq(f.pend, 0 + 1, Len(f.pend))
           v == [w EXCEPT !.pend = pend]  q == SubSeq(g.pend, op.routed + 1, Len(g.pend))
<1>1. y \in LayerStates
  BY <1>0, Zenon DEF Sound
<1>2. z \in LayerStates /\ SameBank(y, z) /\ z.pend = pend /\ z.cumulative = y.cumulative
      /\ z.sink = y.sink /\ z.ring = y.ring /\ z.dense = y.dense /\ z.released = y.released
  <2>1. \A x \in LayerStates : \A r \in Seq(Nat) :
          LET h == [x EXCEPT !.pend = r] IN
           /\ h \in LayerStates /\ SameBank(x, h) /\ h.pend = r /\ h.cumulative = x.cumulative
           /\ h.sink = x.sink /\ h.ring = x.ring
           /\ h.dense = x.dense /\ h.released = x.released
    BY DEF LayerStates, SameBank
  <2> QED BY <1>0, <1>1, <2>1, Zenon DEF WithPend
<1> HIDE DEF z
<1>3. Committing(y, op, z, f)
  BY <1>0, <1>2, FoldFields, Zenon
<1>4. Committing(y, op, y, g)
  BY <1>0, <1>1, FoldFields, Zenon DEF SameBank
<1>5. t = [f EXCEPT !.pend = p] /\ w = [g EXCEPT !.pend = q]
  BY Zenon DEF Trimmed, FoldBy, CutOf
<1>6. FoldsTo(y, op, w)
  BY <1>0, FoldIs, Zenon
<1> HIDE DEF f, g, w, t
<1>7. f \in LayerStates /\ g \in LayerStates /\ w \in LayerStates /\ f.pend = pend
  BY <1>2, <1>3, <1>4, <1>6, Zenon DEF Committing, FoldsTo, Sound
<1>8. p = pend /\ p \in Seq(Nat)
  <2>1. 0 + 1 = 1
    OBVIOUS
  <2>2. SubSeq(pend, 1, Len(pend)) = pend
    BY <1>0
  <2> QED BY <1>0, <1>7, <2>1, <2>2, Zenon
<1>9. q \in Seq(Nat)
  <2>1. w.pend = SubSeq(y.pend, op.routed + 1, Len(y.pend)) /\ g.pend = y.pend
    BY <1>4, <1>6, Zenon DEF Committing, FoldsTo
  <2>2. w.pend \in Seq(Nat)
    BY <1>7, LayerTypes, Zenon
  <2> QED BY <2>1, <2>2, Zenon
<1> HIDE DEF p, q
<1>10. \A x \in LayerStates : \A r \in Seq(Nat) :
          LET h == [x EXCEPT !.pend = r] IN
           /\ h \in LayerStates /\ h.pend = r
           /\ SameBank(x, h) /\ h.cumulative = x.cumulative
           /\ h.sink = x.sink /\ h.ring = x.ring
           /\ h.dense = x.dense /\ h.released = x.released
  BY DEF LayerStates, SameBank
<1>11. /\ t \in LayerStates /\ t.pend = pend /\ SameBank(f, t) /\ t.cumulative = f.cumulative
       /\ t.sink = f.sink /\ t.ring = f.ring /\ t.dense = f.dense /\ t.released = f.released
  BY <1>5, <1>7, <1>8, <1>10, ZenonT(40)
<1>12. /\ SameBank(g, w) /\ w.cumulative = g.cumulative
       /\ w.sink = g.sink /\ w.ring = g.ring /\ w.dense = g.dense /\ w.released = g.released
  BY <1>5, <1>7, <1>9, <1>10, Zenon
<1>13. /\ v \in LayerStates /\ v.pend = pend /\ SameBank(w, v) /\ v.cumulative = w.cumulative
       /\ v.sink = w.sink /\ v.ring = w.ring /\ v.dense = w.dense /\ v.released = w.released
  BY <1>0, <1>7, <1>10, Zenon
<1> HIDE DEF v
<1>14. SameBank(g, f) /\ f.cumulative = g.cumulative
       /\ f.sink = g.sink /\ f.ring = g.ring /\ f.dense = g.dense /\ f.released = g.released
  BY <1>2, <1>3, <1>4, Zenon DEF Committing, SameBank
<1>15. SameState(v, t) /\ t.dense = v.dense /\ t.released = v.released
  BY <1>11, <1>12, <1>13, <1>14, ZenonT(40) DEF SameState, SameBank
<1>16. t = v
  BY <1>11, <1>13, <1>15, SameFields, Zenon
<1> QED BY <1>16, Zenon DEF t, v, w, f, z, WithPend

-----------------------------------------------------------------------------
(***************************************************************************)
(* The folds of a packet.                                                  *)
(***************************************************************************)

\* A chunk of the tail routes one token at least, and no more than a chunk.
LEMMA CutTypes ==
    ASSUME NEW y, Sound(y), NEW t \in Nat, t + RouteChunk <= Len(y.pend)
    PROVE  CutAfter(y, t) \in Cuts /\ CutAfter(y, t).routed \in 1 .. RouteChunk
<1> DEFINE split == CutAfter(y, t)  w == RouteChunk  P == Nat \X Nat
           s == SplitSpans(SinkTokens + y.evicted + t, w)
           cut == SubSeq(y.pend, t + 1, t + w)
<1>1. y.pend \in Seq(Nat) /\ w \in Nat /\ w >= 1
  BY LayerTypes, ConstantTypes, Zenon DEF Sound
<1>2. cut \in Seq(Nat)
  <2>1. \A i \in t + 1 .. t + w : i \in 1 .. Len(y.pend)
    BY <1>1
  <2>2. \A i \in t + 1 .. t + w : y.pend[i] \in Nat
    BY <1>1, <2>1
  <2> HIDE DEF w
  <2> QED BY <1>1, <2>2
<1>3. Tiles(split, w)
  BY CutIs, Zenon
<1>4. split = [spans |-> split.spans, routed |-> split.routed, cut |-> cut]
  <2>1. split = [spans |-> s.spans, routed |-> s.routed, cut |-> cut]
    BY Zenon DEF CutAfter
  <2> HIDE DEF split, s, cut
  <2> QED BY <2>1
<1>5. split.spans \in Seq(P) /\ split.routed \in 1 .. w
  BY <1>3, Zenon DEF Tiles
<1>6. split.routed \in Nat
  BY <1>1, <1>5
<1> HIDE DEF split, cut, P
<1>7. split \in [spans : Seq(P), routed : Nat, cut : Seq(Nat)]
  BY <1>2, <1>4, <1>5, <1>6
<1> QED BY <1>5, <1>7, Zenon DEF Cuts, P, split

\* How far the folds are prepared after i rounds.
TakesUpTo(y, taken, p) ==
    /\ taken \in [0 .. Len(p.cuts) -> Nat]
    /\ taken[0] = 0 /\ taken[Len(p.cuts)] = p.taken
    /\ \A i \in 1 .. Len(p.cuts) :
         /\ p.cuts[i] = CutAfter(y, taken[i - 1])
         /\ taken[i] = taken[i - 1] + p.cuts[i].routed
         /\ Len(y.pend) - taken[i - 1] >= RouteChunk
Prepared(y, p, i) ==
    /\ p.taken \in Nat /\ p.cuts \in Seq(Cuts) /\ p.taken <= Len(y.pend)
    /\ \E taken : TakesUpTo(y, taken, p)
    /\ Len(y.pend) - p.taken < RouteChunk \/ p.taken >= i
MoreCuts(y, p) ==
    [taken |-> p.taken + CutAfter(y, p.taken).routed,
     cuts |-> Append(p.cuts, CutAfter(y, p.taken))]

\* One more cut of a packet.
LEMMA MoreIs ==
    ASSUME NEW y, Sound(y), NEW p, NEW i \in Nat \ {0}, Prepared(y, p, i - 1),
           Len(y.pend) - p.taken >= RouteChunk
    PROVE  Prepared(y, MoreCuts(y, p), i)
<1> DEFINE q == MoreCuts(y, p)  t == p.taken  cuts == p.cuts  split == CutAfter(y, t)
           m == Len(cuts)  r == split.routed  n == Len(y.pend)  w == RouteChunk
           more == Append(cuts, split)
<1>1. t \in Nat /\ cuts \in Seq(Cuts) /\ t <= n /\ (n - t < w \/ t >= i - 1)
  BY Zenon DEF Prepared
<1>2. n \in Nat /\ w \in Nat /\ w >= 1
  <2>1. y.pend \in Seq(Nat) /\ w \in Nat /\ w >= 1
    BY LayerTypes, ConstantTypes, Zenon DEF Sound
  <2> QED BY <2>1
<1>3. q.taken = t + r /\ q.cuts = more
  BY DEF MoreCuts
<1>4. n - t >= w
  OBVIOUS
<1>5. split \in Cuts /\ r \in 1 .. w
  <2>1. t + w <= n
    BY <1>1, <1>2, <1>4
  <2> QED BY <1>1, <2>1, CutTypes, Zenon
<1> HIDE DEF q, w, n
<1>6. m \in Nat /\ more \in Seq(Cuts) /\ Len(more) = m + 1
      /\ (\A k \in 1 .. m : more[k] = cuts[k]) /\ more[m + 1] = split
  <2> DEFINE C == Cuts
  <2>1. cuts \in Seq(C) /\ split \in C
    BY <1>1, <1>5
  <2> HIDE DEF C, cuts, split
  <2>2. m \in Nat /\ more \in Seq(C) /\ Len(more) = m + 1
        /\ (\A k \in 1 .. m : more[k] = cuts[k]) /\ more[m + 1] = split
    BY <2>1
  <2> QED BY <2>2, Zenon DEF C
<1>7. PICK taken : TakesUpTo(y, taken, p)
  BY Zenon DEF Prepared
<1>8. /\ taken \in [0 .. m -> Nat] /\ taken[0] = 0 /\ taken[m] = t
      /\ \A k \in 1 .. m : /\ cuts[k] = CutAfter(y, taken[k - 1])
                           /\ taken[k] = taken[k - 1] + cuts[k].routed
                           /\ n - taken[k - 1] >= w
  BY <1>7, Zenon DEF TakesUpTo, n, w
<1> HIDE DEF r, m, more, t, cuts
<1>9. r \in Nat /\ r >= 1 /\ r <= w /\ t + r \in Nat
  BY <1>1, <1>2, <1>5
<1> DEFINE f == [k \in 0 .. m + 1 |-> IF k = m + 1 THEN t + r ELSE taken[k]]
<1>10. /\ f \in [0 .. m + 1 -> Nat] /\ f[0] = 0 /\ f[m + 1] = t + r
       /\ \A k \in 0 .. m : f[k] = taken[k]
  BY <1>6, <1>8, <1>9
<1> HIDE DEF f
<1>11. ASSUME NEW k \in 1 .. m + 1
       PROVE  /\ more[k] = CutAfter(y, f[k - 1])
              /\ f[k] = f[k - 1] + more[k].routed
              /\ n - f[k - 1] >= w
  <2>1. CASE k \in 1 .. m
    <3>1. k - 1 \in 0 .. m /\ k \in 0 .. m
      BY <1>6, <2>1
    <3>2. f[k - 1] = taken[k - 1] /\ f[k] = taken[k] /\ more[k] = cuts[k]
      BY <1>6, <1>10, <2>1, <3>1, Zenon
    <3> QED BY <1>8, <2>1, <3>2, Zenon
  <2>2. CASE k = m + 1
    <3>1. k - 1 = m /\ m \in 0 .. m
      BY <1>6, <2>2
    <3>2. f[k - 1] = t /\ f[k] = t + r /\ more[k] = split
      BY <1>6, <1>8, <1>10, <2>2, <3>1, Zenon
    <3> QED BY <1>4, <3>2, Zenon DEF r, n, w, t
  <2>3. k \in 1 .. m \/ k = m + 1
    BY <1>6
  <2> QED BY <2>1, <2>2, <2>3, Zenon
<1>12. TakesUpTo(y, f, q)
  BY <1>3, <1>6, <1>10, <1>11, Zenon DEF TakesUpTo, n, w
<1>13. t + r <= n /\ t + r >= i
  BY <1>1, <1>2, <1>4, <1>9 DEF t, n, w
<1> QED BY <1>3, <1>6, <1>9, <1>12, <1>13, Zenon DEF Prepared, q, n

\* The cuts of a packet follow one another, until less than a chunk is left.
LEMMA PreparedIs ==
    ASSUME NEW y, Sound(y)
    PROVE  LET p == PreparedFolds(y) IN
           /\ p.cuts \in Seq(Cuts) /\ p.taken \in Nat
           /\ \E taken : TakesUpTo(y, taken, p)
           /\ Len(y.pend) - p.taken < RouteChunk
<1> DEFINE n == Len(y.pend)  w == RouteChunk  none == [taken |-> 0, cuts |-> << >>]
           V == {p \in [taken : Nat, cuts : Seq(Cuts)] : \E i \in Nat : Prepared(y, p, i)}
           next(p) == IF n - p.taken < w THEN p ELSE MoreCuts(y, p)
           step == [i \in 1 .. n |-> [p \in V |-> next(p)]]
<1>1. n \in Nat /\ w \in Nat /\ w >= 1
  <2>1. y.pend \in Seq(Nat) /\ w \in Nat /\ w >= 1
    BY LayerTypes, ConstantTypes, Zenon DEF Sound
  <2> QED BY <2>1
<1>2. none.taken = 0 /\ none.cuts = << >> /\ Len(<< >>) = 0 /\ << >> \in Seq(Cuts)
      /\ none \in [taken : Nat, cuts : Seq(Cuts)]
  <2> DEFINE C == Cuts
  <2> HIDE DEF C
  <2>1. << >> \in Seq(C) /\ none \in [taken : Nat, cuts : Seq(C)]
    OBVIOUS
  <2> QED BY <2>1 DEF C
<1> HIDE DEF none
<1>3. Prepared(y, none, 0)
  <2> DEFINE f == [k \in 0 .. 0 |-> 0]
  <2>1. f \in [0 .. 0 -> Nat] /\ f[0] = 0
    OBVIOUS
  <2> HIDE DEF f
  <2>2. TakesUpTo(y, f, none)
    <3>1. \A i : i \notin 1 .. 0
      OBVIOUS
    <3> QED BY <1>2, <2>1, <3>1, Zenon DEF TakesUpTo
  <2>3. 0 \in Nat /\ 0 <= n /\ 0 >= 0
    BY <1>1
  <2> QED BY <1>2, <2>2, <2>3, Zenon DEF Prepared, n
<1>4. ASSUME NEW p \in [taken : Nat, cuts : Seq(Cuts)], NEW i \in Nat \ {0}, Prepared(y, p, i - 1)
      PROVE  next(p) \in [taken : Nat, cuts : Seq(Cuts)] /\ Prepared(y, next(p), i)
  <2>1. CASE n - p.taken < w
    <3>1. Prepared(y, p, i)
      BY <1>4, <2>1, Zenon DEF Prepared, n, w
    <3> QED BY <2>1, <3>1, Zenon
  <2>2. CASE ~(n - p.taken < w)
    <3>1. p.taken \in Nat
      BY <1>4, Zenon DEF Prepared
    <3>2. n - p.taken >= w
      BY <1>1, <2>2, <3>1
    <3>3. Prepared(y, MoreCuts(y, p), i)
      BY <1>4, <3>2, MoreIs, Zenon
    <3>4. MoreCuts(y, p).taken \in Nat /\ MoreCuts(y, p).cuts \in Seq(Cuts)
      BY <3>3, Zenon DEF Prepared
    <3> DEFINE C == Seq(Cuts)
    <3> HIDE DEF C
    <3>5. MoreCuts(y, p) \in [taken : Nat, cuts : C]
      BY <3>4 DEF MoreCuts, C
    <3> QED BY <2>2, <3>3, <3>5, Zenon DEF C
  <2> QED BY <2>1, <2>2, Zenon
<1>5. \A p \in V : next(p) \in V
  <2> TAKE p \in V
  <2>1. PICK i \in Nat : Prepared(y, p, i)
    BY Zenon
  <2>2. i + 1 \in Nat \ {0} /\ (i + 1) - 1 = i
    OBVIOUS
  <2>3. next(p) \in [taken : Nat, cuts : Seq(Cuts)] /\ Prepared(y, next(p), i + 1)
    <3> HIDE DEF next
    <3> QED BY <1>4, <2>1, <2>2, Zenon
  <2> HIDE DEF next
  <2> QED BY <2>2, <2>3, Zenon
<1>6. none \in V
  <2>1. 0 \in Nat
    OBVIOUS
  <2> QED BY <1>2, <1>3, <2>1, Zenon
<1>7. PICK g : Steps(g, n, V, none, step)
  <2>1. step \in [1 .. n -> [V -> V]]
    <3> HIDE DEF next, V, n
    <3> QED BY <1>5, Zenon
  <2> HIDE DEF step, n, V
  <2> QED BY <1>1, <1>6, <2>1, StepsExist
<1>8. /\ g \in [0 .. n -> V] /\ g[0] = none
      /\ \A i \in 1 .. n : g[i] = step[i][g[i - 1]]
  BY <1>7, Zenon DEF Steps
<1> HIDE DEF V
<1>9. \A i \in 1 .. n : i - 1 \in 0 .. n /\ i \in 0 .. n /\ i # 0 /\ i \in Nat \ {0}
  BY <1>1
<1>10. \A i \in 1 .. n : g[i] = next(g[i - 1])
  <2> TAKE i \in 1 .. n
  <2>1. g[i - 1] \in V
    BY <1>8, <1>9, Zenon
  <2>2. step[i][g[i - 1]] = next(g[i - 1])
    <3> HIDE DEF next
    <3> QED BY <2>1, Zenon
  <2> HIDE DEF step, next
  <2> QED BY <1>8, <2>2, Zenon
<1> DEFINE Rec(h) == h = [i \in 0 .. n |-> IF i = 0 THEN none ELSE next(h[i - 1])]
           fl == CHOOSE h : Rec(h)
<1>11. Rec(g)
  <2>1. \A i \in 0 .. n : g[i] = IF i = 0 THEN none ELSE next(g[i - 1])
    <3>1. \A i \in 0 .. n : i = 0 \/ i \in 1 .. n
      BY <1>1
    <3> HIDE DEF n, step, next
    <3> QED BY <1>8, <1>9, <1>10, <3>1, Zenon
  <2>2. g = [i \in 0 .. n |-> g[i]]
    BY <1>8, Zenon
  <2> HIDE DEF n, next
  <2> QED BY <2>1, <2>2, Zenon
<1>12. Rec(fl)
  <2> HIDE DEF Rec
  <2> QED BY <1>11
<1>13. PreparedFolds(y) = fl[n]
  BY Zenon DEF PreparedFolds, MoreCuts, none
<1> HIDE DEF fl
<1>14. fl[0] = none /\ \A i \in 1 .. n : fl[i] = next(fl[i - 1])
  <2>1. 0 \in 0 .. n
    BY <1>1
  <2> HIDE DEF n, next
  <2>2. \A i \in 0 .. n : fl[i] = IF i = 0 THEN none ELSE next(fl[i - 1])
    BY <1>12, Zenon
  <2> QED BY <1>9, <2>1, <2>2, Zenon
<1> HIDE DEF Rec, step
<1> DEFINE R == [taken : Nat, cuts : Seq(Cuts)]
           G == {i \in 0 .. n : fl[i] \in R /\ Prepared(y, fl[i], i)}
<1>15. 0 .. n \subseteq G
  <2>1. 0 \in G
    <3>1. 0 \in 0 .. n
      BY <1>1
    <3> QED BY <1>2, <1>3, <1>14, <3>1, Zenon
  <2>2. ASSUME NEW k \in 1 .. n, k - 1 \in G PROVE k \in G
    <3>1. fl[k - 1] \in R /\ Prepared(y, fl[k - 1], k - 1)
      BY <2>2, Zenon
    <3>2. next(fl[k - 1]) \in R /\ Prepared(y, next(fl[k - 1]), k)
      <4> HIDE DEF next
      <4> QED BY <1>4, <1>9, <3>1, Zenon
    <3> HIDE DEF next
    <3> QED BY <1>9, <1>14, <3>2, Zenon
  <2> HIDE DEF G
  <2> QED BY <1>1, <2>1, <2>2, UpTo
<1> DEFINE p == PreparedFolds(y)
<1>16. p \in R /\ Prepared(y, p, n)
  <2>1. n \in 0 .. n
    BY <1>1
  <2> QED BY <1>13, <1>15, <2>1, Zenon
<1> HIDE DEF fl, next, p
<1>17. p.taken \in Nat /\ p.cuts \in Seq(Cuts) /\ p.taken <= n
       /\ (n - p.taken < w \/ p.taken >= n)
  BY <1>16, Zenon DEF Prepared, n, w
<1>18. n - p.taken < w
  <2> DEFINE t == p.taken
  <2>1. t \in Nat /\ t <= n /\ (n - t < w \/ t >= n)
    BY <1>17, Zenon
  <2> HIDE DEF t, n, w
  <2>2. n - t < w
    BY <1>1, <2>1
  <2> QED BY <2>2, Zenon DEF t
<1>19. PICK taken : TakesUpTo(y, taken, p)
  BY <1>16, Zenon DEF Prepared
<1>20. Len(y.pend) - p.taken < RouteChunk
  BY <1>18, Zenon DEF n, w
<1> QED BY <1>17, <1>19, <1>20, Zenon DEF p

-----------------------------------------------------------------------------
(***************************************************************************)
(* The readout with new tokens.                                            *)
(***************************************************************************)

\* The keys of two lists that are joined.
LEMMA TokensJoin ==
    ASSUME NEW s \in Seq(Nat), NEW t \in Seq(Nat)
    PROVE  Tokens(s \o t) = Tokens(s) \o Tokens(t)
<1> DEFINE w == s \o t  m == Len(s)  n == Len(t)  a == Tokens(s)  b == Tokens(t)  d == Tokens(w)
           u == a \o b
<1>1. /\ w \in Seq(Nat) /\ Len(w) = m + n /\ m \in Nat /\ n \in Nat
      /\ \A i \in 1 .. m : w[i] = s[i]
      /\ \A i \in m + 1 .. m + n : w[i] = t[i - m]
  OBVIOUS
<1>2. /\ a \in Seq(Keys) /\ Len(a) = m /\ \A i \in 1 .. m : a[i] = Token(s[i])
      /\ b \in Seq(Keys) /\ Len(b) = n /\ \A i \in 1 .. n : b[i] = Token(t[i])
  BY TokensAre, Zenon
<1> HIDE DEF w
<1>3. /\ d \in Seq(Keys) /\ Len(d) = m + n /\ \A i \in 1 .. m + n : d[i] = Token(w[i])
  <2>1. /\ d \in Seq(Keys) /\ Len(d) = Len(w) /\ \A i \in 1 .. Len(w) : d[i] = Token(w[i])
    BY <1>1, TokensAre, Zenon
  <2> QED BY <1>1, <2>1, Zenon
<1> DEFINE K == Keys
<1> HIDE DEF a, b, d, m, n, K
<1>4. /\ u \in Seq(K) /\ Len(u) = m + n
      /\ \A i \in 1 .. m : u[i] = a[i]
      /\ \A i \in m + 1 .. m + n : u[i] = b[i - m]
  <2>1. a \in Seq(K) /\ b \in Seq(K)
    BY <1>2, Zenon DEF K
  <2>2. /\ a \o b \in Seq(K) /\ Len(a \o b) = Len(a) + Len(b)
        /\ \A i \in 1 .. Len(a) : (a \o b)[i] = a[i]
        /\ \A i \in Len(a) + 1 .. Len(a) + Len(b) : (a \o b)[i] = b[i - Len(a)]
    BY <2>1, Joined, Zenon
  <2> QED BY <1>2, <2>2, Zenon
<1>5. \A i \in 1 .. m + n : i \in 1 .. m \/ (i \in m + 1 .. m + n /\ i - m \in 1 .. n)
  BY <1>1
<1> HIDE DEF u
<1>6. \A i \in 1 .. m + n : d[i] = u[i]
  <2> TAKE i \in 1 .. m + n
  <2>1. CASE i \in 1 .. m
    <3>1. d[i] = Token(w[i])
      BY <1>3, Zenon
    <3>2. w[i] = s[i]
      BY <1>1, <2>1, Zenon
    <3>3. u[i] = a[i]
      BY <1>4, <2>1, Zenon
    <3>4. a[i] = Token(s[i])
      BY <1>2, <2>1, Zenon
    <3> QED BY <3>1, <3>2, <3>3, <3>4, Zenon
  <2>2. CASE i \in m + 1 .. m + n /\ i - m \in 1 .. n
    <3> DEFINE j == i - m
    <3>1. j \in 1 .. n /\ w[i] = t[j] /\ u[i] = b[j]
      BY <1>1, <1>4, <2>2, Zenon
    <3> HIDE DEF j
    <3> QED BY <1>2, <1>3, <3>1, Zenon
  <2> QED BY <1>5, <2>1, <2>2, Zenon
<1>7. d = u
  <2>1. d \in Seq(K) /\ u \in Seq(K) /\ Len(d) = m + n /\ Len(u) = m + n
    BY <1>3, <1>4 DEF K
  <2> QED BY <1>6, <2>1
<1> QED BY <1>7, Zenon DEF a, b, d, u, w

BankOf(y) == FlattenSeq(SlotReadouts(y))

\* The readout of the bank depends on the bank only.
LEMMA SameBankOf ==
    ASSUME NEW y, NEW z, SameBank(y, z)
    PROVE  BankOf(z) = BankOf(y)
<1>1. \A s \in Slots : SlotReadout(z, s) = SlotReadout(y, s)
  BY Zenon DEF SameBank, SlotReadout
<1>2. SlotReadouts(z) = SlotReadouts(y)
  BY <1>1, Zenon DEF SlotReadouts
<1> QED BY <1>2, Zenon DEF BankOf

\* The readout is the sink, the bank, and the tail and the ring.
LEMMA ReadoutParts ==
    ASSUME NEW y, Sound(y)
    PROVE  /\ BankOf(y) \in Seq(Keys) /\ y.sink \in Seq(Nat) /\ y.pend \o y.ring \in Seq(Nat)
           /\ Readout(y) = (Tokens(y.sink) \o BankOf(y)) \o Tokens(y.pend \o y.ring)
<1> DEFINE a == Tokens(y.sink)  b == BankOf(y)  c == Tokens(y.pend)  d == Tokens(y.ring)
           K == Keys
<1>1. y.sink \in Seq(Nat) /\ y.pend \in Seq(Nat) /\ y.ring \in Seq(Nat)
  BY LayerTypes, Zenon DEF Sound
<1>2. a \in Seq(K) /\ c \in Seq(K) /\ d \in Seq(K)
  BY <1>1, TokensAre, Zenon
<1>3. b \in Seq(K)
  BY BankReadout, Zenon DEF BankOf
<1>4. Readout(y) = ((a \o b) \o c) \o d
  BY Zenon DEF Readout, SlotReadouts, BankOf
<1>5. Tokens(y.pend \o y.ring) = c \o d
  BY <1>1, TokensJoin, Zenon
<1> HIDE DEF a, b, c, d, K
<1>6. a \o b \in Seq(K)
  BY <1>2, <1>3
<1>7. ((a \o b) \o c) \o d = (a \o b) \o (c \o d)
  <2> DEFINE e == a \o b
  <2>1. e \in Seq(K)
    BY <1>6
  <2> HIDE DEF e
  <2>2. (e \o c) \o d = e \o (c \o d)
    BY <1>2, <2>1, ConcatAssociative
  <2> QED BY <2>2, Zenon DEF e
<1>8. y.pend \o y.ring \in Seq(Nat)
  BY <1>1, Joined, Zenon
<1> QED BY <1>1, <1>3, <1>4, <1>5, <1>7, <1>8, Zenon DEF a, b, K

\* The readout of the bank is made slot after slot.
LEMMA BankSteps ==
    ASSUME NEW y, Sound(y)
    PROVE  LET h == SlotReadouts(y) IN
           \E f \in [0 .. Len(h) -> Seq(Keys)] :
              /\ f[0] = << >> /\ FlattenSeq(h) = f[Len(h)]
              /\ \A i \in 1 .. Len(h) : f[i] = f[i - 1] \o h[i]
<1> DEFINE h == SlotReadouts(y)
<1>1. h \in Seq(Seq(Keys))
  BY SlotReadoutsAre, Zenon
<1> HIDE DEF h
<1>2. \E f \in [0 .. Len(h) -> Seq(Keys)] :
         /\ f[0] = << >> /\ FlattenSeq(h) = f[Len(h)]
         /\ \A i \in 1 .. Len(h) : f[i] = f[i - 1] \o h[i]
  BY <1>1, FlattenIs, Zenon
<1> QED BY <1>2, Zenon DEF h

\* Nothing was routed: the bank is empty.
LEMMA BankEmpty ==
    ASSUME NEW y, Sound(y), y.evicted = 0
    PROVE  BankOf(y) = << >>
<1> DEFINE h == SlotReadouts(y)  n == RoutedSlots
<1>1. \A s \in Slots : y.spans[s] = << >>
  <2> TAKE s \in Slots
  <2> DEFINE old == y.spans[s]
  <2>1. y \in LayerStates /\ Placed(y)
    BY Zenon DEF Sound
  <2>2. old \in Seq(Spans) /\ SinkTokens \in Nat /\ y.means \in [Slots -> SUBSET Nat]
    BY <2>1, LayerTypes, ConstantTypes, Zenon
  <2>3. UNION Range(y.means) = {}
    <3>1. UNION Range(y.means) = SinkTokens .. SinkTokens + 0 - 1
      BY <2>1, Zenon DEF Placed
    <3>2. SinkTokens .. SinkTokens + 0 - 1 = {}
      BY <2>2
    <3> QED BY <3>1, <3>2, Zenon
  <2>4. y.means[s] = {}
    <3>1. y.means[s] \in Range(y.means)
      BY <2>2 DEF Range
    <3> QED BY <2>3, <3>1, Zenon
  <2>5. ASSUME NEW i \in DOMAIN old PROVE FALSE
    <3> DEFINE sp == old[i]  kv == sp.kv
    <3>1. IsSpan(sp) /\ ToSet(kv) \subseteq {}
      BY <2>1, <2>4, Zenon DEF Placed
    <3>2. sp \in Spans
      <4>1. \A j \in DOMAIN old : old[j] \in Spans
        BY <2>2
      <4> QED BY <4>1, Zenon
    <3> HIDE DEF sp
    <3>3. kv \in Seq(Nat) /\ Len(kv) \in 1 .. MaxSpan /\ Len(kv) \in Nat
      BY <3>1, <3>2, SpanIs, Zenon
    <3> HIDE DEF kv
    <3>4. 1 \in DOMAIN kv
      BY <3>3
    <3> QED BY <3>1, <3>4, Zenon DEF ToSet
  <2> DEFINE P == Spans
  <2> HIDE DEF old, P
  <2>6. old \in Seq(P)
    BY <2>2 DEF P
  <2>7. old = << >>
    <3> DEFINE k == Len(old)
    <3>1. k \in Nat /\ DOMAIN old = 1 .. k /\ (k = 0 => old = << >>)
      BY <2>6
    <3>2. 1 \notin 1 .. k
      BY <2>5, <3>1, Zenon
    <3> HIDE DEF k
    <3>3. k = 0
      BY <3>1, <3>2
    <3> QED BY <3>1, <3>3, Zenon
  <2> QED BY <2>7, Zenon DEF old
<1>2. /\ h \in Seq(Seq(Keys)) /\ Len(h) = n /\ n \in Nat /\ Slots = 1 .. n
      /\ \A s \in Slots : h[s] = << >>
  <2>1. \A s \in Slots : SlotReadout(y, s) = << >>
    BY <1>1, Zenon DEF SlotReadout
  <2>2. h \in Seq(Seq(Keys)) /\ Len(h) = n /\ \A s \in Slots : h[s] = SlotReadout(y, s)
    BY SlotReadoutsAre, Zenon
  <2> QED BY <2>1, <2>2, ConstantTypes, Zenon DEF Slots
<1> HIDE DEF h, n
<1>3. PICK f \in [0 .. Len(h) -> Seq(Keys)] :
        /\ f[0] = << >> /\ FlattenSeq(h) = f[Len(h)]
        /\ \A i \in 1 .. Len(h) : f[i] = f[i - 1] \o h[i]
  <2>1. \E f \in [0 .. Len(h) -> Seq(Keys)] :
         /\ f[0] = << >> /\ FlattenSeq(h) = f[Len(h)]
         /\ \A i \in 1 .. Len(h) : f[i] = f[i - 1] \o h[i]
    BY BankSteps, Zenon DEF h
  <2> QED BY <2>1, Zenon
<1> DEFINE G == {i \in 0 .. n : f[i] = << >>}
<1>4. 0 .. n \subseteq G
  <2>1. 0 \in G
    BY <1>2, <1>3
  <2>2. ASSUME NEW k \in 1 .. n, k - 1 \in G PROVE k \in G
    <3>1. k \in 0 .. n /\ f[k - 1] = << >> /\ h[k] = << >>
      BY <1>2, <2>2
    <3>2. f[k] = f[k - 1] \o h[k]
      BY <1>2, <1>3, Zenon
    <3>3. << >> \o << >> = << >>
      OBVIOUS
    <3> QED BY <3>1, <3>2, <3>3, Zenon
  <2> HIDE DEF G
  <2> QED BY <1>2, <2>1, <2>2, UpTo
<1>5. f[n] = << >>
  <2>1. n \in 0 .. n
    BY <1>2
  <2> QED BY <1>4, <2>1, Zenon
<1> QED BY <1>2, <1>3, <1>5, Zenon DEF BankOf, h

\* New tokens are at the end of the readout, wherever they went.
LEMMA ReadoutAppended ==
    ASSUME NEW y, Sound(y), NEW n \in Nat, NEW toks,
           toks = Positions(y.cumulative, y.cumulative + n)
    PROVE  Readout(Appended(y, toks)) = Readout(y) \o Tokens(toks) /\ toks \in Seq(Nat)
<1> DEFINE z == Appended(y, toks)  c == y.cumulative  d == z.cumulative  e == y.evicted
           k == Len(y.sink)  kz == Len(z.sink)  st == SinkTokens
           tail == y.pend \o y.ring  tailz == z.pend \o z.ring
           b == BankOf(y)  K == Keys
<1>1. y \in LayerStates /\ Placed(y)
  BY Zenon DEF Sound
<1>2. Sound(z) /\ SameBank(y, z)
  BY AppendedSound, Zenon
<1>3. AppendedTo(y, z, n)
  BY <1>1, AppendedIs, Zenon
<1> HIDE DEF z
<1>4. /\ z.sink = Positions(0, kz) /\ tailz = Positions(kz + e, d) /\ d = c + n
      /\ kz = IF st <= d THEN st ELSE d
  BY <1>3, Zenon DEF AppendedTo
<1>5. /\ k \in Nat /\ k + e \in Nat /\ k + e <= c /\ y.sink = Positions(0, k)
      /\ k = (IF st <= c THEN st ELSE c)
      /\ c < st => k = c /\ e = 0 /\ y.pend = << >> /\ y.ring = << >>
  BY <1>1, PlacedPieces, Zenon
<1>6. c \in Nat /\ e \in Nat /\ st \in Nat
  BY <1>1, LayerTypes, ConstantTypes, Zenon
<1>7. tail = Positions(k + e, c)
  BY <1>1, Zenon DEF Placed
<1>8. BankOf(z) = b
  BY <1>2, SameBankOf, Zenon
<1>9. /\ b \in Seq(Keys) /\ y.sink \in Seq(Nat) /\ tail \in Seq(Nat)
      /\ Readout(y) = (Tokens(y.sink) \o b) \o Tokens(tail)
  BY ReadoutParts, Zenon
<1>10. /\ z.sink \in Seq(Nat) /\ tailz \in Seq(Nat)
       /\ Readout(z) = (Tokens(z.sink) \o b) \o Tokens(tailz)
  BY <1>2, <1>8, ReadoutParts, Zenon
<1>11. toks \in Seq(Nat)
  <2>1. c \in Nat /\ c + n \in Nat
    BY <1>6
  <2> QED BY <2>1, PositionsAre, Zenon
<1>12. /\ Tokens(y.sink) \in Seq(K) /\ Tokens(tail) \in Seq(K) /\ Tokens(toks) \in Seq(K)
       /\ b \in Seq(K)
  BY <1>9, <1>11, TokensAre, Zenon
<1>13. c < st => b = << >> /\ tail = << >>
  <2>1. << >> \o << >> = << >>
    OBVIOUS
  <2>2. c < st => b = << >>
    BY <1>5, BankEmpty, Zenon
  <2> QED BY <1>5, <2>1, <2>2, Zenon
<1> HIDE DEF K, c, d, e, k, kz, st, tail, tailz, b
<1>14. CASE ~(c < st)
  <2>1. k = st /\ kz = st /\ k + e \in Nat /\ c \in Nat /\ d \in Nat /\ k + e <= c /\ c <= d
    BY <1>4, <1>5, <1>6, <1>14
  <2>2. z.sink = y.sink
    BY <1>4, <1>5, <2>1, Zenon
  <2>3. tailz = tail \o toks
    <3>1. Positions(k + e, c) \o Positions(c, d) = Positions(k + e, d)
      BY <2>1, PositionsJoin, Zenon
    <3>2. toks = Positions(c, d)
      BY <1>4, Zenon DEF c
    <3>3. tailz = Positions(k + e, d)
      BY <1>4, <2>1, Zenon
    <3> QED BY <1>7, <3>1, <3>2, <3>3, Zenon
  <2>4. Tokens(tailz) = Tokens(tail) \o Tokens(toks)
    BY <1>9, <1>11, <2>3, TokensJoin, Zenon
  <2> DEFINE p == Tokens(y.sink) \o b  q == Tokens(tail)  r == Tokens(toks)
  <2>5. p \in Seq(K)
    <3> DEFINE u == Tokens(y.sink)
    <3>1. u \in Seq(K) /\ b \in Seq(K)
      BY <1>12
    <3> HIDE DEF u
    <3>2. u \o b \in Seq(K)
      BY <3>1
    <3> QED BY <3>2, Zenon DEF u
  <2>6. q \in Seq(K) /\ r \in Seq(K)
    BY <1>12, Zenon
  <2>7. Readout(z) = p \o (q \o r) /\ Readout(y) = p \o q
    BY <1>9, <1>10, <2>2, <2>4, Zenon
  <2> HIDE DEF p, q
  <2>8. (p \o q) \o r = p \o (q \o r)
    <3> HIDE DEF r
    <3> QED BY <2>5, <2>6, ConcatAssociative
  <2> QED BY <1>11, <2>7, <2>8, Zenon DEF z
<1>15. CASE c < st
  <2>1. b = << >> /\ tail = << >> /\ k = c /\ e = 0
    BY <1>5, <1>13, <1>15, Zenon
  <2>2. Readout(y) = Tokens(y.sink)
    <3> DEFINE u == Tokens(y.sink)
    <3>1. Tokens(<< >>) = << >>
      BY DEF Tokens
    <3>2. u \in Seq(K)
      BY <1>12, Zenon
    <3> HIDE DEF u
    <3>3. (u \o << >>) \o << >> = u
      BY <3>2
    <3>4. Readout(y) = (u \o << >>) \o << >>
      BY <1>9, <2>1, <3>1, Zenon DEF u
    <3> QED BY <3>3, <3>4, Zenon DEF u
  <2>3. Readout(z) = Tokens(z.sink \o tailz)
    <3> DEFINE u == Tokens(z.sink)
    <3>1. u \in Seq(K)
      BY <1>10, TokensAre, Zenon DEF K
    <3>2. Tokens(z.sink \o tailz) = u \o Tokens(tailz)
      BY <1>10, TokensJoin, Zenon
    <3>3. Readout(z) = (u \o << >>) \o Tokens(tailz)
      BY <1>10, <2>1, Zenon
    <3> HIDE DEF u
    <3>4. u \o << >> = u
      BY <3>1
    <3> QED BY <3>2, <3>3, <3>4, Zenon
  <2>4. z.sink \o tailz = Positions(0, d)
    <3>1. 0 \in Nat /\ kz \in Nat /\ d \in Nat /\ 0 <= kz /\ kz <= d /\ kz + e = kz
      BY <1>4, <1>6, <2>1
    <3>2. Positions(0, kz) \o Positions(kz, d) = Positions(0, d)
      BY <3>1, PositionsJoin, Zenon
    <3>3. tailz = Positions(kz, d)
      BY <1>4, <3>1, Zenon
    <3> QED BY <1>4, <3>2, <3>3, Zenon
  <2>5. y.sink \o toks = Positions(0, d)
    <3>1. 0 \in Nat /\ c \in Nat /\ d \in Nat /\ 0 <= c /\ c <= d
      BY <1>4, <1>6
    <3>2. Positions(0, c) \o Positions(c, d) = Positions(0, d)
      BY <3>1, PositionsJoin, Zenon
    <3>3. toks = Positions(c, d) /\ y.sink = Positions(0, c)
      BY <1>4, <1>5, <2>1, Zenon DEF c
    <3> QED BY <3>2, <3>3, Zenon
  <2>6. Tokens(y.sink \o toks) = Tokens(y.sink) \o Tokens(toks)
    BY <1>9, <1>11, TokensJoin, Zenon
  <2> QED BY <1>11, <2>2, <2>3, <2>4, <2>5, <2>6, Zenon DEF z
<1> QED BY <1>14, <1>15, Zenon

-----------------------------------------------------------------------------
(***************************************************************************)
(* A layer at rest stays one.                                              *)
(***************************************************************************)

\* The readout is made anew.
LEMMA MaterializedIs ==
    ASSUME NEW y, Sound(y)
    PROVE  LET z == Materialized(y) IN
           /\ Sound(z) /\ SameState(y, z) /\ z.dense = Readout(y) /\ z.released = FALSE
           /\ Len(y.pend) < RouteChunk => AtRest(z)
<1> DEFINE z == Materialized(y)  d == Readout(y)  r == FALSE
<1>1. y \in LayerStates /\ d \in Seq(Keys) /\ r \in BOOLEAN
  BY ReadoutIs, Zenon DEF Sound
<1>2. z = WithDense(y, d, r)
  BY Zenon DEF Materialized, WithDense
<1> HIDE DEF d, r, z
<1>3. z \in LayerStates /\ SameState(y, z) /\ z.dense = d /\ z.released = r
  BY <1>1, <1>2, DenseIsFree, Zenon
<1>4. Sound(z) /\ Readout(z) = d
  BY <1>3, SameSound, SameReadout, Zenon DEF d
<1>5. Len(y.pend) < RouteChunk => AtRest(z)
  BY <1>3, <1>4, Zenon DEF AtRest, SameState
<1> QED BY <1>3, <1>4, <1>5, Zenon DEF z, d, r

\* release_dense_materialized_storage changes nothing else.
LEMMA ReleasedIs ==
    ASSUME NEW y, AtRest(y)
    PROVE  LET z == Released(y) IN
           AtRest(z) /\ SameState(y, z) /\ z.released = TRUE
<1> DEFINE z == Released(y)  d == << >>  r == TRUE
<1>1. y \in LayerStates /\ d \in Seq(Keys) /\ r \in BOOLEAN /\ Sound(y)
  <2> DEFINE K == Keys
  <2> HIDE DEF K
  <2>1. d \in Seq(K)
    OBVIOUS
  <2> QED BY <2>1 DEF K, AtRest, Sound
<1>2. z = WithDense(y, d, r)
  BY Zenon DEF Released, WithDense
<1>3. r = TRUE
  OBVIOUS
<1> HIDE DEF d, r, z
<1>4. z \in LayerStates /\ SameState(y, z) /\ z.released = r
  BY <1>1, <1>2, DenseIsFree, Zenon
<1>5. Sound(z)
  BY <1>1, <1>4, SameSound, Zenon
<1> QED BY <1>3, <1>4, <1>5, Zenon DEF AtRest, SameState, z

\* What an update starts from.
LEMMA WholeIs ==
    ASSUME NEW y, AtRest(y), NEW kind
    PROVE  LET z == Whole(y, kind) IN
           /\ AtRest(z) /\ SameState(y, z) /\ z.dense = Readout(y) /\ z.released = FALSE
<1>1. Sound(y) /\ Len(y.pend) < RouteChunk /\ y.released \in BOOLEAN
  BY LayerTypes, Zenon DEF AtRest, Sound
<1>2. CASE y.released \/ kind = "exact"
  <2>1. Whole(y, kind) = Materialized(y)
    BY <1>2, Zenon DEF Whole
  <2> QED BY <1>1, <2>1, MaterializedIs, Zenon
<1>3. CASE ~(y.released \/ kind = "exact")
  <2>1. Whole(y, kind) = y
    BY <1>3, Zenon DEF Whole
  <2>2. y.dense = Readout(y) /\ y.released = FALSE
    BY <1>1, <1>3, Zenon DEF AtRest
  <2>3. SameState(y, y)
    BY Zenon DEF SameState, SameBank
  <2> QED BY <2>1, <2>2, <2>3, Zenon
<1> QED BY <1>2, <1>3, Zenon

\* The state an update starts with.
EnteredFrom(y, z, n) ==
    /\ Sound(z) /\ SameBank(y, z) /\ z.cumulative = y.cumulative + n
    /\ z.cursor = y.cursor /\ z.spans = y.spans /\ Len(z.pend) <= Len(y.pend) + n

\* The new tokens are in the layer, whatever readout the update starts from.
LEMMA EnteredIs ==
    ASSUME NEW y, AtRest(y), NEW kind, NEW n \in Nat, NEW toks,
           toks = Positions(y.cumulative, y.cumulative + n)
    PROVE  EnteredFrom(y, Appended(Whole(y, kind), toks), n)
<1> DEFINE w == Whole(y, kind)  z == Appended(w, toks)
<1>1. Sound(w) /\ SameState(y, w)
  BY WholeIs, Zenon DEF AtRest
<1> HIDE DEF w
<1>2. w.cumulative = y.cumulative /\ w.pend = y.pend /\ SameBank(y, w)
  BY <1>1, Zenon DEF SameState
<1>3. toks = Positions(w.cumulative, w.cumulative + n)
  BY <1>2, Zenon
<1>4. /\ Sound(z) /\ SameBank(w, z) /\ z.cumulative = w.cumulative + n
      /\ Len(z.pend) <= Len(w.pend) + n
  BY <1>1, <1>3, AppendedSound, Zenon
<1> HIDE DEF z
<1>5. SameBank(y, z)
  BY <1>2, <1>4, Zenon DEF SameBank
<1>6. EnteredFrom(y, z, n)
  BY <1>2, <1>4, <1>5, Zenon DEF EnteredFrom, SameBank
<1> QED BY <1>6, Zenon DEF z, w

\* commit_decode_tokens.
LEMMA CommittedIs ==
    ASSUME NEW y, AtRest(y), NEW n \in Nat, NEW toks,
           toks = Positions(y.cumulative, y.cumulative + n), CanCommit(y, toks)
    PROVE  AtRest(Committed(y, toks)) /\ EnteredFrom(y, Committed(y, toks), n)
<1> DEFINE a == Appended(y, toks)  z == Committed(y, toks)
           d == IF y.released THEN y.dense ELSE y.dense \o Tokens(toks)
           r == a.released
<1>1. Sound(y) /\ y \in LayerStates /\ y.released \in BOOLEAN /\ y.dense \in Seq(Keys)
  BY LayerTypes, Zenon DEF AtRest, Sound
<1>2. /\ Sound(a) /\ SameBank(y, a) /\ a.cumulative = y.cumulative + n
      /\ Len(a.pend) <= Len(y.pend) + n
      /\ a.dense = y.dense /\ a.released = y.released
  BY <1>1, AppendedSound, Zenon
<1>3. Len(a.pend) < RouteChunk
  BY Zenon DEF CanCommit
<1>4. Readout(a) = Readout(y) \o Tokens(toks) /\ toks \in Seq(Nat)
  BY <1>1, ReadoutAppended, Zenon
<1>5. d \in Seq(Keys)
  <2>1. CASE y.released
    BY <1>1, <2>1, Zenon
  <2>2. CASE ~y.released
    <3> DEFINE t == Tokens(toks)  e == y.dense
    <3>1. t \in Seq(Keys) /\ e \in Seq(Keys)
      BY <1>1, <1>4, TokensAre, Zenon
    <3> HIDE DEF t, e
    <3>2. e \o t \in Seq(Keys)
      BY <3>1, Joined, Zenon
    <3> QED BY <2>2, <3>2, Zenon DEF t, e
  <2> QED BY <2>1, <2>2, Zenon
<1>6. z = [a EXCEPT !.dense = IF y.released THEN @ ELSE @ \o Tokens(toks)]
  BY Zenon DEF Committed
<1> HIDE DEF a, z
<1>7. a \in LayerStates
  BY <1>2, Zenon DEF Sound
<1>8. z = [a EXCEPT !.dense = d]
  BY <1>2, <1>6, Zenon
<1>9. ~y.released => d = Readout(a)
  BY <1>4, Zenon DEF AtRest
<1> HIDE DEF d, r
<1>10. \A x \in LayerStates : \A q \in Seq(Keys) :
         LET h == [x EXCEPT !.dense = q] IN
         h \in LayerStates /\ SameState(x, h) /\ h.dense = q /\ h.released = x.released
  BY DEF LayerStates, SameState, SameBank
<1>11. z \in LayerStates /\ SameState(a, z) /\ z.dense = d /\ z.released = y.released
  BY <1>2, <1>5, <1>7, <1>8, <1>10, Zenon
<1>12. Sound(z) /\ Readout(z) = Readout(a)
  BY <1>2, <1>11, SameSound, SameReadout, Zenon
<1>13. AtRest(z)
  BY <1>3, <1>9, <1>11, <1>12, Zenon DEF AtRest, SameState
<1>14. EnteredFrom(y, z, n)
  BY <1>2, <1>11, <1>12, Zenon DEF EnteredFrom, SameState, SameBank
<1> QED BY <1>13, <1>14, Zenon DEF z

\* A cache of another request.
LEMMA NoLayerAtRest == AtRest(NoLayer)
<1> DEFINE y == NoLayer  n == RoutedSlots
<1>1. /\ y.cumulative = 0 /\ y.sink = << >> /\ y.ring = << >> /\ y.pend = << >>
      /\ y.spans = [s \in Slots |-> << >>] /\ y.means = [s \in Slots |-> {}]
      /\ y.spanTokens = [s \in Slots |-> 0] /\ y.bankTokens = 0 /\ y.activeSlots = 0
      /\ y.evicted = 0 /\ y.cursor = 0 /\ y.dense = << >> /\ y.released = FALSE
  BY DEF NoLayer
<1>2. y \in LayerStates
  <2> DEFINE P == Spans  K == Keys
  <2> HIDE DEF P, K
  <2>1. /\ << >> \in Seq(P) /\ << >> \in Seq(K) /\ << >> \in Seq(Nat)
        /\ 0 \in Nat /\ 0 \in Int /\ FALSE \in BOOLEAN
    OBVIOUS
  <2>2. /\ [s \in Slots |-> << >>] \in [Slots -> Seq(P)]
        /\ [s \in Slots |-> {}] \in [Slots -> SUBSET Nat]
        /\ [s \in Slots |-> 0] \in [Slots -> Nat]
    BY <2>1
  <2> DEFINE SP == [Slots -> Seq(P)]  SM == [Slots -> SUBSET Nat]  ST == [Slots -> Nat]
             SN == Seq(Nat)  SK == Seq(K)
             f == [s \in Slots |-> << >>]  g == [s \in Slots |-> {}]  h == [s \in Slots |-> 0]
             e == << >>
  <2>3. /\ e \in SN /\ e \in SK /\ f \in SP /\ g \in SM /\ h \in ST
    BY <2>1, <2>2, Zenon
  <2>4. y = [cumulative |-> 0, sink |-> e, ring |-> e, pend |-> e, spans |-> f, means |-> g,
             spanTokens |-> h, bankTokens |-> 0, activeSlots |-> 0, evicted |-> 0,
             cursor |-> 0, dense |-> e, released |-> FALSE]
    BY Zenon DEF NoLayer
  <2> HIDE DEF SP, SM, ST, SN, SK, f, g, h, e
  <2>5. [cumulative |-> 0, sink |-> e, ring |-> e, pend |-> e, spans |-> f, means |-> g,
         spanTokens |-> h, bankTokens |-> 0, activeSlots |-> 0, evicted |-> 0,
         cursor |-> 0, dense |-> e, released |-> FALSE]
         \in [cumulative : Nat, sink : SN, ring : SN, pend : SN, spans : SP, means : SM,
              spanTokens : ST, bankTokens : Int, activeSlots : Int, evicted : Nat,
              cursor : Nat, dense : SK, released : BOOLEAN]
    BY <2>3
  <2> QED BY <2>4, <2>5, Zenon DEF LayerStates, SP, SM, ST, SN, SK, P, K
<1> HIDE DEF y
<1>3. n \in Nat /\ n >= 1 /\ Slots = 1 .. n /\ SinkTokens \in Nat /\ RingTokens \in Nat
      /\ SpanBudget \in Nat /\ MaxSpan \in Nat /\ RouteChunk \in Nat /\ RouteChunk >= 1
  BY ConstantTypes, Zenon DEF Slots
<1>4. Positions(0, 0) = << >> /\ Len(<< >>) = 0 /\ << >> \o << >> = << >>
  BY DEF Positions
<1>5. \A s \in Slots : y.spans[s] = << >> /\ y.means[s] = {} /\ y.spanTokens[s] = 0
  BY <1>1, Zenon
<1>6. Placed(y)
  <2>1. Min({SinkTokens, 0}) = 0
    <3>1. SinkTokens \in Int /\ 0 \in Int /\ SinkTokens >= 0
      BY <1>3
    <3>2. Min({SinkTokens, 0}) = IF SinkTokens <= 0 THEN SinkTokens ELSE 0
      BY <3>1, MinOfTwo, Zenon
    <3> QED BY <1>3, <3>2
  <2>2. 0 + 0 = 0 /\ 0 <= RingTokens
    BY <1>3
  <2>3. UNION Range(y.means) = {}
    <3>1. DOMAIN y.means = Slots
      BY <1>1, Zenon
    <3> QED BY <1>5, <3>1 DEF Range
  <2>4. SinkTokens .. SinkTokens + 0 - 1 = {}
    BY <1>3
  <2>5. \A s \in Slots : DOMAIN y.spans[s] = {}
    BY <1>5
  <2>6. y.sink = Positions(0, Min({SinkTokens, y.cumulative}))
    BY <1>1, <1>4, <2>1, Zenon
  <2>7. y.pend \o y.ring = Positions(Len(y.sink) + y.evicted, y.cumulative)
    BY <1>1, <1>4, <2>2, Zenon
  <2>8. Len(y.ring) <= RingTokens
    BY <1>1, <1>4, <2>2, Zenon
  <2>9. UNION Range(y.means) = SinkTokens .. SinkTokens + y.evicted - 1
    BY <1>1, <2>3, <2>4, Zenon
  <2>10. \A s, t \in Slots : s # t => y.means[s] \cap y.means[t] = {}
    BY <1>5, Zenon
  <2> QED BY <1>1, <2>5, <2>6, <2>7, <2>8, <2>9, <2>10, Zenon DEF Placed
<1>7. Sized(y)
  <2> DEFINE count == y.spanTokens
  <2>1. count \in [Slots -> Nat]
    BY <1>1, <1>2, LayerTypes, Zenon
  <2>2. TotalOf(count) = 0
    <3> HIDE DEF count
    <3>1. n \in Nat
      BY <1>3, Zenon
    <3>2. PICK f \in [0 .. n -> Nat] :
            /\ f[0] = 0 /\ TotalOf(count) = f[n]
            /\ \A i \in 1 .. n : f[i] = f[i - 1] + count[i]
      BY <2>1, <3>1, TotalIs, Zenon
    <3> DEFINE G == {i \in 0 .. n : f[i] = 0}
    <3>3. 0 .. n \subseteq G
      <4>1. 0 \in G
        BY <3>1, <3>2
      <4>2. ASSUME NEW k \in 1 .. n, k - 1 \in G PROVE k \in G
        <5>1. k \in 0 .. n /\ f[k - 1] = 0 /\ count[k] = 0
          BY <1>3, <1>5, <4>2 DEF count
        <5>2. f[k] = f[k - 1] + count[k]
          BY <3>2, Zenon
        <5>3. 0 + 0 = 0
          OBVIOUS
        <5> QED BY <5>1, <5>2, <5>3, Zenon
      <4> HIDE DEF G
      <4> QED BY <3>1, <4>1, <4>2, UpTo
    <3>4. n \in 0 .. n
      BY <3>1
    <3> QED BY <3>2, <3>3, <3>4, Zenon
  <2>3. Len(KV(<< >>)) = 0
    BY <1>4, KVEmpty, Zenon
  <2>4. 0 <= Max({SpanBudget, MaxSpan})
    <3>1. SpanBudget \in Int /\ MaxSpan \in Int
      BY <1>3
    <3>2. Max({SpanBudget, MaxSpan}) = IF SpanBudget >= MaxSpan THEN SpanBudget ELSE MaxSpan
      BY <3>1, MaxOfTwo, Zenon
    <3> QED BY <1>3, <3>2
  <2>5. {s \in Slots : y.spans[s] # << >>} = {}
    BY <1>5, Zenon
  <2>6. Cardinality({}) = 0
    BY FS_EmptySet, Zenon
  <2> QED BY <1>1, <1>5, <2>2, <2>3, <2>4, <2>5, <2>6, Zenon DEF Sized
<1>8. Sound(y)
  BY <1>2, <1>6, <1>7, Zenon DEF Sound
<1>9. Readout(y) = << >>
  <2>1. BankOf(y) = << >>
    BY <1>1, <1>8, BankEmpty, Zenon
  <2>2. Readout(y) = (Tokens(y.sink) \o BankOf(y)) \o Tokens(y.pend \o y.ring)
    BY <1>8, ReadoutParts, Zenon
  <2>3. Tokens(<< >>) = << >>
    BY DEF Tokens
  <2> QED BY <1>1, <1>4, <2>1, <2>2, <2>3, Zenon
<1>10. Len(y.pend) < RouteChunk
  BY <1>1, <1>3, <1>4
<1> QED BY <1>1, <1>8, <1>9, <1>10, Zenon DEF AtRest, y

=============================================================================
