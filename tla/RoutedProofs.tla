--------------------------- MODULE RoutedProofs ---------------------------
(***************************************************************************)
(* Theorems about RoutedSpans, for any number of layers, slots and tokens  *)
(* and any sizes its assumption admits.                                    *)
(*                                                                         *)
(* The inductive invariant.  Between forwards all layers are equal, at     *)
(* rest, and no decision is left over.  During a forward the layers left   *)
(* behind are where the leader's folds lead, those ahead are where they    *)
(* were, and the log has, for each fold, as many followers as there are    *)
(* layers that have not made it.  A padded group has, in each layer, the   *)
(* row's readout and the group's tokens in the places the mask shows.      *)
(***************************************************************************)
EXTENDS RoutedLemmas

-----------------------------------------------------------------------------
(***************************************************************************)
(* A forward.  It takes the layers one after the other, and each of them   *)
(* goes the same way: a chain of states, from the one with the new tokens, *)
(* a state for each fold.  The leader makes the way longer, the others     *)
(* follow, and what is left in the log says how far each of them is.       *)
(*                                                                         *)
(* Below, f is the forward, y the state the layers come from, way[m] the   *)
(* last state of the way, said[i] the decision at cursor i.                *)
(***************************************************************************)

Commits(y, f) == f.kind = "commit" /\ CanCommit(y, f.tokens)
Left(y, f, z) == IF Commits(y, f) THEN Committed(y, f.tokens) ELSE Materialized(z)

Goes(y, f, way, said, m) ==
    /\ way[0] = Appended(Whole(y, f.kind), f.tokens)
    /\ \A i \in 0 .. m : Sound(way[i]) /\ way[i].cursor = y.cursor + i
    /\ \A i \in 0 .. m - 1 :
         /\ Len(way[i].pend) >= RouteChunk
         /\ way[i + 1] = FoldBy(way[i], said[y.cursor + i])
    /\ Commits(y, f) => m = 0

\* How many layers have still to follow the decision at cursor i, when layer l
\* has followed those before c.
Waiting(l, c, i) == IF i < c THEN NumLayers - l ELSE NumLayers - l + 1
Log(c, said, m, l, j) ==
    LET due == {i \in c .. c + m - 1 : Waiting(l, c + j, i) > 0}
    IN  [i \in due |-> [op |-> said[i], left |-> Waiting(l, c + j, i)]]

\* The cuts of a packet: taken[i] tokens of the tail go with the first i.
Takes(pend, cuts, taken) ==
    /\ cuts \in Seq(Cuts) /\ taken \in [0 .. Len(cuts) -> Nat] /\ taken[0] = 0
    /\ \A i \in 1 .. Len(cuts) :
         /\ Tiles(cuts[i], RouteChunk)
         /\ cuts[i].cut = SubSeq(pend, taken[i - 1] + 1, taken[i - 1] + RouteChunk)
         /\ taken[i] = taken[i - 1] + cuts[i].routed
         /\ Len(pend) - taken[i - 1] >= RouteChunk
    /\ Len(pend) - taken[Len(cuts)] < RouteChunk

\* A packet leaves the tail as it is until all its cuts are folded.
InPacket(f, here, pend, z, cuts, taken, m) ==
    /\ f.at = 1 /\ m <= Len(cuts)
    /\ Takes(pend, cuts, taken)
    /\ here = [z EXCEPT !.pend = pend]
    /\ z.pend = SubSeq(pend, taken[m] + 1, Len(pend))
    /\ f.prepared = SubSeq(cuts, m + 1, Len(cuts)) /\ f.taken = taken[Len(cuts)]

\* Where the layer that the forward is at stands: at its first state, or on the
\* way.  The leader is at its end, and who follows it ends there.
Stands(f, here, y, way, cuts, taken, m, j) ==
    /\ \/ f.phase = "enter" /\ here = y /\ j = 0
       \/ f.phase = "serial" /\ ~Commits(y, f) /\ here = way[j]
       \/ /\ f.phase = "packet" /\ ~Commits(y, f) /\ j = m
          /\ InPacket(f, here, way[0].pend, way[m], cuts, taken, m)
    /\ IF f.at = 1 THEN j = m ELSE Commits(y, f) \/ Len(way[m].pend) < RouteChunk

Forwards ==
    [phase : {"enter", "serial", "packet"}, at : Layers,
     kind : {"prefill", "decode", "exact", "commit"}, tokens : Seq(Nat),
     prepared : Seq(Cuts), taken : Nat]

Under(f, state, log, feats, y, way, said, cuts, taken, m, j) ==
    /\ f \in Forwards /\ AtRest(y) /\ Goes(y, f, way, said, m)
    /\ f.tokens = Positions(y.cumulative, y.cumulative + Len(f.tokens))
    /\ \A l \in Layers : /\ l < f.at => state[l] = Left(y, f, way[m])
                         /\ l > f.at => state[l] = y
    /\ Stands(f, state[f.at], y, way, cuts, taken, m, j)
    /\ log = Log(y.cursor, said, m, f.at, j)
    /\ \A s \in Slots : feats[s] = Len(way[m].spans[s])

\* While a row is covered by the token pool, its tail is at most what is counted
\* and it has not folded, until the count says that it may have; n tokens are
\* counted already.
Covers(g, y, n) ==
    g.kind = "covered" =>
        \A l \in Layers :
            \/ g.layers[l].pending >= RouteChunk
            \/ y.cursor = g.folds /\ Len(y.pend) + n <= g.layers[l].pending

UnderWay(f, state, log, feats, g) ==
    /\ g.kind \in {"none", "covered"}
    /\ g.kind = "covered" => f.kind = "commit" /\ Len(f.tokens) = 1
    /\ \E y, way, said, cuts, taken : \E m \in Nat : \E j \in 0 .. m :
         Under(f, state, log, feats, y, way, said, cuts, taken, m, j) /\ Covers(g, y, 1)

-----------------------------------------------------------------------------
(***************************************************************************)
(* A padded decode.                                                        *)
(***************************************************************************)

Places == Keys \cup {Blank, Scratch}

PaddedStates ==
    [keys : Seq(Places), valid : Seq(BOOLEAN), open : Seq(BOOLEAN),
     static : BOOLEAN, index : Nat, initial : Nat, write : Nat, pending : Nat]

\* The layers have one shape.
SameShape(y, first) ==
    /\ y.static = first.static /\ y.initial = first.initial /\ Len(y.keys) = Len(first.keys)

\* A layer has the readout of the row, whatever is between, and the tokens.
Holds(y, row, toks) ==
    /\ y \in PaddedStates
    /\ Len(Readout(row)) <= y.initial
    /\ y.write = y.initial + Len(toks) /\ y.write <= Len(y.keys)
    /\ y.static => y.index = y.write
    /\ y.pending = Len(row.pend) + Len(toks) /\ y.pending <= RouteChunk
    /\ \A i \in 1 .. Len(Readout(row)) : y.keys[i] = Readout(row)[i]
    /\ \A i \in 1 .. Len(toks) : y.keys[y.initial + i] = Token(toks[i])

\* The mask of the first layer shows just these; n is the length of the readout.
Shows(first, n) ==
    LET mask == IF first.static THEN first.open ELSE first.valid
    IN  /\ Len(mask) = Len(first.keys)
        /\ \A i \in 1 .. Len(mask) :
             mask[i] <=> i <= n \/ (first.initial < i /\ i <= first.write)

Padded(g, state) ==
    /\ DOMAIN g.layers = Layers
    /\ g.tokens = Positions(state[1].cumulative, state[1].cumulative + Len(g.tokens))
    /\ \A l \in Layers : Holds(g.layers[l], state[l], g.tokens)
                         /\ SameShape(g.layers[l], g.layers[1])
    /\ Shows(g.layers[1], Len(Readout(state[1])))

Counted == [reserved : Nat, consumed : Nat, pending : Nat]

\* A request is a row of no group, of a padded one, or of one the pool covers.
Grouped(g, f, state) ==
    \/ g = NoGroup
    \/ /\ g \in [kind : {"persistent", "transient"}, layers : {g.layers},
                 tokens : Seq(Nat), folds : Nat]
       /\ f = Idle /\ Padded(g, state)
    \/ g \in [kind : {"covered"}, layers : [Layers -> Counted], tokens : {<< >>}, folds : Nat]

-----------------------------------------------------------------------------
(***************************************************************************)
(* The inductive invariant.                                                *)
(***************************************************************************)

Quiescent(state, log, feats, g) ==
    /\ \A l \in Layers : AtRest(state[l]) /\ state[l] = state[1]
    /\ log = << >>
    /\ \A s \in Slots : feats[s] = Len(state[1].spans[s])
    /\ Covers(g, state[1], 0)

RoutedInv ==
    /\ DOMAIN layer = Layers
    /\ Grouped(group, forward, layer)
    /\ IF forward = Idle THEN Quiescent(layer, ops, leader.feats, group)
                         ELSE UnderWay(forward, layer, ops, leader.feats, group)

-----------------------------------------------------------------------------
(***************************************************************************)
(* The log.                                                                *)
(***************************************************************************)

\* No decisions, no log.
LEMMA LogEmpty ==
    ASSUME NEW c \in Nat, NEW said, NEW l, NEW j
    PROVE  Log(c, said, 0, l, j) = << >>
<1> DEFINE due == {i \in c .. c + 0 - 1 : Waiting(l, c + j, i) > 0}
           h(i) == [op |-> said[i], left |-> Waiting(l, c + j, i)]
<1>1. c .. c + 0 - 1 = {}
  OBVIOUS
<1>2. due = {}
  BY <1>1, Zenon
<1>3. Log(c, said, 0, l, j) = [i \in due |-> h(i)]
  BY Zenon DEF Log
<1> HIDE DEF due, h
<1>4. [i \in {} |-> h(i)] = << >>
  OBVIOUS
<1> QED BY <1>2, <1>3, <1>4, Zenon

\* The log, while layer l has followed j of m decisions.
IsLog(h, d, c, said, m, l, j) ==
    /\ h = [i \in d |-> h[i]]
    /\ \A i : i \in d <=> i \in c .. c + m - 1 /\ (l < NumLayers \/ i >= c + j)
    /\ \A i \in d :
         h[i] = [op   |-> said[i],
                 left |-> IF i < c + j THEN NumLayers - l ELSE NumLayers - l + 1]

\* The log has the decisions that some layer has still to follow.
LEMMA LogIs ==
    \A c, said, m, l, j : c \in Nat /\ m \in Nat /\ l \in Layers /\ j \in 0 .. m =>
      IsLog(Log(c, said, m, l, j), DOMAIN Log(c, said, m, l, j), c, said, m, l, j)
<1> SUFFICES ASSUME NEW c \in Nat, NEW said, NEW m \in Nat, NEW l \in Layers, NEW j \in 0 .. m
             PROVE  IsLog(Log(c, said, m, l, j), DOMAIN Log(c, said, m, l, j), c, said, m, l, j)
  BY Zenon
<1> DEFINE due == {i \in c .. c + m - 1 : Waiting(l, c + j, i) > 0}
           h(i) == [op |-> said[i], left |-> Waiting(l, c + j, i)]
<1>1. NumLayers \in Nat /\ l \in Nat /\ l >= 1 /\ l <= NumLayers /\ j \in Nat /\ j <= m
  BY ConstantTypes DEF Layers
<1>2. \A i : i \in due <=> i \in c .. c + m - 1 /\ (l < NumLayers \/ i >= c + j)
  BY <1>1 DEF Waiting
<1>3. Log(c, said, m, l, j) = [i \in due |-> h(i)]
  BY Zenon DEF Log
<1>4. \A i : h(i) = [op   |-> said[i],
                     left |-> IF i < c + j THEN NumLayers - l ELSE NumLayers - l + 1]
  BY Zenon DEF Waiting
<1> HIDE DEF due, h
<1> QED BY <1>2, <1>3, <1>4, Zenon DEF IsLog

\* Two logs with the same decisions, and as many layers to follow each.
LEMMA LogsEqual ==
    \A c, said, m, l, j, h, d :
      /\ c \in Nat /\ m \in Nat /\ l \in Layers /\ j \in 0 .. m
      /\ IsLog(h, d, c, said, m, l, j)
      => h = Log(c, said, m, l, j)
<1> SUFFICES ASSUME NEW c \in Nat, NEW said, NEW m \in Nat, NEW l \in Layers, NEW j \in 0 .. m,
                    NEW h, NEW d, IsLog(h, d, c, said, m, l, j)
             PROVE  h = Log(c, said, m, l, j)
  BY ZenonT(40)
<1> DEFINE log == Log(c, said, m, l, j)
<1>1. IsLog(log, DOMAIN log, c, said, m, l, j)
  BY LogIs, Zenon
<1> HIDE DEF log
<1>2. DOMAIN log = d
  <2>1. \A i : i \in DOMAIN log <=> i \in d
    BY <1>1, Zenon DEF IsLog
  <2> QED BY <2>1, Zenon
<1>3. \A i \in d : h[i] = log[i]
  BY <1>1, <1>2, Zenon DEF IsLog
<1>4. h = log
  BY <1>1, <1>2, <1>3, Zenon DEF IsLog
<1> QED BY <1>4, Zenon DEF log

\* The next layer is to follow what this one has followed.
LEMMA LogPassed ==
    ASSUME NEW c \in Nat, NEW said, NEW m \in Nat, NEW l \in Layers, l < NumLayers
    PROVE  Log(c, said, m, l + 1, 0) = Log(c, said, m, l, m) /\ l + 1 \in Layers
<1> DEFINE h == Log(c, said, m, l, m)  d == DOMAIN h
<1>1. NumLayers \in Nat /\ l \in Nat /\ l >= 1 /\ l + 1 \in Layers /\ m \in 0 .. m /\ 0 \in 0 .. m
  BY ConstantTypes DEF Layers
<1> HIDE DEF h, d
<1>a. IsLog(h, d, c, said, m, l, m)
  BY <1>1, LogIs, Zenon DEF h, d
<1>2. /\ \A i : i \in d <=> i \in c .. c + m - 1 /\ (l < NumLayers \/ i >= c + m)
      /\ h = [i \in d |-> h[i]]
  BY <1>a, Zenon DEF IsLog
<1>b. \A i \in d :
        h[i] = [op   |-> said[i],
                left |-> IF i < c + m THEN NumLayers - l ELSE NumLayers - l + 1]
  BY <1>a, Zenon DEF IsLog
<1>3. \A i : i \in d <=> i \in c .. c + m - 1
                         /\ (l + 1 < NumLayers \/ i >= c + 0)
  BY <1>1, <1>2
<1>4. \A i \in d :
        /\ ~(i < c + 0) /\ i < c + m
        /\ NumLayers - (l + 1) + 1 = NumLayers - l
  BY <1>1, <1>2
<1>5. \A i \in d :
        h[i] = [op   |-> said[i],
                left |-> IF i < c + 0 THEN NumLayers - (l + 1) ELSE NumLayers - (l + 1) + 1]
  <2> TAKE i \in d
  <2>1. h[i] = [op |-> said[i], left |-> NumLayers - l]
    BY <1>b, <1>4, Zenon
  <2>2. (IF i < c + 0 THEN NumLayers - (l + 1) ELSE NumLayers - (l + 1) + 1) = NumLayers - l
    BY <1>4
  <2> QED BY <2>1, <2>2, Zenon
<1>6. h = Log(c, said, m, l + 1, 0)
  <2>1. IsLog(h, d, c, said, m, l + 1, 0)
    BY <1>2, <1>3, <1>5, Zenon DEF IsLog
  <2> QED BY <1>1, <2>1, LogsEqual, Zenon
<1> QED BY <1>1, <1>6, Zenon DEF h

\* After the last layer nothing is left.
LEMMA LogDone ==
    ASSUME NEW c \in Nat, NEW said, NEW m \in Nat
    PROVE  Log(c, said, m, NumLayers, m) = << >>
<1> DEFINE h == Log(c, said, m, NumLayers, m)  d == DOMAIN h
<1>1. NumLayers \in Nat /\ NumLayers \in Layers /\ m \in 0 .. m
  BY ConstantTypes DEF Layers
<1> HIDE DEF h, d
<1>a. IsLog(h, d, c, said, m, NumLayers, m)
  BY <1>1, LogIs, Zenon DEF h, d
<1>2. /\ \A i : i \in d <=> i \in c .. c + m - 1 /\ (NumLayers < NumLayers \/ i >= c + m)
      /\ h = [i \in d |-> h[i]]
  BY <1>a, Zenon DEF IsLog
<1>3. d = {}
  BY <1>1, <1>2
<1>4. [i \in {} |-> h[i]] = << >>
  OBVIOUS
<1> QED BY <1>2, <1>3, <1>4, Zenon DEF h

\* The leader publishes.
Told(said, c, m, op) == [i \in c .. c + m |-> IF i = c + m THEN op ELSE said[i]]
Published(log, e, op) ==
    IF NumLayers = 1 THEN log
    ELSE [i \in DOMAIN log \cup {e} |->
            IF i = e THEN [op |-> op, left |-> NumLayers - 1] ELSE log[i]]

Publishes(c, said, m, op, log, new) == Log(c, new, m + 1, 1, m + 1) = Published(log, c + m, op)

\* The leader publishes: the log of a way that is longer by one.
LEMMA LogPublished ==
    \A c, said, m, op : c \in Nat /\ m \in Nat =>
      Publishes(c, said, m, op, Log(c, said, m, 1, m), Told(said, c, m, op))
<1> SUFFICES ASSUME NEW c \in Nat, NEW said, NEW m \in Nat, NEW op
             PROVE  Publishes(c, said, m, op, Log(c, said, m, 1, m), Told(said, c, m, op))
  BY Zenon
<1> DEFINE new == Told(said, c, m, op)  log == Log(c, said, m, 1, m)
<1>0. new = [i \in c .. c + m |-> IF i = c + m THEN op ELSE said[i]]
  BY Zenon DEF Told
<1> DEFINE d == DOMAIN log \cup {c + m}
           h == [i \in d |-> IF i = c + m THEN [op |-> op, left |-> NumLayers - 1] ELSE log[i]]
<1>1. /\ NumLayers \in Nat /\ NumLayers >= 1 /\ 1 \in Layers /\ m \in 0 .. m
      /\ m + 1 \in Nat /\ m + 1 \in 0 .. m + 1
  BY ConstantTypes DEF Layers
<1> DEFINE D == DOMAIN log
<1>a. IsLog(log, D, c, said, m, 1, m)
  BY <1>1, LogIs, Zenon
<1> HIDE DEF D, new, log
<1>2. /\ \A i : i \in D <=> i \in c .. c + m - 1 /\ (1 < NumLayers \/ i >= c + m)
      /\ log = [i \in D |-> log[i]]
  BY <1>a, Zenon DEF IsLog
<1>b. \A i \in D :
        log[i] = [op   |-> said[i],
                  left |-> IF i < c + m THEN NumLayers - 1 ELSE NumLayers - 1 + 1]
  BY <1>a, Zenon DEF IsLog
<1>3. ASSUME NumLayers = 1 PROVE Log(c, new, m + 1, 1, m + 1) = Published(log, c + m, op)
  <2>1. D = {}
    BY <1>1, <1>2, <1>3
  <2>2. \A i : i \in D <=> i \in c .. c + (m + 1) - 1
                                    /\ (1 < NumLayers \/ i >= c + (m + 1))
    BY <1>1, <1>3, <2>1
  <2>3. log = Log(c, new, m + 1, 1, m + 1)
    <3>1. IsLog(log, D, c, new, m + 1, 1, m + 1)
      BY <1>2, <2>1, <2>2, Zenon DEF IsLog
    <3> QED BY <1>1, <3>1, LogsEqual, Zenon
  <2> QED BY <1>3, <2>3, Zenon DEF Published
<1>4. ASSUME NumLayers # 1 PROVE Log(c, new, m + 1, 1, m + 1) = Published(log, c + m, op)
  <2>1. \A i : i \in d <=> i \in c .. c + (m + 1) - 1
                           /\ (1 < NumLayers \/ i >= c + (m + 1))
    BY <1>1, <1>2, <1>4 DEF D
  <2>2. \A i \in d : i < c + (m + 1) /\ i \in c .. c + m
                     /\ (i # c + m => i \in D /\ i < c + m)
    BY <1>1, <1>2, <1>4 DEF D
  <2>3. \A i \in d : h[i] = [op |-> new[i], left |-> NumLayers - 1]
    <3> TAKE i \in d
    <3>1. CASE i = c + m
      BY <1>0, <2>2, <3>1, Zenon
    <3>2. CASE i # c + m
      BY <1>0, <1>b, <2>2, <3>2, Zenon
    <3> QED BY <3>1, <3>2, Zenon
  <2>4. h = [i \in d |-> h[i]]
    BY Zenon
  <2> HIDE DEF h, d
  <2>5. \A i \in d :
          h[i] = [op   |-> new[i],
                  left |-> IF i < c + (m + 1) THEN NumLayers - 1 ELSE NumLayers - 1 + 1]
    BY <2>2, <2>3, Zenon
  <2>6. h = Log(c, new, m + 1, 1, m + 1)
    <3>1. IsLog(h, d, c, new, m + 1, 1, m + 1)
      BY <2>1, <2>4, <2>5, Zenon DEF IsLog
    <3> QED BY <1>1, <3>1, LogsEqual, Zenon
  <2> QED BY <1>4, <2>6, Zenon DEF h, d, Published
<1>5. Publishes(c, said, m, op, log, new)
  BY <1>3, <1>4, Zenon DEF Publishes
<1> QED BY <1>5, Zenon DEF new, log

\* Another layer follows; the last one removes.
Consumed(log, e) ==
    IF log[e].left = 1 THEN [i \in DOMAIN log \ {e} |-> log[i]]
                       ELSE [log EXCEPT ![e].left = @ - 1]

Consumes(c, said, m, l, j, log) ==
    c + j \in DOMAIN log =>
      /\ j < m /\ log[c + j].op = said[c + j]
      /\ Log(c, said, m, l, j + 1) = Consumed(log, c + j)

\* A layer follows; the last one to follow removes.
LEMMA LogConsumed ==
    \A c, said, m, l, j : c \in Nat /\ m \in Nat /\ l \in Layers /\ j \in 0 .. m =>
      Consumes(c, said, m, l, j, Log(c, said, m, l, j))
<1> SUFFICES ASSUME NEW c \in Nat, NEW said, NEW m \in Nat, NEW l \in Layers, NEW j \in 0 .. m
             PROVE  Consumes(c, said, m, l, j, Log(c, said, m, l, j))
  BY Zenon
<1>0. SUFFICES ASSUME c + j \in DOMAIN Log(c, said, m, l, j)
               PROVE  LET log == Log(c, said, m, l, j) IN
                      /\ j < m /\ log[c + j].op = said[c + j]
                      /\ Log(c, said, m, l, j + 1) = Consumed(log, c + j)
  BY Zenon DEF Consumes
<1> DEFINE log == Log(c, said, m, l, j)
<1> DEFINE e == c + j  r == [op |-> said[e], left |-> NumLayers - l]
           h == IF log[e].left = 1 THEN [i \in DOMAIN log \ {e} |-> log[i]]
                                   ELSE [log EXCEPT ![e] = r]
           d == IF log[e].left = 1 THEN DOMAIN log \ {e} ELSE DOMAIN log
<1>1. NumLayers \in Nat /\ l \in Nat /\ l >= 1 /\ l <= NumLayers /\ j \in Nat /\ j <= m
  BY ConstantTypes DEF Layers
<1> DEFINE D == DOMAIN log
<1>a. IsLog(log, D, c, said, m, l, j)
  BY LogIs, Zenon
<1> HIDE DEF D, log
<1>2. /\ \A i : i \in D <=> i \in c .. c + m - 1 /\ (l < NumLayers \/ i >= c + j)
      /\ log = [i \in D |-> log[i]] /\ c + j \in D
  BY <1>0, <1>a, Zenon DEF IsLog, D, log
<1>b. \A i \in D :
        log[i] = [op   |-> said[i],
                  left |-> IF i < c + j THEN NumLayers - l ELSE NumLayers - l + 1]
  BY <1>a, Zenon DEF IsLog
<1>3. j < m /\ j + 1 \in 0 .. m /\ ~(c + j < c + j) /\ e \in Nat
  BY <1>1, <1>2
<1>4. log[e] = [op |-> said[e], left |-> NumLayers - l + 1]
  BY <1>2, <1>3, <1>b, Zenon
<1>5. log[e].op = said[e] /\ log[e].left = NumLayers - l + 1
  <2> DEFINE v == NumLayers - l + 1
  <2> HIDE DEF v, e
  <2>1. log[e] = [op |-> said[e], left |-> v]
    BY <1>4, Zenon DEF v
  <2>2. log[e].op = said[e] /\ log[e].left = v
    BY <2>1
  <2> QED BY <2>2, Zenon DEF v
<1>6. [log EXCEPT ![e].left = @ - 1] = [log EXCEPT ![e] = r]
  <2>1. [log[e] EXCEPT !.left = @ - 1] = r
    <3>1. (NumLayers - l + 1) - 1 = NumLayers - l
      BY <1>1
    <3> DEFINE v == NumLayers - l + 1  u == NumLayers - l
    <3> HIDE DEF v, u, e
    <3>2. log[e] = [op |-> said[e], left |-> v] /\ v - 1 = u
      BY <1>4, <3>1, Zenon DEF v, u
    <3>3. [log[e] EXCEPT !.left = @ - 1] = [op |-> said[e], left |-> u]
      BY <3>2
    <3> QED BY <3>3, Zenon DEF u
  <2> QED BY <2>1, Zenon
<1>7. /\ \A i : i \in d <=> i \in c .. c + m - 1 /\ (l < NumLayers \/ i >= c + (j + 1))
      /\ log[e].left = 1 => l = NumLayers
      /\ log[e].left # 1 => l < NumLayers
  <2>1. (log[e].left = 1) <=> l = NumLayers
    BY <1>1, <1>5
  <2>2. \A i : i \in D <=> i \in c .. c + m - 1 /\ (l < NumLayers \/ i >= c + j)
    BY <1>2, Zenon
  <2>3. d = IF l = NumLayers THEN D \ {e} ELSE D
    BY <2>1, Zenon DEF D
  <2> HIDE DEF d
  <2> QED BY <1>1, <1>3, <2>1, <2>2, <2>3 DEF e
<1>8. \A i \in d : h[i] = IF i = e THEN r ELSE log[i]
  BY Zenon
<1>9. h = [i \in d |-> h[i]]
  BY Zenon
<1>10. \A i \in d : /\ i \in D /\ (i = e => log[e].left # 1)
                    /\ i < c + (j + 1) <=> (i < c + j \/ i = e)
  <2>1. \A i \in d : i \in D /\ (i = e => log[e].left # 1)
    BY Zenon DEF D
  <2>2. \A i \in d : i \in Int
    BY <1>7
  <2> QED BY <1>1, <1>3, <2>1, <2>2
<1> HIDE DEF h, d
<1>11. \A i \in d :
         h[i] = [op   |-> said[i],
                 left |-> IF i < c + (j + 1) THEN NumLayers - l ELSE NumLayers - l + 1]
  <2> TAKE i \in d
  <2>1. CASE i = e
    BY <1>8, <1>10, <2>1, Zenon
  <2>2. CASE i # e
    BY <1>b, <1>8, <1>10, <2>2, Zenon
  <2> QED BY <2>1, <2>2, Zenon
<1>12. h = Log(c, said, m, l, j + 1)
  <2>1. IsLog(h, d, c, said, m, l, j + 1)
    BY <1>7, <1>9, <1>11, Zenon DEF IsLog
  <2> QED BY <1>3, <2>1, LogsEqual, Zenon
<1> HIDE DEF e, r
<1> QED BY <1>3, <1>5, <1>6, <1>12, Zenon DEF h, e, Consumed, log

-----------------------------------------------------------------------------
(***************************************************************************)
(* A forward begins, leaves a layer, ends.                                 *)
(***************************************************************************)

\* The fields of a forward.
LEMMA ForwardTypes ==
    ASSUME NEW f \in Forwards
    PROVE  /\ f.at \in Layers /\ f.tokens \in Seq(Nat) /\ Len(f.tokens) \in Nat
           /\ f.prepared \in Seq(Cuts) /\ f.taken \in Nat
           /\ f.phase \in {"enter", "serial", "packet"}
           /\ f.kind \in {"prefill", "decode", "exact", "commit"}
  BY DEF Forwards

\* The first state of the way is sound.
LEMMA WayBegins ==
    ASSUME NEW y, AtRest(y), NEW f \in Forwards,
           f.tokens = Positions(y.cumulative, y.cumulative + Len(f.tokens))
    PROVE  EnteredFrom(y, Appended(Whole(y, f.kind), f.tokens), Len(f.tokens))
<1> DEFINE n == Len(f.tokens)  toks == f.tokens  kind == f.kind
<1>1. n \in Nat /\ toks = Positions(y.cumulative, y.cumulative + n)
  BY ForwardTypes, Zenon
<1> HIDE DEF n, toks, kind
<1>2. EnteredFrom(y, Appended(Whole(y, kind), toks), n)
  BY <1>1, EnteredIs, Zenon
<1> QED BY <1>2, Zenon DEF n, toks, kind

\* A forward begins at the first layer, with nothing decided.
LEMMA Starts ==
    ASSUME NEW y, AtRest(y), NEW f \in Forwards, f.phase = "enter", f.at = 1,
           f.tokens = Positions(y.cumulative, y.cumulative + Len(f.tokens)),
           NEW state, \A l \in Layers : state[l] = y,
           NEW feats, \A s \in Slots : feats[s] = Len(y.spans[s])
    PROVE  \E way, said, cuts, taken :
              Under(f, state, << >>, feats, y, way, said, cuts, taken, 0, 0)
<1> DEFINE w == Appended(Whole(y, f.kind), f.tokens)  way == [i \in {0} |-> w]
<1>1. EnteredFrom(y, w, Len(f.tokens))
  BY WayBegins, Zenon
<1>2. way[0] = w
  BY Zenon
<1>3. /\ y.cursor \in Nat /\ 1 \in Layers /\ Layers \subseteq Nat
      /\ \A l \in Layers : ~(l < 1) /\ 0 \in Nat
  BY LayerTypes, ConstantTypes DEF AtRest, Sound, Layers
<1>4. Goes(y, f, way, << >>, 0)
  <2>1. Sound(w) /\ w.cursor = y.cursor + 0
    <3>1. Sound(w) /\ w.cursor = y.cursor
      BY <1>1, Zenon DEF EnteredFrom
    <3>2. y.cursor = y.cursor + 0
      BY <1>3
    <3> QED BY <3>1, <3>2, Zenon
  <2>2. 0 .. 0 = {0} /\ 0 .. 0 - 1 = {}
    OBVIOUS
  <2> HIDE DEF w, way
  <2>3. \A i \in 0 .. 0 : Sound(way[i]) /\ way[i].cursor = y.cursor + i
    BY <1>2, <2>1, <2>2, Zenon
  <2>4. \A i \in 0 .. 0 - 1 : Len(way[i].pend) >= RouteChunk
                              /\ way[i + 1] = FoldBy(way[i], << >>[y.cursor + i])
    BY <2>2, Zenon
  <2> QED BY <1>2, <2>3, <2>4, Zenon DEF Goes, w
<1> HIDE DEF w, way
<1>5. << >> = Log(y.cursor, << >>, 0, f.at, 0)
  BY <1>3, LogEmpty, Zenon
<1>6. Stands(f, state[f.at], y, way, << >>, << >>, 0, 0)
  BY <1>3, Zenon DEF Stands
<1>7. \A s \in Slots : feats[s] = Len(way[0].spans[s])
  BY <1>1, <1>2, Zenon DEF EnteredFrom
<1>8. \A l \in Layers : /\ l < f.at => state[l] = Left(y, f, way[0])
                        /\ l > f.at => state[l] = y
  BY <1>3, Zenon
<1> QED BY <1>4, <1>5, <1>6, <1>7, <1>8, Zenon DEF Under

\* What is left behind.
LEMMA LeftIs ==
    ASSUME NEW y, AtRest(y), NEW f \in Forwards, NEW way, NEW said, NEW m \in Nat,
           f.tokens = Positions(y.cumulative, y.cumulative + Len(f.tokens)),
           Goes(y, f, way, said, m), Commits(y, f) \/ Len(way[m].pend) < RouteChunk
    PROVE  LET z == Left(y, f, way[m]) IN
           /\ AtRest(z) /\ SameBank(way[m], z)
           /\ m = 0 => Len(z.pend) <= Len(y.pend) + Len(f.tokens)
<1> DEFINE n == Len(f.tokens)  w == way[m]
<1>1. n \in Nat /\ m \in 0 .. m
  BY ForwardTypes
<1>2. Sound(w)
  BY <1>1, Zenon DEF Goes
<1>3. EnteredFrom(y, way[0], n)
  BY WayBegins, Zenon DEF Goes
<1>4. CASE Commits(y, f)
  <2>1. AtRest(Committed(y, f.tokens)) /\ EnteredFrom(y, Committed(y, f.tokens), n)
    <3> DEFINE toks == f.tokens
    <3>1. toks = Positions(y.cumulative, y.cumulative + n) /\ CanCommit(y, toks)
      BY <1>4, Zenon DEF Commits
    <3> HIDE DEF toks, n
    <3>2. AtRest(Committed(y, toks)) /\ EnteredFrom(y, Committed(y, toks), n)
      BY <1>1, <3>1, CommittedIs, Zenon
    <3> QED BY <3>2, Zenon DEF toks
  <2>2. m = 0 /\ Left(y, f, way[m]) = Committed(y, f.tokens)
    BY <1>4, Zenon DEF Goes, Left
  <2> QED BY <1>3, <2>1, <2>2, Zenon DEF EnteredFrom, SameBank
<1>5. CASE ~Commits(y, f)
  <2>1. Left(y, f, way[m]) = Materialized(w)
    BY <1>5, Zenon DEF Left
  <2>2. AtRest(Materialized(w)) /\ SameState(w, Materialized(w))
    BY <1>2, <1>5, MaterializedIs, Zenon
  <2> QED BY <1>3, <2>1, <2>2, Zenon DEF EnteredFrom, SameState
<1> QED BY <1>4, <1>5, Zenon

\* A layer that went to the end of the way leaves the log to the next one,
LEMMA LeavesLayer ==
    ASSUME NEW f, NEW state, NEW log, NEW feats, NEW y, NEW way, NEW said, NEW cuts, NEW taken,
           NEW m \in Nat, Under(f, state, log, feats, y, way, said, cuts, taken, m, m),
           Commits(y, f) \/ Len(way[m].pend) < RouteChunk,
           DOMAIN state = Layers, f.at < NumLayers,
           NEW g \in Forwards, g.phase = "enter", g.at = f.at + 1,
           g.kind = f.kind, g.tokens = f.tokens,
           NEW new, new = [state EXCEPT ![f.at] = Left(y, f, way[m])]
    PROVE  Under(g, new, log, feats, y, way, said, cuts, taken, m, 0)
<1> DEFINE l == f.at
<1>1. l \in Layers /\ l \in Nat /\ l >= 1 /\ NumLayers \in Nat /\ l < NumLayers
  <2>1. l \in Layers
    BY ForwardTypes, Zenon DEF Under
  <2> QED BY <2>1, ConstantTypes DEF Layers
<1>2. \A k \in Layers : /\ k < l + 1 => (k < l \/ k = l)
                        /\ k > l + 1 => (k > l /\ k # l)
                        /\ k < l => k # l
                        /\ k = l => ~(k > l + 1)
  BY <1>1 DEF Layers
<1>3. /\ AtRest(y) /\ Goes(y, f, way, said, m)
      /\ f.tokens = Positions(y.cumulative, y.cumulative + Len(f.tokens))
      /\ \A k \in Layers : /\ k < l => state[k] = Left(y, f, way[m])
                           /\ k > l => state[k] = y
      /\ log = Log(y.cursor, said, m, l, m)
      /\ \A s \in Slots : feats[s] = Len(way[m].spans[s])
  BY Zenon DEF Under
<1>4. \A x : Left(y, g, x) = Left(y, f, x)
  BY Zenon DEF Left, Commits
<1>5. Goes(y, g, way, said, m)
  BY <1>3, Zenon DEF Goes, Commits
<1>6. y.cursor \in Nat
  BY <1>3, LayerTypes, Zenon DEF AtRest, Sound
<1>7. l + 1 \in Layers /\ l + 1 # l /\ l + 1 # 1 /\ l + 1 > l
  BY <1>1 DEF Layers
<1>8. log = Log(y.cursor, said, m, g.at, 0)
  <2>1. l \in Layers /\ l < NumLayers
    BY <1>1, Zenon
  <2> HIDE DEF l
  <2>2. Log(y.cursor, said, m, l + 1, 0) = Log(y.cursor, said, m, l, m)
    BY <1>6, <2>1, LogPassed, Zenon
  <2> QED BY <1>3, <2>2, Zenon DEF l
<1>9. \A k \in Layers : new[k] = IF k = l THEN Left(y, f, way[m]) ELSE state[k]
  BY Zenon
<1>10. \A k \in Layers : /\ k < g.at => new[k] = Left(y, g, way[m])
                         /\ k > g.at => new[k] = y
  <2> TAKE k \in Layers
  <2>1. CASE k = l
    BY <1>2, <1>4, <1>9, <2>1, Zenon
  <2>2. CASE k # l
    BY <1>2, <1>3, <1>4, <1>9, <2>2, ZenonT(40)
  <2> QED BY <2>1, <2>2, Zenon
<1>11. new[g.at] = y
  BY <1>3, <1>7, <1>9, Zenon
<1>12. Stands(g, new[g.at], y, way, cuts, taken, m, 0)
  <2>1. Commits(y, g) \/ Len(way[m].pend) < RouteChunk
    BY Zenon DEF Commits
  <2> QED BY <1>7, <1>11, <2>1, Zenon DEF Stands
<1> QED BY <1>3, <1>5, <1>8, <1>10, <1>12, Zenon DEF Under

\* and the last one leaves it empty.
LEMMA LeavesLast ==
    ASSUME NEW f, NEW state, NEW log, NEW feats, NEW y, NEW way, NEW said, NEW cuts, NEW taken,
           NEW m \in Nat, Under(f, state, log, feats, y, way, said, cuts, taken, m, m),
           Commits(y, f) \/ Len(way[m].pend) < RouteChunk,
           DOMAIN state = Layers, f.at = NumLayers,
           NEW new, new = [state EXCEPT ![f.at] = Left(y, f, way[m])],
           NEW g, g.kind = "covered" => Len(f.tokens) = 1, Covers(g, y, 1),
           \A l \in Layers : g.kind = "covered" => g.layers[l].pending \in Nat
    PROVE  Quiescent(new, log, feats, g)
<1> DEFINE z == Left(y, f, way[m])
<1>1. /\ f \in Forwards /\ AtRest(y) /\ Goes(y, f, way, said, m)
      /\ f.tokens = Positions(y.cumulative, y.cumulative + Len(f.tokens))
      /\ \A k \in Layers : k < f.at => state[k] = z
      /\ log = Log(y.cursor, said, m, f.at, m)
      /\ \A s \in Slots : feats[s] = Len(way[m].spans[s])
  BY Zenon DEF Under
<1>2. /\ NumLayers \in Layers /\ 1 \in Layers /\ m \in 0 .. m /\ m \in Nat
      /\ \A k \in Layers : k < NumLayers \/ k = NumLayers
  BY ConstantTypes DEF Layers
<1>3. AtRest(z) /\ SameBank(way[m], z) /\ (m = 0 => Len(z.pend) <= Len(y.pend) + Len(f.tokens))
  BY <1>1, LeftIs, Zenon
<1> HIDE DEF z
<1>4. \A k \in Layers : new[k] = z
  <2>1. \A k \in Layers : new[k] = IF k = f.at THEN z ELSE state[k]
    BY Zenon DEF z
  <2> QED BY <1>1, <1>2, <2>1, Zenon
<1>5. y.cursor \in Nat /\ y.pend \in Seq(Nat)
  BY <1>1, LayerTypes, Zenon DEF AtRest, Sound
<1>6. log = << >>
  BY <1>1, <1>5, LogDone, Zenon
<1>7. \A s \in Slots : feats[s] = Len(z.spans[s])
  BY <1>1, <1>3, Zenon DEF SameBank
<1>8. ASSUME g.kind = "covered", NEW l \in Layers
      PROVE  \/ g.layers[l].pending >= RouteChunk
             \/ z.cursor = g.folds /\ Len(z.pend) + 0 <= g.layers[l].pending
  <2> DEFINE p == g.layers[l].pending  a == Len(y.pend)  w == way[0]
  <2>1. p >= RouteChunk \/ (y.cursor = g.folds /\ a + 1 <= p)
    BY <1>8, Zenon DEF Covers
  <2>2. p \in Nat /\ a \in Nat /\ RouteChunk \in Nat /\ Len(f.tokens) = 1
    BY <1>5, <1>8, ConstantTypes
  <2>3. SUFFICES ASSUME p < RouteChunk PROVE z.cursor = g.folds /\ Len(z.pend) + 0 <= p
    BY <2>2
  <2>4. EnteredFrom(y, w, 1)
    BY <1>1, <2>2, WayBegins, Zenon DEF Goes
  <2>5. Len(w.pend) \in Nat /\ Len(z.pend) \in Nat
    <3>1. w.pend \in Seq(Nat) /\ z.pend \in Seq(Nat)
      BY <1>3, <2>4, LayerTypes, Zenon DEF AtRest, Sound, EnteredFrom
    <3> QED BY <3>1
  <2>6. Len(w.pend) <= a + 1 /\ w.cursor = y.cursor
    BY <2>4, Zenon DEF EnteredFrom
  <2> HIDE DEF p, a, w
  <2>7. m = 0
    <3>1. SUFFICES ASSUME m # 0 PROVE FALSE
      OBVIOUS
    <3>2. 0 \in 0 .. m - 1
      BY <1>2, <3>1
    <3>3. Len(w.pend) >= RouteChunk
      BY <1>1, <3>2, Zenon DEF Goes, w
    <3> QED BY <2>1, <2>2, <2>3, <2>5, <2>6, <3>3
  <2>8. z.cursor = w.cursor /\ Len(z.pend) <= a + 1
    BY <1>3, <2>2, <2>7, Zenon DEF SameBank, w, a
  <2>9. y.cursor = g.folds /\ a + 1 <= p
    BY <2>1, <2>2, <2>3
  <2>10. Len(z.pend) + 0 <= p
    BY <2>2, <2>5, <2>8, <2>9
  <2> QED BY <2>6, <2>8, <2>9, <2>10, Zenon
<1>9. Covers(g, z, 0)
  BY <1>8, Zenon DEF Covers
<1> QED BY <1>2, <1>3, <1>4, <1>6, <1>7, <1>9, Zenon DEF Quiescent

-----------------------------------------------------------------------------
(***************************************************************************)
(* A fold of the leader, and of one that follows.                          *)
(***************************************************************************)

Grown(way, m, z)  == [i \in 0 .. m + 1 |-> IF i = m + 1 THEN z ELSE way[i]]

\* A fold of the leader makes the way longer by one.
LEMMA WayGrows ==
    ASSUME NEW y, y.cursor \in Nat, NEW f, NEW way, NEW said, NEW m \in Nat,
           Goes(y, f, way, said, m), ~Commits(y, f), Len(way[m].pend) >= RouteChunk,
           NEW op, Decided(way[m], op)
    PROVE  LET z == FoldBy(way[m], op)  c == y.cursor IN
           /\ Goes(y, f, Grown(way, m, z), Told(said, c, m, op), m + 1)
           /\ FoldsTo(way[m], op, z)
<1> DEFINE z == FoldBy(way[m], op)  c == y.cursor
           w == Grown(way, m, z)  t == Told(said, c, m, op)
<1>1. /\ c \in Nat /\ m \in 0 .. m /\ 0 \in 0 .. m + 1 /\ 0 # m + 1
      /\ m + 1 \in 0 .. m + 1 /\ m # m + 1 /\ m \in 0 .. m + 1
      /\ \A i \in 0 .. m : i \in 0 .. m + 1 /\ i # m + 1
      /\ \A i \in 0 .. m + 1 : i = m + 1 \/ i \in 0 .. m
      /\ \A i \in 0 .. (m + 1) - 1 : i = m \/ i \in 0 .. m - 1
      /\ \A i \in 0 .. m - 1 : /\ i \in 0 .. m /\ i + 1 \in 0 .. m
                               /\ c + i \in c .. c + m /\ c + i # c + m
      /\ c + m \in c .. c + m
  OBVIOUS
<1>2. Sound(way[m]) /\ way[m].cursor = c + m
  BY <1>1, Zenon DEF Goes
<1>3. FoldsTo(way[m], op, z)
  BY <1>2, FoldIs, Zenon
<1>4. Sound(z) /\ z.cursor = c + (m + 1)
  <2>1. Sound(z) /\ z.cursor = way[m].cursor + 1
    BY <1>3, Zenon DEF FoldsTo
  <2>2. (c + m) + 1 = c + (m + 1)
    BY <1>1, SMTT(20)
  <2> QED BY <1>2, <2>1, <2>2, Zenon
<1>5. \A i \in 0 .. m : w[i] = way[i]
  BY <1>1, Zenon DEF Grown
<1>6. w[m + 1] = z
  BY <1>1, Zenon DEF Grown
<1>7. /\ \A i \in 0 .. m - 1 : t[c + i] = said[c + i]
      /\ t[c + m] = op
  BY <1>1, Zenon DEF Told
<1>8. w[0] = Appended(Whole(y, f.kind), f.tokens)
  <2>1. 0 \in 0 .. m
    OBVIOUS
  <2> QED BY <1>5, <2>1, Zenon DEF Goes
<1> HIDE DEF z, w, t
<1>9. \A i \in 0 .. m + 1 : Sound(w[i]) /\ w[i].cursor = c + i
  <2> TAKE i \in 0 .. m + 1
  <2>1. CASE i = m + 1
    BY <1>4, <1>6, <2>1, Zenon
  <2>2. CASE i \in 0 .. m
    BY <1>5, <2>2, Zenon DEF Goes
  <2> QED BY <1>1, <2>1, <2>2, Zenon
<1>10. \A i \in 0 .. (m + 1) - 1 :
         Len(w[i].pend) >= RouteChunk /\ w[i + 1] = FoldBy(w[i], t[c + i])
  <2> TAKE i \in 0 .. (m + 1) - 1
  <2>1. CASE i = m
    BY <1>1, <1>5, <1>6, <1>7, <2>1, Zenon DEF z
  <2>2. CASE i \in 0 .. m - 1
    <3>1. Len(way[i].pend) >= RouteChunk /\ way[i + 1] = FoldBy(way[i], said[c + i])
      BY <2>2, Zenon DEF Goes
    <3> QED BY <1>1, <1>5, <1>7, <2>2, <3>1, Zenon
  <2> QED BY <1>1, <2>1, <2>2, Zenon
<1>11. Goes(y, f, w, t, m + 1)
  BY <1>8, <1>9, <1>10, Zenon DEF Goes
<1> QED BY <1>3, <1>11, Zenon DEF z, w, t

\* The leader decides op; g is the forward afterwards, whatever is left of its
\* packet, and here is where layer 1 stands.
Leading(f, state, log, feats, y, way, said, cuts, taken, m, op, g, here, feats2) ==
    /\ m \in Nat /\ Under(f, state, log, feats, y, way, said, cuts, taken, m, m)
    /\ f.at = 1 /\ ~Commits(y, f) /\ DOMAIN state = Layers
    /\ Len(way[m].pend) >= RouteChunk /\ Decided(way[m], op)
    /\ g \in Forwards /\ g.at = 1 /\ g.kind = f.kind /\ g.tokens = f.tokens
    /\ Stands(g, here, y, Grown(way, m, FoldBy(way[m], op)), cuts, taken, m + 1, m + 1)
    /\ \A s \in Slots : feats2[s] = IF s \in DOMAIN op.keeps THEN Cardinality(op.keeps[s])
                                                             ELSE feats[s]
Led(state, log, y, way, cuts, taken, m, op, g, here, feats2) ==
    \E way2, said2 : Under(g, [state EXCEPT ![1] = here], Published(log, way[m].cursor, op),
                           feats2, y, way2, said2, cuts, taken, m + 1, m + 1)

\* Leading, as a step of what holds during a forward.
LEMMA Leads ==
    \A f, state, log, feats, y, way, said, cuts, taken, m, op, g, here, feats2 :
        Leading(f, state, log, feats, y, way, said, cuts, taken, m, op, g, here, feats2)
          => Led(state, log, y, way, cuts, taken, m, op, g, here, feats2)
<1> SUFFICES ASSUME NEW f, NEW state, NEW log, NEW feats, NEW y, NEW way, NEW said, NEW cuts,
                    NEW taken, NEW m, NEW op, NEW g, NEW here, NEW feats2,
                    Leading(f, state, log, feats, y, way, said, cuts, taken, m, op,
                            g, here, feats2)
             PROVE  Led(state, log, y, way, cuts, taken, m, op, g, here, feats2)
  OBVIOUS
<1> DEFINE new == [state EXCEPT ![1] = here]  log2 == Published(log, way[m].cursor, op)
<1>0. /\ m \in Nat /\ Under(f, state, log, feats, y, way, said, cuts, taken, m, m)
      /\ f.at = 1 /\ ~Commits(y, f) /\ DOMAIN state = Layers
      /\ Len(way[m].pend) >= RouteChunk /\ Decided(way[m], op)
      /\ g \in Forwards /\ g.at = 1 /\ g.kind = f.kind /\ g.tokens = f.tokens
      /\ Stands(g, here, y, Grown(way, m, FoldBy(way[m], op)), cuts, taken, m + 1, m + 1)
      /\ \A s \in Slots : feats2[s] = IF s \in DOMAIN op.keeps THEN Cardinality(op.keeps[s])
                                                               ELSE feats[s]
  BY DEF Leading
<1> HIDE DEF new, log2
<1> USE <1>0
<1>new. new = [state EXCEPT ![1] = here] /\ log2 = Published(log, way[m].cursor, op)
  BY Zenon DEF new, log2
<1> DEFINE z == FoldBy(way[m], op)  c == y.cursor
           w == Grown(way, m, z)  t == Told(said, c, m, op)
<1>1. /\ AtRest(y) /\ Goes(y, f, way, said, m)
      /\ f.tokens = Positions(y.cumulative, y.cumulative + Len(f.tokens))
      /\ \A k \in Layers : k > f.at => state[k] = y
      /\ log = Log(c, said, m, 1, m)
      /\ \A s \in Slots : feats[s] = Len(way[m].spans[s])
  BY Zenon DEF Under
<1>2. c \in Nat
  BY <1>1, LayerTypes, Zenon DEF AtRest, Sound
<1>3. Goes(y, f, w, t, m + 1) /\ FoldsTo(way[m], op, z)
  BY <1>1, <1>2, WayGrows, Zenon
<1>4. Goes(y, g, w, t, m + 1)
  BY <1>3, Zenon DEF Goes, Commits
<1>5. m \in 0 .. m /\ m + 1 \in 0 .. m + 1
  OBVIOUS
<1>6. way[m].cursor = c + m
  BY <1>1, <1>5, Zenon DEF Goes
<1>7. w[m + 1] = z
  BY <1>5, Zenon DEF Grown
<1>8. \A s \in Slots : feats2[s] = Len(w[m + 1].spans[s])
  BY <1>1, <1>3, <1>7, Zenon DEF FoldsTo
<1>9. log2 = Log(c, t, m + 1, 1, m + 1)
  <2> HIDE DEF t, c
  <2>1. Publishes(c, said, m, op, Log(c, said, m, 1, m), Told(said, c, m, op))
    BY <1>2, LogPublished, Zenon
  <2> QED BY <1>new, <1>1, <1>6, <2>1, Zenon DEF t, Publishes
<1>10. \A k \in Layers : ~(k < 1) /\ (k > 1 => k # 1)
  BY DEF Layers
<1>11. \A k \in Layers : /\ k < g.at => new[k] = Left(y, g, w[m + 1])
                         /\ k > g.at => new[k] = y
  <2>1. \A k \in Layers : k # 1 => new[k] = state[k]
    BY <1>new, Zenon
  <2> QED BY <1>1, <1>10, <2>1, Zenon
<1>12. new[g.at] = here
  <2>1. 1 \in Layers
    BY ConstantTypes DEF Layers
  <2> QED BY <1>new, <2>1, Zenon
<1>13. Under(g, new, log2, feats2, y, w, t, cuts, taken, m + 1, m + 1)
  BY <1>1, <1>4, <1>8, <1>9, <1>11, <1>12, Zenon DEF Under
<1> QED BY <1>13, Zenon DEF Led, new, log2

\* A layer that follows goes one step on the way, as the log says.
LEMMA Follows ==
    ASSUME NEW f, NEW state, NEW log, NEW feats, NEW y, NEW way, NEW said, NEW cuts, NEW taken,
           NEW m \in Nat, NEW j \in 0 .. m,
           Under(f, state, log, feats, y, way, said, cuts, taken, m, j),
           f.phase = "serial", f.at # 1, DOMAIN state = Layers,
           NEW i, i = state[f.at].cursor, i \in DOMAIN log,
           NEW new, new = [state EXCEPT ![f.at] = FoldBy(state[f.at], log[i].op)],
           NEW log2, log2 = Consumed(log, i)
    PROVE  /\ j + 1 \in 0 .. m
           /\ Under(f, new, log2, feats, y, way, said, cuts, taken, m, j + 1)
<1> DEFINE c == y.cursor  l == f.at
<1>1. /\ f \in Forwards /\ AtRest(y) /\ Goes(y, f, way, said, m)
      /\ f.tokens = Positions(y.cumulative, y.cumulative + Len(f.tokens))
      /\ \A k \in Layers : /\ k < l => state[k] = Left(y, f, way[m])
                           /\ k > l => state[k] = y
      /\ Stands(f, state[l], y, way, cuts, taken, m, j)
      /\ log = Log(c, said, m, l, j)
      /\ \A s \in Slots : feats[s] = Len(way[m].spans[s])
  BY Zenon DEF Under
<1>2. c \in Nat /\ l \in Layers
  BY <1>1, LayerTypes, ForwardTypes, Zenon DEF AtRest, Sound
<1>3. /\ ~Commits(y, f) /\ state[l] = way[j]
      /\ Commits(y, f) \/ Len(way[m].pend) < RouteChunk
  BY <1>1, Zenon DEF Stands
<1>4. i = c + j
  BY <1>1, <1>3, Zenon DEF Goes
<1>5. /\ j < m /\ log[i].op = said[i]
      /\ Log(c, said, m, l, j + 1) = log2
  <2> HIDE DEF c, l
  <2>1. Consumes(c, said, m, l, j, Log(c, said, m, l, j))
    BY <1>2, LogConsumed, Zenon
  <2> QED BY <1>1, <1>4, <2>1, Zenon DEF Consumes
<1>6. j + 1 \in 0 .. m /\ j \in 0 .. m - 1
  BY <1>5
<1>7. way[j + 1] = FoldBy(state[l], log[i].op)
  <2>1. way[j + 1] = FoldBy(way[j], said[y.cursor + j])
    BY <1>1, <1>6, Zenon DEF Goes
  <2> QED BY <1>3, <1>4, <1>5, <2>1, Zenon
<1>8. \A k \in Layers : /\ (k < l => k # l) /\ (k > l => k # l)
  <2> HIDE DEF l
  <2> QED BY <1>2 DEF Layers
<1>9. new[l] = way[j + 1] /\ \A k \in Layers : k # l => new[k] = state[k]
  BY <1>2, <1>7, Zenon
<1>10. \A k \in Layers : /\ k < l => new[k] = Left(y, f, way[m])
                         /\ k > l => new[k] = y
  BY <1>1, <1>8, <1>9, Zenon
<1>11. Stands(f, new[l], y, way, cuts, taken, m, j + 1)
  BY <1>3, <1>9, Zenon DEF Stands
<1> QED BY <1>1, <1>5, <1>6, <1>10, <1>11, Zenon DEF Under

-----------------------------------------------------------------------------
(***************************************************************************)
(* The steps of a forward keep the invariant.                              *)
(***************************************************************************)

\* A forward in one of its phases is not idle.
LEMMA NotIdle ==
    \A f : f.phase \in {"enter", "serial", "packet"} => f # Idle
  BY DEF Idle

\* Which group is which.
LEMMA GroupKinds ==
    ASSUME NEW g, NEW f, NEW state, Grouped(g, f, state)
    PROVE  /\ g.kind = "none" => g = NoGroup
           /\ g.kind \in {"persistent", "transient"} => f = Idle /\ Padded(g, state)
           /\ g.kind = "covered" =>
                g \in [kind : {"covered"}, layers : [Layers -> Counted],
                       tokens : {<< >>}, folds : Nat]
           /\ g.kind \in {"none", "covered", "persistent", "transient"}
<1>1. CASE g = NoGroup
  <2>1. g.kind = "none"
    BY <1>1 DEF NoGroup
  <2> QED BY <1>1, <2>1
<1>2. CASE /\ g \in [kind : {"persistent", "transient"}, layers : {g.layers},
                     tokens : Seq(Nat), folds : Nat]
           /\ f = Idle /\ Padded(g, state)
  <2>1. g.kind \in {"persistent", "transient"}
    BY <1>2
  <2> QED BY <1>2, <2>1
<1>3. CASE g \in [kind : {"covered"}, layers : [Layers -> Counted],
                  tokens : {<< >>}, folds : Nat]
  <2>1. g.kind = "covered"
    BY <1>3
  <2> QED BY <1>3, <2>1
<1> QED BY <1>1, <1>2, <1>3, Zenon DEF Grouped

\* What a group that is no padded one says is said without the layers.
LEMMA GroupStays ==
    ASSUME NEW g, NEW f, NEW state, Grouped(g, f, state), g.kind \in {"none", "covered"},
           NEW h, NEW new
    PROVE  Grouped(g, h, new)
<1>1. CASE g.kind = "none"
  BY <1>1, GroupKinds, Zenon DEF Grouped
<1>2. CASE g.kind = "covered"
  BY <1>2, GroupKinds, Zenon DEF Grouped
<1> QED BY <1>1, <1>2

\* A forward begins in a quiet state, alone or as a commit of a covered row.
LEMMA BeginKeeps ==
    ASSUME RoutedInv, forward = Idle, UNCHANGED <<layer, leader, ops>>,
           NEW toks \in Seq(Nat), toks = Positions(Length, Length + Len(toks)),
           NEW kind \in {"prefill", "decode", "exact", "commit"}, Begin(toks, kind),
           Grouped(group', forward', layer'), group'.kind \in {"none", "covered"},
           group'.kind = "covered" => /\ kind = "commit" /\ Len(toks) = 1
                                      /\ Covers(group', layer[1], 1)
    PROVE  RoutedInv'
<1> DEFINE y == layer[1]  f == forward'
<1>1. /\ DOMAIN layer = Layers /\ AtRest(y) /\ \A l \in Layers : layer[l] = y
      /\ ops = << >> /\ \A s \in Slots : leader.feats[s] = Len(y.spans[s])
  <2>1. 1 \in Layers
    BY ConstantTypes DEF Layers
  <2> QED BY <2>1, Zenon DEF RoutedInv, Quiescent
<1>2. f \in Forwards /\ f.phase = "enter" /\ f.at = 1 /\ f.tokens = toks /\ f.kind = kind
  <2>1. 1 \in Layers
    BY ConstantTypes DEF Layers
  <2> DEFINE C == Cuts  L == Layers
  <2>2. 1 \in L
    BY <2>1
  <2> HIDE DEF C, L
  <2>3. << >> \in Seq(C) /\ 0 \in Nat
    OBVIOUS
  <2>4. f = [phase |-> "enter", at |-> 1, kind |-> kind, tokens |-> toks,
             prepared |-> << >>, taken |-> 0]
    BY DEF Begin, Idle
  <2> HIDE DEF f
  <2>5. f \in [phase : {"enter", "serial", "packet"}, at : L,
               kind : {"prefill", "decode", "exact", "commit"}, tokens : Seq(Nat),
               prepared : Seq(C), taken : Nat]
    BY <2>2, <2>3, <2>4
  <2>6. f.phase = "enter" /\ f.at = 1 /\ f.tokens = toks /\ f.kind = kind
    BY <2>4
  <2> QED BY <2>5, <2>6, Zenon DEF Forwards, C, L
<1>3. f.tokens = Positions(y.cumulative, y.cumulative + Len(f.tokens))
  BY <1>2, Zenon DEF Length
<1> HIDE DEF y, f
<1>4. \E way, said, cuts, taken :
         Under(f, layer, << >>, leader.feats, y, way, said, cuts, taken, 0, 0)
  BY <1>1, <1>2, <1>3, Starts, Zenon
<1>5. UnderWay(f, layer, << >>, leader.feats, group')
  <2>1. 0 \in Nat /\ 0 \in 0 .. 0
    OBVIOUS
  <2>2. Covers(group', y, 1)
    BY Zenon DEF Covers, y
  <2>3. group'.kind = "covered" => f.kind = "commit" /\ Len(f.tokens) = 1
    BY <1>2, Zenon
  <2> QED BY <1>4, <2>1, <2>2, <2>3, Zenon DEF UnderWay
<1>6. f # Idle
  BY <1>2, NotIdle
<1> QED BY <1>1, <1>5, <1>6, Zenon DEF RoutedInv, f

\* A layer is left, by what layer At may be left by.
LEMMA LeaveKeeps ==
    ASSUME RoutedInv, forward # Idle,
           NEW y, NEW way, NEW said, NEW cuts, NEW taken, NEW m \in Nat,
           Under(forward, layer, ops, leader.feats, y, way, said, cuts, taken, m, m),
           Covers(group, y, 1),
           Commits(y, forward) \/ Len(way[m].pend) < RouteChunk,
           Leave(Left(y, forward, way[m])), UNCHANGED <<leader, ops, group>>
    PROVE  RoutedInv'
<1> DEFINE f == forward'  new == layer'
<1>1. /\ DOMAIN layer = Layers /\ Grouped(group, forward, layer)
      /\ group.kind \in {"none", "covered"}
      /\ group.kind = "covered" => forward.kind = "commit" /\ Len(forward.tokens) = 1
      /\ forward \in Forwards
  BY Zenon DEF RoutedInv, UnderWay, Under
<1>2. new = [layer EXCEPT ![forward.at] = Left(y, forward, way[m])]
  BY Zenon DEF Leave, At
<1>3. DOMAIN new = Layers
  BY <1>1, <1>2, Zenon
<1>4. Grouped(group', f, new)
  BY <1>1, GroupStays, Zenon
<1> HIDE DEF f, new
<1>5. CASE forward.at = NumLayers
  <2>1. f = Idle
    BY <1>5, Zenon DEF Leave, At, f
  <2>2. \A l \in Layers : group.kind = "covered" => group.layers[l].pending \in Nat
    <3>1. SUFFICES ASSUME group.kind = "covered"
                   PROVE  \A l \in Layers : group.layers[l].pending \in Nat
      OBVIOUS
    <3>2. group \in [kind : {"covered"}, layers : [Layers -> Counted],
                     tokens : {<< >>}, folds : Nat]
      BY <1>1, <3>1, GroupKinds, Zenon
    <3> QED BY <3>2 DEF Counted
  <2>3. Quiescent(new, ops, leader.feats, group)
    BY <1>1, <1>2, <1>5, <2>2, LeavesLast, Zenon
  <2> QED BY <1>3, <1>4, <2>1, <2>3, Zenon DEF RoutedInv, f, new
<1>6. CASE forward.at # NumLayers
  <2>1. f = [forward EXCEPT !.phase = "enter", !.at = forward.at + 1,
                            !.prepared = << >>, !.taken = 0]
    BY <1>6, Zenon DEF Leave, At, f
  <2>2. forward.at \in Layers /\ forward.at < NumLayers /\ forward.at + 1 \in Layers
    <3>1. forward.at \in Layers
      BY <1>1, ForwardTypes, Zenon
    <3> QED BY <1>6, <3>1, ConstantTypes DEF Layers
  <2>3. /\ f \in Forwards /\ f.phase = "enter" /\ f.at = forward.at + 1
        /\ f.kind = forward.kind /\ f.tokens = forward.tokens
    <3> DEFINE C == Cuts  L == Layers  at == forward.at + 1
    <3>1. at \in L
      BY <2>2
    <3> HIDE DEF C, L, at
    <3>2. << >> \in Seq(C) /\ 0 \in Nat
      OBVIOUS
    <3>3. forward \in [phase : {"enter", "serial", "packet"}, at : L,
               kind : {"prefill", "decode", "exact", "commit"}, tokens : Seq(Nat),
               prepared : Seq(C), taken : Nat]
      BY <1>1, Zenon DEF Forwards, C, L
    <3>4. f = [forward EXCEPT !.phase = "enter", !.at = at, !.prepared = << >>, !.taken = 0]
      BY <2>1, Zenon DEF at
    <3>5. f \in [phase : {"enter", "serial", "packet"}, at : L,
               kind : {"prefill", "decode", "exact", "commit"}, tokens : Seq(Nat),
               prepared : Seq(C), taken : Nat]
      BY <3>1, <3>2, <3>3, <3>4
    <3>6. f.phase = "enter" /\ f.at = at /\ f.kind = forward.kind /\ f.tokens = forward.tokens
      BY <3>3, <3>4
    <3> QED BY <3>5, <3>6, Zenon DEF Forwards, C, L, at
  <2>4. Under(f, new, ops, leader.feats, y, way, said, cuts, taken, m, 0)
    BY <1>1, <1>2, <2>2, <2>3, LeavesLayer, Zenon
  <2>5. 0 \in 0 .. m
    OBVIOUS
  <2>6. UnderWay(f, new, ops, leader.feats, group)
    BY <1>1, <2>3, <2>4, <2>5, Zenon DEF UnderWay
  <2>7. f # Idle
    BY <2>3, NotIdle
  <2> QED BY <1>3, <1>4, <2>6, <2>7, Zenon DEF RoutedInv, f, new
<1> QED BY <1>5, <1>6

\* What is under way, one of the layers being at some state of it.
InForward(y, way, said, cuts, taken, m, j) ==
    /\ m \in Nat /\ j \in 0 .. m
    /\ Under(forward, layer, ops, leader.feats, y, way, said, cuts, taken, m, j)
    /\ Covers(group, y, 1) /\ forward # Idle /\ forward \in Forwards
    /\ AtRest(y) /\ Goes(y, forward, way, said, m)
    /\ Stands(forward, Here, y, way, cuts, taken, m, j)
    /\ DOMAIN layer = Layers /\ Grouped(group, forward, layer)
    /\ group.kind \in {"none", "covered"}
    /\ group.kind = "covered" => forward.kind = "commit" /\ Len(forward.tokens) = 1
    /\ \A i \in 0 .. m : Sound(way[i])

\* What RoutedInv says while a forward is under way.
LEMMA InForwardIs ==
    ASSUME RoutedInv, forward.phase \in {"enter", "serial", "packet"}
    PROVE  \E y, way, said, cuts, taken, m, j : InForward(y, way, said, cuts, taken, m, j)
<1>1. forward # Idle
  BY NotIdle
<1>2. PICK y, way, said, cuts, taken : \E m \in Nat : \E j \in 0 .. m :
        /\ Under(forward, layer, ops, leader.feats, y, way, said, cuts, taken, m, j)
        /\ Covers(group, y, 1)
  BY <1>1, Zenon DEF RoutedInv, UnderWay
<1>3. PICK m \in Nat : \E j \in 0 .. m :
        /\ Under(forward, layer, ops, leader.feats, y, way, said, cuts, taken, m, j)
        /\ Covers(group, y, 1)
  BY <1>2, Zenon
<1>4. PICK j \in 0 .. m :
        /\ Under(forward, layer, ops, leader.feats, y, way, said, cuts, taken, m, j)
        /\ Covers(group, y, 1)
  BY <1>3, Zenon
<1>5. /\ forward \in Forwards /\ AtRest(y) /\ Goes(y, forward, way, said, m)
      /\ Stands(forward, Here, y, way, cuts, taken, m, j)
  BY <1>4, Zenon DEF Under, Here, At
<1>6. /\ DOMAIN layer = Layers /\ Grouped(group, forward, layer)
      /\ group.kind \in {"none", "covered"}
      /\ group.kind = "covered" => forward.kind = "commit" /\ Len(forward.tokens) = 1
  BY <1>1, Zenon DEF RoutedInv, UnderWay
<1>7. \A i \in 0 .. m : Sound(way[i])
  BY <1>5, Zenon DEF Goes
<1>8. InForward(y, way, said, cuts, taken, m, j)
  BY <1>1, <1>4, <1>5, <1>6, <1>7, Zenon DEF InForward
<1> QED BY <1>8, Zenon

\* Commit: the layer takes the tokens without a fold.
LEMMA CommitKeeps ==
    ASSUME RoutedInv, Commit
    PROVE  RoutedInv'
<1>1. forward.phase = "enter" /\ forward.kind = "commit" /\ CanCommit(Here, forward.tokens)
  BY Zenon DEF Commit
<1>2. PICK y, way, said, cuts, taken, m, j : InForward(y, way, said, cuts, taken, m, j)
  BY <1>1, InForwardIs, Zenon
<1>3. Here = y /\ j = 0 /\ Commits(y, forward) /\ m = 0
  <2>1. Here = y /\ j = 0
    BY <1>1, <1>2 DEF InForward, Stands
  <2>2. Commits(y, forward)
    BY <1>1, <2>1, Zenon DEF Commits
  <2> QED BY <1>2, <2>1, <2>2, Zenon DEF InForward, Goes
<1>4. Leave(Left(y, forward, way[m])) /\ UNCHANGED <<leader, ops, group>>
  BY <1>3, Zenon DEF Commit, Left
<1>5. /\ m \in Nat /\ forward # Idle /\ Covers(group, y, 1)
      /\ Under(forward, layer, ops, leader.feats, y, way, said, cuts, taken, m, m)
  BY <1>2, <1>3, Zenon DEF InForward
<1> QED BY <1>3, <1>4, <1>5, LeaveKeeps, Zenon

\* Drained: the tail of the layer is short again.
LEMMA DrainedKeeps ==
    ASSUME RoutedInv, Drained
    PROVE  RoutedInv'
<1>1. forward.phase = "serial" /\ Len(Here.pend) < RouteChunk
  BY Zenon DEF Drained
<1>2. PICK y, way, said, cuts, taken, m, j : InForward(y, way, said, cuts, taken, m, j)
  BY <1>1, InForwardIs, Zenon
<1>3. Here = way[j] /\ ~Commits(y, forward)
  BY <1>1, <1>2 DEF InForward, Stands
<1>4. m \in Nat /\ j \in 0 .. m /\ \A i \in 0 .. m - 1 : Len(way[i].pend) >= RouteChunk
  BY <1>2, Zenon DEF InForward, Goes
<1>5. j = m
  <2>1. SUFFICES ASSUME j # m PROVE FALSE
    OBVIOUS
  <2>2. j \in 0 .. m - 1
    BY <1>4, <2>1
  <2>3. Len(way[j].pend) >= RouteChunk /\ Len(way[j].pend) < RouteChunk
    BY <1>1, <1>3, <1>4, <2>2, Zenon
  <2>4. Len(way[j].pend) \in Nat
    <3>1. way[j] \in LayerStates
      BY <1>2, <1>4, Zenon DEF InForward, Sound
    <3>2. way[j].pend \in Seq(Nat)
      BY <3>1, LayerTypes, Zenon
    <3> QED BY <3>2
  <2> QED BY <2>3, <2>4, ConstantTypes
<1>6. Leave(Left(y, forward, way[m])) /\ UNCHANGED <<leader, ops, group>>
  BY <1>3, <1>5, Zenon DEF Drained, Left
<1>7. /\ forward # Idle /\ Covers(group, y, 1) /\ Len(way[m].pend) < RouteChunk
      /\ Under(forward, layer, ops, leader.feats, y, way, said, cuts, taken, m, m)
  BY <1>1, <1>2, <1>3, <1>5, Zenon DEF InForward
<1> QED BY <1>4, <1>6, <1>7, LeaveKeeps, Zenon

-----------------------------------------------------------------------------
(***************************************************************************)
(* What is left of a list; an update.                                      *)
(***************************************************************************)

\* A part of what is left of a list.
LEMMA PartOfRest ==
    ASSUME NEW S, NEW s \in Seq(S), NEW t \in Nat, NEW n \in Nat, t + n <= Len(s)
    PROVE  SubSeq(SubSeq(s, t + 1, Len(s)), 1, n) = SubSeq(s, t + 1, t + n)
  OBVIOUS

\* What is left of what is left.
LEMMA RestOfRest ==
    ASSUME NEW S, NEW s \in Seq(S), NEW t \in Nat, NEW n \in Nat, t + n <= Len(s)
    PROVE  LET r == SubSeq(s, t + 1, Len(s)) IN
           SubSeq(r, n + 1, Len(r)) = SubSeq(s, (t + n) + 1, Len(s)) /\ Len(r) = Len(s) - t
  OBVIOUS

\* Lists with the same items are equal.
LEMMA SameItems ==
    ASSUME NEW S, NEW s \in Seq(S), NEW t \in Seq(S), Len(s) = Len(t),
           \A i \in 1 .. Len(s) : s[i] = t[i]
    PROVE  s = t
  OBVIOUS

\* The head and the tail of what is left.
LEMMA HeadOfRest ==
    ASSUME NEW S, NEW s \in Seq(S), NEW m \in Nat, m < Len(s)
    PROVE  LET r == SubSeq(s, m + 1, Len(s)) IN
           /\ Head(r) = s[m + 1] /\ Tail(r) = SubSeq(s, (m + 1) + 1, Len(s))
           /\ r \in Seq(S) /\ Tail(r) \in Seq(S)
<1> DEFINE r == SubSeq(s, m + 1, Len(s))  q == SubSeq(s, (m + 1) + 1, Len(s))  t == Tail(r)
<1>1. m \in 0 .. Len(s) /\ m + 1 \in 0 .. Len(s) /\ Len(s) \in Nat
  OBVIOUS
<1>2. r \in Seq(S) /\ Len(r) = Len(s) - m /\ \A i \in 1 .. Len(r) : r[i] = s[i + m]
  BY <1>1, DropFront, Zenon
<1>3. /\ q \in Seq(S) /\ Len(q) = Len(s) - (m + 1)
      /\ \A i \in 1 .. Len(q) : q[i] = s[i + (m + 1)]
  BY <1>1, DropFront, Zenon
<1> HIDE DEF r, q
<1>4. r # << >> /\ Head(r) = r[1] /\ 1 \in 1 .. Len(r)
  BY <1>1, <1>2
<1>5. t \in Seq(S) /\ Len(t) = Len(r) - 1 /\ \A i \in 1 .. Len(t) : t[i] = r[i + 1]
  BY <1>2, <1>4
<1> HIDE DEF t
<1>6. Len(t) = Len(q) /\ \A i \in 1 .. Len(t) : t[i] = q[i]
  <2>1. Len(t) = Len(q)
    BY <1>1, <1>2, <1>3, <1>5
  <2>2. \A i \in 1 .. Len(t) : /\ i \in 1 .. Len(q) /\ i + 1 \in 1 .. Len(r)
                               /\ (i + 1) + m = i + (m + 1)
    BY <1>1, <1>2, <1>3, <1>5
  <2> QED BY <1>2, <1>3, <1>5, <2>1, <2>2
<1>7. t = q
  BY <1>3, <1>5, <1>6, SameItems, Zenon
<1>8. Head(r) = s[m + 1]
  BY <1>2, <1>4
<1> QED BY <1>2, <1>5, <1>7, <1>8, Zenon DEF r, q, t

\* All is left, or nothing.
LEMMA WholeRest ==
    ASSUME NEW S, NEW s \in Seq(S), NEW m \in Nat, m <= Len(s)
    PROVE  /\ SubSeq(s, 0 + 1, Len(s)) = s
           /\ SubSeq(s, m + 1, Len(s)) = << >> => m = Len(s)
<1> DEFINE r == SubSeq(s, m + 1, Len(s))  q == SubSeq(s, 0 + 1, Len(s))
<1>1. m \in 0 .. Len(s) /\ 0 \in 0 .. Len(s) /\ Len(s) \in Nat
  OBVIOUS
<1>2. r \in Seq(S) /\ Len(r) = Len(s) - m
  BY <1>1, DropFront, Zenon
<1>3. q \in Seq(S) /\ Len(q) = Len(s) - 0 /\ \A i \in 1 .. Len(q) : q[i] = s[i + 0]
  BY <1>1, DropFront, Zenon
<1> HIDE DEF r, q
<1>4. Len(q) = Len(s) /\ \A i \in 1 .. Len(q) : q[i] = s[i]
  BY <1>1, <1>3
<1>5. q = s
  BY <1>3, <1>4, SameItems, Zenon
<1>6. r = << >> => m = Len(s)
  BY <1>1, <1>2
<1> QED BY <1>5, <1>6, Zenon DEF r, q

\* A tail put in place of itself.
LEMMA SamePend ==
    \A z \in LayerStates : [z EXCEPT !.pend = z.pend] = z
  BY DEF LayerStates

\* What a packet is made of.
LEMMA PacketIs ==
    ASSUME NEW y, Sound(y)
    PROVE  LET p == PreparedFolds(y) IN
           /\ p.cuts \in Seq(Cuts) /\ p.taken \in Nat
           /\ \E taken : Takes(y.pend, p.cuts, taken) /\ taken[Len(p.cuts)] = p.taken
<1> DEFINE p == PreparedFolds(y)
<1>1. /\ p.cuts \in Seq(Cuts) /\ p.taken \in Nat
      /\ \E taken : TakesUpTo(y, taken, p)
      /\ Len(y.pend) - p.taken < RouteChunk
  BY PreparedIs, Zenon
<1> HIDE DEF p
<1>2. PICK taken : TakesUpTo(y, taken, p)
  BY <1>1, Zenon
<1>3. ASSUME NEW i \in 1 .. Len(p.cuts)
      PROVE  /\ Tiles(p.cuts[i], RouteChunk)
             /\ p.cuts[i].cut = SubSeq(y.pend, taken[i - 1] + 1, taken[i - 1] + RouteChunk)
  <2>1. i - 1 \in 0 .. Len(p.cuts)
    OBVIOUS
  <2>2. taken[i - 1] \in Nat
    BY <1>2, <2>1, Zenon DEF TakesUpTo
  <2>3. p.cuts[i] = CutAfter(y, taken[i - 1])
    BY <1>2, Zenon DEF TakesUpTo
  <2> DEFINE t == taken[i - 1]
  <2> HIDE DEF t
  <2>4. /\ Tiles(CutAfter(y, t), RouteChunk)
        /\ CutAfter(y, t).cut = SubSeq(y.pend, t + 1, t + RouteChunk)
    BY <2>2, CutIs, Zenon DEF t
  <2> QED BY <2>3, <2>4, Zenon DEF t
<1>4. Takes(y.pend, p.cuts, taken) /\ taken[Len(p.cuts)] = p.taken
  BY <1>1, <1>2, <1>3, Zenon DEF Takes, TakesUpTo
<1> QED BY <1>1, <1>4, Zenon DEF p

\* Update: the tokens are appended; a packet is prepared or not.
LEMMA UpdateKeeps ==
    ASSUME RoutedInv, NEW packet \in BOOLEAN, Update(packet)
    PROVE  RoutedInv'
<1> DEFINE f == forward'  new == layer'
<1>1. /\ forward.phase = "enter" /\ UNCHANGED <<leader, ops, group>>
      /\ packet => At = 1
  BY Zenon DEF Update
<1>2. PICK y, way, said, cuts, taken, m, j : InForward(y, way, said, cuts, taken, m, j)
  BY <1>1, InForwardIs, Zenon
<1>3. Here = y /\ j = 0
  BY <1>1, <1>2 DEF InForward, Stands
<1>4. ~Commits(y, forward)
  BY <1>3, Zenon DEF Update, Commits
<1> DEFINE w == Appended(Whole(Here, forward.kind), forward.tokens)  p == PreparedFolds(w)
<1>5. /\ new = [layer EXCEPT ![At] = w]
      /\ f = IF packet THEN [forward EXCEPT !.phase = "packet", !.prepared = p.cuts,
                                            !.taken = p.taken]
                       ELSE [forward EXCEPT !.phase = "serial"]
  BY Zenon DEF Update
<1>6. /\ m \in Nat /\ j \in 0 .. m /\ forward \in Forwards /\ way[0] = w /\ Sound(w)
      /\ group.kind \in {"none", "covered"}
      /\ group.kind = "covered" => forward.kind = "commit" /\ Len(forward.tokens) = 1
      /\ DOMAIN layer = Layers /\ Grouped(group, forward, layer) /\ Covers(group, y, 1)
      /\ Under(forward, layer, ops, leader.feats, y, way, said, cuts, taken, m, j)
      /\ Stands(forward, Here, y, way, cuts, taken, m, j)
  <2>1. m \in Nat /\ 0 \in 0 .. m
    BY <1>2 DEF InForward
  <2>2. way[0] = w /\ Sound(way[0])
    BY <1>2, <1>3, <2>1, Zenon DEF InForward, Goes
  <2> QED BY <1>2, <2>2, Zenon DEF InForward
<1> HIDE DEF w
<1>7. p.cuts \in Seq(Cuts) /\ p.taken \in Nat
  BY <1>6, PacketIs, Zenon
<1>8. PICK t : Takes(w.pend, p.cuts, t) /\ t[Len(p.cuts)] = p.taken
  BY <1>6, PacketIs, Zenon
<1> HIDE DEF p
<1>9. /\ f \in Forwards /\ f.at = forward.at /\ f.kind = forward.kind
      /\ f.tokens = forward.tokens /\ f.phase = (IF packet THEN "packet" ELSE "serial")
      /\ packet => (f.prepared = p.cuts /\ f.taken = p.taken)
  <2> DEFINE C == Cuts  L == Layers  e == p.cuts  n == p.taken
  <2>1. forward \in [phase : {"enter", "serial", "packet"}, at : L,
               kind : {"prefill", "decode", "exact", "commit"}, tokens : Seq(Nat),
               prepared : Seq(C), taken : Nat]
    BY <1>6, Zenon DEF Forwards
  <2>2. e \in Seq(C) /\ n \in Nat
    BY <1>7, Zenon
  <2>3. f = IF packet THEN [forward EXCEPT !.phase = "packet", !.prepared = e, !.taken = n]
                       ELSE [forward EXCEPT !.phase = "serial"]
    BY <1>5, Zenon
  <2> HIDE DEF C, L, e, n, f
  <2>4. f \in [phase : {"enter", "serial", "packet"}, at : L,
               kind : {"prefill", "decode", "exact", "commit"}, tokens : Seq(Nat),
               prepared : Seq(C), taken : Nat]
    BY <2>1, <2>2, <2>3
  <2>5. /\ f.at = forward.at /\ f.kind = forward.kind
        /\ f.tokens = forward.tokens /\ f.phase = (IF packet THEN "packet" ELSE "serial")
        /\ packet => (f.prepared = e /\ f.taken = n)
    BY <2>1, <2>3
  <2> QED BY <2>4, <2>5, Zenon DEF Forwards, C, L, e, n
<1> HIDE DEF f, new
<1>10. Goes(y, f, way, said, m) /\ ~Commits(y, f)
  <2>1. Goes(y, forward, way, said, m)
    BY <1>6, Zenon DEF Under
  <2> QED BY <1>4, <1>9, <2>1, Zenon DEF Goes, Commits
<1>11. DOMAIN new = Layers /\ At \in Layers
  <2>1. At \in Layers
    BY <1>6, ForwardTypes, Zenon DEF At
  <2> QED BY <1>5, <1>6, <2>1, Zenon
<1>12. new[f.at] = w /\ \A k \in Layers : k # f.at => new[k] = layer[k]
  BY <1>5, <1>6, <1>9, <1>11, Zenon DEF At
<1>13. \A k \in Layers : /\ k < f.at => new[k] = Left(y, f, way[m])
                         /\ k > f.at => new[k] = y
  <2>1. \A k \in Layers : /\ k < f.at => k # f.at
                          /\ k > f.at => k # f.at
    <3>1. f.at \in Int
      BY <1>9, ForwardTypes DEF Layers
    <3> QED BY <3>1 DEF Layers
  <2>2. \A k \in Layers : /\ k < f.at => layer[k] = Left(y, forward, way[m])
                          /\ k > f.at => layer[k] = y
    BY <1>6, <1>9, Zenon DEF Under
  <2>3. Left(y, f, way[m]) = Left(y, forward, way[m])
    BY <1>9, Zenon DEF Left, Commits
  <2> QED BY <1>12, <2>1, <2>2, <2>3, Zenon
<1>14. \E c, u : Stands(f, w, y, way, c, u, m, 0)
  <2>1. CASE ~packet
    <3>1. f.phase = "serial"
      BY <1>9, <2>1, Zenon
    <3>2. IF f.at = 1 THEN 0 = m ELSE Commits(y, f) \/ Len(way[m].pend) < RouteChunk
      BY <1>3, <1>4, <1>6, <1>9, Zenon DEF Stands
    <3>3. Stands(f, w, y, way, cuts, taken, m, 0)
      BY <1>6, <1>10, <3>1, <3>2, Zenon DEF Stands
    <3> QED BY <3>3, Zenon
  <2>2. CASE packet
    <3>1. f.phase = "packet" /\ f.at = 1 /\ f.prepared = p.cuts /\ f.taken = p.taken
      BY <1>1, <1>9, <2>2, Zenon DEF At
    <3>2. m = 0
      BY <1>3, <1>6, <1>9, <3>1, Zenon DEF Stands
    <3>3. w \in LayerStates /\ w.pend \in Seq(Nat)
      BY <1>6, LayerTypes, Zenon DEF Sound
    <3>4. w = [w EXCEPT !.pend = w.pend]
      BY <3>3, SamePend, Zenon
    <3> DEFINE e == p.cuts  pend == w.pend
    <3>5. e \in Seq(Cuts) /\ pend \in Seq(Nat)
      BY <1>7, <3>3, Zenon
    <3> HIDE DEF e, pend
    <3>6. SubSeq(pend, 0 + 1, Len(pend)) = pend /\ 0 <= Len(e)
      <4>1. 0 \in Nat /\ 0 <= Len(pend) /\ 0 <= Len(e)
        BY <3>5
      <4>2. SubSeq(pend, 0 + 1, Len(pend)) = pend
        BY <3>5
      <4> QED BY <4>1, <4>2
    <3>7. SubSeq(e, 0 + 1, Len(e)) = e
      <4> DEFINE C == Cuts
      <4> HIDE DEF C
      <4>1. e \in Seq(C)
        BY <3>5 DEF C
      <4> QED BY <4>1
    <3>8. t[0] = 0
      BY <1>8, Zenon DEF Takes
    <3>9. InPacket(f, w, w.pend, w, p.cuts, t, 0)
      BY <1>8, <3>1, <3>4, <3>6, <3>7, <3>8, Zenon DEF InPacket, e, pend
    <3>10. Stands(f, w, y, way, p.cuts, t, m, 0)
      BY <1>6, <1>10, <3>1, <3>2, <3>9, Zenon DEF Stands
    <3> QED BY <3>10, Zenon
  <2> QED BY <2>1, <2>2, Zenon
<1>15. PICK c, u : Stands(f, w, y, way, c, u, m, 0)
  BY <1>14, Zenon
<1>16. Under(f, new, ops, leader.feats, y, way, said, c, u, m, 0)
  BY <1>3, <1>6, <1>9, <1>10, <1>12, <1>13, <1>15, Zenon DEF Under
<1>17. UnderWay(f, new, ops, leader.feats, group)
  <2>1. 0 \in 0 .. m
    BY <1>6
  <2> QED BY <1>6, <1>9, <1>16, <2>1, Zenon DEF UnderWay
<1>18. Grouped(group, f, new) /\ f # Idle
  <2>1. f.phase \in {"enter", "serial", "packet"}
    BY <1>9, ForwardTypes, Zenon
  <2> QED BY <1>6, <2>1, GroupStays, NotIdle
<1> QED BY <1>1, <1>11, <1>17, <1>18, Zenon DEF RoutedInv, f, new

-----------------------------------------------------------------------------
(***************************************************************************)
(* The folds keep the invariant.                                           *)
(***************************************************************************)

\* The leader folds as op says; here is where layer 1 stands afterwards.
LeadStep(y, way, said, cuts, taken, m, op, here) ==
    /\ RoutedInv /\ InForward(y, way, said, cuts, taken, m, m) /\ At = 1
    /\ ~Commits(y, forward) /\ Len(way[m].pend) >= RouteChunk
    /\ Decided(way[m], op) /\ Plan(op) /\ Publish(op) /\ Here.cursor = way[m].cursor
    /\ layer' = [layer EXCEPT ![At] = here] /\ UNCHANGED group
    /\ forward' \in Forwards /\ forward'.at = 1 /\ forward'.kind = forward.kind
    /\ forward'.tokens = forward.tokens
    /\ Stands(forward', here, y, Grown(way, m, FoldBy(way[m], op)), cuts, taken, m + 1, m + 1)

\* LeadStep keeps the invariant.
LEMMA LeadKeeps ==
    \A y, way, said, cuts, taken, m, op, here :
        LeadStep(y, way, said, cuts, taken, m, op, here) => RoutedInv'
<1> SUFFICES ASSUME NEW y, NEW way, NEW said, NEW cuts, NEW taken, NEW m, NEW op, NEW here,
                    LeadStep(y, way, said, cuts, taken, m, op, here)
             PROVE  RoutedInv'
  OBVIOUS
<1>0. /\ RoutedInv /\ InForward(y, way, said, cuts, taken, m, m) /\ At = 1
      /\ ~Commits(y, forward) /\ Len(way[m].pend) >= RouteChunk
      /\ Decided(way[m], op) /\ Plan(op) /\ Publish(op) /\ Here.cursor = way[m].cursor
      /\ layer' = [layer EXCEPT ![At] = here] /\ UNCHANGED group
      /\ forward' \in Forwards /\ forward'.at = 1 /\ forward'.kind = forward.kind
      /\ forward'.tokens = forward.tokens
      /\ Stands(forward', here, y, Grown(way, m, FoldBy(way[m], op)), cuts, taken, m + 1, m + 1)
  BY Zenon DEF LeadStep
<1> USE <1>0
<1> DEFINE f == forward'  new == layer'  log2 == ops'  feats2 == leader'.feats
<1>1. /\ m \in Nat /\ Under(forward, layer, ops, leader.feats, y, way, said, cuts, taken, m, m)
      /\ DOMAIN layer = Layers /\ Grouped(group, forward, layer) /\ Covers(group, y, 1)
      /\ group.kind \in {"none", "covered"}
      /\ group.kind = "covered" => forward.kind = "commit" /\ Len(forward.tokens) = 1
      /\ forward \in Forwards /\ forward.at = 1
  BY Zenon DEF InForward, At
<1>2. new = [layer EXCEPT ![1] = here]
  BY Zenon
<1>3. log2 = Published(ops, way[m].cursor, op)
  BY Zenon DEF Publish, Published
<1>4. \A s \in Slots : feats2[s] = IF s \in DOMAIN op.keeps THEN Cardinality(op.keeps[s])
                                                            ELSE leader.feats[s]
  <2>1. leader'.feats = [s \in Slots |-> IF s \in DOMAIN op.keeps THEN Cardinality(op.keeps[s])
                                                                  ELSE leader.feats[s]]
    BY DEF Plan
  <2> QED BY <2>1, Zenon
<1>5. /\ f \in Forwards /\ f.at = 1 /\ f.kind = forward.kind /\ f.tokens = forward.tokens
      /\ Stands(f, here, y, Grown(way, m, FoldBy(way[m], op)), cuts, taken, m + 1, m + 1)
  OBVIOUS
<1> HIDE DEF f, new, log2, feats2
<1>6. PICK way2, said2 : Under(f, new, log2, feats2, y, way2, said2, cuts, taken, m + 1, m + 1)
  <2>1. Leading(forward, layer, ops, leader.feats, y, way, said, cuts, taken, m, op,
                f, here, feats2)
    BY <1>1, <1>4, <1>5, Zenon DEF Leading
  <2>2. Led(layer, ops, y, way, cuts, taken, m, op, f, here, feats2)
    BY <2>1, Leads, Zenon
  <2> QED BY <1>2, <1>3, <2>2, Zenon DEF Led
<1>7. m + 1 \in Nat /\ m + 1 \in 0 .. m + 1
  BY <1>1
<1>8. UnderWay(f, new, log2, feats2, group)
  BY <1>1, <1>5, <1>6, <1>7, Zenon DEF UnderWay
<1>9. Grouped(group, f, new) /\ f # Idle
  <2>1. f.phase \in {"enter", "serial", "packet"}
    BY <1>5, ForwardTypes, Zenon
  <2> QED BY <1>1, <2>1, GroupStays, NotIdle
<1>10. DOMAIN new = Layers
  BY <1>1, <1>2, Zenon
<1> QED BY <1>8, <1>9, <1>10, Zenon DEF RoutedInv, f, new, log2, feats2

\* FoldAlone: the leader decides, publishes and folds.
LEMMA FoldAloneKeeps ==
    ASSUME RoutedInv, FoldAlone
    PROVE  RoutedInv'
<1>1. /\ forward.phase = "serial" /\ Len(Here.pend) >= RouteChunk /\ At = 1
      /\ UNCHANGED <<forward, group>>
  BY Zenon DEF FoldAlone
<1>2. PICK y, way, said, cuts, taken, m, j : InForward(y, way, said, cuts, taken, m, j)
  BY <1>1, InForwardIs, Zenon
<1>3. Here = way[j] /\ ~Commits(y, forward) /\ j = m /\ forward.at = 1
  BY <1>1, <1>2 DEF InForward, Stands, At
<1>4. m \in Nat /\ m \in 0 .. m
  BY <1>2 DEF InForward
<1>5. Sound(way[m]) /\ Here = way[m] /\ InForward(y, way, said, cuts, taken, m, m)
  BY <1>2, <1>3, <1>4, Zenon DEF InForward
<1> DEFINE split == CutAfter(Here, 0)
<1>6. PICK op \in Decisions(Here, split) :
        /\ Plan(op) /\ Publish(op)
        /\ layer' = [layer EXCEPT ![At] = Trimmed(Folded(Here, op, split.cut), split.routed)]
  BY Zenon DEF FoldAlone, Lead
<1>7. Tiles(split, RouteChunk) /\ split.cut = CutOf(Here)
  BY <1>5, FrontCut, Zenon
<1> HIDE DEF split
<1>8. Decided(Here, op) /\ op.routed = split.routed
  <2> DEFINE h == Here
  <2>1. Sound(h) /\ h.spans = h.spans /\ h.evicted = h.evicted /\ split.cut = CutOf(h)
        /\ op \in Decisions(h, split)
    BY <1>5, <1>7, Zenon
  <2> HIDE DEF h
  <2>2. Decided(h, op) /\ op.routed = split.routed
    <3>1. Deciding(h, h, split, op)
      BY <1>7, <2>1, Zenon DEF Deciding
    <3>2. DecidedBy(h, split, op)
      BY <3>1, DecisionIs, Zenon
    <3> QED BY <3>2, Zenon DEF DecidedBy
  <2> QED BY <2>2, Zenon DEF h
<1>9. layer' = [layer EXCEPT ![At] = FoldBy(Here, op)]
  BY <1>6, <1>7, <1>8, Zenon DEF FoldBy, CutOf
<1> DEFINE z == FoldBy(way[m], op)
<1>10. Grown(way, m, z)[m + 1] = z
  <2>1. m + 1 \in 0 .. m + 1
    BY <1>4
  <2> QED BY <2>1, Zenon DEF Grown
<1>11. Stands(forward', z, y, Grown(way, m, z), cuts, taken, m + 1, m + 1)
  BY <1>1, <1>3, <1>10, Zenon DEF Stands
<1>12. /\ forward' \in Forwards /\ forward'.at = 1 /\ forward'.kind = forward.kind
       /\ forward'.tokens = forward.tokens
  BY <1>1, <1>3, <1>5, Zenon DEF InForward
<1>13. /\ layer' = [layer EXCEPT ![At] = z] /\ Decided(way[m], op)
       /\ Len(way[m].pend) >= RouteChunk /\ Here.cursor = way[m].cursor
  BY <1>1, <1>5, <1>8, <1>9, Zenon
<1> HIDE DEF z
<1>14. LeadStep(y, way, said, cuts, taken, m, op, z)
  BY <1>1, <1>3, <1>5, <1>6, <1>11, <1>12, <1>13, Zenon DEF LeadStep, z
<1> QED BY <1>14, LeadKeeps, Zenon

\* FoldAsDecided: a layer folds what the leader decided.
LEMMA FoldAsDecidedKeeps ==
    ASSUME RoutedInv, FoldAsDecided
    PROVE  RoutedInv'
<1>1. /\ forward.phase = "serial" /\ At > 1 /\ UNCHANGED <<leader, forward, group>>
      /\ Here.cursor \in DOMAIN ops /\ ops' = Consumed(ops, Here.cursor)
      /\ layer' = [layer EXCEPT ![At] = FoldBy(Here, ops[Here.cursor].op)]
  BY Zenon DEF FoldAsDecided, Consume, Consumed, FoldBy
<1>2. PICK y, way, said, cuts, taken, m, j : InForward(y, way, said, cuts, taken, m, j)
  BY <1>1, InForwardIs, Zenon
<1> DEFINE i == layer[forward.at].cursor  new == layer'  log2 == ops'
<1>3. /\ m \in Nat /\ j \in 0 .. m /\ DOMAIN layer = Layers
      /\ Under(forward, layer, ops, leader.feats, y, way, said, cuts, taken, m, j)
      /\ forward # Idle /\ Grouped(group, forward, layer) /\ Covers(group, y, 1)
      /\ group.kind \in {"none", "covered"}
      /\ group.kind = "covered" => forward.kind = "commit" /\ Len(forward.tokens) = 1
  BY <1>2, Zenon DEF InForward
<1>4. forward.at # 1
  <2>1. forward.at \in Nat
    <3>1. forward.at \in Layers
      BY <1>2, ForwardTypes, Zenon DEF InForward
    <3> QED BY <3>1 DEF Layers
  <2> QED BY <1>1, <2>1 DEF At
<1>5. /\ new = [layer EXCEPT ![forward.at] = FoldBy(layer[forward.at], ops[i].op)]
      /\ i \in DOMAIN ops /\ log2 = Consumed(ops, i)
  BY <1>1, Zenon DEF At, Here
<1> HIDE DEF i, new, log2
<1>6. i = layer[forward.at].cursor
  BY Zenon DEF i
<1>7. /\ j + 1 \in 0 .. m
      /\ Under(forward, new, log2, leader.feats, y, way, said, cuts, taken, m, j + 1)
  BY <1>1, <1>3, <1>4, <1>5, <1>6, Follows, Zenon
<1>8. UnderWay(forward, new, log2, leader.feats, group)
  BY <1>3, <1>7, Zenon DEF UnderWay
<1>9. Grouped(group, forward, new) /\ DOMAIN new = Layers
  BY <1>3, <1>5, GroupStays, Zenon
<1> QED BY <1>1, <1>3, <1>8, <1>9, Zenon DEF RoutedInv, new, log2

\* Where a leader stands in its packet.
LEMMA PacketStands ==
    ASSUME RoutedInv, forward.phase = "packet"
    PROVE  \E y, way, said, cuts, taken, m :
             /\ InForward(y, way, said, cuts, taken, m, m) /\ At = 1 /\ ~Commits(y, forward)
             /\ InPacket(forward, Here, way[0].pend, way[m], cuts, taken, m)
<1>1. forward.phase \in {"enter", "serial", "packet"}
  OBVIOUS
<1>2. PICK y, way, said, cuts, taken, m, j : InForward(y, way, said, cuts, taken, m, j)
  BY <1>1, InForwardIs, Zenon
<1>3. /\ ~Commits(y, forward) /\ j = m
      /\ InPacket(forward, Here, way[0].pend, way[m], cuts, taken, m)
  BY <1>2 DEF InForward, Stands
<1>4. At = 1
  BY <1>3, Zenon DEF InPacket, At
<1> QED BY <1>2, <1>3, <1>4, Zenon

\* The next cut of a packet is the one that the layer alone would make.
AheadOf(z, pend, cuts, taken, m) ==
    /\ Sound(z) /\ pend \in Seq(Nat) /\ Takes(pend, cuts, taken)
    /\ m \in Nat /\ m < Len(cuts) /\ z.pend = SubSeq(pend, taken[m] + 1, Len(pend))
NextCut(z, pend, cuts, taken, m) ==
    /\ Tiles(cuts[m + 1], RouteChunk) /\ cuts[m + 1].cut = CutOf(z)
    /\ Len(z.pend) >= RouteChunk
    /\ SubSeq(z.pend, cuts[m + 1].routed + 1, Len(z.pend))
         = SubSeq(pend, taken[m + 1] + 1, Len(pend))

\* The next cut of a packet is the chunk in front of what the way has left.
LEMMA NextCutIs ==
    \A z, pend, cuts, taken, m :
        AheadOf(z, pend, cuts, taken, m) => NextCut(z, pend, cuts, taken, m)
<1> SUFFICES ASSUME NEW z, NEW pend, NEW cuts, NEW taken, NEW m,
                    AheadOf(z, pend, cuts, taken, m)
             PROVE  NextCut(z, pend, cuts, taken, m)
  OBVIOUS
<1>0. /\ Sound(z) /\ pend \in Seq(Nat) /\ Takes(pend, cuts, taken)
      /\ m \in Nat /\ m < Len(cuts) /\ z.pend = SubSeq(pend, taken[m] + 1, Len(pend))
  BY Zenon DEF AheadOf
<1> USE <1>0
<1> DEFINE t == taken[m]  r == cuts[m + 1].routed  n == Len(pend)  c == RouteChunk
<1>1. Len(cuts) \in Nat /\ cuts \in Seq(Cuts)
  <2>1. cuts \in Seq(Cuts)
    BY Zenon DEF Takes
  <2> QED BY <2>1
<1>2. m + 1 \in 1 .. Len(cuts) /\ m \in 0 .. Len(cuts) /\ (m + 1) - 1 = m
  BY <1>1
<1>3. /\ Tiles(cuts[m + 1], RouteChunk)
      /\ cuts[m + 1].cut = SubSeq(pend, t + 1, t + c)
      /\ taken[m + 1] = t + r /\ n - t >= c /\ t \in Nat
  BY <1>2, Zenon DEF Takes
<1>4. r \in 1 .. c /\ c \in Nat /\ n \in Nat
  BY <1>3, ConstantTypes DEF Tiles
<1> HIDE DEF t, r, n, c
<1>5. t \in Nat /\ c \in Nat /\ r \in Nat /\ t + c <= Len(pend) /\ t + r <= Len(pend)
  BY <1>3, <1>4 DEF n
<1>6. SubSeq(SubSeq(pend, t + 1, Len(pend)), 1, c) = SubSeq(pend, t + 1, t + c)
  BY <1>5, PartOfRest, Zenon
<1> DEFINE q == SubSeq(pend, t + 1, Len(pend))
<1>7. SubSeq(q, r + 1, Len(q)) = SubSeq(pend, (t + r) + 1, Len(pend)) /\ Len(q) = Len(pend) - t
  BY <1>5, RestOfRest, Zenon
<1>8. z.pend = q
  BY Zenon DEF t
<1>9. Len(q) >= c
  BY <1>3, <1>4, <1>7 DEF n
<1> HIDE DEF q
<1> QED BY <1>3, <1>6, <1>7, <1>8, <1>9, Zenon DEF NextCut, CutOf, c, q, r

\* FoldPacket: the leader folds a cut and leaves its tail for the end.
LEMMA FoldPacketKeeps ==
    ASSUME RoutedInv, FoldPacket
    PROVE  RoutedInv'
<1>1. /\ forward.phase = "packet" /\ forward.prepared # << >> /\ UNCHANGED group
      /\ forward' = [forward EXCEPT !.prepared = Tail(forward.prepared)]
  BY Zenon DEF FoldPacket
<1>2. PICK y, way, said, cuts, taken, m :
        /\ InForward(y, way, said, cuts, taken, m, m) /\ At = 1 /\ ~Commits(y, forward)
        /\ InPacket(forward, Here, way[0].pend, way[m], cuts, taken, m)
  BY <1>1, PacketStands, Zenon
<1> DEFINE pend == way[0].pend  w == way[m]
<1>3. /\ m \in Nat /\ m <= Len(cuts) /\ Takes(pend, cuts, taken)
      /\ Here = [w EXCEPT !.pend = pend] /\ w.pend = SubSeq(pend, taken[m] + 1, Len(pend))
      /\ forward.prepared = SubSeq(cuts, m + 1, Len(cuts))
      /\ forward.taken = taken[Len(cuts)] /\ forward.at = 1
  BY <1>2, Zenon DEF InForward, InPacket
<1>4. Sound(w) /\ pend \in Seq(Nat) /\ forward \in Forwards
  <2>1. m \in 0 .. m /\ 0 \in 0 .. m
    BY <1>3
  <2>2. Sound(way[0]) /\ Sound(way[m]) /\ forward \in Forwards
    BY <1>2, <2>1, Zenon DEF InForward
  <2>3. pend \in Seq(Nat)
    BY <2>2, LayerTypes, Zenon DEF Sound
  <2> QED BY <2>2, <2>3
<1> HIDE DEF pend, w
<1>5. cuts \in Seq(Cuts) /\ m < Len(cuts) /\ Len(cuts) \in Nat
  <2>1. cuts \in Seq(Cuts)
    BY <1>3, Zenon DEF Takes
  <2>2. m # Len(cuts)
    <3>1. SubSeq(cuts, Len(cuts) + 1, Len(cuts)) = << >>
      <4> DEFINE C == Cuts
      <4> HIDE DEF C
      <4>1. cuts \in Seq(C)
        BY <2>1 DEF C
      <4> QED BY <4>1
    <3> QED BY <1>1, <1>3, <3>1, Zenon
  <2> QED BY <1>3, <2>1, <2>2
<1> DEFINE cut == cuts[m + 1]
<1>6. /\ Head(forward.prepared) = cut
      /\ Tail(forward.prepared) = SubSeq(cuts, (m + 1) + 1, Len(cuts))
      /\ Tail(forward.prepared) \in Seq(Cuts)
  <2> DEFINE C == Cuts  r == SubSeq(cuts, m + 1, Len(cuts))
  <2> HIDE DEF C
  <2>1. cuts \in Seq(C)
    BY <1>5 DEF C
  <2>2. Head(r) = cut /\ Tail(r) = SubSeq(cuts, (m + 1) + 1, Len(cuts)) /\ Tail(r) \in Seq(C)
    BY <1>3, <1>5, <2>1, HeadOfRest, Zenon
  <2> QED BY <1>3, <2>2, Zenon DEF C
<1>7. /\ Tiles(cut, RouteChunk) /\ cut.cut = CutOf(w) /\ Len(w.pend) >= RouteChunk
      /\ SubSeq(w.pend, cut.routed + 1, Len(w.pend)) = SubSeq(pend, taken[m + 1] + 1, Len(pend))
  <2>1. AheadOf(w, pend, cuts, taken, m)
    BY <1>3, <1>4, <1>5, Zenon DEF AheadOf
  <2>2. NextCut(w, pend, cuts, taken, m)
    BY <2>1, NextCutIs, Zenon
  <2> QED BY <2>2, Zenon DEF NextCut
<1> HIDE DEF cut
<1>8. PICK op \in Decisions(Here, cut) :
        /\ Plan(op) /\ Publish(op)
        /\ layer' = [layer EXCEPT ![At] = Trimmed(Folded(Here, op, cut.cut), 0)]
  BY <1>6, Zenon DEF FoldPacket, Lead
<1>9. Here.spans = w.spans /\ Here.evicted = w.evicted /\ Here.cursor = w.cursor
  <2>1. w \in LayerStates
    BY <1>4, Zenon DEF Sound
  <2>2. LET x == [w EXCEPT !.pend = pend] IN
        x.spans = w.spans /\ x.evicted = w.evicted /\ x.cursor = w.cursor
    BY <1>4, <2>1, RecordPend, Zenon
  <2> QED BY <1>3, <2>2, Zenon
<1>10. Decided(w, op) /\ op.routed = cut.routed
  <2> DEFINE h == Here
  <2> HIDE DEF h
  <2>1. Deciding(w, h, cut, op)
    BY <1>4, <1>7, <1>8, <1>9, Zenon DEF Deciding, h
  <2>2. DecidedBy(w, cut, op)
    BY <2>1, DecisionIs, Zenon
  <2> QED BY <2>2, Zenon DEF DecidedBy
<1> DEFINE z == FoldBy(w, op)  here == [z EXCEPT !.pend = pend]
<1>11. layer' = [layer EXCEPT ![At] = here]
  <2>1. Trimmed(Folded(Here, op, CutOf(w)), 0) = here
    <3> DEFINE h == Here
    <3>1. h = [w EXCEPT !.pend = pend]
      BY <1>3, Zenon
    <3> HIDE DEF h
    <3>2. Trimmed(Folded(h, op, CutOf(w)), 0) = [FoldBy(w, op) EXCEPT !.pend = pend]
      <4>1. Folding(w, op, pend)
        BY <1>4, <1>7, <1>10, Zenon DEF Folding
      <4>2. Trimmed(Folded(WithPend(w, pend), op, CutOf(w)), 0) = WithPend(FoldBy(w, op), pend)
        BY <4>1, PacketFold, Zenon
      <4>3. WithPend(w, pend) = h
        BY <3>1, Zenon DEF WithPend
      <4> QED BY <4>2, <4>3, Zenon DEF WithPend
    <3> QED BY <3>2, Zenon DEF h
  <2> QED BY <1>7, <1>8, <2>1, Zenon
<1>12. z.pend = SubSeq(pend, taken[m + 1] + 1, Len(pend))
  <2>1. FoldsTo(w, op, z)
    BY <1>4, <1>7, <1>10, FoldIs, Zenon
  <2> QED BY <1>7, <1>10, <2>1, Zenon DEF FoldsTo
<1> HIDE DEF z, here
<1> DEFINE way2 == Grown(way, m, z)
<1>13. way2[m + 1] = z /\ way2[0] = way[0]
  <2>1. m + 1 \in 0 .. m + 1 /\ 0 \in 0 .. m + 1 /\ 0 # m + 1
    BY <1>3
  <2> QED BY <2>1, Zenon DEF Grown
<1> HIDE DEF way2
<1>14. /\ forward' \in Forwards /\ forward'.at = 1 /\ forward'.kind = forward.kind
       /\ forward'.tokens = forward.tokens /\ forward'.phase = "packet"
       /\ forward'.prepared = SubSeq(cuts, (m + 1) + 1, Len(cuts))
       /\ forward'.taken = forward.taken
  <2> DEFINE C == Cuts  L == Layers  e == Tail(forward.prepared)
  <2>1. forward \in [phase : {"enter", "serial", "packet"}, at : L,
               kind : {"prefill", "decode", "exact", "commit"}, tokens : Seq(Nat),
               prepared : Seq(C), taken : Nat]
    BY <1>4, Zenon DEF Forwards
  <2>2. e \in Seq(C) /\ forward' = [forward EXCEPT !.prepared = e]
    BY <1>1, <1>6, Zenon
  <2> HIDE DEF C, L, e
  <2>3. forward' \in [phase : {"enter", "serial", "packet"}, at : L,
               kind : {"prefill", "decode", "exact", "commit"}, tokens : Seq(Nat),
               prepared : Seq(C), taken : Nat]
    BY <2>1, <2>2
  <2>4. /\ forward'.at = forward.at /\ forward'.kind = forward.kind
        /\ forward'.tokens = forward.tokens /\ forward'.phase = forward.phase
        /\ forward'.prepared = e /\ forward'.taken = forward.taken
    BY <2>1, <2>2
  <2> QED BY <1>1, <1>3, <1>6, <2>3, <2>4, Zenon DEF Forwards, C, L, e
<1>15. m + 1 <= Len(cuts)
  BY <1>3, <1>5
<1>16. InPacket(forward', here, way2[0].pend, way2[m + 1], cuts, taken, m + 1)
  BY <1>3, <1>12, <1>13, <1>14, <1>15, Zenon DEF InPacket, here, pend
<1>17. ~Commits(y, forward')
  BY <1>2, <1>14, Zenon DEF Commits
<1>18. Stands(forward', here, y, way2, cuts, taken, m + 1, m + 1)
  BY <1>14, <1>16, <1>17, Zenon DEF Stands
<1>19. Stands(forward', here, y, Grown(way, m, FoldBy(way[m], op)), cuts, taken, m + 1, m + 1)
  BY <1>18, Zenon DEF way2, z, w
<1>20. /\ Len(way[m].pend) >= RouteChunk /\ Decided(way[m], op)
       /\ Here.cursor = way[m].cursor
  BY <1>7, <1>9, <1>10, Zenon DEF w
<1>21. LeadStep(y, way, said, cuts, taken, m, op, here)
  BY <1>1, <1>2, <1>8, <1>11, <1>14, <1>19, <1>20, Zenon DEF LeadStep
<1> QED BY <1>21, LeadKeeps, Zenon

\* PacketDone: what was folded is taken off the tail.
LEMMA PacketDoneKeeps ==
    ASSUME RoutedInv, PacketDone
    PROVE  RoutedInv'
<1>1. /\ forward.phase = "packet" /\ forward.prepared = << >> /\ UNCHANGED <<leader, ops, group>>
      /\ Leave(Materialized(Trimmed(Here, forward.taken)))
  BY Zenon DEF PacketDone
<1>2. PICK y, way, said, cuts, taken, m :
        /\ InForward(y, way, said, cuts, taken, m, m) /\ At = 1 /\ ~Commits(y, forward)
        /\ InPacket(forward, Here, way[0].pend, way[m], cuts, taken, m)
  BY <1>1, PacketStands, Zenon
<1> DEFINE pend == way[0].pend  w == way[m]
<1>3. /\ m \in Nat /\ m <= Len(cuts) /\ Takes(pend, cuts, taken)
      /\ Here = [w EXCEPT !.pend = pend] /\ w.pend = SubSeq(pend, taken[m] + 1, Len(pend))
      /\ forward.prepared = SubSeq(cuts, m + 1, Len(cuts))
      /\ forward.taken = taken[Len(cuts)]
  BY <1>2, Zenon DEF InForward, InPacket
<1>4. w \in LayerStates /\ pend \in Seq(Nat)
  <2>1. m \in 0 .. m /\ 0 \in 0 .. m
    BY <1>3
  <2>2. Sound(way[0]) /\ Sound(way[m])
    BY <1>2, <2>1, Zenon DEF InForward
  <2> QED BY <2>2, LayerTypes, Zenon DEF Sound
<1> HIDE DEF pend, w
<1>5. cuts \in Seq(Cuts) /\ m = Len(cuts)
  <2> DEFINE C == Cuts
  <2>1. cuts \in Seq(C)
    BY <1>3, Zenon DEF Takes
  <2> HIDE DEF C
  <2>2. SubSeq(cuts, m + 1, Len(cuts)) = << >>
    BY <1>1, <1>3, Zenon
  <2>3. m = Len(cuts)
    BY <1>3, <2>1, <2>2, WholeRest, Zenon
  <2> QED BY <2>1, <2>3, Zenon DEF C
<1>6. Trimmed(Here, forward.taken) = w
  <2> DEFINE h == Here  t == taken[m]
  <2>1. h.pend = pend /\ h = [w EXCEPT !.pend = pend]
    <3>1. LET x == [w EXCEPT !.pend = pend] IN x.pend = pend
      BY <1>4, RecordPend, Zenon
    <3> QED BY <1>3, <3>1, Zenon
  <2>2. Trimmed(h, t) = [h EXCEPT !.pend = w.pend]
    BY <1>3, <2>1, Zenon DEF Trimmed
  <2> HIDE DEF h
  <2>3. [h EXCEPT !.pend = w.pend] = [w EXCEPT !.pend = w.pend]
    BY <1>4, <2>1 DEF LayerStates
  <2>4. [w EXCEPT !.pend = w.pend] = w
    BY <1>4, SamePend, Zenon
  <2> QED BY <1>3, <1>5, <2>2, <2>3, <2>4, Zenon DEF h
<1>7. Leave(Left(y, forward, way[m]))
  BY <1>1, <1>2, <1>6, Zenon DEF Left, w
<1>8. Len(way[m].pend) < RouteChunk
  <2> DEFINE t == taken[m]  n == Len(pend)
  <2>1. m \in 0 .. Len(cuts)
    BY <1>3, <1>5
  <2>2. t \in Nat /\ n - t < RouteChunk
    BY <1>3, <1>5, <2>1, Zenon DEF Takes
  <2>3. w.pend = SubSeq(pend, t + 1, n) /\ n \in Nat
    BY <1>3, <1>4
  <2> HIDE DEF t
  <2>4. Len(w.pend) = IF t <= n THEN n - t ELSE 0
    BY <1>4, <2>2, <2>3
  <2> HIDE DEF n
  <2>5. Len(w.pend) < RouteChunk
    BY <2>2, <2>3, <2>4, ConstantTypes
  <2> QED BY <2>5, Zenon DEF w
<1>9. /\ forward # Idle /\ Covers(group, y, 1) /\ m \in Nat
      /\ Under(forward, layer, ops, leader.feats, y, way, said, cuts, taken, m, m)
  BY <1>2, Zenon DEF InForward
<1> QED BY <1>1, <1>7, <1>8, <1>9, LeaveKeeps, Zenon

-----------------------------------------------------------------------------
(***************************************************************************)
(* The layers of a padded decode.                                          *)
(***************************************************************************)

\* The fields of a padded layer.
LEMMA PaddedTypes ==
    ASSUME NEW y \in PaddedStates
    PROVE  /\ y.keys \in Seq(Places) /\ y.valid \in Seq(BOOLEAN) /\ y.open \in Seq(BOOLEAN)
           /\ y.static \in BOOLEAN /\ y.index \in Nat /\ y.initial \in Nat
           /\ y.write \in Nat /\ y.pending \in Nat
<1> DEFINE P == Places
<1> HIDE DEF P
<1>1. y \in [keys : Seq(P), valid : Seq(BOOLEAN), open : Seq(BOOLEAN),
             static : BOOLEAN, index : Nat, initial : Nat, write : Nat, pending : Nat]
  BY Zenon DEF PaddedStates, P
<1>2. /\ y.keys \in Seq(P) /\ y.valid \in Seq(BOOLEAN) /\ y.open \in Seq(BOOLEAN)
      /\ y.static \in BOOLEAN /\ y.index \in Nat /\ y.initial \in Nat
      /\ y.write \in Nat /\ y.pending \in Nat
  BY <1>1
<1> QED BY <1>2, Zenon DEF P

\* A value put in a place of a list.
LEMMA PutAt ==
    ASSUME NEW S, NEW s \in Seq(S), NEW at, NEW v, at \in 1 .. Len(s) => v \in S
    PROVE  LET t == [s EXCEPT ![at] = v] IN
           /\ t \in Seq(S) /\ Len(t) = Len(s)
           /\ \A i \in 1 .. Len(s) : t[i] = IF i = at THEN v ELSE s[i]
<1> DEFINE t == [s EXCEPT ![at] = v]  n == Len(s)
<1>1. n \in Nat /\ s \in [1 .. n -> S]
  OBVIOUS
<1>2. \A i \in 1 .. n : t[i] = IF i = at THEN v ELSE s[i]
  BY <1>1
<1>3. DOMAIN t = 1 .. n /\ t = [i \in 1 .. n |-> t[i]]
  BY <1>1
<1>4. \A i \in 1 .. n : t[i] \in S
  BY <1>1, <1>2
<1> HIDE DEF t
<1>5. t \in [1 .. n -> S]
  BY <1>3, <1>4, Zenon
<1> HIDE DEF n
<1>6. t \in Seq(S) /\ Len(t) = n
  BY <1>1, <1>5
<1> QED BY <1>2, <1>6, Zenon DEF t, n

PlaceOf(y) == 1 + IF y.static THEN y.index ELSE y.write

\* z is y, with kv at the next place.
Wrote(y, z, kv) ==
    LET at == PlaceOf(y)
    IN  /\ z \in PaddedStates
        /\ z.keys = [y.keys EXCEPT ![at] = kv]
        /\ z.valid = [y.valid EXCEPT ![at] = y.valid[at] \/ ~y.static]
        /\ z.open = IF y.open = << >> THEN y.open ELSE [y.open EXCEPT ![at] = TRUE]
        /\ z.static = y.static /\ z.initial = y.initial
        /\ z.index = IF y.static THEN y.index + 1 ELSE y.index
        /\ z.write = y.write + 1 /\ z.pending = y.pending + 1

PaddedRecord(y, z, k, v, o, i, w, p) ==
    /\ z \in PaddedStates /\ z.keys = k /\ z.valid = v /\ z.open = o
    /\ z.static = y.static /\ z.initial = y.initial
    /\ z.index = i /\ z.write = w /\ z.pending = p
NextPadded(y, k, v, o, i, w, p) ==
    [y EXCEPT !.keys = k, !.valid = v, !.open = o, !.index = i, !.write = w, !.pending = p]

\* What an update changes of a padded layer, field by field.
LEMMA RecordPadded ==
    \A y \in PaddedStates, k \in Seq(Places), v \in Seq(BOOLEAN), o \in Seq(BOOLEAN),
       i \in Nat, w \in Nat, p \in Nat :
       PaddedRecord(y, NextPadded(y, k, v, o, i, w, p), k, v, o, i, w, p)
<1> SUFFICES ASSUME NEW y \in PaddedStates, NEW k \in Seq(Places), NEW v \in Seq(BOOLEAN),
                    NEW o \in Seq(BOOLEAN), NEW i \in Nat, NEW w \in Nat, NEW p \in Nat
             PROVE  PaddedRecord(y, NextPadded(y, k, v, o, i, w, p), k, v, o, i, w, p)
  BY Zenon
<1> DEFINE z == [y EXCEPT !.keys = k, !.valid = v, !.open = o, !.index = i, !.write = w,
                          !.pending = p]
<1>1. /\ z \in PaddedStates /\ z.keys = k /\ z.valid = v /\ z.open = o
      /\ z.static = y.static /\ z.initial = y.initial
      /\ z.index = i /\ z.write = w /\ z.pending = p
  BY DEF PaddedStates
<1> QED BY <1>1, Zenon DEF PaddedRecord, NextPadded

\* An update writes one place, counts it and shows it.
LEMMA UpdatedIs ==
    ASSUME NEW y \in PaddedStates, NEW kv \in Places
    PROVE  Wrote(y, Updated(y, kv), kv)
<1> DEFINE at == PlaceOf(y)  k == [y.keys EXCEPT ![at] = kv]
           v == [y.valid EXCEPT ![at] = y.valid[at] \/ ~y.static]
           o == IF y.open = << >> THEN y.open ELSE [y.open EXCEPT ![at] = TRUE]
           n == IF y.static THEN y.index + 1 ELSE y.index
           w == y.write + 1  p == y.pending + 1
           z == NextPadded(y, k, v, o, n, w, p)
<1>1. Updated(y, kv) = z
  BY Zenon DEF Updated, PlaceOf, NextPadded
<1>2. k \in Seq(Places)
  <2>1. y.keys \in Seq(Places)
    BY PaddedTypes, Zenon
  <2> HIDE DEF at
  <2> QED BY <2>1, PutAt, Zenon
<1>3. v \in Seq(BOOLEAN)
  <2>1. y.valid \in Seq(BOOLEAN)
    BY PaddedTypes, Zenon
  <2>2. (y.valid[at] \/ ~y.static) \in BOOLEAN
    BY Zenon
  <2> HIDE DEF at
  <2> QED BY <2>1, <2>2, PutAt, Zenon
<1>4. o \in Seq(BOOLEAN)
  <2>1. y.open \in Seq(BOOLEAN) /\ TRUE \in BOOLEAN
    BY PaddedTypes, Zenon
  <2> HIDE DEF at
  <2> QED BY <2>1, PutAt, Zenon
<1>5. n \in Nat /\ w \in Nat /\ p \in Nat
  <2>1. y.index \in Nat /\ y.write \in Nat /\ y.pending \in Nat
    BY PaddedTypes, Zenon
  <2> QED BY <2>1
<1> HIDE DEF k, v, o, n, w, p
<1>6. /\ z \in PaddedStates /\ z.keys = k /\ z.valid = v /\ z.open = o
      /\ z.static = y.static /\ z.initial = y.initial
      /\ z.index = n /\ z.write = w /\ z.pending = p
  <2> HIDE DEF z
  <2>1. PaddedRecord(y, NextPadded(y, k, v, o, n, w, p), k, v, o, n, w, p)
    BY <1>2, <1>3, <1>4, <1>5, RecordPadded, Zenon
  <2> QED BY <2>1, Zenon DEF PaddedRecord, z
<1> HIDE DEF z
<1> QED BY <1>1, <1>6, Zenon DEF Wrote, k, v, o, n, w, p

-----------------------------------------------------------------------------
(***************************************************************************)
(* A capture.                                                              *)
(***************************************************************************)

\* What the forwards of a capture leave of a layer.
Kept(y, z) ==
    /\ z \in PaddedStates /\ z.static = y.static /\ Len(z.keys) = Len(y.keys)
    /\ PlaceOf(z) \in Nat /\ y.write < PlaceOf(z)
    /\ \A i \in 1 .. Len(y.keys) : i <= y.write => z.keys[i] = y.keys[i]

\* Another forward of a capture keeps what was written before the capture.
LEMMA KeptOn ==
    ASSUME NEW y \in PaddedStates, NEW z, Kept(y, z), NEW kv \in Places
    PROVE  Kept(y, Updated(z, kv))
<1> DEFINE u == Updated(z, kv)  at == PlaceOf(z)  n == Len(y.keys)
<1>1. /\ z \in PaddedStates /\ z.static = y.static /\ Len(z.keys) = n
      /\ at \in Nat /\ y.write < at
      /\ \A i \in 1 .. n : i <= y.write => z.keys[i] = y.keys[i]
  BY Zenon DEF Kept
<1>2. Wrote(z, u, kv)
  BY <1>1, UpdatedIs, Zenon
<1> HIDE DEF u
<1>3. /\ u \in PaddedStates /\ u.static = z.static /\ u.keys = [z.keys EXCEPT ![at] = kv]
      /\ u.index = IF z.static THEN z.index + 1 ELSE z.index
      /\ u.write = z.write + 1
  BY <1>2, Zenon DEF Wrote
<1>4. z.keys \in Seq(Places) /\ z.index \in Nat /\ z.write \in Nat /\ z.static \in BOOLEAN
      /\ y.write \in Nat
  BY <1>1, PaddedTypes, Zenon
<1>5. Len(u.keys) = n /\ \A i \in 1 .. n : u.keys[i] = IF i = at THEN kv ELSE z.keys[i]
  <2> DEFINE k == z.keys  t == [k EXCEPT ![at] = kv]
  <2>1. k \in Seq(Places) /\ Len(k) = n /\ u.keys = t
    BY <1>1, <1>3, <1>4, Zenon
  <2> HIDE DEF at, k, n
  <2>2. t \in Seq(Places) /\ Len(t) = Len(k)
        /\ \A i \in 1 .. Len(k) : t[i] = IF i = at THEN kv ELSE k[i]
    BY <2>1, PutAt
  <2> HIDE DEF t
  <2> QED BY <2>1, <2>2, Zenon DEF k
<1>6. \A i \in 1 .. n : i <= y.write => i # at
  <2> DEFINE w == y.write
  <2> HIDE DEF w, at, n
  <2> QED BY <1>1, <1>4 DEF w
<1>7. PlaceOf(u) = at + 1
  <2>1. CASE z.static
    BY <1>3, <1>4, <2>1 DEF PlaceOf
  <2>2. CASE ~z.static
    BY <1>3, <1>4, <2>2 DEF PlaceOf
  <2> QED BY <2>1, <2>2
<1>8. PlaceOf(u) \in Nat /\ y.write < PlaceOf(u)
  <2> DEFINE w == y.write  p == PlaceOf(u)
  <2>1. w \in Nat /\ w < at /\ at \in Nat /\ p = at + 1
    BY <1>1, <1>4, <1>7, Zenon
  <2> HIDE DEF w, at, p
  <2>2. p \in Nat /\ w < p
    BY <2>1
  <2> QED BY <2>2, Zenon DEF w, p
<1>9. \A i \in 1 .. n : i <= y.write => u.keys[i] = y.keys[i]
  BY <1>1, <1>5, <1>6, Zenon
<1> QED BY <1>1, <1>3, <1>5, <1>8, <1>9, Zenon DEF Kept, u

\* After a capture a layer is what it was, but for the keys of tokens to come.
Captured(y, z) ==
    /\ z \in PaddedStates /\ Len(z.keys) = Len(y.keys)
    /\ \A i \in 1 .. Len(y.keys) : i <= y.write => z.keys[i] = y.keys[i]
    /\ z.valid = y.valid /\ z.open = y.open /\ z.static = y.static /\ z.index = y.index
    /\ z.initial = y.initial /\ z.write = y.write /\ z.pending = y.pending

\* Other keys in place of the keys.
LEMMA RecordKeys ==
    \A y \in PaddedStates, k \in Seq(Places) :
       LET z == [y EXCEPT !.keys = k] IN
       /\ z \in PaddedStates /\ z.keys = k
       /\ z.valid = y.valid /\ z.open = y.open /\ z.static = y.static /\ z.index = y.index
       /\ z.initial = y.initial /\ z.write = y.write /\ z.pending = y.pending
  BY DEF PaddedStates

\* After a capture, complete or not, all is as it was, but for places not yet written.
LEMMA CaptureIs ==
    ASSUME NEW y \in PaddedStates, y.static => y.index = y.write, NEW n \in Nat
    PROVE  Captured(y, AfterCapture(y, n))
<1> DEFINE V == {z \in PaddedStates : Kept(y, z)}
           next(z) == Updated(z, Scratch)
           step == [i \in 1 .. n |-> [z \in V |-> next(z)]]
<1>1. Scratch \in Places
  BY Zenon DEF Places
<1>2. \A z \in V : next(z) \in V
  <2> TAKE z \in V
  <2>1. Kept(y, next(z))
    BY <1>1, KeptOn, Zenon
  <2> QED BY <2>1, Zenon DEF Kept
<1>3. y \in V
  <2>1. PlaceOf(y) \in Nat /\ y.write < PlaceOf(y)
    <3>1. y.index \in Nat /\ y.write \in Nat /\ y.static \in BOOLEAN
      BY PaddedTypes, Zenon
    <3> QED BY <3>1 DEF PlaceOf
  <2> QED BY <2>1, Zenon DEF Kept
<1> HIDE DEF next
<1>4. PICK g : Steps(g, n, V, y, step)
  <2>1. step \in [1 .. n -> [V -> V]]
    <3> HIDE DEF V
    <3> QED BY <1>2, Zenon
  <2> HIDE DEF step, V
  <2> QED BY <1>3, <2>1, StepsExist
<1>5. /\ g \in [0 .. n -> V] /\ g[0] = y
      /\ \A i \in 1 .. n : g[i] = step[i][g[i - 1]]
  BY <1>4, Zenon DEF Steps
<1> HIDE DEF V
<1>6. \A i \in 1 .. n : i - 1 \in 0 .. n /\ i \in 0 .. n /\ i # 0
  OBVIOUS
<1>7. \A i \in 1 .. n : g[i] = next(g[i - 1])
  <2> TAKE i \in 1 .. n
  <2>1. g[i - 1] \in V
    BY <1>5, <1>6, Zenon
  <2>2. step[i][g[i - 1]] = next(g[i - 1])
    BY <2>1, Zenon
  <2> HIDE DEF step
  <2> QED BY <1>5, <2>2, Zenon
<1> HIDE DEF step
<1> DEFINE Rec(h) == h = [i \in 0 .. n |-> IF i = 0 THEN y ELSE next(h[i - 1])]
           fl == CHOOSE h : Rec(h)
<1>8. Rec(g)
  <2>1. \A i \in 0 .. n : g[i] = IF i = 0 THEN y ELSE next(g[i - 1])
    <3>1. \A i \in 0 .. n : i = 0 \/ i \in 1 .. n
      OBVIOUS
    <3> QED BY <1>5, <1>6, <1>7, <3>1, Zenon
  <2>2. g = [i \in 0 .. n |-> g[i]]
    BY <1>5, Zenon
  <2> QED BY <2>1, <2>2, Zenon
<1>9. Rec(fl)
  <2> HIDE DEF Rec
  <2> QED BY <1>8
<1>10. AfterCapture(y, n) = Restored(fl[n], y)
  BY Zenon DEF AfterCapture, next
<1> HIDE DEF fl
<1>11. fl[0] = y /\ \A i \in 1 .. n : fl[i] = next(fl[i - 1])
  <2>1. 0 \in 0 .. n
    OBVIOUS
  <2>2. \A i \in 0 .. n : fl[i] = IF i = 0 THEN y ELSE next(fl[i - 1])
    BY <1>9, Zenon
  <2> QED BY <1>6, <2>1, <2>2, Zenon
<1> HIDE DEF Rec
<1> DEFINE G == {i \in 0 .. n : fl[i] \in V}
<1>12. 0 .. n \subseteq G
  <2>1. 0 \in G
    <3>1. 0 \in 0 .. n
      OBVIOUS
    <3> QED BY <1>3, <1>11, <3>1, Zenon
  <2>2. ASSUME NEW k \in 1 .. n, k - 1 \in G PROVE k \in G
    BY <1>2, <1>6, <1>11, <2>2, Zenon
  <2> HIDE DEF G
  <2> QED BY <2>1, <2>2, UpTo
<1> DEFINE e == fl[n]  z == [y EXCEPT !.keys = e.keys]
<1>13. e \in PaddedStates /\ Kept(y, e)
  <2>1. n \in 0 .. n
    OBVIOUS
  <2> QED BY <1>12, <2>1, Zenon DEF V
<1>14. AfterCapture(y, n) = z
  BY <1>10, Zenon DEF Restored
<1> HIDE DEF e
<1>15. e.keys \in Seq(Places)
  BY <1>13, PaddedTypes, Zenon
<1>16. /\ z \in PaddedStates /\ z.keys = e.keys
       /\ z.valid = y.valid /\ z.open = y.open /\ z.static = y.static /\ z.index = y.index
       /\ z.initial = y.initial /\ z.write = y.write /\ z.pending = y.pending
  BY <1>15, RecordKeys, Zenon
<1> HIDE DEF z
<1> QED BY <1>13, <1>14, <1>16, Zenon DEF Captured, Kept

-----------------------------------------------------------------------------
(***************************************************************************)
(* A decode of a group.                                                    *)
(***************************************************************************)

\* The key of a token.
LEMMA TokenIsPlace ==
    ASSUME NEW p \in Nat
    PROVE  Token(p) \in Keys /\ Token(p) \in Places
<1>1. Token(p) \in Keys
  BY DEF Token, Keys
<1> QED BY <1>1, Zenon DEF Places

\* One item more.
LEMMA AppendIs ==
    ASSUME NEW S, NEW s \in Seq(S), NEW e \in S
    PROVE  /\ Append(s, e) \in Seq(S) /\ Len(Append(s, e)) = Len(s) + 1 /\ Len(s) \in Nat
           /\ Append(s, e)[Len(s) + 1] = e
           /\ \A i \in 1 .. Len(s) : Append(s, e)[i] = s[i]
  OBVIOUS

\* A decode puts the token where the next is expected, and nowhere else.
LEMMA HoldsStep ==
    \A y, row, toks, p :
        /\ Holds(y, row, toks) /\ HasRoom(y) /\ toks \in Seq(Nat) /\ p \in Nat
        /\ Readout(row) \in Seq(Keys) /\ Len(row.pend) \in Nat
        => Holds(Updated(y, Token(p)), row, Append(toks, p))
<1> SUFFICES ASSUME NEW y, NEW row, NEW toks \in Seq(Nat), NEW p \in Nat,
                    Holds(y, row, toks), HasRoom(y), Readout(row) \in Seq(Keys),
                    Len(row.pend) \in Nat
             PROVE  Holds(Updated(y, Token(p)), row, Append(toks, p))
  BY Zenon
<1> DEFINE z == Updated(y, Token(p))  new == Append(toks, p)  at == PlaceOf(y)
           r == Readout(row)  n == Len(r)  k == Len(toks)  a == y.initial  w == y.write
           size == Len(y.keys)  q == y.pending  t == Len(row.pend)  x == y.index
<1>1. /\ y \in PaddedStates /\ n <= a /\ w = a + k /\ w <= size
      /\ (y.static => x = w) /\ q = t + k /\ q <= RouteChunk
      /\ \A i \in 1 .. n : y.keys[i] = r[i]
      /\ \A i \in 1 .. k : y.keys[a + i] = Token(toks[i])
  BY Zenon DEF Holds
<1>2. w < size /\ q < RouteChunk
  BY Zenon DEF HasRoom
<1>3. Wrote(y, z, Token(p))
  BY <1>1, TokenIsPlace, UpdatedIs, Zenon
<1> HIDE DEF z
<1>4. /\ z \in PaddedStates /\ z.keys = [y.keys EXCEPT ![at] = Token(p)]
      /\ z.static = y.static /\ z.initial = a /\ z.index = (IF y.static THEN x + 1 ELSE x)
      /\ z.write = w + 1 /\ z.pending = q + 1
  BY <1>3, Zenon DEF Wrote
<1>5. /\ y.keys \in Seq(Places) /\ a \in Nat /\ w \in Nat /\ x \in Nat /\ q \in Nat
      /\ y.static \in BOOLEAN
  BY <1>1, PaddedTypes, Zenon
<1>6. n \in Nat /\ k \in Nat /\ size \in Nat /\ RouteChunk \in Nat
  BY <1>5, ConstantTypes
<1>7. /\ new \in Seq(Nat) /\ Len(new) = k + 1 /\ new[k + 1] = p
      /\ \A i \in 1 .. k : new[i] = toks[i]
  BY AppendIs
<1>8. at = w + 1
  <2>1. CASE y.static
    <3>1. at = 1 + x /\ x = w
      BY <1>1, <2>1, Zenon DEF PlaceOf
    <3> HIDE DEF at, x, w
    <3> QED BY <1>5, <3>1
  <2>2. CASE ~y.static
    <3>1. at = 1 + w
      BY <2>2, Zenon DEF PlaceOf
    <3> HIDE DEF at, w
    <3> QED BY <1>5, <3>1
  <2> QED BY <2>1, <2>2, Zenon
<1>9. Len(z.keys) = size /\ \A i \in 1 .. size : z.keys[i] = IF i = at THEN Token(p) ELSE y.keys[i]
  <2> DEFINE s == y.keys  e == [s EXCEPT ![at] = Token(p)]
  <2>1. s \in Seq(Places) /\ Len(s) = size /\ z.keys = e
    BY <1>4, <1>5, Zenon
  <2> HIDE DEF at, s, size
  <2>2. e \in Seq(Places) /\ Len(e) = Len(s)
        /\ \A i \in 1 .. Len(s) : e[i] = IF i = at THEN Token(p) ELSE s[i]
    BY <2>1, TokenIsPlace, PutAt
  <2> HIDE DEF e
  <2> QED BY <2>1, <2>2, Zenon DEF s
<1>10. z.static => z.index = z.write
  BY <1>1, <1>4, Zenon
<1> HIDE DEF at, n, k, a, w, size, q, t, x, r, new
<1>11. \A i \in 1 .. n : i \in 1 .. size /\ i # at
  BY <1>1, <1>5, <1>6, <1>8
<1>12. \A i \in 1 .. k : a + i \in 1 .. size /\ a + i # at
  BY <1>1, <1>5, <1>6, <1>8
<1>13. \A i \in 1 .. n : z.keys[i] = r[i]
  BY <1>1, <1>9, <1>11, Zenon
<1>14. \A i \in 1 .. k + 1 : z.keys[a + i] = Token(new[i])
  <2>1. \A i \in 1 .. k : z.keys[a + i] = Token(new[i])
    BY <1>1, <1>7, <1>9, <1>12, Zenon
  <2>2. a + (k + 1) = at /\ at \in 1 .. size
    BY <1>1, <1>2, <1>5, <1>6, <1>8
  <2>3. z.keys[a + (k + 1)] = Token(new[k + 1])
    BY <1>7, <1>9, <2>2, Zenon
  <2>4. \A i \in 1 .. k + 1 : i \in 1 .. k \/ i = k + 1
    BY <1>6
  <2> QED BY <2>1, <2>3, <2>4, Zenon
<1>15. w + 1 = a + (k + 1) /\ w + 1 <= size /\ q + 1 <= RouteChunk
  BY <1>1, <1>2, <1>5, <1>6
<1>16. q + 1 = t + (k + 1)
  <2>1. t \in Nat
    BY DEF t
  <2> QED BY <1>1, <1>6, <2>1
<1> QED BY <1>1, <1>4, <1>7, <1>9, <1>10, <1>13, <1>14, <1>15, <1>16, Zenon
        DEF Holds, z, n, k, a, w, size, q, t, x, r, new

\* A decode of the group shows its token, and nothing else.
LEMMA ShowsStep ==
    \A y, row, toks, n, kv :
        Holds(y, row, toks) /\ HasRoom(y) /\ Shows(y, n) /\ kv \in Places /\ Len(toks) \in Nat
        => Shows(Updated(y, kv), n)
<1> SUFFICES ASSUME NEW y, NEW row, NEW toks, NEW n, NEW kv \in Places,
                    Holds(y, row, toks), HasRoom(y), Shows(y, n), Len(toks) \in Nat
             PROVE  Shows(Updated(y, kv), n)
  BY Zenon
<1> DEFINE z == Updated(y, kv)  at == PlaceOf(y)
           old == IF y.static THEN y.open ELSE y.valid
           new == IF z.static THEN z.open ELSE z.valid
           size == Len(y.keys)  w == y.write  x == y.index  a == y.initial
<1>1. /\ y \in PaddedStates /\ (y.static => x = w) /\ w < size /\ w = a + Len(toks)
  BY Zenon DEF Holds, HasRoom
<1>2. Len(old) = size /\ \A i \in 1 .. Len(old) : old[i] <=> i <= n \/ (a < i /\ i <= w)
  BY Zenon DEF Shows
<1>3. Wrote(y, z, kv)
  BY <1>1, UpdatedIs, Zenon
<1>4. /\ y.keys \in Seq(Places) /\ a \in Nat /\ w \in Nat /\ x \in Nat
      /\ y.static \in BOOLEAN /\ y.valid \in Seq(BOOLEAN) /\ y.open \in Seq(BOOLEAN)
  BY <1>1, PaddedTypes, Zenon
<1>5. size \in Nat /\ old \in Seq(BOOLEAN)
  BY <1>4
<1> HIDE DEF z
<1>6. /\ z.keys = [y.keys EXCEPT ![at] = kv] /\ z.static = y.static /\ z.initial = a
      /\ z.write = w + 1
      /\ z.valid = [y.valid EXCEPT ![at] = y.valid[at] \/ ~y.static]
      /\ z.open = IF y.open = << >> THEN y.open ELSE [y.open EXCEPT ![at] = TRUE]
  BY <1>3, Zenon DEF Wrote
<1>7. at = w + 1
  <2>1. CASE y.static
    <3>1. at = 1 + x /\ x = w
      BY <1>1, <2>1, Zenon DEF PlaceOf
    <3> HIDE DEF at, x, w
    <3> QED BY <1>4, <3>1
  <2>2. CASE ~y.static
    <3>1. at = 1 + w
      BY <2>2, Zenon DEF PlaceOf
    <3> HIDE DEF at, w
    <3> QED BY <1>4, <3>1
  <2> QED BY <2>1, <2>2, Zenon
<1>8. new = [old EXCEPT ![at] = TRUE]
  <2>1. CASE y.static
    <3>1. old # << >> /\ old = y.open
      <4>1. old = y.open
        BY <2>1, Zenon
      <4> HIDE DEF old
      <4>2. Len(old) # 0
        <5> HIDE DEF size, w
        <5> QED BY <1>1, <1>2, <1>4, <1>5
      <4> QED BY <4>1, <4>2
    <3>2. new = z.open
      BY <1>6, <2>1, Zenon
    <3> HIDE DEF old, new
    <3> QED BY <1>6, <3>1, <3>2, Zenon
  <2>2. CASE ~y.static
    <3>1. new = z.valid /\ old = y.valid
      BY <1>6, <2>2, Zenon
    <3>2. (y.valid[at] \/ ~y.static) = TRUE
      BY <2>2, Zenon
    <3> HIDE DEF old, new
    <3> QED BY <1>6, <3>1, <3>2, Zenon
  <2> QED BY <1>4, <2>1, <2>2, Zenon
<1> HIDE DEF at, old, new, size, w, x, a
<1>9. Len(new) = size /\ \A i \in 1 .. size : new[i] = IF i = at THEN TRUE ELSE old[i]
  <2> DEFINE e == [old EXCEPT ![at] = TRUE]  B == BOOLEAN
  <2>1. TRUE \in B /\ old \in Seq(B)
    BY <1>5, Zenon
  <2> HIDE DEF B
  <2>2. Len(e) = Len(old) /\ \A i \in 1 .. Len(old) : e[i] = IF i = at THEN TRUE ELSE old[i]
    BY <2>1, PutAt, SMTT(20)
  <2> HIDE DEF e
  <2> QED BY <1>2, <1>8, <2>2, Zenon DEF e
<1>10. Len(z.keys) = size
  <2> DEFINE s == y.keys  e == [s EXCEPT ![at] = kv]
  <2>1. s \in Seq(Places) /\ Len(s) = size /\ z.keys = e
    BY <1>4, <1>6, Zenon DEF size
  <2> HIDE DEF s
  <2>2. Len(e) = Len(s)
    BY <2>1, PutAt
  <2> QED BY <2>1, <2>2, Zenon
<1>11. \A i \in 1 .. size : new[i] <=> i <= n \/ (a < i /\ i <= w + 1)
  <2> TAKE i \in 1 .. size
  <2>1. CASE i = at
    <3>1. a < i /\ i <= w + 1
      BY <1>1, <1>4, <1>7, <2>1
    <3>2. new[i]
      BY <1>9, <2>1, Zenon
    <3> QED BY <3>1, <3>2, Zenon
  <2>2. CASE i # at
    <3>1. i <= w + 1 <=> i <= w
      BY <1>4, <1>5, <1>7, <2>2
    <3>2. new[i] = old[i]
      BY <1>9, <2>2, Zenon
    <3>3. old[i] <=> i <= n \/ (a < i /\ i <= w)
      BY <1>2, Zenon
    <3> QED BY <3>1, <3>2, <3>3, Zenon
  <2> QED BY <2>1, <2>2, Zenon
<1> QED BY <1>6, <1>9, <1>10, <1>11, ZenonT(40) DEF Shows, z, new

-----------------------------------------------------------------------------
(***************************************************************************)
(* What a group shows and commits.                                         *)
(***************************************************************************)

\* What is committed are the tokens.
LEMMA NewTokensAre ==
    \A y, row, toks : Holds(y, row, toks) /\ toks \in Seq(Nat) => NewTokens(y) = Tokens(toks)
<1> SUFFICES ASSUME NEW y, NEW row, NEW toks \in Seq(Nat), Holds(y, row, toks)
             PROVE  NewTokens(y) = Tokens(toks)
  BY Zenon
<1> DEFINE k == Len(toks)  a == y.initial  w == y.write  s == y.keys  size == Len(s)
           t == SubSeq(s, a + 1, w)  u == Tokens(toks)
<1>1. /\ y \in PaddedStates /\ w = a + k /\ w <= size
      /\ \A i \in 1 .. k : s[a + i] = Token(toks[i])
  BY Zenon DEF Holds
<1>2. s \in Seq(Places) /\ a \in Nat /\ w \in Nat
  BY <1>1, PaddedTypes, Zenon
<1>3. /\ Len(u) = k /\ k \in Nat /\ u \in Seq(Keys)
      /\ \A i \in 1 .. k : u[i] = Token(toks[i])
  BY TokensAre, Zenon
<1> HIDE DEF s, a, w, k, u
<1>4. t \in Seq(Places) /\ Len(t) = k /\ \A i \in 1 .. k : t[i] = s[a + i]
  <2> DEFINE P == Places
  <2> HIDE DEF P
  <2>1. s \in Seq(P)
    BY <1>2, Zenon DEF P
  <2>2. t \in Seq(P) /\ Len(t) = k /\ \A i \in 1 .. k : t[i] = s[a + i]
    BY <1>1, <1>2, <1>3, <2>1
  <2> QED BY <2>2, Zenon DEF P
<1> HIDE DEF t
<1>5. u \in Seq(Places)
  <2> DEFINE P == Places  K == Keys
  <2>1. K \subseteq P
    BY Zenon DEF Places
  <2> HIDE DEF K, P
  <2>2. u \in Seq(K)
    BY <1>3, Zenon DEF K
  <2>3. u \in Seq(P)
    BY <2>1, <2>2
  <2> QED BY <2>3, Zenon DEF P
<1>6. Len(t) = Len(u) /\ \A i \in 1 .. Len(t) : t[i] = u[i]
  BY <1>1, <1>3, <1>4, Zenon
<1>7. t = u
  BY <1>4, <1>5, <1>6, SameItems, Zenon
<1> QED BY <1>7, Zenon DEF NewTokens, t, u, s, a, w

\* The places that a mask shows.
Shown(n, a, w) == {i \in 1 .. w : i <= n \/ a < i}

\* The places the mask shows after a decode: the readout and the tokens.
LEMMA VisibleAre ==
    \A first, row, toks :
        /\ Holds(first, row, toks) /\ toks \in Seq(Nat) /\ toks # << >>
        /\ Shows(first, Len(Readout(row))) /\ Len(Readout(row)) \in Nat
        => LET mask == VisibleAfter(first)
           IN  {i \in DOMAIN mask : mask[i]}
                 = Shown(Len(Readout(row)), first.initial, first.write)
<1> SUFFICES ASSUME NEW first, NEW row, NEW toks \in Seq(Nat), toks # << >>,
                    Holds(first, row, toks), Shows(first, Len(Readout(row))),
                    Len(Readout(row)) \in Nat
             PROVE  LET mask == VisibleAfter(first)
                    IN  {i \in DOMAIN mask : mask[i]}
                          = Shown(Len(Readout(row)), first.initial, first.write)
  BY Zenon
<1> DEFINE mask == VisibleAfter(first)  n == Len(Readout(row))
           a == first.initial  w == first.write  size == Len(first.keys)  k == Len(toks)
           base == IF first.static THEN first.open ELSE first.valid
<1>1. /\ first \in PaddedStates /\ w = a + k /\ w <= size /\ n <= a
      /\ Len(base) = size
      /\ \A i \in 1 .. Len(base) : base[i] <=> i <= n \/ (a < i /\ i <= w)
  BY Zenon DEF Holds, Shows
<1>2. /\ first.keys \in Seq(Places) /\ a \in Nat /\ w \in Nat /\ first.static \in BOOLEAN
      /\ first.valid \in Seq(BOOLEAN) /\ first.open \in Seq(BOOLEAN)
  BY <1>1, PaddedTypes, Zenon
<1>3. k \in Nat /\ k >= 1 /\ n \in Nat
  OBVIOUS
<1>4. base \in Seq(BOOLEAN) /\ size \in Nat
  BY <1>2
<1> HIDE DEF a, w, n, k, size
<1>5. CASE first.static
  <2>1. mask = base
    BY <1>5, Zenon DEF VisibleAfter
  <2> HIDE DEF base, mask
  <2>2. DOMAIN base = 1 .. size
    BY <1>1, <1>4
  <2>3. \A i : i \in 1 .. size /\ (i <= n \/ (a < i /\ i <= w))
                 <=> i \in 1 .. w /\ (i <= n \/ a < i)
    BY <1>1, <1>2, <1>3, <1>4
  <2>4. {i \in DOMAIN mask : mask[i]} = {i \in 1 .. w : i <= n \/ a < i}
    BY <1>1, <2>1, <2>2, <2>3, Zenon
  <2> QED BY <2>4, Zenon DEF Shown, mask, n, a, w
<1>6. CASE ~first.static
  <2> DEFINE v == first.valid  p == SubSeq(v, 1, w - 1)
  <2>1. mask = Append(p, TRUE) /\ base = v
    BY <1>6, Zenon DEF VisibleAfter, w
  <2>2. w >= 1 /\ w - 1 \in Nat /\ w - 1 <= size
    BY <1>1, <1>2, <1>3, <1>4
  <2>3. v \in Seq(BOOLEAN) /\ Len(v) = size
    BY <1>1, <1>2, <2>1, Zenon
  <2> HIDE DEF base, mask, v
  <2>4. w - 1 \in 0 .. Len(v) /\ TRUE \in BOOLEAN
    BY <2>2, <2>3
  <2>5. p \in Seq(BOOLEAN) /\ Len(p) = w - 1 /\ \A i \in 1 .. w - 1 : p[i] = v[i]
    <3> DEFINE B == BOOLEAN
    <3> HIDE DEF B
    <3>1. v \in Seq(B)
      BY <2>3, Zenon DEF B
    <3>2. p \in Seq(B) /\ Len(p) = w - 1 /\ \A i \in 1 .. w - 1 : p[i] = v[i]
      BY <2>4, <3>1, TakeFront, Zenon
    <3> QED BY <3>2, Zenon DEF B
  <2> HIDE DEF p
  <2>6. /\ Append(p, TRUE) \in Seq(BOOLEAN) /\ Len(Append(p, TRUE)) = Len(p) + 1
        /\ Append(p, TRUE)[Len(p) + 1] = TRUE
        /\ \A i \in 1 .. Len(p) : Append(p, TRUE)[i] = p[i]
    <3> DEFINE B == BOOLEAN  e == TRUE
    <3>1. p \in Seq(B) /\ e \in B
      BY <2>5, Zenon
    <3> HIDE DEF B, e
    <3>2. /\ Append(p, e) \in Seq(B) /\ Len(Append(p, e)) = Len(p) + 1
          /\ Append(p, e)[Len(p) + 1] = e
          /\ \A i \in 1 .. Len(p) : Append(p, e)[i] = p[i]
      BY <3>1, AppendIs
    <3> QED BY <3>2, Zenon DEF B, e
  <2>7. Len(p) + 1 = w
    BY <1>2, <2>2, <2>5
  <2>8. DOMAIN mask = 1 .. w
    <3>1. mask \in Seq(BOOLEAN) /\ Len(mask) = w
      BY <2>1, <2>6, <2>7, Zenon
    <3> QED BY <3>1
  <2>9. mask[w] /\ \A i \in 1 .. w - 1 : mask[i] = v[i]
    BY <2>1, <2>5, <2>6, <2>7, Zenon
  <2>10. \A i \in 1 .. w : /\ i = w \/ i \in 1 .. w - 1
                           /\ i \in 1 .. Len(v) /\ i <= w
    BY <1>1, <1>2, <1>4, <2>3
  <2>11. a < w
    BY <1>1, <1>2, <1>3
  <2>12. \A i \in 1 .. w : mask[i] <=> i <= n \/ a < i
    <3> TAKE i \in 1 .. w
    <3>1. CASE i = w
      BY <2>9, <2>11, <3>1, Zenon
    <3>2. CASE i \in 1 .. w - 1
      BY <1>1, <2>1, <2>9, <2>10, <3>2, Zenon
    <3> QED BY <2>10, <3>1, <3>2, Zenon
  <2>13. {i \in DOMAIN mask : mask[i]} = {i \in 1 .. w : i <= n \/ a < i}
    BY <2>8, <2>12, Zenon
  <2> QED BY <2>13, Zenon DEF Shown, mask, n, a, w
<1> QED BY <1>2, <1>5, <1>6, Zenon

\* In their order: the readout, and after it the tokens.
LEMMA ShownInOrder ==
    ASSUME NEW n \in Nat, NEW a \in Nat, NEW k \in Nat, n <= a
    PROVE  Ascending(Shown(n, a, a + k))
             = [i \in 1 .. n + k |-> IF i <= n THEN i ELSE a + (i - n)]
<1> DEFINE w == a + k  S == Shown(n, a, w)  m == n + k
           b == [i \in 1 .. m |-> IF i <= n THEN i ELSE a + (i - n)]
<1>1. m \in Nat /\ w \in Nat
  OBVIOUS
<1>2. S \subseteq 1 .. w /\ S \subseteq Int
  BY <1>1 DEF Shown
<1>3. IsFiniteSet(S)
  <2>1. IsFiniteSet(1 .. w)
    BY <1>1, FS_Interval
  <2> HIDE DEF S
  <2> QED BY <1>2, <2>1, FS_Subset
<1>4. b \in [1 .. m -> S]
  BY DEF Shown
<1>5. \A x \in S : \E i \in 1 .. m : b[i] = x
  <2> TAKE x \in S
  <2>1. x \in 1 .. w /\ (x <= n \/ a < x)
    BY DEF Shown
  <2>2. CASE x <= n
    <3>1. x \in 1 .. m /\ b[x] = x
      BY <2>1, <2>2
    <3> QED BY <3>1
  <2>3. CASE ~(x <= n)
    <3>1. n + (x - a) \in 1 .. m /\ b[n + (x - a)] = x
      BY <2>1, <2>3
    <3> QED BY <3>1
  <2> QED BY <2>2, <2>3
<1>6. \A i, j \in 1 .. m : i < j => b[i] < b[j]
  <2> TAKE i, j \in 1 .. m
  <2>1. b[i] = (IF i <= n THEN i ELSE a + (i - n)) /\ b[j] = IF j <= n THEN j ELSE a + (j - n)
    OBVIOUS
  <2> HIDE DEF b
  <2> QED BY <2>1
<1> HIDE DEF S, b, m
<1>7. Cardinality(S) = m /\ Ascending(S) = b
  BY <1>1, <1>2, <1>3, <1>4, <1>5, <1>6, AscendingUnique
<1> QED BY <1>7, Zenon DEF S, b, m, w

\* What a layer of a group attends to after a decode is the readout and the tokens.
LEMMA AttendedIs ==
    \A y, first, row, toks :
        /\ Holds(y, row, toks) /\ Holds(first, row, toks) /\ SameShape(y, first)
        /\ toks \in Seq(Nat) /\ toks # << >>
        /\ Shows(first, Len(Readout(row))) /\ Readout(row) \in Seq(Keys)
        => Attended(y, VisibleAfter(first)) = Readout(row) \o Tokens(toks)
<1> SUFFICES ASSUME NEW y, NEW first, NEW row, NEW toks \in Seq(Nat), toks # << >>,
                    Holds(y, row, toks), Holds(first, row, toks), SameShape(y, first),
                    Shows(first, Len(Readout(row))), Readout(row) \in Seq(Keys)
             PROVE  Attended(y, VisibleAfter(first)) = Readout(row) \o Tokens(toks)
  BY Zenon
<1> DEFINE mask == VisibleAfter(first)  r == Readout(row)  n == Len(r)  u == Tokens(toks)
           a == y.initial  w == y.write  k == Len(toks)  m == n + k  s == y.keys
           S == {i \in DOMAIN mask : mask[i]}
           b == [i \in 1 .. m |-> IF i <= n THEN i ELSE a + (i - n)]
<1>1. /\ y \in PaddedStates /\ w = a + k /\ n <= a
      /\ \A i \in 1 .. n : s[i] = r[i]
      /\ \A i \in 1 .. k : s[a + i] = Token(toks[i])
  BY Zenon DEF Holds
<1>2. first.initial = a /\ first.write = w
  BY <1>1, Zenon DEF Holds, SameShape
<1>3. a \in Nat /\ w \in Nat
  BY <1>1, PaddedTypes, Zenon
<1>4. n \in Nat /\ k \in Nat /\ r \in Seq(Keys)
  OBVIOUS
<1>5. S = Shown(n, a, w)
  <2>1. Len(Readout(row)) \in Nat
    BY <1>4
  <2>2. LET x == VisibleAfter(first)
        IN  {i \in DOMAIN x : x[i]} = Shown(Len(Readout(row)), first.initial, first.write)
    BY <2>1, VisibleAre, Zenon
  <2> QED BY <1>2, <2>2, Zenon
<1>6. u \in Seq(Keys) /\ Len(u) = k /\ \A i \in 1 .. k : u[i] = Token(toks[i])
  BY TokensAre, Zenon
<1> HIDE DEF r, n, k, a, w, s, u
<1>7. Ascending(S) = b
  <2> HIDE DEF S, b
  <2>1. Ascending(Shown(n, a, a + k)) = [i \in 1 .. n + k |-> IF i <= n THEN i ELSE a + (i - n)]
    BY <1>1, <1>3, <1>4, ShownInOrder, ZenonT(40)
  <2>2. w = a + k
    BY <1>1, Zenon
  <2> QED BY <1>5, <2>1, <2>2, Zenon DEF b
<1>8. Attended(y, mask) = [i \in DOMAIN Ascending(S) |-> s[Ascending(S)[i]]]
  BY Zenon DEF Attended, s
<1> HIDE DEF S, mask
<1>9. Attended(y, mask) = [i \in 1 .. m |-> s[b[i]]]
  <2>1. DOMAIN b = 1 .. m
    BY Zenon
  <2> HIDE DEF b, m
  <2> QED BY <1>7, <1>8, <2>1, Zenon
<1>10. /\ r \o u \in Seq(Keys) /\ Len(r \o u) = n + k
       /\ \A i \in 1 .. n : (r \o u)[i] = r[i]
       /\ \A i \in n + 1 .. n + k : (r \o u)[i] = u[i - n]
  <2>1. /\ r \o u \in Seq(Keys) /\ Len(r \o u) = Len(r) + Len(u)
        /\ \A i \in 1 .. Len(r) : (r \o u)[i] = r[i]
        /\ \A i \in Len(r) + 1 .. Len(r) + Len(u) : (r \o u)[i] = u[i - Len(r)]
    BY <1>4, <1>6, Joined, Zenon
  <2> QED BY <1>6, <2>1, Zenon DEF n
<1> DEFINE v == r \o u
<1> HIDE DEF v
<1>11. \A i \in 1 .. m : s[b[i]] = v[i]
  <2> TAKE i \in 1 .. m
  <2>1. CASE i <= n
    <3>1. b[i] = i /\ i \in 1 .. n
      BY <1>4, <2>1
    <3> HIDE DEF b
    <3> QED BY <1>1, <1>10, <3>1, Zenon DEF v
  <2>2. CASE ~(i <= n)
    <3>1. b[i] = a + (i - n) /\ i \in n + 1 .. n + k /\ i - n \in 1 .. k
      BY <1>4, <2>2
    <3>2. v[i] = u[i - n]
      BY <1>10, <3>1, Zenon DEF v
    <3>3. s[a + (i - n)] = u[i - n]
      BY <1>1, <1>6, <3>1, Zenon
    <3> HIDE DEF b
    <3> QED BY <3>1, <3>2, <3>3, Zenon
  <2> QED BY <2>1, <2>2, Zenon
<1>12. v = [i \in 1 .. m |-> v[i]]
  <2> DEFINE K == Keys
  <2> HIDE DEF K, m
  <2>1. v \in Seq(K) /\ Len(v) = m
    BY <1>10, Zenon DEF v, K, m
  <2> QED BY <2>1
<1> HIDE DEF b, m
<1>13. Attended(y, mask) = v
  BY <1>9, <1>11, <1>12, Zenon
<1> QED BY <1>13, Zenon DEF v, r, u, mask

-----------------------------------------------------------------------------
(***************************************************************************)
(* A copy of a readout.                                                    *)
(***************************************************************************)

\* z has room after past places, and the readout of row before.
Fresh(z, row, past, room) ==
    /\ Holds(z, row, << >>) /\ Shows(z, Len(Readout(row)))
    /\ z.initial = past /\ Len(z.keys) = past + room /\ z.index = z.write

\* A copy of a readout, padded, with room for more.
LEMMA StackedIs ==
    \A row, past, room :
        /\ AtRest(row) /\ past \in Nat /\ room \in Nat /\ Len(Readout(row)) <= past
        => LET z == Stacked(Readout(row), past, room, Len(row.pend))
           IN  Fresh(z, row, past, room) /\ z.static = FALSE
<1> SUFFICES ASSUME NEW row, AtRest(row), NEW past \in Nat, NEW room \in Nat,
                    Len(Readout(row)) <= past
             PROVE  LET z == Stacked(Readout(row), past, room, Len(row.pend))
                    IN  Fresh(z, row, past, room) /\ z.static = FALSE
  BY Zenon
<1> DEFINE r == Readout(row)  n == Len(r)  size == past + room  q == Len(row.pend)
           z == Stacked(r, past, room, q)
           pad == [i \in 1 .. past + room - n |-> Blank]  k == r \o pad
           v == [i \in 1 .. size |-> i <= n]
<1>1. r \in Seq(Keys) /\ q \in Nat /\ q <= RouteChunk
  <2>1. Sound(row) /\ q < RouteChunk
    BY Zenon DEF AtRest
  <2>2. r \in Seq(Keys) /\ row.pend \in Seq(Nat)
    BY <2>1, ReadoutIs, LayerTypes, Zenon DEF Sound
  <2>3. q \in Nat /\ RouteChunk \in Nat
    BY <2>2, ConstantTypes
  <2> HIDE DEF q, r
  <2> QED BY <2>1, <2>2, <2>3
<1>2. n \in Nat /\ n <= past /\ size \in Nat /\ size - n \in Nat
  <2>1. n \in Nat /\ n <= past
    BY <1>1
  <2> HIDE DEF n
  <2> QED BY <2>1
<1>a. past + room - n = size - n
  BY <1>2
<1>3. z = [keys |-> k, valid |-> v, open |-> << >>, static |-> FALSE, index |-> past,
           initial |-> past, write |-> past, pending |-> q]
  BY Zenon DEF Stacked
<1> HIDE DEF z, r, n, q
<1>4. pad \in Seq(Places) /\ Len(pad) = size - n
  <2> DEFINE P == Places
  <2>1. Blank \in P
    BY Zenon DEF Places
  <2> HIDE DEF P, size
  <2>2. pad \in Seq(P) /\ Len(pad) = size - n
    <3> DEFINE d == past + room - n
    <3>1. d \in Nat /\ d = size - n
      BY <1>2, <1>a
    <3> HIDE DEF d
    <3>2. [i \in 1 .. d |-> Blank] \in Seq(P) /\ Len([i \in 1 .. d |-> Blank]) = d
      BY <2>1, <3>1
    <3> QED BY <3>1, <3>2, Zenon DEF d
  <2> QED BY <2>2, Zenon DEF P
<1> HIDE DEF pad
<1>5. r \in Seq(Places)
  <2> DEFINE P == Places  K == Keys
  <2>1. K \subseteq P
    BY Zenon DEF Places
  <2> HIDE DEF K, P
  <2>2. r \in Seq(K)
    BY <1>1, Zenon DEF K
  <2>3. r \in Seq(P)
    BY <2>1, <2>2
  <2> QED BY <2>3, Zenon DEF P
<1>6. k \in Seq(Places) /\ Len(k) = size /\ \A i \in 1 .. n : k[i] = r[i]
  <2>1. /\ k \in Seq(Places) /\ Len(k) = Len(r) + Len(pad)
        /\ \A i \in 1 .. Len(r) : k[i] = r[i]
    BY <1>4, <1>5, Joined, Zenon
  <2>2. Len(r) = n
    BY Zenon DEF n
  <2>3. n + (size - n) = size
    BY <1>2
  <2> QED BY <1>4, <2>1, <2>2, <2>3, Zenon
<1>7. v \in Seq(BOOLEAN) /\ Len(v) = size /\ \A i \in 1 .. size : v[i] <=> i <= n
  <2> HIDE DEF size
  <2>1. v \in [1 .. size -> BOOLEAN] /\ \A i \in 1 .. size : v[i] <=> i <= n
    <3>1. \A i \in 1 .. size : (i <= n) \in BOOLEAN
      BY <1>2
    <3>2. v \in [1 .. size -> BOOLEAN]
      BY <3>1, Zenon
    <3>3. \A i \in 1 .. size : v[i] = (i <= n)
      BY Zenon
    <3> QED BY <3>2, <3>3, Zenon
  <2> HIDE DEF v
  <2> DEFINE B == BOOLEAN
  <2> HIDE DEF B
  <2>2. v \in [1 .. size -> B]
    BY <2>1 DEF B
  <2>3. v \in Seq(B) /\ Len(v) = size
    BY <1>2, <2>2
  <2> QED BY <2>1, <2>3, Zenon DEF B
<1> HIDE DEF k, v
<1>8. /\ z.keys = k /\ z.valid = v /\ z.open = << >> /\ z.static = FALSE /\ z.index = past
      /\ z.initial = past /\ z.write = past /\ z.pending = q
  BY <1>3
<1>9. z \in PaddedStates
  <2> DEFINE P == Places  B == Seq(BOOLEAN)  D == BOOLEAN
  <2>1. k \in Seq(P) /\ v \in B /\ << >> \in B /\ FALSE \in D
    <3>1. << >> \in Seq(BOOLEAN)
      OBVIOUS
    <3> QED BY <1>6, <1>7, <3>1, Zenon
  <2> HIDE DEF P, B, D
  <2>2. z \in [keys : Seq(P), valid : B, open : B,
               static : D, index : Nat, initial : Nat, write : Nat, pending : Nat]
    BY <1>1, <1>3, <2>1
  <2> QED BY <2>2, Zenon DEF PaddedStates, P, B, D
<1>10. Holds(z, row, << >>)
  <2>1. /\ Len(<< >>) = 0 /\ past = past + 0 /\ past <= size /\ q = q + 0
        /\ \A i : i \notin 1 .. 0
    BY <1>1
  <2> HIDE DEF size
  <2> QED BY <1>1, <1>2, <1>6, <1>8, <1>9, <2>1, Zenon DEF Holds, r, n, q
<1>11. Shows(z, n)
  <2>1. \A i \in 1 .. size : ~(past < i /\ i <= past)
    BY <1>2
  <2> HIDE DEF size
  <2> QED BY <1>6, <1>7, <1>8, <2>1, Zenon DEF Shows
<1> QED BY <1>6, <1>8, <1>10, <1>11, Zenon DEF Fresh, z, r, n, q

\* An index and a mask on the device say what the layers say.
Masked(z, o) == [z EXCEPT !.static = TRUE, !.open = o]
MaskedFrom(z, row, past, room, o, x) ==
    /\ Holds(x, row, << >>) /\ x.static = TRUE /\ x.initial = past
    /\ Len(x.keys) = past + room /\ x.index = x.write
    /\ o = z.valid => Fresh(x, row, past, room)

\* A copy with a mask of its own, or none, is still one.
LEMMA MaskedIs ==
    \A z, row, past, room, o :
        /\ Fresh(z, row, past, room) /\ z.static = FALSE /\ o \in {z.valid, << >>}
        => MaskedFrom(z, row, past, room, o, Masked(z, o))
<1> SUFFICES ASSUME NEW z, NEW row, NEW past, NEW room, NEW o, o \in {z.valid, << >>},
                    Fresh(z, row, past, room), z.static = FALSE
             PROVE  MaskedFrom(z, row, past, room, o, Masked(z, o))
  BY Zenon
<1> DEFINE x == [z EXCEPT !.static = TRUE, !.open = o]
<1>1. /\ Holds(z, row, << >>) /\ Shows(z, Len(Readout(row))) /\ z.initial = past
      /\ Len(z.keys) = past + room /\ z \in PaddedStates /\ z.index = z.write
  BY Zenon DEF Fresh, Holds
<1>2. o \in Seq(BOOLEAN)
  <2>1. << >> \in Seq(BOOLEAN)
    OBVIOUS
  <2> QED BY <1>1, <2>1, PaddedTypes, Zenon
<1>3. /\ x \in PaddedStates /\ x.keys = z.keys /\ x.valid = z.valid /\ x.open = o
      /\ x.static = TRUE /\ x.index = z.index /\ x.initial = z.initial /\ x.write = z.write
      /\ x.pending = z.pending
  <2> DEFINE P == Places  B == Seq(BOOLEAN)
  <2> HIDE DEF P, B
  <2>1. z \in [keys : Seq(P), valid : B, open : B, static : BOOLEAN, index : Nat,
               initial : Nat, write : Nat, pending : Nat] /\ o \in B
    BY <1>1, <1>2, Zenon DEF PaddedStates, P, B
  <2>2. /\ x \in [keys : Seq(P), valid : B, open : B, static : BOOLEAN, index : Nat,
                  initial : Nat, write : Nat, pending : Nat]
        /\ x.keys = z.keys /\ x.valid = z.valid /\ x.open = o
        /\ x.static = TRUE /\ x.index = z.index /\ x.initial = z.initial /\ x.write = z.write
        /\ x.pending = z.pending
    BY <2>1
  <2> QED BY <2>2, Zenon DEF PaddedStates, P, B
<1> HIDE DEF x
<1>4. Holds(x, row, << >>)
  BY <1>1, <1>3, Zenon DEF Holds
<1>5. ASSUME o = z.valid PROVE Fresh(x, row, past, room)
  <2>1. Shows(x, Len(Readout(row)))
    <3>1. (IF z.static THEN z.open ELSE z.valid) = z.valid
      BY Zenon
    <3>2. (IF x.static THEN x.open ELSE x.valid) = z.valid
      BY <1>3, <1>5, Zenon
    <3> QED BY <1>1, <1>3, <3>1, <3>2, Zenon DEF Shows
  <2> QED BY <1>1, <1>3, <1>4, <2>1, Zenon DEF Fresh
<1>6. MaskedFrom(z, row, past, room, o, x)
  BY <1>1, <1>3, <1>4, <1>5, Zenon DEF MaskedFrom
<1> QED BY <1>6, Zenon DEF x, Masked

-----------------------------------------------------------------------------
(***************************************************************************)
(* The steps that start, use and end a group, and those between forwards.  *)
(***************************************************************************)

\* What RoutedInv says between forwards.
LEMMA WhenQuiet ==
    ASSUME RoutedInv, forward = Idle
    PROVE  /\ DOMAIN layer = Layers /\ 1 \in Layers /\ NumLayers \in Layers
           /\ \A l \in Layers : AtRest(layer[l]) /\ layer[l] = layer[1]
           /\ AtRest(layer[1]) /\ ops = << >>
           /\ \A s \in Slots : leader.feats[s] = Len(layer[1].spans[s])
           /\ Covers(group, layer[1], 0) /\ Grouped(group, forward, layer)
<1>1. 1 \in Layers /\ NumLayers \in Layers
  BY ConstantTypes DEF Layers
<1> QED BY <1>1, Zenon DEF RoutedInv, Quiescent

\* A step between forwards that leaves all layers equal and at rest.
LEMMA QuietKeeps ==
    ASSUME RoutedInv, forward = Idle, UNCHANGED <<leader, ops, forward>>,
           NEW e, AtRest(e), e.spans = layer[1].spans,
           DOMAIN layer' = Layers, \A l \in Layers : layer'[l] = e,
           Grouped(group', forward', layer'), Covers(group', e, 0)
    PROVE  RoutedInv'
<1>1. ops = << >> /\ \A s \in Slots : leader.feats[s] = Len(layer[1].spans[s])
  BY WhenQuiet, Zenon
<1>2. 1 \in Layers
  BY WhenQuiet, Zenon
<1>3. DOMAIN layer' = Layers /\ \A l \in Layers : layer'[l] = e
  BY Zenon
<1> DEFINE f == forward'  new == layer'  log == ops'  feats == leader'.feats  g == group'
<1>4. Quiescent(new, log, feats, g)
  <2>1. new[1] = e /\ \A l \in Layers : new[l] = e
    BY <1>2, <1>3, Zenon
  <2>2. log = << >> /\ \A s \in Slots : feats[s] = Len(e.spans[s])
    BY <1>1, Zenon
  <2> HIDE DEF new, log, feats, g
  <2>3. Covers(g, new[1], 0)
    BY <2>1, Zenon DEF g
  <2> QED BY <2>1, <2>2, <2>3, Zenon DEF Quiescent
<1>5. f = Idle
  BY Zenon
<1> QED BY <1>3, <1>4, <1>5, Zenon DEF RoutedInv

\* A padded layer depends on the readout of the row and the length of its tail.
LEMMA SameHolds ==
    \A y, row, new, toks :
        SameState(row, new) /\ Holds(y, row, toks) => Holds(y, new, toks)
<1> SUFFICES ASSUME NEW y, NEW row, NEW new, NEW toks, SameState(row, new), Holds(y, row, toks)
             PROVE  Holds(y, new, toks)
  BY Zenon
<1>1. Readout(new) = Readout(row)
  BY SameReadout, Zenon
<1>2. new.pend = row.pend
  BY Zenon DEF SameState
<1> QED BY <1>1, <1>2, Zenon DEF Holds

\* A capture leaves the readout where it is,
LEMMA CapturedHolds ==
    \A y, z, row : Captured(y, z) /\ Holds(y, row, << >>) /\ Len(Readout(row)) \in Nat
                    => Holds(z, row, << >>)
<1> SUFFICES ASSUME NEW y, NEW z, NEW row, Captured(y, z), Holds(y, row, << >>),
                    Len(Readout(row)) \in Nat
             PROVE  Holds(z, row, << >>)
  BY Zenon
<1> DEFINE r == Readout(row)  n == Len(r)  a == y.initial  w == y.write  size == Len(y.keys)
<1>1. /\ y \in PaddedStates /\ n <= a /\ w = a + Len(<< >>) /\ w <= size
      /\ \A i \in 1 .. n : y.keys[i] = r[i]
      /\ \A i \in 1 .. Len(<< >>) : y.keys[a + i] = Token(<< >>[i])
  BY Zenon DEF Holds
<1>2. /\ z \in PaddedStates /\ Len(z.keys) = size
      /\ \A i \in 1 .. size : i <= w => z.keys[i] = y.keys[i]
      /\ z.initial = a /\ z.write = w
  BY Zenon DEF Captured
<1>3. a \in Nat /\ w \in Nat /\ y.keys \in Seq(Places)
  BY <1>1, PaddedTypes, Zenon
<1>4. size \in Nat
  BY <1>3
<1>5. \A i \in 1 .. n : i \in 1 .. size /\ i <= w
  <2>a. n \in Nat
    OBVIOUS
  <2> HIDE DEF a, w, n, size
  <2>1. w = a
    BY <1>1, <1>3
  <2> QED BY <1>1, <1>3, <1>4, <2>a, <2>1
<1>6. \A i \in 1 .. n : z.keys[i] = r[i]
  BY <1>1, <1>2, <1>5, Zenon
<1>7. \A i : i \notin 1 .. Len(<< >>)
  OBVIOUS
<1>8. /\ z.static => z.index = z.write
      /\ z.pending = Len(row.pend) + Len(<< >>) /\ z.pending <= RouteChunk
  BY Zenon DEF Holds, Captured
<1> QED BY <1>1, <1>2, <1>6, <1>7, <1>8, Zenon DEF Holds

\* and the mask as it is.
LEMMA CapturedShows ==
    \A y, z, n : Captured(y, z) /\ Shows(y, n) => Shows(z, n)
<1> SUFFICES ASSUME NEW y, NEW z, NEW n, Captured(y, z), Shows(y, n)
             PROVE  Shows(z, n)
  BY Zenon
<1> QED BY Zenon DEF Captured, Shows

\* The layers of a group that is formed.
FormedAs(g, e, past, room, static) ==
    /\ DOMAIN g.layers = Layers /\ g.tokens = << >>
    /\ \A l \in Layers : /\ Holds(g.layers[l], e, << >>) /\ g.layers[l].static = static
                         /\ g.layers[l].initial = past /\ Len(g.layers[l].keys) = past + room
    /\ Shows(g.layers[1], Len(Readout(e)))

\* A group is formed.
LEMMA JoinKeeps ==
    ASSUME RoutedInv, forward = Idle, UNCHANGED <<leader, ops, forward>>,
           NEW e, AtRest(e), e.spans = layer[1].spans, layer' = [l \in Layers |-> e],
           NEW kind \in {"persistent", "transient"}, NEW layers,
           group' = [NoGroup EXCEPT !.kind = kind, !.layers = layers],
           NEW past, NEW room, NEW static, FormedAs(group', e, past, room, static)
    PROVE  RoutedInv'
<1> DEFINE g == group'  new == layer'
<1>1. 1 \in Layers
  BY WhenQuiet, Zenon
<1>2. new[1] = e /\ DOMAIN new = Layers /\ \A l \in Layers : new[l] = e
  BY <1>1, Zenon
<1>3. /\ g \in [kind : {"persistent", "transient"}, layers : {g.layers},
                tokens : Seq(Nat), folds : Nat]
      /\ g.kind = kind
  <2>1. g = [kind |-> kind, layers |-> layers, tokens |-> << >>, folds |-> 0]
    BY DEF NoGroup
  <2> HIDE DEF g
  <2>2. g.layers = layers /\ g.kind = kind
    BY <2>1
  <2>3. g \in [kind : {"persistent", "transient"}, layers : {layers},
               tokens : Seq(Nat), folds : Nat]
    BY <2>1
  <2> QED BY <2>2, <2>3, Zenon
<1> HIDE DEF g, new
<1>4. /\ DOMAIN g.layers = Layers /\ g.tokens = << >>
      /\ \A l \in Layers : /\ Holds(g.layers[l], e, << >>) /\ g.layers[l].static = static
                         /\ g.layers[l].initial = past /\ Len(g.layers[l].keys) = past + room
      /\ Shows(g.layers[1], Len(Readout(e)))
  BY Zenon DEF FormedAs, g
<1>5. g.tokens = Positions(new[1].cumulative, new[1].cumulative + Len(g.tokens))
  <2> DEFINE c == e.cumulative
  <2>1. c \in Nat
    BY LayerTypes, Zenon DEF AtRest, Sound
  <2> HIDE DEF c
  <2>2. << >> = Positions(c, c + 0) /\ Len(<< >>) = 0
    BY <2>1 DEF Positions
  <2> QED BY <1>2, <1>4, <2>2, Zenon DEF c
<1>6. \A l \in Layers : /\ Holds(g.layers[l], new[l], g.tokens)
                        /\ SameShape(g.layers[l], g.layers[1])
  BY <1>1, <1>2, <1>4, Zenon DEF SameShape
<1>7. Padded(g, new)
  BY <1>2, <1>4, <1>5, <1>6, Zenon DEF Padded
<1>8. Grouped(g, forward', new)
  BY <1>3, <1>7, Zenon DEF Grouped
<1>9. Covers(g, e, 0)
  <2>1. g.kind # "covered"
    BY <1>3
  <2> QED BY <2>1, Zenon DEF Covers
<1> QED BY <1>2, <1>8, <1>9, QuietKeeps, Zenon DEF g, new

-----------------------------------------------------------------------------
(***************************************************************************)
(* The steps that form a group.                                            *)
(***************************************************************************)

\* A readout is given to a group: by y, a row with the readout d, that is e after.
Gives(y, d, e) ==
    /\ AtRest(d) /\ AtRest(e) /\ SameState(y, e) /\ d.dense = Readout(e) /\ d.pend = e.pend
    /\ e.spans = y.spans /\ Len(Readout(e)) \in Nat

\* A row gives its readout to a group: it keeps it, or it releases it.
LEMMA Given ==
    ASSUME NEW y, AtRest(y)
    PROVE  LET d == Whole(y, "padded") IN Gives(y, d, d) /\ Gives(y, d, Released(d))
<1> DEFINE d == Whole(y, "padded")  e == Released(d)
<1>1. AtRest(d) /\ SameState(y, d) /\ d.dense = Readout(y)
  BY WholeIs, Zenon
<1>2. AtRest(e) /\ SameState(d, e)
  BY <1>1, ReleasedIs, Zenon
<1> HIDE DEF d, e
<1>3. SameState(y, e)
  BY <1>1, <1>2, Zenon DEF SameState, SameBank
<1>4. Readout(d) = Readout(y) /\ Readout(e) = Readout(y)
  BY <1>1, <1>3, SameReadout, Zenon
<1>5. d.pend = e.pend /\ d.spans = y.spans /\ e.spans = y.spans
  BY <1>1, <1>2, Zenon DEF SameState, SameBank
<1>6. Len(Readout(y)) \in Nat
  <2> DEFINE K == Keys
  <2> HIDE DEF K
  <2>1. Readout(y) \in Seq(K)
    BY ReadoutIs, Zenon DEF AtRest, K
  <2> QED BY <2>1
<1> QED BY <1>1, <1>2, <1>3, <1>4, <1>5, <1>6, Zenon DEF Gives, d, e

\* JoinTransient: one decode, in a buffer that may be wider than needed.
LEMMA JoinTransientKeeps ==
    ASSUME RoutedInv, NEW longer \in Nat, JoinTransient(longer)
    PROVE  RoutedInv'
<1> DEFINE y == layer[1]  d == Whole(y, "padded")
<1>1. /\ forward = Idle /\ 1 \in Layers /\ AtRest(y) /\ \A l \in Layers : layer[l] = y
  BY WhenQuiet, Zenon DEF JoinTransient, MayReserve, CanDecode, Resting
<1> DEFINE whole == [l \in Layers |-> Whole(layer[l], "padded")]
<1>2. whole = [l \in Layers |-> d] /\ whole[1] = d
  BY <1>1, Zenon
<1>3. PICK width \in WorkspaceWidths(Len(whole[1].dense) + longer + 1) :
        group' = [NoGroup EXCEPT !.kind = "transient",
                              !.layers = [l \in Layers |->
                                  StackedOnce(whole[l].dense, width, Len(whole[l].pend))]]
  BY Zenon DEF JoinTransient
<1>4. layer' = whole /\ UNCHANGED <<leader, ops, forward>>
  BY Zenon DEF JoinTransient
<1>5. Gives(y, d, d)
  BY <1>1, Given, Zenon
<1> DEFINE z == StackedOnce(d.dense, width, Len(d.pend))
<1>6. [l \in Layers |-> StackedOnce(whole[l].dense, width, Len(whole[l].pend))]
        = [l \in Layers |-> z]
  <2>1. \A l \in Layers : whole[l] = d
    BY <1>1, Zenon
  <2> HIDE DEF whole, d
  <2> QED BY <2>1, Zenon
<1>7. group' = [NoGroup EXCEPT !.kind = "transient", !.layers = [l \in Layers |-> z]]
  BY <1>3, <1>6, Zenon
<1> HIDE DEF d
<1> DEFINE past == width - 1  n == Len(Readout(d))
<1>8. past \in Nat /\ n <= past
  <2> DEFINE m == n + longer + 1
  <2>1. n \in Nat /\ d.dense = Readout(d)
    BY <1>5, Zenon DEF Gives
  <2>2. width \in WorkspaceWidths(m)
    BY <1>2, <1>3, <2>1, Zenon
  <2> HIDE DEF n
  <2>3. width \in Int /\ width >= m
    <3>1. m \in Nat
      BY <2>1
    <3> HIDE DEF m
    <3>2. width = m \/ width \in m .. m + 2 * WidthBucket - 1
      BY <2>2 DEF WorkspaceWidths
    <3>3. WidthBucket \in Nat
      BY PaddedAssumption
    <3> QED BY <3>1, <3>2, <3>3
  <2> QED BY <2>1, <2>3
<1> HIDE DEF past, n
<1>9. Fresh(z, d, past, 1) /\ z.static = FALSE
  <2>1. AtRest(d) /\ d.dense = Readout(d)
    BY <1>5, Zenon DEF Gives
  <2>2. z = Stacked(Readout(d), past, 1, Len(d.pend))
    BY <2>1, Zenon DEF StackedOnce, past
  <2>3. 1 \in Nat
    OBVIOUS
  <2> HIDE DEF z
  <2> QED BY <1>8, <2>1, <2>2, <2>3, StackedIs, Zenon DEF n
<1> HIDE DEF z, whole
<1> DEFINE g == group'
<1>10. g.layers = [l \in Layers |-> z] /\ g.tokens = << >>
  <2> DEFINE L == [l \in Layers |-> z]
  <2> HIDE DEF L
  <2>1. g = [kind |-> "transient", layers |-> L, tokens |-> << >>, folds |-> 0]
    BY <1>7 DEF NoGroup, L
  <2> HIDE DEF g
  <2>2. g.layers = L /\ g.tokens = << >>
    BY <2>1
  <2> QED BY <2>2, Zenon DEF L
<1> HIDE DEF g
<1>11. FormedAs(g, d, past, 1, FALSE)
  BY <1>1, <1>9, <1>10, Zenon DEF FormedAs, Fresh
<1>12. AtRest(d) /\ d.spans = layer[1].spans
  BY <1>5, Zenon DEF Gives
<1>13. "transient" \in {"persistent", "transient"}
  OBVIOUS
<1> HIDE DEF y
<1> QED BY <1>1, <1>2, <1>4, <1>7, <1>11, <1>12, <1>13, JoinKeeps, Zenon DEF g

\* The layers of a persistent group, before a capture.
Opened(x, l, e, past, room, static) ==
    /\ Holds(x, e, << >>) /\ x.static = static /\ x.initial = past
    /\ Len(x.keys) = past + room /\ x.index = x.write
    /\ l = 1 => Shows(x, Len(Readout(e)))

Opening(stack, static) == IF static THEN AttachMasks(stack) ELSE stack
Opens(z, e, past, room, static) ==
    \A l \in Layers : Opened(Opening([k \in Layers |-> z], static)[l], l, e, past, room, static)

\* Opens, for a mask of its own or none.
LEMMA OpensTo ==
    \A z, e, past, room, static :
        Fresh(z, e, past, room) /\ z.static = FALSE /\ static \in BOOLEAN =>
        Opens(z, e, past, room, static)
<1> SUFFICES ASSUME NEW z, NEW e, NEW past, NEW room, NEW static \in BOOLEAN,
                    Fresh(z, e, past, room), z.static = FALSE
             PROVE  Opens(z, e, past, room, static)
  BY Zenon
<1> SUFFICES ASSUME NEW l \in Layers
             PROVE  Opened(Opening([k \in Layers |-> z], static)[l], l, e, past, room, static)
  BY Zenon DEF Opens
<1> DEFINE stack == [k \in Layers |-> z]
           padded == IF static THEN AttachMasks(stack) ELSE stack
<1>1. CASE static
  <2> DEFINE o == IF l = 1 THEN z.valid ELSE << >>
  <2>1. padded[l] = Masked(z, o)
    <3>1. stack[l] = z /\ DOMAIN stack = Layers
      BY Zenon
    <3> HIDE DEF stack
    <3>2. AttachMasks(stack)[l] = [stack[l] EXCEPT !.static = TRUE,
                                     !.open = IF l = 1 THEN stack[l].valid ELSE << >>]
      BY <3>1, Zenon DEF AttachMasks
    <3> QED BY <1>1, <3>1, <3>2, Zenon DEF Masked
  <2>2. o \in {z.valid, << >>} /\ (l = 1 => o = z.valid)
    BY Zenon
  <2> HIDE DEF o, padded
  <2>3. MaskedFrom(z, e, past, room, o, Masked(z, o))
    BY <2>2, MaskedIs, Zenon
  <2>4. static = TRUE
    BY <1>1
  <2> QED BY <2>1, <2>2, <2>3, <2>4, Zenon DEF MaskedFrom, Opened, Fresh, Opening, padded, stack
<1>2. CASE ~static
  <2>1. padded[l] = z /\ static = FALSE
    BY <1>2, Zenon
  <2> HIDE DEF padded
  <2> QED BY <2>1, Zenon DEF Opened, Fresh, Opening, padded, stack
<1> QED BY <1>1, <1>2, Zenon

\* JoinPersistent: with a capture or without.
LEMMA JoinPersistentKeeps ==
    ASSUME RoutedInv, NEW k \in Nat, NEW longer \in Nat, NEW static \in BOOLEAN,
           JoinPersistent(k, longer, static)
    PROVE  RoutedInv'
<1> DEFINE y == layer[1]  d == Whole(y, "padded")  e == Released(d)
           whole == [l \in Layers |-> Whole(layer[l], "padded")]
           stack == [l \in Layers |-> PaddedCopy(whole[l], longer, k)]
           padded == IF static THEN AttachMasks(stack) ELSE stack
<1>1. /\ forward = Idle /\ 1 \in Layers /\ AtRest(y) /\ \A l \in Layers : layer[l] = y
  BY WhenQuiet, Zenon DEF JoinPersistent, MayReserve, CanDecode, Resting
<1>2. \A l \in Layers : whole[l] = d
  BY <1>1, Zenon
<1>3. PICK n \in IF static THEN CaptureRuns(padded[1]) ELSE {0} :
        group' = [NoGroup EXCEPT !.kind = "persistent",
                              !.layers = [l \in Layers |-> AfterCapture(padded[l], n)]]
  BY Zenon DEF JoinPersistent
<1>4. layer' = [l \in Layers |-> Released(whole[l])] /\ UNCHANGED <<leader, ops, forward>>
  BY Zenon DEF JoinPersistent
<1>5. Gives(y, d, e)
  BY <1>1, Given, Zenon
<1>6. n \in Nat
  <2>1. CaptureRuns(padded[1]) \subseteq Nat
    <3> HIDE DEF padded
    <3> QED BY DEF CaptureRuns
  <2> HIDE DEF padded
  <2>2. 0 \in Nat
    OBVIOUS
  <2>3. CASE static
    BY <1>3, <2>1, <2>3, Zenon
  <2>4. CASE ~static
    <3>1. n \in {0}
      BY <1>3, <2>4, Zenon
    <3> QED BY <2>2, <3>1, Zenon
  <2> QED BY <2>3, <2>4, Zenon
<1> HIDE DEF e
<1>7. layer' = [l \in Layers |-> e]
  <2> HIDE DEF whole, d
  <2> QED BY <1>2, <1>4, Zenon DEF e
<1> DEFINE past == Len(Readout(e)) + longer  z == Stacked(Readout(e), past, k, Len(e.pend))
<1>8. AtRest(e) /\ d.dense = Readout(e) /\ d.pend = e.pend /\ e.spans = y.spans
      /\ Len(Readout(e)) \in Nat
  BY <1>5, Zenon DEF Gives
<1>9. past \in Nat /\ Len(Readout(e)) <= past
  BY <1>8
<1>10. stack = [l \in Layers |-> z]
  <2> HIDE DEF d
  <2>1. PaddedCopy(d, longer, k) = z
    BY <1>8, Zenon DEF PaddedCopy
  <2> HIDE DEF z, whole
  <2> QED BY <1>2, <2>1, Zenon
<1>11. Fresh(z, e, past, k) /\ z.static = FALSE
  <2> HIDE DEF past
  <2> QED BY <1>8, <1>9, StackedIs, Zenon
<1> HIDE DEF z, past
<1>12. \A l \in Layers : Opened(padded[l], l, e, past, k, static)
  <2>1. Opens(z, e, past, k, static)
    BY <1>11, OpensTo, Zenon
  <2> HIDE DEF stack
  <2>2. padded = Opening([l \in Layers |-> z], static)
    BY <1>10, Zenon DEF Opening
  <2> QED BY <2>1, <2>2, Zenon DEF Opens
<1> HIDE DEF padded
<1> DEFINE final == [l \in Layers |-> AfterCapture(padded[l], n)]  g == group'
<1>13. \A l \in Layers : Captured(padded[l], final[l])
  <2> TAKE l \in Layers
  <2>1. padded[l] \in PaddedStates /\ padded[l].index = padded[l].write
    BY <1>12, Zenon DEF Opened, Holds
  <2>2. Captured(padded[l], AfterCapture(padded[l], n))
    BY <1>6, <2>1, CaptureIs, Zenon
  <2> QED BY <2>2, Zenon
<1>14. g = [NoGroup EXCEPT !.kind = "persistent", !.layers = final]
  BY <1>3, Zenon
<1>15. DOMAIN final = Layers
  BY Zenon
<1> HIDE DEF final
<1>16. \A l \in Layers : /\ Holds(final[l], e, << >>) /\ final[l].static = static
                         /\ final[l].initial = past /\ Len(final[l].keys) = past + k
  <2> TAKE l \in Layers
  <2>1. Captured(padded[l], final[l]) /\ Opened(padded[l], l, e, past, k, static)
    BY <1>12, <1>13, Zenon
  <2>2. Holds(final[l], e, << >>)
    BY <1>8, <2>1, CapturedHolds, Zenon DEF Opened
  <2> QED BY <2>1, <2>2, Zenon DEF Captured, Opened
<1>17. Shows(final[1], Len(Readout(e)))
  <2>1. Captured(padded[1], final[1]) /\ Opened(padded[1], 1, e, past, k, static)
    BY <1>1, <1>12, <1>13, Zenon
  <2>2. Shows(padded[1], Len(Readout(e)))
    BY <2>1, Zenon DEF Opened
  <2> QED BY <2>1, <2>2, CapturedShows, Zenon
<1>18. g.layers = final /\ g.tokens = << >>
  <2> HIDE DEF g
  <2>1. g = [kind |-> "persistent", layers |-> final, tokens |-> << >>, folds |-> 0]
    BY <1>14 DEF NoGroup
  <2> QED BY <2>1
<1>19. FormedAs(g, e, past, k, static)
  <2> HIDE DEF g
  <2> QED BY <1>15, <1>16, <1>17, <1>18, Zenon DEF FormedAs
<1>20. "persistent" \in {"persistent", "transient"}
  OBVIOUS
<1> HIDE DEF y
<1> QED BY <1>1, <1>4, <1>7, <1>8, <1>14, <1>19, <1>20, JoinKeeps, Zenon DEF y

-----------------------------------------------------------------------------
(***************************************************************************)
(* The decodes of a group.                                                 *)
(***************************************************************************)

\* The request is a row of a padded group.
LEMMA PaddedGroup ==
    ASSUME NEW g, NEW f, NEW state, Grouped(g, f, state), g.kind \in {"persistent", "transient"}
    PROVE  /\ f = Idle /\ Padded(g, state)
           /\ g \in [kind : {"persistent", "transient"}, layers : {g.layers},
                     tokens : Seq(Nat), folds : Nat]
<1>1. g # NoGroup
  <2>1. NoGroup.kind = "none"
    BY DEF NoGroup
  <2> QED BY <2>1
<1>2. g \notin [kind : {"covered"}, layers : [Layers -> Counted], tokens : {<< >>}, folds : Nat]
  <2> DEFINE C == [Layers -> Counted]
  <2> HIDE DEF C
  <2>1. g \notin [kind : {"covered"}, layers : C, tokens : {<< >>}, folds : Nat]
    OBVIOUS
  <2> QED BY <2>1, Zenon DEF C
<1> QED BY <1>1, <1>2, Zenon DEF Grouped

\* One position more.
LEMMA OneMore ==
    ASSUME NEW c \in Nat, NEW s \in Seq(Nat), s = Positions(c, c + Len(s))
    PROVE  Append(s, c + Len(s)) = Positions(c, c + Len(Append(s, c + Len(s))))
<1> DEFINE k == Len(s)  t == Append(s, c + k)  p == Positions(c, c + k)
<1>1. k \in Nat
  OBVIOUS
<1>2. t \in Seq(Nat) /\ Len(t) = k + 1 /\ t[k + 1] = c + k /\ \A i \in 1 .. k : t[i] = s[i]
  BY <1>1, AppendIs
<1>3. \A i \in 1 .. k : s[i] = c + i - 1
  <2> HIDE DEF k
  <2>1. c + k \in Nat /\ (c + k) - c = k
    BY <1>1
  <2>2. \A i \in 1 .. (c + k) - c : p[i] = c + i - 1
    BY <2>1, PositionsAre, Zenon
  <2>3. s = p
    BY Zenon DEF k
  <2> QED BY <2>1, <2>2, <2>3, Zenon
<1> HIDE DEF k, t
<1>4. \A i \in 1 .. k + 1 : t[i] = c + i - 1
  BY <1>1, <1>2, <1>3
<1>5. c + (k + 1) \in Nat /\ c <= c + (k + 1) /\ (c + (k + 1)) - c = k + 1
  BY <1>1
<1>6. t = Positions(c, c + (k + 1))
  BY <1>2, <1>4, <1>5, PositionsEqual
<1> QED BY <1>2, <1>6, Zenon DEF t, k

\* GroupStep: each layer of the group gets the token, in the place its mask shows.
LEMMA GroupStepKeeps ==
    ASSUME RoutedInv, GroupStep
    PROVE  RoutedInv'
<1> DEFINE y == layer[1]  g == group  h == group'  toks == g.tokens  k == Len(toks)
           next == Length + k
<1>1. /\ g.kind \in {"persistent", "transient"} /\ \A l \in Layers : HasRoom(g.layers[l])
      /\ h = [g EXCEPT !.tokens = Append(@, next),
                       !.layers = [l \in Layers |-> Updated(@[l], Token(next))]]
      /\ UNCHANGED <<layer, leader, ops, forward>>
  BY Zenon DEF GroupStep
<1>2. /\ forward = Idle /\ Padded(g, layer)
      /\ g \in [kind : {"persistent", "transient"}, layers : {g.layers},
                tokens : Seq(Nat), folds : Nat]
  <2>1. Grouped(g, forward, layer)
    BY Zenon DEF RoutedInv
  <2> QED BY <1>1, <2>1, PaddedGroup, Zenon
<1>3. /\ 1 \in Layers /\ AtRest(y) /\ \A l \in Layers : layer[l] = y
  BY <1>2, WhenQuiet, Zenon
<1>4. toks \in Seq(Nat) /\ k \in Nat
  BY <1>2
<1>5. /\ DOMAIN g.layers = Layers /\ toks = Positions(Length, Length + k)
      /\ \A l \in Layers : Holds(g.layers[l], y, toks) /\ SameShape(g.layers[l], g.layers[1])
      /\ Shows(g.layers[1], Len(Readout(y)))
  BY <1>2, <1>3, Zenon DEF Padded, Length
<1>6. Length \in Nat /\ Readout(y) \in Seq(Keys) /\ y.pend \in Seq(Nat)
  BY <1>3, ReadoutIs, LayerTypes, Zenon DEF Length, AtRest, Sound
<1>7. next \in Nat /\ Len(y.pend) \in Nat
  BY <1>4, <1>6
<1> DEFINE new == Append(toks, next)
           layers == [l \in Layers |-> Updated(g.layers[l], Token(next))]
<1>8. new \in Seq(Nat) /\ new = Positions(Length, Length + Len(new))
  <2>1. new \in Seq(Nat)
    BY <1>4, <1>7, AppendIs
  <2> DEFINE c == Length
  <2>2. c \in Nat /\ toks = Positions(c, c + Len(toks)) /\ toks \in Seq(Nat)
    BY <1>4, <1>5, <1>6, Zenon
  <2> HIDE DEF c, toks
  <2>3. Append(toks, c + Len(toks)) = Positions(c, c + Len(Append(toks, c + Len(toks))))
    BY <2>2, OneMore, Zenon
  <2> QED BY <2>1, <2>3, Zenon DEF c
<1>9. h.tokens = new /\ h.layers = layers
      /\ h \in [kind : {"persistent", "transient"}, layers : {h.layers},
                tokens : Seq(Nat), folds : Nat]
      /\ h.kind \in {"persistent", "transient"}
  <2> DEFINE G == g.layers
  <2>1. h = [g EXCEPT !.tokens = new, !.layers = layers]
    BY <1>1, Zenon
  <2>2. g \in [kind : {"persistent", "transient"}, layers : {G}, tokens : Seq(Nat), folds : Nat]
    BY <1>2
  <2>3. new \in Seq(Nat)
    BY <1>8
  <2> HIDE DEF new, layers, g, h, G
  <2>4. h.tokens = new /\ h.layers = layers
    BY <2>1, <2>2
  <2>5. h \in [kind : {"persistent", "transient"}, layers : {layers},
                tokens : Seq(Nat), folds : Nat]
    BY <2>1, <2>2, <2>3
  <2>6. h.kind \in {"persistent", "transient"}
    BY <2>5
  <2> QED BY <2>4, <2>5, <2>6, Zenon
<1> HIDE DEF next, toks, k, new, h
<1>10. \A l \in Layers : Holds(layers[l], y, new)
  <2> TAKE l \in Layers
  <2>1. Holds(g.layers[l], y, toks) /\ HasRoom(g.layers[l])
    BY <1>1, <1>5, Zenon
  <2>2. Holds(Updated(g.layers[l], Token(next)), y, Append(toks, next))
    BY <1>4, <1>6, <1>7, <2>1, HoldsStep, Zenon
  <2> QED BY <2>2, Zenon DEF new
<1>11. Shows(layers[1], Len(Readout(y)))
  <2>1. Holds(g.layers[1], y, toks) /\ HasRoom(g.layers[1])
    BY <1>1, <1>3, <1>5, Zenon
  <2>2. Token(next) \in Places /\ Len(toks) \in Nat
    BY <1>4, <1>7, TokenIsPlace, Zenon DEF k
  <2>3. Shows(Updated(g.layers[1], Token(next)), Len(Readout(y)))
    BY <1>5, <2>1, <2>2, ShowsStep, Zenon
  <2> QED BY <1>3, <2>3, Zenon
<1>12. \A l \in Layers : SameShape(layers[l], layers[1])
  <2>1. ASSUME NEW l \in Layers
        PROVE  /\ layers[l].static = g.layers[l].static
               /\ layers[l].initial = g.layers[l].initial
               /\ Len(layers[l].keys) = Len(g.layers[l].keys)
    <3> DEFINE p == g.layers[l]  u == layers[l]
    <3>1. p \in PaddedStates /\ Token(next) \in Places
      BY <1>5, <1>7, TokenIsPlace, Zenon DEF Holds
    <3>2. u = Updated(p, Token(next))
      BY Zenon
    <3> HIDE DEF p, u
    <3>3. Wrote(p, u, Token(next))
      BY <3>1, <3>2, UpdatedIs, Zenon
    <3>4. u.static = p.static /\ u.initial = p.initial
          /\ u.keys = [p.keys EXCEPT ![PlaceOf(p)] = Token(next)]
      BY <3>3, Zenon DEF Wrote
    <3>5. Len(u.keys) = Len(p.keys)
      <4> DEFINE s == p.keys  v == Token(next)  at == PlaceOf(p)
      <4>1. s \in Seq(Places) /\ v \in Places /\ u.keys = [s EXCEPT ![at] = v]
        BY <3>1, <3>4, PaddedTypes, Zenon
      <4> HIDE DEF s, v, at
      <4>2. Len([s EXCEPT ![at] = v]) = Len(s)
        BY <4>1, PutAt
      <4> QED BY <4>1, <4>2, Zenon DEF s
    <3> QED BY <3>4, <3>5, Zenon DEF p, u
  <2> HIDE DEF layers
  <2> QED BY <1>3, <1>5, <2>1, Zenon DEF SameShape
<1>13. DOMAIN layers = Layers
  BY Zenon
<1> HIDE DEF layers, g
<1>14. Padded(h, layer')
  <2>1. layer' = layer
    BY <1>1, Zenon
  <2>2. Padded(h, layer)
    BY <1>3, <1>8, <1>9, <1>10, <1>11, <1>12, <1>13, Zenon DEF Padded, Length
  <2> QED BY <2>1, <2>2, Zenon
<1>15. Grouped(h, forward', layer')
  BY <1>1, <1>2, <1>9, <1>14, Zenon DEF Grouped
<1>16. Covers(h, y, 0)
  <2>1. h.kind # "covered"
    BY <1>9
  <2> QED BY <2>1, Zenon DEF Covers
<1>17. DOMAIN layer' = Layers /\ \A l \in Layers : layer'[l] = y
  <2>1. DOMAIN layer = Layers
    BY <1>2, WhenQuiet, Zenon
  <2> QED BY <1>1, <1>3, <2>1, Zenon
<1> QED BY <1>1, <1>2, <1>3, <1>15, <1>16, <1>17, QuietKeeps, Zenon DEF h

-----------------------------------------------------------------------------
(***************************************************************************)
(* The steps between forwards.                                             *)
(***************************************************************************)

\* A step that changes only the group.
LEMMA Unmoved ==
    ASSUME RoutedInv, forward = Idle, UNCHANGED <<layer, leader, ops, forward>>,
           Grouped(group', Idle, layer), Covers(group', layer[1], 0)
    PROVE  RoutedInv'
<1> DEFINE y == layer[1]
<1>1. AtRest(y) /\ y.spans = layer[1].spans /\ DOMAIN layer = Layers
      /\ \A l \in Layers : layer[l] = y
  BY WhenQuiet, Zenon
<1>2. Grouped(group', forward', layer')
  BY Zenon
<1> HIDE DEF y
<1>3. Covers(group', y, 0)
  BY Zenon DEF y
<1> QED BY <1>1, <1>2, <1>3, QuietKeeps, Zenon

\* A group ends.
LEMMA NoGroupKeeps ==
    ASSUME RoutedInv, forward = Idle, UNCHANGED <<layer, leader, ops, forward>>, group' = NoGroup
    PROVE  RoutedInv'
<1>1. Covers(NoGroup, layer[1], 0)
  <2>1. NoGroup.kind # "covered"
    BY DEF NoGroup
  <2> QED BY <2>1, Zenon DEF Covers
<1>2. Grouped(NoGroup, Idle, layer)
  BY Zenon DEF Grouped
<1> QED BY <1>1, <1>2, Unmoved, Zenon

\* No group: a forward may begin.
LEMMA AloneBegins ==
    ASSUME RoutedInv, forward = Idle, UNCHANGED <<layer, leader, ops>>, group' = NoGroup,
           NEW toks \in Seq(Nat), toks = Positions(Length, Length + Len(toks)),
           NEW kind \in {"prefill", "decode", "exact", "commit"}, Begin(toks, kind)
    PROVE  RoutedInv'
<1>1. NoGroup.kind = "none"
  BY DEF NoGroup
<1>2. Grouped(group', forward', layer')
  BY Zenon DEF Grouped
<1>3. group'.kind \in {"none", "covered"} /\ group'.kind # "covered"
  BY <1>1
<1> QED BY <1>2, <1>3, BeginKeeps

\* The length of the request.
LEMMA LengthIs ==
    ASSUME RoutedInv, forward = Idle
    PROVE  Length \in Nat
  BY WhenQuiet, LayerTypes, Zenon DEF Length, AtRest, Sound

\* Prefill.
LEMMA PrefillKeeps ==
    ASSUME RoutedInv, NEW n \in Nat, Prefill(n)
    PROVE  RoutedInv'
<1> DEFINE toks == Positions(Length, Length + n)
<1>1. /\ forward = Idle /\ group' = NoGroup /\ UNCHANGED <<layer, leader, ops>>
      /\ Begin(toks, "prefill")
  BY Zenon DEF Prefill, Resting
<1>2. toks \in Seq(Nat) /\ Len(toks) = n
  <2> DEFINE c == Length
  <2>1. c \in Nat
    BY <1>1, LengthIs, Zenon
  <2> HIDE DEF c
  <2>2. c + n \in Nat /\ c <= c + n /\ (c + n) - c = n
    BY <2>1
  <2>3. LET p == Positions(c, c + n) IN p \in Seq(Nat) /\ Len(p) = n
    BY <2>1, <2>2, PositionsAre
  <2> QED BY <2>3, Zenon DEF c
<1>3. toks = Positions(Length, Length + Len(toks))
  BY <1>2, Zenon
<1>4. "prefill" \in {"prefill", "decode", "exact", "commit"}
  OBVIOUS
<1> HIDE DEF toks
<1> QED BY <1>1, <1>2, <1>3, <1>4, AloneBegins, Zenon

\* One position.
LEMMA OneToken ==
    ASSUME NEW c \in Nat
    PROVE  /\ <<c>> \in Seq(Nat) /\ Len(<<c>>) = 1
           /\ <<c>> = Positions(c, c + Len(<<c>>))
<1>1. <<c>> \in Seq(Nat) /\ Len(<<c>>) = 1 /\ \A i \in 1 .. 1 : <<c>>[i] = c + i - 1
  OBVIOUS
<1>2. c + 1 \in Nat /\ c <= c + 1 /\ (c + 1) - c = 1
  OBVIOUS
<1>3. <<c>> = Positions(c, c + 1)
  BY <1>1, <1>2, PositionsEqual
<1> QED BY <1>1, <1>3

\* Decode, alone.
LEMMA DecodeKeeps ==
    ASSUME RoutedInv, NEW kind \in {"decode", "exact", "commit"}, Decode(kind)
    PROVE  RoutedInv'
<1> DEFINE toks == <<Length>>
<1>1. /\ forward = Idle /\ group' = NoGroup /\ UNCHANGED <<layer, leader, ops>>
      /\ Begin(toks, kind)
  BY Zenon DEF Decode, CanDecode, Resting
<1>2. toks \in Seq(Nat) /\ toks = Positions(Length, Length + Len(toks))
  <2> DEFINE c == Length
  <2>1. c \in Nat
    BY <1>1, LengthIs, Zenon
  <2> HIDE DEF c
  <2>2. <<c>> \in Seq(Nat) /\ <<c>> = Positions(c, c + Len(<<c>>))
    BY <2>1, OneToken, Zenon
  <2> QED BY <2>2, Zenon DEF c
<1>3. kind \in {"prefill", "decode", "exact", "commit"}
  OBVIOUS
<1> HIDE DEF toks
<1> QED BY <1>1, <1>2, <1>3, AloneBegins, Zenon

\* The tokens of a group are read back from the keys of its first layer.
LEMMA TokensBack ==
    ASSUME NEW toks \in Seq(Nat)
    PROVE  LET new == Tokens(toks) IN
           /\ new = << >> <=> toks = << >>
           /\ [i \in DOMAIN new |-> Max(new[i][2])] = toks
<1> DEFINE new == Tokens(toks)  n == Len(toks)
<1>1. new = [i \in 1 .. n |-> Token(toks[i])] /\ n \in Nat
  <2>1. new = [i \in 1 .. n |-> Token(toks[i])]
    BY Zenon DEF Tokens
  <2>2. n \in Nat
    OBVIOUS
  <2> QED BY <2>1, <2>2, Zenon
<1>2. \A p \in Nat : Max(Token(p)[2]) = p
  <2> TAKE p \in Nat
  <2>1. Token(p)[2] = {p, p}
    BY DEF Token
  <2>2. Max({p, p}) = p
    BY MaxOfTwo
  <2> QED BY <2>1, <2>2, Zenon
<1>3. \A i \in 1 .. n : toks[i] \in Nat
  OBVIOUS
<1>4. toks = [i \in 1 .. n |-> toks[i]]
  OBVIOUS
<1>5. DOMAIN new = 1 .. n /\ \A i \in 1 .. n : new[i] = Token(toks[i])
  BY <1>1, Zenon
<1>6. Len(new) = n /\ new \in Seq(Keys)
  BY TokensAre, Zenon
<1> HIDE DEF new
<1>7. new = << >> <=> toks = << >>
  <2> DEFINE K == Keys
  <2> HIDE DEF K
  <2>1. new \in Seq(K) /\ Len(new) = n
    BY <1>6, Zenon DEF K
  <2> QED BY <2>1
<1> HIDE DEF n
<1>8. [i \in DOMAIN new |-> Max(new[i][2])] = toks
  <2>1. \A i \in 1 .. n : Max(new[i][2]) = toks[i]
    BY <1>2, <1>3, <1>5, Zenon
  <2> QED BY <1>4, <1>5, <2>1, Zenon
<1> QED BY <1>7, <1>8, Zenon DEF new

\* GroupCommit: the forward that commits has the tokens of the group.
LEMMA GroupCommitKeeps ==
    ASSUME RoutedInv, GroupCommit
    PROVE  RoutedInv'
<1> DEFINE g == group  toks == g.tokens  new == NewTokens(g.layers[1])
<1>1. /\ g.kind \in {"persistent", "transient"} /\ group' = NoGroup
      /\ IF new = << >> THEN UNCHANGED forward
                        ELSE Begin([i \in DOMAIN new |-> Max(new[i][2])], "commit")
      /\ UNCHANGED <<layer, leader, ops>>
  BY Zenon DEF GroupCommit
<1>2. /\ forward = Idle /\ Padded(g, layer)
      /\ g \in [kind : {"persistent", "transient"}, layers : {g.layers},
                tokens : Seq(Nat), folds : Nat]
  <2>1. Grouped(g, forward, layer)
    BY Zenon DEF RoutedInv
  <2> QED BY <1>1, <2>1, PaddedGroup, Zenon
<1>3. toks \in Seq(Nat) /\ 1 \in Layers
  BY <1>2, WhenQuiet
<1>4. Holds(g.layers[1], layer[1], toks) /\ toks = Positions(Length, Length + Len(toks))
  BY <1>2, <1>3, Zenon DEF Padded, Length
<1>5. new = Tokens(toks)
  BY <1>3, <1>4, NewTokensAre, Zenon
<1> HIDE DEF toks, new, g
<1>6. [i \in DOMAIN new |-> Max(new[i][2])] = toks
  BY <1>3, <1>5, TokensBack, Zenon
<1>7. CASE new = << >>
  BY <1>1, <1>2, <1>7, NoGroupKeeps, Zenon
<1>8. CASE new # << >>
  <2>1. Begin(toks, "commit")
    BY <1>1, <1>6, <1>8, Zenon
  <2>2. "commit" \in {"prefill", "decode", "exact", "commit"}
    OBVIOUS
  <2> QED BY <1>1, <1>2, <1>3, <1>4, <2>1, <2>2, AloneBegins, Zenon
<1> QED BY <1>7, <1>8, Zenon

\* JoinCovered: the tail is counted from what it is.
LEMMA JoinCoveredKeeps ==
    ASSUME RoutedInv, NEW k \in Nat, JoinCovered(k)
    PROVE  RoutedInv'
<1> DEFINE y == layer[1]  p == Len(y.pend)  g == group'
           places == [l \in Layers |-> Placeholder(Len(layer[l].pend), k)]
<1>1. /\ forward = Idle /\ UNCHANGED <<layer, leader, ops, forward>>
      /\ g = [NoGroup EXCEPT !.kind = "covered", !.folds = y.cursor, !.layers = places]
  BY Zenon DEF JoinCovered, MayReserve, CanDecode, Resting
<1>2. AtRest(y) /\ \A l \in Layers : layer[l] = y
  BY <1>1, WhenQuiet, Zenon
<1>3. y.pend \in Seq(Nat) /\ y.cursor \in Nat
  BY <1>2, LayerTypes, Zenon DEF AtRest, Sound
<1>4. p \in Nat
  BY <1>3
<1>5. \A l \in Layers : places[l] = Placeholder(p, k)
  BY <1>2, Zenon
<1> DEFINE one == Placeholder(p, k)  C == Counted
<1>6. one \in C /\ one.pending = p
  <2> HIDE DEF p
  <2> QED BY <1>4 DEF Placeholder, Counted
<1>7. places \in [Layers -> C]
  <2> HIDE DEF one, C
  <2>1. DOMAIN places = Layers
    BY Zenon
  <2>2. places = [l \in Layers |-> one]
    BY <1>2, Zenon DEF one
  <2> HIDE DEF places
  <2> QED BY <1>6, <2>2
<1>8. /\ g.kind = "covered" /\ g.folds = y.cursor /\ g.layers = places
      /\ g \in [kind : {"covered"}, layers : [Layers -> C], tokens : {<< >>}, folds : Nat]
  <2> DEFINE cur == y.cursor  F == [Layers -> C]
  <2>1. g = [kind |-> "covered", layers |-> places, tokens |-> << >>, folds |-> cur]
    <3> HIDE DEF places, cur
    <3> QED BY <1>1 DEF NoGroup, cur
  <2>2. places \in F /\ cur \in Nat
    BY <1>3, <1>7, Zenon
  <2> HIDE DEF g, places, cur, F
  <2>3. g.kind = "covered" /\ g.folds = cur /\ g.layers = places
    BY <2>1
  <2>4. g \in [kind : {"covered"}, layers : F, tokens : {<< >>}, folds : Nat]
    BY <2>1, <2>2
  <2> QED BY <2>3, <2>4, Zenon DEF cur, F
<1>9. Grouped(g, Idle, layer)
  BY <1>8, Zenon DEF Grouped, C
<1>10. Covers(g, y, 0)
  <2>1. p + 0 <= p
    BY <1>4
  <2> HIDE DEF g, places, y
  <2>2. \A l \in Layers : g.layers[l].pending = p
    BY <1>5, <1>6, <1>8, Zenon
  <2> QED BY <1>8, <2>1, <2>2, Zenon DEF Covers, p
<1> QED BY <1>1, <1>9, <1>10, Unmoved, Zenon DEF g, y

\* CoveredEnd.
LEMMA CoveredEndKeeps ==
    ASSUME RoutedInv, CoveredEnd
    PROVE  RoutedInv'
  BY NoGroupKeeps, Zenon DEF CoveredEnd

\* Continue: the layers do not change.
LEMMA ContinueKeeps ==
    ASSUME RoutedInv, NEW n, Continue(n)
    PROVE  RoutedInv'
  BY NoGroupKeeps, Zenon DEF Continue, Resting

\* CoveredStep: the count goes ahead of the tail by the token to be committed.
LEMMA CoveredStepKeeps ==
    ASSUME RoutedInv, CoveredStep
    PROVE  RoutedInv'
<1> DEFINE y == layer[1]  p == Len(y.pend)  g == group  h == group'  C == Counted
           places == [l \in Layers |-> DecodeRecorded(g.layers[l])]
<1>1. /\ forward = Idle /\ g.kind = "covered"
      /\ \A l \in Layers : PlaceholderHasRoom(g.layers[l])
      /\ h = [g EXCEPT !.layers = [l \in Layers |-> DecodeRecorded(@[l])]]
      /\ Begin(<<Length>>, "commit") /\ UNCHANGED <<layer, leader, ops>>
  BY Zenon DEF CoveredStep
<1>2. AtRest(y) /\ Covers(g, y, 0) /\ Grouped(g, forward, layer)
  BY <1>1, WhenQuiet, Zenon
<1>3. y.pend \in Seq(Nat)
  BY <1>2, LayerTypes, Zenon DEF AtRest, Sound
<1>4. p \in Nat
  BY <1>3
<1>5. g \in [kind : {"covered"}, layers : [Layers -> C], tokens : {<< >>}, folds : Nat]
  BY <1>1, <1>2, GroupKinds, Zenon
<1>6. g.layers \in [Layers -> C] /\ g.folds \in Nat
  <2> DEFINE F == [Layers -> C]
  <2>1. g \in [kind : {"covered"}, layers : F, tokens : {<< >>}, folds : Nat]
    BY <1>5, Zenon
  <2> HIDE DEF F, g
  <2>2. g.layers \in F /\ g.folds \in Nat
    BY <2>1
  <2> QED BY <2>2, Zenon DEF F
<1>7. ASSUME NEW l \in Layers
      PROVE  /\ places[l] \in C /\ places[l].pending = g.layers[l].pending + 1
             /\ g.layers[l].pending \in Nat /\ g.layers[l].pending < RouteChunk
  <2> DEFINE q == g.layers[l]
  <2>1. q \in C /\ PlaceholderHasRoom(q)
    BY <1>1, <1>6, Zenon
  <2>2. places[l] = DecodeRecorded(q)
    BY Zenon
  <2> DEFINE r == places[l]
  <2> HIDE DEF q, r, places
  <2>3. r = DecodeRecorded(q)
    BY <2>2, Zenon DEF r
  <2>4. r \in C /\ r.pending = q.pending + 1 /\ q.pending \in Nat /\ q.pending < RouteChunk
    <3>1. q \in [reserved : Nat, consumed : Nat, pending : Nat] /\ q.pending < RouteChunk
      BY <2>1, Zenon DEF PlaceholderHasRoom, Counted
    <3>2. r = [q EXCEPT !.consumed = @ + 1, !.pending = @ + 1]
      BY <2>3, Zenon DEF DecodeRecorded
    <3>3. r \in [reserved : Nat, consumed : Nat, pending : Nat]
      <4> DEFINE a == q.reserved  b == q.consumed + 1  c == q.pending + 1
      <4>1. r = [reserved |-> a, consumed |-> b, pending |-> c]
        BY <3>1, <3>2
      <4>2. a \in Nat /\ b \in Nat /\ c \in Nat
        BY <3>1
      <4> HIDE DEF a, b, c
      <4> QED BY <4>1, <4>2
    <3>4. r.pending = q.pending + 1 /\ q.pending \in Nat
      BY <3>1, <3>2
    <3> QED BY <3>1, <3>3, <3>4, Zenon DEF Counted
  <2> QED BY <2>4, Zenon DEF q, r
<1>8. places \in [Layers -> C]
  <2>1. DOMAIN places = Layers /\ places = [l \in Layers |-> places[l]]
    BY Zenon
  <2> HIDE DEF places, C
  <2> QED BY <1>7, <2>1
<1>9. /\ h.kind = "covered" /\ h.folds = g.folds /\ h.layers = places
      /\ h \in [kind : {"covered"}, layers : [Layers -> C], tokens : {<< >>}, folds : Nat]
  <2> DEFINE F == [Layers -> C]
  <2>1. /\ g \in [kind : {"covered"}, layers : F, tokens : {<< >>}, folds : Nat]
        /\ places \in F /\ h = [g EXCEPT !.layers = places]
    BY <1>1, <1>5, <1>8, Zenon
  <2> HIDE DEF F, g, h, places
  <2>2. /\ h.kind = "covered" /\ h.folds = g.folds /\ h.layers = places
        /\ h \in [kind : {"covered"}, layers : F, tokens : {<< >>}, folds : Nat]
    BY <2>1
  <2> QED BY <2>2, Zenon DEF F
<1> HIDE DEF places
<1>10. Grouped(h, forward', layer')
  BY <1>9, Zenon DEF Grouped, C
<1>11. Covers(h, y, 1)
  <2>1. ASSUME NEW l \in Layers
        PROVE  y.cursor = h.folds /\ p + 1 <= h.layers[l].pending
    <3>1. /\ \/ g.layers[l].pending >= RouteChunk
             \/ y.cursor = g.folds /\ Len(y.pend) + 0 <= g.layers[l].pending
      BY <1>1, <1>2, Zenon DEF Covers
    <3> DEFINE a == g.layers[l].pending  b == h.layers[l].pending
    <3>2. a \in Nat /\ a < RouteChunk /\ b = a + 1
      BY <1>7, <1>9, Zenon
    <3>3. a >= RouteChunk \/ (y.cursor = g.folds /\ p + 0 <= a)
      BY <3>1, Zenon
    <3> HIDE DEF a, b, p, g, y
    <3>4. y.cursor = g.folds /\ p + 1 <= b
      BY <1>4, <3>2, <3>3, ConstantTypes
    <3> QED BY <1>9, <3>4, Zenon DEF b
  <2> QED BY <2>1, Zenon DEF Covers, p
<1>12. <<Length>> \in Seq(Nat) /\ Len(<<Length>>) = 1
       /\ <<Length>> = Positions(Length, Length + Len(<<Length>>))
  <2> DEFINE c == Length
  <2>1. c \in Nat
    BY <1>1, LengthIs, Zenon
  <2> HIDE DEF c
  <2>2. <<c>> \in Seq(Nat) /\ Len(<<c>>) = 1 /\ <<c>> = Positions(c, c + Len(<<c>>))
    BY <2>1, OneToken, Zenon
  <2> QED BY <2>2, Zenon DEF c
<1>13. h.kind \in {"none", "covered"} /\ "commit" \in {"prefill", "decode", "exact", "commit"}
  BY <1>9
<1> HIDE DEF h, y
<1> DEFINE toks == <<Length>>
<1> HIDE DEF toks
<1> QED BY <1>1, <1>10, <1>11, <1>12, <1>13, BeginKeeps, Zenon DEF h, y, toks

\* ReleaseDense: the layers are equal, so all release or none does.
LEMMA ReleaseKeeps ==
    ASSUME RoutedInv, NEW reserve, ReleaseDense(reserve)
    PROVE  RoutedInv'
<1> DEFINE y == layer[1]  e == IF CanRelease(y, reserve) THEN Released(y) ELSE y
<1>1. /\ forward = Idle /\ group = NoGroup /\ group' = NoGroup
      /\ UNCHANGED <<leader, ops, forward>>
      /\ layer' = [l \in Layers |-> IF CanRelease(layer[l], reserve) THEN Released(layer[l])
                                                                     ELSE layer[l]]
  BY Zenon DEF ReleaseDense, Resting
<1>2. AtRest(y) /\ \A l \in Layers : layer[l] = y
  BY <1>1, WhenQuiet, Zenon
<1>3. DOMAIN layer' = Layers /\ \A l \in Layers : layer'[l] = e
  BY <1>1, <1>2, Zenon
<1>4. AtRest(e) /\ e.spans = y.spans
  <2>1. AtRest(Released(y)) /\ SameState(y, Released(y))
    BY <1>2, ReleasedIs, Zenon
  <2>2. Released(y).spans = y.spans
    <3> DEFINE z == Released(y)
    <3>1. SameState(y, z)
      BY <2>1, Zenon
    <3> HIDE DEF z, y
    <3>2. z.spans = y.spans
      BY <3>1, Zenon DEF SameState, SameBank
    <3> QED BY <3>2, Zenon DEF z
  <2> QED BY <1>2, <2>1, <2>2, Zenon
<1> HIDE DEF e, y
<1>5. Grouped(group', forward', layer')
  BY <1>1, Zenon DEF Grouped
<1>6. Covers(group', e, 0)
  <2>1. NoGroup.kind # "covered"
    BY DEF NoGroup
  <2> QED BY <1>1, <2>1, Zenon DEF Covers
<1> QED BY <1>1, <1>3, <1>4, <1>5, <1>6, QuietKeeps, Zenon DEF y

\* A state with no tokens in it.
LEMMA EmptyQuiet ==
    ASSUME NEW state, state = [l \in Layers |-> NoLayer]
    PROVE  /\ DOMAIN state = Layers
           /\ Quiescent(state, << >>, [s \in Slots |-> 0], NoGroup)
<1>1. 1 \in Layers
  BY ConstantTypes DEF Layers
<1>2. AtRest(NoLayer) /\ DOMAIN state = Layers /\ \A l \in Layers : state[l] = NoLayer
  BY NoLayerAtRest, Zenon
<1>3. \A l \in Layers : AtRest(state[l]) /\ state[l] = state[1]
  BY <1>1, <1>2, Zenon
<1>4. ASSUME NEW s \in Slots
      PROVE  [t \in Slots |-> 0][s] = Len(state[1].spans[s])
  <2>1. NoLayer.spans = [t \in Slots |-> << >>]
    BY DEF NoLayer
  <2>2. state[1].spans[s] = << >>
    BY <1>1, <1>2, <2>1, Zenon
  <2>3. Len(<< >>) = 0
    OBVIOUS
  <2> QED BY <2>2, <2>3, Zenon
<1>5. Covers(NoGroup, state[1], 0)
  <2>1. NoGroup.kind # "covered"
    BY DEF NoGroup
  <2> QED BY <2>1, Zenon DEF Covers
<1> QED BY <1>2, <1>3, <1>4, <1>5, Zenon DEF Quiescent

\* The invariant holds of a new cache.
LEMMA InitHolds ==
    ASSUME Init
    PROVE  RoutedInv
<1> DEFINE none == [s \in Slots |-> 0]
<1>1. /\ layer = [l \in Layers |-> NoLayer] /\ ops = << >> /\ forward = Idle /\ group = NoGroup
      /\ leader = [active |-> 0, feats |-> none]
  BY Zenon DEF Init
<1>2. leader.feats = none
  <2> HIDE DEF none
  <2> QED BY <1>1
<1>3. Grouped(group, forward, layer)
  BY <1>1, Zenon DEF Grouped
<1> QED BY <1>1, <1>2, <1>3, EmptyQuiet, Zenon DEF RoutedInv

\* Close: a cache for another request.
LEMMA CloseKeeps ==
    ASSUME RoutedInv, Close
    PROVE  RoutedInv'
<1> DEFINE none == [s \in Slots |-> 0]
           state == layer'  log == ops'  f == forward'  g == group'  feats == leader'.feats
<1>1. /\ state = [l \in Layers |-> NoLayer] /\ log = << >> /\ f = Idle /\ g = NoGroup
      /\ leader' = [active |-> 0, feats |-> none]
  BY Zenon DEF Close, Resting
<1>2. feats = none
  <2> HIDE DEF none
  <2> QED BY <1>1
<1>3. Grouped(g, f, state)
  BY <1>1, Zenon DEF Grouped
<1>4. DOMAIN state = Layers /\ Quiescent(state, log, feats, g)
  BY <1>1, <1>2, EmptyQuiet, Zenon
<1> QED BY <1>1, <1>3, <1>4, Zenon DEF RoutedInv

\* Nothing changes.
LEMMA StutterKeeps ==
    ASSUME RoutedInv, UNCHANGED vars
    PROVE  RoutedInv'
<1>1. layer' = layer /\ leader' = leader /\ ops' = ops /\ forward' = forward /\ group' = group
  BY Zenon DEF vars
<1> QED BY <1>1, Zenon DEF RoutedInv

\* Every step keeps the invariant.
LEMMA NextKeeps ==
    ASSUME RoutedInv, [Next]_vars
    PROVE  RoutedInv'
<1>1. ChunkLens \subseteq Nat /\ Reserves \subseteq Nat /\ Longer \subseteq Nat
  BY RoutedAssumption, Zenon
<1>2. CASE \E n \in ChunkLens : Prefill(n)
  BY <1>1, <1>2, PrefillKeeps, Zenon
<1>3. CASE \E kind \in {"decode", "exact", "commit"} : Decode(kind)
  BY <1>3, DecodeKeeps, Zenon
<1>4. CASE \E k \in Reserves, longer \in Longer, static \in BOOLEAN :
             JoinPersistent(k, longer, static)
  BY <1>1, <1>4, JoinPersistentKeeps, Zenon
<1>5. CASE \E longer \in Longer : JoinTransient(longer)
  BY <1>1, <1>5, JoinTransientKeeps, Zenon
<1>6. CASE \E k \in Reserves : JoinCovered(k)
  BY <1>1, <1>6, JoinCoveredKeeps, Zenon
<1>7. CASE \E packet \in BOOLEAN : Update(packet)
  BY <1>7, UpdateKeeps, Zenon
<1>8. CASE \E reserve \in Reserves : ReleaseDense(reserve)
  BY <1>8, ReleaseKeeps, Zenon
<1>9. CASE \E n \in SuffixLens : Continue(n)
  BY <1>9, ContinueKeeps, Zenon
<1>10. CASE GroupStep \/ GroupCommit \/ CoveredStep \/ CoveredEnd
  BY <1>10, GroupStepKeeps, GroupCommitKeeps, CoveredStepKeeps, CoveredEndKeeps, Zenon
<1>11. CASE Commit \/ Drained \/ FoldAlone \/ FoldAsDecided
  BY <1>11, CommitKeeps, DrainedKeeps, FoldAloneKeeps, FoldAsDecidedKeeps, Zenon
<1>12. CASE FoldPacket \/ PacketDone \/ Close
  BY <1>12, FoldPacketKeeps, PacketDoneKeeps, CloseKeeps, Zenon
<1>13. CASE UNCHANGED vars
  BY <1>13, StutterKeeps, Zenon
<1> QED BY <1>2, <1>3, <1>4, <1>5, <1>6, <1>7, <1>8, <1>9, <1>10, <1>11, <1>12, <1>13,
           Zenon DEF Next

\* RoutedInv holds in every state, for any number of layers, slots and tokens and
\* whatever the leader decides: the inductive invariant of the theorems below.
THEOREM RoutedInvariant == Spec => []RoutedInv
<1>1. Init => RoutedInv
  BY InitHolds, Zenon
<1>2. RoutedInv /\ [Next]_vars => RoutedInv'
  BY NextKeeps, Zenon
<1> QED BY <1>1, <1>2, PTL DEF Spec

-----------------------------------------------------------------------------
(***************************************************************************)
(* What follows from the invariant.                                        *)
(***************************************************************************)

\* A layer that no forward is at is at rest, also while a forward is at another one.
LEMMA QuietAtRest ==
    ASSUME RoutedInv, NEW l \in Layers, Quiet(l)
    PROVE  AtRest(layer[l])
<1>1. CASE forward = Idle
  BY <1>1, WhenQuiet, Zenon
<1>2. CASE forward # Idle
  <2>1. PICK y, way, said, cuts, taken : \E m \in Nat : \E j \in 0 .. m :
               Under(forward, layer, ops, leader.feats, y, way, said, cuts, taken, m, j)
    BY <1>2, Zenon DEF RoutedInv, UnderWay
  <2>2. PICK m \in Nat : \E j \in 0 .. m :
               Under(forward, layer, ops, leader.feats, y, way, said, cuts, taken, m, j)
    BY <2>1, Zenon
  <2>3. PICK j \in 0 .. m :
               Under(forward, layer, ops, leader.feats, y, way, said, cuts, taken, m, j)
    BY <2>2, Zenon
  <2> DEFINE f == forward
  <2>4. /\ f \in Forwards /\ AtRest(y) /\ Goes(y, f, way, said, m)
        /\ f.tokens = Positions(y.cumulative, y.cumulative + Len(f.tokens))
        /\ l < f.at => layer[l] = Left(y, f, way[m])
        /\ l > f.at => layer[l] = y
        /\ Stands(f, layer[f.at], y, way, cuts, taken, m, j)
    BY <2>3, Zenon DEF Under
  <2>5. f.at \in Layers /\ (l < f.at \/ l > f.at \/ l = f.at)
    <3>1. f.at \in Layers
      BY <2>4, Zenon DEF Forwards
    <3> DEFINE a == f.at
    <3> HIDE DEF a
    <3>2. a \in Layers => l < a \/ l > a \/ l = a
      BY ConstantTypes DEF Layers
    <3> QED BY <3>1, <3>2, Zenon DEF a
  <2>6. CASE l > f.at
    BY <2>4, <2>6, Zenon
  <2>7. CASE l = f.at
    <3>1. f.phase = "enter"
      BY <2>7, Zenon DEF Quiet, At
    <3>2. "enter" # "serial" /\ "enter" # "packet"
      OBVIOUS
    <3>3. layer[f.at] = y
      BY <2>4, <3>1, <3>2, Zenon DEF Stands
    <3> QED BY <2>4, <2>7, <3>3, Zenon
  <2>8. CASE l < f.at
    <3>1. f.at # 1
      <4> DEFINE a == f.at
      <4>1. a \in Layers /\ l < a
        BY <2>5, <2>8, Zenon
      <4> HIDE DEF a
      <4>2. a # 1
        BY <4>1, ConstantTypes DEF Layers
      <4> QED BY <4>2, Zenon DEF a
    <3>2. Commits(y, f) \/ Len(way[m].pend) < RouteChunk
      BY <2>4, <3>1, Zenon DEF Stands
    <3>3. AtRest(Left(y, f, way[m]))
      BY <2>4, <3>2, LeftIs, Zenon
    <3> QED BY <2>4, <2>8, <3>3, Zenon
  <2> QED BY <2>5, <2>6, <2>7, <2>8, Zenon
<1> QED BY <1>1, <1>2, Zenon

\* FollowersAgree is what RoutedInv says between forwards.
LEMMA AgreeFollows ==
    ASSUME RoutedInv
    PROVE  FollowersAgree
  BY WhenQuiet, Zenon DEF FollowersAgree

\* WithinPlan.
LEMMA PlanFollows ==
    ASSUME RoutedInv
    PROVE  WithinPlan
<1> SUFFICES ASSUME NEW l \in Layers, Quiet(l)
             PROVE  LET y == layer[l]
                    IN  /\ Len(Readout(y)) <= MaterializedTokens
                        /\ Len(y.sink) + Len(y.pend) + Len(y.ring) + y.bankTokens
                             <= AuthoritativeTokens
  BY Zenon DEF WithinPlan
<1>1. AtRest(layer[l])
  BY QuietAtRest, Zenon
<1> QED BY <1>1, LayerWithinPlan, Zenon

\* What a slot keeps is in order and was counted in its mean.
LEMMA KeptInOrder ==
    ASSUME NEW y, Sound(y), NEW s \in Slots
    PROVE  LET kept == KV(y.spans[s]) IN
           /\ ToSet(kept) \subseteq y.means[s]
           /\ \A i \in 1 .. Len(kept) - 1 : kept[i] < kept[i + 1]
           /\ \A i \in DOMAIN y.spans[s] : y.spans[s][i].pos = y.spans[s][i].kv
<1> DEFINE spans == y.spans[s]  kept == KV(spans)
<1>1. spans \in Seq(Spans)
  BY LayerTypes, Zenon DEF Sound
<1>2. \A i \in DOMAIN spans : IsSpan(spans[i]) /\ ToSet(spans[i].kv) \subseteq y.means[s]
  BY Zenon DEF Sound, Placed
<1>3. \A i, j \in DOMAIN spans : i < j => LastOf(spans[i]) < FirstOf(spans[j])
  BY Zenon DEF Sound, Placed
<1>4. InOrder(spans)
  BY <1>2, <1>3, Zenon DEF InOrder
<1>5. /\ Len(kept) \in Nat
      /\ \A a, b \in 1 .. Len(kept) : a < b => kept[a] < kept[b]
      /\ \A x : x \in ToSet(kept) <=> \E j \in DOMAIN spans : x \in ToSet(spans[j].kv)
  BY <1>1, <1>4, KVInOrder, Zenon
<1>6. ToSet(kept) \subseteq y.means[s]
  BY <1>2, <1>5, Zenon
<1>7. \A i \in DOMAIN spans : spans[i].pos = spans[i].kv
  BY <1>2, Zenon DEF IsSpan
<1> HIDE DEF kept, spans
<1>8. \A i \in 1 .. Len(kept) - 1 : kept[i] < kept[i + 1]
  <2> TAKE i \in 1 .. Len(kept) - 1
  <2> DEFINE n == Len(kept)
  <2>1. i \in 1 .. n /\ i + 1 \in 1 .. n /\ i < i + 1
    <3>1. n \in Nat /\ i \in 1 .. n - 1
      BY <1>5, Zenon
    <3> HIDE DEF n
    <3> QED BY <3>1
  <2> QED BY <1>5, <2>1, Zenon
<1> QED BY <1>6, <1>7, <1>8, Zenon DEF kept, spans

\* PositionsKept.
LEMMA PositionsFollow ==
    ASSUME RoutedInv
    PROVE  PositionsKept
<1> SUFFICES ASSUME NEW l \in Layers, Quiet(l)
             PROVE  LET y == layer[l]
                        kept(s) == KV(y.spans[s])
                    IN  /\ y.sink = Positions(0, Min({SinkTokens, y.cumulative}))
                        /\ y.pend \o y.ring = Positions(Len(y.sink) + y.evicted, y.cumulative)
                        /\ Len(y.pend) < RouteChunk /\ Len(y.ring) <= RingTokens
                        /\ UNION Range(y.means) = SinkTokens .. SinkTokens + y.evicted - 1
                        /\ \A s, t \in Slots : s # t => y.means[s] \cap y.means[t] = {}
                        /\ \A s \in Slots :
                             /\ ToSet(kept(s)) \subseteq y.means[s]
                             /\ \A i \in 1 .. Len(kept(s)) - 1 : kept(s)[i] < kept(s)[i + 1]
                             /\ \A i \in DOMAIN y.spans[s] : y.spans[s][i].pos = y.spans[s][i].kv
  BY Zenon DEF PositionsKept
<1> DEFINE y == layer[l]
<1>1. AtRest(y)
  BY QuietAtRest, Zenon
<1>2. Sound(y) /\ Len(y.pend) < RouteChunk
  BY <1>1, Zenon DEF AtRest
<1>3. /\ y.sink = Positions(0, Min({SinkTokens, y.cumulative}))
      /\ y.pend \o y.ring = Positions(Len(y.sink) + y.evicted, y.cumulative)
      /\ Len(y.ring) <= RingTokens
      /\ UNION Range(y.means) = SinkTokens .. SinkTokens + y.evicted - 1
      /\ \A s, t \in Slots : s # t => y.means[s] \cap y.means[t] = {}
  BY <1>2, Zenon DEF Sound, Placed
<1>4. \A s \in Slots :
        /\ ToSet(KV(y.spans[s])) \subseteq y.means[s]
        /\ \A i \in 1 .. Len(KV(y.spans[s])) - 1 : KV(y.spans[s])[i] < KV(y.spans[s])[i + 1]
        /\ \A i \in DOMAIN y.spans[s] : y.spans[s][i].pos = y.spans[s][i].kv
  BY <1>2, KeptInOrder, Zenon
<1> HIDE DEF y
<1>5. l \in Layers
  OBVIOUS
<1> QED BY <1>2, <1>3, <1>4, Zenon DEF y

\* Only a padded group has tokens.
LEMMA TokensOfPadded ==
    ASSUME NEW g, NEW f, NEW state, Grouped(g, f, state), g.tokens # << >>
    PROVE  f = Idle /\ Padded(g, state) /\ g.tokens \in Seq(Nat)
<1>1. g # NoGroup
  <2>1. NoGroup.tokens = << >>
    BY DEF NoGroup
  <2> QED BY <2>1
<1>2. g \notin [kind : {"covered"}, layers : [Layers -> Counted], tokens : {<< >>}, folds : Nat]
  <2> DEFINE C == [Layers -> Counted]
  <2> HIDE DEF C
  <2>1. g \notin [kind : {"covered"}, layers : C, tokens : {<< >>}, folds : Nat]
    OBVIOUS
  <2> QED BY <2>1, Zenon DEF C
<1>3. /\ f = Idle /\ Padded(g, state)
      /\ g \in [kind : {"persistent", "transient"}, layers : {g.layers},
                tokens : Seq(Nat), folds : Nat]
  BY <1>1, <1>2, Zenon DEF Grouped
<1> DEFINE G == g.layers
<1> HIDE DEF G
<1>4. g \in [kind : {"persistent", "transient"}, layers : {G}, tokens : Seq(Nat), folds : Nat]
  BY <1>3, Zenon DEF G
<1>5. g.tokens \in Seq(Nat)
  BY <1>4
<1> QED BY <1>3, <1>5, Zenon

\* All but the last token of a run.
LEMMA FrontOfRun ==
    ASSUME NEW c \in Nat, NEW toks \in Seq(Nat), toks # << >>,
           toks = Positions(c, c + Len(toks))
    PROVE  /\ Len(toks) - 1 \in Nat /\ Front(toks) = Positions(c, c + (Len(toks) - 1))
<1> DEFINE n == Len(toks)  k == n - 1  u == Front(toks)
<1>1. n \in Nat /\ k \in Nat /\ k <= n /\ n > 0
  OBVIOUS
<1>2. \A i \in 1 .. n : toks[i] = c + i - 1
  <2> DEFINE p == Positions(c, c + n)
  <2> HIDE DEF n
  <2>1. c + n \in Nat /\ (c + n) - c = n
    BY <1>1
  <2>2. \A i \in 1 .. (c + n) - c : p[i] = c + i - 1
    BY <1>1, <2>1, PositionsAre, Zenon
  <2>3. toks = p
    BY Zenon DEF n
  <2> QED BY <2>1, <2>2, <2>3, Zenon
<1>3. u = SubSeq(toks, 1, k)
  BY Zenon DEF Front
<1>4. u \in Seq(Nat) /\ Len(u) = k /\ \A i \in 1 .. k : u[i] = toks[i]
  <2> DEFINE N == Nat
  <2>1. toks \in Seq(N) /\ k \in 0 .. Len(toks)
    BY <1>1
  <2> HIDE DEF u, k, N
  <2>2. /\ SubSeq(toks, 1, k) \in Seq(N) /\ Len(SubSeq(toks, 1, k)) = k
        /\ \A i \in 1 .. k : SubSeq(toks, 1, k)[i] = toks[i]
    BY <2>1, TakeFront
  <2> QED BY <1>3, <2>2, Zenon DEF N
<1> HIDE DEF u, n
<1>5. \A i \in 1 .. k : u[i] = c + i - 1
  BY <1>1, <1>2, <1>4
<1>6. c + k \in Nat /\ c <= c + k /\ (c + k) - c = k
  BY <1>1
<1>7. u = Positions(c, c + k)
  BY <1>4, <1>5, <1>6, PositionsEqual
<1> QED BY <1>1, <1>7, Zenon DEF u, n

\* Before the last decode of a padded group, no row alone would have folded.
LEMMA NoFoldMissed ==
    ASSUME NEW y, Sound(y), NEW toks \in Seq(Nat), toks # << >>,
           toks = Positions(y.cumulative, y.cumulative + Len(toks)),
           Len(y.pend) + Len(toks) <= RouteChunk
    PROVE  Len(Appended(y, Front(toks)).pend) < RouteChunk
<1> DEFINE c == y.cumulative  k == Len(toks) - 1  z == Appended(y, Front(toks))
           p == Len(y.pend)  q == Len(z.pend)
<1>1. c \in Nat /\ y.pend \in Seq(Nat)
  BY LayerTypes, Zenon DEF Sound
<1>2. k \in Nat /\ Front(toks) = Positions(c, c + k)
  BY <1>1, FrontOfRun, Zenon
<1>3. Sound(z) /\ q <= p + k
  <2> HIDE DEF k
  <2> QED BY <1>2, AppendedSound, Zenon
<1>4. z.pend \in Seq(Nat)
  BY <1>3, LayerTypes, Zenon DEF Sound
<1>5. q \in Nat /\ p \in Nat /\ Len(toks) \in Nat
  BY <1>1, <1>4
<1>6. p + Len(toks) <= RouteChunk
  OBVIOUS
<1> HIDE DEF z, p, q
<1> QED BY <1>3, <1>5, <1>6, ConstantTypes DEF q, z

\* A layer of a padded group.
LEMMA PaddedReads ==
    ASSUME RoutedInv, group.tokens # << >>, NEW l \in Layers
    PROVE  /\ Attended(group.layers[l], VisibleAfter(group.layers[1])) =
                Readout(Appended(layer[l], group.tokens))
           /\ NewTokens(group.layers[l]) = Tokens(group.tokens)
           /\ Len(Appended(layer[l], Front(group.tokens)).pend) < RouteChunk
<1> DEFINE g == group  toks == g.tokens  y == layer[l]  c == y.cumulative  k == Len(toks)
<1>1. forward = Idle /\ Padded(g, layer) /\ toks \in Seq(Nat) /\ toks # << >>
  <2>1. Grouped(g, forward, layer) /\ g.tokens # << >>
    BY Zenon DEF RoutedInv
  <2> HIDE DEF g
  <2>2. forward = Idle /\ Padded(g, layer) /\ g.tokens \in Seq(Nat)
    BY <2>1, TokensOfPadded, Zenon
  <2> QED BY <2>1, <2>2, Zenon
<1>2. 1 \in Layers /\ AtRest(y) /\ y = layer[1]
  BY <1>1, WhenQuiet, Zenon
<1>3. Sound(y) /\ Readout(y) \in Seq(Keys)
  BY <1>2, ReadoutIs, Zenon DEF AtRest
<1>4. /\ Holds(g.layers[l], y, toks) /\ SameShape(g.layers[l], g.layers[1])
      /\ Holds(g.layers[1], y, toks) /\ Shows(g.layers[1], Len(Readout(y)))
      /\ toks = Positions(c, c + k)
  BY <1>1, <1>2, Zenon DEF Padded
<1>5. k \in Nat
  BY <1>1
<1> HIDE DEF g, toks, y, c, k
<1>6. Attended(g.layers[l], VisibleAfter(g.layers[1])) = Readout(y) \o Tokens(toks)
  <2> DEFINE p == g.layers[l]  first == g.layers[1]
  <2>1. /\ Holds(p, y, toks) /\ Holds(first, y, toks) /\ SameShape(p, first)
        /\ toks \in Seq(Nat) /\ toks # << >>
        /\ Shows(first, Len(Readout(y))) /\ Readout(y) \in Seq(Keys)
    BY <1>1, <1>3, <1>4, Zenon
  <2> HIDE DEF p, first
  <2>2. Attended(p, VisibleAfter(first)) = Readout(y) \o Tokens(toks)
    BY <2>1, AttendedIs, Zenon
  <2> QED BY <2>2, Zenon DEF p, first
<1>7. Readout(Appended(y, toks)) = Readout(y) \o Tokens(toks)
  BY <1>3, <1>4, <1>5, ReadoutAppended, Zenon DEF c
<1>8. NewTokens(g.layers[l]) = Tokens(toks)
  BY <1>1, <1>4, NewTokensAre, Zenon
<1>9. Len(y.pend) + k <= RouteChunk
  <2>1. g.layers[l].pending = Len(y.pend) + k /\ g.layers[l].pending <= RouteChunk
    BY <1>4, Zenon DEF Holds, k
  <2> QED BY <2>1, Zenon
<1>10. Len(Appended(y, Front(toks)).pend) < RouteChunk
  BY <1>1, <1>3, <1>4, <1>9, NoFoldMissed, Zenon DEF c, k
<1> QED BY <1>6, <1>7, <1>8, <1>10, Zenon DEF g, toks, y

\* Before the last decode that is counted, a covered row has not folded.
LEMMA CoveredReads ==
    ASSUME RoutedInv, forward = Idle, group.kind = "covered", NEW l \in Layers,
           PlaceholderHasRoom(group.layers[l])
    PROVE  layer[l].cursor = group.folds
<1> DEFINE y == layer[1]  a == group.layers[l].pending
<1>1. layer[l] = y /\ Covers(group, y, 0) /\ Grouped(group, forward, layer)
  BY WhenQuiet, Zenon
<1>2. \/ a >= RouteChunk
      \/ y.cursor = group.folds /\ Len(y.pend) + 0 <= a
  BY <1>1, Zenon DEF Covers
<1>3. a \in Nat /\ a < RouteChunk
  <2>1. group \in [kind : {"covered"}, layers : [Layers -> Counted],
                   tokens : {<< >>}, folds : Nat]
    BY <1>1, GroupKinds, Zenon
  <2> DEFINE C == [Layers -> Counted]  g == group
  <2>2. g.layers \in C
    <3>1. g \in [kind : {"covered"}, layers : C, tokens : {<< >>}, folds : Nat]
      BY <2>1, Zenon
    <3> HIDE DEF C, g
    <3> QED BY <3>1
  <2> DEFINE q == g.layers[l]
  <2>3. q \in Counted /\ PlaceholderHasRoom(q)
    BY <2>2, Zenon
  <2> HIDE DEF q
  <2>4. q \in [reserved : Nat, consumed : Nat, pending : Nat] /\ q.pending < RouteChunk
    BY <2>3, Zenon DEF PlaceholderHasRoom, Counted
  <2>5. q.pending \in Nat
    BY <2>4
  <2> QED BY <2>4, <2>5, Zenon DEF q
<1> HIDE DEF a, y
<1>4. ~(a >= RouteChunk)
  BY <1>3, ConstantTypes
<1> QED BY <1>1, <1>2, <1>4, Zenon

\* ReadsAreExact.
LEMMA ReadsFollow ==
    ASSUME RoutedInv
    PROVE  ReadsAreExact
<1>1. ASSUME NEW l \in Layers, Quiet(l)
      PROVE  /\ ~layer[l].released => layer[l].dense = Readout(layer[l])
             /\ Width(layer[l]) = Len(Readout(layer[l]))
  <2>1. AtRest(layer[l])
    BY <1>1, QuietAtRest, Zenon
  <2> QED BY <2>1, ReadoutIs, Zenon DEF AtRest
<1> QED BY <1>1, PaddedReads, CoveredReads, Zenon DEF ReadsAreExact

\* The tokens of a layer stay in order and none is lost or doubled on its way from
\* the ring to the tail and from there to a slot, whatever a fold decides
\* (_drain_pending_routes, the packet path, _commit_route_fold).
THEOREM RoutedPositions == Spec => []PositionsKept
<1>1. RoutedInv => PositionsKept
  BY PositionsFollow, Zenon
<1> QED BY <1>1, RoutedInvariant, PTL

\* Between forwards every layer is as the leader is, no decision is left in the
\* log, and the features of the leader are those of what it kept
\* (_RouteDecisionCoordinator, _commit_slot_route_feats).
THEOREM RoutedFollowers == Spec => []FollowersAgree
<1>1. RoutedInv => FollowersAgree
  BY AgreeFollows, Zenon
<1> QED BY <1>1, RoutedInvariant, PTL

\* What a decode attends to, alone or in a padded group, is what the state of the
\* row says (_materialized_width, _PersistentPaddedDecodeLayer, commit_into).
THEOREM RoutedReads == Spec => []ReadsAreExact
<1>1. RoutedInv => ReadsAreExact
  BY ReadsFollow, Zenon
<1> QED BY <1>1, RoutedInvariant, PTL

\* A layer fits in what GemmaRoutedSpanConfig planned for it
\* (routed_authoritative_tokens, routed_materialized_tokens).
THEOREM RoutedPlan == Spec => []WithinPlan
<1>1. RoutedInv => WithinPlan
  BY PlanFollows, Zenon
<1> QED BY <1>1, RoutedInvariant, PTL

=============================================================================
