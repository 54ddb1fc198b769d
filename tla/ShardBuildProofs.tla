-------------------------- MODULE ShardBuildProofs --------------------------
(***************************************************************************)
(* Proofs about ShardBuild, for any selection, archive, shard size,        *)
(* windows, guards, number of builds and of aborts.  First the operators:  *)
(* the order of a shard's rows, quotas and rounds, a pass, the audit; then *)
(* the invariant, that every acceptable patch of a shard is recorded,      *)
(* buffered or still to come, and the theorems.                            *)
(***************************************************************************)
EXTENDS ShardBuild, FiniteSetTheorems, FunctionTheorems, WellFoundedInduction, TLAPS

LEMMA Constants ==
  /\ Total \in Nat \ {0} /\ PerShard \in Nat \ {0}
  /\ Windows \subseteq Nat \ {0}
  /\ RejectLimit \in Nat /\ SpeedAfter \in Nat \ {0}
  /\ \A l \in Lists : l.ids \in Seq(Patch)
  BY BuildAssumption

\* A set of numbers that is not empty has a least one.
LEMMA LeastNumber ==
  ASSUME NEW T \in SUBSET Nat, T # {}
  PROVE  \E m \in T : \A n \in T : m <= n
<1>1. IsWellFoundedOn(OpToRel(<, Nat), Nat)
  BY NatLessThanWellFounded
<1>2. PICK m \in T : \A n \in T : ~ (<<n, m>> \in OpToRel(<, Nat))
  BY <1>1, WFMin
<1>3. \A n \in T : ~ (n < m)
  BY <1>2 DEF OpToRel
<1> QED  BY <1>3

-----------------------------------------------------------------------------
(* Putting a set in order by numbers.                                      *)

\* As many numbers from 1 as a finite set has members, a different one for
\* each, are all of them.
LEMMA AllPlaces ==
  ASSUME NEW P, IsFiniteSet(P),
         NEW place \in [P -> 1 .. Cardinality(P)],
         \A p, q \in P : place[p] = place[q] => p = q
  PROVE  \A i \in 1 .. Cardinality(P) : \E p \in P : place[p] = i
<1> DEFINE n == Cardinality(P)
<1>1. n \in Nat
  BY FS_CardinalityType
<1>2. IsFiniteSet(1 .. n) /\ Cardinality(1 .. n) = n
  BY <1>1, FS_Interval
<1>3. place \in Injection(P, 1 .. n)
  BY DEF Injection, IsInjective
<1>4. place \in Surjection(P, 1 .. n)
  BY <1>2, <1>3, FS_Injection
<1> QED  BY <1>4 DEF Surjection

\* The place of a member is the number of members up to it.
LEMMA PlaceIsInjective ==
  ASSUME NEW P, IsFiniteSet(P), NEW key \in [P -> Int],
         \A p, q \in P : key[p] = key[q] => p = q
  PROVE  LET upTo(p) == {q \in P : key[q] <= key[p]}
         IN  /\ \A p \in P : Cardinality(upTo(p)) \in 1 .. Cardinality(P)
             /\ \A p, q \in P : Cardinality(upTo(p)) = Cardinality(upTo(q)) => p = q
<1> DEFINE upTo(p) == {q \in P : key[q] <= key[p]}
<1>1. ASSUME NEW p \in P
      PROVE  /\ IsFiniteSet(upTo(p)) /\ Cardinality(upTo(p)) \in 1 .. Cardinality(P)
             /\ p \in upTo(p)
  <2>1. upTo(p) \in SUBSET P /\ p \in upTo(p)
    OBVIOUS
  <2> HIDE DEF upTo
  <2>2. IsFiniteSet(upTo(p)) /\ Cardinality(upTo(p)) <= Cardinality(P)
    BY <2>1, FS_Subset
  <2>3. Cardinality(upTo(p)) \in Nat /\ Cardinality(P) \in Nat
    BY <2>2, FS_CardinalityType
  <2>4. Cardinality(upTo(p)) # 0
    BY <2>1, <2>2, FS_EmptySet
  <2> QED  BY <2>1, <2>2, <2>3, <2>4
<1>2. ASSUME NEW p \in P, NEW q \in P, key[p] < key[q]
      PROVE  Cardinality(upTo(p)) # Cardinality(upTo(q))
  <2>1. upTo(p) \in SUBSET upTo(q) /\ q \in upTo(q) /\ q \notin upTo(p)
    BY <1>2
  <2> HIDE DEF upTo
  <2> QED  BY <2>1, <1>1, FS_Subset
<1>3. ASSUME NEW p \in P, NEW q \in P, Cardinality(upTo(p)) = Cardinality(upTo(q))
      PROVE  p = q
  <2>1. ~(key[p] < key[q]) /\ ~(key[q] < key[p])
    BY <1>2, <1>3
  <2>2. key[p] \in Int /\ key[q] \in Int
    OBVIOUS
  <2> QED  BY <2>1, <2>2
<1> QED  BY <1>1, <1>3

-----------------------------------------------------------------------------
(* The selection.                                                          *)

Selected == candidates \in Seq(Patch)

\* Each candidate has a rank, and different ones have different ranks.
LEMMA RankType ==
  ASSUME Selected, NEW p \in Ids(candidates)
  PROVE  /\ Rank(p) \in 0 .. Len(candidates) - 1
         /\ candidates[Rank(p) + 1] = p
         /\ p \in Patch
<1>1. \E i \in DOMAIN candidates : candidates[i] = p
  BY DEF Ids, Range
<1>2. (CHOOSE i \in DOMAIN candidates : candidates[i] = p) \in 1 .. Len(candidates)
      /\ candidates[CHOOSE i \in DOMAIN candidates : candidates[i] = p] = p
  BY <1>1 DEF Selected
<1> DEFINE c == CHOOSE i \in DOMAIN candidates : candidates[i] = p
<1>3. Rank(p) = c - 1
  BY DEF Rank
<1> HIDE DEF c
<1>4. c \in 1 .. Len(candidates) /\ candidates[c] = p
  BY <1>2 DEF c
<1>5. Len(candidates) \in Nat
  BY DEF Selected
<1>6. candidates[c] \in Patch
  BY <1>4 DEF Selected
<1> QED  BY <1>3, <1>4, <1>5, <1>6

LEMMA RanksDiffer ==
  ASSUME Selected, NEW p \in Ids(candidates), NEW q \in Ids(candidates),
         Rank(p) = Rank(q)
  PROVE  p = q
  BY RankType

LEMMA CandidatesFinite ==
  ASSUME Selected PROVE IsFiniteSet(Ids(candidates))
<1>1. Len(candidates) \in Nat /\ DOMAIN candidates = 1 .. Len(candidates)
      /\ candidates \in [1 .. Len(candidates) -> Ids(candidates)]
  BY DEF Selected, Ids, Range
<1>2. candidates \in Surjection(1 .. Len(candidates), Ids(candidates))
  BY <1>1 DEF Surjection, Ids, Range
<1>3. IsFiniteSet(1 .. Len(candidates))
  BY <1>1, FS_Interval
<1> QED  BY <1>2, <1>3, FS_Surjection

\* Shards are numbered by rank.
LEMMA Division ==
  ASSUME NEW n \in Nat, NEW m \in Nat \ {0}, NEW r \in 0 .. n - 1
  PROVE  /\ r \div m \in 0 .. ((n + m - 1) \div m) - 1
         /\ m * (r \div m) <= r /\ r < m * (r \div m) + m
  OBVIOUS

LEMMA ShardOfIsShard ==
  ASSUME Selected, NEW p \in Ids(candidates)
  PROVE  ShardOf(p) \in Shards
<1>1. Rank(p) \in 0 .. Len(candidates) - 1 /\ Len(candidates) \in Nat
  BY RankType DEF Selected
<1>2. PerShard \in Nat \ {0}
  BY Constants
<1> QED  BY <1>1, <1>2, Division DEF ShardOf, Shards, ShardCount

\* No more candidates have the ranks of a shard than it takes.
LEMMA ShardHasRoom ==
  ASSUME Selected, NEW k \in Int
  PROVE  LET P == {p \in Ids(candidates) : ShardOf(p) = k}
         IN  IsFiniteSet(P) /\ Cardinality(P) <= PerShard
<1> DEFINE P == {p \in Ids(candidates) : ShardOf(p) = k}
           low == PerShard * k
           T == low .. low + PerShard - 1
           f == [p \in P |-> Rank(p)]
<1>1. PerShard \in Nat \ {0} /\ low \in Int
  BY Constants
<1>2. ASSUME NEW p \in P PROVE Rank(p) \in T
  <2>1. Rank(p) \in 0 .. Len(candidates) - 1 /\ Len(candidates) \in Nat /\ Rank(p) \div PerShard = k
    BY RankType DEF Selected, ShardOf
  <2>2. low <= Rank(p) /\ Rank(p) < low + PerShard
    BY <2>1, <1>1, Division
  <2> QED  BY <2>1, <2>2, <1>1
<1>3. f \in [P -> T]
  BY <1>2
<1>4. f \in Injection(P, T)
  BY <1>3, RanksDiffer DEF Injection, IsInjective
<1>5. IsFiniteSet(T) /\ Cardinality(T) = PerShard
  BY <1>1, FS_Interval
<1> QED  BY <1>4, <1>5, FS_Injection

-----------------------------------------------------------------------------
(* The rows of a shard.                                                    *)

\* A set of candidates in selection order is that set, each of them once.
LEMMA InOrderIsOrder ==
  ASSUME Selected, NEW P \in SUBSET Ids(candidates)
  PROVE  /\ IsFiniteSet(P) /\ Cardinality(P) \in Nat
         /\ InOrder(P) \in [1 .. Cardinality(P) -> P]
         /\ \A i, j \in 1 .. Cardinality(P) : InOrder(P)[i] = InOrder(P)[j] => i = j
         /\ Ids(InOrder(P)) = P
<1> DEFINE n == Cardinality(P)
           upTo(p) == {q \in P : Rank(q) <= Rank(p)}
           key == [p \in P |-> Rank(p)]
           place == [p \in P |-> Cardinality(upTo(p))]
<1>1. IsFiniteSet(P) /\ n \in Nat
  BY CandidatesFinite, FS_Subset, FS_CardinalityType
<1>2. key \in [P -> Int] /\ \A p, q \in P : key[p] = key[q] => p = q
  <2>1. \A p \in P : Rank(p) \in Int
    BY RankType
  <2> QED  BY <2>1, RanksDiffer
<1>3. \A p \in P : upTo(p) = {q \in P : key[q] <= key[p]}
  OBVIOUS
<1> HIDE DEF key
<1>4. /\ \A p \in P : Cardinality({q \in P : key[q] <= key[p]}) \in 1 .. n
      /\ \A p, q \in P : Cardinality({x \in P : key[x] <= key[p]}) =
                         Cardinality({x \in P : key[x] <= key[q]}) => p = q
  BY <1>1, <1>2, PlaceIsInjective
<1>5. /\ \A p \in P : Cardinality(upTo(p)) \in 1 .. n
      /\ \A p, q \in P : Cardinality(upTo(p)) = Cardinality(upTo(q)) => p = q
  BY <1>3, <1>4
<1>6. InOrder(P) = [i \in 1 .. n |-> CHOOSE p \in P : Cardinality(upTo(p)) = i]
  BY DEF InOrder
<1> HIDE DEF upTo, n
<1>7. place \in [P -> 1 .. n] /\ \A p, q \in P : place[p] = place[q] => p = q
  BY <1>5
<1>8. \A i \in 1 .. n : \E p \in P : place[p] = i
  BY <1>1, <1>7, AllPlaces DEF n
<1>9. \A i \in 1 .. n : \E p \in P : Cardinality(upTo(p)) = i
  BY <1>8
<1>10. \A i \in 1 .. n : InOrder(P)[i] \in P /\ Cardinality(upTo(InOrder(P)[i])) = i
  BY <1>6, <1>9
<1>11. InOrder(P) \in [1 .. n -> P]
  BY <1>6, <1>10
<1>12. ASSUME NEW p \in P PROVE p \in Ids(InOrder(P))
  <2>1. Cardinality(upTo(p)) \in 1 .. n
    BY <1>5
  <2>2. InOrder(P)[Cardinality(upTo(p))] = p
    BY <2>1, <1>5, <1>10
  <2> QED  BY <2>1, <2>2, <1>11 DEF Ids, Range
<1>13. Ids(InOrder(P)) \subseteq P
  BY <1>11 DEF Ids, Range
<1> QED  BY <1>1, <1>10, <1>11, <1>12, <1>13 DEF n

-----------------------------------------------------------------------------
(* The quotas of the tiles.                                                *)

\* Induction, for a property given as the set of the numbers that have it.
LEMMA Induction ==
  ASSUME NEW S, 0 \in S, \A n \in Nat : n \in S => n + 1 \in S
  PROVE  Nat \subseteq S
<1> SUFFICES ASSUME Nat \ S # {} PROVE FALSE
  OBVIOUS
<1>1. PICK m \in Nat \ S : \A n \in Nat \ S : m <= n
  BY LeastNumber
<1>2. m # 0 /\ m - 1 \in Nat
  BY <1>1
<1>3. m - 1 \in S
  BY <1>1, <1>2
<1> QED  BY <1>1, <1>2, <1>3

Tilings == [Tile -> Nat]
Empty == [t \in Tile |-> 0]

LEMMA TilesAreSome ==
  /\ Tiles \in Nat \ {0} /\ Tile = 0 .. Tiles - 1 /\ Tile \subseteq Nat
  /\ IsFiniteSet(Tile)
<1>1. Tiles \in Nat \ {0}
  BY SelectionAssumption
<1> QED  BY <1>1, FS_Interval DEF Tile

LEMMA TurnsOf ==
  ASSUME NEW q \in Tilings
  PROVE  /\ Turns(q) = {x \in Tile \X Nat : 1 <= x[2] /\ x[2] <= q[x[1]]}
         /\ IsFiniteSet(Turns(q)) /\ Dealt(q) \in Nat
<1>1. Turns(q) = {x \in Tile \X Nat : 1 <= x[2] /\ x[2] <= q[x[1]]}
  <2>1. ASSUME NEW x \in Turns(q)
        PROVE  x \in Tile \X Nat /\ 1 <= x[2] /\ x[2] <= q[x[1]]
    <3>1. PICK t \in Tile : x \in {t} \X (1 .. q[t])
      BY DEF Turns
    <3>2. q[t] \in Nat
      BY DEF Tilings
    <3> QED  BY <3>1, <3>2
  <2>2. ASSUME NEW x \in Tile \X Nat, 1 <= x[2], x[2] <= q[x[1]]
        PROVE  x \in Turns(q)
    <3>1. x \in {x[1]} \X (1 .. q[x[1]])
      BY <2>2 DEF Tilings
    <3> QED  BY <3>1 DEF Turns
  <2> QED  BY <2>1, <2>2
<1> DEFINE column == [t \in Tile |-> {t} \X (1 .. q[t])]
           columns == {column[t] : t \in Tile}
<1>2. column \in Surjection(Tile, columns)
  BY DEF Surjection
<1>3. IsFiniteSet(columns)
  BY <1>2, TilesAreSome, FS_Surjection
<1>4. ASSUME NEW c \in columns PROVE IsFiniteSet(c)
  <2>1. PICK t \in Tile : c = {t} \X (1 .. q[t])
    OBVIOUS
  <2>2. q[t] \in Nat
    BY DEF Tilings
  <2>3. IsFiniteSet({t}) /\ IsFiniteSet(1 .. q[t])
    <3>1. IsFiniteSet({t})
      BY FS_Singleton
    <3>2. IsFiniteSet(1 .. q[t])
      BY <2>2, FS_Interval
    <3> QED  BY <3>1, <3>2
  <2> QED  BY <2>1, <2>3, FS_Product
<1>5. Turns(q) = UNION columns
  BY DEF Turns
<1>6. IsFiniteSet(Turns(q))
  BY <1>3, <1>4, <1>5, FS_UNION
<1> QED  BY <1>1, <1>6, FS_CardinalityType DEF Dealt

LEMMA DealtOfEmpty == Empty \in Tilings /\ Dealt(Empty) = 0
<1>1. Empty \in Tilings
  BY DEF Empty, Tilings
<1>2. Turns(Empty) = {}
  BY <1>1, TurnsOf DEF Empty
<1> QED  BY <1>1, <1>2, FS_EmptySet DEF Dealt

\* A visit deals a patch of its tile or none.
LEMMA VisitDeals ==
  ASSUME NEW q \in Tilings, NEW t \in Tile
  PROVE  LET r == [q EXCEPT ![t] = @ + 1]
         IN  r \in Tilings /\ Dealt(r) = Dealt(q) + 1
<1> DEFINE r == [q EXCEPT ![t] = @ + 1]
           new == <<t, q[t] + 1>>
<1>1. r \in Tilings /\ q[t] \in Nat
  BY DEF Tilings
<1>2. r[t] = q[t] + 1 /\ \A u \in Tile : u # t => r[u] = q[u]
  BY DEF Tilings
<1> HIDE DEF r
<1>3. Turns(r) = Turns(q) \cup {new} /\ new \notin Turns(q)
  <2>1. new \in Tile \X Nat /\ new[1] = t /\ new[2] = q[t] + 1
    BY <1>1
  <2>2. \A x \in Tile \X Nat : x # new => (x[1] = t => x[2] # q[t] + 1)
    OBVIOUS
  <2>3. \A x \in Tile \X Nat : x # new =>
          (x[2] <= r[x[1]] <=> x[2] <= q[x[1]])
    BY <1>1, <1>2, <2>2 DEF Tilings
  <2>4. Turns(q) = {x \in Tile \X Nat : 1 <= x[2] /\ x[2] <= q[x[1]]}
        /\ Turns(r) = {x \in Tile \X Nat : 1 <= x[2] /\ x[2] <= r[x[1]]}
    BY <1>1, TurnsOf
  <2>5. new \in Turns(r) /\ new \notin Turns(q)
    BY <1>1, <1>2, <2>1, <2>4
  <2> QED  BY <2>1, <2>3, <2>4, <2>5
<1>4. IsFiniteSet(Turns(q)) /\ Dealt(q) \in Nat
  BY TurnsOf
<1>5. Cardinality(Turns(r)) = Cardinality(Turns(q)) + 1
  BY <1>3, <1>4, FS_AddElement
<1> QED  BY <1>1, <1>5 DEF Dealt, r

\* More is dealt where every tile gives more, and no tile gives more than all.
LEMMA DealtGrows ==
  ASSUME NEW q \in Tilings, NEW r \in Tilings, \A t \in Tile : q[t] <= r[t]
  PROVE  Dealt(q) <= Dealt(r)
<1>1. Turns(q) \subseteq Turns(r)
  <2>1. Turns(q) = {x \in Tile \X Nat : 1 <= x[2] /\ x[2] <= q[x[1]]}
        /\ Turns(r) = {x \in Tile \X Nat : 1 <= x[2] /\ x[2] <= r[x[1]]}
    BY TurnsOf
  <2>2. \A x \in Tile \X Nat : q[x[1]] \in Nat /\ r[x[1]] \in Nat /\ q[x[1]] <= r[x[1]]
    BY DEF Tilings
  <2> QED  BY <2>1, <2>2
<1> QED  BY <1>1, TurnsOf, FS_Subset DEF Dealt

LEMMA DealtIsMore ==
  ASSUME NEW q \in Tilings, NEW t \in Tile
  PROVE  q[t] <= Dealt(q)
<1> DEFINE mine == {t} \X (1 .. q[t])
           f == [i \in 1 .. q[t] |-> <<t, i>>]
<1>1. q[t] \in Nat /\ IsFiniteSet(1 .. q[t]) /\ Cardinality(1 .. q[t]) = q[t]
  BY FS_Interval DEF Tilings
<1>2. f \in [1 .. q[t] -> Turns(q)]
  BY DEF Turns
<1>3. f \in Injection(1 .. q[t], Turns(q))
  BY <1>2 DEF Injection, IsInjective
<1> QED  BY <1>1, <1>3, TurnsOf, FS_Injection DEF Dealt

-----------------------------------------------------------------------------
\* There is a sequence from a start that takes the steps it is given.
Steps(f, T, start, N, step) ==
  f \in [0 .. N -> T] /\ f[0] = start /\ \A v \in 1 .. N : f[v] = step[<<v, f[v-1]>>]

LEMMA Recursion ==
  ASSUME NEW T, NEW start \in T, NEW N \in Nat, NEW step \in [(1 .. N) \X T -> T]
  PROVE  \E f : Steps(f, T, start, N, step)
<1> DEFINE upTo(m) == {f \in [0 .. m -> T] :
                         f[0] = start /\ \A v \in 1 .. m : f[v] = step[<<v, f[v-1]>>]}
           S == {m \in Nat : m <= N => upTo(m) # {}}
<1>1. 0 \in S
  <2>1. [v \in 0 .. 0 |-> start] \in upTo(0)
    OBVIOUS
  <2> QED  BY <2>1
<1>2. ASSUME NEW m \in Nat, m \in S PROVE m + 1 \in S
  <2> SUFFICES ASSUME m + 1 <= N PROVE upTo(m + 1) # {}
    OBVIOUS
  <2>1. PICK f \in [0 .. m -> T] : f[0] = start /\ \A v \in 1 .. m : f[v] = step[<<v, f[v-1]>>]
    BY <1>2
  <2>2. m + 1 \in 1 .. N /\ f[m] \in T
    BY <2>1
  <2> DEFINE last == step[<<m + 1, f[m]>>]
             g == [v \in 0 .. m + 1 |-> IF v <= m THEN f[v] ELSE last]
  <2>3. last \in T
    BY <2>2
  <2>4. g \in [0 .. m + 1 -> T] /\ g[0] = start
    BY <2>1, <2>3
  <2>5. ASSUME NEW v \in 1 .. m + 1 PROVE g[v] = step[<<v, g[v-1]>>]
    <3>1. g[v-1] = f[v-1]
      OBVIOUS
    <3>2. CASE v <= m
      BY <2>1, <3>1, <3>2
    <3>3. CASE v = m + 1
      <4>1. g[v] = last /\ v - 1 = m
        BY <3>3
      <4> QED  BY <3>1, <3>3, <4>1
    <3> QED  BY <3>2, <3>3
  <2>6. g \in upTo(m + 1)
    BY <2>4, <2>5
  <2> QED  BY <2>6
<1> HIDE DEF S
<1>3. N \in S
  BY <1>1, <1>2, Induction
<1> QED  BY <1>3 DEF S, Steps

\* The visits are what the recursive definition says.
LEMMA VisitsStep ==
  ASSUME NEW stock \in Tilings, NEW n \in Nat
  PROVE  /\ Visits(stock, n)[0] = Empty
         /\ \A v \in 1 .. n * Tiles :
              Visits(stock, n)[v] =
                Visit(stock, n, Visits(stock, n)[v-1], (v-1) % Tiles)
<1> DEFINE N == n * Tiles
           Next1(q, v) == Visit(stock, n, q, (v-1) % Tiles)
           Body(f) == [v \in 0 .. N |-> IF v = 0 THEN Empty ELSE Next1(f[v-1], v)]
           step == [x \in (1 .. N) \X Tilings |-> Next1(x[2], x[1])]
<1>1. N \in Nat /\ Tiles \in Nat \ {0}
  BY TilesAreSome
<1>2. ASSUME NEW q \in Tilings, NEW v \in 1 .. N PROVE Next1(q, v) \in Tilings
  <2>1. (v-1) % Tiles \in Tile
    BY TilesAreSome DEF Tile
  <2> QED  BY <2>1, VisitDeals DEF Visit
<1> HIDE DEF Next1, N
<1>3. step \in [(1 .. N) \X Tilings -> Tilings]
  BY <1>2
<1>4. \A q \in Tilings, v \in 1 .. N : step[<<v, q>>] = Next1(q, v)
  OBVIOUS
<1> HIDE DEF step
<1>5. PICK f \in [0 .. N -> Tilings] :
        f[0] = Empty /\ \A v \in 1 .. N : f[v] = step[<<v, f[v-1]>>]
  <2>1. Empty \in Tilings
    BY DealtOfEmpty
  <2>2. \E f : Steps(f, Tilings, Empty, N, step)
    BY <1>1, <1>3, <2>1, Recursion
  <2> QED  BY <2>2 DEF Steps
<1>6. f = Body(f)
  <2>1. f = [v \in 0 .. N |-> f[v]]
    BY <1>5
  <2>2. \A v \in 1 .. N : f[v-1] \in Tilings /\ v # 0
    BY <1>1, <1>5
  <2>3. \A v \in 1 .. N : f[v] = Next1(f[v-1], v)
    BY <1>4, <1>5, <2>2
  <2>4. \A v \in 0 .. N : f[v] = IF v = 0 THEN Empty ELSE Next1(f[v-1], v)
    BY <1>1, <1>5, <2>2, <2>3
  <2> QED  BY <2>1, <2>4
<1>7. Visits(stock, n) = CHOOSE h : h = Body(h)
  BY DEF Visits, Empty, Next1, N
<1>8. Visits(stock, n) = Body(Visits(stock, n))
  BY <1>6, <1>7
<1>9. \A v \in 0 .. N :
        Visits(stock, n)[v] = IF v = 0 THEN Empty ELSE Next1(Visits(stock, n)[v-1], v)
  BY <1>8
<1>10. Visits(stock, n)[0] = Empty
  BY <1>1, <1>9
<1>11. \A v \in 1 .. N : Visits(stock, n)[v] = Next1(Visits(stock, n)[v-1], v)
  BY <1>1, <1>9
<1> QED  BY <1>10, <1>11 DEF Next1, N

\* How often tile t is visited in v visits.
Rounds(v, t) == (v + (Tiles - 1 - t)) \div Tiles

LEMMA RoundOfDivision ==
  ASSUME NEW m \in Nat \ {0}, NEW x \in Nat, NEW y \in Nat,
         m * y <= x, x < m * y + m
  PROVE  x \div m = y
<1>1. x \div m \in Nat /\ m * (x \div m) <= x /\ x < m * (x \div m) + m
  OBVIOUS
<1> DEFINE z == x \div m
<1> HIDE DEF z
<1>2. z \in Nat /\ m * z <= x /\ x < m * z + m
  BY <1>1 DEF z
<1>3. ~(z < y)
  <2> SUFFICES ASSUME z + 1 <= y PROVE FALSE
    BY <1>2
  <2>1. m * (z + 1) <= m * y
    BY <1>2
  <2> QED  BY <2>1, <1>2
<1>4. ~(y < z)
  <2> SUFFICES ASSUME y + 1 <= z PROVE FALSE
    BY <1>2
  <2>1. m * (y + 1) <= m * z
    BY <1>2
  <2> QED  BY <2>1, <1>2
<1> QED  BY <1>2, <1>3, <1>4 DEF z

LEMMA RoundsStep ==
  ASSUME NEW v \in Nat, NEW t \in Tile
  PROVE  /\ Rounds(v, t) \in Nat /\ Rounds(0, t) = 0
         /\ Rounds(v + 1, t) = IF t = v % Tiles THEN Rounds(v, t) + 1 ELSE Rounds(v, t)
<1>1. Tiles \in Nat \ {0} /\ t \in 0 .. Tiles - 1
  BY TilesAreSome
<1> DEFINE r == v % Tiles
           d == v \div Tiles
<1>2. r \in 0 .. Tiles - 1 /\ d \in Nat /\ v = Tiles * d + r
  BY <1>1
<1> HIDE DEF r, d
<1>3. Tiles * d \in Nat /\ Tiles * (d + 1) = Tiles * d + Tiles
  BY <1>1, <1>2
<1>4. Rounds(v, t) = IF t < r THEN d + 1 ELSE d
  <2>1. CASE t < r
    <3>1. Tiles * (d + 1) <= v + (Tiles - 1 - t) /\ v + (Tiles - 1 - t) < Tiles * (d + 1) + Tiles
      BY <1>1, <1>2, <1>3, <2>1
    <3> QED  BY <1>1, <1>2, <3>1, <2>1, RoundOfDivision DEF Rounds
  <2>2. CASE ~(t < r)
    <3>1. Tiles * d <= v + (Tiles - 1 - t) /\ v + (Tiles - 1 - t) < Tiles * d + Tiles
      BY <1>1, <1>2, <1>3, <2>2
    <3> QED  BY <1>1, <1>2, <3>1, <2>2, RoundOfDivision DEF Rounds
  <2> QED  BY <2>1, <2>2
<1>5. Rounds(v + 1, t) = IF t <= r THEN d + 1 ELSE d
  <2>1. CASE t <= r
    <3>1. Tiles * (d + 1) <= v + 1 + (Tiles - 1 - t)
          /\ v + 1 + (Tiles - 1 - t) < Tiles * (d + 1) + Tiles
      BY <1>1, <1>2, <1>3, <2>1
    <3> QED  BY <1>1, <1>2, <3>1, <2>1, RoundOfDivision DEF Rounds
  <2>2. CASE ~(t <= r)
    <3>1. Tiles * d <= v + 1 + (Tiles - 1 - t) /\ v + 1 + (Tiles - 1 - t) < Tiles * d + Tiles
      BY <1>1, <1>2, <1>3, <2>2
    <3> QED  BY <1>1, <1>2, <3>1, <2>2, RoundOfDivision DEF Rounds
  <2> QED  BY <2>1, <2>2
<1>6. Rounds(0, t) = 0
  <2>1. Tiles * 0 <= 0 + (Tiles - 1 - t) /\ 0 + (Tiles - 1 - t) < Tiles * 0 + Tiles
    BY <1>1
  <2> QED  BY <1>1, <2>1, RoundOfDivision DEF Rounds
<1> QED  BY <1>1, <1>2, <1>4, <1>5, <1>6 DEF r

LEMMA RoundsAreEven ==
  ASSUME NEW v \in Nat, NEW t \in Tile, NEW u \in Tile
  PROVE  Rounds(v, u) <= Rounds(v, t) + 1
<1>1. Tiles \in Nat \ {0} /\ t \in 0 .. Tiles - 1 /\ u \in 0 .. Tiles - 1
  BY TilesAreSome
<1> DEFINE y == Rounds(v, u)
           x == v + (Tiles - 1 - u)
<1>2. y \in Nat /\ Tiles * y <= x
  BY <1>1 DEF Rounds
<1> DEFINE z == Rounds(v, t)
<1>3. z \in Nat /\ v + (Tiles - 1 - t) < Tiles * z + Tiles
  BY <1>1 DEF Rounds
<1> HIDE DEF y, z
<1>4. Tiles * y < Tiles * z + Tiles + Tiles
  BY <1>1, <1>2, <1>3
<1> SUFFICES ASSUME z + 2 <= y PROVE FALSE
  BY <1>2, <1>3 DEF y, z
<1>5. Tiles * (z + 2) <= Tiles * y
  BY <1>1, <1>2, <1>3
<1> QED  BY <1>1, <1>2, <1>3, <1>4, <1>5

LEMMA RoundsAtEnd ==
  ASSUME NEW n \in Nat, NEW t \in Tile
  PROVE  Rounds(n * Tiles, t) = n
<1>1. Tiles \in Nat \ {0} /\ t \in 0 .. Tiles - 1 /\ n * Tiles \in Nat /\ n * Tiles = Tiles * n
  BY TilesAreSome
<1>2. Tiles * n <= n * Tiles + (Tiles - 1 - t) /\ n * Tiles + (Tiles - 1 - t) < Tiles * n + Tiles
  BY <1>1
<1> QED  BY <1>1, <1>2, RoundOfDivision DEF Rounds

-----------------------------------------------------------------------------
\* After v visits each tile has given what w visits would take of it alone,
\* where w is v unless all are dealt.
Even(stock, n, q, v) ==
  /\ q \in Tilings /\ Dealt(q) <= n
  /\ \E w \in 0 .. v :
       /\ w = v \/ Dealt(q) = n
       /\ \A t \in Tile : q[t] = LowerOf(stock[t], Rounds(w, t))

LEMMA VisitIsEven ==
  ASSUME NEW stock \in Tilings, NEW n \in Nat, NEW v \in Nat, NEW q,
         Even(stock, n, q, v)
  PROVE  Even(stock, n, Visit(stock, n, q, v % Tiles), v + 1)
<1>1. PICK w \in 0 .. v :
        /\ w = v \/ Dealt(q) = n
        /\ \A t \in Tile : q[t] = LowerOf(stock[t], Rounds(w, t))
  BY DEF Even
<1> DEFINE s == v % Tiles
           r == Visit(stock, n, q, s)
<1>2. s \in Tile /\ q \in Tilings /\ Dealt(q) \in Nat /\ Dealt(q) <= n
  BY TilesAreSome, TurnsOf DEF Even, Tile
<1>3. CASE Dealt(q) < n /\ q[s] < stock[s]
  <2>1. w = v /\ r = [q EXCEPT ![s] = @ + 1]
    BY <1>1, <1>2, <1>3 DEF Visit
  <2> HIDE DEF s, r
  <2>2. r \in Tilings /\ Dealt(r) = Dealt(q) + 1
    BY <1>2, <2>1, VisitDeals
  <2>3. ASSUME NEW t \in Tile PROVE r[t] = LowerOf(stock[t], Rounds(v + 1, t))
    <3>1. /\ Rounds(v, t) \in Nat /\ stock[t] \in Nat
          /\ Rounds(v + 1, t) = IF t = s THEN Rounds(v, t) + 1 ELSE Rounds(v, t)
      BY RoundsStep DEF Tilings, s
    <3>2. q[t] = LowerOf(stock[t], Rounds(v, t))
      BY <1>1, <2>1
    <3>3. r[t] = IF t = s THEN q[t] + 1 ELSE q[t]
      BY <1>2, <2>1 DEF Tilings
    <3>4. CASE t = s
      BY <3>1, <3>2, <3>3, <3>4, <1>3 DEF LowerOf
    <3>5. CASE t # s
      BY <3>1, <3>2, <3>3, <3>5
    <3> QED  BY <3>4, <3>5
  <2>4. Dealt(r) <= n
    BY <1>2, <1>3, <2>2
  <2>5. v + 1 \in 0 .. v + 1
    OBVIOUS
  <2> QED  BY <2>2, <2>3, <2>4, <2>5 DEF Even, s, r
<1>4. CASE Dealt(q) = n
  <2>1. r = q /\ w \in 0 .. v + 1
    BY <1>2, <1>4 DEF Visit
  <2> HIDE DEF s, r
  <2> QED  BY <1>1, <1>2, <1>4, <2>1 DEF Even, r, s
<1>5. CASE Dealt(q) < n /\ ~(q[s] < stock[s])
  <2>1. r = q /\ w = v
    BY <1>1, <1>2, <1>5 DEF Visit
  <2> HIDE DEF s, r
  <2>3. ASSUME NEW t \in Tile PROVE r[t] = LowerOf(stock[t], Rounds(v + 1, t))
    <3>1. /\ Rounds(v, t) \in Nat /\ stock[t] \in Nat /\ q[t] \in Nat
          /\ Rounds(v + 1, t) = IF t = s THEN Rounds(v, t) + 1 ELSE Rounds(v, t)
      BY <1>2, RoundsStep DEF Tilings, s
    <3>2. q[t] = LowerOf(stock[t], Rounds(v, t)) /\ r[t] = q[t]
      BY <1>1, <2>1
    <3>4. CASE t = s
      BY <3>1, <3>2, <3>4, <1>5 DEF LowerOf
    <3>5. CASE t # s
      BY <3>1, <3>2, <3>5
    <3> QED  BY <3>4, <3>5
  <2>5. v + 1 \in 0 .. v + 1
    OBVIOUS
  <2> QED  BY <1>2, <2>1, <2>3, <2>5 DEF Even, s, r
<1> QED  BY <1>2, <1>3, <1>4, <1>5

LEMMA VisitsAreEven ==
  ASSUME NEW stock \in Tilings, NEW n \in Nat
  PROVE  Even(stock, n, Quotas(stock, n), n * Tiles)
<1> DEFINE N == n * Tiles
           S == {v \in Nat : v <= N => Even(stock, n, Visits(stock, n)[v], v)}
<1>1. N \in Nat
  BY TilesAreSome
<1>2. 0 \in S
  <2>1. Visits(stock, n)[0] = Empty
    BY VisitsStep
  <2>2. \A t \in Tile : Empty[t] = LowerOf(stock[t], Rounds(0, t))
    BY RoundsStep DEF Empty, LowerOf, Tilings
  <2>3. Even(stock, n, Empty, 0)
    BY <2>2, DealtOfEmpty DEF Even
  <2> QED  BY <2>1, <2>3
<1>3. ASSUME NEW v \in Nat, v \in S PROVE v + 1 \in S
  <2> SUFFICES ASSUME v + 1 <= N PROVE Even(stock, n, Visits(stock, n)[v + 1], v + 1)
    OBVIOUS
  <2>1. Even(stock, n, Visits(stock, n)[v], v)
    BY <1>1, <1>3
  <2>2. v + 1 \in 1 .. n * Tiles
    BY <1>1
  <2>3. Visits(stock, n)[v + 1] =
          Visit(stock, n, Visits(stock, n)[(v + 1) - 1], ((v + 1) - 1) % Tiles)
    BY <2>2, VisitsStep
  <2>4. (v + 1) - 1 = v
    OBVIOUS
  <2>5. Visits(stock, n)[v + 1] = Visit(stock, n, Visits(stock, n)[v], v % Tiles)
    BY <2>3, <2>4
  <2> QED  BY <2>1, <2>5, VisitIsEven
<1> HIDE DEF S
<1>4. N \in S
  BY <1>1, <1>2, <1>3, Induction
<1> QED  BY <1>1, <1>4 DEF S, Quotas

\* The quotas: no tile gives more than it has; one that is left with patches
\* is not behind another by more than one; all are dealt that can be.
LEMMA QuotasAreEven ==
  ASSUME NEW stock \in Tilings, NEW n \in Nat
  PROVE  LET q == Quotas(stock, n)
         IN  /\ q \in Tilings
             /\ \A t \in Tile : q[t] <= stock[t]
             /\ \A t, u \in Tile : q[t] < stock[t] => q[u] <= q[t] + 1
             /\ Dealt(q) = LowerOf(n, Dealt(stock))
<1> DEFINE q == Quotas(stock, n)
<1> HIDE DEF q
<1>1. Even(stock, n, q, n * Tiles)
  BY VisitsAreEven DEF q
<1>2. PICK w \in 0 .. n * Tiles :
        /\ w = n * Tiles \/ Dealt(q) = n
        /\ \A t \in Tile : q[t] = LowerOf(stock[t], Rounds(w, t))
  BY <1>1 DEF Even
<1>3. w \in Nat
  OBVIOUS
<1>4. \A t \in Tile : Rounds(w, t) \in Nat /\ stock[t] \in Nat
  BY <1>3, RoundsStep DEF Tilings
<1>5. q \in Tilings /\ Dealt(q) <= n /\ Dealt(q) \in Nat /\ Dealt(stock) \in Nat
  BY <1>1, TurnsOf DEF Even
<1>6. \A t \in Tile : q[t] <= stock[t] /\ q[t] \in Nat
  BY <1>2, <1>4 DEF LowerOf
<1>7. ASSUME NEW t \in Tile, NEW u \in Tile, q[t] < stock[t] PROVE q[u] <= q[t] + 1
  <2>1. q[t] = Rounds(w, t)
    BY <1>2, <1>4, <1>7 DEF LowerOf
  <2>2. q[u] <= Rounds(w, u)
    BY <1>2, <1>4 DEF LowerOf
  <2>3. Rounds(w, u) <= Rounds(w, t) + 1
    BY <1>3, RoundsAreEven
  <2>4. q[u] \in Nat /\ Rounds(w, u) \in Nat /\ Rounds(w, t) \in Nat
    BY <1>4, <1>6
  <2> QED  BY <2>1, <2>2, <2>3, <2>4
<1>8. Dealt(q) <= Dealt(stock)
  BY <1>5, <1>6, DealtGrows
<1>9. ASSUME Dealt(q) # n PROVE q = stock
  <2>1. w = n * Tiles
    BY <1>2, <1>9
  <2>2. ASSUME NEW t \in Tile PROVE q[t] = stock[t]
    <3>1. Rounds(w, t) = n
      BY <2>1, RoundsAtEnd
    <3>2. q[t] <= Dealt(q)
      BY <1>5, DealtIsMore
    <3>3. q[t] < n
      BY <3>2, <1>5, <1>6, <1>9
    <3> QED  BY <1>2, <1>4, <3>1, <3>3 DEF LowerOf
  <2> QED  BY <2>2, <1>5 DEF Tilings
<1>10. Dealt(q) = LowerOf(n, Dealt(stock))
  BY <1>5, <1>8, <1>9 DEF LowerOf
<1> QED  BY <1>5, <1>6, <1>7, <1>10 DEF q

-----------------------------------------------------------------------------
(* The selection of the quotas, in rounds.                                 *)

TurnAt(turns, i) == CHOOSE x \in turns : Cardinality(UpTo(turns, x)) = i

\* The order of the rounds is that of a number.
LEMMA KeyOrder ==
  ASSUME NEW x \in Tile \X Nat, NEW y \in Tile \X Nat
  PROVE  /\ Tiles * x[2] + x[1] \in Int
         /\ (y[2] < x[2] \/ (y[2] = x[2] /\ y[1] <= x[1]))
              <=> Tiles * y[2] + y[1] <= Tiles * x[2] + x[1]
         /\ Tiles * y[2] + y[1] = Tiles * x[2] + x[1] => x = y
<1> DEFINE a == x[1]  b == x[2]  c == y[1]  d == y[2]
<1>1. /\ Tiles \in Nat \ {0} /\ a \in 0 .. Tiles - 1 /\ c \in 0 .. Tiles - 1
      /\ b \in Nat /\ d \in Nat /\ x = <<a, b>> /\ y = <<c, d>>
  BY TilesAreSome
<1> HIDE DEF a, b, c, d
<1>2. Tiles * b \in Int /\ Tiles * d \in Int
  BY <1>1
<1>3. CASE b = d
  BY <1>1, <1>2, <1>3 DEF a, b, c, d
<1>4. CASE b < d
  <2>1. Tiles * (b + 1) <= Tiles * d /\ Tiles * (b + 1) = Tiles * b + Tiles
    BY <1>1, <1>4
  <2> QED  BY <1>1, <1>2, <1>4, <2>1 DEF a, b, c, d
<1>5. CASE d < b
  <2>1. Tiles * (d + 1) <= Tiles * b /\ Tiles * (d + 1) = Tiles * d + Tiles
    BY <1>1, <1>5
  <2> QED  BY <1>1, <1>2, <1>5, <2>1 DEF a, b, c, d
<1> QED  BY <1>1, <1>3, <1>4, <1>5

\* Every turn has a place, and every place a turn.
LEMMA TurnsInOrder ==
  ASSUME NEW turns \in SUBSET (Tile \X Nat), IsFiniteSet(turns)
  PROVE  LET n == Cardinality(turns)
         IN  /\ n \in Nat
             /\ \A x \in turns : Cardinality(UpTo(turns, x)) \in 1 .. n
                              /\ TurnAt(turns, Cardinality(UpTo(turns, x))) = x
             /\ \A i \in 1 .. n : TurnAt(turns, i) \in turns
                               /\ Cardinality(UpTo(turns, TurnAt(turns, i))) = i
<1> DEFINE n == Cardinality(turns)
           key == [x \in turns |-> Tiles * x[2] + x[1]]
           place == [x \in turns |-> Cardinality(UpTo(turns, x))]
<1>1. n \in Nat
  BY FS_CardinalityType
<1>2. key \in [turns -> Int] /\ \A p, q \in turns : key[p] = key[q] => p = q
  BY KeyOrder
<1>3. \A x \in turns : UpTo(turns, x) = {y \in turns : key[y] <= key[x]}
  BY KeyOrder DEF UpTo
<1> HIDE DEF key
<1>4. /\ \A p \in turns : Cardinality({q \in turns : key[q] <= key[p]}) \in 1 .. n
      /\ \A p, q \in turns : Cardinality({x \in turns : key[x] <= key[p]}) =
                             Cardinality({x \in turns : key[x] <= key[q]}) => p = q
  BY <1>2, PlaceIsInjective
<1>5. place \in [turns -> 1 .. n] /\ \A p, q \in turns : place[p] = place[q] => p = q
  BY <1>3, <1>4
<1>6. \A i \in 1 .. n : \E x \in turns : place[x] = i
  BY <1>5, AllPlaces
<1>7. \A i \in 1 .. n : TurnAt(turns, i) \in turns /\ Cardinality(UpTo(turns, TurnAt(turns, i))) = i
  BY <1>6 DEF TurnAt
<1>8. ASSUME NEW x \in turns
      PROVE  Cardinality(UpTo(turns, x)) \in 1 .. n
             /\ TurnAt(turns, Cardinality(UpTo(turns, x))) = x
  <2>1. Cardinality(UpTo(turns, x)) \in 1 .. n
    BY <1>5
  <2> QED  BY <2>1, <1>5, <1>7
<1> QED  BY <1>1, <1>7, <1>8

LEMMA StockIsTiling ==
  ASSUME NEW stock \in Available PROVE stock \in Tilings
  BY TilesAssumption DEF Tilings

\* The selection has each patch that is dealt once.
LEMMA SelectionIs ==
  ASSUME NEW stock \in Available, NEW n \in Nat
  PROVE  LET turns == Turns(Quotas(stock, n))
             sel == Selection(stock, n)
         IN  /\ turns \in SUBSET (Tile \X Nat) /\ IsFiniteSet(turns)
             /\ sel \in Seq(Patch) /\ Len(sel) = Cardinality(turns)
             /\ \A i \in 1 .. Len(sel) : sel[i][1] = TurnAt(turns, i)[1]
             /\ IsInjective(sel)
<1> DEFINE q == Quotas(stock, n)
           turns == Turns(q)
           sel == Selection(stock, n)
           N == Cardinality(turns)
           take(x) == Taken(stock, x[1], x[2])
<1>1. stock \in Tilings
  BY StockIsTiling
<1>2. q \in Tilings /\ \A t \in Tile : q[t] <= stock[t]
  BY <1>1, QuotasAreEven
<1> HIDE DEF q
<1>3. /\ turns = {x \in Tile \X Nat : 1 <= x[2] /\ x[2] <= q[x[1]]}
      /\ IsFiniteSet(turns)
  BY <1>2, TurnsOf
<1>4. ASSUME NEW x \in turns PROVE take(x) \in Patch /\ take(x)[1] = x[1]
  <2>1. x[1] \in Tile /\ x[2] \in 1 .. stock[x[1]]
    BY <1>1, <1>2, <1>3 DEF Tilings
  <2>2. TakeOrder[x[1]][stock[x[1]]] \in [1 .. stock[x[1]] -> 1 .. stock[x[1]]]
    BY <2>1, TilesAssumption
  <2>3. stock[x[1]] \in Nat /\ x[1] \in Nat
    BY <2>1, <1>1, TilesAreSome DEF Tilings
  <2>4. TakeOrder[x[1]][stock[x[1]]][x[2]] \in Nat
    <3> DEFINE f == TakeOrder[x[1]][stock[x[1]]]
               m == stock[x[1]]
    <3>1. f \in [1 .. m -> 1 .. m] /\ x[2] \in 1 .. m
      BY <2>1, <2>2
    <3> HIDE DEF f, m
    <3>2. f[x[2]] \in 1 .. m
      BY <3>1
    <3>3. f[x[2]] \in Nat
      BY <3>2
    <3> QED  BY <3>3 DEF f
  <2>5. take(x) = <<x[1], TakeOrder[x[1]][stock[x[1]]][x[2]]>>
    BY DEF Taken
  <2> QED  BY <2>3, <2>4, <2>5 DEF Patch
<1>5. ASSUME NEW x \in turns, NEW y \in turns, take(x) = take(y) PROVE x = y
  <2>1. x \in Tile \X Nat /\ y \in Tile \X Nat
        /\ x[2] \in 1 .. stock[x[1]] /\ y[2] \in 1 .. stock[y[1]]
    BY <1>1, <1>2, <1>3 DEF Tilings
  <2>2. x[1] = y[1] /\ TakeOrder[x[1]][stock[x[1]]][x[2]] = TakeOrder[x[1]][stock[x[1]]][y[2]]
    BY <1>5 DEF Taken
  <2>3. /\ TakeOrder[x[1]][stock[x[1]]] \in [1 .. stock[x[1]] -> 1 .. stock[x[1]]]
        /\ IsInjective(TakeOrder[x[1]][stock[x[1]]])
    BY <2>1, TilesAssumption
  <2>4. x[2] = y[2]
    BY <2>1, <2>2, <2>3 DEF IsInjective
  <2> QED  BY <2>1, <2>2, <2>4
<1>6. sel = [i \in 1 .. N |-> take(TurnAt(turns, i))]
  BY DEF Selection, TurnAt, q
<1> HIDE DEF sel, take, turns
<1>7. /\ N \in Nat
      /\ \A i \in 1 .. N : TurnAt(turns, i) \in turns
                        /\ Cardinality(UpTo(turns, TurnAt(turns, i))) = i
  BY <1>3, TurnsInOrder
<1> HIDE DEF N
<1>8. sel \in [1 .. N -> Patch]
  BY <1>4, <1>6, <1>7
<1>9. sel \in Seq(Patch) /\ Len(sel) = N
  BY <1>7, <1>8
<1>10. ASSUME NEW i \in 1 .. N, NEW j \in 1 .. N, sel[i] = sel[j] PROVE i = j
  <2>1. TurnAt(turns, i) = TurnAt(turns, j)
    BY <1>5, <1>6, <1>7, <1>10
  <2> QED  BY <2>1, <1>7
<1>11. IsInjective(sel)
  BY <1>8, <1>10 DEF IsInjective
<1>12. \A i \in 1 .. N : sel[i][1] = TurnAt(turns, i)[1]
  BY <1>4, <1>6, <1>7
<1> QED  BY <1>3, <1>9, <1>11, <1>12 DEF sel, turns, q, N

-----------------------------------------------------------------------------
(* Prefixes of the selection.                                              *)

\* Numbers from 1 with no gap are counted by the greatest.
LEMMA NoGap ==
  ASSUME NEW q \in Nat, NEW R \in SUBSET (1 .. q),
         \A r \in R : \A s \in 1 .. r : s \in R
  PROVE  Cardinality(R) \in 0 .. q /\ R = 1 .. Cardinality(R)
<1>1. PICK g \in Nat : /\ \A r \in R : r <= g
                       /\ \A n \in Nat : (\A r \in R : r <= n) => g <= n
  <2> DEFINE B == {n \in Nat : \A r \in R : r <= n}
  <2>1. q \in B
    OBVIOUS
  <2> QED  BY <2>1, LeastNumber
<1>2. g <= q
  BY <1>1
<1>3. R = 1 .. g
  <2>1. CASE g = 0
    BY <1>1, <2>1
  <2>2. CASE g # 0
    <3>1. g \in R
      <4> SUFFICES ASSUME g \notin R PROVE FALSE
        OBVIOUS
      <4>1. g - 1 \in Nat /\ \A r \in R : r <= g - 1
        BY <1>1, <2>2
      <4> QED  BY <4>1, <1>1
    <3>2. \A x \in 1 .. g : x \in R
      BY <3>1
    <3>3. \A x \in R : x \in 1 .. g
      BY <1>1
    <3> QED  BY <3>2, <3>3
  <2> QED  BY <2>1, <2>2
<1>4. Cardinality(1 .. g) = g
  BY FS_Interval
<1> QED  BY <1>2, <1>3, <1>4

\* Of a tile, the first m turns have the first rounds.
LEMMA PrefixHas ==
  ASSUME NEW q \in Tilings, NEW m \in 0 .. Cardinality(Turns(q)), NEW t \in Tile
  PROVE  LET turns == Turns(q)
             c == Cardinality({i \in 1 .. m : TurnAt(turns, i)[1] = t})
         IN  /\ c \in 0 .. q[t]
             /\ \A r \in 1 .. q[t] : Cardinality(UpTo(turns, <<t, r>>)) <= m <=> r <= c
<1> DEFINE turns == Turns(q)
           at(r) == Cardinality(UpTo(turns, <<t, r>>))
           I == {i \in 1 .. m : TurnAt(turns, i)[1] = t}
           R == {r \in 1 .. q[t] : at(r) <= m}
<1>1. /\ turns = {x \in Tile \X Nat : 1 <= x[2] /\ x[2] <= q[x[1]]}
      /\ IsFiniteSet(turns) /\ Cardinality(turns) \in Nat /\ q[t] \in Nat
  BY TurnsOf, FS_CardinalityType DEF Tilings
<1>2. \A r \in 1 .. q[t] : <<t, r>> \in turns
  BY <1>1
<1>3. /\ \A x \in turns : Cardinality(UpTo(turns, x)) \in 1 .. Cardinality(turns)
                       /\ TurnAt(turns, Cardinality(UpTo(turns, x))) = x
      /\ \A i \in 1 .. Cardinality(turns) :
           TurnAt(turns, i) \in turns /\ Cardinality(UpTo(turns, TurnAt(turns, i))) = i
  BY <1>1, TurnsInOrder
<1>4. ASSUME NEW r \in 1 .. q[t], NEW s \in 1 .. r PROVE at(s) <= at(r)
  <2>1. <<t, r>> \in turns /\ <<t, s>> \in turns
    BY <1>1, <1>2
  <2>2. UpTo(turns, <<t, s>>) \subseteq UpTo(turns, <<t, r>>)
    BY <1>1 DEF UpTo
  <2>3. IsFiniteSet(UpTo(turns, <<t, r>>))
    BY <1>1, FS_Subset DEF UpTo
  <2> HIDE DEF turns
  <2> QED  BY <2>2, <2>3, FS_Subset
<1>5. \A r \in 1 .. q[t] : at(r) \in Nat
  BY <1>1, <1>2, <1>3
<1> HIDE DEF turns, at
<1>6. R \in SUBSET (1 .. q[t]) /\ \A r \in R : \A s \in 1 .. r : s \in R
  <2>1. ASSUME NEW r \in R, NEW s \in 1 .. r PROVE s \in R
    <3>1. s \in 1 .. q[t] /\ r \in 1 .. q[t] /\ at(r) <= m
      BY <1>1
    <3>2. at(s) <= at(r) /\ at(s) \in Nat /\ at(r) \in Nat
      BY <1>4, <1>5, <3>1
    <3> QED  BY <3>1, <3>2
  <2> QED  BY <2>1
<1>7. Cardinality(R) \in 0 .. q[t] /\ R = 1 .. Cardinality(R)
  BY <1>1, <1>6, NoGap
<1> DEFINE f == [i \in I |-> TurnAt(turns, i)[2]]
<1>8. ASSUME NEW i \in I
      PROVE  /\ TurnAt(turns, i) = <<t, TurnAt(turns, i)[2]>>
             /\ TurnAt(turns, i)[2] \in R /\ at(TurnAt(turns, i)[2]) = i
  <2>1. i \in 1 .. Cardinality(turns) /\ i <= m
    BY <1>1 DEF turns
  <2>2. TurnAt(turns, i) \in turns /\ Cardinality(UpTo(turns, TurnAt(turns, i))) = i
    BY <1>3, <2>1
  <2>3. TurnAt(turns, i) = <<t, TurnAt(turns, i)[2]>> /\ TurnAt(turns, i)[2] \in 1 .. q[t]
    BY <1>1, <2>2
  <2> QED  BY <2>1, <2>2, <2>3 DEF at
<1>9. f \in [I -> R] /\ \A i, j \in I : f[i] = f[j] => i = j
  BY <1>8
<1>10. ASSUME NEW r \in R PROVE \E i \in I : f[i] = r
  <2>1. TurnAt(turns, at(r)) = <<t, r>> /\ at(r) \in 1 .. m
    BY <1>2, <1>3 DEF at
  <2> QED  BY <2>1
<1>11. f \in Bijection(I, R)
  BY <1>9, <1>10 DEF Bijection, Injection, Surjection, IsInjective
<1>12. IsFiniteSet(I)
  BY FS_Interval, FS_Subset
<1>13. Cardinality(R) = Cardinality(I)
  BY <1>11, <1>12, FS_Bijection DEF ExistsBijection
<1> DEFINE c == Cardinality(I)
<1>14. c \in 0 .. q[t] /\ R = 1 .. c
  BY <1>7, <1>13
<1>15. ASSUME NEW r \in 1 .. q[t] PROVE at(r) <= m <=> r <= c
  <2>1. at(r) <= m <=> r \in R
    OBVIOUS
  <2> HIDE DEF R, c
  <2>2. r \in R <=> r <= c
    BY <1>1, <1>14
  <2> QED  BY <2>1, <2>2
<1> QED  BY <1>14, <1>15 DEF turns, at

\* Of two tiles, one that is behind by more than one in a prefix has given all.
LEMMA PrefixIsBalanced ==
  ASSUME NEW stock \in Available, NEW n \in Nat,
         NEW m \in 0 .. Len(Selection(stock, n)), NEW t \in Tile, NEW u \in Tile,
         PrefixCount(Selection(stock, n), m, t) + 1 < PrefixCount(Selection(stock, n), m, u)
  PROVE  PrefixCount(Selection(stock, n), m, t) = stock[t]
<1> DEFINE q == Quotas(stock, n)
           turns == Turns(q)
           sel == Selection(stock, n)
           c(x) == Cardinality({i \in 1 .. m : TurnAt(turns, i)[1] = x})
           at(x, r) == Cardinality(UpTo(turns, <<x, r>>))
<1>1. /\ q \in Tilings /\ stock \in Tilings
      /\ q[t] <= stock[t] /\ (q[t] < stock[t] => q[u] <= q[t] + 1)
  BY StockIsTiling, QuotasAreEven
<1>2. Len(sel) = Cardinality(turns) /\ \A i \in 1 .. Len(sel) : sel[i][1] = TurnAt(turns, i)[1]
  BY SelectionIs
<1> HIDE DEF q, sel
<1>3. Len(sel) \in Nat /\ m \in 0 .. Cardinality(turns)
  BY <1>1, <1>2, TurnsOf DEF sel, Dealt
<1>4. ASSUME NEW x \in Tile PROVE PrefixCount(sel, m, x) = c(x)
  <2>1. {i \in 1 .. m : sel[i][1] = x} = {i \in 1 .. m : TurnAt(turns, i)[1] = x}
    BY <1>2, <1>3 DEF sel
  <2> QED  BY <2>1 DEF PrefixCount
<1>5. \A x \in Tile : /\ c(x) \in 0 .. q[x]
                      /\ \A r \in 1 .. q[x] : at(x, r) <= m <=> r <= c(x)
  BY <1>1, <1>3, PrefixHas
<1>6. c(t) + 1 < c(u)
  BY <1>4 DEF sel
<1> HIDE DEF c
<1>7. q[t] \in Nat /\ q[u] \in Nat /\ stock[t] \in Nat
  BY <1>1 DEF Tilings
<1>8. c(t) = q[t]
  <2> SUFFICES ASSUME c(t) # q[t] PROVE FALSE
    OBVIOUS
  <2> DEFINE x == <<t, c(t) + 1>>  y == <<u, c(u)>>
  <2>1. c(t) + 1 \in 1 .. q[t] /\ c(u) \in 1 .. q[u] /\ at(u, c(u)) <= m
    BY <1>5, <1>6, <1>7
  <2>2. UpTo(turns, x) \subseteq UpTo(turns, y)
    <3> SUFFICES ASSUME NEW z \in turns, z[2] < x[2] \/ (z[2] = x[2] /\ z[1] <= x[1])
                 PROVE  z[2] < y[2]
      BY DEF UpTo
    <3>1. z[2] \in Nat
      BY <1>1, TurnsOf
    <3> QED  BY <3>1, <2>1, <1>6
  <2>3. IsFiniteSet(turns) /\ UpTo(turns, y) \in SUBSET turns
    BY <1>1, TurnsOf DEF UpTo
  <2> HIDE DEF turns
  <2>4. IsFiniteSet(UpTo(turns, y)) /\ Cardinality(UpTo(turns, x)) <= Cardinality(UpTo(turns, y))
    BY <2>2, <2>3, FS_Subset
  <2>5. Cardinality(UpTo(turns, y)) \in Nat /\ Cardinality(UpTo(turns, x)) \in Nat
    BY <2>2, <2>4, FS_Subset, FS_CardinalityType
  <2>6. at(t, c(t) + 1) <= m
    BY <2>1, <2>4, <2>5
  <2> QED  BY <2>1, <2>6, <1>5
<1>9. c(u) <= q[u]
  BY <1>5, <1>7
<1> QED  BY <1>1, <1>4, <1>5, <1>6, <1>7, <1>8, <1>9 DEF sel

-----------------------------------------------------------------------------
(* The build in a single pass.                                             *)

Passes1(n) ==
  [pending : SUBSET (1 .. n), inflight : [1 .. n -> SUBSET Members(n)],
   accepted : Seq(1 .. n), rejected : SUBSET (1 .. n), raised : BOOLEAN]

\* Each candidate is still to come, or was accepted once, or rejected; bands
\* are kept of those to come only.
PassInv(s, n) ==
  /\ s \in Passes1(n)
  /\ 1 .. n = s.pending \cup Range(s.accepted) \cup s.rejected
  /\ s.pending \cap (Range(s.accepted) \cup s.rejected) = {}
  /\ Range(s.accepted) \cap s.rejected = {}
  /\ IsInjective(s.accepted)
  /\ \A c \in 1 .. n : s.inflight[c] # {} => c \in s.pending

LEMMA NewPassInv ==
  ASSUME NEW n \in Nat PROVE PassInv(NewPass(n), n)
  BY DEF PassInv, Passes1, NewPass, IsInjective, Range

LEMMA ReadKeeps ==
  ASSUME NEW n \in Nat, NEW s, PassInv(s, n), NEW m \in Members(n)
  PROVE  PassInv(Read(s, m), n)
<1> DEFINE c == m.of
           bands == {x \in s.inflight[c] : x.band # m.band} \cup {m}
           good == \A x \in bands : x.kind = "good"
<1>1. /\ s.pending \in SUBSET (1 .. n) /\ s.inflight \in [1 .. n -> SUBSET Members(n)]
      /\ s.accepted \in Seq(1 .. n) /\ s.rejected \in SUBSET (1 .. n) /\ s.raised \in BOOLEAN
      /\ s = [pending |-> s.pending, inflight |-> s.inflight, accepted |-> s.accepted,
              rejected |-> s.rejected, raised |-> s.raised]
      /\ c \in 1 .. n
  BY DEF PassInv, Passes1, Members
<1>2. bands \in SUBSET Members(n)
  BY <1>1
<1>3. \/ Read(s, m) = s
      \/ /\ c \in s.pending
         /\ \/ Read(s, m) = [s EXCEPT !.raised = TRUE]
            \/ Read(s, m) = Decided(s, m, bands)
            \/ Read(s, m) = [s EXCEPT !.inflight[m.of] = bands]
  BY DEF Read
<1> HIDE DEF bands
<1>4. CASE Read(s, m) = s
  BY <1>4
<1>5. CASE Read(s, m) = [s EXCEPT !.raised = TRUE]
  <2>1. Read(s, m) = [pending |-> s.pending, inflight |-> s.inflight, accepted |-> s.accepted,
                      rejected |-> s.rejected, raised |-> TRUE]
    BY <1>1, <1>5
  <2> QED  BY <1>1, <2>1 DEF PassInv, Passes1
<1>6. CASE c \in s.pending /\ Read(s, m) = [s EXCEPT !.inflight[m.of] = bands]
  <2> DEFINE held == [s.inflight EXCEPT ![c] = bands]
  <2>1. Read(s, m) = [pending |-> s.pending, inflight |-> held, accepted |-> s.accepted,
                      rejected |-> s.rejected, raised |-> s.raised]
    BY <1>1, <1>6
  <2>2. held \in [1 .. n -> SUBSET Members(n)]
        /\ \A d \in 1 .. n : d # c => held[d] = s.inflight[d]
    BY <1>1, <1>2
  <2> HIDE DEF held
  <2>3. Read(s, m) \in Passes1(n)
    BY <1>1, <2>1, <2>2 DEF Passes1
  <2>4. \A d \in 1 .. n : held[d] # {} => d \in s.pending
    BY <1>6, <2>2 DEF PassInv
  <2> QED  BY <2>1, <2>3, <2>4 DEF PassInv
<1>7. CASE c \in s.pending /\ Read(s, m) = Decided(s, m, bands)
  <2> DEFINE held == [s.inflight EXCEPT ![c] = {}]
             taken == IF good THEN Append(s.accepted, c) ELSE s.accepted
             left == IF good THEN s.rejected ELSE s.rejected \cup {c}
             t == Read(s, m)
  <2>1. t = [pending |-> s.pending \ {c}, inflight |-> held, accepted |-> taken,
             rejected |-> left, raised |-> s.raised]
    BY <1>1, <1>7 DEF Decided
  <2>2. held \in [1 .. n -> SUBSET Members(n)] /\ held[c] = {}
        /\ \A d \in 1 .. n : d # c => held[d] = s.inflight[d]
    BY <1>1
  <2>3. s.pending \cap (Range(s.accepted) \cup s.rejected) = {}
    BY DEF PassInv
  <2>4. /\ taken \in Seq(1 .. n) /\ IsInjective(taken)
        /\ Range(taken) = IF good THEN Range(s.accepted) \cup {c} ELSE Range(s.accepted)
    <3>1. CASE good
      <4> DEFINE l == Len(s.accepted)
      <4>1. l \in Nat /\ s.accepted \in [1 .. l -> 1 .. n]
        BY <1>1
      <4>0. taken = Append(s.accepted, c)
        BY <3>1
      <4> HIDE DEF taken, good, c
      <4>2. /\ taken \in Seq(1 .. n)
            /\ Len(taken) = l + 1 /\ taken[l + 1] = c
            /\ \A i \in 1 .. l : taken[i] = s.accepted[i]
        BY <1>1, <4>0
      <4>3. \A i \in 1 .. l : s.accepted[i] # c
        BY <1>7, <2>3, <4>1 DEF Range
      <4> HIDE DEF l
      <4>4. taken \in [1 .. l + 1 -> 1 .. n]
        BY <4>1, <4>2
      <4>5. IsInjective(taken)
        <5>1. ASSUME NEW i \in 1 .. l + 1, NEW j \in 1 .. l + 1, taken[i] = taken[j]
              PROVE  i = j
          <6>1. \A x, y \in 1 .. l : s.accepted[x] = s.accepted[y] => x = y
            BY <4>1 DEF PassInv, IsInjective
          <6> QED  BY <4>1, <4>2, <4>3, <5>1, <6>1
        <5> QED  BY <4>4, <5>1 DEF IsInjective
      <4>6. Range(taken) = Range(s.accepted) \cup {c}
        <5>1. ASSUME NEW x \in Range(taken) PROVE x \in Range(s.accepted) \cup {c}
          <6>1. PICK i \in 1 .. l + 1 : taken[i] = x
            BY <4>4 DEF Range
          <6>2. i \in 1 .. l \/ i = l + 1
            BY <4>1
          <6> QED  BY <4>1, <4>2, <6>1, <6>2 DEF Range
        <5>2. ASSUME NEW x \in Range(s.accepted) \cup {c} PROVE x \in Range(taken)
          <6>1. CASE x = c
            BY <4>1, <4>2, <4>4, <6>1 DEF Range
          <6>2. CASE x # c
            <7>1. PICK i \in 1 .. l : s.accepted[i] = x
              BY <4>1, <6>2 DEF Range
            <7>2. i \in 1 .. l + 1 /\ taken[i] = x
              BY <4>1, <4>2, <7>1
            <7> QED  BY <4>4, <7>2 DEF Range
          <6> QED  BY <6>1, <6>2
        <5> QED  BY <5>1, <5>2
      <4> QED  BY <3>1, <4>2, <4>5, <4>6
    <3>2. CASE ~good
      BY <1>1, <3>2 DEF PassInv
    <3> QED  BY <3>1, <3>2
  <2> HIDE DEF held, taken, good
  <2>5. left \in SUBSET (1 .. n)
    BY <1>1
  <2>6. t \in Passes1(n)
    BY <1>1, <2>1, <2>2, <2>4, <2>5 DEF Passes1
  <2>7. /\ 1 .. n = (s.pending \ {c}) \cup Range(taken) \cup left
        /\ (s.pending \ {c}) \cap (Range(taken) \cup left) = {}
        /\ Range(taken) \cap left = {}
    BY <1>7, <2>3, <2>4 DEF PassInv
  <2>8. \A d \in 1 .. n : held[d] # {} => d \in s.pending \ {c}
    BY <2>2 DEF PassInv
  <2> QED  BY <2>1, <2>4, <2>6, <2>7, <2>8 DEF PassInv
<1> QED  BY <1>3, <1>4, <1>5, <1>6, <1>7

LEMMA PassIsSound ==
  ASSUME NEW n \in Nat, NEW archive \in Seq(Members(n))
  PROVE  PassInv(Pass(archive, n), n)
<1> DEFINE N == Len(archive)
           T == {s \in Passes1(n) : PassInv(s, n)}
           Body(f) == [k \in 0 .. N |-> IF k = 0 THEN NewPass(n) ELSE Read(f[k-1], archive[k])]
           step == [x \in (1 .. N) \X T |-> Read(x[2], archive[x[1]])]
           after == CHOOSE h : h = Body(h)
<1>1. N \in Nat /\ \A k \in 1 .. N : archive[k] \in Members(n)
  OBVIOUS
<1>2. \A s : PassInv(s, n) <=> s \in T
  BY DEF PassInv
<1> HIDE DEF N, T
<1>3. NewPass(n) \in T
  BY <1>2, NewPassInv
<1>4. ASSUME NEW s \in T, NEW k \in 1 .. N PROVE Read(s, archive[k]) \in T
  BY <1>1, <1>2, ReadKeeps
<1>5. /\ step \in [(1 .. N) \X T -> T]
      /\ \A s \in T, k \in 1 .. N : step[<<k, s>>] = Read(s, archive[k])
  BY <1>4
<1> HIDE DEF step
<1>6. PICK f \in [0 .. N -> T] :
        f[0] = NewPass(n) /\ \A k \in 1 .. N : f[k] = step[<<k, f[k-1]>>]
  <2>1. \E f : Steps(f, T, NewPass(n), N, step)
    BY <1>1, <1>3, <1>5, Recursion
  <2> QED  BY <2>1 DEF Steps
<1>7. f = Body(f)
  <2>1. f = [k \in 0 .. N |-> f[k]]
    BY <1>6
  <2>2. \A k \in 1 .. N : f[k-1] \in T /\ k # 0
    BY <1>1, <1>6
  <2>3. \A k \in 1 .. N : f[k] = Read(f[k-1], archive[k])
    BY <1>5, <1>6, <2>2
  <2>4. \A k \in 0 .. N : f[k] = IF k = 0 THEN NewPass(n) ELSE Read(f[k-1], archive[k])
    BY <1>1, <1>6, <2>2, <2>3
  <2> QED  BY <2>1, <2>4
<1>8. after = Body(after)
  BY <1>7
<1>9. Pass(archive, n) = after[N]
  BY DEF Pass, N
<1> HIDE DEF after
<1>10. \A k \in 0 .. N : after[k] = IF k = 0 THEN NewPass(n) ELSE Read(after[k-1], archive[k])
  BY <1>8
<1> DEFINE S == {k \in Nat : k <= N => after[k] \in T}
<1>11. 0 \in S
  BY <1>1, <1>3, <1>10
<1>12. ASSUME NEW k \in Nat, k \in S PROVE k + 1 \in S
  <2> SUFFICES ASSUME k + 1 <= N PROVE after[k + 1] \in T
    OBVIOUS
  <2>1. after[k] \in T /\ k + 1 \in 1 .. N /\ k + 1 \in 0 .. N /\ (k + 1) - 1 = k
    BY <1>1, <1>12
  <2>2. after[k + 1] = Read(after[k], archive[k + 1])
    BY <1>10, <2>1
  <2> QED  BY <1>4, <2>1, <2>2
<1> HIDE DEF S
<1>13. N \in S
  BY <1>1, <1>11, <1>12, Induction
<1> QED  BY <1>1, <1>2, <1>9, <1>13 DEF S

\* Of n, in pieces of q, each but the last full: the i-th of piece k is the
\* (k-1) q + i-th, and each is in a piece.
LEMMA Pieces ==
  ASSUME NEW n \in Nat, NEW q \in Nat \ {0}
  PROVE  LET last == (n + q - 1) \div q
             high(k) == IF k * q < n THEN k * q ELSE n
         IN  /\ last \in Nat
             /\ \A k \in 1 .. last :
                  /\ (k - 1) * q \in 0 .. n - 1 /\ high(k) \in 1 .. n
                  /\ high(k) - (k - 1) * q \in 1 .. q
             /\ \A x \in 1 .. n :
                  /\ (x - 1) \div q + 1 \in 1 .. last
                  /\ x - ((x - 1) \div q) * q \in 1 .. high((x - 1) \div q + 1) - ((x - 1) \div q) * q
<1> DEFINE last == (n + q - 1) \div q
<1>1. last \in Nat /\ q * last <= n + q - 1 /\ n + q - 1 < q * last + q
  OBVIOUS
<1>2. ASSUME NEW k \in 1 .. last
      PROVE  (k - 1) * q \in Nat /\ (k - 1) * q < n /\ k * q = (k - 1) * q + q
  <2> HIDE DEF last
  <2>1. (k - 1) * q + q = k * q /\ (k - 1) * q \in Nat
    BY <1>1
  <2>2. q * k <= q * last
    BY <1>1
  <2> QED  BY <1>1, <2>1, <2>2
<1>3. ASSUME NEW x \in 1 .. n
      PROVE  LET y == (x - 1) \div q
             IN  /\ y \in Nat /\ y + 1 \in 1 .. last
                 /\ y * q <= x - 1 /\ x - 1 < y * q + q /\ (y + 1) * q = y * q + q
  <2> DEFINE y == (x - 1) \div q
  <2>1. y \in Nat /\ q * y <= x - 1 /\ x - 1 < q * y + q
    BY Division
  <2>2. y \in 0 .. last - 1
    BY Division
  <2> HIDE DEF y, last
  <2>3. y * q = q * y /\ (y + 1) * q = y * q + q /\ y + 1 \in 1 .. last
    BY <1>1, <2>1, <2>2
  <2> QED  BY <2>1, <2>3 DEF y
<1> HIDE DEF last
<1>4. ASSUME NEW k \in 1 .. last
      PROVE  LET high == IF k * q < n THEN k * q ELSE n
             IN  /\ (k - 1) * q \in 0 .. n - 1 /\ high \in 1 .. n
                 /\ high - (k - 1) * q \in 1 .. q
  <2> DEFINE a == (k - 1) * q  b == k * q
  <2>1. a \in Nat /\ a < n /\ b = a + q
    BY <1>2
  <2> HIDE DEF a, b
  <2>2. LET high == IF b < n THEN b ELSE n
        IN  a \in 0 .. n - 1 /\ high \in 1 .. n /\ high - a \in 1 .. q
    BY <2>1
  <2> QED  BY <2>2 DEF a, b
<1>5. ASSUME NEW x \in 1 .. n
      PROVE  LET y == (x - 1) \div q
                 high == IF (y + 1) * q < n THEN (y + 1) * q ELSE n
             IN  y + 1 \in 1 .. last /\ x - y * q \in 1 .. high - y * q
  <2> DEFINE y == (x - 1) \div q  a == y * q  b == (y + 1) * q
  <2>1. y \in Nat /\ y + 1 \in 1 .. last /\ a <= x - 1 /\ x - 1 < b /\ b = a + q
    BY <1>3
  <2>2. a \in Int /\ b \in Int
    BY <2>1
  <2> HIDE DEF y, a, b
  <2>3. LET high == IF b < n THEN b ELSE n IN x - a \in 1 .. high - a
    BY <2>1, <2>2
  <2> QED  BY <2>1, <2>3 DEF y, a, b
<1> QED  BY <1>1, <1>4, <1>5 DEF last

\* The rows of a plan, each as its shard and its place in it.
RowsOfPlan(s) == UNION {{k} \X DOMAIN Plan(s)[k] : k \in DOMAIN Plan(s)}

\* Each accepted candidate is one row of the plan, and no shard is too large.
LEMMA PlanIs ==
  ASSUME NEW n \in Nat, NEW s, PassInv(s, n)
  PROVE  /\ \A k \in DOMAIN Plan(s) : Len(Plan(s)[k]) <= OnePassShard
         /\ \A x, y \in RowsOfPlan(s) : Plan(s)[x[1]][x[2]] = Plan(s)[y[1]][y[2]] => x = y
         /\ Cardinality(RowsOfPlan(s)) = Len(s.accepted)
         /\ \A c \in Range(s.accepted) :
              Cardinality({k \in DOMAIN Plan(s) : c \in Range(Plan(s)[k])}) = 1
<1> DEFINE acc == s.accepted
           N == Len(acc)
           Q == OnePassShard
           P == Plan(s)
           last == (N + Q - 1) \div Q
           high(k) == IF k * Q < N THEN k * Q ELSE N
           low(k) == (k - 1) * Q
           rows == RowsOfPlan(s)
           f == [x \in rows |-> low(x[1]) + x[2]]
<1>1. Q \in Nat \ {0}
  BY OnePassAssumption
<1>2. acc \in Seq(1 .. n) /\ N \in Nat /\ acc \in [1 .. N -> 1 .. n]
      /\ \A i, j \in 1 .. N : acc[i] = acc[j] => i = j
  BY DEF PassInv, Passes1, IsInjective
<1>3. P = [k \in 1 .. last |-> SubSeq(acc, low(k) + 1, high(k))]
  BY DEF Plan
<1> HIDE DEF acc, N, Q, P
<1>4. /\ last \in Nat
      /\ \A k \in 1 .. last :
           low(k) \in 0 .. N - 1 /\ high(k) \in 1 .. N /\ high(k) - low(k) \in 1 .. Q
      /\ \A x \in 1 .. N :
           /\ (x - 1) \div Q + 1 \in 1 .. last
           /\ x - ((x - 1) \div Q) * Q \in 1 .. high((x - 1) \div Q + 1) - ((x - 1) \div Q) * Q
  BY <1>1, <1>2, Pieces
<1>5. ASSUME NEW x \in 1 .. N
      PROVE  \E k \in 1 .. last : \E i \in 1 .. high(k) - low(k) : low(k) + i = x
  <2> DEFINE y == (x - 1) \div Q
  <2>1. y \in Int
    BY <1>1, <1>2
  <2> HIDE DEF y, last
  <2>2. y + 1 \in 1 .. last /\ x - y * Q \in 1 .. high(y + 1) - y * Q
    BY <1>4 DEF y
  <2>3. low(y + 1) = y * Q
    BY <2>1
  <2>4. y * Q \in Int
    BY <2>1, <1>1
  <2>5. low(y + 1) + (x - y * Q) = x
    BY <2>3, <2>4, <1>2
  <2> HIDE DEF high, low
  <2> QED  BY <2>2, <2>3, <2>5
<1>6. ASSUME NEW k \in 1 .. last, NEW l \in 1 .. last, k < l PROVE low(k) + Q <= low(l)
  <2> HIDE DEF last
  <2>1. k \in Int /\ l \in Int /\ l - 1 >= k
    BY <1>4, <1>6
  <2>2. Q * k <= Q * (l - 1) /\ low(k) + Q = Q * k /\ low(l) = Q * (l - 1)
    BY <1>1, <2>1
  <2> QED  BY <2>2
<1> HIDE DEF last, high, low
<1>7. ASSUME NEW k \in 1 .. last
      PROVE  /\ P[k] \in Seq(1 .. n) /\ Len(P[k]) = high(k) - low(k) /\ Len(P[k]) \in 1 .. Q
             /\ DOMAIN P[k] = 1 .. high(k) - low(k)
             /\ \A i \in 1 .. high(k) - low(k) : low(k) + i \in 1 .. N /\ P[k][i] = acc[low(k) + i]
  <2> DEFINE a == low(k)  b == high(k)  S == SubSeq(acc, a + 1, b)
  <2>1. a \in 0 .. N - 1 /\ b \in 1 .. N /\ b - a \in 1 .. Q
    BY <1>4
  <2> HIDE DEF a, b
  <2>2. S \in Seq(1 .. n) /\ Len(S) = b - a /\ \A i \in 1 .. b - a : S[i] = acc[a + i]
    BY <1>2, <2>1 DEF N
  <2>3. P[k] = S
    BY <1>3 DEF a, b
  <2> HIDE DEF S
  <2>4. DOMAIN S = 1 .. b - a
    BY <2>2
  <2> QED  BY <1>2, <2>1, <2>2, <2>3, <2>4 DEF a, b
<1>8. DOMAIN P = 1 .. last
  BY <1>3
<1>9. rows = UNION {{k} \X (1 .. high(k) - low(k)) : k \in 1 .. last}
  BY <1>7, <1>8 DEF RowsOfPlan, P
<1> HIDE DEF rows
<1>10. ASSUME NEW x \in rows
       PROVE  /\ x[1] \in 1 .. last /\ x[2] \in 1 .. high(x[1]) - low(x[1])
              /\ x = <<x[1], x[2]>>
              /\ f[x] = low(x[1]) + x[2] /\ f[x] \in 1 .. N /\ P[x[1]][x[2]] = acc[f[x]]
  <2>1. x[1] \in 1 .. last /\ x[2] \in 1 .. high(x[1]) - low(x[1]) /\ x = <<x[1], x[2]>>
    BY <1>9
  <2>2. f[x] = low(x[1]) + x[2]
    OBVIOUS
  <2> HIDE DEF f
  <2> QED  BY <2>1, <2>2, <1>7
<1> HIDE DEF f
<1>11. ASSUME NEW x \in rows, NEW y \in rows, f[x] = f[y] PROVE x = y
  <2>0. ASSUME NEW z \in rows
        PROVE  /\ z[1] \in 1 .. last /\ z[1] \in Int /\ low(z[1]) \in Int
               /\ z[2] \in 1 .. Q
    <3>1. z[1] \in 1 .. last /\ z[2] \in 1 .. high(z[1]) - low(z[1])
      BY <1>10
    <3>2. low(z[1]) \in 0 .. N - 1 /\ high(z[1]) - low(z[1]) \in 1 .. Q
      BY <1>4, <3>1
    <3> QED  BY <3>1, <3>2, <1>1, <1>4
  <2>1. /\ x[1] \in 1 .. last /\ y[1] \in 1 .. last /\ x[1] \in Int /\ y[1] \in Int
        /\ low(x[1]) \in Int /\ low(y[1]) \in Int
        /\ x[2] \in 1 .. Q /\ y[2] \in 1 .. Q
        /\ low(x[1]) + x[2] = low(y[1]) + y[2]
    BY <2>0, <1>10, <1>11
  <2>2. x[1] = y[1]
    BY <1>1, <1>6, <2>1
  <2>3. x[2] = y[2]
    BY <2>1, <2>2
  <2> QED  BY <2>2, <2>3, <1>10
<1>12. ASSUME NEW v \in 1 .. N PROVE \E x \in rows : f[x] = v
  <2>1. PICK k \in 1 .. last : \E i \in 1 .. high(k) - low(k) : low(k) + i = v
    BY <1>5
  <2>2. PICK i \in 1 .. high(k) - low(k) : low(k) + i = v
    BY <2>1
  <2>3. <<k, i>> \in rows
    BY <1>9
  <2> QED  BY <2>2, <2>3, <1>10
<1>13. Cardinality(rows) = N
  <2>1. f \in [rows -> 1 .. N]
    <3>1. DOMAIN f = rows /\ f = [x \in rows |-> f[x]]
      BY DEF f
    <3> QED  BY <3>1, <1>10
  <2>2. f \in Bijection(rows, 1 .. N)
    BY <2>1, <1>11, <1>12 DEF Bijection, Injection, Surjection, IsInjective
  <2>3. IsFiniteSet(1 .. N) /\ Cardinality(1 .. N) = N
    BY <1>2, FS_Interval
  <2>4. IsFiniteSet(rows)
    BY <2>2, <2>3, FS_Injection DEF Bijection
  <2> QED  BY <2>2, <2>3, <2>4, FS_Bijection DEF ExistsBijection
<1>14. ASSUME NEW x \in rows, NEW y \in rows, P[x[1]][x[2]] = P[y[1]][y[2]] PROVE x = y
  BY <1>2, <1>10, <1>11, <1>14
<1>15. ASSUME NEW c \in Range(acc)
       PROVE  Cardinality({k \in DOMAIN P : c \in Range(P[k])}) = 1
  <2>1. PICK v \in 1 .. N : acc[v] = c
    BY <1>2 DEF Range
  <2>2. PICK x \in rows : f[x] = v
    BY <1>12
  <2>3. x[1] \in DOMAIN P /\ c \in Range(P[x[1]])
    BY <1>7, <1>8, <1>10, <2>1, <2>2 DEF Range
  <2>4. ASSUME NEW k \in DOMAIN P, c \in Range(P[k]) PROVE k = x[1]
    <3>1. PICK i \in 1 .. high(k) - low(k) : P[k][i] = c
      BY <1>7, <1>8, <2>4 DEF Range
    <3> DEFINE y == <<k, i>>
    <3>2. y \in rows /\ y[1] = k /\ y[2] = i
      BY <1>8, <1>9
    <3> HIDE DEF y
    <3>3. y = x
      BY <1>10, <1>14, <2>1, <2>2, <3>1, <3>2
    <3> QED  BY <3>2, <3>3
  <2>5. {k \in DOMAIN P : c \in Range(P[k])} = {x[1]}
    BY <2>3, <2>4
  <2> QED  BY <2>5, FS_Singleton
<1> QED  BY <1>7, <1>8, <1>13, <1>14, <1>15 DEF P, Q, N, acc, rows

\* A sequence with no value twice has as many values as places.
LEMMA InjectiveSequence ==
  ASSUME NEW S, NEW seq \in Seq(S), IsInjective(seq)
  PROVE  IsFiniteSet(Range(seq)) /\ Cardinality(Range(seq)) = Len(seq)
<1> DEFINE n == Len(seq)
<1>1. n \in Nat /\ DOMAIN seq = 1 .. n /\ seq \in [1 .. n -> Range(seq)]
  BY DEF Range
<1>2. seq \in Bijection(1 .. n, Range(seq))
  BY <1>1 DEF Bijection, Injection, Surjection, IsInjective, Range
<1>3. IsFiniteSet(1 .. n) /\ Cardinality(1 .. n) = n
  <2> HIDE DEF n
  <2> QED  BY <1>1, FS_Interval
<1> QED  BY <1>2, <1>3, FS_Bijection DEF ExistsBijection

\* Each candidate is accepted, rejected or never met.
LEMMA MeasuresAddUp ==
  ASSUME NEW n \in Nat, NEW s, PassInv(s, n)
  PROVE  /\ Rejected(s) \cap (Range(s.accepted) \cup NeverSeen(s)) = {}
         /\ Cardinality(DOMAIN s.inflight) = n
         /\ Cardinality(Rejected(s)) \in Nat /\ Cardinality(NeverSeen(s)) \in Nat
         /\ Len(s.accepted) \in Nat
         /\ Len(s.accepted) + Cardinality(Rejected(s)) + Cardinality(NeverSeen(s)) = n
<1> DEFINE A == Range(s.accepted)  R == Rejected(s)  U == NeverSeen(s)
<1>1. /\ DOMAIN s.inflight = 1 .. n /\ s.accepted \in Seq(1 .. n) /\ IsInjective(s.accepted)
      /\ 1 .. n = s.pending \cup A \cup s.rejected
      /\ s.pending \cap (A \cup s.rejected) = {} /\ A \cap s.rejected = {}
      /\ \A c \in 1 .. n : s.inflight[c] # {} => c \in s.pending
  BY DEF PassInv, Passes1
<1>2. IsFiniteSet(1 .. n) /\ Cardinality(1 .. n) = n
  BY FS_Interval
<1>3. IsFiniteSet(A) /\ Cardinality(A) = Len(s.accepted) /\ Len(s.accepted) \in Nat
  BY <1>1, InjectiveSequence
<1>4. /\ R \cap (A \cup U) = {} /\ A \cap U = {} /\ 1 .. n = A \cup (R \cup U)
      /\ R \in SUBSET (1 .. n) /\ U \in SUBSET (1 .. n)
  BY <1>1 DEF Rejected, Incomplete, NeverSeen
<1> HIDE DEF A, R, U
<1>5. IsFiniteSet(R) /\ IsFiniteSet(U)
  BY <1>2, <1>4, FS_Subset
<1>6. R \cap U = {} /\ A \cap (R \cup U) = {}
  BY <1>4
<1>7. Cardinality({}) = 0
  BY FS_EmptySet
<1>8. /\ IsFiniteSet(R \cup U)
      /\ Cardinality(R \cup U) = Cardinality(R) + Cardinality(U) - Cardinality(R \cap U)
  BY <1>5, FS_Union
<1>9. Cardinality(A \cup (R \cup U)) =
        Cardinality(A) + Cardinality(R \cup U) - Cardinality(A \cap (R \cup U))
  BY <1>3, <1>8, FS_Union
<1>10. Cardinality(R) \in Nat /\ Cardinality(U) \in Nat
  BY <1>5, FS_CardinalityType
<1>11. Cardinality(R \cup U) = Cardinality(R) + Cardinality(U)
  <2>1. Cardinality(R \cap U) = 0
    BY <1>6, <1>7
  <2> QED  BY <2>1, <1>8, <1>10
<1>12. n = Cardinality(A) + Cardinality(R \cup U)
  <2>1. Cardinality(A \cap (R \cup U)) = 0
    BY <1>6, <1>7
  <2>2. Cardinality(A \cup (R \cup U)) = n
    BY <1>2, <1>4
  <2> QED  BY <2>1, <2>2, <1>3, <1>9, <1>10, <1>11
<1> QED  BY <1>1, <1>2, <1>3, <1>4, <1>10, <1>11, <1>12 DEF A, R, U

\* So a build in one pass accounts for every candidate, whatever it meets.
LEMMA OnePassAccounts == Accounted
<1> SUFFICES ASSUME NEW archive \in Archives
    PROVE  LET s == Pass(archive, OnePassTotal)
               m == Measured(s)
               room == OnePassTotal + DiskBuffer
           IN /\ \A parts \in BOOLEAN, free \in {room - 1, room} :
                   ExitCode(parts, free, archive) = 0 <=> parts /\ free = room /\ ~Raises(s)
              /\ ~Raises(s) =>
                   /\ Rejected(s) \cap (Range(s.accepted) \cup NeverSeen(s)) = {}
                   /\ m.rows + m.rejected + m.neverSeen = m.selection /\ m.shortfall = m.rejected
                   /\ \A c \in Range(s.accepted) :
                        Cardinality({k \in DOMAIN Plan(s) : c \in Range(Plan(s)[k])}) = 1
                   /\ \A k \in DOMAIN Plan(s) : Len(Plan(s)[k]) <= OnePassShard
  BY DEF Accounted
<1> DEFINE n == OnePassTotal
           s == Pass(archive, n)
           room == n + DiskBuffer
<1>1. n \in Nat /\ DiskBuffer \in Nat /\ archive \in Seq(Members(n))
  BY OnePassAssumption
<1>2. PassInv(s, n)
  BY <1>1, PassIsSound
<1> HIDE DEF n
<1>3. VerifiedPlan(s)
  BY <1>1, <1>2, PlanIs DEF VerifiedPlan, RowsOfPlan
<1>4. ASSUME NEW parts \in BOOLEAN, NEW free \in {room - 1, room}
      PROVE  ExitCode(parts, free, archive) = 0 <=> parts /\ free = room /\ ~Raises(s)
  <2>1. free - n < DiskBuffer <=> free # room
    BY <1>1
  <2>2. ExitCode(parts, free, archive) =
          CASE ~parts -> 2
            [] parts /\ free # room -> 3
            [] OTHER -> IF Raises(s) THEN 1 ELSE 0
    BY <1>3, <2>1 DEF ExitCode, n
  <2> QED  BY <2>2
<1>5. /\ Rejected(s) \cap (Range(s.accepted) \cup NeverSeen(s)) = {}
      /\ Cardinality(DOMAIN s.inflight) = n
      /\ Cardinality(Rejected(s)) \in Nat /\ Cardinality(NeverSeen(s)) \in Nat
      /\ Len(s.accepted) \in Nat
      /\ Len(s.accepted) + Cardinality(Rejected(s)) + Cardinality(NeverSeen(s)) = n
  BY <1>1, <1>2, MeasuresAddUp
<1>6. LET m == Measured(s)
      IN  m.rows + m.rejected + m.neverSeen = m.selection /\ m.shortfall = m.rejected
  BY <1>1, <1>5 DEF Measured, Shortfall
<1>7. /\ \A c \in Range(s.accepted) :
           Cardinality({k \in DOMAIN Plan(s) : c \in Range(Plan(s)[k])}) = 1
      /\ \A k \in DOMAIN Plan(s) : Len(Plan(s)[k]) <= OnePassShard
  BY <1>1, <1>2, PlanIs
<1> QED  BY <1>4, <1>5, <1>6, <1>7 DEF n

-----------------------------------------------------------------------------
(* The audit.                                                              *)

\* The image of a finite set is finite.
LEMMA Image ==
  ASSUME NEW S, NEW f, IsFiniteSet(S), DOMAIN f = S
  PROVE  IsFiniteSet({f[x] : x \in S})
<1> DEFINE T == {f[x] : x \in S}  g == [x \in S |-> f[x]]
<1>1. g \in Surjection(S, T)
  BY DEF Surjection
<1> QED  BY <1>1, FS_Surjection

LEMMA PositionsAre ==
  ASSUME NEW set
  PROVE  /\ \A s \in Present(set) : \A i \in DOMAIN s.sidecar : <<s, i>> \in Positions(set)
         /\ \A x \in Positions(set) :
              x = <<x[1], x[2]>> /\ x[1] \in Present(set) /\ x[2] \in DOMAIN x[1].sidecar
<1>1. ASSUME NEW x \in Positions(set)
      PROVE  x = <<x[1], x[2]>> /\ x[1] \in Present(set) /\ x[2] \in DOMAIN x[1].sidecar
  <2>1. PICK s \in Present(set) : x \in {<<s, i>> : i \in DOMAIN s.sidecar}
    BY DEF Positions
  <2>2. PICK i \in DOMAIN s.sidecar : x = <<s, i>>
    BY <2>1
  <2> QED  BY <2>2
<1> QED  BY <1>1 DEF Positions

\* A sample is not empty.
LEMMA SamplesAreSome ==
  ASSUME NEW set, IsFiniteSet(set),
         \A s \in set : s.npz # Absent /\ IsFiniteSet(DOMAIN s.sidecar),
         Positions(set) # {}, NEW sample \in Samples(set)
  PROVE  sample \subseteq Positions(set) /\ sample # {}
<1> DEFINE rows == Positions(set)
           rowsOf == [g \in Groups(set) |-> RowsOf(set, g)]
           quota == [g \in DOMAIN rowsOf |-> Least(AuditPerGroup, Cardinality(rowsOf[g]))]
           dealt == {S \in SUBSET rows :
                       \A g \in DOMAIN rowsOf : Cardinality(S \cap rowsOf[g]) >= quota[g]}
           aim == Most(AuditFloor, AuditPerGroup * Cardinality(Groups(set)))
           needed == Least(Cardinality(rows), aim)
           sizes == {Cardinality(S) : S \in dealt}
           fewest == CHOOSE n \in sizes : \A S \in dealt : n <= Cardinality(S)
<1>1. sample \in dealt /\ Cardinality(sample) = Most(fewest, needed)
  BY DEF Samples
<1>2. IsFiniteSet(rows)
  <2>1. Present(set) = set
    BY DEF Present
  <2> DEFINE f == [s \in set |-> {<<s, i>> : i \in DOMAIN s.sidecar}]
  <2>2. rows = UNION {f[s] : s \in set}
    BY <2>1 DEF Positions
  <2>3. ASSUME NEW s \in set PROVE IsFiniteSet(f[s])
    <3> DEFINE h == [i \in DOMAIN s.sidecar |-> <<s, i>>]
    <3>1. f[s] = {h[i] : i \in DOMAIN s.sidecar}
      OBVIOUS
    <3>2. DOMAIN h = DOMAIN s.sidecar
      OBVIOUS
    <3> HIDE DEF h, f
    <3> QED  BY <3>1, <3>2, Image
  <2>4. DOMAIN f = set
    OBVIOUS
  <2> HIDE DEF f
  <2>5. IsFiniteSet({f[s] : s \in set})
    BY <2>4, Image
  <2> QED  BY <2>2, <2>3, <2>5, FS_UNION
<1>3. Cardinality(rows) \in Nat /\ Cardinality(rows) # 0
  <2> HIDE DEF rows
  <2> QED  BY <1>2, FS_CardinalityType, FS_EmptySet DEF rows
<1>4. Cardinality(Groups(set)) \in Nat
  <2> DEFINE f == [s \in Present(set) |-> GroupOf(set, s)]
  <2>1. Groups(set) = {f[s] : s \in Present(set)} /\ DOMAIN f = Present(set)
    BY DEF Groups
  <2> HIDE DEF f
  <2>2. IsFiniteSet(Present(set))
    BY FS_Subset DEF Present
  <2> QED  BY <2>1, <2>2, Image, FS_CardinalityType
<1>5. AuditPerGroup \in Nat /\ AuditFloor \in Nat \ {0}
  BY AuditAssumption
<1>6. aim \in Nat \ {0}
  <2> DEFINE g == Cardinality(Groups(set))
  <2> HIDE DEF g
  <2>1. AuditPerGroup * g \in Nat
    BY <1>4, <1>5 DEF g
  <2> QED  BY <1>5, <2>1 DEF Most, g
<1>7. needed \in Nat \ {0}
  BY <1>3, <1>6 DEF Least
<1>8. sizes \in SUBSET Nat /\ sizes # {}
  <2>1. \A S \in dealt : Cardinality(S) \in Nat
    <3>1. \A S \in SUBSET rows : Cardinality(S) \in Nat
      BY <1>2, FS_Subset, FS_CardinalityType
    <3> QED  BY <3>1
  <2> HIDE DEF dealt
  <2> QED  BY <1>1, <2>1
<1>9. fewest \in sizes
  <2>1. \E n \in sizes : \A m \in sizes : n <= m
    BY <1>8, LeastNumber
  <2>2. \E n \in sizes : \A S \in dealt : n <= Cardinality(S)
    <3> HIDE DEF dealt
    <3> QED  BY <2>1
  <2> HIDE DEF sizes, dealt
  <2> QED  BY <2>2
<1> HIDE DEF fewest, needed, sizes
<1>10. Cardinality(sample) \in Nat \ {0}
  BY <1>1, <1>7, <1>8, <1>9 DEF Most
<1>11. sample # {}
  BY <1>10, FS_EmptySet
<1> QED  BY <1>1, <1>11

\* A shard whose files are as its record and the sources have them.
FileOf(k, R) ==
  [index |-> k, rows |-> Len(R), digest |-> R, npz |-> R, split |-> "train",
   sidecar |-> [i \in 1 .. Len(R) |-> RowOf(R[i])]]
Sides == {Absent, "train", "eval"}
Rows == [id : Patch \cup excluded, tile : Nat, split : Sides, caption : Patch \cup {Absent, Wrong},
         checksum : Patch \cup {Wrong}]

\* What the checks of every row find in order, whatever they are given.
Fine(s, given) ==
  /\ s.npz # Absent /\ s.npz = s.digest /\ s.split = "train"
  /\ Len(s.sidecar) = s.rows /\ Len(s.npz) = Len(s.sidecar)
  /\ \A i \in DOMAIN s.sidecar :
       LET row == s.sidecar[i] IN
       /\ row.id \notin given.uncaptioned \cup given.excluded
       /\ given.tileOf # Absent =>
            row.id \in DOMAIN given.tileOf /\ given.tileOf[row.id] = row.tile
       /\ row.split \in {Absent, "train"} /\ row.caption # Absent
       /\ s.npz[i] = row.checksum
Distinct(set) ==
  \A s, t \in set : \A i \in DOMAIN s.sidecar : \A j \in DOMAIN t.sidecar :
    s.sidecar[i].id = t.sidecar[j].id => s = t /\ i = j

LEMMA FineIsSound ==
  ASSUME NEW set, NEW given, \A s \in set : Fine(s, given), Distinct(set)
  PROVE  Sound(set, given)
<1>1. Present(set) = set
  BY DEF Present, Fine
<1>2. ASSUME NEW x \in Positions(set)
      PROVE  /\ x = <<x[1], x[2]>> /\ x[1] \in set /\ x[2] \in DOMAIN x[1].sidecar
             /\ Fine(x[1], given) /\ RowAt(x) = x[1].sidecar[x[2]]
  BY <1>1, PositionsAre DEF RowAt
<1>3. HashesMatch(set) /\ RowsMatch(set) /\ BandsPresent(set)
  BY <1>1 DEF Fine, HashesMatch, RowsMatch, BandsPresent
<1>4. /\ CaptionsJoined(set) /\ CaptionsFound(set, given.uncaptioned)
      /\ NoOverlap(set, given.excluded) /\ ChecksumsMatch(set)
  BY <1>2 DEF Fine, CaptionsJoined, CaptionsFound, NoOverlap, ChecksumsMatch
<1>5. SplitPure(set, given.tileOf)
  BY <1>1, <1>2 DEF Fine, SplitPure
<1>6. NoDuplicates(set)
  BY <1>2 DEF Distinct, NoDuplicates
<1> QED  BY <1>3, <1>4, <1>5, <1>6 DEF Sound

LEMMA FileIs ==
  ASSUME NEW k, NEW R \in Seq(Patch)
  PROVE  LET s == FileOf(k, R)
         IN  /\ s = [index |-> k, rows |-> Len(R), digest |-> R, npz |-> R, split |-> "train",
                     sidecar |-> s.sidecar]
             /\ s.sidecar \in Seq(Rows) /\ Len(s.sidecar) = Len(R) /\ Len(R) \in Nat
             /\ DOMAIN s.sidecar = 1 .. Len(R) /\ DOMAIN R = 1 .. Len(R)
             /\ \A i \in 1 .. Len(R) :
                  /\ R[i] \in Patch /\ R[i][1] \in Nat
                  /\ s.sidecar[i] = [id |-> R[i], tile |-> R[i][1], split |-> Absent,
                                     caption |-> R[i], checksum |-> R[i]]
<1> DEFINE C == [i \in 1 .. Len(R) |-> RowOf(R[i])]
<1>1. Len(R) \in Nat /\ DOMAIN R = 1 .. Len(R) /\ \A i \in 1 .. Len(R) : R[i] \in Patch /\ R[i][1] \in Nat
  BY DEF Patch
<1>2. \A i \in 1 .. Len(R) : C[i] = [id |-> R[i], tile |-> R[i][1], split |-> Absent,
                                      caption |-> R[i], checksum |-> R[i]]
  BY DEF RowOf
<1>3. C \in [1 .. Len(R) -> Rows]
  BY <1>1, <1>2 DEF Rows, Sides
<1>4. C \in Seq(Rows) /\ Len(C) = Len(R) /\ DOMAIN C = 1 .. Len(R)
  BY <1>1, <1>3
<1>5. FileOf(k, R) = [index |-> k, rows |-> Len(R), digest |-> R, npz |-> R, split |-> "train",
                      sidecar |-> C]
  BY DEF FileOf
<1> HIDE DEF C
<1> QED  BY <1>1, <1>2, <1>4, <1>5

\* A set of such shards, with no patch twice.
SetOf(set) ==
  /\ IsFiniteSet(set) /\ set # {}
  /\ \A s \in set :
       \E k \in Nat, R \in Seq(Patch) :
         /\ s = FileOf(k, R) /\ R # <<>> /\ IsInjective(R)
         /\ Range(R) \subseteq Split \ (excluded \cup Uncaptioned)
  /\ \A s, t \in set : s # t => s.index # t.index /\ Range(s.npz) \cap Range(t.npz) = {}

\* What an audit is given bears out a row of a patch that a build may take.
LEMMA GivenIs ==
  ASSUME NEW given \in Givens, NEW p \in Split \ (excluded \cup Uncaptioned)
  PROVE  /\ p \notin given.uncaptioned \cup given.excluded
         /\ given.tileOf # Absent => p \in DOMAIN given.tileOf /\ given.tileOf[p] = p[1]
<1>1. /\ given.tileOf \in {TileOf, Absent} /\ given.excluded \in {excluded, {}}
      /\ given.uncaptioned = Uncaptioned
  BY DEF Givens
<1> QED  BY <1>1 DEF TileOf

LEMMA MarkersDiffer ==
  /\ Absent \notin Seq(Patch) /\ Absent \notin Seq(Patch \cup {Wrong}) /\ Absent \notin Patch /\ Wrong \notin Patch
  /\ Absent # Wrong /\ Absent # "eval"
<1>1. Seq(Patch) \subseteq Seq(Patch \cup {Wrong})
  OBVIOUS
<1> QED  BY <1>1, MarkersAssumption

\* Every fault that the files do not hide is found.
LEMMA FaultsAreFound ==
  ASSUME NEW set, SetOf(set), NEW given \in Givens, NEW ids,
         NEW s \in set, NEW f \in Faults(set, s, ids, given)
  PROVE  ~Sound((set \ {s}) \cup {f}, given)
<1> DEFINE W == (set \ {s}) \cup {f}
<1>1. PICK k \in Nat, R \in Seq(Patch) :
        /\ s = FileOf(k, R) /\ R # <<>> /\ IsInjective(R)
        /\ Range(R) \subseteq Split \ (excluded \cup Uncaptioned)
  BY DEF SetOf
<1> DEFINE C == s.sidecar  n == Len(R)
<1>2. /\ s = [index |-> k, rows |-> n, digest |-> R, npz |-> R, split |-> "train", sidecar |-> C]
      /\ C \in Seq(Rows) /\ Len(C) = n /\ n \in Nat
      /\ DOMAIN C = 1 .. n /\ DOMAIN R = 1 .. n
      /\ \A i \in 1 .. n :
           /\ R[i] \in Patch /\ R[i][1] \in Nat
           /\ C[i] = [id |-> R[i], tile |-> R[i][1], split |-> Absent,
                      caption |-> R[i], checksum |-> R[i]]
  BY <1>1, FileIs
<1>3. n # 0
  BY <1>1
<1>4. \A i, j \in 1 .. n : R[i] = R[j] => i = j
  BY <1>1, <1>2 DEF IsInjective
<1>5. \/ f = [s EXCEPT !.npz = Absent]
      \/ f = [s EXCEPT !.rows = @ + 1]
      \/ f = [s EXCEPT !.split = "eval"]
      \/ f = [s EXCEPT !.sidecar = Tail(@)]
      \/ Len(s.npz) > 1 /\ f = [s EXCEPT !.npz = Swapped(@), !.digest = Swapped(@)]
      \/ \E i \in DOMAIN s.sidecar :
           \/ f = [s EXCEPT !.npz[i] = Wrong]
           \/ f = [s EXCEPT !.npz[i] = Wrong, !.digest[i] = Wrong]
           \/ f = [s EXCEPT !.sidecar[i].split = "eval"]
           \/ f = [s EXCEPT !.sidecar[i].caption = Absent]
           \/ given.tileOf # Absent /\ f = [s EXCEPT !.sidecar[i].tile = @ + 1]
           \/ \E p \in OtherIds(s, i, ids) : /\ ~Plausible(set, s.sidecar[i], p, given)
                                           /\ f = [s EXCEPT !.sidecar[i].id = p]
  <2>1. \/ f \in {[s EXCEPT !.npz = Absent], [s EXCEPT !.rows = @ + 1],
                  [s EXCEPT !.split = "eval"], [s EXCEPT !.sidecar = Tail(@)]}
        \/ f \in (IF Len(s.npz) > 1
                    THEN {[s EXCEPT !.npz = Swapped(@), !.digest = Swapped(@)]} ELSE {})
        \/ \E i \in DOMAIN s.sidecar :
             \/ f \in {[s EXCEPT !.npz[i] = Wrong],
                       [s EXCEPT !.npz[i] = Wrong, !.digest[i] = Wrong],
                       [s EXCEPT !.sidecar[i].split = "eval"],
                       [s EXCEPT !.sidecar[i].caption = Absent]}
             \/ f \in (IF given.tileOf # Absent
                         THEN {[s EXCEPT !.sidecar[i].tile = @ + 1]} ELSE {})
             \/ f \in {[s EXCEPT !.sidecar[i].id = p] :
                         p \in {q \in OtherIds(s, i, ids) :
                                  ~Plausible(set, s.sidecar[i], q, given)}}
    BY Zenon DEF Faults
  <2> QED  BY <2>1
<1> HIDE DEF C, n
<1> SUFFICES ASSUME Sound(W, given) PROVE FALSE
  OBVIOUS
<1>6. f \in W
  OBVIOUS
<1>7. ASSUME f.npz # Absent, NEW i \in DOMAIN f.sidecar
      PROVE  f \in Present(W) /\ <<f, i>> \in Positions(W) /\ RowAt(<<f, i>>) = f.sidecar[i]
  BY <1>6, <1>7, PositionsAre DEF Present, RowAt
<1>8. R # Absent
  BY <1>2, MarkersDiffer
<1>9. CASE f = [s EXCEPT !.npz = Absent]
  BY <1>2, <1>6, <1>8, <1>9 DEF Sound, HashesMatch
<1>10. CASE f = [s EXCEPT !.rows = @ + 1]
  <2>1. f.npz = R /\ f.sidecar = C /\ f.rows = n + 1
    BY <1>2, <1>10
  <2>2. f \in Present(W)
    BY <1>6, <1>8, <2>1 DEF Present
  <2>3. Len(f.sidecar) = f.rows
    BY <2>2 DEF Sound, RowsMatch
  <2>4. n = n + 1
    BY <1>2, <2>1, <2>3
  <2> QED  BY <1>2, <2>4
<1>11. CASE f = [s EXCEPT !.split = "eval"]
  <2>1. f.npz = R /\ f.split = "eval"
    BY <1>2, <1>11
  <2> QED  BY <1>6, <1>8, <2>1 DEF Sound, SplitPure, Present
<1>12. CASE f = [s EXCEPT !.sidecar = Tail(@)]
  <2>1. f.npz = R /\ f.sidecar = Tail(C) /\ f.rows = n
    BY <1>2, <1>12
  <2>2. f \in Present(W)
    BY <1>6, <1>8, <2>1 DEF Present
  <2>3. Len(Tail(C)) # n
    BY <1>2, <1>3
  <2> QED  BY <2>1, <2>2, <2>3 DEF Sound, RowsMatch
<1>13. CASE Len(s.npz) > 1 /\ f = [s EXCEPT !.npz = Swapped(@), !.digest = Swapped(@)]
  <2>1. n > 1 /\ f.npz = Swapped(R) /\ f.sidecar = C
    BY <1>2, <1>13 DEF n
  <2>2. Swapped(R)[1] = R[n]
    BY <1>2, <2>1 DEF Swapped, n
  <2>3. Swapped(R) # Absent
    <3>1. Swapped(R) \in [1 .. n -> Patch]
      BY <1>2 DEF Swapped, n
    <3>2. Swapped(R) \in Seq(Patch)
      BY <1>2, <3>1
    <3> QED  BY <3>2, MarkersDiffer
  <2>4. R[n] # R[1] /\ C[1].checksum = R[1] /\ 1 \in DOMAIN C
    BY <1>2, <1>4, <2>1
  <2>5. <<f, 1>> \in Positions(W) /\ RowAt(<<f, 1>>) = C[1]
    BY <1>7, <2>1, <2>3, <2>4
  <2>6. f.npz[1] = C[1].checksum
    BY <2>5 DEF Sound, ChecksumsMatch
  <2> QED  BY <2>1, <2>2, <2>4, <2>6
<1>14. ASSUME NEW i \in 1 .. n,
              \/ f = [s EXCEPT !.npz[i] = Wrong]
              \/ f = [s EXCEPT !.npz[i] = Wrong, !.digest[i] = Wrong]
       PROVE  FALSE
  <2> DEFINE bad == [R EXCEPT ![i] = Wrong]
  <2>1. bad[i] = Wrong /\ R[i] # Wrong /\ bad # R
    BY <1>2, MarkersDiffer
  <2>2. f.npz = bad /\ f.sidecar = C /\ f.digest \in {R, bad}
    BY <1>2, <1>14
  <2> HIDE DEF bad
  <2>3. f.npz = f.digest
    BY <1>6 DEF Sound, HashesMatch
  <2>4. f.digest = bad
    BY <2>1, <2>2, <2>3
  <2>5. bad # Absent
    <3>1. bad \in [1 .. n -> Patch \cup {Wrong}]
      BY <1>2 DEF bad
    <3>2. bad \in Seq(Patch \cup {Wrong})
      BY <1>2, <3>1
    <3> QED  BY <3>2, MarkersDiffer
  <2>6. <<f, i>> \in Positions(W) /\ RowAt(<<f, i>>) = C[i]
    BY <1>2, <1>7, <2>2, <2>5
  <2>7. f.npz[i] = C[i].checksum
    BY <2>6 DEF Sound, ChecksumsMatch
  <2> QED  BY <1>2, <2>1, <2>2, <2>7
<1>15. ASSUME NEW i \in 1 .. n,
              \/ f = [s EXCEPT !.sidecar[i].split = "eval"]
              \/ f = [s EXCEPT !.sidecar[i].caption = Absent]
              \/ given.tileOf # Absent /\ f = [s EXCEPT !.sidecar[i].tile = @ + 1]
       PROVE  FALSE
  <2>0. C[i] = [id |-> R[i], tile |-> R[i][1], split |-> Absent,
                caption |-> R[i], checksum |-> R[i]]
    BY <1>2
  <2>1. /\ f.npz = R /\ i \in DOMAIN f.sidecar
        /\ \/ f.sidecar[i] = [C[i] EXCEPT !.split = "eval"]
           \/ f.sidecar[i] = [C[i] EXCEPT !.caption = Absent]
           \/ given.tileOf # Absent /\ f.sidecar[i] = [C[i] EXCEPT !.tile = @ + 1]
    <3>1. CASE f = [s EXCEPT !.sidecar[i].split = "eval"]
      BY <1>2, <3>1
    <3>2. CASE given.tileOf # Absent /\ f = [s EXCEPT !.sidecar[i].tile = @ + 1]
      BY <1>2, <3>2
    <3>3. CASE f = [s EXCEPT !.sidecar[i].caption = Absent]
      BY <1>2, <3>3
    <3> QED  BY <1>15, <3>1, <3>2, <3>3
  <2>2. <<f, i>> \in Positions(W) /\ RowAt(<<f, i>>) = f.sidecar[i]
    BY <1>7, <1>8, <2>1
  <2> DEFINE row == f.sidecar[i]
  <2>3. \/ row.split = "eval"
        \/ row.caption = Absent
        \/ given.tileOf # Absent /\ row.id = R[i] /\ row.tile = R[i][1] + 1
    <3>1. CASE row = [C[i] EXCEPT !.split = "eval"]
      BY <2>0, <3>1
    <3>2. CASE given.tileOf # Absent /\ row = [C[i] EXCEPT !.tile = @ + 1]
      BY <2>0, <3>2
    <3>3. CASE row = [C[i] EXCEPT !.caption = Absent]
      BY <2>0, <3>3
    <3> QED  BY <2>1, <3>1, <3>2, <3>3
  <2>4. /\ row.split \in {Absent, "train"} /\ row.caption # Absent
        /\ given.tileOf # Absent => row.id \in Split /\ row.id[1] = row.tile
    <3>1. given.tileOf \in {TileOf, Absent}
      BY DEF Givens
    <3>2. /\ row.split \in {Absent, "train"} /\ row.caption # Absent
          /\ given.tileOf # Absent =>
               row.id \in DOMAIN given.tileOf /\ given.tileOf[row.id] = row.tile
      BY <2>2 DEF Sound, SplitPure, CaptionsJoined
    <3> HIDE DEF row
    <3> QED  BY <3>1, <3>2 DEF TileOf
  <2> HIDE DEF row
  <2> QED  BY <1>2, <2>3, <2>4, MarkersDiffer
<1>16. ASSUME NEW i \in 1 .. n, NEW p \in OtherIds(s, i, ids),
              ~Plausible(set, s.sidecar[i], p, given), f = [s EXCEPT !.sidecar[i].id = p]
       PROVE  FALSE
  <2>0. /\ s.sidecar = C /\ p # C[i].id
        /\ C[i] = [id |-> R[i], tile |-> R[i][1], split |-> Absent,
                   caption |-> R[i], checksum |-> R[i]]
    BY <1>2 DEF OtherIds, C
  <2>1. /\ f.npz = R /\ i \in DOMAIN f.sidecar /\ f.sidecar[i] = [C[i] EXCEPT !.id = p]
        /\ f.index = k /\ s.index = k
        /\ \A j \in 1 .. n : j # i => j \in DOMAIN f.sidecar /\ f.sidecar[j] = C[j]
    BY <1>2, <1>16
  <2>2. f.sidecar[i].id = p /\ f.sidecar[i].tile = C[i].tile
    BY <2>0, <2>1
  <2>3. <<f, i>> \in Positions(W) /\ RowAt(<<f, i>>) = f.sidecar[i]
    BY <1>7, <1>8, <2>1
  <2>4. /\ p \notin given.uncaptioned /\ p \notin given.excluded
        /\ given.tileOf # Absent => p \in DOMAIN given.tileOf /\ given.tileOf[p] = C[i].tile
    BY <2>2, <2>3 DEF Sound, CaptionsFound, NoOverlap, SplitPure
  <2>5. PICK x \in Positions(set) : RowAt(x).id = p
    BY <1>16, <2>0, <2>4 DEF Plausible
  <2>6. x = <<x[1], x[2]>> /\ x[1] \in Present(set) /\ x[2] \in DOMAIN x[1].sidecar
    BY PositionsAre
  <2>7. PICK y \in Positions(W) : y # <<f, i>> /\ RowAt(y).id = p
    <3>1. CASE x[1] = s
      <4>1. x[2] \in 1 .. n /\ RowAt(x) = C[x[2]]
        BY <1>2, <2>0, <2>6, <3>1 DEF RowAt
      <4>2. x[2] # i
        BY <2>0, <2>5, <4>1
      <4>3. <<f, x[2]>> \in Positions(W) /\ RowAt(<<f, x[2]>>) = C[x[2]]
        BY <1>7, <1>8, <2>1, <4>1, <4>2
      <4> QED  BY <2>5, <4>1, <4>2, <4>3
    <3>2. CASE x[1] # s
      <4>1. x[1] \in set /\ x[1].npz # Absent
        BY <2>6 DEF Present
      <4>2. x[1] \in Present(W)
        BY <3>2, <4>1 DEF Present
      <4>3. x \in Positions(W)
        BY <2>6, <4>2, PositionsAre
      <4>4. x[1].index # s.index
        BY <3>2, <4>1 DEF SetOf
      <4>5. x # <<f, i>>
        BY <2>1, <4>4
      <4> QED  BY <2>5, <4>3, <4>5
    <3> QED  BY <3>1, <3>2
  <2> QED  BY <2>2, <2>3, <2>7 DEF Sound, NoDuplicates
<1>17. DOMAIN s.sidecar = 1 .. n
  BY <1>2 DEF C
<1> QED  BY <1>5, <1>9, <1>10, <1>11, <1>12, <1>13, <1>14, <1>15, <1>16, <1>17

\* Both comparisons of the audit's sample hold of a row.
Sourced(s, i) ==
  s.sidecar[i].caption = s.sidecar[i].id /\ s.npz[i] = s.sidecar[i].id

\* A shard that a build wrote passes every check of every row.
LEMMA ShardIsFine ==
  ASSUME NEW set, SetOf(set), NEW given \in Givens, NEW s \in set
  PROVE  /\ Fine(s, given) /\ IsFiniteSet(DOMAIN s.sidecar) /\ DOMAIN s.sidecar # {}
         /\ \A i \in DOMAIN s.sidecar : Sourced(s, i) /\ s.sidecar[i].id \in Range(s.npz)
         /\ \A i, j \in DOMAIN s.sidecar : s.sidecar[i].id = s.sidecar[j].id => i = j
<1>1. PICK k \in Nat, R \in Seq(Patch) :
        /\ s = FileOf(k, R) /\ R # <<>> /\ IsInjective(R)
        /\ Range(R) \subseteq Split \ (excluded \cup Uncaptioned)
  BY DEF SetOf
<1> DEFINE C == s.sidecar  n == Len(R)
<1>2. /\ s = [index |-> k, rows |-> n, digest |-> R, npz |-> R, split |-> "train", sidecar |-> C]
      /\ Len(C) = n /\ n \in Nat
      /\ DOMAIN C = 1 .. n /\ DOMAIN R = 1 .. n
      /\ \A i \in 1 .. n :
           C[i] = [id |-> R[i], tile |-> R[i][1], split |-> Absent,
                   caption |-> R[i], checksum |-> R[i]]
  BY <1>1, FileIs
<1>3. n # 0
  BY <1>1
<1>4. \A i \in 1 .. n : /\ R[i] \in Range(R) /\ R[i] # Absent
                       /\ R[i] \in Split \ (excluded \cup Uncaptioned)
  <2>1. \A i \in 1 .. n : R[i] \in Range(R) /\ R[i] \in Patch
    BY <1>2 DEF Range
  <2> QED  BY <1>1, <2>1, MarkersDiffer
<1>5. \A i, j \in 1 .. n : R[i] = R[j] => i = j
  BY <1>1, <1>2 DEF IsInjective
<1> HIDE DEF C, n
<1>6. s.npz = R /\ s.digest = R /\ s.split = "train" /\ s.rows = n
  BY <1>2
<1>7. R # Absent
  BY MarkersDiffer
<1>8. Fine(s, given)
  <2>1. ASSUME NEW i \in 1 .. n
        PROVE  /\ C[i].id \notin given.uncaptioned \cup given.excluded
               /\ given.tileOf # Absent =>
                    C[i].id \in DOMAIN given.tileOf /\ given.tileOf[C[i].id] = C[i].tile
               /\ C[i].split \in {Absent, "train"} /\ C[i].caption # Absent
               /\ R[i] = C[i].checksum
    <3>1. /\ C[i].id = R[i] /\ C[i].tile = R[i][1] /\ C[i].split = Absent
          /\ C[i].caption = R[i] /\ C[i].checksum = R[i]
      BY <1>2
    <3> QED  BY <1>4, <3>1, GivenIs
  <2> QED  BY <1>2, <1>6, <1>7, <2>1 DEF Fine, C, n
<1>9. IsFiniteSet(1 .. n) /\ 1 \in 1 .. n
  BY <1>2, <1>3, FS_Interval
<1>10. \A i \in 1 .. n : C[i].id = R[i] /\ C[i].caption = R[i]
  BY <1>2
<1> QED  BY <1>2, <1>4, <1>5, <1>6, <1>8, <1>9, <1>10 DEF C, Sourced

LEMMA SetIsDistinct ==
  ASSUME NEW set, SetOf(set) PROVE Distinct(set)
<1>0. PICK given \in Givens : TRUE
  <2>1. [tileOf |-> Absent, excluded |-> {}, uncaptioned |-> Uncaptioned] \in Givens
    BY DEF Givens
  <2> QED  BY <2>1
<1>1. ASSUME NEW s \in set, NEW t \in set, NEW i \in DOMAIN s.sidecar, NEW j \in DOMAIN t.sidecar,
             s.sidecar[i].id = t.sidecar[j].id
      PROVE  s = t /\ i = j
  <2>1. s.sidecar[i].id \in Range(s.npz) /\ t.sidecar[j].id \in Range(t.npz)
    BY ShardIsFine
  <2>2. s = t
    BY <1>1, <2>1 DEF SetOf
  <2> QED  BY <1>1, <2>2, ShardIsFine
<1> QED  BY <1>1 DEF Distinct

\* A shard f in the place of s whose row i alone may be wrong, under its own id
\* or under one that is nowhere in the set.
Altered(set, s, i, f) ==
  /\ f.index = s.index /\ DOMAIN f.sidecar = DOMAIN s.sidecar
  /\ \A j \in DOMAIN s.sidecar :
       j # i => f.sidecar[j].id = s.sidecar[j].id /\ Sourced(f, j)
  /\ \/ f.sidecar[i].id = s.sidecar[i].id
     \/ \A x \in Positions(set) : RowAt(x).id # f.sidecar[i].id

\* A disguised fault passes the same checks; one row is not its source's.
LEMMA DisguisedIs ==
  ASSUME NEW set, SetOf(set), NEW given \in Givens, NEW ids, NEW s \in set,
         NEW i \in DOMAIN s.sidecar, NEW f \in Disguised(set, s, i, ids, given)
  PROVE  Fine(f, given) /\ Altered(set, s, i, f) /\ ~Sourced(f, i)
<1>1. PICK k \in Nat, R \in Seq(Patch) :
        /\ s = FileOf(k, R) /\ R # <<>> /\ IsInjective(R)
        /\ Range(R) \subseteq Split \ (excluded \cup Uncaptioned)
  BY DEF SetOf
<1> DEFINE C == s.sidecar  n == Len(R)
<1>2. /\ s = [index |-> k, rows |-> n, digest |-> R, npz |-> R, split |-> "train", sidecar |-> C]
      /\ C \in Seq(Rows) /\ Len(C) = n /\ n \in Nat
      /\ DOMAIN C = 1 .. n /\ DOMAIN R = 1 .. n
      /\ \A j \in 1 .. n :
           /\ R[j] \in Patch
           /\ C[j] = [id |-> R[j], tile |-> R[j][1], split |-> Absent,
                      caption |-> R[j], checksum |-> R[j]]
  BY <1>1, FileIs
<1>3. \A j \in 1 .. n :
        /\ R[j] # Absent /\ R[j] # Wrong /\ R[j] \notin given.uncaptioned \cup given.excluded
        /\ given.tileOf # Absent =>
             R[j] \in DOMAIN given.tileOf /\ given.tileOf[R[j]] = R[j][1]
  <2>1. \A j \in 1 .. n : R[j] \in Split \ (excluded \cup Uncaptioned)
    BY <1>1, <1>2 DEF Range
  <2> QED  BY <1>2, <2>1, GivenIs, MarkersDiffer
<1>4. Wrong # Absent /\ R # Absent
  BY MarkersDiffer
<1>5. i \in 1 .. n
  BY <1>2 DEF C
<1> HIDE DEF C, n
<1>6. CASE f = [s EXCEPT !.npz[i] = Wrong, !.digest[i] = Wrong, !.sidecar[i].checksum = Wrong]
  <2> DEFINE bad == [R EXCEPT ![i] = Wrong]
             D == [C EXCEPT ![i].checksum = Wrong]
  <2>1. f = [index |-> k, rows |-> n, digest |-> bad, npz |-> bad, split |-> "train", sidecar |-> D]
    BY <1>2, <1>6
  <2>2. bad # Absent /\ Len(bad) = n
    <3>1. bad \in [1 .. n -> Patch \cup {Wrong}]
      BY <1>2
    <3>2. bad \in Seq(Patch \cup {Wrong})
      BY <1>2, <3>1
    <3> QED  BY <1>2, <3>1, <3>2, MarkersDiffer
  <2>3. DOMAIN D = 1 .. n /\ Len(D) = n
    BY <1>2
  <2>4. ASSUME NEW j \in 1 .. n
        PROVE  /\ D[j].id = R[j] /\ D[j].caption = R[j] /\ D[j].tile = R[j][1]
               /\ D[j].split = Absent /\ D[j].checksum = bad[j] /\ C[j].id = R[j]
               /\ (bad[j] = R[j] <=> j # i)
    <3>1. C[j] = [id |-> R[j], tile |-> R[j][1], split |-> Absent,
                  caption |-> R[j], checksum |-> R[j]]
      BY <1>2
    <3>2. bad[j] = (IF j = i THEN Wrong ELSE R[j])
      BY <1>2
    <3>3. D[j] = (IF j = i THEN [C[j] EXCEPT !.checksum = Wrong] ELSE C[j])
      BY <1>2
    <3> HIDE DEF bad, D
    <3>4. CASE j = i
      BY <1>3, <3>1, <3>2, <3>3, <3>4
    <3>5. CASE j # i
      BY <3>1, <3>2, <3>3, <3>5
    <3> QED  BY <3>4, <3>5
  <2> HIDE DEF bad, D
  <2>5. f.npz = bad /\ f.digest = bad /\ f.split = "train" /\ f.rows = n /\ f.sidecar = D
        /\ f.index = k
    BY <2>1
  <2>6. Fine(f, given)
    BY <1>3, <2>2, <2>3, <2>4, <2>5 DEF Fine
  <2>7. s.index = k /\ s.sidecar = C
    BY <1>2
  <2> QED  BY <1>2, <1>5, <2>3, <2>4, <2>5, <2>6, <2>7 DEF Sourced, Altered
<1>7. CASE f = [s EXCEPT !.sidecar[i].caption = Wrong]
  <2> DEFINE D == [C EXCEPT ![i].caption = Wrong]
  <2>1. f = [index |-> k, rows |-> n, digest |-> R, npz |-> R, split |-> "train", sidecar |-> D]
    BY <1>2, <1>7
  <2>2. DOMAIN D = 1 .. n /\ Len(D) = n
    BY <1>2
  <2>3. ASSUME NEW j \in 1 .. n
        PROVE  /\ D[j].id = R[j] /\ D[j].tile = R[j][1] /\ D[j].split = Absent
               /\ D[j].checksum = R[j] /\ C[j].id = R[j] /\ D[j].caption # Absent
               /\ (D[j].caption = R[j] <=> j # i)
    <3>1. C[j] = [id |-> R[j], tile |-> R[j][1], split |-> Absent,
                  caption |-> R[j], checksum |-> R[j]]
      BY <1>2
    <3>2. D[j] = (IF j = i THEN [C[j] EXCEPT !.caption = Wrong] ELSE C[j])
      BY <1>2
    <3> HIDE DEF D
    <3>3. CASE j = i
      BY <1>3, <1>4, <3>1, <3>2, <3>3
    <3>4. CASE j # i
      BY <1>3, <3>1, <3>2, <3>4
    <3> QED  BY <3>3, <3>4
  <2> HIDE DEF D
  <2>4. f.npz = R /\ f.digest = R /\ f.split = "train" /\ f.rows = n /\ f.sidecar = D
        /\ f.index = k
    BY <2>1
  <2>5. Fine(f, given)
    BY <1>2, <1>3, <1>4, <2>2, <2>3, <2>4 DEF Fine, n
  <2>6. s.index = k /\ s.sidecar = C
    BY <1>2
  <2> QED  BY <1>2, <1>5, <2>2, <2>3, <2>4, <2>5, <2>6 DEF Sourced, Altered
<1>8. ASSUME NEW p \in OtherIds(s, i, ids), Plausible(set, s.sidecar[i], p, given),
             f = [s EXCEPT !.sidecar[i].id = p]
      PROVE  Fine(f, given) /\ Altered(set, s, i, f) /\ ~Sourced(f, i)
  <2> DEFINE D == [C EXCEPT ![i].id = p]
  <2>1. f = [index |-> k, rows |-> n, digest |-> R, npz |-> R, split |-> "train", sidecar |-> D]
    BY <1>2, <1>8
  <2>2. DOMAIN D = 1 .. n /\ Len(D) = n
    BY <1>2
  <2>3. C[i].tile = R[i][1] /\ s.sidecar = C
    BY <1>2, <1>5
  <2>4. /\ p # R[i] /\ \A x \in Positions(set) : RowAt(x).id # p
        /\ p \notin given.uncaptioned \cup given.excluded
        /\ given.tileOf # Absent => p \in DOMAIN given.tileOf /\ given.tileOf[p] = R[i][1]
    <3>1. C[i].id = R[i]
      BY <1>2, <1>5
    <3> QED  BY <1>8, <2>3, <3>1 DEF OtherIds, Plausible
  <2>5. ASSUME NEW j \in 1 .. n
        PROVE  /\ D[j].id = (IF j = i THEN p ELSE R[j]) /\ D[j].tile = R[j][1]
               /\ D[j].split = Absent /\ D[j].checksum = R[j] /\ C[j].id = R[j]
               /\ D[j].caption = R[j]
    <3>1. C[j] = [id |-> R[j], tile |-> R[j][1], split |-> Absent,
                  caption |-> R[j], checksum |-> R[j]]
      BY <1>2
    <3>2. D[j] = (IF j = i THEN [C[j] EXCEPT !.id = p] ELSE C[j])
      BY <1>2
    <3> HIDE DEF D
    <3>3. CASE j = i
      BY <3>1, <3>2, <3>3
    <3>4. CASE j # i
      BY <3>1, <3>2, <3>4
    <3> QED  BY <3>3, <3>4
  <2> HIDE DEF D
  <2>6. f.npz = R /\ f.digest = R /\ f.split = "train" /\ f.rows = n /\ f.sidecar = D
        /\ f.index = k
    BY <2>1
  <2>7. ASSUME NEW j \in 1 .. n
        PROVE  /\ D[j].id \notin given.uncaptioned \cup given.excluded
               /\ given.tileOf # Absent =>
                    D[j].id \in DOMAIN given.tileOf /\ given.tileOf[D[j].id] = D[j].tile
    BY <1>3, <2>4, <2>5
  <2>8. Fine(f, given)
    BY <1>2, <1>3, <1>4, <2>2, <2>5, <2>6, <2>7 DEF Fine, n
  <2>9. s.index = k
    BY <1>2
  <2> QED  BY <1>2, <1>5, <2>2, <2>3, <2>4, <2>5, <2>6, <2>8, <2>9 DEF Sourced, Altered
<1> QED
  <2>1. \/ f \in {[s EXCEPT !.npz[i] = Wrong, !.digest[i] = Wrong, !.sidecar[i].checksum = Wrong],
                 [s EXCEPT !.sidecar[i].caption = Wrong]}
        \/ f \in {[s EXCEPT !.sidecar[i].id = p] :
                    p \in {q \in OtherIds(s, i, ids) : Plausible(set, s.sidecar[i], q, given)}}
    BY Zenon DEF Disguised
  <2> QED  BY <1>6, <1>7, <1>8, <2>1

\* Without the split manifest, a row of another tile passes every check.
LEMMA UnseenIs ==
  ASSUME NEW set, SetOf(set), NEW given \in Givens, NEW s \in set,
         NEW i \in DOMAIN s.sidecar, NEW f \in Unseen(s, i, given)
  PROVE  Fine(f, given) /\ Altered(set, s, i, f) /\ Sourced(f, i)
<1>1. PICK k \in Nat, R \in Seq(Patch) : s = FileOf(k, R)
  BY DEF SetOf
<1> DEFINE C == s.sidecar  n == Len(R)
           D == [C EXCEPT ![i].tile = @ + 1]
<1>2. /\ s = [index |-> k, rows |-> n, digest |-> R, npz |-> R, split |-> "train", sidecar |-> C]
      /\ C \in Seq(Rows) /\ Len(C) = n /\ n \in Nat
      /\ DOMAIN C = 1 .. n /\ DOMAIN R = 1 .. n
      /\ \A j \in 1 .. n :
           C[j] = [id |-> R[j], tile |-> R[j][1], split |-> Absent,
                   caption |-> R[j], checksum |-> R[j]]
  BY <1>1, FileIs
<1>3. i \in 1 .. n /\ given.tileOf = Absent /\ f = [s EXCEPT !.sidecar[i].tile = @ + 1]
  BY <1>2 DEF C, Unseen
<1> HIDE DEF n
<1>4. f = [index |-> k, rows |-> n, digest |-> R, npz |-> R, split |-> "train", sidecar |-> D]
  <2> HIDE DEF C
  <2> QED  BY <1>2, <1>3
<1> HIDE DEF C
<1>5. DOMAIN D = 1 .. n /\ Len(D) = n
  BY <1>2
<1>6. ASSUME NEW j \in 1 .. n
      PROVE  /\ D[j].id = C[j].id /\ D[j].split = C[j].split /\ D[j].checksum = C[j].checksum
             /\ D[j].caption = C[j].caption /\ C[j].id = R[j] /\ C[j].caption = R[j]
  <2>1. C[j] = [id |-> R[j], tile |-> R[j][1], split |-> Absent,
                caption |-> R[j], checksum |-> R[j]]
    BY <1>2
  <2>2. D[j] = (IF j = i THEN [C[j] EXCEPT !.tile = @ + 1] ELSE C[j])
    BY <1>2
  <2> HIDE DEF D
  <2>3. CASE j = i
    BY <2>1, <2>2, <2>3
  <2>4. CASE j # i
    BY <2>1, <2>2, <2>4
  <2> QED  BY <2>3, <2>4
<1> HIDE DEF D
<1>7. f.npz = R /\ f.digest = R /\ f.split = "train" /\ f.rows = n /\ f.sidecar = D
      /\ f.index = k
  BY <1>4
<1>8. s.npz = R /\ s.digest = R /\ s.index = k /\ s.sidecar = C
  BY <1>2
<1>9. Fine(s, given) /\ \A j \in DOMAIN s.sidecar : Sourced(s, j)
  BY ShardIsFine
<1>10. Fine(f, given)
  BY <1>2, <1>3, <1>5, <1>6, <1>7, <1>8, <1>9 DEF Fine, n
<1> QED  BY <1>2, <1>3, <1>5, <1>6, <1>7, <1>8, <1>9, <1>10 DEF Altered, Sourced

\* A set with an altered shard passes every check of every row; a sample gives
\* it away exactly if it holds a row that is not its source's.
LEMMA AlteredIsSound ==
  ASSUME NEW set, SetOf(set), NEW given \in Givens, NEW s \in set,
         NEW i \in DOMAIN s.sidecar, NEW f, Fine(f, given), Altered(set, s, i, f)
  PROVE  LET W == (set \ {s}) \cup {f} IN
         /\ Sound(W, given)
         /\ \A sample \in Samples(W) :
              SourceMatches(sample) <=> Sourced(f, i) \/ <<f, i>> \notin sample
<1> DEFINE W == (set \ {s}) \cup {f}
<1>1. \A t \in set : /\ Fine(t, given) /\ IsFiniteSet(DOMAIN t.sidecar)
                     /\ \A j \in DOMAIN t.sidecar : Sourced(t, j)
  BY ShardIsFine
<1>2. \A t \in W : Fine(t, given) /\ t.npz # Absent /\ IsFiniteSet(DOMAIN t.sidecar)
  BY <1>1 DEF Fine, Altered
<1>3. Distinct(W)
  <2> DEFINE was(t) == IF t = f THEN s ELSE t
  <2>1. ASSUME NEW t \in W
        PROVE  /\ was(t) \in set /\ DOMAIN was(t).sidecar = DOMAIN t.sidecar
               /\ \A j \in DOMAIN t.sidecar :
                    t # f \/ j # i => was(t).sidecar[j].id = t.sidecar[j].id
    BY DEF Altered
  <2>2. ASSUME NEW t \in W, NEW u \in W, was(t) = was(u) PROVE t = u
    <3>1. f \in set => f = s
      BY DEF SetOf, Altered
    <3> QED  BY <2>2, <3>1
  <2>3. ASSUME NEW t \in set, NEW j \in DOMAIN t.sidecar
        PROVE  \E x \in Positions(set) : RowAt(x).id = t.sidecar[j].id
    <3>1. <<t, j>> \in Positions(set)
      BY <1>1, PositionsAre DEF Present, Fine
    <3> QED  BY <3>1 DEF RowAt
  <2>4. CASE f.sidecar[i].id = s.sidecar[i].id
    <3>1. \A t \in W : \A j \in DOMAIN t.sidecar : was(t).sidecar[j].id = t.sidecar[j].id
      BY <2>1, <2>4
    <3> HIDE DEF was, W
    <3> QED  BY <2>1, <2>2, <3>1, SetIsDistinct DEF Distinct
  <2>5. CASE \A x \in Positions(set) : RowAt(x).id # f.sidecar[i].id
    <3>1. ASSUME NEW t \in W, NEW j \in DOMAIN t.sidecar, t # f \/ j # i
          PROVE  t.sidecar[j].id # f.sidecar[i].id
      <4> HIDE DEF was, W
      <4> QED  BY <2>1, <2>3, <2>5, <3>1
    <3>2. ASSUME NEW t \in W, NEW u \in W, NEW j \in DOMAIN t.sidecar, NEW l \in DOMAIN u.sidecar,
                 t.sidecar[j].id = u.sidecar[l].id
          PROVE  t = u /\ j = l
      <4>1. CASE (t # f \/ j # i) /\ (u # f \/ l # i)
        <5> HIDE DEF was, W
        <5> QED  BY <2>1, <2>2, <3>2, <4>1, SetIsDistinct DEF Distinct
      <4> QED  BY <3>1, <3>2, <4>1
    <3> QED  BY <3>2 DEF Distinct
  <2> QED  BY <2>4, <2>5 DEF Altered
<1>4. Sound(W, given)
  <2> HIDE DEF W
  <2> QED  BY <1>2, <1>3, FineIsSound
<1>5. ASSUME NEW sample \in Samples(W)
      PROVE  SourceMatches(sample) <=> Sourced(f, i) \/ <<f, i>> \notin sample
  <2>1. IsFiniteSet(W)
    BY FS_Subset, FS_AddElement DEF SetOf
  <2>2. Positions(W) # {}
    BY <1>2, PositionsAre DEF Present, Altered
  <2>3. sample \subseteq Positions(W) /\ sample # {}
    <3> HIDE DEF W
    <3> QED  BY <1>2, <2>1, <2>2, SamplesAreSome
  <2>4. ASSUME NEW x \in sample
        PROVE  Sourced(x[1], x[2]) <=> Sourced(f, i) \/ x # <<f, i>>
    <3>1. x = <<x[1], x[2]>> /\ x[1] \in W /\ x[2] \in DOMAIN x[1].sidecar
      BY <2>3, PositionsAre DEF Present
    <3>2. CASE x[1] = f
      BY <3>1, <3>2 DEF Altered
    <3>3. CASE x[1] # f
      BY <1>1, <3>1, <3>3
    <3> QED  BY <3>2, <3>3
  <2>5. SourceMatches(sample) <=> \A x \in sample : Sourced(x[1], x[2])
    BY <2>3 DEF SourceMatches, Sourced, RowAt
  <2> QED  BY <2>4, <2>5
<1> QED  BY <1>4, <1>5

-----------------------------------------------------------------------------
(* The invariant of the build.                                             *)

\* What a shard is to be recorded as, and what a record holds of the disk.
Described(k) == [index |-> k, rows |-> GoodRows(k)]
Kept(r) ==
  /\ r.index \in Shards /\ Good(r.index) # {}
  /\ r = Described(r.index) /\ disk[r.index] = r.rows
Has(shards, k) == \E r \in shards : r.index = k

\* The published manifest: a valid prefix, and all of it when it is complete.
PublishedInv ==
  /\ Readable(published) =>
       /\ published \in Manifest /\ Admitted
       /\ \A r \in published.shards : Kept(r)
       /\ published.status = "complete" =>
            \A k \in Shards : Good(k) # {} => Has(published.shards, k)
  /\ exit = "complete" =>
       pc = "idle" /\ Readable(published) /\ published.status = "complete"

\* A shard that is not recorded has each of its acceptable patches before it
\* or in its buffer; one that is recorded has none.
PatchInv ==
  /\ pending \subseteq Ids(candidates)
  /\ buffer \in [Shards -> SUBSET Ids(candidates)]
  /\ \A k \in Shards :
       /\ buffer[k] \subseteq Good(k) \ pending
       /\ Has(records, k) => buffer[k] = {} /\ Good(k) \cap pending = {}
       /\ ~Has(records, k) => Good(k) \subseteq pending \cup buffer[k]

\* The windows before the present one are done; a pass fills the buffers of
\* its window only, and has emptied the archive when it writes what is short.
WindowInv ==
  /\ first \in Nat /\ window \in Nat
  /\ \A k \in Shards : k < first => Good(k) = {} \/ Has(records, k)
  /\ \A k \in Shards : buffer[k] # {} => InWindow(k) /\ pc # "window"
  /\ pc = "partial" => \A k \in Shards : InWindow(k) => Good(k) \cap pending = {}

RecordsInv ==
  /\ Admitted /\ exit = "none"
  /\ \A r \in records : Kept(r)
  /\ Readable(published) => published.shards \subseteq records
  /\ status \in Statuses
  /\ status = "complete" => first >= ShardCount
  /\ pc = "verify" => published = Payload

BuildInv == pc # "idle" => RecordsInv /\ PatchInv /\ WindowInv

EnvInv == Selected /\ disk \in [Shards -> {Absent, Torn} \cup Seq(Patch)]

IInv == EnvInv /\ PublishedInv /\ BuildInv

\* The shards, and what they hold, stay what they are.
LEMMA SameShards ==
  ASSUME UNCHANGED envVars
  PROVE  /\ ShardCount' = ShardCount /\ Shards' = Shards
         /\ (Selected <=> Selected') /\ (Admitted <=> Admitted')
         /\ Ids(candidates)' = Ids(candidates)
         /\ \A k : Good(k)' = Good(k) /\ Described(k)' = Described(k)
         /\ \A P : InOrder(P)' = InOrder(P)
<1> USE DEF envVars
<1>1. ShardCount' = ShardCount /\ Shards' = Shards
  BY DEF ShardCount, Shards
<1>2. Selected <=> Selected'
  BY DEF Selected
<1>3. Ids(candidates)' = Ids(candidates)
  BY DEF Ids, Range
<1>4. Admitted <=> Admitted'
  BY <1>3 DEF Admitted, ListAccepted, Pure, Split, Captioned
<1>5. \A p : Rank(p)' = Rank(p) /\ ShardOf(p)' = ShardOf(p)
  BY DEF Rank, ShardOf
<1>6. \A k : Good(k)' = Good(k)
  BY <1>3, <1>5 DEF Good
<1>7. \A P : InOrder(P)' = InOrder(P)
  BY <1>5 DEF InOrder
<1>8. \A k : Described(k)' = Described(k)
  BY <1>6, <1>7 DEF Described, GoodRows
<1> QED  BY <1>1, <1>2, <1>3, <1>4, <1>6, <1>7, <1>8

LEMMA InitIInv == Init => IInv
<1> SUFFICES ASSUME Init PROVE IInv
  OBVIOUS
<1>1. Total \in Nat \ {0}
  BY Constants
<1>2. Selected
  <2>1. CASE listed = Absent
    BY <1>1, <2>1, SelectionIs DEF Init, Selected
  <2>2. CASE listed # Absent
    <3>1. listed \in Lists /\ listed.ids \in Seq(Patch)
      BY <2>2, Constants DEF Init
    <3>2. candidates = SubSeq(listed.ids, 1, LowerOf(Total, Len(listed.ids)))
      BY <2>2 DEF Init
    <3> DEFINE n == LowerOf(Total, Len(listed.ids))
    <3>3. n \in 0 .. Len(listed.ids)
      BY <1>1, <3>1 DEF LowerOf
    <3> HIDE DEF n
    <3> QED  BY <3>1, <3>2, <3>3 DEF Selected, n
  <2> QED  BY <2>1, <2>2
<1>3. disk \in [Shards -> {Absent, Torn} \cup Seq(Patch)]
  BY DEF Init
<1>4. PublishedInv
  BY DEF Init, PublishedInv, Readable
<1>5. BuildInv
  BY DEF Init, BuildInv
<1> QED  BY <1>2, <1>3, <1>4, <1>5 DEF IInv, EnvInv

\* A shard has candidates of its own, and its rows are these, each once.
LEMMA GoodIs ==
  ASSUME Selected, NEW k \in Int
  PROVE  /\ Good(k) \subseteq Ids(candidates) /\ IsFiniteSet(Good(k))
         /\ Cardinality(Good(k)) \in Nat /\ Cardinality(Good(k)) <= PerShard
         /\ GoodRows(k) \in Seq(Patch) /\ Ids(GoodRows(k)) = Good(k)
         /\ GoodRows(k) = <<>> <=> Good(k) = {}
<1> DEFINE P == {p \in Ids(candidates) : ShardOf(p) = k}
<1>1. IsFiniteSet(P) /\ Cardinality(P) <= PerShard
  BY ShardHasRoom
<1>2. Good(k) \in SUBSET P /\ Good(k) \in SUBSET Ids(candidates)
  BY DEF Good
<1> HIDE DEF P
<1>3. IsFiniteSet(Good(k)) /\ Cardinality(Good(k)) <= Cardinality(P)
  BY <1>1, <1>2, FS_Subset
<1>4. Cardinality(Good(k)) \in Nat /\ Cardinality(P) \in Nat /\ PerShard \in Nat
  BY <1>1, <1>3, FS_CardinalityType, Constants
<1> DEFINE n == Cardinality(Good(k))
<1>5. /\ InOrder(Good(k)) \in [1 .. n -> Good(k)]
      /\ Ids(InOrder(Good(k))) = Good(k)
  BY <1>2, InOrderIsOrder
<1>6. \A p \in Good(k) : p \in Patch
  BY <1>2, RankType
<1>7. GoodRows(k) = InOrder(Good(k))
  BY DEF GoodRows
<1> HIDE DEF n
<1>8. GoodRows(k) \in Seq(Patch) /\ Len(GoodRows(k)) = n
  BY <1>4, <1>5, <1>6, <1>7 DEF n
<1>9. n = 0 <=> Good(k) = {}
  BY <1>3, FS_EmptySet DEF n
<1>10. GoodRows(k) = <<>> <=> n = 0
  BY <1>4, <1>8 DEF n
<1> QED  BY <1>1, <1>2, <1>3, <1>4, <1>5, <1>7, <1>8, <1>9, <1>10 DEF n

LEMMA ShardCountType ==
  ASSUME Selected PROVE ShardCount \in Nat
<1>1. Len(candidates) \in Nat /\ PerShard \in Nat \ {0}
  BY Constants DEF Selected
<1> QED  BY <1>1 DEF ShardCount

\* The patches that a pass may decide next have a first one.
LEMMA NextMemberIs ==
  ASSUME Selected, pending \subseteq Ids(candidates), Deciding # {}
  PROVE  NextMember \in Deciding
<1>1. Deciding \subseteq Patch
  BY RankType DEF Deciding, Wanted
<1>2. PICK p \in Deciding : \A q \in Deciding : p[1] <= q[1]
  <2> DEFINE T == {q[1] : q \in Deciding}
  <2>1. T \in SUBSET Nat /\ T # {}
    BY <1>1 DEF Patch
  <2>2. \E m \in T : \A n \in T : m <= n
    BY <2>1, LeastNumber
  <2> QED  BY <2>2
<1>3. PICK r \in Deciding : /\ r[1] = p[1]
                            /\ \A q \in Deciding : q[1] = p[1] => r[2] <= q[2]
  <2> DEFINE D == {q \in Deciding : q[1] = p[1]}
             T == {q[2] : q \in D}
  <2>1. T \in SUBSET Nat /\ T # {}
    BY <1>1 DEF Patch
  <2>2. \E m \in T : \A n \in T : m <= n
    BY <2>1, LeastNumber
  <2> QED  BY <2>2
<1>4. \A q \in Deciding : Earlier(r, q)
  BY <1>1, <1>2, <1>3 DEF Patch, Earlier
<1> QED  BY <1>4 DEF NextMember

\* What is published stays true of the disk while its shards are not written.
LEMMA SamePublished ==
  ASSUME IInv, UNCHANGED <<envVars, published>>,
         exit' = "complete" =>
           pc' = "idle" /\ Readable(published) /\ published.status = "complete",
         Readable(published) =>
           \A r \in published.shards : disk'[r.index] = disk[r.index]
  PROVE  PublishedInv'
<1>1. Readable(published)' <=> Readable(published)
  BY DEF Readable
<1>2. ASSUME Readable(published), NEW r \in published.shards PROVE Kept(r)'
  <2>1. Kept(r)
    BY <1>2 DEF IInv, PublishedInv
  <2> QED  BY <1>2, <2>1, SameShards DEF Kept
<1>3. ASSUME NEW k \in Shards' PROVE k \in Shards /\ Good(k)' = Good(k)
  BY SameShards
<1>4. Admitted <=> Admitted'
  BY SameShards
<1>5. ASSUME Readable(published), published.status = "complete", NEW k \in Shards', Good(k)' # {}
      PROVE  Has(published.shards, k)'
  BY <1>3, <1>5 DEF IInv, PublishedInv, Has
<1> QED  BY <1>1, <1>2, <1>4, <1>5 DEF IInv, PublishedInv

LEMMA SameRecords ==
  ASSUME RecordsInv, UNCHANGED <<envVars, diskVars, exit, records>>,
         status' \in Statuses, status' = "complete" => first' >= ShardCount,
         pc' # "verify"
  PROVE  RecordsInv'
<1>1. ASSUME NEW r \in records PROVE Kept(r)'
  BY SameShards DEF RecordsInv, Kept, diskVars
<1>2. (Admitted <=> Admitted') /\ ShardCount' = ShardCount
  BY SameShards
<1>3. (Readable(published)' <=> Readable(published)) /\ published' = published
  BY DEF Readable, diskVars
<1> QED  BY <1>1, <1>2, <1>3 DEF RecordsInv

LEMMA SamePatches ==
  ASSUME PatchInv, UNCHANGED <<envVars, pending, buffer, records>>
  PROVE  PatchInv'
<1>1. /\ Ids(candidates)' = Ids(candidates) /\ Shards' = Shards
      /\ \A k : Good(k)' = Good(k)
  BY SameShards
<1>2. \A k : Has(records, k)' <=> Has(records, k)
  BY DEF Has
<1> QED  BY <1>1, <1>2 DEF PatchInv

LEMMA SameEnv ==
  ASSUME EnvInv, UNCHANGED <<envVars, disk>>
  PROVE  EnvInv'
  BY SameShards DEF EnvInv

\* The actions that leave the files, the records and the patches alone.
Resting == UNCHANGED <<envVars, diskVars, exit, window, records, pending, buffer>>

LEMMA RestingKeeps ==
  ASSUME IInv, pc # "idle", Resting,
         status' \in Statuses, status' = "complete" => first' >= ShardCount,
         pc' # "verify", WindowInv'
  PROVE  IInv'
<1>1. RecordsInv /\ PatchInv /\ exit = "none"
  BY DEF IInv, BuildInv, RecordsInv
<1>2. EnvInv'
  BY SameEnv DEF IInv, Resting, diskVars
<1>3. PublishedInv'
  <2>1. /\ UNCHANGED <<envVars, published>> /\ exit' # "complete"
        /\ \A r : disk'[r.index] = disk[r.index]
    BY <1>1 DEF Resting, diskVars
  <2> QED  BY <2>1, SamePublished
<1>4. RecordsInv'
  BY <1>1, SameRecords DEF Resting
<1>5. PatchInv'
  BY <1>1, SamePatches DEF Resting
<1> QED  BY <1>2, <1>3, <1>4, <1>5 DEF IInv, BuildInv

\* The window is as it was, and so are the buffers.
LEMMA SameWindow ==
  ASSUME WindowInv, UNCHANGED <<envVars, first, window, records, buffer, pending>>,
         pc # "window", pc' \notin {"window", "partial"}
  PROVE  WindowInv'
<1>1. Shards' = Shards /\ ShardCount' = ShardCount /\ \A k : Good(k)' = Good(k)
  BY SameShards
<1>2. \A k : (InWindow(k)' <=> InWindow(k)) /\ (Has(records, k)' <=> Has(records, k))
  BY <1>1 DEF InWindow, Has
<1> QED  BY <1>1, <1>2 DEF WindowInv

-----------------------------------------------------------------------------
(* The actions, one by one.                                                *)

LEMMA RefuseKeeps ==
  ASSUME IInv, Refuse \/ StartFails PROVE IInv'
<1>1. /\ pc' = "idle" /\ UNCHANGED <<envVars, diskVars>>
      /\ exit' # "complete"
  BY DEF Refuse, StartFails
<1>2. EnvInv'
  BY <1>1, SameEnv DEF IInv, diskVars
<1>3. PublishedInv'
  BY <1>1, SamePublished DEF diskVars
<1> QED  BY <1>1, <1>2, <1>3 DEF IInv, BuildInv

LEMMA SkipKeeps ==
  ASSUME IInv, SkipWindow PROVE IInv'
<1>1. /\ pc = "window" /\ pc' = "window" /\ Resting /\ UNCHANGED status
      /\ first' = first + window /\ WindowDone /\ first < ShardCount
  BY DEF SkipWindow, Resting, SameRun, SameFiles, diskVars
<1>2. RecordsInv /\ PatchInv /\ WindowInv
  BY <1>1 DEF IInv, BuildInv
<1>3. ShardCount \in Nat /\ first \in Nat /\ window \in Nat
  BY <1>2, ShardCountType DEF IInv, EnvInv, WindowInv
<1>4. WindowInv'
  <2>1. Shards' = Shards /\ \A k : Good(k)' = Good(k)
    BY <1>1, SameShards DEF Resting
  <2>2. \A k : Has(records, k)' <=> Has(records, k)
    BY <1>1 DEF Has, Resting
  <2>3. \A k \in Shards : buffer'[k] = {}
    BY <1>1, <1>2 DEF WindowInv, Resting
  <2>4. ASSUME NEW k \in Shards, k < first' PROVE Good(k) = {} \/ Has(records, k)
    <3>1. CASE k < first
      BY <1>2, <3>1 DEF WindowInv
    <3>2. CASE ~(k < first)
      <4>1. InWindow(k)
        BY <1>1, <1>3, <2>4, <3>2 DEF InWindow, LowerOf, Shards
      <4> QED  BY <1>1, <4>1 DEF WindowDone, Has
    <3> QED  BY <3>1, <3>2
  <2> QED  BY <1>1, <1>3, <2>1, <2>2, <2>3, <2>4 DEF WindowInv, Resting
<1>5. status' \in Statuses /\ (status' = "complete" => first' >= ShardCount)
  BY <1>1, <1>2, <1>3 DEF RecordsInv
<1> QED  BY <1>1, <1>4, <1>5, RestingKeeps

LEMMA OpenKeeps ==
  ASSUME IInv, OpenWindow \/ Complete PROVE IInv'
<1>1. /\ pc = "window" /\ pc' \in {"stream", "mirror"} /\ Resting /\ UNCHANGED first
      /\ status' = status \/ (status' = "complete" /\ first >= ShardCount)
  BY DEF OpenWindow, Complete, Goto, Resting, SameRun, SameFiles, diskVars
<1>2. RecordsInv /\ WindowInv
  BY <1>1 DEF IInv, BuildInv
<1>3. ShardCount' = ShardCount
  BY <1>1, SameShards DEF Resting
<1>4. status' \in Statuses /\ (status' = "complete" => first' >= ShardCount)
  BY <1>1, <1>2, <1>3 DEF RecordsInv, Statuses
<1>5. WindowInv'
  <2>1. Shards' = Shards /\ \A k : Good(k)' = Good(k)
    BY <1>1, SameShards DEF Resting
  <2>2. \A k : Has(records, k)' <=> Has(records, k)
    BY <1>1 DEF Has, Resting
  <2>3. \A k \in Shards : buffer'[k] = {}
    BY <1>1, <1>2 DEF WindowInv, Resting
  <2> QED  BY <1>1, <1>2, <2>1, <2>2, <2>3 DEF WindowInv, Resting
<1> QED  BY <1>1, <1>3, <1>4, <1>5, RestingKeeps

\* A guard stops the build, or lets it go on.
LEMMA GuardsKeep ==
  ASSUME IInv, Guards \/ DiskGuard PROVE IInv'
<1>1. /\ pc \in {"guards", "write", "partial"} /\ pc' \in {"stream", "mirror"}
      /\ Resting /\ UNCHANGED first /\ status' \in {status, "stopped"}
  BY DEF Guards, DiskGuard, Stop, Goto, Resting, SameRun, SameFiles, diskVars
<1>2. RecordsInv /\ WindowInv
  BY <1>1 DEF IInv, BuildInv
<1>3. ShardCount' = ShardCount
  BY <1>1, SameShards DEF Resting
<1>4. status' \in Statuses /\ (status' = "complete" => first' >= ShardCount)
  BY <1>1, <1>2, <1>3 DEF RecordsInv, Statuses
<1>5. WindowInv'
  BY <1>1, <1>2, SameWindow DEF Resting
<1> QED  BY <1>1, <1>4, <1>5, RestingKeeps

\* The archive has ended: nothing acceptable of the window is undecided.
LEMMA EndPassKeeps ==
  ASSUME IInv, EndPass PROVE IInv'
<1>1. /\ pc = "stream" /\ pc' = "partial" /\ Deciding = {}
      /\ Resting /\ UNCHANGED <<first, status>>
  BY DEF EndPass, Goto, Resting, SameRun, SameFiles, diskVars
<1>2. RecordsInv /\ WindowInv
  BY <1>1 DEF IInv, BuildInv
<1>3. Shards' = Shards /\ ShardCount' = ShardCount /\ \A k : Good(k)' = Good(k)
  BY <1>1, SameShards DEF Resting
<1>4. \A k : (InWindow(k)' <=> InWindow(k)) /\ (Has(records, k)' <=> Has(records, k))
  BY <1>1, <1>3 DEF InWindow, Has, Resting
<1>5. ASSUME NEW k \in Shards, InWindow(k) PROVE Good(k) \cap pending = {}
  BY <1>1, <1>5 DEF Good, Deciding, Wanted
<1>6. WindowInv'
  BY <1>1, <1>2, <1>3, <1>4, <1>5 DEF WindowInv, Resting
<1>7. status' \in Statuses /\ (status' = "complete" => first' >= ShardCount)
  BY <1>1, <1>2, <1>3 DEF RecordsInv
<1> QED  BY <1>1, <1>6, <1>7, RestingKeeps

\* What is short is written: the window is done.
LEMMA PassDoneKeeps ==
  ASSUME IInv, PassDone PROVE IInv'
<1>1. /\ pc = "partial" /\ pc' = "window" /\ \A k \in Shards : buffer[k] = {}
      /\ Resting /\ UNCHANGED status /\ first' = first + window
  BY DEF PassDone, Goto, Resting, SameRun, SameFiles, diskVars
<1>2. RecordsInv /\ PatchInv /\ WindowInv
  BY <1>1 DEF IInv, BuildInv
<1>3. ShardCount \in Nat /\ first \in Nat /\ window \in Nat
  BY <1>2, ShardCountType DEF IInv, EnvInv, WindowInv
<1>4. Shards' = Shards /\ ShardCount' = ShardCount /\ \A k : Good(k)' = Good(k)
  BY <1>1, SameShards DEF Resting
<1>5. \A k : Has(records, k)' <=> Has(records, k)
  BY <1>1 DEF Has, Resting
<1>6. ASSUME NEW k \in Shards, k < first' PROVE Good(k) = {} \/ Has(records, k)
  <2>1. CASE k < first
    BY <1>2, <2>1 DEF WindowInv
  <2>2. CASE ~(k < first)
    <3>1. InWindow(k)
      BY <1>1, <1>3, <1>6, <2>2 DEF InWindow, LowerOf, Shards
    <3>2. Good(k) \cap pending = {} /\ buffer[k] = {}
      BY <1>1, <1>2, <3>1 DEF WindowInv
    <3> QED  BY <1>2, <3>2 DEF PatchInv
  <2> QED  BY <2>1, <2>2
<1>7. WindowInv'
  BY <1>1, <1>3, <1>4, <1>5, <1>6 DEF WindowInv, Resting
<1>8. status' \in Statuses /\ (status' = "complete" => first' >= ShardCount)
  BY <1>1, <1>2, <1>3, <1>4 DEF RecordsInv
<1> QED  BY <1>1, <1>7, <1>8, RestingKeeps

\* A patch is taken from those to come, and an acceptable one into its buffer.
LEMMA DecideKeeps ==
  ASSUME IInv, Decide PROVE IInv'
<1> DEFINE N == NextMember
           h == ShardOf(N)
<1>1. /\ pc = "stream" /\ pc' \in {"write", "guards"} /\ Deciding # {}
      /\ pending' = pending \ {N}
      /\ \/ grade[N] = "good" /\ buffer' = [buffer EXCEPT ![h] = @ \cup {N}]
         \/ grade[N] = "flawed" /\ buffer' = buffer
      /\ UNCHANGED <<envVars, diskVars, exit, window, records, first, status>>
  BY DEF Decide, Accept, Reject, Goto, SameRun, SameFiles, diskVars
<1>2. RecordsInv /\ PatchInv /\ WindowInv /\ EnvInv
  BY <1>1 DEF IInv, BuildInv
<1>3. N \in Deciding
  BY <1>1, <1>2, NextMemberIs DEF PatchInv, EnvInv
<1>4. N \in pending /\ N \in Ids(candidates) /\ InWindow(h) /\ h \in Shards
  BY <1>2, <1>3, ShardOfIsShard DEF Deciding, Wanted, PatchInv, EnvInv
<1>5. grade[N] = "good" => N \in Good(h)
  BY <1>4 DEF Good
<1>6. /\ Ids(candidates)' = Ids(candidates) /\ Shards' = Shards
      /\ ShardCount' = ShardCount /\ \A k : Good(k)' = Good(k)
  BY <1>1, SameShards
<1>7. \A k : (InWindow(k)' <=> InWindow(k)) /\ (Has(records, k)' <=> Has(records, k))
  BY <1>1, <1>6 DEF InWindow, Has
<1>8. \A k \in Shards : grade[N] = "flawed" => N \notin Good(k)
  BY DEF Good
<1>9. \A k \in Shards : N \in Good(k) => k = h
  BY DEF Good
<1> HIDE DEF N, h
<1>10. PatchInv'
  <2>1. pending' \subseteq Ids(candidates)'
    BY <1>1, <1>2, <1>6 DEF PatchInv
  <2>2. CASE grade[N] = "good" /\ buffer' = [buffer EXCEPT ![h] = @ \cup {N}]
    <3>1. buffer' \in [Shards -> SUBSET Ids(candidates)]
      BY <1>2, <1>4, <2>2 DEF PatchInv
    <3>2. ASSUME NEW k \in Shards, k # h
          PROVE  /\ buffer'[k] = buffer[k] /\ Good(k) \cap pending' = Good(k) \cap pending
    <4>1. N \notin Good(k)
      BY <1>9, <3>2
    <4> QED  BY <1>1, <1>2, <2>2, <3>2, <4>1 DEF PatchInv
    <3>3. buffer'[h] = buffer[h] \cup {N}
      BY <1>2, <1>4, <2>2 DEF PatchInv
    <3>4. ~Has(records, h)
      BY <1>2, <1>4, <1>5, <2>2 DEF PatchInv
    <3>5. ASSUME NEW k \in Shards
          PROVE  /\ buffer'[k] \subseteq Good(k) \ pending'
                 /\ Has(records, k) => buffer'[k] = {} /\ Good(k) \cap pending' = {}
                 /\ ~Has(records, k) => Good(k) \subseteq pending' \cup buffer'[k]
      <4>1. CASE k = h
        BY <1>1, <1>2, <1>4, <1>5, <2>2, <3>3, <3>4, <4>1 DEF PatchInv
      <4>2. CASE k # h
        BY <1>1, <1>2, <3>2, <4>2 DEF PatchInv
      <4> QED  BY <4>1, <4>2
    <3> QED  BY <2>1, <3>1, <3>5, <1>6, <1>7 DEF PatchInv
  <2>3. CASE grade[N] = "flawed" /\ buffer' = buffer
    BY <1>1, <1>2, <1>6, <1>7, <1>8, <2>1, <2>3 DEF PatchInv
  <2> QED  BY <1>1, <2>2, <2>3
<1>11. WindowInv'
  <2>1. \A k \in Shards : buffer'[k] # {} => k = h \/ buffer[k] # {}
    BY <1>1, <1>2 DEF PatchInv
  <2>2. pc' # "window" /\ pc' # "partial"
    BY <1>1
  <2> QED  BY <1>1, <1>2, <1>4, <1>6, <1>7, <2>1, <2>2 DEF WindowInv
<1>12. RecordsInv'
  BY <1>1, <1>2, <1>6, SameRecords DEF RecordsInv
<1>13. PublishedInv'
  <2>1. /\ exit' # "complete" /\ UNCHANGED <<envVars, published>>
        /\ \A r : disk'[r.index] = disk[r.index]
    BY <1>1, <1>2 DEF RecordsInv, diskVars
  <2> QED  BY <2>1, SamePublished
<1>14. EnvInv'
  BY <1>1, <1>2, SameEnv DEF diskVars
<1> QED  BY <1>10, <1>11, <1>12, <1>13, <1>14 DEF IInv, BuildInv

\* A shard is written with all that is acceptable of it, once.
LEMMA WriteKeeps ==
  ASSUME IInv, WriteFull \/ WritePartial PROVE IInv'
<1>1. PICK k \in Shards :
        /\ Write(k)
        /\ \/ pc = "write" /\ Cardinality(buffer[k]) = PerShard
           \/ pc = "partial" /\ buffer[k] # {}
  BY DEF WriteFull, WritePartial
<1>2. /\ pc # "idle" /\ pc' \notin {"window", "verify", "idle"} /\ (pc' = "partial" => pc = "partial")
      /\ status' \in {"in_progress", status}
      /\ UNCHANGED <<envVars, exit, window, pending, first>>
  BY DEF WriteFull, WritePartial, Goto, SameRun
<1>3. RecordsInv /\ PatchInv /\ WindowInv /\ EnvInv /\ k \in Nat
  BY <1>2 DEF IInv, BuildInv, Shards
<1>4. IsFiniteSet(Good(k)) /\ Cardinality(Good(k)) \in Nat /\ Cardinality(Good(k)) <= PerShard
  BY <1>3, GoodIs DEF EnvInv
<1>5. buffer[k] # {}
  BY <1>1, <1>3, FS_EmptySet, Constants
<1>6. ~Has(records, k) /\ buffer[k] \in SUBSET Good(k) /\ Good(k) \subseteq pending \cup buffer[k]
  BY <1>3, <1>5 DEF PatchInv
<1>7. buffer[k] = Good(k)
  <2>1. CASE pc = "write"
    <3>1. Cardinality(buffer[k]) = PerShard
      BY <1>1, <2>1
    <3>2. Cardinality(buffer[k]) <= Cardinality(Good(k))
      BY <1>4, <1>6, FS_Subset
    <3>3. Cardinality(buffer[k]) = Cardinality(Good(k))
      BY <3>1, <3>2, <1>4, Constants
    <3> QED  BY <3>3, <1>4, <1>6, FS_Subset
  <2>2. CASE pc = "partial"
    BY <1>3, <1>5, <1>6, <2>2 DEF WindowInv
  <2> QED  BY <1>1, <2>1, <2>2
<1>8. /\ disk' = [disk EXCEPT ![k] = GoodRows(k)]
      /\ records' = records \cup {Described(k)}
      /\ buffer' = [buffer EXCEPT ![k] = {}]
      /\ UNCHANGED <<mirror, published>>
  BY <1>1, <1>7 DEF Write, GoodRows, Described
<1>9. GoodRows(k) \in Seq(Patch)
  BY <1>3, GoodIs DEF EnvInv
<1>10. /\ disk'[k] = GoodRows(k) /\ \A j \in Shards : j # k => disk'[j] = disk[j]
       /\ buffer'[k] = {} /\ \A j \in Shards : j # k => buffer'[j] = buffer[j]
  BY <1>3, <1>8 DEF EnvInv, PatchInv
<1>11. /\ Ids(candidates)' = Ids(candidates) /\ Shards' = Shards /\ ShardCount' = ShardCount
       /\ \A j : Good(j)' = Good(j) /\ Described(j)' = Described(j)
       /\ Admitted <=> Admitted'
  BY <1>2, SameShards
<1>12. \A j : (InWindow(j)' <=> InWindow(j)) /\ (Has(records, j)' <=> Has(records, j) \/ j = k)
  <2>1. \A j : InWindow(j)' <=> InWindow(j)
    BY <1>2, <1>11 DEF InWindow
  <2>2. Described(k).index = k
    BY DEF Described
  <2> QED  BY <2>1, <2>2, <1>8 DEF Has
<1>13. ASSUME NEW r \in records PROVE r.index \in Shards /\ disk'[r.index] = disk[r.index]
  BY <1>3, <1>6, <1>10 DEF RecordsInv, Kept, Has
<1>14. EnvInv'
  <2>1. disk' \in [Shards -> {Absent, Torn} \cup Seq(Patch)]
    BY <1>3, <1>8, <1>9 DEF EnvInv
  <2> QED  BY <2>1, <1>2, <1>3, <1>11, SameShards DEF EnvInv
<1>15. PublishedInv'
  <2>1. exit' # "complete"
    BY <1>2, <1>3 DEF RecordsInv
  <2>2. Readable(published) => \A r \in published.shards : disk'[r.index] = disk[r.index]
    BY <1>3, <1>13 DEF RecordsInv
  <2> QED  BY <2>1, <2>2, <1>2, <1>8, SamePublished
<1>16. RecordsInv'
  <2>1. ASSUME NEW r \in records PROVE Kept(r)'
    BY <1>3, <1>11, <1>13 DEF RecordsInv, Kept
  <2>2. ASSUME NEW r, r = Described(k) PROVE Kept(r)'
    <3>1. r.index = k /\ r.rows = GoodRows(k)
      BY <2>2 DEF Described
    <3>2. k \in Shards' /\ Good(k)' # {} /\ Described(k)' = r
      BY <1>5, <1>7, <1>11, <2>2
    <3> QED  BY <3>1, <3>2, <1>10 DEF Kept
  <2>3. \A r \in records' : Kept(r)'
    BY <2>1, <2>2, <1>8
  <2>4. Readable(published)' => published'.shards \subseteq records'
    BY <1>3, <1>8 DEF RecordsInv, Readable
  <2> QED  BY <2>3, <2>4, <1>2, <1>3, <1>11 DEF RecordsInv, Statuses
<1>17. PatchInv'
  <2>1. buffer' \in [Shards -> SUBSET Ids(candidates)]
    BY <1>3, <1>8 DEF PatchInv
  <2>2. Good(k) \cap pending = {}
    BY <1>3, <1>7 DEF PatchInv
  <2> QED  BY <2>1, <2>2, <1>2, <1>3, <1>10, <1>11, <1>12 DEF PatchInv
<1>18. WindowInv'
  BY <1>2, <1>3, <1>10, <1>11, <1>12 DEF WindowInv
<1> QED  BY <1>2, <1>14, <1>15, <1>16, <1>17, <1>18 DEF IInv, BuildInv

LEMMA MirrorKeeps ==
  ASSUME IInv, PublishMirror PROVE IInv'
<1>1. /\ pc = "mirror" /\ pc' = "publish"
      /\ UNCHANGED <<envVars, exit, window, disk, published, status, first, pending,
                     buffer, records>>
  BY DEF PublishMirror, Goto, SameRun
<1>2. RecordsInv /\ PatchInv /\ WindowInv /\ EnvInv
  BY <1>1 DEF IInv, BuildInv
<1>3. EnvInv' /\ PatchInv' /\ WindowInv'
  BY <1>1, <1>2, SameEnv, SamePatches, SameWindow
<1>4. PublishedInv'
  <2>1. exit' # "complete" /\ \A r : disk'[r.index] = disk[r.index]
    BY <1>1, <1>2 DEF RecordsInv
  <2> QED  BY <2>1, <1>1, SamePublished
<1>5. RecordsInv'
  <2>1. ASSUME NEW r \in records PROVE Kept(r)'
    BY <1>1, <1>2, SameShards DEF RecordsInv, Kept
  <2>2. (Admitted <=> Admitted') /\ ShardCount' = ShardCount
    BY <1>1, SameShards
  <2> QED  BY <1>1, <1>2, <2>1, <2>2 DEF RecordsInv, Readable
<1> QED  BY <1>3, <1>4, <1>5 DEF IInv, BuildInv

\* What a build has recorded is a manifest, and can be read.
LEMMA PayloadIs ==
  ASSUME EnvInv, RecordsInv
  PROVE  /\ Payload \in Manifest /\ Readable(Payload)
         /\ Payload.shards = records /\ Payload.status = status
<1>1. ASSUME NEW r \in records PROVE r \in [index : Nat, rows : Seq(Patch)]
  <2>1. PICK k \in Nat : k = r.index /\ r = Described(k)
    BY <1>1 DEF RecordsInv, Kept, Shards
  <2>2. GoodRows(k) \in Seq(Patch)
    BY GoodIs DEF EnvInv
  <2> QED  BY <2>1, <2>2 DEF Described
<1>2. Payload \in Manifest
  BY <1>1 DEF Payload, Manifest, RecordsInv
<1> QED  BY <1>2, MarkersAssumption DEF Payload, Readable

LEMMA PublishKeeps ==
  ASSUME IInv, Publish PROVE IInv'
<1>1. /\ pc = "publish" /\ pc' \in {"guards", "verify"} /\ published' = Payload
      /\ UNCHANGED <<envVars, exit, window, disk, status, first, pending, buffer, records>>
  BY DEF Publish, Goto, SameRun
<1>2. RecordsInv /\ PatchInv /\ WindowInv /\ EnvInv
  BY <1>1 DEF IInv, BuildInv
<1>3. EnvInv' /\ PatchInv' /\ WindowInv'
  BY <1>1, <1>2, SameEnv, SamePatches, SameWindow
<1>4. /\ Payload \in Manifest /\ Readable(Payload)
      /\ Payload.shards = records /\ Payload.status = status
  BY <1>2, PayloadIs
<1>5. /\ (Admitted <=> Admitted') /\ ShardCount' = ShardCount /\ Shards' = Shards
      /\ \A k : Good(k)' = Good(k)
  BY <1>1, SameShards
<1>6. ASSUME NEW r \in records PROVE Kept(r)'
  BY <1>1, <1>2, SameShards DEF RecordsInv, Kept
<1>7. RecordsInv'
  <2>1. Payload' = Payload
    BY <1>1 DEF Payload
  <2> QED  BY <1>1, <1>2, <1>4, <1>5, <1>6, <2>1 DEF RecordsInv
<1>8. PublishedInv'
  <2>1. published' \in Manifest /\ published'.shards = records /\ published'.status = status
    BY <1>1, <1>4
  <2>2. ASSUME status = "complete", NEW k \in Shards, Good(k) # {}
        PROVE  Has(published.shards, k)'
    <3>1. k < first
      BY <1>2, <2>2, ShardCountType DEF EnvInv, RecordsInv, WindowInv, Shards
    <3> QED  BY <3>1, <2>1, <2>2, <1>2 DEF WindowInv, Has
  <2>3. exit' # "complete" /\ Admitted'
    BY <1>1, <1>2, <1>5 DEF RecordsInv
  <2> QED  BY <2>1, <2>2, <2>3, <1>5, <1>6 DEF PublishedInv
<1> QED  BY <1>3, <1>7, <1>8 DEF IInv, BuildInv

\* The build returns, raises or dies.
LEMMA EndKeeps ==
  ASSUME IInv, ReturnCode \/ Undecodable \/ Abort PROVE IInv'
<1>1. /\ pc # "idle" /\ pc' = "idle" /\ UNCHANGED envVars
      /\ \/ UNCHANGED <<disk, published>>
         \/ disk' = disk /\ published' = Torn
         \/ published' = published
            /\ \E k \in Shards : buffer[k] # {} /\ disk' = [disk EXCEPT ![k] = Torn]
      /\ exit' = "complete" =>
           \/ exit = "complete"
           \/ pc = "verify" /\ status = "complete" /\ UNCHANGED <<disk, published>>
  BY DEF ReturnCode, Undecodable, Abort, Over, Goto, SameFiles, diskVars
<1>2. RecordsInv /\ PatchInv /\ EnvInv
  BY <1>1 DEF IInv, BuildInv
<1>3. EnvInv'
  <2>1. disk' \in [Shards -> {Absent, Torn} \cup Seq(Patch)]
    BY <1>1, <1>2 DEF EnvInv
  <2> QED  BY <2>1, <1>1, <1>2, SameShards DEF EnvInv
<1>4. PublishedInv'
  <2>1. CASE published' = Torn /\ disk' = disk /\ published' # published
    BY <1>1, <1>2, <2>1 DEF PublishedInv, Readable, RecordsInv
  <2>2. CASE published' = published
    <3>1. exit' = "complete" => pc' = "idle" /\ Readable(published) /\ published.status = "complete"
      BY <1>1, <1>2, PayloadIs DEF RecordsInv
    <3>2. ASSUME Readable(published), NEW r \in published.shards
          PROVE  disk'[r.index] = disk[r.index]
      <4>1. r \in records /\ r.index \in Shards /\ buffer[r.index] = {}
        BY <1>2, <3>2 DEF RecordsInv, Kept, PatchInv, Has
      <4> QED  BY <1>1, <1>2, <4>1, <2>2 DEF EnvInv, Readable
    <3> QED  BY <1>1, <2>2, <3>1, <3>2, SamePublished
  <2> QED  BY <1>1, <2>1, <2>2
<1> QED  BY <1>1, <1>3, <1>4 DEF IInv, BuildInv

\* What is published is what is left of the selection's shards.
LEMMA StartKeeps ==
  ASSUME IInv, NEW w \in Windows, Start(w) PROVE IInv'
<1>1. /\ pc = "idle" /\ Admitted /\ published # Torn
      /\ pc' = "window" /\ status' = "in_progress" /\ exit' = "none"
      /\ window' = LowerOf(w, ShardCount) /\ first' = 0
      /\ records' = Named(published)
      /\ pending' = Ids(candidates) \ UNION {Ids(r.rows) : r \in records'}
      /\ buffer' = [k \in Shards |-> {}]
      /\ UNCHANGED <<envVars, diskVars>>
  BY DEF Start, Goto
<1>2. EnvInv /\ PublishedInv
  BY DEF IInv
<1>3. /\ Ids(candidates)' = Ids(candidates) /\ Shards' = Shards /\ ShardCount' = ShardCount
      /\ \A j : Good(j)' = Good(j) /\ Described(j)' = Described(j)
      /\ Admitted <=> Admitted'
  BY <1>1, SameShards
<1>4. /\ Readable(published) => records' = published.shards
      /\ ~Readable(published) => records' = {}
  BY <1>1 DEF Named, Readable
<1>5. \A r \in records' : Kept(r)
  BY <1>2, <1>4 DEF PublishedInv
<1>6. EnvInv'
  BY <1>1, <1>2, SameEnv DEF diskVars
<1>7. PublishedInv'
  <2>1. /\ UNCHANGED <<envVars, published>> /\ exit' # "complete"
        /\ \A r : disk'[r.index] = disk[r.index]
    BY <1>1 DEF diskVars
  <2> QED  BY <2>1, SamePublished
<1>8. RecordsInv'
  <2>1. ASSUME NEW r \in records' PROVE Kept(r)'
    BY <1>1, <1>3, <1>5 DEF Kept, diskVars
  <2>2. Readable(published)' => published'.shards \subseteq records'
    BY <1>1, <1>4 DEF Readable, diskVars
  <2> QED  BY <1>1, <1>3, <2>1, <2>2 DEF RecordsInv, Statuses
<1>9. PatchInv'
  <2>1. ASSUME NEW r \in records' PROVE Ids(r.rows) = Good(r.index)
    <3>1. PICK k \in Shards : k = r.index /\ r = Described(k)
      BY <1>5 DEF Kept
    <3>2. k \in Int
      BY DEF Shards
    <3>3. r.rows = GoodRows(k)
      BY <3>1 DEF Described
    <3> QED  BY <1>2, <3>1, <3>2, <3>3, GoodIs DEF EnvInv
  <2>2. ASSUME NEW k \in Shards, Has(records, k)' PROVE Good(k) \cap pending' = {}
    <3>1. PICK r \in records' : r.index = k
      BY <2>2 DEF Has
    <3> QED  BY <3>1, <2>1, <1>1
  <2>3. ASSUME NEW k \in Shards, ~Has(records, k)' PROVE Good(k) \subseteq pending'
    <3>1. ASSUME NEW p \in Good(k), NEW r \in records', p \in Ids(r.rows) PROVE FALSE
      <4>1. p \in Good(r.index)
        BY <2>1, <3>1
      <4>2. r.index = k
        BY <4>1 DEF Good
      <4> QED  BY <4>2, <2>3 DEF Has
    <3>2. Good(k) \subseteq Ids(candidates)
      BY DEF Good
    <3> QED  BY <3>1, <3>2, <1>1
  <2> QED  BY <2>2, <2>3, <1>1, <1>3 DEF PatchInv
<1>10. WindowInv'
  <2>1. window' \in Nat
    BY <1>1, <1>2, Constants, ShardCountType DEF EnvInv, LowerOf
  <2> QED  BY <2>1, <1>1, <1>3 DEF WindowInv, Shards
<1> QED  BY <1>6, <1>7, <1>8, <1>9, <1>10 DEF IInv, BuildInv

LEMMA StutterKeeps ==
  ASSUME IInv, UNCHANGED vars PROVE IInv'
<1> USE DEF vars, diskVars
<1>1. EnvInv'
  BY SameEnv DEF IInv
<1>2. PublishedInv'
  BY SamePublished DEF IInv, PublishedInv
<1>3. ASSUME pc # "idle" PROVE RecordsInv' /\ PatchInv' /\ WindowInv'
  <2>1. RecordsInv /\ PatchInv /\ WindowInv
    BY <1>3 DEF IInv, BuildInv
  <2>2. PatchInv'
    BY <2>1, SamePatches
  <2>3. ASSUME NEW r \in records PROVE Kept(r)'
    BY <2>1, SameShards DEF RecordsInv, Kept
  <2>4. /\ (Admitted <=> Admitted') /\ ShardCount' = ShardCount /\ Shards' = Shards
        /\ \A k : Good(k)' = Good(k)
    BY SameShards
  <2>5. RecordsInv'
    BY <2>1, <2>3, <2>4 DEF RecordsInv, Readable, Payload
  <2>6. \A k : (InWindow(k)' <=> InWindow(k)) /\ (Has(records, k)' <=> Has(records, k))
    BY <2>4 DEF InWindow, Has
  <2>7. WindowInv'
    BY <2>1, <2>4, <2>6 DEF WindowInv
  <2> QED  BY <2>2, <2>5, <2>7
<1> QED  BY <1>1, <1>2, <1>3 DEF IInv, BuildInv

LEMMA Invariance == Spec => []IInv
<1>1. ASSUME IInv, [Next]_vars PROVE IInv'
  BY <1>1, RefuseKeeps, SkipKeeps, OpenKeeps, GuardsKeep, EndPassKeeps, PassDoneKeeps,
     DecideKeeps, WriteKeeps, MirrorKeeps, PublishKeeps, EndKeeps, StartKeeps, StutterKeeps
     DEF Next
<1> QED  BY InitIInv, <1>1, PTL DEF Spec

-----------------------------------------------------------------------------
(* The theorems.                                                           *)

\* Whenever the published manifest can be read, its shards are whole, no patch
\* is in two, and each holds the acceptable patches of its ranks in selection
\* order: whatever was interrupted, resumed, or rebuilt with another window.
THEOREM InterruptedBuildIsAPrefix == Spec => []ValidPrefix
<1>1. ASSUME IInv PROVE ValidPrefix
  <2> SUFFICES ASSUME Readable(published)
               PROVE  /\ Verified(published)
                      /\ \A r \in published.shards : r.rows = GoodRows(r.index)
    BY DEF ValidPrefix
  <2>1. \A r \in published.shards : Kept(r)
    BY <1>1 DEF IInv, PublishedInv
  <2>2. ASSUME NEW r \in published.shards
        PROVE  r.rows = GoodRows(r.index) /\ disk[r.index] = r.rows /\ Ids(r.rows) = Good(r.index)
    <3>1. PICK k \in Shards : k = r.index /\ r = Described(k) /\ disk[r.index] = r.rows
      BY <2>1 DEF Kept
    <3>2. k \in Int
      BY DEF Shards
    <3>3. r.rows = GoodRows(k)
      BY <3>1 DEF Described
    <3> QED  BY <1>1, <3>1, <3>2, <3>3, GoodIs DEF IInv, EnvInv
  <2>3. ASSUME NEW r \in published.shards, NEW s \in published.shards, r # s
        PROVE  r.index # s.index /\ Ids(r.rows) \cap Ids(s.rows) = {}
    <3>1. r.index # s.index
      BY <2>1, <2>3 DEF Kept
    <3>2. Good(r.index) \cap Good(s.index) = {}
      BY <3>1 DEF Good
    <3> QED  BY <2>2, <3>1, <3>2
  <2> QED  BY <2>2, <2>3 DEF Verified, Verifiable
<1> QED  BY <1>1, Invariance, PTL

\* A build that reports completion, in its manifest or by its exit code, has
\* every shard of an uninterrupted build, and only patches of its own side that
\* are not of the set it keeps apart from.
THEOREM CompletionIsTrue == Spec => []CompleteIsWhole
<1>1. ASSUME IInv PROVE CompleteIsWhole
  <2> SUFFICES ASSUME exit = "complete" \/ (Readable(published) /\ published.status = "complete")
               PROVE  /\ \A k \in Shards : GoodRows(k) # <<>> =>
                           Readable(published) /\ \E r \in published.shards : r.index = k
                      /\ \A r \in Named(published) : \A p \in Ids(r.rows) :
                           p \notin excluded /\ Side(p) = "train"
    BY DEF CompleteIsWhole
  <2>1. /\ Readable(published) /\ published.status = "complete" /\ Admitted
        /\ \A r \in published.shards : Kept(r)
        /\ \A k \in Shards : Good(k) # {} => Has(published.shards, k)
    BY <1>1 DEF IInv, PublishedInv
  <2>2. ASSUME NEW k \in Shards, GoodRows(k) # <<>>
        PROVE  \E r \in published.shards : r.index = k
    <3>1. k \in Int
      BY DEF Shards
    <3>2. Good(k) # {}
      BY <1>1, <2>2, <3>1, GoodIs DEF IInv, EnvInv
    <3> QED  BY <2>1, <3>2 DEF Has
  <2>3. ASSUME NEW r \in Named(published), NEW p \in Ids(r.rows)
        PROVE  p \notin excluded /\ Side(p) = "train"
    <3>1. PICK k \in Shards : r = Described(k)
      BY <2>1 DEF Named, Readable, Kept
    <3>2. k \in Int
      BY DEF Shards
    <3>3. p \in Ids(candidates)
      BY <1>1, <3>1, <3>2, GoodIs DEF IInv, EnvInv, Described
    <3>4. p \notin excluded /\ p \in Split
      BY <2>1, <3>3 DEF Admitted, Pure
    <3>5. p[1] \in Tile
      BY <3>4 DEF Split
    <3> QED  BY <3>4, <3>5 DEF Side
  <2> QED  BY <2>1, <2>2, <2>3
<1> QED  BY <1>1, Invariance, PTL

\* A shard that was published is published by every later build that publishes,
\* and its file is not written again.
THEOREM PublishedStays == Spec => NothingLost
<1>1. ASSUME IInv, Next, Readable(published), Readable(published')
      PROVE  /\ published.shards \subseteq published'.shards
             /\ \A r \in published.shards : disk'[r.index] = disk[r.index]
  <2>1. \A r \in published.shards : Kept(r)
    BY <1>1 DEF IInv, PublishedInv
  <2>2. CASE published' = published /\ disk' = disk
    BY <2>2
  <2>3. CASE pc # "idle"
    <3>1. /\ RecordsInv /\ PatchInv /\ EnvInv /\ published.shards \subseteq records
      BY <1>1, <2>3 DEF IInv, BuildInv, RecordsInv
    <3>2. CASE Publish
      BY <3>1, <3>2, PayloadIs DEF Publish
    <3>3. CASE WriteFull \/ WritePartial \/ Abort
      <4>1. \/ UNCHANGED <<disk, published>> \/ published' = Torn
            \/ /\ published' = published
               /\ \E k \in Shards : /\ buffer[k] # {}
                                    /\ \A j \in Shards : j # k => disk'[j] = disk[j]
        <5>1. CASE Abort
          BY <3>1, <5>1 DEF Abort, SameFiles, diskVars, EnvInv
        <5>2. CASE WriteFull \/ WritePartial
          <6>1. PICK k \in Shards :
                  Write(k) /\ (buffer[k] # {} \/ Cardinality(buffer[k]) = PerShard)
            BY <5>2 DEF WriteFull, WritePartial
          <6>2. buffer[k] # {}
            BY <6>1, FS_EmptySet, Constants
          <6> QED  BY <3>1, <6>1, <6>2 DEF Write, EnvInv
        <5> QED  BY <3>3, <5>1, <5>2
      <4>2. \A r \in published.shards : r.index \in Shards /\ buffer[r.index] = {}
        BY <2>1, <3>1 DEF Kept, PatchInv, Has
      <4>3. published' # Torn
        BY <1>1 DEF Readable
      <4> QED  BY <4>1, <4>2, <4>3
    <3>4. CASE ~(Publish \/ WriteFull \/ WritePartial \/ Abort)
      <4>1. UNCHANGED <<disk, published>>
        BY <1>1, <3>4 DEF Next, Start, Refuse, StartFails, SkipWindow, OpenWindow, Complete,
           Decide, Undecodable, DiskGuard, Guards, EndPass, PassDone, PublishMirror,
           ReturnCode, SameFiles, diskVars
      <4> QED  BY <4>1
    <3> QED  BY <3>2, <3>3, <3>4
  <2>4. CASE pc = "idle"
    <3>1. UNCHANGED <<disk, published>>
      BY <1>1, <2>4 DEF Next, Start, Refuse, StartFails, SkipWindow, OpenWindow, Complete,
         Decide, Undecodable, WriteFull, DiskGuard, Guards, EndPass, WritePartial, PassDone,
         PublishMirror, Publish, ReturnCode, Abort, diskVars
    <3> QED  BY <3>1
  <2> QED  BY <2>3, <2>4
<1>2. IInv /\ [Next]_vars =>
        [(Readable(published) /\ Readable(published')) =>
           /\ published.shards \subseteq published'.shards
           /\ \A r \in published.shards : disk'[r.index] = disk[r.index]]_vars
  BY <1>1
<1> QED  BY <1>2, Invariance, PTL DEF Spec, NothingLost

\* The selection of any stock is balanced in every prefix: a tile more than one
\* patch behind another has none left; no patch is selected twice, and as many
\* are as were asked for, or as there are.  And the set built in one pass
\* accounts for every candidate, whatever the archive holds.
THEOREM SelectionIsBalanced == Spec => []PrefixBalanced
<1> DEFINE FromStock ==
      /\ available \in Available
      /\ listed = Absent => candidates = Selection(available, Total)
<1>1. Init => FromStock
  BY DEF Init
<1>2. FromStock /\ [Next]_vars => FromStock'
  <2>1. ASSUME [Next]_vars PROVE UNCHANGED envVars
    BY <2>1 DEF Next, vars, Start, Refuse, StartFails, SkipWindow, OpenWindow, Complete,
       Decide, Undecodable, WriteFull, DiskGuard, Guards, EndPass, WritePartial, PassDone,
       PublishMirror, Publish, ReturnCode, Abort, SameRun, Over
  <2> QED  BY <2>1 DEF envVars
<1>3. FromStock => Balanced
  <2> SUFFICES ASSUME FromStock, listed = Absent
               PROVE  /\ Cardinality(Ids(candidates)) = Len(candidates)
                      /\ Len(candidates) = LowerOf(Total, Dealt(available))
                      /\ \A m \in 0 .. Len(candidates) : \A t, u \in Tile :
                           PrefixCount(candidates, m, t) + 1 < PrefixCount(candidates, m, u)
                             => PrefixCount(candidates, m, t) = available[t]
    BY DEF Balanced
  <2>1. Total \in Nat /\ available \in Available /\ candidates = Selection(available, Total)
    BY Constants
  <2>2. /\ candidates \in Seq(Patch) /\ IsInjective(candidates)
        /\ Len(candidates) = Dealt(Quotas(available, Total))
    BY <2>1, SelectionIs DEF Dealt
  <2>3. Cardinality(Ids(candidates)) = Len(candidates)
    BY <2>2, InjectiveSequence DEF Ids
  <2>4. Len(candidates) = LowerOf(Total, Dealt(available))
    BY <2>1, <2>2, StockIsTiling, QuotasAreEven DEF LowerOf
  <2>5. ASSUME NEW m \in 0 .. Len(candidates), NEW t \in Tile, NEW u \in Tile,
               PrefixCount(candidates, m, t) + 1 < PrefixCount(candidates, m, u)
        PROVE  PrefixCount(candidates, m, t) = available[t]
    BY <2>1, <2>5, PrefixIsBalanced
  <2> QED  BY <2>3, <2>4, <2>5
<1>4. FromStock => PrefixBalanced
  BY <1>3, OnePassAccounts DEF PrefixBalanced
<1> QED  BY <1>1, <1>2, <1>4, PTL DEF Spec

LEMMA PublishedSet ==
  ASSUME IInv, Readable(published), published.shards # {}
  PROVE  SetOf({Files(r) : r \in published.shards})
<1> DEFINE set == {Files(r) : r \in published.shards}
<1>1. /\ EnvInv /\ Admitted /\ \A r \in published.shards : Kept(r)
  BY DEF IInv, PublishedInv
<1>2. ASSUME NEW r \in published.shards
      PROVE  /\ r.index \in Shards /\ r.rows = GoodRows(r.index)
             /\ r.rows \in Seq(Patch) /\ r.rows # <<>> /\ IsInjective(r.rows)
             /\ Range(r.rows) = Good(r.index)
             /\ Range(r.rows) \subseteq Split \ (excluded \cup Uncaptioned)
             /\ Files(r) = FileOf(r.index, r.rows)
  <2>1. PICK k \in Shards : k = r.index /\ r = Described(k) /\ disk[k] = r.rows /\ Good(k) # {}
    BY <1>1 DEF Kept
  <2>2. k \in Int
    BY DEF Shards
  <2>3. r.rows = GoodRows(k)
    BY <2>1 DEF Described
  <2>4. /\ Good(k) \subseteq Ids(candidates) /\ GoodRows(k) \in Seq(Patch)
        /\ Range(GoodRows(k)) = Good(k) /\ GoodRows(k) # <<>>
    BY <1>1, <2>1, <2>2, GoodIs DEF EnvInv, Ids
  <2>5. IsInjective(GoodRows(k))
    BY <1>1, <2>4, InOrderIsOrder DEF EnvInv, GoodRows, IsInjective
  <2>6. Good(k) \subseteq Split \ (excluded \cup Uncaptioned)
    BY <1>1, <2>4 DEF Admitted, Pure, Captioned
  <2>7. Files(r) = FileOf(k, r.rows)
    <3>1. r.rows \notin {Absent, Torn} /\ DOMAIN r.rows = 1 .. Len(r.rows)
      BY <2>3, <2>4, MarkersDiffer, MarkersAssumption
    <3> QED  BY <2>1, <3>1 DEF Files, FileOf
  <2> QED  BY <2>1, <2>3, <2>4, <2>5, <2>6, <2>7
<1>3. IsFiniteSet(set)
  <2> DEFINE I == {k \in Shards : \E r \in published.shards : r.index = k}
             f == [k \in I |-> FileOf(k, GoodRows(k))]
  <2>1. IsFiniteSet(I)
    <3>1. IsFiniteSet(Shards)
      BY <1>1, ShardCountType, FS_Interval DEF Shards, EnvInv
    <3> QED  BY <3>1, FS_Subset
  <2>2. set = {f[k] : k \in I}
    BY <1>2
  <2>3. DOMAIN f = I
    OBVIOUS
  <2> HIDE DEF f, I, set
  <2> QED  BY <2>1, <2>2, <2>3, Image
<1>4. ASSUME NEW s \in set
      PROVE  \E k \in Nat, R \in Seq(Patch) :
               /\ s = FileOf(k, R) /\ R # <<>> /\ IsInjective(R)
               /\ Range(R) \subseteq Split \ (excluded \cup Uncaptioned)
  <2>1. PICK r \in published.shards : s = Files(r)
    OBVIOUS
  <2>2. r.index \in Nat
    BY <1>2 DEF Shards
  <2> QED  BY <1>2, <2>1, <2>2
<1>5. ASSUME NEW s \in set, NEW t \in set, s # t
      PROVE  s.index # t.index /\ Range(s.npz) \cap Range(t.npz) = {}
  <2>1. PICK r \in published.shards, q \in published.shards : s = Files(r) /\ t = Files(q)
    OBVIOUS
  <2>2. /\ s = FileOf(r.index, GoodRows(r.index)) /\ t = FileOf(q.index, GoodRows(q.index))
        /\ Range(GoodRows(r.index)) = Good(r.index) /\ Range(GoodRows(q.index)) = Good(q.index)
    BY <1>2, <2>1
  <2>3. /\ s.index = r.index /\ s.npz = GoodRows(r.index)
        /\ t.index = q.index /\ t.npz = GoodRows(q.index)
    BY <2>2 DEF FileOf
  <2>4. r.index # q.index
    BY <1>5, <2>2
  <2>5. Good(r.index) \cap Good(q.index) = {}
    BY <2>4 DEF Good
  <2> QED  BY <2>2, <2>3, <2>4, <2>5
<1> QED  BY <1>3, <1>4, <1>5 DEF SetOf

\* The audit passes every prefix a build may leave; it finds, whatever rows it
\* samples, every fault that the files and what it is given do not hide
\* together, and one that they do, a row under another patch's id among them,
\* exactly when it samples the row; without the split manifest it never finds a
\* row of a wrong tile.
THEOREM AuditFindsFaults == Spec => []AuditIsRight
<1>1. ASSUME NEW set, SetOf(set), NEW given \in Givens, NEW sample \in Samples(set)
      PROVE  Passes(set, given, sample)
  <2>1. \A s \in set : Fine(s, given) /\ s.npz # Absent /\ IsFiniteSet(DOMAIN s.sidecar)
    BY <1>1, ShardIsFine DEF Fine
  <2>2. Positions(set) # {}
    <3>1. PICK s \in set : TRUE
      BY <1>1 DEF SetOf
    <3>2. PICK i \in DOMAIN s.sidecar : TRUE
      BY <1>1, ShardIsFine
    <3> QED  BY <2>1, <3>2, PositionsAre DEF Present
  <2>3. sample \subseteq Positions(set) /\ sample # {}
    BY <1>1, <2>1, <2>2, SamplesAreSome DEF SetOf
  <2>4. ASSUME NEW x \in sample
        PROVE  RowAt(x).caption = RowAt(x).id /\ x[1].npz[x[2]] = RowAt(x).id
    <3>1. x[1] \in set /\ x[2] \in DOMAIN x[1].sidecar
      BY <2>3, PositionsAre DEF Present
    <3> QED  BY <1>1, <3>1, ShardIsFine DEF Sourced, RowAt
  <2> QED  BY <1>1, <2>1, <2>3, <2>4, SetIsDistinct, FineIsSound DEF Passes, SourceMatches
<1>2. IInv => AuditIsRight
  <2> SUFFICES ASSUME IInv, Readable(published), published.shards # {}, NEW given \in Givens
               PROVE  LET set == {Files(r) : r \in published.shards}
                          with(s, f) == (set \ {s}) \cup {f}
                      IN /\ \A sample \in Samples(set) : Passes(set, given, sample)
                         /\ \A s \in set :
                              /\ \A f \in Faults(set, s, Claimed, given) : ~Sound(with(s, f), given)
                              /\ \A i \in DOMAIN s.sidecar :
                                   /\ \A f \in Disguised(set, s, i, Claimed, given) :
                                        /\ Sound(with(s, f), given)
                                        /\ \A sample \in Samples(with(s, f)) :
                                             SourceMatches(sample) <=> <<f, i>> \notin sample
                                   /\ \A f \in Unseen(s, i, given) :
                                        /\ Sound(with(s, f), given)
                                        /\ \A sample \in Samples(with(s, f)) :
                                             SourceMatches(sample)
    BY DEF AuditIsRight
  <2> DEFINE set == {Files(r) : r \in published.shards}
             with(s, f) == (set \ {s}) \cup {f}
  <2>1. SetOf(set)
    BY PublishedSet
  <2> HIDE DEF set
  <2>2. \A sample \in Samples(set) : Passes(set, given, sample)
    BY <1>1, <2>1
  <2>3. \A s \in set : \A f \in Faults(set, s, Claimed, given) : ~Sound(with(s, f), given)
    BY <2>1, FaultsAreFound
  <2>4. ASSUME NEW s \in set, NEW i \in DOMAIN s.sidecar,
               NEW f \in Disguised(set, s, i, Claimed, given)
        PROVE  /\ Sound(with(s, f), given)
               /\ \A sample \in Samples(with(s, f)) :
                    SourceMatches(sample) <=> <<f, i>> \notin sample
    <3>1. Fine(f, given) /\ Altered(set, s, i, f) /\ ~Sourced(f, i)
      BY <2>1, DisguisedIs
    <3> QED  BY <2>1, <3>1, AlteredIsSound
  <2>5. ASSUME NEW s \in set, NEW i \in DOMAIN s.sidecar, NEW f \in Unseen(s, i, given)
        PROVE  /\ Sound(with(s, f), given)
               /\ \A sample \in Samples(with(s, f)) : SourceMatches(sample)
    <3>1. Fine(f, given) /\ Altered(set, s, i, f) /\ Sourced(f, i)
      BY <2>1, UnseenIs
    <3> QED  BY <2>1, <3>1, AlteredIsSound
  <2> QED  BY <2>2, <2>3, <2>4, <2>5 DEF set
<1> QED  BY <1>2, Invariance, PTL

=============================================================================
