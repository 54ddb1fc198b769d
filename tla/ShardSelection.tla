--------------------------- MODULE ShardSelection ---------------------------
(***************************************************************************)
(* The interleaved selection of data/bigearthnet_shards.py: which patches  *)
(* of which tiles a shard set is built from, and in which order, so that a *)
(* build that stops at any shard still holds a balanced sample of tiles.   *)
(***************************************************************************)
EXTENDS Integers, Sequences, Functions, FiniteSets

CONSTANTS
  Tiles,    \* number of tiles of the side, in sorted order 0 .. Tiles-1
  TakeOrder \* TakeOrder[t][n]: the permutation of tile t's n patches that is
            \* drawn from the seed and t

ASSUME SelectionAssumption == Tiles \in Nat \ {0}

Tile == 0 .. Tiles-1

\* The patches of a quota, each as its tile and the round in which the tile
\* gives it.
Turns(quota) == UNION {{t} \X (1 .. quota[t]) : t \in Tile}
Dealt(quota) == Cardinality(Turns(quota))

\* The quotas: one patch at a time to the tiles in turn, skipping a tile that
\* has no more, until n are dealt or a round deals none.
Visit(available, n, quota, t) ==
  IF Dealt(quota) < n /\ quota[t] < available[t] THEN [quota EXCEPT ![t] = @ + 1]
  ELSE quota
Visits(available, n) ==
  LET quota[v \in 0 .. n * Tiles] ==
        IF v = 0 THEN [t \in Tile |-> 0]
        ELSE Visit(available, n, quota[v-1], (v-1) % Tiles)
  IN quota
Quotas(available, n) == Visits(available, n)[n * Tiles]

\* A patch is its tile and its place among the tile's sorted patches.
Taken(available, t, i) == <<t, TakeOrder[t][available[t]][i]>>

\* select_patch_ids: the tiles one after the other, each one's patches sorted.
GroupedSelection(available, n) ==
  LET quota == Quotas(available, n)
      most == CHOOSE m \in Range(available) : \A k \in Range(available) : k <= m
      all == [v \in 1 .. most * Tiles |-> <<(v-1) \div most, ((v-1) % most) + 1>>]
      taken(t) == {TakeOrder[t][available[t]][i] : i \in 1 .. quota[t]}
  IN SelectSeq(all, LAMBDA p : p[2] \in taken(p[1]))

\* select_patch_ids_interleaved: the queues are emptied in turn, a round after
\* the other and in each the tiles in order.
UpTo(turns, x) == {y \in turns : y[2] < x[2] \/ (y[2] = x[2] /\ y[1] <= x[1])}
Selection(available, n) ==
  LET turns == Turns(Quotas(available, n))
      turn(i) == CHOOSE x \in turns : Cardinality(UpTo(turns, x)) = i
  IN [i \in 1 .. Cardinality(turns) |-> Taken(available, turn(i)[1], turn(i)[2])]

\* How many of the first m patches of a selection are of tile t, as
\* prefix_tile_balance counts them.
PrefixCount(selection, m, t) == Cardinality({i \in 1 .. m : selection[i][1] = t})
=============================================================================
