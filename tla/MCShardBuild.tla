---------------------------- MODULE MCShardBuild ----------------------------
(***************************************************************************)
(* Two tiles, the permutation of one of them reversed: five patches in     *)
(* three shards, evenly or unevenly spread over the tiles.                 *)
(***************************************************************************)
EXTENDS ShardBuild

MCTakeOrder ==
  [t \in 0 .. 1 |-> [n \in 1 .. 5 |-> [i \in 1 .. n |->
     IF t = 0 THEN n + 1 - i ELSE i]]]

\* A list that is accepted where the tiles hold its patches, and lists with a
\* patch twice, of the other side, without a caption or absent from the split,
\* too short, and not as recorded.
List(ids) == [ids |-> ids, seed |-> TRUE, digest |-> TRUE]
GoodIds == <<<<0, 1>>, <<0, 2>>, <<0, 3>>, <<1, 2>>, <<1, 1>>>>
MCLists ==
  {List(GoodIds), List(<<<<0, 1>>, <<0, 2>>, <<0, 3>>, <<1, 1>>, <<0, 1>>>>),
   List(<<<<0, 1>>, <<0, 2>>, <<0, 3>>, <<1, 1>>, <<2, 1>>>>),
   List(<<<<0, 1>>, <<1, 1>>, <<1, 2>>, <<1, 3>>, <<1, 5>>>>),
   List(<<<<0, 1>>>>), [List(GoodIds) EXCEPT !.seed = FALSE],
   [List(GoodIds) EXCEPT !.digest = FALSE]}
MCUncaptioned == {<<1, 5>>}

MCEvalOrder == [t \in {0} |-> [n \in 1 .. 3 |-> [i \in 1 .. n |-> n + 1 - i]]]
MCEvalAvailable == 0 :> 3

\* The members of two candidates with two bands each, interleaved in any way,
\* any of them missing or flawed.
Slots == {s \in [1 .. 4 -> {1, 2}] : Cardinality({i \in 1 .. 4 : s[i] = 1}) = 2}
Band(s, i) == Cardinality({j \in 1 .. i : s[j] = s[i]})
MCArchives ==
  UNION {{SelectSeq([i \in 1 .. 4 |-> [of |-> s[i], band |-> Band(s, i), kind |-> k[i]]],
                    LAMBDA m : m.kind # "absent") :
            k \in [1 .. 4 -> {"good", "zero", "size", "broken", "absent"}]} : s \in Slots}

MCAvailable == {(0 :> 3) @@ (1 :> 3), (0 :> 1) @@ (1 :> 5)}
=============================================================================
