----------------------------- MODULE ShardReader -----------------------------
(***************************************************************************)
(* ShardDataset of data/bigearthnet_shards.py: the reader that hands out   *)
(* the patches of a shard set in one permutation per epoch, and whose      *)
(* position (epoch, cursor) is all that a checkpoint keeps of it.          *)
(***************************************************************************)
EXTENDS Integers, Sequences

CONSTANTS
  N,         \* number of patches in the manifest
  LastEpoch, \* bound: the last epoch whose order is given
  EpochOrder \* epoch_order: the permutation drawn from (seed, epoch)

\* The index of a patch, and of a position in an epoch.
Patches == 0 .. N-1

ASSUME ReaderAssumption ==
  /\ N \in Nat \ {0}
  /\ LastEpoch \in Nat
  /\ EpochOrder \in [0 .. LastEpoch -> [Patches -> Patches]]
  /\ \A e \in 0 .. LastEpoch, c, d \in Patches :
       EpochOrder[e][c] = EpochOrder[e][d] => c = d

Readers == [epoch : 0 .. LastEpoch + 1, cursor : Patches]

\* A new reader, and the one whose position a checkpoint holds.
NewReader == [epoch |-> 0, cursor |-> 0]

\* The epoch rolls over when the cursor has passed its last position.
Rolled(r) == IF r.cursor >= N THEN [epoch |-> r.epoch + 1, cursor |-> 0]
                              ELSE r

\* next_entry: what it returns, and the reader it leaves.
NextEntry(r) == LET p == Rolled(r) IN EpochOrder[p.epoch][p.cursor]
AfterNext(r) ==
  LET p == Rolled(r) IN Rolled([epoch |-> p.epoch, cursor |-> p.cursor + 1])

\* advance: the position a caller of entries_from records as consumed.
Advance(r, position) == Rolled([epoch |-> r.epoch, cursor |-> position])

\* The patch the i-th draw of an undisturbed run returns, counting from 0.
Reference(i) == EpochOrder[i \div N][i % N]
=============================================================================
