----------------------------- MODULE MerkleTree -----------------------------
(***************************************************************************)
(* build_merkle_tree of core/engine.py with free hashes: a leaf is the     *)
(* hash of a shard, an inner node the hash of two nodes.                   *)
(***************************************************************************)
EXTENDS Naturals, Sequences

LeafHash(x)    == <<x>>
NodeHash(l, r) == <<l, r>>

\* Variant: a last node without a partner is dropped.
DropOdd(layer) == SubSeq(layer, 1, Len(layer) - (Len(layer) % 2))

\* A last node without a partner is doubled.
Padded(layer) ==
  IF Len(layer) % 2 = 1 THEN Append(layer, layer[Len(layer)]) ELSE layer

NextLayer(layer) ==
  LET even == Padded(layer)
  IN  [i \in 1..Len(even) \div 2 |-> NodeHash(even[2 * i - 1], even[2 * i])]

\* The root over a sequence of shards; without shards, the hash of nothing.
MerkleRoot(shards) ==
  LET layer[k \in 0..Len(shards)] ==
        IF k = 0 THEN [i \in 1..Len(shards) |-> LeafHash(shards[i])]
        ELSE IF Len(layer[k - 1]) > 1 THEN NextLayer(layer[k - 1])
        ELSE layer[k - 1]
  IN  layer[Len(shards)]
=============================================================================
