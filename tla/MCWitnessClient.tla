--------------------------- MODULE MCWitnessClient ---------------------------
(***************************************************************************)
(* A client of the tree of MCCommitmentTreeDb: with two leaves to a        *)
(* sub-shard and two sub-shards to a shard the tree has depth four, one    *)
(* level in each lower tier and two in the cap, whose four slots are one   *)
(* prefetched shard, a window of two and one that is always empty.         *)
(***************************************************************************)
EXTENDS MCCommitmentTreeDb, WitnessClient
=============================================================================
