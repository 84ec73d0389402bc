-------------------------- MODULE MCCommitmentTreeDb --------------------------
(***************************************************************************)
(* Sub-shards of two leaves, two to a shard, a window of two shards behind *)
(* one prefetched shard root.  a1 ends inside a sub-shard; a2 and b2 are   *)
(* on two branches, ending inside a sub-shard and at the end of a shard;   *)
(* c3 has no commitments; a3 outgrows the window after a2 and fills it     *)
(* exactly after b2.                                                       *)
(***************************************************************************)
EXTENDS CommitmentTreeDb, TLC

CONSTANTS a1, a2, a3, b2, c3, shard0

MCHeightOf == a1 :> 1 @@ a2 :> 2 @@ b2 :> 2 @@ a3 :> 3 @@ c3 :> 3
MCCount == a1 :> 3 @@ a2 :> 2 @@ b2 :> 1 @@ a3 :> 4 @@ c3 :> 0

MCCommitmentsOf == [b \in Block |-> [i \in 1..MCCount[b] |-> <<b, i>>]]
MCLeaf == Block \X (1..4)
MCPrefetchedRoots == <<shard0>>
=============================================================================
