---------------------------- MODULE MCHashTableDb ----------------------------
(***************************************************************************)
(* A small nullifier table: two buckets of two slots, and four blocks at   *)
(* three heights.  b2 and c2 compete for height 2 and share nullifier n4,  *)
(* as a transaction mined on both sides of a fork does.  Both nullifiers   *)
(* of b2 go to bucket 0, which is asked for more than it holds and         *)
(* overflows after c2 or b3 has written its first one into bucket 1.       *)
(* TargetSize 2 makes one run of eviction remove several blocks.           *)
(***************************************************************************)
EXTENDS HashTableDb, TLC

CONSTANTS b1, b2, c2, b3, n1, n2, n3, n4, n5, n6

MCHeightOf == b1 :> 1 @@ b2 :> 2 @@ c2 :> 2 @@ b3 :> 3
MCNullifiersOf == b1 :> <<n1>> @@ b2 :> <<n2, n4>> @@ c2 :> <<n3, n4>> @@ b3 :> <<n5, n6>>
MCBucketOf == n1 :> 0 @@ n2 :> 0 @@ n3 :> 1 @@ n4 :> 0 @@ n5 :> 1 @@ n6 :> 0
MCBucket == {0, 1}
=============================================================================
