--------------------------- MODULE MCWitnessServer ---------------------------
(***************************************************************************)
(* Two branches and the size of the tree after each block.  Shards have    *)
(* two leaves and the window two shards: a2 ends inside a shard, a3 at the *)
(* end of one, a5 and b5 bring none or one commitment.                     *)
(*                                                                         *)
(*   a1(1) - a2(3) - a3(4) - a4(6) - a5(6)                                 *)
(*                \- b3(5) - b4(6) - b5(7)                                 *)
(***************************************************************************)
EXTENDS WitnessServer, TLC

CONSTANTS a1, a2, a3, a4, a5, b3, b4, b5

MCParent ==
  a1 :> Genesis @@ a2 :> a1 @@ a3 :> a2 @@ a4 :> a3 @@ a5 :> a4 @@
  b3 :> a2 @@ b4 :> b3 @@ b5 :> b4
MCHeightOf ==
  a1 :> 1 @@ a2 :> 2 @@ a3 :> 3 @@ a4 :> 4 @@ a5 :> 5 @@
  b3 :> 3 @@ b4 :> 4 @@ b5 :> 5
MCCommitments ==
  a1 :> 1 @@ a2 :> 2 @@ a3 :> 1 @@ a4 :> 2 @@ a5 :> 0 @@
  b3 :> 2 @@ b4 :> 1 @@ b5 :> 1
=============================================================================
