--------------------------- MODULE MCCombinedServer ---------------------------
(***************************************************************************)
(* Two branches and the size of the note commitment tree after each block. *)
(* Shards have two leaves and the window two shards, so a window may start *)
(* between two blocks (a2 is the tip) or inside b2 (b3 is).                *)
(*                                                                         *)
(*   a1(2) - a2(4)                                                         *)
(*        \- b2(5) - b3(6)                                                 *)
(***************************************************************************)
EXTENDS CombinedServer, TLC

CONSTANTS a1, a2, b2, b3

MCParent == a1 :> Genesis @@ a2 :> a1 @@ b2 :> a1 @@ b3 :> b2
MCHeightOf == a1 :> 1 @@ a2 :> 2 @@ b2 :> 2 @@ b3 :> 3
MCCommitments == a1 :> 2 @@ a2 :> 2 @@ b2 :> 3 @@ b3 :> 1
MCBuilds == (SUBSET {"nullifier", "witness"}) \ {{}}
MCWitnessOnly == {{"witness"}}
MCWeight == [b \in Block |-> 1]
=============================================================================
