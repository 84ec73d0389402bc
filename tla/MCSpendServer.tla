---------------------------- MODULE MCSpendServer ----------------------------
(***************************************************************************)
(* A chain that starts with its tip at height 3, may grow before the       *)
(* server starts, and may leave branch a for branch b below the first tip. *)
(*                                                                         *)
(*   a1 - a2 - a3 - a4 - a5                                                *)
(*          \- b3 - b4 - b5                                                *)
(***************************************************************************)
EXTENDS SpendServer, TLC

CONSTANTS a1, a2, a3, a4, a5, b3, b4, b5

MCParent ==
  a1 :> Genesis @@ a2 :> a1 @@ a3 :> a2 @@ a4 :> a3 @@ a5 :> a4 @@
  b3 :> a2 @@ b4 :> b3 @@ b5 :> b4
MCHeightOf ==
  a1 :> 1 @@ a2 :> 2 @@ a3 :> 3 @@ a4 :> 4 @@ a5 :> 5 @@
  b3 :> 3 @@ b4 :> 4 @@ b5 :> 5
MCWeight == [b \in Block |-> IF b = b4 THEN 0 ELSE 1]
=============================================================================
