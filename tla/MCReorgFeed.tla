----------------------------- MODULE MCReorgFeed -----------------------------
(***************************************************************************)
(* A block tree with forks at three heights, the deepest one longer than   *)
(* the window.                                                             *)
(*                                                                         *)
(*   a1 - a2 - a3 - a4 - a5 - a6 - a7                                      *)
(*     \    \    \- d4 - d5                                                *)
(*      \    \- b3 - b4 - b5                                               *)
(*       \- c2 - c3 - c4 - c5                                              *)
(***************************************************************************)
EXTENDS ReorgFeed, TLC

CONSTANTS a1, a2, a3, a4, a5, a6, a7, b3, b4, b5, b6, c2, c3, c4, c5, d4, d5

MCParent ==
  a1 :> Unknown @@ a2 :> a1 @@ a3 :> a2 @@ a4 :> a3 @@ a5 :> a4 @@ a6 :> a5 @@ a7 :> a6 @@
  b3 :> a2 @@ b4 :> b3 @@ b5 :> b4 @@ b6 :> b5 @@
  c2 :> a1 @@ c3 :> c2 @@ c4 :> c3 @@ c5 :> c4 @@ d4 :> a3 @@ d5 :> d4
MCHeightOf ==
  a1 :> 1 @@ a2 :> 2 @@ a3 :> 3 @@ a4 :> 4 @@ a5 :> 5 @@ a6 :> 6 @@ a7 :> 7 @@
  b3 :> 3 @@ b4 :> 4 @@ b5 :> 5 @@ b6 :> 6 @@
  c2 :> 2 @@ c3 :> 3 @@ c4 :> 4 @@ c5 :> 5 @@ d4 :> 4 @@ d5 :> 5
=============================================================================
