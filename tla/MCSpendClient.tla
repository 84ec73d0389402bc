---------------------------- MODULE MCSpendClient ----------------------------
(***************************************************************************)
(* A chain of four blocks with a fork at height 3, and a u8 of two values: *)
(* a transaction of two actions has its count truncated to 0, one of three *)
(* to 1.  a2 has a truncated transaction between two others; a3 has an     *)
(* action without a nullifier of 32 bytes; b3 comes without metadata after *)
(* a block that has it, a1 without any before it.                          *)
(*                                                                         *)
(*   a1 - a2 - a3 - a4                                                     *)
(*          \- b3                                                          *)
(***************************************************************************)
EXTENDS SpendClient, TLC

CONSTANTS a1, a2, a3, a4, b3, Malformed

MCParent == a1 :> Genesis @@ a2 :> a1 @@ a3 :> a2 @@ a4 :> a3 @@ b3 :> a2
MCHeightOf == a1 :> 1 @@ a2 :> 2 @@ a3 :> 3 @@ a4 :> 4 @@ b3 :> 3

(* Actions per transaction. *)
MCShape == a1 :> <<1>> @@ a2 :> <<1, 3, 1>> @@ a3 :> <<1, 1>> @@ a4 :> <<2>> @@ b3 :> <<1>>
MCAction(b, t, i) ==
  [nf |-> IF b = a3 /\ t = 1 THEN Malformed ELSE <<"nf", b, t, i>>,
   cmx |-> <<"cmx", b, t, i>>]
MCTxsOf ==
  [b \in Block |->
     [t \in DOMAIN MCShape[b] |-> [i \in 1..MCShape[b][t] |-> MCAction(b, t, i)]]]
MCTreeSizeField == a1 :> 0 @@ a2 :> 6 @@ a3 :> 8 @@ a4 :> 10 @@ b3 :> 0
MCWeight == a1 :> 1 @@ a2 :> 5 @@ a3 :> 1 @@ a4 :> 2 @@ b3 :> 1
MCNullifier == {"nf"} \X Block \X (1..3) \X (1..3)
MCCommitment == {"cmx"} \X Block \X (1..3) \X (1..3)
=============================================================================
