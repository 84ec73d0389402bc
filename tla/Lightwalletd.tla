---------------------------- MODULE Lightwalletd ----------------------------
(***************************************************************************)
(* The chain as the servers see it through lightwalletd: a tree of blocks  *)
(* and the tip of the branch lightwalletd currently serves.  The tip grows *)
(* by one block, or moves to another branch; the new branch may be shorter *)
(* for a while, since lightwalletd drops orphaned blocks one at a time and *)
(* the next connection may reach another of the configured servers.        *)
(* lightwalletd is not part of the repository; this is what the ingestion  *)
(* code can observe of it.                                                 *)
(*                                                                         *)
(* A block is its hash: the hash determines the height and the parent.     *)
(***************************************************************************)
EXTENDS Integers

CONSTANTS
  Block,         \* block hashes
  Genesis,       \* the parent of the lowest blocks
  Parent,        \* Parent[b]: prev_hash of block b
  HeightOf,      \* HeightOf[b]: height of block b
  FirstTip,      \* the tips the chain may start with
  MaxSwitches    \* bound: how often the branch changes

ASSUME ChainAssumption ==
  /\ Genesis \notin Block
  /\ Parent \in [Block -> Block \cup {Genesis}]
  /\ HeightOf \in [Block -> Nat \ {0}]
  /\ \A b \in Block : Parent[b] \in Block => HeightOf[b] = HeightOf[Parent[b]] + 1
  /\ FirstTip \subseteq Block

VARIABLES
  best,          \* the tip lightwalletd serves
  switches       \* how often it left a branch

chainVars == <<best, switches>>

(* The blocks of the branch that ends in b. *)
ChainOf[b \in Block] ==
  IF Parent[b] \in Block THEN ChainOf[Parent[b]] \cup {b} ELSE {b}

(* What a stream of blocks yields at a height, now. *)
Available(height) == \E b \in ChainOf[best] : HeightOf[b] = height
BlockAt(height) == CHOOSE b \in ChainOf[best] : HeightOf[b] = height

ChainInit == best \in FirstTip /\ switches = 0

Grow ==
  /\ \E b \in Block : Parent[b] = best /\ best' = b
  /\ UNCHANGED switches

Switch ==
  /\ switches < MaxSwitches
  /\ switches' = switches + 1
  /\ \E b \in Block \ {best} : Parent[b] # best /\ best' = b
=============================================================================
