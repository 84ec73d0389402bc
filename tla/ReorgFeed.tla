------------------------------ MODULE ReorgFeed ------------------------------
(***************************************************************************)
(* A chain tracker between a feed of blocks and a consumer that does what  *)
(* the tracker tells it: append on Extend; on Reorg, drop the blocks above *)
(* rollback_to and append.  The feed may rewind to any tracked block, as   *)
(* the tracker's tests do, or deliver the next height of another branch,   *)
(* as the follow loops do.                                                 *)
(*                                                                         *)
(* A block is its hash: the hash determines the height and the parent.     *)
(***************************************************************************)
EXTENDS Integers, Sequences, ChainTracker

CONSTANTS
  Block,     \* block hashes
  Unknown,   \* the parent of a block whose parent is outside the model
  Parent,    \* Parent[b]: prev_hash of block b
  HeightOf   \* HeightOf[b]: height of block b

ASSUME FeedAssumption ==
  /\ MaxDepth \in Nat \ {0}
  /\ Unknown \notin Block
  /\ Parent \in [Block -> Block \cup {Unknown}]
  /\ HeightOf \in [Block -> Nat \ {0}]
  /\ \A b \in Block : Parent[b] \in Block => HeightOf[b] = HeightOf[Parent[b]] + 1

VARIABLES
  window,    \* the tracker's pairs
  kept       \* the blocks the consumer holds, oldest first

vars == <<window, kept>>

PairOf(b) == Pair(HeightOf[b], b)
Tracked(b) == \E i \in DOMAIN window : window[i].hash = b

(* ChainTracker::new, or with_tip of the newest block of a consumer that   *)
(* already holds some.                                                     *)
Init ==
  \/ window = <<>> /\ kept = <<>>
  \/ \E b \in Block : window = WithTip(HeightOf[b], b) /\ kept = <<b>>

(* What the consumer keeps when told to roll back: it pops its newest      *)
(* block for as long as that is above the fork.                            *)
RolledBack(fork) ==
  LET n == CHOOSE k \in 0..Len(kept) :
             /\ k # 0 => HeightOf[kept[k]] <= fork
             /\ \A i \in (k + 1)..Len(kept) : HeightOf[kept[i]] > fork
  IN  SubSeq(kept, 1, n)

Push(b) ==
  /\ \/ window = <<>>
     \/ Tracked(Parent[b])
     \/ window # <<>> /\ HeightOf[b] = Tip(window).height + 1
  /\ window' = Pushed(window, HeightOf[b], b, Parent[b])
  /\ kept' = IF Extends(window, HeightOf[b], Parent[b])
             THEN Append(kept, b)
             ELSE Append(RolledBack(FindForkPoint(window, Parent[b])), b)

Next == \E b \in Block : Push(b)

Spec == Init /\ [][Next]_vars

-----------------------------------------------------------------------------
(* Properties *)

(* Types; the window never outgrows max_depth, although only the Extend    *)
(* branch of push_block pops (chain_tracker.rs).                           *)
TypeOK ==
  /\ window \in Seq({PairOf(b) : b \in Block})
  /\ Len(window) <= MaxDepth
  /\ kept \in Seq(Block)

(* Whatever order blocks come in, the window is one branch: each tracked   *)
(* block is the child of the one before it.  The fork search relies on it. *)
WindowLinked ==
  \A i \in 1..(Len(window) - 1) : Parent[window[i + 1].hash] = window[i].hash

(* The consumer and the tracker never drift apart: the window is the       *)
(* newest blocks the consumer kept, so a rollback it is told next time     *)
(* is about blocks it has.                                                 *)
WindowIsNewestKept ==
  /\ Len(window) <= Len(kept)
  /\ \A i \in DOMAIN window : window[i].hash = kept[Len(kept) - Len(window) + i]

(* When the parent of a new block is tracked, the consumer ends up with    *)
(* exactly its old blocks up to that parent, then the new block: nothing   *)
(* above the fork survives and nothing below it is lost.                   *)
RollsBackToTheFork ==
  [][LET b == kept'[Len(kept')]
     IN  \A i \in DOMAIN kept :
           kept[i] = Parent[b] /\ Tracked(kept[i])
             => kept' = Append(SubSeq(kept, 1, i), b)]_vars
=============================================================================
