--------------------------- MODULE NullifierWindow ---------------------------
(***************************************************************************)
(* What the nullifier table promises to the rest of the system, without    *)
(* buckets, slots or indexes: it reports the nullifiers of a window of     *)
(* whole blocks, at most one per height.                                   *)
(*                                                                         *)
(* A block is its hash.  The hash determines the height and the            *)
(* nullifiers of the block, so both are constant functions of it.          *)
(*                                                                         *)
(* The only blemish is `stray': an insertion refused for lack of room      *)
(* (BucketOverflow) leaves the nullifiers it had already written, and they *)
(* belong to no block from then on.                                        *)
(***************************************************************************)
EXTENDS Integers, Sequences

CONSTANTS
  Block,         \* block hashes
  HeightOf,      \* HeightOf[b]: the height of block b
  NullifiersOf   \* NullifiersOf[b]: the nullifiers of block b, in order

VARIABLES
  window,        \* the blocks whose nullifiers are reported
  stray,         \* nullifiers left behind by refused insertions
  evicting,      \* old blocks are being dropped; nothing else goes on
  disk           \* {[window, stray]} of the last snapshot, {} before it

vars == <<window, stray, evicting, disk>>

(* The nullifiers of a block, as a set. *)
NullifierSet(b) == {NullifiersOf[b][i] : i \in DOMAIN NullifiersOf[b]}

(* What a lookup answers: nf is reported spent. *)
Contains(nf) ==
  \/ nf \in stray
  \/ \E b \in window : nf \in NullifierSet(b)

HeightFree(b) == \A c \in window : HeightOf[c] # HeightOf[b]

Init ==
  /\ window = {}
  /\ stray = {}
  /\ evicting = FALSE
  /\ disk = {}

Insert(b) ==
  /\ ~evicting
  /\ HeightFree(b)
  /\ window' = window \cup {b}
  /\ UNCHANGED <<stray, evicting, disk>>

(* A refused block contributes its first k nullifiers, but not all. *)
Refuse(b) ==
  /\ ~evicting
  /\ HeightFree(b)
  /\ \E k \in 0..(Len(NullifiersOf[b]) - 1) :
       stray' = stray \cup {NullifiersOf[b][i] : i \in 1..k}
  /\ UNCHANGED <<window, evicting, disk>>

Rollback(b) ==
  /\ ~evicting
  /\ window' = window \ {b}
  /\ UNCHANGED <<stray, evicting, disk>>

(* Eviction drops blocks from the lowest height up, and only those. *)
StartEviction ==
  /\ ~evicting
  /\ evicting' = TRUE
  /\ UNCHANGED <<window, stray, disk>>

EvictOldest ==
  /\ evicting
  /\ \E b \in window :
       /\ \A c \in window : HeightOf[b] <= HeightOf[c]
       /\ window' = window \ {b}
  /\ UNCHANGED <<stray, evicting, disk>>

EndEviction ==
  /\ evicting
  /\ evicting' = FALSE
  /\ UNCHANGED <<window, stray, disk>>

Save ==
  /\ ~evicting
  /\ disk' = {[window |-> window, stray |-> stray]}
  /\ UNCHANGED <<window, stray, evicting>>

Restart ==
  /\ \E snapshot \in disk :
       /\ window' = snapshot.window
       /\ stray' = snapshot.stray
  /\ evicting' = FALSE
  /\ UNCHANGED disk

(* No snapshot, or one that does not decode: the table starts empty. *)
StartFresh ==
  /\ window' = {}
  /\ stray' = {}
  /\ evicting' = FALSE
  /\ UNCHANGED disk

Next ==
  \/ \E b \in Block : Insert(b) \/ Refuse(b) \/ Rollback(b)
  \/ StartEviction \/ EvictOldest \/ EndEviction
  \/ Save \/ Restart \/ StartFresh

Spec == Init /\ [][Next]_vars
=============================================================================
