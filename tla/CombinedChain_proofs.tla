-------------------------- MODULE CombinedChain_proofs --------------------------
(***************************************************************************)
(* Proofs about what the combined server serves and at which height its    *)
(* loop stands, for every build, every tree of blocks and any number of    *)
(* crashes: while no call fails, nothing is refused, the chain stays on a  *)
(* branch and no window is left without a block, table and tree are        *)
(* stretches of that branch, and they meet.                                *)
(*                                                                         *)
(* On top of the invariant of CombinedServer_proofs comes one with a part  *)
(* for the table and the blocks on their way to it (NfChain), one for the  *)
(* tree and the blocks on their way to it (WitChain) and one for what run  *)
(* knows of both (LoopChain).                                              *)
(***************************************************************************)
EXTENDS CombinedServer_proofs

-----------------------------------------------------------------------------
(* Stretches of a branch *)

(* The branch that ends in x reaches down to height l. *)
ReachesDown(x, l) == \E c \in ChainOf[x] : HeightOf[c] <= l

(* Its blocks from height l to height h. *)
Part(x, l, h) == {b \in ChainOf[x] : l <= HeightOf[b] /\ HeightOf[b] <= h}

IsStretch(x, t, l, h) ==
  /\ l \in Nat /\ h \in Nat
  /\ ReachesDown(x, l) /\ l <= h /\ h <= HeightOf[x]
  /\ t = Part(x, l, h)
Stretch(x, t) == \E l, h : IsStretch(x, t, l, h)

LEMMA PartBlocks ==
  ASSUME NEW x \in Block, NEW l, NEW h
  PROVE  \A b \in Part(x, l, h) : b \in Block /\ b \in ChainOf[x] /\ HeightOf[b] \in Nat
  BY ChainBelowTip, HeightType DEF Part

LEMMA PartNext ==
  ASSUME NEW x \in Block, NEW l \in Nat, NEW h \in Int, l <= h + 1,
         NEW b \in ChainOf[x], HeightOf[b] = h + 1
  PROVE  Part(x, l, h) \cup {b} = Part(x, l, h + 1)
<1>1. ASSUME NEW c \in ChainOf[x], HeightOf[c] <= h + 1, ~(HeightOf[c] <= h)
      PROVE  c = b
  <2>1. HeightOf[c] \in Nat
    BY ChainBelowTip, HeightType
  <2>2. HeightOf[c] = HeightOf[b]
    BY <2>1, <1>1
  <2>. QED
    BY <2>2, ChainHeightsDiffer
<1>2. \A c \in ChainOf[x] : HeightOf[c] \in Nat
  BY ChainBelowTip, HeightType
<1>3. ASSUME NEW c \in ChainOf[x], HeightOf[c] <= h
      PROVE  HeightOf[c] <= h + 1
  BY <1>2, <1>3
<1>. QED
  BY <1>1, <1>3 DEF Part

LEMMA PartNone ==
  ASSUME NEW x \in Block, NEW l \in Int, NEW h \in Int, h < l
  PROVE  Part(x, l, h) = {}
<1>1. \A c \in ChainOf[x] : HeightOf[c] \in Nat
  BY ChainBelowTip, HeightType
<1>. QED
  BY <1>1 DEF Part

LEMMA PartsJoin ==
  ASSUME NEW x \in Block, NEW l \in Int, NEW m \in Int, NEW h \in Int, l <= m + 1, m <= h
  PROVE  Part(x, l, m) \cup Part(x, m + 1, h) = Part(x, l, h)
<1>1. \A c \in ChainOf[x] : HeightOf[c] \in Nat
  BY ChainBelowTip, HeightType
<1>. QED
  BY <1>1 DEF Part

(* Every height of a stretch has its block. *)
LEMMA StretchHeights ==
  ASSUME NEW x \in Block, NEW t, NEW l, NEW h, IsStretch(x, t, l, h)
  PROVE  /\ \A k \in l..h : \E b \in t : HeightOf[b] = k
         /\ \A b \in t : b \in Block /\ b \in ChainOf[x] /\ HeightOf[b] \in l..h
<1>1. l \in Nat /\ h \in Nat /\ l <= h /\ h <= HeightOf[x] /\ HeightOf[x] \in Nat /\ t = Part(x, l, h)
  BY HeightType DEF IsStretch
<1>2. PICK c \in ChainOf[x] : HeightOf[c] <= l
  BY DEF IsStretch, ReachesDown
<1>3. HeightOf[c] \in Nat
  BY ChainBelowTip, HeightType
<1>4. ASSUME NEW k \in l..h
      PROVE  \E b \in t : HeightOf[b] = k
  <2>1. k \in HeightOf[c]..HeightOf[x]
    BY <1>1, <1>2, <1>3
  <2>2. PICK b \in ChainOf[x] : HeightOf[b] = k
    BY <2>1, ChainHasNoGap
  <2>3. b \in t
    BY <2>2, <1>1 DEF Part
  <2>. QED
    BY <2>2, <2>3
<1>5. ASSUME NEW b \in t
      PROVE  b \in Block /\ b \in ChainOf[x] /\ HeightOf[b] \in l..h
  <2>1. b \in Block /\ b \in ChainOf[x] /\ HeightOf[b] \in Nat
    BY <1>1, PartBlocks
  <2>2. l <= HeightOf[b] /\ HeightOf[b] <= h
    BY <1>1 DEF Part
  <2>. QED
    BY <2>1, <2>2, <1>1
<1>. QED
  BY <1>4, <1>5

LEMMA StretchLatest ==
  ASSUME NEW x \in Block, NEW t, Whole(t), NEW l, NEW h, IsStretch(x, t, l, h)
  PROVE  /\ t # {} /\ Nf!Latest(t) = h /\ h \in Nat /\ h # 0 /\ h <= HeightOf[x]
         /\ Nf!LatestHash(t) \in t /\ HeightOf[Nf!LatestHash(t)] = h
<1>1. l \in Nat /\ h \in Nat /\ l <= h /\ h <= HeightOf[x]
  BY DEF IsStretch
<1>2. h \in l..h
  BY <1>1
<1>3. PICK b \in t : HeightOf[b] = h
  BY <1>2, StretchHeights
<1>4. \A c \in t : HeightOf[c] \in l..h
  BY StretchHeights
<1>5. \A c \in t : HeightOf[c] <= HeightOf[b]
  BY <1>1, <1>3, <1>4
<1>6. Nf!Latest(t) = HeightOf[b] /\ Nf!LatestHash(t) = b
  BY <1>5, NewestOf
<1>7. b \in Block /\ HeightOf[b] # 0
  BY StretchHeights, HeightType
<1>. QED
  BY <1>1, <1>3, <1>6, <1>7

(* What a stretch serves is the chain. *)
LEMMA StretchServed ==
  ASSUME NEW x \in Block, NEW t, Stretch(x, t)
  PROVE  Interval(Nf!Heights(t)) /\ t \subseteq ChainOf[x]
<1>1. PICK l, h : IsStretch(x, t, l, h)
  BY DEF Stretch
<1>2. l \in Nat /\ h \in Nat
  BY <1>1 DEF IsStretch
<1>3. Nf!Heights(t) = l..h
  BY <1>1, StretchHeights DEF Nf!Heights
<1>4. Interval(l..h)
  BY <1>2 DEF Interval
<1>5. t \subseteq ChainOf[x]
  BY <1>1, StretchHeights
<1>. QED
  BY <1>3, <1>4, <1>5

(* Eviction leaves the upper part of a stretch. *)
LEMMA StretchEvicted ==
  ASSUME NEW x \in Block, NEW t, Whole(t), NEW l, NEW h, IsStretch(x, t, l, h)
  PROVE  \E k : IsStretch(x, Nf!Evicted(t), k, h)
<1>1. l \in Nat /\ h \in Nat /\ l <= h /\ h <= HeightOf[x] /\ t = Part(x, l, h)
      /\ ReachesDown(x, l)
  BY DEF IsStretch
<1>2. t # {} /\ Nf!Latest(t) = h
  BY StretchLatest
<1>3. PICK k \in Nat : Nf!Evicted(t) = Nf!From(t, k) /\ k <= h
  BY <1>2, EvictedCut
<1>4. \A c \in ChainOf[x] : HeightOf[c] \in Nat
  BY ChainBelowTip, HeightType
<1>5. CASE k <= l
  <2>1. \A c \in ChainOf[x] : l <= HeightOf[c] => HeightOf[c] >= k
    BY <1>1, <1>4, <1>5
  <2>2. Nf!From(t, k) = t
    BY <2>1, <1>1 DEF Nf!From, Part
  <2>. QED
    BY <2>2, <1>3
<1>6. CASE l < k
  <2>1. \A c \in ChainOf[x] : HeightOf[c] >= k <=> l <= HeightOf[c] /\ k <= HeightOf[c]
    BY <1>1, <1>4, <1>6
  <2>2. Nf!From(t, k) = Part(x, k, h)
    BY <2>1, <1>1 DEF Nf!From, Part
  <2>3. ReachesDown(x, k)
    BY <1>1, <1>4, <1>6 DEF ReachesDown
  <2>. QED
    BY <2>2, <2>3, <1>1, <1>3 DEF IsStretch
<1>. QED
  BY <1>1, <1>5, <1>6

(* A block that is mined leaves the stretches of the branch as they are. *)
LEMMA StretchGrows ==
  ASSUME best \in Block, Grow
  PROVE  /\ best' \in Block /\ HeightOf[best] <= HeightOf[best']
         /\ ChainOf[best] \subseteq ChainOf[best']
         /\ \A l : ReachesDown(best, l) => ReachesDown(best', l)
         /\ \A l : \A h \in Int : h <= HeightOf[best] => Part(best', l, h) = Part(best, l, h)
<1>1. /\ best' \in Block /\ HeightOf[best'] = HeightOf[best] + 1
      /\ ChainOf[best] \subseteq ChainOf[best'] /\ HeightOf[best] \in Nat
  BY GrowExtendsChain, HeightType
<1>2. ChainOf[best'] = ChainOf[best] \cup {best'}
  BY <1>1, ChainOfBlock DEF Grow
<1>3. \A l : ReachesDown(best, l) => ReachesDown(best', l)
  BY <1>1 DEF ReachesDown
<1>4. ASSUME NEW l, NEW h \in Int, h <= HeightOf[best]
      PROVE  Part(best', l, h) = Part(best, l, h)
  <2>1. ~(HeightOf[best'] <= h)
    BY <1>1, <1>4
  <2>. QED
    BY <2>1, <1>2 DEF Part
<1>. QED
  BY <1>1, <1>3, <1>4

-----------------------------------------------------------------------------
(* The tree of the witness subsystem *)

LEMMA WitConstants ==
  /\ Commitments \in [Block -> Nat] /\ NoneBelow(Commitments, Floor)
  /\ ShardLeaves \in Nat \ {0} /\ WindowLimit \in Nat \ {0} /\ Floor \in Nat \ {0}
  /\ \A b \in Block : Parent[b] \notin Block => HeightOf[b] <= Floor
  BY WitnessAssumption, FloorAssumption, ServerAssumption DEF NoneBelow

LEMMA WitChainIs == Wit!ChainOf = ChainOf /\ Wit!TotalAt = TotalOf(Commitments)
<1>1. Wit!ChainOf = ChainOf
  BY DEF Wit!ChainOf, ChainOf
<1>2. Wit!TotalAt = TotalOf(Commitments)
  BY DEF Wit!TotalAt, TotalOf
<1>. QED
  BY <1>1, <1>2

LEMMA WitSizeIs == ASSUME NEW t \in TreeType PROVE Wit!Size(t) = SizeOf(t)
<1>1. DOMAIN t.records = 1..Len(t.records)
  BY TreeFields
<1>2. Wit!Size(t) = (CHOOSE f : RecordSums(f, t))[DOMAIN t.records]
  BY DEF Wit!Size, Wit!FoldLeft, Wit!MapThenFoldSet, RecordSums, Wit!Max, Greatest
<1>. QED
  BY <1>1, <1>2 DEF SizeOf, SumOf

LEMMA WitAppendedIs ==
  ASSUME NEW t, NEW b
  PROVE  Wit!Appended(t, b) = WithRecord(t, b, Commitments[b])
  BY DEF Wit!Appended, Wit!BlockRecord, WithRecord

LEMMA WitNoTree ==
  /\ Wit!NoTree \in TreeType /\ Wit!NoTree.records = <<>> /\ Wit!NoTree.offset = 0
  /\ SizeOf(Wit!NoTree) = 0
<1>1. Wit!NoTree \in TreeType /\ Wit!NoTree.records = <<>> /\ Wit!NoTree.offset = 0
  BY DEF Wit!NoTree, TreeType
<1>. QED
  BY <1>1, SizeOfBare

LEMMA WitLatestIs ==
  ASSUME NEW t \in TreeType
  PROVE  /\ Wit!Latest(t) \in Nat
         /\ t.records # <<>> => Wit!Latest(t) = HeightOf[t.records[Len(t.records)].block]
         /\ t.records = <<>> => Wit!Latest(t) = 0
<1>1. t.records = <<>> => Wit!Latest(t) = 0
  BY DEF Wit!Latest
<1>2. ASSUME t.records # <<>>
      PROVE  /\ Wit!Latest(t) = HeightOf[t.records[Len(t.records)].block]
             /\ Wit!Latest(t) \in Nat
  <2>1. Len(t.records) \in 1..Len(t.records)
    BY <1>2, TreeFields
  <2>2. t.records[Len(t.records)].block \in Block
    BY <2>1, TreeFields
  <2>. QED
    BY <1>2, <2>2, HeightType DEF Wit!Latest, Wit!Last
<1>. QED
  BY <1>1, <1>2

(* The leaves of a tree are at their positions in the branch that ends     *)
(* in x.                                                                   *)
OnPlace(x, t) == t \in TreeType /\ PlacedAlong(Commitments, t, ChainOf[x])

LEMMA WitPlacedIs ==
  ASSUME NEW t, OnPlace(best, t)
  PROVE  Wit!Placed(t)
<1>1. t \in TreeType /\ DOMAIN t.records = 1..Len(t.records)
  BY TreeFields DEF OnPlace
<1>2. ASSUME NEW i \in 1..Len(t.records)
      PROVE  Wit!SizeUpTo(t, i) = SumOf(t, i)
  BY <1>1, SizeOfPrefix, WitSizeIs DEF Wit!SizeUpTo
<1>. QED
  BY <1>1, <1>2, WitChainIs DEF Wit!Placed, OnPlace, PlacedAlong

(* What is known of a tree that has a record. *)
LEMMA OnPlaceLatest ==
  ASSUME NEW x \in Block, NEW t, OnPlace(x, t), t.records # <<>>
  PROVE  /\ ReachesAlong(Commitments, Floor, t, Wit!Latest(t), ChainOf[x])
         /\ Wit!Latest(t) \in Nat /\ Wit!Latest(t) <= HeightOf[x]
         /\ ReachesDown(x, Wit!Latest(t) + 1)
<1> DEFINE b == t.records[Len(t.records)].block
<1>1. t \in TreeType /\ b \in ChainOf[x] /\ SizeOf(t) = TotalOf(Commitments)[b]
  BY PlacedSize DEF OnPlace
<1>2. Wit!Latest(t) = HeightOf[b] /\ Wit!Latest(t) \in Nat
  BY <1>1, WitLatestIs
<1> HIDE DEF b
<1>3. HeightOf[b] <= HeightOf[x]
  BY <1>1, ChainBelowTip
<1>4. HeightOf[b] <= HeightOf[b] + 1
  BY <1>2
<1>5. ReachesDown(x, HeightOf[b] + 1)
  BY <1>1, <1>4 DEF ReachesDown
<1>. QED
  BY <1>1, <1>2, <1>3, <1>5 DEF ReachesAlong

LEMMA OnPlaceGrows ==
  ASSUME NEW x \in Block, NEW y \in Block, ChainOf[x] \subseteq ChainOf[y], NEW t, OnPlace(x, t)
  PROVE  OnPlace(y, t)
  BY DEF OnPlace, PlacedAlong

LEMMA BareOnPlace ==
  ASSUME NEW x, NEW t \in TreeType, t.records = <<>>
  PROVE  OnPlace(x, t)
  BY BarePlaced DEF OnPlace

(* A tree size known for height h. *)
SizeAt(x, size, h) ==
  size = {} \/ \E b \in ChainOf[x] : HeightOf[b] = h /\ size = {TotalOf(Commitments)[b]}

LEMMA ReachesSize ==
  ASSUME NEW x, NEW t \in TreeType, NEW h, ReachesAlong(Commitments, Floor, t, h, ChainOf[x])
  PROVE  SizeAt(x, Wit!NoSizeIfZero(Wit!Size(t)), h)
<1>1. Wit!Size(t) = SizeOf(t) /\ SizeOf(t) \in Nat
  BY WitSizeIs, SizeOfType
<1>. QED
  BY <1>1 DEF ReachesAlong, SizeAt, Wit!NoSizeIfZero

LEMMA TotalSize ==
  ASSUME NEW x, NEW b \in ChainOf[x]
  PROVE  SizeAt(x, Wit!TreeSizeAfter(b), HeightOf[b])
  BY WitChainIs DEF SizeAt, Wit!TreeSizeAfter, Wit!NoSizeIfZero

(* The next block of the branch fits and keeps every leaf in its place. *)
LEMMA NextFits ==
  ASSUME NEW x \in Block, NEW t, OnPlace(x, t), NEW h \in Nat,
         ReachesAlong(Commitments, Floor, t, h, ChainOf[x]),
         NEW b \in ChainOf[x], HeightOf[b] = h + 1
  PROVE  /\ \A size : size \subseteq {TotalOf(Commitments)[b] - Commitments[b]} =>
                        Wit!Fits(t, size)
         /\ OnPlace(x, Wit!Appended(t, b))
         /\ Wit!Appended(t, b).records # <<>>
         /\ ReachesAlong(Commitments, Floor, Wit!Appended(t, b), h + 1, ChainOf[x])
         /\ Wit!Latest(Wit!Appended(t, b)) = h + 1
<1> DEFINE u == WithRecord(t, b, Commitments[b])
<1>1. t \in TreeType /\ PlacedAlong(Commitments, t, ChainOf[x]) /\ b \in Block
      /\ Commitments[b] \in Nat /\ NoneBelow(Commitments, Floor)
  BY ChainBelowTip, WitConstants DEF OnPlace
<1>2. SizeOf(t) = TotalOf(Commitments)[b] - Commitments[b]
  BY <1>1, SizeBeforeNext
<1>3. ASSUME NEW size, size \subseteq {TotalOf(Commitments)[b] - Commitments[b]}
      PROVE  Wit!Fits(t, size)
  <2>1. Wit!Size(t) = TotalOf(Commitments)[b] - Commitments[b]
    BY <1>1, <1>2, WitSizeIs
  <2>. QED
    BY <2>1, <1>3 DEF Wit!Fits
<1>4. /\ PlacedAlong(Commitments, u, ChainOf[x])
      /\ ReachesAlong(Commitments, Floor, u, h + 1, ChainOf[x])
  BY <1>1, NextPlaced
<1>5. /\ u \in TreeType /\ u.records # <<>> /\ Len(u.records) = Len(t.records) + 1
      /\ u.records[Len(t.records) + 1].block = b
  BY <1>1, RecordAdded
<1>6. Wit!Appended(t, b) = u
  BY WitAppendedIs
<1> HIDE DEF u
<1>7. Wit!Latest(u) = h + 1
  BY <1>5, WitLatestIs
<1>. QED
  BY <1>3, <1>4, <1>5, <1>6, <1>7 DEF OnPlace

(* The block in which an offset lies. *)
Completes(b, offset) ==
  TotalOf(Commitments)[b] >= offset /\ TotalOf(Commitments)[b] - Commitments[b] < offset

LEMMA WindowStartIs ==
  ASSUME best \in Block, Wit!CompletedShards >= WindowLimit
  PROVE  /\ Wit!WindowStart \in Nat
         /\ \E b \in ChainOf[best] : /\ Completes(b, Wit!WindowStart)
                                     /\ Wit!CompletingHeight(Wit!WindowStart) = HeightOf[b]
<1> DEFINE total == TotalOf(Commitments)[best]
           o == Wit!WindowStart
           c == CHOOSE b \in ChainOf[best] :
                  /\ TotalOf(Commitments)[b] >= o
                  /\ TotalOf(Commitments)[b] - Commitments[b] < o
<1>1. total \in Nat /\ ShardLeaves \in Nat \ {0} /\ WindowLimit \in Nat \ {0}
      /\ Commitments \in [Block -> Nat]
  BY TotalOfType, WitConstants
<1>2. Wit!CompletedShards = total \div ShardLeaves
  BY WitChainIs DEF Wit!CompletedShards
<1>3. o = ((total \div ShardLeaves) - (WindowLimit - 1)) * ShardLeaves
  BY <1>2 DEF Wit!WindowStart
<1>4. Wit!CompletingHeight(o) = HeightOf[c]
  BY WitChainIs DEF Wit!CompletingHeight
<1>5. total \div ShardLeaves >= WindowLimit
  BY <1>2
<1> HIDE DEF total, o
<1>6. o \in Nat /\ 0 < o /\ o <= total
  BY <1>1, <1>3, <1>5, WholeShards
<1>7. \E b \in ChainOf[best] : /\ TotalOf(Commitments)[b] >= o
                               /\ TotalOf(Commitments)[b] - Commitments[b] < o
  BY <1>1, <1>6, CompletingBlockOf DEF total
<1>8. c \in ChainOf[best] /\ Completes(c, o)
  BY <1>7 DEF Completes
<1> HIDE DEF c
<1>. QED
  BY <1>4, <1>6, <1>8 DEF o

(* The window that starts inside a block reaches that block. *)
LEMMA SeededIs ==
  ASSUME best \in Block, tree \in TreeType, tree.records = <<>>,
         NEW b \in ChainOf[best], Completes(b, tree.offset)
  PROVE  /\ OnPlace(best, Wit!Seeded(b))
         /\ ReachesAlong(Commitments, Floor, Wit!Seeded(b), HeightOf[b], ChainOf[best])
         /\ Wit!Seeded(b).records = <<>> => Wit!Unanchored(Wit!Seeded(b))
         /\ Wit!Seeded(b).records # <<>> => Wit!Latest(Wit!Seeded(b)) = HeightOf[b]
         /\ SizeAt(best, {Wit!Size(Wit!Seeded(b))}, HeightOf[b])
<1> DEFINE n == Wit!Spillover(b, tree.offset)
           u == WithRecord(tree, b, n)
<1>1. /\ b \in Block /\ Commitments \in [Block -> Nat]
      /\ TotalOf(Commitments)[b] \in Nat /\ Commitments[b] \in Nat
      /\ TotalOf(Commitments)[b] - Commitments[b] \in Nat /\ tree.offset \in Nat
  BY ChainBelowTip, WitConstants, TotalOfType, TreeFields
<1>2. n \in Nat /\ tree.offset + n = TotalOf(Commitments)[b] /\ tree.offset > 0
  BY <1>1, WitChainIs DEF Completes, Wit!Spillover
<1>3. Wit!Seeded(b) = IF n = 0 THEN tree ELSE u
  BY DEF Wit!Seeded, Wit!BlockRecord, WithRecord
<1> HIDE DEF n
<1>4. /\ SizeOf(tree) = tree.offset
      /\ u \in TreeType /\ PlacedAlong(Commitments, u, ChainOf[best])
      /\ SizeOf(u) = TotalOf(Commitments)[b]
  BY <1>1, <1>2, WindowPlaced
<1>5. \A s \in TreeType : /\ WithRecord(s, b, n).records # <<>>
                          /\ Len(WithRecord(s, b, n).records) = Len(s.records) + 1
                          /\ WithRecord(s, b, n).records[Len(s.records) + 1].block = b
  BY <1>1, <1>2, RecordAdded
<1>6. u.records # <<>> /\ u.records[Len(u.records)].block = b
  BY <1>5
<1> HIDE DEF u
<1>7. CASE n = 0
  <2>1. Wit!Seeded(b) = tree /\ SizeOf(tree) = TotalOf(Commitments)[b]
    BY <1>1, <1>2, <1>3, <1>4, <1>7
  <2>. QED
    BY <2>1, <1>2, BareOnPlace, WitSizeIs DEF ReachesAlong, SizeAt, Wit!Unanchored
<1>8. CASE n # 0
  <2>1. Wit!Seeded(b) = u
    BY <1>3, <1>8
  <2>2. Wit!Latest(u) = HeightOf[b] /\ Wit!Size(u) = TotalOf(Commitments)[b]
    BY <1>4, <1>6, WitLatestIs, WitSizeIs
  <2>. QED
    BY <2>1, <2>2, <1>4, <1>6 DEF ReachesAlong, SizeAt, OnPlace
<1>. QED
  BY <1>7, <1>8

-----------------------------------------------------------------------------
(* The table and the blocks on their way to it *)

Fresh == nfFresh /\ mode \in {"sync", "failing"}

(* What is read is of the branch, and no range ends early. *)
NfStream ==
  /\ \A t \in nfDisk : Stretch(best, t)
  /\ nfLive = {} \/ Stretch(best, nfLive)
  /\ \A i \in 1..Len(nfFetched) : nfFetched[i] \in ChainOf[best]
  /\ \A i \in 1..Len(nfQueue) : nfQueue[i].block \in ChainOf[best]
  /\ Nf!Syncing => nfTo <= HeightOf[best]
  /\ Nf!Syncing /\ nfTask = "idle" => nfCurrent = nfTo

(* The table is a stretch that grows upwards, a fresh one from what is     *)
(* left to backfill on;                                                    *)
NfForward == nfPc = "sync" =>
  \E l \in Nat : /\ ReachesDown(best, l) /\ l <= NfDone + 1 /\ l <= nfTo
                 /\ table = Part(best, l, NfDone)
                 /\ Fresh => l = nfBackfillEnd + 1

(* then two stretches, between which a range is filled in;                 *)
NfBack == nfPc = "backfill" =>
  /\ ReachesDown(best, nfBackfillEnd + 1)
  /\ nfBackfillEnd + 1 <= nfTo /\ nfBackfillEnd <= NfDone
  /\ \E h \in Nat : /\ nfTo < h /\ h <= HeightOf[best]
                    /\ table = Part(best, nfBackfillEnd + 1, NfDone)
                                 \cup Part(best, nfTo + 1, h)

(* and a stretch again when the range is in.                               *)
NfRest == nfPc \in {"synced", "saved"} =>
  \E l, h : /\ IsStretch(best, table, l, h)
            /\ Fresh /\ nfPc = "synced" => l = nfBackfillEnd + 1

NfChain == NfStream /\ NfForward /\ NfBack /\ NfRest

LEMMA NfChainStays ==
  ASSUME NfChain, SameStage,
         UNCHANGED <<best, nfPc, nfFresh, table, nfBackfillEnd, nfLive, nfDisk, nfTask,
                     nfCurrent, nfTo, nfFetched, nfQueue>>
  PROVE  NfChain'
<1>1. NfDone' = NfDone /\ (Nf!Syncing' <=> Nf!Syncing) /\ (Fresh' => Fresh)
  BY DEF NfDone, Nf!Syncing, Fresh, SameStage
<1>2. NfStream' /\ NfForward' /\ NfBack' /\ NfRest'
  BY <1>1 DEF NfChain, NfStream, NfForward, NfBack, NfRest
<1>. QED
  BY <1>2 DEF NfChain

(* The block the ingestion task wants next is there. *)
LEMMA NfNextAvailable ==
  ASSUME NfBase, NfChain, nfTask = "fetch"
  PROVE  /\ Available(Nf!NextHeight) /\ Nf!NextHeight \in Nat
         /\ Nf!Syncing /\ nfCurrent < nfTo
<1>1. /\ nfCurrent \in Nat /\ nfTo \in Nat /\ nfGoal \in Nat /\ best \in Block
      /\ nfFetched \in Seq(Block) /\ nfQueue \in Seq(Nf!Event)
      /\ nfBackfillEnd \in Nat
  BY DEF NfBase, NfTypes
<1>2. Len(nfFetched) \in Nat /\ Len(nfQueue) \in Nat
  BY <1>1
<1>3. Nf!Syncing /\ nfCurrent + Len(nfFetched) < nfGoal /\ nfGoal <= nfTo
  BY DEF NfBase, NfRanges
<1>4. nfTo <= HeightOf[best] /\ HeightOf[best] \in Nat
  BY <1>1, <1>3, HeightType DEF NfChain, NfStream
<1>5. NfDone = nfCurrent - Len(nfQueue)
  BY DEF NfDone
<1>6. \E l \in Nat : ReachesDown(best, l) /\ l <= NfDone + 1
  <2>1. CASE nfPc = "sync"
    BY <2>1 DEF NfChain, NfForward
  <2>2. CASE nfPc = "backfill"
    <3>1. nfBackfillEnd + 1 \in Nat /\ nfBackfillEnd + 1 <= NfDone + 1
      BY <2>2, <1>1, <1>2, <1>5 DEF NfChain, NfBack
    <3>. QED
      BY <3>1, <2>2 DEF NfChain, NfBack
  <2>. QED
    BY <2>1, <2>2, <1>3 DEF Nf!Syncing
<1>7. PICK l \in Nat : ReachesDown(best, l) /\ l <= NfDone + 1
  BY <1>6
<1>8. PICK c \in ChainOf[best] : HeightOf[c] <= l
  BY <1>7 DEF ReachesDown
<1>9. HeightOf[c] \in Nat
  BY <1>1, ChainBelowTip, HeightType
<1>10. Nf!NextHeight = nfCurrent + 1 + Len(nfFetched)
  BY DEF Nf!NextHeight
<1>11. /\ Nf!NextHeight \in Nat /\ HeightOf[c] <= Nf!NextHeight
       /\ Nf!NextHeight <= HeightOf[best] /\ nfCurrent < nfTo
  BY <1>1, <1>2, <1>3, <1>4, <1>5, <1>7, <1>8, <1>9, <1>10
<1>. QED
  BY <1>1, <1>3, <1>11, AvailableBetween

LEMMA NfChainPoll ==
  ASSUME NfBase, NfChain, Nf!PollSync, SameStage
  PROVE  NfChain'
<1>1. /\ UNCHANGED <<best, nfPc, nfFresh, table, nfBackfillEnd, nfLive, nfDisk, nfCurrent,
                     nfTo, nfFetched, nfQueue>>
      /\ nfTask' = "idle" => ~(nfCurrent < nfTo)
      /\ Nf!Syncing
  BY DEF Nf!PollSync, Nf!chainVars, Nf!mainVars
<1>2. nfCurrent \in Nat /\ nfTo \in Nat /\ nfCurrent <= nfTo
  BY <1>1 DEF NfBase, NfTypes, NfRanges
<1>3. nfTask' = "idle" => nfCurrent = nfTo
  BY <1>1, <1>2
<1>4. NfDone' = NfDone /\ (Nf!Syncing' <=> Nf!Syncing) /\ (Fresh' => Fresh)
  BY <1>1 DEF NfDone, Nf!Syncing, Fresh, SameStage
<1>5. NfStream' /\ NfForward' /\ NfBack' /\ NfRest'
  BY <1>1, <1>3, <1>4 DEF NfChain, NfStream, NfForward, NfBack, NfRest
<1>. QED
  BY <1>5 DEF NfChain

LEMMA NfChainFetch ==
  ASSUME NfBase, NfChain, Nf!FetchBlock, SameStage
  PROVE  NfChain'
<1> DEFINE b == BlockAt(Nf!NextHeight)
<1>1. /\ UNCHANGED <<best, nfPc, nfFresh, table, nfBackfillEnd, nfLive, nfDisk, nfCurrent,
                     nfTo, nfQueue>>
      /\ nfTask = "fetch" /\ nfTask' # "idle" /\ nfFetched' = Append(nfFetched, b)
  BY SameChain DEF Nf!FetchBlock, Nf!chainVars, Nf!mainVars
<1>2. best \in Block /\ nfFetched \in Seq(Block)
  BY DEF NfBase, NfTypes
<1>3. b \in ChainOf[best]
  BY <1>1, <1>2, NfNextAvailable, BlockAtHeight
<1> HIDE DEF b
<1>4. \A i \in 1..Len(nfFetched') : nfFetched'[i] \in ChainOf[best]
  BY <1>1, <1>2, <1>3 DEF NfChain, NfStream
<1>5. NfDone' = NfDone /\ (Nf!Syncing' <=> Nf!Syncing) /\ (Fresh' => Fresh)
  BY <1>1 DEF NfDone, Nf!Syncing, Fresh, SameStage
<1>6. NfStream' /\ NfForward' /\ NfBack' /\ NfRest'
  BY <1>1, <1>4, <1>5 DEF NfChain, NfStream, NfForward, NfBack, NfRest
<1>. QED
  BY <1>6 DEF NfChain

LEMMA NfChainSend ==
  ASSUME NfBase, NfChain, Nf!SendSync, SameStage
  PROVE  NfChain'
<1> DEFINE b == Head(nfFetched)
           e == Nf!NewBlock(b)
<1>1. /\ UNCHANGED <<best, nfPc, nfFresh, table, nfBackfillEnd, nfLive, nfDisk, nfTo>>
      /\ nfQueue' = Append(nfQueue, e) /\ nfFetched' = Tail(nfFetched)
      /\ nfCurrent' = HeightOf[b] /\ nfTask' # "idle" /\ nfFetched # <<>>
  BY DEF Nf!SendSync, Nf!HandOn, Nf!chainVars, Nf!mainVars
<1>2. /\ nfFetched \in Seq(Block) /\ nfQueue \in Seq(Nf!Event) /\ nfCurrent \in Nat
  BY DEF NfBase, NfTypes
<1>3. /\ Len(nfFetched) # 0 /\ b = nfFetched[1] /\ 1 \in 1..Len(nfFetched) /\ b \in Block
      /\ Len(nfQueue) \in Nat
  BY <1>1, <1>2
<1>4. HeightOf[b] = nfCurrent + 1 /\ b \in ChainOf[best]
  BY <1>3 DEF NfBase, NfRanges, NfChain, NfStream
<1>5. e.block = b
  BY DEF Nf!NewBlock
<1>6. e \in Nf!Event
  BY <1>3 DEF Nf!NewBlock, Nf!Event
<1> HIDE DEF b, e
<1>7. /\ Len(nfQueue') = Len(nfQueue) + 1
      /\ \A i \in 1..Len(nfQueue) : nfQueue'[i] = nfQueue[i]
      /\ nfQueue'[Len(nfQueue) + 1] = e
  BY <1>1, <1>2, <1>6
<1>8. \A i \in 1..Len(nfQueue') : nfQueue'[i].block \in ChainOf[best]
  BY <1>3, <1>4, <1>5, <1>7 DEF NfChain, NfStream
<1>9. /\ Len(nfFetched') = Len(nfFetched) - 1 /\ Len(nfFetched) \in Nat
      /\ \A i \in 1..Len(nfFetched') : nfFetched'[i] = nfFetched[i + 1]
  BY <1>1, <1>2, <1>3
<1>10. \A i \in 1..Len(nfFetched') : i + 1 \in 1..Len(nfFetched)
  BY <1>9
<1>11. \A i \in 1..Len(nfFetched') : nfFetched'[i] \in ChainOf[best]
  BY <1>9, <1>10 DEF NfChain, NfStream
<1>12. NfDone' = NfDone /\ (Nf!Syncing' <=> Nf!Syncing) /\ (Fresh' => Fresh)
  BY <1>1, <1>2, <1>3, <1>4, <1>7 DEF NfDone, Nf!Syncing, Fresh, SameStage
<1>13. NfStream' /\ NfForward' /\ NfBack' /\ NfRest'
  BY <1>1, <1>8, <1>11, <1>12 DEF NfChain, NfStream, NfForward, NfBack, NfRest
<1>. QED
  BY <1>13 DEF NfChain

LEMMA NfChainInsert ==
  ASSUME NfBase, NfChain, Nf!InsertSynced, SameStage
  PROVE  NfChain'
<1> DEFINE b == Head(nfQueue).block
<1>1. /\ UNCHANGED <<best, nfPc, nfFresh, nfBackfillEnd, nfLive, nfDisk, nfTask, nfCurrent,
                     nfTo, nfFetched>>
      /\ table' = table \cup {b} /\ nfQueue' = Tail(nfQueue) /\ nfQueue # <<>>
  BY DEF Nf!InsertSynced, Nf!chainVars, Nf!taskVars
<1>2. /\ b = nfQueue[1].block /\ b \in Block /\ HeightOf[b] = NfDone + 1
      /\ Len(nfQueue) \in Nat \ {0} /\ NfDone \in Nat /\ NfDone + 1 <= nfCurrent
      /\ Nf!Syncing
  BY <1>1, NfQueueHead
<1>3. /\ nfQueue \in Seq(Nf!Event) /\ best \in Block /\ nfCurrent \in Nat /\ nfTo \in Nat
      /\ nfBackfillEnd \in Nat /\ nfCurrent <= nfTo
  BY <1>2 DEF NfBase, NfTypes, NfRanges
<1>4. b \in ChainOf[best]
  <2>1. 1 \in 1..Len(nfQueue)
    BY <1>2
  <2>. QED
    BY <2>1, <1>2 DEF NfChain, NfStream
<1> HIDE DEF b
<1>5. /\ Len(nfQueue') = Len(nfQueue) - 1
      /\ \A i \in 1..Len(nfQueue') : nfQueue'[i] = nfQueue[i + 1]
  BY <1>1, <1>3
<1>6. NfDone' = NfDone + 1
  BY <1>1, <1>2, <1>3, <1>5 DEF NfDone
<1>7. \A i \in 1..Len(nfQueue') : i + 1 \in 1..Len(nfQueue)
  <2>1. Len(nfQueue) \in Nat /\ Len(nfQueue') = Len(nfQueue) - 1
    BY <1>2, <1>5
  <2>. QED
    BY <2>1
<1>8. \A i \in 1..Len(nfQueue') : nfQueue'[i].block \in ChainOf[best]
  BY <1>5, <1>7 DEF NfChain, NfStream
<1>9. (Nf!Syncing' <=> Nf!Syncing) /\ (Fresh' => Fresh)
  BY <1>1 DEF Nf!Syncing, Fresh, SameStage
<1>10. NfStream'
  BY <1>1, <1>8, <1>9 DEF NfChain, NfStream
<1>11. NfForward'
  <2>1. CASE nfPc = "sync"
    <3>1. PICK l \in Nat : /\ ReachesDown(best, l) /\ l <= NfDone + 1 /\ l <= nfTo
                           /\ table = Part(best, l, NfDone)
                           /\ Fresh => l = nfBackfillEnd + 1
      BY <2>1 DEF NfChain, NfForward
    <3>2. Part(best, l, NfDone) \cup {b} = Part(best, l, NfDone + 1)
      <4>1. NfDone \in Int /\ HeightOf[b] = NfDone + 1 /\ l <= NfDone + 1
        BY <1>2, <3>1
      <4>2. \A k \in Int : HeightOf[b] = k + 1 /\ l <= k + 1 =>
              Part(best, l, k) \cup {b} = Part(best, l, k + 1)
        BY <1>3, <1>4, <3>1, PartNext
      <4>. QED
        BY <4>1, <4>2
    <3>3. l <= NfDone + 1 + 1
      BY <3>1, <1>2
    <3>. QED
      BY <3>1, <3>2, <3>3, <1>1, <1>6, <1>9 DEF NfForward
  <2>. QED
    BY <2>1, <1>1 DEF NfForward
<1>12. NfBack'
  <2>1. CASE nfPc = "backfill"
    <3>1. /\ ReachesDown(best, nfBackfillEnd + 1)
          /\ nfBackfillEnd + 1 <= nfTo /\ nfBackfillEnd <= NfDone
      BY <2>1 DEF NfChain, NfBack
    <3>2. PICK h \in Nat : /\ nfTo < h /\ h <= HeightOf[best]
                           /\ table = Part(best, nfBackfillEnd + 1, NfDone)
                                        \cup Part(best, nfTo + 1, h)
      BY <2>1 DEF NfChain, NfBack
    <3>3. nfBackfillEnd + 1 \in Nat /\ nfBackfillEnd + 1 <= NfDone + 1
          /\ nfBackfillEnd <= NfDone + 1
      BY <1>2, <1>3, <3>1
    <3>4. Part(best, nfBackfillEnd + 1, NfDone) \cup {b}
            = Part(best, nfBackfillEnd + 1, NfDone + 1)
      <4>1. NfDone \in Int /\ HeightOf[b] = NfDone + 1 /\ nfBackfillEnd + 1 <= NfDone + 1
        BY <1>2, <3>3
      <4>2. \A k \in Int : HeightOf[b] = k + 1 /\ nfBackfillEnd + 1 <= k + 1 =>
              Part(best, nfBackfillEnd + 1, k) \cup {b} = Part(best, nfBackfillEnd + 1, k + 1)
        BY <1>3, <1>4, <3>3, PartNext
      <4>. QED
        BY <4>1, <4>2
    <3>5. table' = Part(best, nfBackfillEnd + 1, NfDone + 1) \cup Part(best, nfTo + 1, h)
      BY <3>2, <3>4, <1>1
    <3>. QED
      BY <3>1, <3>2, <3>3, <3>5, <1>1, <1>6 DEF NfBack
  <2>. QED
    BY <2>1, <1>1 DEF NfBack
<1>13. NfRest'
  BY <1>1, <1>2 DEF NfRest, Nf!Syncing
<1>. QED
  BY <1>10, <1>11, <1>12, <1>13 DEF NfChain

(* The range is in: the table is a stretch that ends where the range does, *)
(* unless it was filled in below.                                          *)
LEMMA NfChainRangeDone ==
  ASSUME NfBase, NfChain, Nf!RangeDone, SameStage
  PROVE  /\ NfChain'
         /\ nfPc = "sync" => Nf!Latest(table) = nfTo
<1>1. /\ UNCHANGED <<best, nfFresh, table, nfBackfillEnd, nfLive, nfDisk, nfTask, nfCurrent,
                     nfTo, nfFetched, nfQueue>>
      /\ nfPc' = "synced" /\ nfQueue = <<>> /\ nfTask = "idle" /\ Nf!Syncing /\ ~Nf!Syncing'
  BY DEF Nf!RangeDone, Nf!chainVars, Nf!taskVars, Nf!Syncing
<1>2. /\ nfCurrent = nfTo /\ nfTo \in Nat /\ nfTo <= HeightOf[best] /\ best \in Block
      /\ nfBackfillEnd \in Nat
  BY <1>1 DEF NfBase, NfTypes, NfChain, NfStream
<1>3. NfDone = nfTo
  <2>1. Len(nfQueue) = 0
    BY <1>1
  <2>. QED
    BY <2>1, <1>2 DEF NfDone
<1>4. Fresh' => Fresh
  BY <1>1 DEF Fresh, SameStage
<1>5. NfStream'
  BY <1>1 DEF NfChain, NfStream
<1>6. NfForward' /\ NfBack'
  BY <1>1 DEF NfForward, NfBack
<1>7. CASE nfPc = "sync"
  <2>1. PICK l \in Nat : /\ ReachesDown(best, l) /\ l <= nfTo
                         /\ table = Part(best, l, nfTo)
                         /\ Fresh => l = nfBackfillEnd + 1
    BY <1>3, <1>7 DEF NfChain, NfForward
  <2>2. IsStretch(best, table, l, nfTo)
    BY <2>1, <1>2 DEF IsStretch
  <2>3. NfRest'
    BY <2>1, <2>2, <1>1, <1>4 DEF NfRest
  <2>4. Nf!Latest(table) = nfTo
    <3>1. Whole(table)
      BY DEF NfBase, NfTables
    <3>. QED
      BY <3>1, <2>2, <1>2, StretchLatest
  <2>. QED
    BY <2>3, <2>4, <1>5, <1>6 DEF NfChain
<1>8. CASE nfPc = "backfill"
  <2>1. ReachesDown(best, nfBackfillEnd + 1) /\ nfBackfillEnd + 1 <= nfTo
    BY <1>8 DEF NfChain, NfBack
  <2>2. PICK h \in Nat : /\ nfTo < h /\ h <= HeightOf[best]
                         /\ table = Part(best, nfBackfillEnd + 1, nfTo)
                                      \cup Part(best, nfTo + 1, h)
    BY <1>3, <1>8 DEF NfChain, NfBack
  <2>3. nfBackfillEnd + 1 \in Nat /\ nfBackfillEnd + 1 <= nfTo + 1 /\ nfTo <= h
        /\ nfBackfillEnd + 1 <= h
    BY <2>1, <2>2, <1>2
  <2>4. Part(best, nfBackfillEnd + 1, nfTo) \cup Part(best, nfTo + 1, h)
          = Part(best, nfBackfillEnd + 1, h)
    BY <2>3, <1>2, PartsJoin
  <2>5. IsStretch(best, table, nfBackfillEnd + 1, h)
    BY <2>1, <2>2, <2>3, <2>4 DEF IsStretch
  <2>6. NfRest'
    BY <2>5, <1>1 DEF NfRest
  <2>. QED
    BY <2>6, <1>5, <1>6, <1>8 DEF NfChain
<1>. QED
  BY <1>1, <1>7, <1>8 DEF Nf!Syncing

(* A range that continues the table upwards. *)
LEMMA NfChainRange ==
  ASSUME NfBase, NfChain, nfPc \in {"down", "synced", "saved"},
         NEW first \in Nat \ {0}, NEW last \in Nat, first <= last, last <= HeightOf[best],
         Nf!SyncRange(first, last, "sync"),
         UNCHANGED <<best, nfLive, nfDisk, nfQueue>>,
         NEW l \in Nat, ReachesDown(best, l), l <= first, table' = Part(best, l, first - 1),
         Fresh' => l = nfBackfillEnd' + 1
  PROVE  NfChain'
<1>1. /\ nfPc' = "sync" /\ nfTask' = "poll" /\ nfCurrent' = first - 1 /\ nfTo' = last
      /\ UNCHANGED nfFetched
  BY DEF Nf!SyncRange
<1>2. nfQueue = <<>>
  BY DEF NfBase, NfRanges, Nf!Syncing
<1>3. NfDone' = first - 1
  <2>1. Len(nfQueue') = 0
    BY <1>2
  <2>. QED
    BY <2>1, <1>1 DEF NfDone
<1>4. NfStream'
  BY <1>1 DEF NfChain, NfStream
<1>5. NfForward'
  <2>1. l <= NfDone' + 1 /\ l <= nfTo'
    BY <1>1, <1>3
  <2>. QED
    BY <2>1, <1>3 DEF NfForward
<1>6. NfBack' /\ NfRest'
  BY <1>1 DEF NfBack, NfRest
<1>. QED
  BY <1>4, <1>5, <1>6 DEF NfChain

(* Without a range the table rests, *)
LEMMA NfChainRests ==
  ASSUME NfChain, nfPc' \in {"synced", "saved"}, Stretch(best, table'),
         nfPc' = "synced" => ~Fresh',
         nfDisk' \subseteq nfDisk \cup {table'}, nfLive' \in {nfLive, table'},
         UNCHANGED <<best, nfFetched, nfQueue>>
  PROVE  NfChain'
<1>1. ~Nf!Syncing'
  BY DEF Nf!Syncing
<1>2. NfStream'
  BY <1>1 DEF NfChain, NfStream
<1>3. NfForward' /\ NfBack'
  BY DEF NfForward, NfBack
<1>4. PICK l, h : IsStretch(best, table', l, h)
  BY DEF Stretch
<1>5. NfRest'
  <2>1. IsStretch(best', table', l, h)
    BY <1>4
  <2>. QED
    BY <2>1 DEF NfRest
<1>. QED
  BY <1>2, <1>3, <1>5 DEF NfChain

(* and without a table there is nothing to say of it. *)
LEMMA NfChainDown ==
  ASSUME NfChain, nfPc' = "down", nfLive' \in {nfLive, {}}, UNCHANGED <<best, nfDisk>>,
         nfFetched' \in {nfFetched, <<>>}, nfQueue' \in {nfQueue, <<>>}
  PROVE  NfChain'
<1>1. ~Nf!Syncing'
  BY DEF Nf!Syncing
<1>2. /\ \A i \in 1..Len(nfFetched') : nfFetched'[i] \in ChainOf[best]
      /\ \A i \in 1..Len(nfQueue') : nfQueue'[i].block \in ChainOf[best]
  <2>1. Len(<<>>) = 0
    OBVIOUS
  <2>2. \A i \in 1..Len(<<>>) : FALSE
    BY <2>1
  <2>. QED
    BY <2>2 DEF NfChain, NfStream
<1>3. NfStream'
  BY <1>1, <1>2 DEF NfChain, NfStream
<1>4. NfForward' /\ NfBack' /\ NfRest'
  BY DEF NfForward, NfBack, NfRest
<1>. QED
  BY <1>3, <1>4 DEF NfChain

LEMMA RestIsStretch ==
  ASSUME NfBase, NfChain, nfPc \in {"synced", "saved"}
  PROVE  /\ Whole(table) /\ Stretch(best, table) /\ Stretch(best, Nf!Evicted(table))
         /\ table # {} /\ Nf!Latest(table) \in Nat \ {0}
         /\ Nf!Latest(table) <= HeightOf[best]
         /\ Nf!Latest(Nf!Evicted(table)) = Nf!Latest(table)
<1>1. Whole(table) /\ best \in Block
  BY DEF NfBase, NfTables, NfTypes
<1>2. PICK l, h : IsStretch(best, table, l, h)
  BY DEF NfChain, NfRest
<1>3. PICK k : IsStretch(best, Nf!Evicted(table), k, h)
  BY <1>1, <1>2, StretchEvicted
<1>4. table # {} /\ Nf!Latest(table) = h /\ h \in Nat \ {0} /\ h <= HeightOf[best]
  BY <1>1, <1>2, StretchLatest
<1>5. Nf!Latest(Nf!Evicted(table)) = Nf!Latest(table)
  BY <1>1, EvictedKeeps
<1>. QED
  BY <1>1, <1>2, <1>3, <1>4, <1>5 DEF Stretch

LEMMA NfChainStart ==
  ASSUME NfBase, NfChain, Nf!Start, HeightOf[best] >= Floor
  PROVE  NfChain'
<1> DEFINE tip == HeightOf[best]
<1>1. /\ nfPc = "down" /\ tip \in Nat \ {0} /\ best \in Block
      /\ UNCHANGED <<best, nfLive, nfDisk, nfQueue>>
  BY HeightType DEF NfBase, NfTypes, Nf!Start, Nf!chainVars
<1>2. CASE \E snapshot \in nfDisk :
             /\ table' = snapshot /\ nfFresh' = FALSE
             /\ Nf!SyncRange(Nf!ForwardStart(snapshot, tip), tip, "sync")
  <2>1. PICK t \in nfDisk : /\ table' = t /\ nfFresh' = FALSE
                            /\ Nf!SyncRange(Nf!ForwardStart(t, tip), tip, "sync")
    BY <1>2
  <2>2. Whole(t) /\ Stretch(best, t)
    BY DEF NfBase, NfTables, NfChain, NfStream
  <2>3. PICK l, h : IsStretch(best, t, l, h)
    BY <2>2 DEF Stretch
  <2>4. Nf!ForwardStart(t, tip) = h + 1 /\ h \in Nat /\ h <= tip
    BY <1>1, <2>2, <2>3, StretchLatest DEF Nf!ForwardStart
  <2>5. ~Fresh'
    BY <2>1 DEF Fresh
  <2>6. CASE h + 1 <= tip
    <3> DEFINE first == h + 1
    <3>1. l \in Nat /\ ReachesDown(best, l) /\ l <= h /\ t = Part(best, l, h)
      BY <2>3 DEF IsStretch
    <3>2. l <= first /\ first - 1 = h /\ first \in Nat \ {0} /\ first <= tip
      BY <3>1, <2>4, <2>6
    <3>3. Nf!SyncRange(first, tip, "sync")
      BY <2>1, <2>4
    <3> HIDE DEF first
    <3>4. table' = Part(best, l, first - 1)
      BY <2>1, <3>1, <3>2
    <3>5. tip <= HeightOf[best] /\ tip \in Nat
      BY <1>1
    <3> HIDE DEF tip
    <3>6. Fresh' => l = nfBackfillEnd' + 1
      BY <2>5
    <3>. QED
      BY <1>1, <3>1, <3>2, <3>3, <3>4, <3>5, <3>6, NfChainRange
  <2>7. CASE ~(h + 1 <= tip)
    <3>1. nfPc' = "synced" /\ UNCHANGED nfFetched
      BY <2>1, <2>4, <2>7 DEF Nf!SyncRange, Nf!taskVars
    <3>2. Stretch(best, table')
      BY <2>1, <2>2
    <3>3. /\ nfPc' \in {"synced", "saved"} /\ (nfPc' = "synced" => ~Fresh')
          /\ nfDisk' \subseteq nfDisk \cup {table'} /\ nfLive' \in {nfLive, table'}
          /\ UNCHANGED <<best, nfFetched, nfQueue>>
      BY <3>1, <1>1, <2>5
    <3>. QED
      BY <3>2, <3>3, NfChainRests
  <2>. QED
    BY <2>6, <2>7
<1>3. CASE /\ table' = {} /\ nfBackfillEnd' = Nf!EndBefore(Nf!FreshStart(tip))
           /\ Nf!SyncRange(Nf!FreshStart(tip), tip, "sync")
  <2> DEFINE first == Nf!FreshStart(tip)
  <2>1. first \in Nat \ {0} /\ first >= Floor
    BY <1>1, NfFreshStartAt
  <2>2. first <= tip
    BY <1>1, MaxOfTwo, Constants DEF Nf!FreshStart
  <2>3. nfBackfillEnd' = first - 1 /\ Nf!SyncRange(first, tip, "sync")
    BY <1>3 DEF Nf!EndBefore
  <2> HIDE DEF first
  <2>4. ReachesDown(best, first)
    <3>1. \E c \in ChainOf[best] : HeightOf[c] <= Floor
      BY <1>1, BranchReaches, WitConstants
    <3>2. \A c \in ChainOf[best] : HeightOf[c] \in Nat
      BY <1>1, ChainBelowTip, HeightType
    <3>3. \A c \in ChainOf[best] : HeightOf[c] <= Floor => HeightOf[c] <= first
      BY <3>2, <2>1, Constants
    <3>. QED
      BY <3>1, <3>3 DEF ReachesDown
  <2>5. table' = Part(best, first, first - 1)
    BY <1>1, <1>3, <2>1, PartNone
  <2>6. first = nfBackfillEnd' + 1 /\ first \in Nat /\ first <= first /\ tip <= HeightOf[best]
        /\ tip \in Nat
    BY <1>1, <2>1, <2>3
  <2> HIDE DEF tip
  <2>. QED
    BY <1>1, <2>1, <2>2, <2>3, <2>4, <2>5, <2>6, NfChainRange
<1>. QED
  BY <1>2, <1>3 DEF Nf!Start

LEMMA NfChainBackfill ==
  ASSUME NfBase, NfChain, Nf!Backfill, mode \in {"sync", "failing"}
  PROVE  NfChain'
<1> DEFINE first == Nf!BackfillStart(nfBackfillEnd)
<1>1. /\ nfPc = "synced" /\ nfFresh /\ nfBackfillEnd \in Nat /\ nfBackfillEnd >= Floor
      /\ Nf!SyncRange(first, nfBackfillEnd, "backfill")
      /\ nfBackfillEnd' = first - 1 /\ best \in Block
      /\ UNCHANGED <<best, nfFresh, table, nfLive, nfDisk, nfQueue>>
  BY DEF Nf!Backfill, Nf!BackfillNeeded, Nf!EndBefore, Nf!chainVars, NfBase, NfTypes
<1>2. first \in Nat \ {0} /\ Floor <= first /\ first <= nfBackfillEnd
  BY <1>1, NfBackfillStartAt
<1> HIDE DEF first
<1>3. /\ nfPc' = "backfill" /\ nfTask' = "poll" /\ nfCurrent' = first - 1
      /\ nfTo' = nfBackfillEnd /\ UNCHANGED nfFetched
  BY <1>1, <1>2 DEF Nf!SyncRange
<1>4. NfDone' = first - 1
  <2>1. nfQueue = <<>>
    BY <1>1 DEF NfBase, NfRanges, Nf!Syncing
  <2>2. Len(nfQueue') = 0
    BY <2>1, <1>1
  <2>. QED
    BY <2>2, <1>3 DEF NfDone
<1>5. Fresh
  BY <1>1 DEF Fresh
<1>6. PICK l, h : IsStretch(best, table, l, h) /\ l = nfBackfillEnd + 1
  BY <1>1, <1>5 DEF NfChain, NfRest
<1>7. h \in Nat /\ l <= h /\ h <= HeightOf[best] /\ table = Part(best, l, h)
      /\ HeightOf[best] \in Nat
  BY <1>1, <1>6, HeightType DEF IsStretch
<1>8. nfBackfillEnd < h /\ nfBackfillEnd <= HeightOf[best]
  BY <1>1, <1>6, <1>7
<1>9. NfStream'
  BY <1>1, <1>3, <1>8 DEF NfChain, NfStream
<1>10. nfBackfillEnd' + 1 = first /\ first - 1 <= NfDone' /\ NfDone' < first /\ first \in Int
       /\ NfDone' \in Int
  BY <1>1, <1>2, <1>4
<1>11. ReachesDown(best, first)
  <2>1. \E c \in ChainOf[best] : HeightOf[c] <= Floor
    BY <1>1, BranchReaches, WitConstants
  <2>2. \A c \in ChainOf[best] : HeightOf[c] \in Nat
    BY <1>1, ChainBelowTip, HeightType
  <2>3. \A c \in ChainOf[best] : HeightOf[c] <= Floor => HeightOf[c] <= first
    BY <2>2, <1>2, Constants
  <2>. QED
    BY <2>1, <2>3 DEF ReachesDown
<1>12. Part(best, first, NfDone') = {}
  BY <1>1, <1>10, PartNone
<1>13. table' = Part(best, first, NfDone') \cup Part(best, nfTo' + 1, h)
  BY <1>1, <1>3, <1>6, <1>7, <1>12
<1>14. NfBack'
  BY <1>1, <1>2, <1>3, <1>7, <1>8, <1>10, <1>11, <1>13 DEF NfBack
<1>15. NfForward' /\ NfRest'
  BY <1>3 DEF NfForward, NfRest
<1>. QED
  BY <1>9, <1>14, <1>15 DEF NfChain

(* The table behind the tree: the rest of the other's range. *)
LEMMA NfChainCatchUp ==
  ASSUME NfBase, NfChain, nfPc = "saved", NEW last \in Nat, last <= HeightOf[best],
         Nf!Latest(table) < last, mode' = "catchup",
         Nf!SyncRange(CatchUpStart(Nf!Latest(table)), last, "sync"),
         UNCHANGED <<best, table, nfLive, nfDisk, nfQueue>>
  PROVE  NfChain' /\ nfPc' = "sync" /\ nfTo' = last
<1>1. PICK l, h : IsStretch(best, table, l, h)
  BY DEF NfChain, NfRest
<1>2. Whole(table) /\ best \in Block
  BY DEF NfBase, NfTables, NfTypes
<1>3. Nf!Latest(table) = h
  BY <1>1, <1>2, StretchLatest
<1>4. l \in Nat /\ h \in Nat /\ ReachesDown(best, l) /\ l <= h /\ table = Part(best, l, h)
  BY <1>1 DEF IsStretch
<1>5. Nf!SyncRange(h + 1, last, "sync") /\ h < last
  BY <1>3 DEF CatchUpStart
<1>6. l <= h + 1 /\ h + 1 - 1 = h /\ h + 1 \in Nat \ {0} /\ h + 1 <= last
  BY <1>4, <1>5
<1>7. table' = Part(best, l, h + 1 - 1)
  BY <1>4, <1>6
<1>8. ~Fresh'
  BY DEF Fresh
<1>9. NfChain'
  BY <1>4, <1>5, <1>6, <1>7, <1>8, NfChainRange
<1>. QED
  BY <1>5, <1>6, <1>9 DEF Nf!SyncRange

(* A block that is mined changes nothing of this. *)
LEMMA NfChainGrows ==
  ASSUME NfBase, NfChain, Grow, UNCHANGED <<nfVars, mode>>
  PROVE  NfChain'
<1>1. /\ best \in Block /\ best' \in Block /\ HeightOf[best] <= HeightOf[best']
      /\ ChainOf[best] \subseteq ChainOf[best']
      /\ \A l : ReachesDown(best, l) => ReachesDown(best', l)
      /\ \A l : \A h \in Int : h <= HeightOf[best] => Part(best', l, h) = Part(best, l, h)
  <2>1. best \in Block
    BY DEF NfBase, NfTypes
  <2>. QED
    BY <2>1, StretchGrows
<1>2. HeightOf[best] \in Nat /\ HeightOf[best'] \in Nat /\ nfTo \in Nat /\ nfCurrent \in Nat
      /\ nfQueue \in Seq(Nf!Event)
  BY <1>1, HeightType DEF NfBase, NfTypes
<1>3. UNCHANGED <<nfPc, nfFresh, table, nfBackfillEnd, nfLive, nfDisk, nfTask, nfCurrent, nfTo,
                  nfFetched, nfQueue, mode>>
  BY DEF nfVars
<1>4. NfDone' = NfDone /\ (Nf!Syncing' <=> Nf!Syncing) /\ (Fresh' <=> Fresh)
  BY <1>3 DEF NfDone, Nf!Syncing, Fresh
<1>5. \A t, l, h : IsStretch(best, t, l, h) => IsStretch(best', t, l, h)
  <2> SUFFICES ASSUME NEW t, NEW l, NEW h, IsStretch(best, t, l, h)
               PROVE  IsStretch(best', t, l, h)
    OBVIOUS
  <2>1. /\ l \in Nat /\ h \in Nat /\ ReachesDown(best, l) /\ l <= h /\ h <= HeightOf[best]
        /\ t = Part(best, l, h)
    BY DEF IsStretch
  <2>2. h <= HeightOf[best'] /\ h \in Int
    BY <2>1, <1>1, <1>2
  <2>3. t = Part(best', l, h)
    BY <2>1, <2>2, <1>1
  <2>. QED
    BY <2>1, <2>2, <2>3, <1>1 DEF IsStretch
<1>6. \A t : Stretch(best, t) => Stretch(best', t)
  BY <1>5 DEF Stretch
<1>7. NfStream'
  <2>1. nfTo <= HeightOf[best] => nfTo <= HeightOf[best']
    BY <1>1, <1>2
  <2>. QED
    BY <2>1, <1>1, <1>3, <1>4, <1>6 DEF NfChain, NfStream
<1>8. Nf!Syncing => NfDone \in Int /\ NfDone <= HeightOf[best]
  <2> SUFFICES ASSUME Nf!Syncing
               PROVE  NfDone \in Int /\ NfDone <= HeightOf[best]
    OBVIOUS
  <2>1. nfCurrent <= nfTo /\ nfTo <= HeightOf[best]
    BY DEF NfBase, NfRanges, NfChain, NfStream
  <2>2. Len(nfQueue) \in Nat
    BY <1>2
  <2>. QED
    BY <2>1, <2>2, <1>2 DEF NfDone
<1>9. NfForward'
  <2>1. CASE nfPc = "sync"
    <3>1. PICK l \in Nat : /\ ReachesDown(best, l) /\ l <= NfDone + 1 /\ l <= nfTo
                           /\ table = Part(best, l, NfDone)
                           /\ Fresh => l = nfBackfillEnd + 1
      BY <2>1 DEF NfChain, NfForward
    <3>2. table = Part(best', l, NfDone)
      BY <3>1, <2>1, <1>1, <1>8 DEF Nf!Syncing
    <3>. QED
      BY <3>1, <3>2, <1>1, <1>3, <1>4 DEF NfForward
  <2>. QED
    BY <2>1, <1>3 DEF NfForward
<1>10. NfBack'
  <2>1. CASE nfPc = "backfill"
    <3>1. /\ ReachesDown(best, nfBackfillEnd + 1)
          /\ nfBackfillEnd + 1 <= nfTo /\ nfBackfillEnd <= NfDone
      BY <2>1 DEF NfChain, NfBack
    <3>2. PICK h \in Nat : /\ nfTo < h /\ h <= HeightOf[best]
                           /\ table = Part(best, nfBackfillEnd + 1, NfDone)
                                        \cup Part(best, nfTo + 1, h)
      BY <2>1 DEF NfChain, NfBack
    <3>3. h \in Int /\ h <= HeightOf[best']
      BY <3>2, <1>1, <1>2
    <3>4. Part(best', nfTo + 1, h) = Part(best, nfTo + 1, h)
      BY <3>2, <3>3, <1>1
    <3>5. Part(best', nfBackfillEnd + 1, NfDone) = Part(best, nfBackfillEnd + 1, NfDone)
      BY <2>1, <1>1, <1>8 DEF Nf!Syncing
    <3>. QED
      BY <3>1, <3>2, <3>3, <3>4, <3>5, <1>1, <1>3, <1>4 DEF NfBack
  <2>. QED
    BY <2>1, <1>3 DEF NfBack
<1>11. NfRest'
  BY <1>3, <1>4, <1>5 DEF NfChain, NfRest
<1>. QED
  BY <1>7, <1>9, <1>10, <1>11 DEF NfChain

-----------------------------------------------------------------------------
(* The tree and the blocks on their way to it *)

(* The block the tree takes in next is one above this height. *)
WitDone == witCurrent - Len(witQueue)

(* The blocks read follow each other on the branch, inside the range asked *)
(* for, and no range ends early.                                           *)
WitShape ==
  /\ witPc \in {"down", "roots", "window", "sync", "synced", "saved"}
  /\ witTask \in {"idle", "poll", "fetch", "send"}
  /\ witCurrent \in Nat /\ witGoal \in Nat /\ witTo \in Nat
  /\ witPc # "sync" => witTask = "idle" /\ witFetched = <<>> /\ witQueue = <<>>
  /\ \A i \in 1..Len(witFetched) :
       witFetched[i] \in ChainOf[best] /\ HeightOf[witFetched[i]] = witCurrent + i
  /\ witTask \in {"idle", "poll"} => witFetched = <<>>
  /\ witTask = "fetch" => witCurrent + Len(witFetched) < witGoal
  /\ witTask \in {"fetch", "send"} =>
       witCurrent + Len(witFetched) <= witGoal /\ witGoal <= witTo
  /\ witPc = "sync" => witCurrent <= witTo /\ witTo <= HeightOf[best]
  /\ witPc = "sync" /\ witTask = "idle" => witCurrent = witTo

(* A block in the channel carries the size of the tree before it, or none. *)
Carried(x, e, h) ==
  /\ e.type = "NewBlock" /\ e.block \in ChainOf[x] /\ HeightOf[e.block] = h
  /\ e.prior \subseteq {TotalOf(Commitments)[e.block] - Commitments[e.block]}

(* What is on its way continues the tree without a gap; a tree that starts *)
(* at an offset may have no record yet.                                    *)
WitStream == witPc = "sync" =>
  /\ WitDone \in Nat
  /\ ReachesAlong(Commitments, Floor, tree, WitDone, ChainOf[best])
  /\ \A i \in 1..Len(witQueue) : Carried(best, witQueue[i], WitDone + i)
  /\ SizeAt(best, witPrior, witCurrent)
  /\ ReachesDown(best, WitDone + 1)
  /\ tree.records # <<>> => Wit!Latest(tree) = WitDone
  /\ tree.records = <<>> => Wit!Unanchored(tree) \/ WitDone < witTo

(* Every tree has its leaves in place, and what is saved has a block. *)
WitTrees ==
  /\ OnPlace(best, tree) /\ OnPlace(best, witLive)
  /\ \A t \in witDisk : OnPlace(best, t) /\ t.records # <<>>
  /\ witPc \in {"down", "roots"} => tree = Wit!NoTree
  /\ witPc = "roots" => Floor <= witTo /\ witTo <= HeightOf[best]
  /\ witPc = "window" => /\ witTo <= HeightOf[best] /\ tree.records = <<>>
                         /\ \E b \in ChainOf[best] : /\ HeightOf[b] = witCurrent
                                                     /\ Completes(b, tree.offset)
  /\ witPc = "synced" /\ tree.records = <<>> => Wit!Unanchored(tree)
  /\ witPc = "saved" => tree.records # <<>>

WitChain == WitShape /\ WitStream /\ WitTrees

LEMMA WitChainStays ==
  ASSUME WitChain,
         UNCHANGED <<best, witPc, tree, witDisk, witTask, witCurrent, witGoal, witTo, witFetched,
                     witPrior, witQueue>>,
         witLive' \in {witLive, tree}
  PROVE  WitChain'
<1>1. WitShape'
  BY DEF WitChain, WitShape
<1>2. WitDone' = WitDone
  BY DEF WitDone
<1>3. WitStream'
  BY <1>2 DEF WitChain, WitStream
<1>4. WitTrees'
  BY DEF WitChain, WitTrees
<1>. QED
  BY <1>1, <1>3, <1>4 DEF WitChain

(* A tree at rest. *)
LEMMA WitChainRests ==
  ASSUME WitChain, witPc' \in {"down", "synced", "saved"},
         OnPlace(best, tree'), OnPlace(best, witLive'),
         witPc' = "down" => tree' = Wit!NoTree,
         witPc' = "synced" => (tree'.records = <<>> => Wit!Unanchored(tree')),
         witPc' = "saved" => tree'.records # <<>>,
         \A t \in witDisk' : OnPlace(best, t) /\ t.records # <<>>,
         witTask' = "idle", witFetched' = <<>>, witQueue' = <<>>,
         witCurrent' \in Nat, witGoal' \in Nat, witTo' \in Nat, UNCHANGED best
  PROVE  WitChain'
<1>1. Len(witFetched') = 0
  OBVIOUS
<1>2. WitShape'
  BY <1>1 DEF WitShape
<1>3. WitStream'
  BY DEF WitStream
<1>4. WitTrees'
  BY DEF WitTrees
<1>. QED
  BY <1>2, <1>3, <1>4 DEF WitChain

LEMMA WitChainFailRun ==
  ASSUME WitChain, FailRun
  PROVE  WitChain'
<1>1. /\ witPc' = "down" /\ tree' = Wit!NoTree /\ witLive' = Wit!NoTree
      /\ witTask' = "idle" /\ witCurrent' = 0 /\ witGoal' = 0 /\ witTo' = 0
      /\ witFetched' = <<>> /\ witQueue' = <<>> /\ UNCHANGED <<best, witDisk>>
  BY DEF FailRun, chainVars
<1>2. OnPlace(best, Wit!NoTree)
  BY WitNoTree, BareOnPlace
<1>3. \A t \in witDisk : OnPlace(best, t) /\ t.records # <<>>
  BY DEF WitChain, WitTrees
<1>. QED
  BY <1>1, <1>2, <1>3, WitChainRests

(* A range that continues a tree. *)
LEMMA WitChainRange ==
  ASSUME WitChain, witPc # "sync",
         NEW first \in Nat \ {0}, NEW last \in Nat, first <= last, last <= HeightOf[best],
         NEW size, Wit!SyncRange(first, last, size),
         OnPlace(best, tree'), SizeAt(best, size, first - 1), ReachesDown(best, first),
         ReachesAlong(Commitments, Floor, tree', first - 1, ChainOf[best]),
         tree'.records # <<>> => Wit!Latest(tree') = first - 1,
         UNCHANGED <<best, witLive, witDisk, witQueue>>
  PROVE  WitChain' /\ witPc' = "sync" /\ witTo' = last
<1>1. /\ witPc' = "sync" /\ witTask' = "poll" /\ witCurrent' = first - 1 /\ witTo' = last
      /\ witPrior' = size /\ UNCHANGED <<witGoal, witFetched>>
  BY DEF Wit!SyncRange
<1>2. witQueue = <<>> /\ witFetched = <<>> /\ witGoal \in Nat
  BY DEF WitChain, WitShape
<1>3. Len(witQueue') = 0 /\ Len(witFetched') = 0 /\ witFetched' = <<>>
  BY <1>1, <1>2
<1>4. WitDone' = first - 1
  BY <1>1, <1>3 DEF WitDone
<1>5. first - 1 \in Nat /\ first - 1 <= last /\ first - 1 < last /\ first - 1 + 1 = first
  OBVIOUS
<1>6. WitShape'
  BY <1>1, <1>2, <1>3, <1>5 DEF WitShape
<1>7. WitStream'
  BY <1>1, <1>3, <1>4, <1>5 DEF WitStream
<1>8. WitTrees'
  BY <1>1 DEF WitChain, WitTrees
<1>. QED
  BY <1>1, <1>6, <1>7, <1>8 DEF WitChain

(* The range that continues a tree with a block: the one above its latest. *)
LEMMA WitChainResumes ==
  ASSUME WitChain, best \in Block, witPc # "sync", OnPlace(best, tree'), tree'.records # <<>>,
         NEW last \in Nat, last <= HeightOf[best],
         Wit!SyncRange(Wit!Latest(tree') + 1, last, Wit!NoSizeIfZero(Wit!Size(tree'))),
         UNCHANGED <<best, witLive, witDisk, witQueue>>
  PROVE  /\ WitChain' /\ witTo' = last
         /\ Wit!Latest(tree') < last => witPc' = "sync"
<1> DEFINE size == Wit!NoSizeIfZero(Wit!Size(tree'))
           first == Wit!Latest(tree') + 1
<1>1. /\ ReachesAlong(Commitments, Floor, tree', Wit!Latest(tree'), ChainOf[best])
      /\ Wit!Latest(tree') \in Nat /\ ReachesDown(best, Wit!Latest(tree') + 1)
      /\ tree' \in TreeType
  BY OnPlaceLatest DEF OnPlace
<1>2. SizeAt(best, size, Wit!Latest(tree'))
  BY <1>1, ReachesSize
<1>3. first \in Nat \ {0} /\ first - 1 = Wit!Latest(tree')
  BY <1>1
<1>4. Wit!SyncRange(first, last, size)
  OBVIOUS
<1>5. ReachesDown(best, first)
  BY <1>1
<1>6. Wit!Latest(tree') < last => first <= last
  BY <1>1
<1> HIDE DEF size, first
<1>7. CASE first <= last
  <2>1. /\ SizeAt(best, size, first - 1) /\ Wit!Latest(tree') = first - 1
        /\ ReachesAlong(Commitments, Floor, tree', first - 1, ChainOf[best])
    BY <1>1, <1>2, <1>3
  <2>. QED
    BY <1>3, <1>4, <1>5, <1>7, <2>1, WitChainRange
<1>8. CASE ~(first <= last)
  <2>1. /\ witPc' = "synced" /\ witTo' = last
        /\ UNCHANGED <<witTask, witCurrent, witGoal, witFetched>>
    BY <1>4, <1>8 DEF Wit!SyncRange
  <2>2. /\ witTask = "idle" /\ witFetched = <<>> /\ witQueue = <<>>
        /\ witCurrent \in Nat /\ witGoal \in Nat
    BY DEF WitChain, WitShape
  <2>3. OnPlace(best, witLive) /\ \A t \in witDisk : OnPlace(best, t) /\ t.records # <<>>
    BY DEF WitChain, WitTrees
  <2>4. WitChain'
    BY <2>1, <2>2, <2>3, WitChainRests
  <2>. QED
    BY <2>1, <2>4, <1>6, <1>8
<1>. QED
  BY <1>7, <1>8

LEMMA WitChainStart ==
  ASSUME WitChain, best \in Block, HeightOf[best] >= Floor, Wit!Start
  PROVE  WitChain'
<1>1. witPc = "down" /\ UNCHANGED <<best, witLive, witDisk, witQueue>>
  BY DEF Wit!Start, Wit!chainVars
<1>2. HeightOf[best] \in Nat /\ HeightOf[best] <= HeightOf[best]
  BY HeightType
<1>3. ASSUME NEW t \in witDisk, tree' = t,
             Wit!SyncRange(Wit!Resume(t), HeightOf[best], Wit!ResumeSize(t))
      PROVE  WitChain'
  <2>1. OnPlace(best, t) /\ t.records # <<>>
    BY DEF WitChain, WitTrees
  <2>2. Wit!Resume(t) = Wit!Latest(t) + 1 /\ Wit!ResumeSize(t) = Wit!NoSizeIfZero(Wit!Size(t))
    BY <2>1 DEF Wit!Resume, Wit!ResumeSize
  <2>3. Wit!SyncRange(Wit!Latest(tree') + 1, HeightOf[best], Wit!NoSizeIfZero(Wit!Size(tree')))
    BY <1>3, <2>2
  <2>4. OnPlace(best, tree') /\ tree'.records # <<>>
    BY <1>3, <2>1
  <2>. QED
    BY <1>1, <1>2, <2>3, <2>4, WitChainResumes
<1>4. CASE /\ witPc' = "roots" /\ witTo' = HeightOf[best]
           /\ UNCHANGED <<tree, witTask, witCurrent, witGoal, witFetched, witPrior>>
  <2>1. WitShape'
    BY <1>1, <1>2, <1>4 DEF WitChain, WitShape
  <2>2. WitStream'
    BY <1>4 DEF WitStream
  <2>3. Floor <= HeightOf[best]
    BY <1>2, WitConstants
  <2>4. WitTrees'
    BY <1>1, <1>2, <1>4, <2>3 DEF WitChain, WitTrees
  <2>. QED
    BY <2>1, <2>2, <2>4 DEF WitChain
<1>. QED
  BY <1>3, <1>4 DEF Wit!Start

LEMMA WitChainRoots ==
  ASSUME WitChain, best \in Block, Wit!ReadRoots
  PROVE  WitChain'
<1>1. witPc = "roots" /\ UNCHANGED <<best, witLive, witDisk, witQueue>>
  BY DEF Wit!ReadRoots, Wit!chainVars
<1>2. /\ tree = Wit!NoTree /\ Floor <= witTo /\ witTo <= HeightOf[best] /\ witTo \in Nat
      /\ witTask = "idle" /\ witFetched = <<>> /\ witQueue = <<>> /\ witGoal \in Nat
  BY <1>1 DEF WitChain, WitShape, WitTrees
<1>3. CASE Wit!CompletedShards >= WindowLimit
  <2> DEFINE offset == Wit!WindowStart
  <2>1. /\ tree' = [offset |-> offset, records |-> <<>>]
        /\ witCurrent' = Wit!CompletingHeight(offset) /\ witPc' = "window"
        /\ UNCHANGED <<witTask, witGoal, witTo, witFetched, witPrior>>
    BY <1>3 DEF Wit!ReadRoots
  <2>2. offset \in Nat
        /\ \E b \in ChainOf[best] : /\ Completes(b, offset)
                                    /\ Wit!CompletingHeight(offset) = HeightOf[b]
    BY <1>3, WindowStartIs
  <2> HIDE DEF offset
  <2>3. PICK b \in ChainOf[best] : Completes(b, offset) /\ witCurrent' = HeightOf[b]
    BY <2>1, <2>2
  <2>4. witCurrent' \in Nat
    BY <2>3, ChainBelowTip, HeightType
  <2>5. tree' \in TreeType /\ tree'.records = <<>> /\ tree'.offset = offset
    BY <2>1, <2>2 DEF TreeType
  <2>6. OnPlace(best, tree')
    BY <2>5, BareOnPlace
  <2>7. Len(witFetched') = 0
    BY <1>2, <2>1
  <2>8. WitShape'
    BY <1>1, <1>2, <2>1, <2>4, <2>7 DEF WitShape
  <2>9. WitStream'
    BY <2>1 DEF WitStream
  <2>10. WitTrees'
    <3>1. \E c \in ChainOf[best] : HeightOf[c] = witCurrent' /\ Completes(c, tree'.offset)
      BY <2>3, <2>5
    <3>. QED
      BY <1>1, <1>2, <2>1, <2>5, <2>6, <3>1 DEF WitChain, WitTrees
  <2>. QED
    BY <2>8, <2>9, <2>10 DEF WitChain
<1>4. CASE ~(Wit!CompletedShards >= WindowLimit)
  <2>1. Wit!SyncRange(Floor, witTo, {}) /\ UNCHANGED tree
    BY <1>4 DEF Wit!ReadRoots
  <2>2. /\ Floor \in Nat \ {0} /\ Floor - 1 < Floor
        /\ \A b \in Block : Parent[b] \notin Block => HeightOf[b] <= Floor
    BY WitConstants
  <2>3. /\ OnPlace(best, Wit!NoTree) /\ Wit!NoTree.records = <<>>
        /\ ReachesAlong(Commitments, Floor, Wit!NoTree, Floor - 1, ChainOf[best])
    BY <2>2, WitNoTree, BareOnPlace DEF ReachesAlong
  <2>4. SizeAt(best, {}, Floor - 1)
    BY DEF SizeAt
  <2>5. ReachesDown(best, Floor)
    BY <2>2, BranchReaches DEF ReachesDown
  <2>. QED
    BY <1>1, <1>2, <2>1, <2>2, <2>3, <2>4, <2>5, WitChainRange
<1>. QED
  BY <1>3, <1>4

LEMMA WitWindowAvailable ==
  ASSUME WitChain, best \in Block, witPc = "window"
  PROVE  Available(witCurrent) /\ Completes(BlockAt(witCurrent), tree.offset)
<1>1. PICK b \in ChainOf[best] : HeightOf[b] = witCurrent /\ Completes(b, tree.offset)
  BY DEF WitChain, WitTrees
<1>2. Available(witCurrent)
  BY <1>1 DEF Available
<1>3. BlockAt(witCurrent) = b
  BY <1>1, <1>2, BlockAtHeight, ChainHeightsDiffer
<1>. QED
  BY <1>1, <1>2, <1>3

LEMMA WitChainWindow ==
  ASSUME WitChain, best \in Block, Wit!ReadCompletingBlock
  PROVE  WitChain'
<1> DEFINE b == BlockAt(witCurrent)
<1>1. /\ witPc = "window" /\ UNCHANGED <<best, witLive, witDisk, witQueue>>
      /\ tree' = Wit!Seeded(b)
      /\ Wit!SyncRange(witCurrent + 1, witTo, {Wit!Size(tree')})
  BY SameChain DEF Wit!ReadCompletingBlock, Wit!chainVars
<1>2. b \in ChainOf[best] /\ HeightOf[b] = witCurrent /\ Completes(b, tree.offset)
  BY <1>1, WitWindowAvailable, BlockAtHeight
<1> HIDE DEF b
<1>3. /\ witTo <= HeightOf[best] /\ witTo \in Nat /\ witCurrent \in Nat /\ tree.records = <<>>
      /\ tree \in TreeType /\ OnPlace(best, witLive)
      /\ \A t \in witDisk : OnPlace(best, t) /\ t.records # <<>>
      /\ witTask = "idle" /\ witFetched = <<>> /\ witQueue = <<>> /\ witGoal \in Nat
  BY <1>1 DEF WitChain, WitShape, WitTrees, OnPlace
<1>4. /\ OnPlace(best, tree')
      /\ ReachesAlong(Commitments, Floor, tree', witCurrent, ChainOf[best])
      /\ tree'.records = <<>> => Wit!Unanchored(tree')
      /\ tree'.records # <<>> => Wit!Latest(tree') = witCurrent
      /\ SizeAt(best, {Wit!Size(tree')}, witCurrent)
  BY <1>1, <1>2, <1>3, SeededIs
<1>5. CASE witCurrent + 1 <= witTo
  <2> DEFINE first == witCurrent + 1
  <2>1. first \in Nat \ {0} /\ first - 1 = witCurrent /\ first <= witTo /\ witCurrent <= first
    BY <1>3, <1>5
  <2>2. Wit!SyncRange(first, witTo, {Wit!Size(tree')})
    BY <1>1
  <2> HIDE DEF first
  <2>3. ReachesDown(best, first)
    BY <1>2, <2>1 DEF ReachesDown
  <2>4. /\ SizeAt(best, {Wit!Size(tree')}, first - 1)
        /\ ReachesAlong(Commitments, Floor, tree', first - 1, ChainOf[best])
        /\ tree'.records # <<>> => Wit!Latest(tree') = first - 1
    BY <2>1, <1>4
  <2>. QED
    BY <1>1, <1>3, <1>4, <2>1, <2>2, <2>3, <2>4, WitChainRange
<1>6. CASE ~(witCurrent + 1 <= witTo)
  <2>1. /\ witPc' = "synced" /\ witTo' = witTo
        /\ UNCHANGED <<witTask, witCurrent, witGoal, witFetched>>
    BY <1>1, <1>6 DEF Wit!SyncRange
  <2>. QED
    BY <1>1, <1>3, <1>4, <2>1, WitChainRests
<1>. QED
  BY <1>5, <1>6

LEMMA WitMinOfTwo ==
  ASSUME NEW m \in Int, NEW n \in Int
  PROVE  Wit!Min({m, n}) = IF m <= n THEN m ELSE n
  BY DEF Wit!Min

LEMMA WitNextAvailable ==
  ASSUME WitTypes, WitChain, best \in Block, witTask = "fetch"
  PROVE  Available(Wit!NextHeight) /\ Wit!NextHeight \in Nat /\ witPc = "sync"
<1>1. /\ witPc = "sync" /\ witCurrent \in Nat /\ witGoal \in Nat /\ witTo \in Nat
      /\ witCurrent + Len(witFetched) < witGoal /\ witGoal <= witTo /\ witTo <= HeightOf[best]
  BY DEF WitChain, WitShape
<1>2. Len(witFetched) \in Nat /\ Len(witQueue) \in Nat
  BY DEF WitTypes
<1>3. WitDone \in Nat /\ ReachesDown(best, WitDone + 1)
  BY <1>1 DEF WitChain, WitStream
<1>4. WitDone = witCurrent - Len(witQueue)
  BY DEF WitDone
<1>5. PICK c \in ChainOf[best] : HeightOf[c] <= WitDone + 1
  BY <1>3 DEF ReachesDown
<1>6. HeightOf[c] \in Nat /\ HeightOf[best] \in Nat
  BY ChainBelowTip, HeightType
<1>7. Wit!NextHeight = witCurrent + 1 + Len(witFetched)
  BY DEF Wit!NextHeight
<1>8. /\ Wit!NextHeight \in Nat /\ HeightOf[c] <= Wit!NextHeight
      /\ Wit!NextHeight <= HeightOf[best]
  BY <1>1, <1>2, <1>3, <1>4, <1>5, <1>6, <1>7
<1>. QED
  BY <1>1, <1>8, AvailableBetween

LEMMA WitChainPoll ==
  ASSUME WitChain, Wit!PollSync
  PROVE  WitChain'
<1>1. /\ UNCHANGED <<best, witPc, tree, witLive, witDisk, witCurrent, witTo, witFetched,
                     witPrior, witQueue>>
      /\ witPc = "sync" /\ witTask = "poll"
  BY DEF Wit!PollSync, Wit!chainVars, Wit!mainVars, Wit!Syncing
<1>2. /\ witCurrent \in Nat /\ witTo \in Nat /\ witGoal \in Nat /\ witCurrent <= witTo
      /\ witFetched = <<>>
  BY <1>1 DEF WitChain, WitShape
<1>3. /\ witTask' \in {"idle", "fetch"} /\ witGoal' \in Nat
      /\ witTask' = "fetch" => witCurrent < witGoal' /\ witGoal' <= witTo
      /\ witTask' = "idle" => witCurrent = witTo
  <2>1. CASE witCurrent < witTo
    <3>1. witTask' = "fetch" /\ witGoal' = Wit!Min({witCurrent + SyncBatch, witTo})
      BY <2>1 DEF Wit!PollSync
    <3>2. witCurrent + SyncBatch \in Int /\ witTo \in Int
      BY <1>2, Constants
    <3>. QED
      BY <2>1, <3>1, <3>2, <1>2, WitMinOfTwo, Constants
  <2>2. CASE ~(witCurrent < witTo)
    BY <2>2, <1>2 DEF Wit!PollSync
  <2>. QED
    BY <2>1, <2>2
<1>4. Len(witFetched) = 0
  BY <1>2
<1>5. WitShape'
  BY <1>1, <1>2, <1>3, <1>4 DEF WitChain, WitShape
<1>6. WitDone' = WitDone
  BY <1>1 DEF WitDone
<1>7. WitStream'
  BY <1>1, <1>6 DEF WitChain, WitStream
<1>8. WitTrees'
  BY <1>1 DEF WitChain, WitTrees
<1>. QED
  BY <1>5, <1>7, <1>8 DEF WitChain

LEMMA WitChainFetch ==
  ASSUME WitTypes, WitChain, best \in Block, Wit!FetchBlock
  PROVE  WitChain'
<1> DEFINE next == Wit!NextHeight
           b == BlockAt(next)
<1>1. /\ UNCHANGED <<best, witPc, tree, witLive, witDisk, witCurrent, witGoal, witTo,
                     witPrior, witQueue>>
      /\ witTask = "fetch" /\ witFetched' = Append(witFetched, b)
      /\ witTask' = IF next = witGoal THEN "send" ELSE "fetch"
  BY SameChain DEF Wit!FetchBlock, Wit!chainVars, Wit!mainVars
<1>2. /\ witCurrent \in Nat /\ witGoal \in Nat /\ witTo \in Nat
      /\ witCurrent + Len(witFetched) < witGoal /\ witGoal <= witTo
      /\ witPc = "sync" /\ witFetched \in Seq(Block)
  BY <1>1 DEF WitChain, WitShape, WitTypes
<1>3. b \in ChainOf[best] /\ b \in Block /\ HeightOf[b] = next
  BY <1>1, WitNextAvailable, BlockAtHeight
<1>4. next = witCurrent + 1 + Len(witFetched) /\ Len(witFetched) \in Nat
  BY <1>2 DEF Wit!NextHeight
<1> HIDE DEF b, next
<1>5. /\ Len(witFetched') = Len(witFetched) + 1
      /\ \A i \in 1..Len(witFetched) : witFetched'[i] = witFetched[i]
      /\ witFetched'[Len(witFetched) + 1] = b
  BY <1>1, <1>2, <1>3
<1>6. ASSUME NEW i \in 1..Len(witFetched')
      PROVE  witFetched'[i] \in ChainOf[best] /\ HeightOf[witFetched'[i]] = witCurrent + i
  <2>1. CASE i \in 1..Len(witFetched)
    BY <2>1, <1>5 DEF WitChain, WitShape
  <2>2. CASE i = Len(witFetched) + 1
    BY <2>2, <1>2, <1>3, <1>4, <1>5
  <2>. QED
    BY <2>1, <2>2, <1>4, <1>5
<1>7. /\ witTask' \in {"fetch", "send"}
      /\ witCurrent + Len(witFetched') <= witGoal
      /\ witTask' = "fetch" => witCurrent + Len(witFetched') < witGoal
  BY <1>1, <1>2, <1>4, <1>5
<1>8. WitShape'
  BY <1>1, <1>2, <1>6, <1>7 DEF WitChain, WitShape
<1>9. WitDone' = WitDone
  BY <1>1 DEF WitDone
<1>10. WitStream'
  BY <1>1, <1>9 DEF WitChain, WitStream
<1>11. WitTrees'
  BY <1>1 DEF WitChain, WitTrees
<1>. QED
  BY <1>8, <1>10, <1>11 DEF WitChain

(* The size a block is handed on with is that of the tree before it. *)
LEMMA WitChainSend ==
  ASSUME WitTypes, WitChain, best \in Block, Wit!SendSync
  PROVE  WitChain'
<1> DEFINE b == Head(witFetched)
           e == Wit!NewBlock(b, witPrior)
<1>1. /\ UNCHANGED <<best, witPc, tree, witLive, witDisk, witGoal, witTo>>
      /\ witPc = "sync" /\ witTask = "send"
      /\ witQueue' = Append(witQueue, e) /\ witFetched' = Tail(witFetched)
      /\ witCurrent' = HeightOf[b] /\ witPrior' = Wit!TreeSizeAfter(b)
      /\ witTask' = IF Tail(witFetched) = <<>> THEN "poll" ELSE "send"
  BY DEF Wit!SendSync, Wit!HandOn, Wit!Send, Wit!chainVars, Wit!mainVars, Wit!Syncing
<1>2. witFetched \in Seq(Block) /\ witFetched # <<>>
  BY <1>1 DEF WitTypes
<1>3. /\ Len(witFetched) # 0 /\ b = witFetched[1] /\ 1 \in 1..Len(witFetched)
      /\ Len(witFetched) \in Nat
  BY <1>2
<1>4. /\ witCurrent \in Nat /\ witGoal \in Nat /\ witTo \in Nat
      /\ witCurrent + Len(witFetched) <= witGoal /\ witGoal <= witTo
  BY <1>1 DEF WitChain, WitShape
<1>5. HeightOf[b] = witCurrent + 1 /\ b \in ChainOf[best]
  BY <1>3 DEF WitChain, WitShape
<1>6. PICK S : witQueue \in Seq(WitEvent(S))
  BY DEF WitTypes
<1>7. /\ e.type = "NewBlock" /\ e.block = b /\ e.prior = witPrior
  BY DEF Wit!NewBlock
<1> HIDE DEF b, e
<1>8. /\ Len(witQueue) \in Nat /\ Len(witQueue') = Len(witQueue) + 1
      /\ \A i \in 1..Len(witQueue) : witQueue'[i] = witQueue[i]
      /\ witQueue'[Len(witQueue) + 1] = e
  <2>1. Len(witQueue) \in Nat /\ \E T : witQueue \in Seq(T)
    BY <1>6
  <2>. QED
    BY <2>1, <1>1
<1>9. /\ Len(witFetched') = Len(witFetched) - 1
      /\ \A i \in 1..Len(witFetched') : witFetched'[i] = witFetched[i + 1]
  BY <1>1, <1>2, <1>3
<1>10. ASSUME NEW i \in 1..Len(witFetched')
       PROVE  /\ witFetched'[i] \in ChainOf[best]
              /\ HeightOf[witFetched'[i]] = witCurrent' + i
  <2>1. i + 1 \in 1..Len(witFetched) /\ witCurrent + (i + 1) = witCurrent' + i
    BY <1>1, <1>3, <1>4, <1>5, <1>9
  <2>. QED
    BY <2>1, <1>9 DEF WitChain, WitShape
<1>11. /\ witCurrent' \in Nat /\ witCurrent' + Len(witFetched') = witCurrent + Len(witFetched)
       /\ witCurrent' <= witTo
  <2>1. witCurrent' = witCurrent + 1
    BY <1>1, <1>5
  <2>2. /\ witCurrent' + Len(witFetched') = witCurrent + Len(witFetched)
        /\ witCurrent' \in Nat
    BY <2>1, <1>3, <1>4, <1>9
  <2>3. Len(witFetched) >= 1
    BY <1>3
  <2>4. witCurrent + 1 <= witTo
    BY <2>3, <1>3, <1>4
  <2>. QED
    BY <2>1, <2>2, <2>4
<1>12. /\ witTask' \in {"poll", "send"} /\ (witTask' = "poll" => witFetched' = <<>>)
  BY <1>1
<1>13. WitShape'
  BY <1>1, <1>4, <1>10, <1>11, <1>12 DEF WitChain, WitShape
<1>14. WitDone' = WitDone /\ WitDone + (Len(witQueue) + 1) = witCurrent + 1
  BY <1>1, <1>4, <1>5, <1>8 DEF WitDone
<1>15. Carried(best, e, witCurrent + 1)
  <2>1. CASE witPrior = {}
    BY <2>1, <1>5, <1>7 DEF Carried
  <2>2. CASE \E c \in ChainOf[best] : /\ HeightOf[c] = witCurrent
                                      /\ witPrior = {TotalOf(Commitments)[c]}
    <3>1. PICK c \in ChainOf[best] : /\ HeightOf[c] = witCurrent
                                     /\ witPrior = {TotalOf(Commitments)[c]}
      BY <2>2
    <3>2. TotalOf(Commitments)[b] - Commitments[b] = TotalOf(Commitments)[c]
      BY <3>1, <1>5, TotalOfStep, WitConstants
    <3>. QED
      BY <3>1, <3>2, <1>5, <1>7 DEF Carried
  <2>3. SizeAt(best, witPrior, witCurrent)
    BY <1>1 DEF WitChain, WitStream
  <2>. QED
    BY <2>1, <2>2, <2>3 DEF SizeAt
<1>16. ASSUME NEW i \in 1..Len(witQueue')
       PROVE  Carried(best, witQueue'[i], WitDone + i)
  <2>1. CASE i \in 1..Len(witQueue)
    BY <2>1, <1>1, <1>8 DEF WitChain, WitStream
  <2>2. CASE i = Len(witQueue) + 1
    BY <2>2, <1>8, <1>14, <1>15
  <2>. QED
    BY <2>1, <2>2, <1>8
<1>17. SizeAt(best, witPrior', witCurrent')
  BY <1>1, <1>5, TotalSize
<1>18. WitStream'
  BY <1>1, <1>14, <1>16, <1>17 DEF WitChain, WitStream
<1>19. WitTrees'
  BY <1>1 DEF WitChain, WitTrees
<1>. QED
  BY <1>13, <1>18, <1>19 DEF WitChain

(* The block the tree takes in next fits. *)
LEMMA WitQueueHead ==
  ASSUME WitTypes, WitChain, best \in Block, witPc = "sync", witQueue # <<>>
  PROVE  LET b == Head(witQueue).block
         IN  /\ Wit!Fits(tree, Head(witQueue).prior)
             /\ b \in ChainOf[best] /\ HeightOf[b] = WitDone + 1
             /\ OnPlace(best, Wit!Appended(tree, b))
             /\ Wit!Appended(tree, b).records # <<>>
             /\ ReachesAlong(Commitments, Floor, Wit!Appended(tree, b), WitDone + 1,
                             ChainOf[best])
             /\ Wit!Latest(Wit!Appended(tree, b)) = WitDone + 1
             /\ Len(witQueue) \in Nat \ {0}
             /\ Len(Tail(witQueue)) = Len(witQueue) - 1
             /\ \A i \in 1..Len(Tail(witQueue)) : Tail(witQueue)[i] = witQueue[i + 1]
<1> DEFINE e == Head(witQueue)
<1>1. PICK S : witQueue \in Seq(WitEvent(S))
  BY DEF WitTypes
<1>2. /\ Len(witQueue) \in Nat \ {0} /\ e = witQueue[1] /\ 1 \in 1..Len(witQueue)
      /\ Len(Tail(witQueue)) = Len(witQueue) - 1
      /\ \A i \in 1..Len(Tail(witQueue)) : Tail(witQueue)[i] = witQueue[i + 1]
  BY <1>1
<1>3. Carried(best, e, WitDone + 1)
  BY <1>2 DEF WitChain, WitStream
<1> HIDE DEF e
<1>4. /\ OnPlace(best, tree) /\ WitDone \in Nat
      /\ ReachesAlong(Commitments, Floor, tree, WitDone, ChainOf[best])
  BY DEF WitChain, WitStream, WitTrees
<1>5. /\ e.block \in ChainOf[best] /\ HeightOf[e.block] = WitDone + 1
      /\ e.prior \subseteq {TotalOf(Commitments)[e.block] - Commitments[e.block]}
  BY <1>3 DEF Carried
<1>6. /\ \A size : size \subseteq {TotalOf(Commitments)[e.block] - Commitments[e.block]} =>
                     Wit!Fits(tree, size)
      /\ OnPlace(best, Wit!Appended(tree, e.block))
      /\ Wit!Appended(tree, e.block).records # <<>>
      /\ ReachesAlong(Commitments, Floor, Wit!Appended(tree, e.block), WitDone + 1,
                      ChainOf[best])
      /\ Wit!Latest(Wit!Appended(tree, e.block)) = WitDone + 1
  BY <1>4, <1>5, NextFits
<1>. QED
  BY <1>2, <1>5, <1>6 DEF e

LEMMA WitChainAppend ==
  ASSUME WitTypes, WitChain, best \in Block, Wit!AppendSynced
  PROVE  WitChain' /\ tree'.records # <<>>
<1> DEFINE b == Head(witQueue).block
<1>1. /\ UNCHANGED <<best, witPc, witLive, witDisk, witTask, witCurrent, witGoal, witTo,
                     witFetched, witPrior>>
      /\ witPc = "sync" /\ witQueue # <<>>
      /\ tree' = Wit!Appended(tree, b) /\ witQueue' = Tail(witQueue)
  BY DEF Wit!AppendSynced, Wit!chainVars, Wit!taskVars, Wit!Syncing
<1>2. /\ OnPlace(best, tree') /\ tree'.records # <<>>
      /\ ReachesAlong(Commitments, Floor, tree', WitDone + 1, ChainOf[best])
      /\ Wit!Latest(tree') = WitDone + 1
      /\ Len(witQueue) \in Nat \ {0} /\ Len(witQueue') = Len(witQueue) - 1
      /\ \A i \in 1..Len(witQueue') : witQueue'[i] = witQueue[i + 1]
      /\ b \in ChainOf[best] /\ HeightOf[b] = WitDone + 1
  BY <1>1, WitQueueHead
<1> HIDE DEF b
<1>3. witCurrent \in Nat /\ WitDone \in Nat
  BY <1>1 DEF WitChain, WitShape, WitStream
<1>4. WitDone' = WitDone + 1 /\ WitDone' \in Nat
  BY <1>1, <1>2, <1>3 DEF WitDone
<1>5. WitShape'
  BY <1>1 DEF WitChain, WitShape
<1>6. ASSUME NEW i \in 1..Len(witQueue')
      PROVE  Carried(best, witQueue'[i], WitDone' + i)
  <2>1. Len(witQueue) \in Nat /\ Len(witQueue') = Len(witQueue) - 1
    BY <1>2
  <2>2. i + 1 \in 1..Len(witQueue) /\ WitDone + (i + 1) = WitDone' + i
    BY <2>1, <1>3, <1>4
  <2>3. Carried(best, witQueue[i + 1], WitDone + (i + 1))
    BY <2>2, <1>1 DEF WitChain, WitStream
  <2>. QED
    BY <2>2, <2>3, <1>2
<1>7. ReachesDown(best, WitDone' + 1)
  <2>1. HeightOf[b] <= WitDone' + 1
    BY <1>2, <1>3, <1>4
  <2>. QED
    BY <2>1, <1>2 DEF ReachesDown
<1>8. SizeAt(best, witPrior, witCurrent)
  BY <1>1 DEF WitChain, WitStream
<1>9. WitStream'
  BY <1>1, <1>2, <1>4, <1>6, <1>7, <1>8 DEF WitStream
<1>10. WitTrees'
  BY <1>1, <1>2 DEF WitChain, WitTrees
<1>. QED
  BY <1>2, <1>5, <1>9, <1>10 DEF WitChain

(* The range is in: the tree ends where the range does, unless it starts   *)
(* at an offset and has no block yet.                                      *)
LEMMA WitChainRangeDone ==
  ASSUME WitChain, Wit!RangeDone
  PROVE  /\ WitChain'
         /\ tree.records # <<>> => Wit!Latest(tree) = witTo
<1>1. /\ UNCHANGED <<best, tree, witLive, witDisk, witTask, witCurrent, witGoal, witTo,
                     witFetched, witPrior, witQueue>>
      /\ witPc = "sync" /\ witPc' = "synced" /\ witQueue = <<>> /\ witTask = "idle"
  BY DEF Wit!RangeDone, Wit!chainVars, Wit!taskVars, Wit!Syncing
<1>2. /\ witCurrent = witTo /\ witCurrent \in Nat /\ witGoal \in Nat /\ witTo \in Nat
      /\ witFetched = <<>>
  BY <1>1 DEF WitChain, WitShape
<1>3. WitDone = witTo
  <2>1. Len(witQueue) = 0
    BY <1>1
  <2>. QED
    BY <2>1, <1>2 DEF WitDone
<1>4. /\ tree.records # <<>> => Wit!Latest(tree) = witTo
      /\ tree.records = <<>> => Wit!Unanchored(tree)
  <2>1. ~(witTo < witTo)
    BY <1>2
  <2>. QED
    BY <2>1, <1>1, <1>3 DEF WitChain, WitStream
<1>5. /\ OnPlace(best, tree) /\ OnPlace(best, witLive)
      /\ \A t \in witDisk : OnPlace(best, t) /\ t.records # <<>>
  BY DEF WitChain, WitTrees
<1>6. WitChain'
  BY <1>1, <1>2, <1>4, <1>5, WitChainRests
<1>. QED
  BY <1>4, <1>6

LEMMA WitChainGrows ==
  ASSUME WitChain, best \in Block, Grow, UNCHANGED witVars
  PROVE  WitChain'
<1>1. /\ best' \in Block /\ HeightOf[best] <= HeightOf[best']
      /\ ChainOf[best] \subseteq ChainOf[best']
      /\ \A l : ReachesDown(best, l) => ReachesDown(best', l)
  BY StretchGrows
<1>2. HeightOf[best] \in Nat /\ HeightOf[best'] \in Nat /\ witTo \in Nat /\ Floor \in Nat
  BY <1>1, HeightType, Constants DEF WitChain, WitShape
<1>3. UNCHANGED <<witPc, tree, witLive, witDisk, witTask, witCurrent, witGoal, witTo,
                  witFetched, witPrior, witQueue>>
  BY DEF witVars
<1>4. witTo <= HeightOf[best] => witTo <= HeightOf[best']
  BY <1>1, <1>2
<1>5. WitShape'
  BY <1>1, <1>3, <1>4 DEF WitChain, WitShape
<1>6. \A t : OnPlace(best, t) => OnPlace(best', t)
  BY <1>1, OnPlaceGrows
<1>7. WitTrees'
  BY <1>1, <1>3, <1>4, <1>6 DEF WitChain, WitTrees
<1>8. \A e, h : Carried(best, e, h) => Carried(best', e, h)
  BY <1>1 DEF Carried
<1>9. \A s, h : SizeAt(best, s, h) => SizeAt(best', s, h)
  BY <1>1 DEF SizeAt
<1>10. \A t, h : ReachesAlong(Commitments, Floor, t, h, ChainOf[best]) =>
                   ReachesAlong(Commitments, Floor, t, h, ChainOf[best'])
  BY <1>1 DEF ReachesAlong
<1>11. WitDone' = WitDone
  BY <1>3 DEF WitDone
<1>12. WitStream'
  BY <1>1, <1>3, <1>8, <1>9, <1>10, <1>11 DEF WitChain, WitStream
<1>. QED
  BY <1>5, <1>7, <1>12 DEF WitChain

-----------------------------------------------------------------------------
(* What disturbs the server is remembered *)

FaultTypes ==
  /\ failures \in Nat /\ refusals \in Nat /\ switches \in Nat
  /\ unanchored \in BOOLEAN

(* A step notes at most one fault of each kind, and forgets none. *)
NoneForgotten ==
  /\ failures' \in {failures, failures + 1}
  /\ refusals' \in {refusals, refusals + 1}
  /\ switches' \in {switches, switches + 1}
  /\ unanchored \in BOOLEAN => unanchored' \in BOOLEAN /\ (unanchored => unanchored')

LEMMA FaultsOfFailRun ==
  ASSUME FailRun, failures' \in {failures, failures + 1}
  PROVE  NoneForgotten
  BY DEF FailRun, NoneForgotten, chainVars

LEMMA FaultsOfRanges ==
  ASSUME \/ NfRangeStep /\ UNCHANGED witVars
         \/ WitRangeSteps /\ UNCHANGED nfVars,
         UNCHANGED refusals
  PROVE  NoneForgotten
<1>1. CASE NfRangeStep /\ UNCHANGED witVars
  <2>1. UNCHANGED unanchored
    BY <1>1 DEF witVars
  <2>2. failures' \in {failures, failures + 1}
    BY <1>1 DEF NfRangeStep, Nf!InsertSynced, Nf!RangeDone, Nf!PollSync, Nf!FetchBlock,
       Nf!BlockMissing, Nf!SendSync, Nf!HandOn, Nf!CallFails, Nf!faultVars
  <2>3. UNCHANGED switches
    BY <1>1 DEF NfRangeStep, Nf!InsertSynced, Nf!RangeDone, Nf!PollSync, Nf!FetchBlock,
       Nf!BlockMissing, Nf!SendSync, Nf!HandOn, Nf!CallFails, Nf!EndTask, Nf!chainVars
  <2>. QED
    BY <2>1, <2>2, <2>3 DEF NoneForgotten
<1>2. CASE WitRangeSteps /\ UNCHANGED nfVars
  <2>1. UNCHANGED unanchored
    BY <1>2 DEF WitRangeSteps, Wit!AppendSynced, Wit!RangeDone, Wit!PollSync, Wit!FetchBlock,
       Wit!BlockMissing, Wit!SendSync, Wit!HandOn, Wit!Send, Wit!CallFails, Wit!EndTask,
       Wit!faultVars
  <2>2. failures' \in {failures, failures + 1}
    BY <1>2 DEF WitRangeSteps, Wit!AppendSynced, Wit!RangeDone, Wit!PollSync, Wit!FetchBlock,
       Wit!BlockMissing, Wit!SendSync, Wit!HandOn, Wit!Send, Wit!CallFails, Wit!faultVars
  <2>3. UNCHANGED switches
    BY <1>2 DEF WitRangeSteps, Wit!AppendSynced, Wit!RangeDone, Wit!PollSync, Wit!FetchBlock,
       Wit!BlockMissing, Wit!SendSync, Wit!HandOn, Wit!Send, Wit!CallFails, Wit!EndTask,
       Wit!chainVars
  <2>. QED
    BY <2>1, <2>2, <2>3 DEF NoneForgotten
<1>. QED
  BY <1>1, <1>2

LEMMA FaultsOfPreparing ==
  ASSUME NfPrepare \/ WitPrepare
  PROVE  NoneForgotten
  BY DEF NfPrepare, WitPrepare, Nf!Start, Nf!Backfill, Wit!Start, Wit!ReadRoots,
     Wit!ReadCompletingBlock, Nf!chainVars, Wit!chainVars, Nf!faultVars, Wit!faultVars,
     witVars, NoneForgotten

LEMMA FaultsOfSynced ==
  ASSUME NfSynced \/ WitSynced
  PROVE  NoneForgotten
<1>1. UNCHANGED <<failures, refusals, switches>>
  BY DEF NfSynced, WitSynced, chainVars
<1>2. unanchored' = unanchored \/ unanchored' = (unanchored \/ Wit!Unanchored(tree))
  BY DEF NfSynced, WitSynced, witVars
<1>3. unanchored \in BOOLEAN => unanchored' \in BOOLEAN /\ (unanchored => unanchored')
  BY <1>2
<1>. QED
  BY <1>1, <1>3 DEF NoneForgotten

LEMMA FaultsOfWitFails ==
  ASSUME WitFails
  PROVE  NoneForgotten
<1>1. UNCHANGED failures
  BY DEF WitFails
<1>2. CASE FailRun
  BY <1>1, <1>2, FaultsOfFailRun
<1>3. CASE ~FailRun
  BY <1>1, <1>3 DEF WitFails, chainVars, NoneForgotten
<1>. QED
  BY <1>2, <1>3

LEMMA FaultsOfApplying ==
  ASSUME NEW b \in Block, Extend(b) \/ Reorg(b)
  PROVE  NoneForgotten
<1>1. /\ UNCHANGED <<failures, switches, unanchored>>
  BY DEF Extend, Reorg, Applied, chainVars
<1>2. refusals' \in {refusals, refusals + 1}
  BY DEF Extend, Reorg, InsertAndEvict, Insert
<1>. QED
  BY <1>1, <1>2 DEF NoneForgotten

LEMMA FaultsOfTheLoop ==
  ASSUME \/ Compare \/ ServeAlone \/ CaughtUp \/ EnterFollow \/ Poll \/ FetchBlock
         \/ PublishNullifiers \/ PublishWitnesses \/ SaveNullifiers \/ SaveWitnesses
  PROVE  UNCHANGED <<failures, refusals, switches, unanchored>>
<1>1. CASE Compare
  BY <1>1 DEF Compare, chainVars, witVars
<1>2. CASE ServeAlone \/ CaughtUp \/ EnterFollow
  BY <1>2 DEF ServeAlone, CaughtUp, EnterFollow, Forget, chainVars, witVars
<1>3. CASE Poll \/ FetchBlock
  BY <1>3 DEF Poll, FetchBlock, chainVars, witVars
<1>4. CASE PublishNullifiers \/ PublishWitnesses \/ SaveNullifiers \/ SaveWitnesses
  BY <1>4 DEF PublishNullifiers, PublishWitnesses, SaveNullifiers, SaveWitnesses, chainVars,
     witVars
<1>. QED
  BY <1>1, <1>2, <1>3, <1>4

LEMMA FaultsNext ==
  ASSUME [Next]_vars
  PROVE  NoneForgotten
<1>1. CASE UNCHANGED vars \/ PollNothingNew
  BY <1>1 DEF PollNothingNew, vars, chainVars, witVars, NoneForgotten
<1>2. CASE NfSync \/ WitSync
  BY <1>2, FaultsOfPreparing, FaultsOfSynced, FaultsOfWitFails DEF NfSync, WitSync
<1>3. CASE SyncStep \/ CallFailsInSync
  <2>1. /\ (NfRangeStep /\ UNCHANGED witVars) \/ (WitRangeSteps /\ UNCHANGED nfVars)
        /\ UNCHANGED refusals
    BY <1>3 DEF SyncStep, RangeStep, CallFailsInSync, NfRangeStep, WitRangeSteps
  <2>. QED
    BY <2>1, FaultsOfRanges
<1>4. CASE BothReturned \/ BlockMissing \/ CallFails \/ Crash
  <2>1. FailRun /\ failures' \in {failures, failures + 1}
    BY <1>4 DEF BothReturned, BlockMissing, CallFails, Crash
  <2>. QED
    BY <2>1, FaultsOfFailRun
<1>5. CASE ApplyBlock
  BY <1>5, FaultsOfApplying DEF ApplyBlock
<1>6. CASE \/ Compare \/ ServeAlone \/ CaughtUp \/ EnterFollow \/ Poll \/ FetchBlock
           \/ PublishNullifiers \/ PublishWitnesses \/ SaveNullifiers \/ SaveWitnesses
  BY <1>6, FaultsOfTheLoop DEF NoneForgotten
<1>7. CASE Environment
  BY <1>7 DEF Environment, Grow, Switch, witVars, NoneForgotten
<1>. QED
  BY <1>1, <1>2, <1>3, <1>4, <1>5, <1>6, <1>7 DEF Next, ServerStep, LoopStep, Disturbance

(* So a server that is undisturbed has been so all the time. *)
LEMMA UndisturbedBefore ==
  ASSUME FaultTypes, [Next]_vars
  PROVE  /\ FaultTypes'
         /\ Undisturbed' => /\ Undisturbed
                            /\ UNCHANGED <<failures, refusals, switches, unanchored>>
<1>1. NoneForgotten
  BY FaultsNext
<1>2. /\ failures' \in Nat /\ refusals' \in Nat /\ switches' \in Nat
      /\ failures' = 0 => failures = 0
      /\ refusals' = 0 => refusals = 0
      /\ switches' = 0 => switches = 0
  BY <1>1 DEF FaultTypes, NoneForgotten
<1>3. unanchored \in BOOLEAN /\ unanchored' \in BOOLEAN /\ (unanchored => unanchored')
  BY <1>1 DEF FaultTypes, NoneForgotten
<1>4. FaultTypes'
  BY <1>2, <1>3 DEF FaultTypes
<1>5. ASSUME Undisturbed'
      PROVE  Undisturbed /\ UNCHANGED <<failures, refusals, switches, unanchored>>
  <2>1. failures' = 0 /\ refusals' = 0 /\ switches' = 0 /\ ~unanchored'
    BY <1>5 DEF Undisturbed
  <2>2. failures = 0 /\ refusals = 0 /\ switches = 0
    BY <2>1, <1>2
  <2>3. ~unanchored /\ unanchored' = unanchored
    BY <2>1, <1>3
  <2>. QED
    BY <2>1, <2>2, <2>3 DEF Undisturbed
<1>. QED
  BY <1>4, <1>5

-----------------------------------------------------------------------------
(* What run knows of both *)

(* While one of the two catches up, it is on its way to the other.         *)
CatchingUp == mode = "catchup" =>
  /\ tree.records # <<>>
  /\ nfPc # "saved" => /\ nfTo = Wit!Latest(tree)
                       /\ nfPc = "synced" => Nf!Latest(table) = nfTo
  /\ nfPc = "saved" => /\ witPc \in {"sync", "synced"}
                       /\ witTo = Nf!Latest(table)
                       /\ witPc = "synced" => Wit!Latest(tree) = witTo

(* Then both are at rest, and they have met when the loop is entered.      *)
Meeting == HasNullifier /\ HasWitness =>
  /\ mode \notin {"sync", "failing", "catchup"} => witPc = "saved"
  /\ mode = "enter" => Wit!Latest(tree) = Nf!Latest(table)

(* In the loop they stay at its height.                                    *)
Level == Following =>
  /\ HasNullifier => /\ height = Nf!Latest(table)
                     /\ \A i \in 1..Len(fetched) : fetched[i] \in ChainOf[best]
  /\ HasWitness => height = Wit!Latest(tree)

LoopChain == CatchingUp /\ Meeting /\ Level

(* A subsystem that is not built stays down.                               *)
Built == HasNullifier /\ ~HasWitness => witPc = "down"

(* What holds of a server that is not disturbed.  Without a table the loop *)
(* starts from a hash of zeros, and nothing is claimed of the tree.        *)
Calm ==
  /\ HeightOf[best] >= Floor
  /\ NfChain
  /\ HasNullifier => WitChain
  /\ Built
  /\ LoopChain

ChainInv == FaultTypes /\ (Undisturbed => Calm)

LEMMA LoopBegins ==
  ASSUME mode' \in {"sync", "failing"}
  PROVE  LoopChain'
  BY DEF LoopChain, CatchingUp, Meeting, Level, Following

LEMMA BuiltStays ==
  ASSUME Built, UNCHANGED features, witPc' \in {witPc, "down"}
  PROVE  Built'
  BY DEF Built, HasNullifier, HasWitness

LEMMA ShapedLatestAppended ==
  ASSUME NEW t, Shaped(t), NEW b \in Block
  PROVE  Wit!Latest(Wit!Appended(t, b)) = HeightOf[b]
<1>1. PICK O, S : t \in [offset : O, records : Seq(Record(S))]
  BY DEF Shaped
<1> DEFINE r == Wit!BlockRecord(b, Commitments[b])
           s == Append(t.records, r)
<1>2. r.block = b
  BY DEF Wit!BlockRecord
<1>3. t.records \in Seq(Record(S)) /\ Len(t.records) \in Nat
  BY <1>1
<1> HIDE DEF r
<1>4. Len(s) = Len(t.records) + 1 /\ s[Len(t.records) + 1] = r
  <2>1. \E T : t.records \in Seq(T)
    BY <1>3
  <2>. QED
    BY <2>1, <1>3
<1>5. Wit!Appended(t, b).records = s
  BY <1>1 DEF Wit!Appended, r
<1> HIDE DEF s
<1>6. Len(s) # 0
  BY <1>3, <1>4
<1>7. s # <<>> /\ s[Len(s)].block = b
  BY <1>2, <1>4, <1>6
<1>. QED
  BY <1>5, <1>7 DEF Wit!Latest, Wit!Last

LEMMA CalmInit ==
  ASSUME Init
  PROVE  ChainInv
<1>1. /\ best \in FirstTip /\ switches = 0 /\ nfPc = "down" /\ nfLive = {} /\ nfDisk = {}
      /\ nfFetched = <<>> /\ nfQueue = <<>> /\ failures = 0
  BY DEF Init, Nf!Init, Nf!ChainInit
<1>2. /\ witPc = "down" /\ tree = Wit!NoTree /\ witLive = Wit!NoTree /\ witDisk = {}
      /\ witTask = "idle" /\ witCurrent = 0 /\ witGoal = 0 /\ witTo = 0
      /\ witFetched = <<>> /\ witQueue = <<>> /\ unanchored = FALSE
      /\ mode = "sync" /\ refusals = 0
  BY DEF Init
<1>3. FaultTypes
  BY <1>1, <1>2 DEF FaultTypes
<1>4. HeightOf[best] >= Floor
  BY <1>1, FloorAssumption
<1>5. NfChain
  <2>1. Len(nfFetched) = 0 /\ Len(nfQueue) = 0
    BY <1>1
  <2>2. NfStream /\ NfForward /\ NfBack /\ NfRest
    BY <2>1, <1>1 DEF NfStream, NfForward, NfBack, NfRest, Nf!Syncing
  <2>. QED
    BY <2>2 DEF NfChain
<1>6. WitChain
  <2>1. Len(witFetched) = 0
    BY <1>2
  <2>2. WitShape /\ WitStream
    BY <2>1, <1>2 DEF WitShape, WitStream
  <2>3. OnPlace(best, Wit!NoTree)
    BY WitNoTree, BareOnPlace
  <2>4. WitTrees
    BY <2>3, <1>2 DEF WitTrees
  <2>. QED
    BY <2>2, <2>4 DEF WitChain
<1>7. LoopChain
  BY <1>2 DEF LoopChain, CatchingUp, Meeting, Level, Following
<1>. QED
  BY <1>2, <1>3, <1>4, <1>5, <1>6, <1>7 DEF ChainInv, Calm, Built

LEMMA CalmFailRun ==
  ASSUME Calm, FailRun, UNCHANGED features
  PROVE  Calm'
<1>1. /\ nfPc' = "down" /\ nfLive' = {} /\ nfFetched' = <<>> /\ nfQueue' = <<>>
      /\ mode' = "sync" /\ UNCHANGED <<best, nfDisk, features>>
  BY DEF FailRun, chainVars
<1>2. NfChain'
  BY <1>1, NfChainDown DEF Calm
<1>3. HasNullifier' => WitChain'
  BY <1>1, WitChainFailRun DEF Calm, HasNullifier
<1>4. LoopChain'
  BY <1>1, LoopBegins
<1>5. Built'
  BY BuiltStays DEF FailRun, Calm
<1>. QED
  BY <1>1, <1>2, <1>3, <1>4, <1>5 DEF Calm

LEMMA CalmPrepares ==
  ASSUME IInv, Calm, NfPrepare \/ WitPrepare, UNCHANGED features
  PROVE  Calm'
<1>1. /\ best \in Block /\ NfBase /\ HeightOf[best] >= Floor /\ NfChain
      /\ HasNullifier => WitChain
  BY DEF IInv, NfBase, NfTypes, Calm
<1>2. CASE NfPrepare
  <2>1. /\ mode \in {"sync", "failing"} /\ (Nf!Start \/ Nf!Backfill)
        /\ UNCHANGED <<witVars, mode>>
    BY <1>2 DEF NfPrepare
  <2>2. NfChain'
    BY <1>1, <2>1, NfChainStart, NfChainBackfill
  <2>3. UNCHANGED best
    BY <2>1 DEF Nf!Start, Nf!Backfill, Nf!chainVars
  <2>4. HasNullifier' => WitChain'
    BY <1>1, <2>1, <2>3, WitChainStays DEF witVars, HasNullifier
  <2>5. LoopChain'
    BY <2>1, LoopBegins
  <2>6. Built'
    BY <2>1, BuiltStays DEF Calm, witVars
  <2>. QED
    BY <1>1, <2>2, <2>3, <2>4, <2>5, <2>6 DEF Calm
<1>3. CASE WitPrepare
  <2>1. /\ mode = "sync" /\ HasWitness /\ (Wit!Start \/ Wit!ReadRoots \/ Wit!ReadCompletingBlock)
        /\ UNCHANGED <<nfVars, mode>>
    BY <1>3 DEF WitPrepare
  <2>2. UNCHANGED best
    BY <2>1 DEF Wit!Start, Wit!ReadRoots, Wit!ReadCompletingBlock, Wit!chainVars
  <2>3. NfChain'
    BY <1>1, <2>1, <2>2, NfChainStays DEF nfVars, SameStage
  <2>4. HasNullifier' => WitChain'
    BY <1>1, <2>1, WitChainStart, WitChainRoots, WitChainWindow DEF HasNullifier
  <2>5. LoopChain'
    BY <2>1, LoopBegins
  <2>6. Built'
    BY <2>1 DEF Built, HasWitness
  <2>. QED
    BY <1>1, <2>2, <2>3, <2>4, <2>5, <2>6 DEF Calm
<1>. QED
  BY <1>2, <1>3

LEMMA CalmSynced ==
  ASSUME IInv, Calm, Undisturbed', NfSynced \/ WitSynced, UNCHANGED features
  PROVE  Calm'
<1>1. /\ best \in Block /\ NfBase /\ HeightOf[best] >= Floor /\ NfChain
      /\ HasNullifier => WitChain
  BY DEF IInv, NfBase, NfTypes, Calm
<1>2. CASE NfSynced
  <2>1. /\ mode \in {"sync", "failing"} /\ nfPc = "synced" /\ nfPc' = "saved"
        /\ table' = Nf!Evicted(table) /\ nfDisk' = {table'} /\ nfLive' = table'
        /\ UNCHANGED <<best, nfFetched, nfQueue, witVars, mode>>
    BY <1>2 DEF NfSynced, chainVars
  <2>2. Stretch(best, table')
    BY <1>1, <2>1, RestIsStretch
  <2>3. NfChain'
    BY <1>1, <2>1, <2>2, NfChainRests
  <2>4. HasNullifier' => WitChain'
    BY <1>1, <2>1, WitChainStays DEF witVars, HasNullifier
  <2>5. LoopChain'
    BY <2>1, LoopBegins
  <2>6. Built'
    BY <2>1, BuiltStays DEF Calm, witVars
  <2>. QED
    BY <1>1, <2>1, <2>3, <2>4, <2>5, <2>6 DEF Calm
<1>3. CASE WitSynced
  <2>1. /\ mode = "sync" /\ witPc = "synced" /\ witDisk' = {tree} /\ witLive' = tree
        /\ witPc' = "saved" /\ unanchored' = (unanchored \/ Wit!Unanchored(tree))
        /\ UNCHANGED <<best, nfVars, mode, tree, witTask, witCurrent, witGoal, witTo,
                       witFetched, witQueue>>
    BY <1>3 DEF WitSynced, chainVars
  <2>2. NfChain'
    BY <1>1, <2>1, NfChainStays DEF nfVars, SameStage
  <2>3. ASSUME HasNullifier
        PROVE  WitChain'
    <3>1. WitChain
      BY <1>1, <2>3
    <3>2. ~Wit!Unanchored(tree)
      BY <2>1 DEF Undisturbed
    <3>3. OnPlace(best, tree) /\ tree.records # <<>>
      BY <3>1, <3>2, <2>1 DEF WitChain, WitTrees
    <3>4. /\ witTask = "idle" /\ witFetched = <<>> /\ witQueue = <<>>
          /\ witCurrent \in Nat /\ witGoal \in Nat /\ witTo \in Nat
      BY <3>1, <2>1 DEF WitChain, WitShape
    <3>. QED
      BY <3>1, <3>3, <3>4, <2>1, WitChainRests
  <2>4. LoopChain'
    BY <2>1, LoopBegins
  <2>5. Built'
    BY <2>1 DEF Calm, Built, HasNullifier, HasWitness
  <2>. QED
    BY <1>1, <2>1, <2>2, <2>3, <2>4, <2>5 DEF Calm, HasNullifier
<1>. QED
  BY <1>2, <1>3

(* The tree always takes in the block it is given. *)
LEMMA CalmWitFails ==
  ASSUME IInv, Calm, WitFails, UNCHANGED features
  PROVE  Calm'
<1>1. best \in Block /\ WitTypes /\ (HasNullifier => WitChain)
  BY DEF IInv, NfBase, NfTypes, Calm
<1>2. CASE HasNullifier
  <2>1. WitChain
    BY <1>1, <1>2
  <2>2. ~(witPc = "window" /\ ~Available(witCurrent))
    BY <1>1, <2>1, WitWindowAvailable
  <2>3. ~(witPc = "sync" /\ witQueue # <<>> /\ ~Wit!Fits(tree, Head(witQueue).prior))
    BY <1>1, <2>1, WitQueueHead
  <2>. QED
    BY <2>2, <2>3 DEF WitFails
<1>3. CASE ~HasNullifier
  <2>1. FailRun
    BY <1>3 DEF WitFails
  <2>. QED
    BY <2>1, CalmFailRun
<1>. QED
  BY <1>2, <1>3

-----------------------------------------------------------------------------
(* Syncing *)

LEMMA CalmNfRangeStep ==
  ASSUME IInv, Calm, failures \in Nat, NfRangeStep,
         UNCHANGED <<failures, witVars, mode, features>>,
         mode \in {"sync", "failing", "catchup"}
  PROVE  Calm'
<1>1. /\ best \in Block /\ NfBase /\ HeightOf[best] >= Floor /\ NfChain
      /\ HasNullifier => WitChain
  BY DEF IInv, NfBase, NfTypes, Calm
<1>2. ~Nf!BlockMissing
  BY <1>1, NfNextAvailable, SameChain DEF Nf!BlockMissing
<1>3. ~Nf!CallFails
  BY DEF Nf!CallFails
<1>4. \/ Nf!InsertSynced \/ Nf!RangeDone \/ Nf!PollSync \/ Nf!FetchBlock \/ Nf!SendSync
  BY <1>2, <1>3 DEF NfRangeStep
<1>5. SameStage
  BY DEF SameStage
<1>6. NfChain'
  BY <1>1, <1>4, <1>5, NfChainInsert, NfChainRangeDone, NfChainPoll, NfChainFetch, NfChainSend
<1>7. UNCHANGED best
  BY <1>4 DEF Nf!InsertSynced, Nf!RangeDone, Nf!PollSync, Nf!FetchBlock, Nf!SendSync, Nf!HandOn,
     Nf!chainVars
<1>8. HasNullifier' => WitChain'
  BY <1>1, <1>7, WitChainStays DEF witVars, HasNullifier
<1>9. LoopChain'
  <2>1. CASE mode \in {"sync", "failing"}
    BY <2>1, LoopBegins
  <2>2. CASE mode = "catchup"
    <3>1. Nf!Syncing
      <4>1. CASE Nf!FetchBlock
        BY <4>1, <1>1, NfNextAvailable DEF Nf!FetchBlock
      <4>2. CASE ~Nf!FetchBlock
        BY <4>2, <1>4 DEF Nf!InsertSynced, Nf!RangeDone, Nf!PollSync, Nf!SendSync
      <4>. QED
        BY <4>1, <4>2
    <3>2. nfPc = "sync" /\ witPc = "saved"
      BY <2>2, <3>1 DEF IInv, ModesInv, Nf!Syncing
    <3>3. tree.records # <<>> /\ nfTo = Wit!Latest(tree)
      BY <2>2, <3>2 DEF Calm, LoopChain, CatchingUp
    <3>4. UNCHANGED <<nfTo, tree>>
      BY <1>4 DEF Nf!InsertSynced, Nf!RangeDone, Nf!PollSync, Nf!FetchBlock, Nf!SendSync,
         Nf!HandOn, Nf!taskVars, witVars
    <3>5. CASE Nf!RangeDone
      <4>1. Nf!Latest(table) = nfTo
        BY <3>2, <3>5, <1>1, <1>5, NfChainRangeDone
      <4>2. nfPc' = "synced" /\ UNCHANGED table
        BY <3>5 DEF Nf!RangeDone
      <4>. QED
        BY <2>2, <3>3, <3>4, <4>1, <4>2
        DEF LoopChain, CatchingUp, Meeting, Level, Following
    <3>6. CASE ~Nf!RangeDone
      <4>1. nfPc' = nfPc
        BY <3>6, <1>4 DEF Nf!InsertSynced, Nf!PollSync, Nf!FetchBlock, Nf!SendSync, Nf!HandOn,
           Nf!mainVars
      <4>. QED
        BY <2>2, <3>2, <3>3, <3>4, <4>1 DEF LoopChain, CatchingUp, Meeting, Level, Following
    <3>. QED
      BY <3>5, <3>6
  <2>. QED
    BY <2>1, <2>2
<1>10. Built'
  BY BuiltStays DEF Calm, witVars
<1>. QED
  BY <1>1, <1>6, <1>7, <1>8, <1>9, <1>10 DEF Calm

LEMMA CalmWitRangeStep ==
  ASSUME IInv, Calm, failures \in Nat, WitRangeSteps,
         UNCHANGED <<failures, nfVars, mode, features>>,
         mode \in {"sync", "failing", "catchup"}
  PROVE  Calm'
<1>1. /\ best \in Block /\ NfBase /\ WitTypes /\ HeightOf[best] >= Floor /\ NfChain
      /\ HasNullifier => WitChain
  BY DEF IInv, NfBase, NfTypes, Calm
<1>2. UNCHANGED best
  BY <1>1, WitRangeStepInv
<1>3. NfChain'
  BY <1>1, <1>2, NfChainStays DEF nfVars, SameStage
<1>4. CASE ~HasNullifier
  <2>1. mode \in {"sync", "failing"}
    BY <1>4 DEF IInv, ModesInv
  <2>. QED
    BY <1>1, <1>2, <1>3, <1>4, <2>1, LoopBegins DEF Calm, Built, HasNullifier
<1>5. CASE HasNullifier
  <2>0. WitChain
    BY <1>1, <1>5
  <2>1. ~Wit!BlockMissing
    BY <1>1, <2>0, WitNextAvailable, SameChain DEF Wit!BlockMissing
  <2>2. ~Wit!CallFails
    BY DEF Wit!CallFails
  <2>3. \/ Wit!AppendSynced \/ Wit!RangeDone \/ Wit!PollSync \/ Wit!FetchBlock \/ Wit!SendSync
    BY <2>1, <2>2 DEF WitRangeSteps
  <2>4. WitChain'
    BY <1>1, <2>0, <2>3, WitChainAppend, WitChainRangeDone, WitChainPoll, WitChainFetch,
       WitChainSend
  <2>5. witPc = "sync"
    <3>1. CASE Wit!FetchBlock
      BY <3>1, <1>1, <2>0, WitNextAvailable DEF Wit!FetchBlock
    <3>2. CASE ~Wit!FetchBlock
      BY <3>2, <2>3 DEF Wit!AppendSynced, Wit!RangeDone, Wit!PollSync, Wit!SendSync, Wit!Syncing
    <3>. QED
      BY <3>1, <3>2
  <2>6. Built'
    BY <1>5, <2>5 DEF Calm, Built, HasNullifier, HasWitness
  <2>7. LoopChain'
    <3>1. CASE mode \in {"sync", "failing"}
      BY <3>1, LoopBegins
    <3>2. CASE mode = "catchup"
      <4>2. nfPc = "saved"
        BY <3>2, <2>5 DEF IInv, ModesInv
      <4>3. tree.records # <<>> /\ witTo = Nf!Latest(table)
        BY <3>2, <4>2 DEF Calm, LoopChain, CatchingUp
      <4>4. UNCHANGED <<witTo, table, nfPc>>
        BY <2>3 DEF Wit!AppendSynced, Wit!RangeDone, Wit!PollSync, Wit!FetchBlock, Wit!SendSync,
           Wit!HandOn, Wit!Send, Wit!taskVars, nfVars
      <4>5. CASE Wit!RangeDone
        <5>1. Wit!Latest(tree) = witTo
          BY <4>3, <4>5, <2>0, WitChainRangeDone
        <5>2. witPc' = "synced" /\ UNCHANGED tree
          BY <4>5 DEF Wit!RangeDone
        <5>. QED
          BY <3>2, <4>2, <4>3, <4>4, <5>1, <5>2
          DEF LoopChain, CatchingUp, Meeting, Level, Following
      <4>6. CASE ~Wit!RangeDone
        <5>1. witPc' = witPc
          BY <4>6, <2>3 DEF Wit!AppendSynced, Wit!PollSync, Wit!FetchBlock, Wit!SendSync,
             Wit!HandOn, Wit!Send, Wit!mainVars
        <5>2. tree'.records # <<>>
          <6>1. CASE Wit!AppendSynced
            BY <6>1, <1>1, <2>0, WitChainAppend
          <6>2. CASE ~Wit!AppendSynced
            <7>1. UNCHANGED tree
              BY <6>2, <4>6, <2>3 DEF Wit!PollSync, Wit!FetchBlock, Wit!SendSync, Wit!HandOn,
                 Wit!Send, Wit!mainVars
            <7>. QED
              BY <7>1, <4>3
          <6>. QED
            BY <6>1, <6>2
        <5>. QED
          BY <3>2, <2>5, <4>2, <4>3, <4>4, <5>1, <5>2
          DEF LoopChain, CatchingUp, Meeting, Level, Following
      <4>. QED
        BY <4>5, <4>6
    <3>. QED
      BY <3>1, <3>2
  <2>. QED
    BY <1>1, <1>2, <1>3, <2>4, <2>6, <2>7 DEF Calm
<1>. QED
  BY <1>4, <1>5

LEMMA CalmSyncStep ==
  ASSUME IInv, Calm, failures \in Nat, SyncStep \/ CallFailsInSync, UNCHANGED <<failures, features>>
  PROVE  Calm'
<1>1. /\ mode \in {"sync", "failing", "catchup"} /\ UNCHANGED mode
      /\ (NfRangeStep /\ UNCHANGED witVars) \/ (WitRangeSteps /\ UNCHANGED nfVars)
  BY DEF SyncStep, RangeStep, CallFailsInSync, NfRangeStep, WitRangeSteps
<1>2. CASE NfRangeStep /\ UNCHANGED witVars
  BY <1>1, <1>2, CalmNfRangeStep
<1>3. CASE WitRangeSteps /\ UNCHANGED nfVars
  BY <1>1, <1>3, CalmWitRangeStep
<1>. QED
  BY <1>1, <1>2, <1>3

-----------------------------------------------------------------------------
(* Meeting *)

LEMMA CalmCompare ==
  ASSUME IInv, Calm, Compare, UNCHANGED features
  PROVE  Calm'
<1>1. /\ best \in Block /\ NfBase /\ HeightOf[best] >= Floor /\ NfChain
      /\ HasNullifier => WitChain
  BY DEF IInv, NfBase, NfTypes, Calm
<1>2. /\ mode = "sync" /\ nfPc = "saved" /\ witPc = "saved" /\ UNCHANGED <<best, features>>
  BY DEF Compare, chainVars
<1>3. HasNullifier /\ HasNullifier' /\ WitChain /\ Built'
  BY <1>1, <1>2 DEF IInv, ModesInv, Calm, Built, HasNullifier, HasWitness
<1>4. OnPlace(best, tree) /\ tree.records # <<>>
  BY <1>2, <1>3 DEF WitChain, WitTrees
<1>5. Wit!Latest(tree) \in Nat /\ Wit!Latest(tree) <= HeightOf[best]
  BY <1>1, <1>4, OnPlaceLatest
<1>6. Nf!Latest(table) \in Nat /\ Nf!Latest(table) <= HeightOf[best]
  BY <1>1, <1>2, RestIsStretch
<1>7. CASE /\ Behind(Nf!Latest(table), Wit!Latest(tree))
           /\ Nf!SyncRange(CatchUpStart(Nf!Latest(table)), Wit!Latest(tree), "sync")
           /\ mode' = "catchup"
           /\ UNCHANGED witVars
           /\ UNCHANGED <<nfFresh, table, nfBackfillEnd, nfLive, nfDisk, nfQueue, swallowed>>
  <2>1. Nf!Latest(table) < Wit!Latest(tree)
    BY <1>7 DEF Behind
  <2>2. NfChain' /\ nfPc' = "sync" /\ nfTo' = Wit!Latest(tree)
    BY <1>1, <1>2, <1>5, <1>7, <2>1, NfChainCatchUp
  <2>3. WitChain'
    BY <1>2, <1>3, <1>7, WitChainStays DEF witVars
  <2>4. LoopChain'
    <3>1. UNCHANGED tree
      BY <1>7 DEF witVars
    <3>. QED
      BY <1>4, <1>7, <2>2, <3>1 DEF LoopChain, CatchingUp, Meeting, Level, Following
  <2>. QED
    BY <1>1, <1>2, <1>3, <2>2, <2>3, <2>4 DEF Calm
<1>8. CASE /\ Behind(Wit!Latest(tree), Nf!Latest(table))
           /\ Wit!SyncRange(CatchUpStart(Wit!Latest(tree)), Nf!Latest(table),
                            Wit!NoSizeIfZero(Wit!Size(tree)))
           /\ mode' = "catchup"
           /\ UNCHANGED nfVars
           /\ UNCHANGED <<tree, witLive, witDisk, witQueue, unanchored>>
  <2>1. Wit!Latest(tree) < Nf!Latest(table)
    BY <1>8 DEF Behind
  <2>2. /\ tree' = tree
        /\ Wit!SyncRange(Wit!Latest(tree') + 1, Nf!Latest(table),
                         Wit!NoSizeIfZero(Wit!Size(tree')))
    BY <1>8 DEF CatchUpStart
  <2>3. OnPlace(best, tree') /\ tree'.records # <<>> /\ Wit!Latest(tree') < Nf!Latest(table)
    BY <1>4, <2>1, <2>2
  <2>4. WitChain' /\ witTo' = Nf!Latest(table) /\ witPc' = "sync"
    BY <1>1, <1>2, <1>3, <1>6, <1>8, <2>2, <2>3, WitChainResumes
  <2>5. NfChain'
    BY <1>1, <1>2, <1>8, NfChainStays DEF nfVars, SameStage
  <2>6. LoopChain'
    <3>1. UNCHANGED table /\ nfPc' = "saved"
      BY <1>2, <1>8 DEF nfVars
    <3>. QED
      BY <1>8, <2>3, <2>4, <3>1 DEF LoopChain, CatchingUp, Meeting, Level, Following
  <2>. QED
    BY <1>1, <1>2, <1>3, <2>4, <2>5, <2>6 DEF Calm
<1>9. CASE /\ ~Behind(Nf!Latest(table), Wit!Latest(tree))
           /\ ~Behind(Wit!Latest(tree), Nf!Latest(table))
           /\ mode' = "enter"
           /\ UNCHANGED <<nfVars, witVars, tracker>>
  <2>1. Nf!Latest(table) = Wit!Latest(tree)
    BY <1>5, <1>6, <1>9 DEF Behind
  <2>2. NfChain'
    BY <1>1, <1>2, <1>9, NfChainStays DEF nfVars, SameStage
  <2>3. WitChain'
    BY <1>2, <1>3, <1>9, WitChainStays DEF witVars
  <2>4. LoopChain'
    <3>1. UNCHANGED <<table, tree>> /\ witPc' = "saved"
      BY <1>2, <1>9 DEF nfVars, witVars
    <3>. QED
      BY <1>9, <2>1, <3>1 DEF LoopChain, CatchingUp, Meeting, Level, Following
  <2>. QED
    BY <1>1, <1>2, <1>3, <2>2, <2>3, <2>4 DEF Calm
<1>. QED
  BY <1>7, <1>8, <1>9 DEF Compare

LEMMA CalmServeAlone ==
  ASSUME IInv, Calm, ServeAlone, UNCHANGED features
  PROVE  Calm'
<1>1. /\ best \in Block /\ NfBase /\ HeightOf[best] >= Floor /\ NfChain
      /\ HasNullifier => WitChain
  BY DEF IInv, NfBase, NfTypes, Calm
<1>2. /\ mode = "sync" /\ mode' = "enter" /\ ~(HasNullifier /\ HasWitness)
      /\ UNCHANGED <<best, nfVars, witVars, features>>
  BY DEF ServeAlone, chainVars
<1>3. NfChain'
  BY <1>1, <1>2, NfChainStays DEF nfVars, SameStage
<1>4. HasNullifier' => WitChain'
  BY <1>1, <1>2, WitChainStays DEF witVars, HasNullifier
<1>5. LoopChain'
  BY <1>2 DEF LoopChain, CatchingUp, Meeting, Level, Following, HasNullifier, HasWitness
<1>6. Built'
  BY <1>2, BuiltStays DEF Calm, witVars
<1>. QED
  BY <1>1, <1>2, <1>3, <1>4, <1>5, <1>6 DEF Calm

LEMMA CalmCaughtUp ==
  ASSUME IInv, Calm, CaughtUp, UNCHANGED features
  PROVE  Calm'
<1>1. /\ mode = "catchup" /\ mode' = "enter" /\ nfPc' = "saved" /\ witPc' = "saved"
      /\ (nfPc = "synced" /\ table' = Nf!Evicted(table)) \/ (witPc = "synced" /\ UNCHANGED table)
      /\ UNCHANGED <<best, nfLive, nfDisk, nfFetched, nfQueue, tree, witLive, witDisk, witTask,
                     witCurrent, witGoal, witTo, witFetched, witQueue, features>>
  BY DEF CaughtUp, chainVars
<1>2. /\ HasNullifier /\ HasNullifier'
      /\ nfPc = "saved" \/ (nfPc \in {"sync", "synced"} /\ witPc = "saved")
  BY <1>1 DEF IInv, ModesInv, HasNullifier
<1>3. /\ best \in Block /\ NfBase /\ HeightOf[best] >= Floor /\ NfChain /\ WitChain
      /\ tree.records # <<>>
  BY <1>1, <1>2 DEF IInv, NfBase, NfTypes, Calm, LoopChain, CatchingUp
<1>4. /\ nfPc \in {"synced", "saved"} /\ witPc \in {"synced", "saved"}
      /\ table' \in {table, Nf!Evicted(table)}
      /\ Nf!Latest(table) = Wit!Latest(tree)
  <2>1. CASE nfPc = "synced" /\ table' = Nf!Evicted(table)
    BY <2>1, <1>1, <1>2 DEF Calm, LoopChain, CatchingUp
  <2>2. CASE witPc = "synced" /\ UNCHANGED table
    BY <2>2, <1>1, <1>2 DEF Calm, LoopChain, CatchingUp
  <2>. QED
    BY <2>1, <2>2, <1>1
<1>5. Stretch(best, table') /\ Nf!Latest(table') = Nf!Latest(table)
  <2>1. /\ Stretch(best, table) /\ Stretch(best, Nf!Evicted(table))
        /\ Nf!Latest(Nf!Evicted(table)) = Nf!Latest(table)
    BY <1>3, <1>4, RestIsStretch
  <2>. QED
    BY <2>1, <1>4
<1>6. NfChain'
  BY <1>1, <1>3, <1>5, NfChainRests
<1>7. WitChain'
  <2>1. /\ OnPlace(best, tree) /\ OnPlace(best, witLive)
        /\ \A t \in witDisk : OnPlace(best, t) /\ t.records # <<>>
    BY <1>3 DEF WitChain, WitTrees
  <2>2. /\ witTask = "idle" /\ witFetched = <<>> /\ witQueue = <<>>
        /\ witCurrent \in Nat /\ witGoal \in Nat /\ witTo \in Nat
    BY <1>3, <1>4 DEF WitChain, WitShape
  <2>. QED
    BY <2>1, <2>2, <1>1, <1>3, WitChainRests
<1>8. LoopChain'
  BY <1>1, <1>4, <1>5 DEF LoopChain, CatchingUp, Meeting, Level, Following
<1>9. Built'
  BY <1>1, <1>2, <1>4 DEF Calm, Built, HasNullifier, HasWitness
<1>. QED
  BY <1>1, <1>3, <1>6, <1>7, <1>8, <1>9 DEF Calm

LEMMA CalmEnterFollow ==
  ASSUME IInv, Calm, EnterFollow, UNCHANGED features
  PROVE  Calm'
<1>1. /\ mode = "enter" /\ mode' = "poll" /\ height' = StartHeight
      /\ witCurrent' = 0 /\ witGoal' = 0 /\ witTo' = 0
      /\ UNCHANGED <<best, nfPc, table, nfLive, nfDisk, nfTask, nfFetched, nfQueue,
                     witPc, tree, witLive, witDisk, witTask, witFetched, witQueue,
                     fetched, features>>
  BY DEF EnterFollow, Forget, chainVars
<1>2. /\ best \in Block /\ NfBase /\ HeightOf[best] >= Floor /\ NfChain
      /\ HasNullifier => WitChain
      /\ nfPc = IF HasNullifier THEN "saved" ELSE "down"
      /\ fetched = <<>>
  BY <1>1 DEF IInv, NfBase, NfTypes, Calm, ModesInv, LoopTypes
<1>3. NfChain'
  <2>1. CASE HasNullifier
    <3>1. nfPc' = "saved" /\ nfPc = "saved"
      BY <1>1, <1>2, <2>1
    <3>2. Stretch(best, table')
      BY <1>1, <1>2, <3>1, RestIsStretch
    <3>. QED
      BY <1>1, <1>2, <3>1, <3>2, NfChainRests
  <2>2. CASE ~HasNullifier
    <3>1. nfPc' = "down"
      BY <1>1, <1>2, <2>2
    <3>. QED
      BY <1>1, <1>2, <3>1, NfChainDown
  <2>. QED
    BY <2>1, <2>2
<1>4. ASSUME HasNullifier
      PROVE  WitChain'
  <2>1. WitChain
    BY <1>2, <1>4
  <2>2. witPc \in {"down", "saved"}
    BY <1>1, <1>4 DEF Calm, LoopChain, Meeting, Built
  <2>3. /\ OnPlace(best, tree) /\ OnPlace(best, witLive)
        /\ \A t \in witDisk : OnPlace(best, t) /\ t.records # <<>>
        /\ witPc = "down" => tree = Wit!NoTree
        /\ witPc = "saved" => tree.records # <<>>
    BY <2>1 DEF WitChain, WitTrees
  <2>4. witTask = "idle" /\ witFetched = <<>> /\ witQueue = <<>>
    BY <2>1, <2>2 DEF WitChain, WitShape
  <2>. QED
    BY <2>1, <2>2, <2>3, <2>4, <1>1, WitChainRests
<1>5. LoopChain'
  <2>1. Len(fetched') = 0
    BY <1>1, <1>2
  <2>2. CatchingUp' /\ Meeting'
    BY <1>1 DEF Calm, LoopChain, CatchingUp, Meeting, HasNullifier, HasWitness
  <2>3. Level'
    BY <1>1, <2>1 DEF Calm, LoopChain, Meeting, Level, StartHeight, HasNullifier, HasWitness
  <2>. QED
    BY <2>2, <2>3 DEF LoopChain
<1>6. Built'
  BY <1>1, BuiltStays DEF Calm
<1>. QED
  BY <1>1, <1>2, <1>3, <1>4, <1>5, <1>6 DEF Calm, HasNullifier

-----------------------------------------------------------------------------
(* The loop *)

LEMMA CalmReads ==
  ASSUME IInv, Calm, Poll \/ FetchBlock, UNCHANGED features
  PROVE  Calm'
<1>1. /\ best \in Block /\ NfBase /\ HeightOf[best] >= Floor /\ NfChain
      /\ HasNullifier => WitChain
      /\ fetched \in Seq(Block)
  BY DEF IInv, NfBase, NfTypes, LoopTypes, Calm
<1>2. /\ mode \in {"poll", "fetch"} /\ mode' \in {"fetch", "apply"}
      /\ UNCHANGED <<best, nfVars, witVars, height, features>>
  BY DEF Poll, FetchBlock, chainVars
<1>3. NfChain'
  BY <1>1, <1>2, NfChainStays DEF nfVars, SameStage
<1>4. HasNullifier' => WitChain'
  BY <1>1, <1>2, WitChainStays DEF witVars, HasNullifier
<1>5. Built'
  BY <1>2, BuiltStays DEF Calm, witVars
<1>6. HasNullifier => \A i \in 1..Len(fetched') : fetched'[i] \in ChainOf[best]
  <2>1. CASE Poll
    BY <2>1, <1>2 DEF Poll, Calm, LoopChain, Level, Following
  <2>2. CASE FetchBlock
    <3> DEFINE b == BlockAt(NextHeight)
    <3>1. fetched' = Append(fetched, b) /\ Available(NextHeight)
      BY <2>2 DEF FetchBlock
    <3>2. b \in ChainOf[best]
      BY <3>1, <1>1, BlockAtHeight
    <3> HIDE DEF b
    <3>3. /\ Len(fetched) \in Nat /\ Len(fetched') = Len(fetched) + 1
          /\ \A i \in 1..Len(fetched) : fetched'[i] = fetched[i]
          /\ fetched'[Len(fetched) + 1] = b
      <4>1. \E T : fetched \in Seq(T)
        BY <1>1
      <4>. QED
        BY <4>1, <3>1
    <3>4. HasNullifier => \A i \in 1..Len(fetched) : fetched[i] \in ChainOf[best]
      BY <1>2 DEF Calm, LoopChain, Level, Following
    <3>. QED
      BY <3>2, <3>3, <3>4
  <2>. QED
    BY <2>1, <2>2
<1>7. LoopChain'
  <2>1. UNCHANGED <<table, tree, witPc>>
    BY <1>2 DEF nfVars, witVars
  <2>2. CatchingUp' /\ Meeting'
    BY <2>1, <1>2 DEF Calm, LoopChain, CatchingUp, Meeting, HasNullifier, HasWitness
  <2>3. Level'
    BY <2>1, <1>2, <1>6 DEF Calm, LoopChain, Level, Following, HasNullifier, HasWitness
  <2>. QED
    BY <2>2, <2>3 DEF LoopChain
<1>. QED
  BY <1>1, <1>2, <1>3, <1>4, <1>5, <1>7 DEF Calm

(* The block to be applied continues table and branch, so it links to the  *)
(* tracker's tip.                                                          *)
LEMMA CalmHead ==
  ASSUME IInv, Calm, Undisturbed, HasNullifier, mode = "apply", fetched # <<>>,
         NEW b, b = Head(fetched)
  PROVE  /\ b \in Block /\ b \in ChainOf[best]
         /\ height \in Nat /\ HeightOf[b] = height + 1
         /\ nfPc = "saved" /\ Nf!Latest(table) = height
         /\ Tracker!Extends(tracker, HeightOf[b], Parent[b])
<1>1. /\ best \in Block /\ NfBase /\ NfChain /\ height \in Nat /\ refusals = 0
      /\ fetched \in Seq(Block) /\ Following /\ nfPc = "saved"
  BY DEF IInv, NfBase, NfTypes, LoopTypes, Calm, Following, ModesInv, Undisturbed
<1>2. b \in Block /\ HeightOf[b] = height + 1
  BY AppliedBlock
<1>3. /\ height = Nf!Latest(table)
      /\ \A i \in 1..Len(fetched) : fetched[i] \in ChainOf[best]
  BY <1>1 DEF Calm, LoopChain, Level
<1>4. b \in ChainOf[best]
  <2>1. b = fetched[1] /\ Len(fetched) \in Nat /\ Len(fetched) # 0
    BY <1>1
  <2>2. 1 \in 1..Len(fetched)
    BY <2>1
  <2>. QED
    BY <2>1, <2>2, <1>3
<1>5. Stretch(best, table) /\ height # 0
  BY <1>1, <1>3, RestIsStretch
<1>6. table \subseteq ChainOf[best]
  BY <1>1, <1>5, StretchServed
<1> DEFINE tip == Tracker!Tip(tracker)
<1>7. /\ Window(tracker) /\ Holds(tracker, table) /\ tip.height = height
  BY <1>1 DEF IInv, TrackerInv
<1>8. tip = tracker[Len(tracker)] /\ Len(tracker) \in 1..Len(tracker)
  BY <1>7, WindowEnds DEF Tracker!Tip
<1>9. tip.hash \in Block /\ HeightOf[tip.hash] = height
  BY <1>5, <1>7, <1>8 DEF Window
<1>10. tip.hash \in ChainOf[best]
  BY <1>6, <1>7, <1>8, <1>9 DEF Holds
<1>11. Parent[b] = tip.hash
  BY <1>1, <1>2, <1>4, <1>9, <1>10, ChainStep
<1>12. Tracker!Links(tracker, HeightOf[b], Parent[b])
  BY <1>2, <1>7, <1>11 DEF Tracker!Links
<1>. QED
  BY <1>1, <1>2, <1>3, <1>4, <1>12 DEF Tracker!Extends

(* It goes on top of the table. *)
LEMMA CalmInsert ==
  ASSUME IInv, NfChain, nfPc = "saved", NEW b \in ChainOf[best], b \in Block,
         HeightOf[b] = Nf!Latest(table) + 1
  PROVE  /\ Stretch(best, Nf!Evicted(table \cup {b}))
         /\ Nf!Latest(Nf!Evicted(table \cup {b})) = HeightOf[b]
<1>1. best \in Block /\ Whole(table)
  BY DEF IInv, NfBase, NfTypes, NfTables
<1>2. PICK l, h : IsStretch(best, table, l, h)
  BY DEF NfChain, NfRest
<1>3. Nf!Latest(table) = h
  BY <1>1, <1>2, StretchLatest
<1>4. /\ l \in Nat /\ h \in Nat /\ ReachesDown(best, l) /\ l <= h
      /\ table = Part(best, l, h)
  BY <1>2 DEF IsStretch
<1> DEFINE t == table \cup {b}
           k == h + 1
<1>5. l <= h + 1 /\ h \in Int /\ HeightOf[b] = h + 1
  BY <1>3, <1>4
<1>6. t = Part(best, l, h + 1)
  BY <1>1, <1>4, <1>5, PartNext
<1>7. k \in Nat /\ l <= k /\ HeightOf[b] <= HeightOf[best] /\ HeightOf[b] = k
  BY <1>1, <1>4, <1>5, ChainBelowTip
<1>8. IsStretch(best, t, l, k)
  BY <1>4, <1>6, <1>7 DEF IsStretch
<1>9. HeightOf[b] \notin Nf!Heights(table)
  <2>1. \A c \in table : HeightOf[c] <= h /\ HeightOf[c] \in Nat
    BY <1>1, <1>3, LatestBounds, HeightType DEF Whole
  <2>. QED
    BY <2>1, <1>4, <1>5 DEF Nf!Heights
<1>10. Whole(t)
  BY <1>1, <1>9, WholeInsert
<1> HIDE DEF t, k
<1>11. Nf!Latest(t) = k
  BY <1>1, <1>8, <1>10, StretchLatest
<1>12. Nf!Latest(Nf!Evicted(t)) = k
  BY <1>10, <1>11, EvictedKeeps
<1>13. Stretch(best, Nf!Evicted(t))
  BY <1>1, <1>8, <1>10, StretchEvicted DEF Stretch
<1>. QED
  BY <1>7, <1>12, <1>13 DEF t

LEMMA CalmApply ==
  ASSUME IInv, Calm, Undisturbed, UNCHANGED refusals,
         NEW b \in Block, Extend(b) \/ Reorg(b), UNCHANGED features
  PROVE  Calm'
<1>1. /\ mode = "apply" /\ mode' = "apply" /\ fetched # <<>> /\ b = Head(fetched)
      /\ fetched' = Tail(fetched) /\ height' = HeightOf[b]
      /\ UNCHANGED <<best, nfPc, nfFresh, nfLive, nfDisk, nfFetched, nfQueue, witPc, witLive,
                     witDisk, witTask, witCurrent, witGoal, witTo, witFetched, witPrior, witQueue,
                     features>>
  BY DEF Extend, Reorg, Applied, chainVars
<1>2. /\ best \in Block /\ HeightOf[best] >= Floor /\ NfChain
      /\ HasNullifier => WitChain
      /\ nfPc = IF HasNullifier THEN "saved" ELSE "down"
      /\ Shaped(tree) /\ tracker \in Seq(TrackedPair) /\ refusals = 0
      /\ Following /\ Following' /\ fetched \in Seq(Block)
  BY <1>1 DEF IInv, NfBase, NfTypes, WitTypes, LoopTypes, Calm, ModesInv, Undisturbed, Following
<1>3. Built'
  BY <1>1, BuiltStays DEF Calm
<1>4. HasWitness => Wit!Latest(tree') = HeightOf[b]
  <2>1. CASE Extend(b)
    BY <2>1, <1>2, ShapedLatestAppended DEF Extend
  <2>2. CASE Reorg(b)
    <3> DEFINE fork == Tracker!FindForkPoint(tracker, Parent[b])
    <3>1. fork \in Nat
      BY <1>2, ForkPointType
    <3>2. HasWitness => tree' = Wit!Appended(Wit!RolledBack(tree, fork), b)
      BY <2>2 DEF Reorg
    <3> HIDE DEF fork
    <3>3. Shaped(Wit!RolledBack(tree, fork))
      BY <3>1, <1>2, ShapedRolledBack
    <3>. QED
      BY <3>2, <3>3, ShapedLatestAppended
  <2>. QED
    BY <2>1, <2>2
<1>5. CatchingUp' /\ Meeting'
  BY <1>1 DEF Calm, LoopChain, CatchingUp, Meeting, HasNullifier, HasWitness
<1>6. CASE ~HasNullifier
  <2>1. NfChain'
    BY <1>1, <1>2, <1>6, NfChainDown
  <2>2. Level'
    BY <1>1, <1>4, <1>6 DEF Level, HasNullifier, HasWitness
  <2>. QED
    BY <1>1, <1>2, <1>3, <1>5, <1>6, <2>1, <2>2 DEF Calm, LoopChain, HasNullifier
<1>7. CASE HasNullifier
  <2>1. /\ b \in ChainOf[best] /\ height \in Nat /\ HeightOf[b] = height + 1
        /\ nfPc = "saved" /\ Nf!Latest(table) = height
        /\ Tracker!Extends(tracker, HeightOf[b], Parent[b])
    BY <1>1, <1>7, CalmHead
  <2>2. Extend(b)
    BY <2>1 DEF Reorg
  <2>3. /\ table' = Nf!Evicted(table \cup {b})
        /\ tree' = IF HasWitness THEN Wit!Appended(tree, b) ELSE tree
    BY <2>2, <1>2, <1>7 DEF Extend, InsertAndEvict
  <2>4. Stretch(best, table') /\ Nf!Latest(table') = HeightOf[b]
    BY <1>2, <2>1, <2>3, CalmInsert
  <2>5. NfChain'
    BY <1>1, <1>2, <2>1, <2>4, NfChainRests
  <2>6. WitChain /\ OnPlace(best, tree) /\ OnPlace(best, witLive)
        /\ \A t \in witDisk : OnPlace(best, t) /\ t.records # <<>>
    BY <1>2, <1>7 DEF WitChain, WitTrees
  <2>7. WitChain'
    <3>1. CASE ~HasWitness
      BY <1>1, <2>3, <2>6, <3>1, WitChainStays
    <3>2. CASE HasWitness
      <4>1. witPc = "saved" /\ height = Wit!Latest(tree)
        BY <1>1, <1>2, <1>7, <3>2 DEF Calm, LoopChain, Meeting, Level
      <4>2. /\ tree.records # <<>>
            /\ witTask = "idle" /\ witFetched = <<>> /\ witQueue = <<>>
            /\ witCurrent \in Nat /\ witGoal \in Nat /\ witTo \in Nat
        BY <2>6, <4>1 DEF WitChain, WitShape, WitTrees
      <4>3. ReachesAlong(Commitments, Floor, tree, height, ChainOf[best])
        BY <1>2, <2>6, <4>1, <4>2, OnPlaceLatest
      <4>4. OnPlace(best, tree') /\ tree'.records # <<>>
        BY <1>2, <2>1, <2>3, <2>6, <3>2, <4>3, NextFits
      <4>. QED
        BY <1>1, <2>6, <4>1, <4>2, <4>4, WitChainRests
    <3>. QED
      BY <3>1, <3>2
  <2>8. \A i \in 1..Len(fetched') : fetched'[i] \in ChainOf[best]
    <3>1. \A i \in 1..Len(fetched) : fetched[i] \in ChainOf[best]
      BY <1>2, <1>7 DEF Calm, LoopChain, Level
    <3>2. Len(fetched) \in Nat /\ Len(fetched) # 0
      BY <1>1, <1>2
    <3>3. /\ Len(fetched') = Len(fetched) - 1
          /\ \A i \in 1..Len(fetched') : fetched'[i] = fetched[i + 1]
      BY <1>1, <1>2
    <3>4. \A i \in 1..Len(fetched') : i + 1 \in 1..Len(fetched)
      BY <3>2, <3>3
    <3>. QED
      BY <3>1, <3>3, <3>4
  <2>9. Level'
    BY <1>1, <1>4, <2>4, <2>8 DEF Level, HasWitness
  <2>. QED
    BY <1>1, <1>2, <1>3, <1>5, <2>5, <2>7, <2>9 DEF Calm, LoopChain
<1>. QED
  BY <1>6, <1>7

LEMMA CalmPublishes ==
  ASSUME IInv, Calm, UNCHANGED features,
         PublishNullifiers \/ PublishWitnesses \/ SaveNullifiers \/ SaveWitnesses
  PROVE  Calm'
<1>1. /\ mode \in {"apply", "publish", "save", "saved"}
      /\ mode' \in {"publish", "poll", "save", "saved"}
      /\ nfLive' \in {nfLive, table} /\ witLive' \in {witLive, tree}
      /\ nfDisk' \in {nfDisk, {table}} /\ (nfDisk' = nfDisk \/ HasNullifier)
      /\ witDisk' \in {witDisk, {tree}} /\ (witDisk' = witDisk \/ HasWitness)
      /\ UNCHANGED <<best, nfPc, table, nfFetched, nfQueue, witPc, tree, witTask, witCurrent,
                     witGoal, witTo, witFetched, witPrior, witQueue, height, fetched, features>>
  BY DEF PublishNullifiers, PublishWitnesses, SaveNullifiers, SaveWitnesses, chainVars, loopVars,
     nfVars, witVars
<1>2. /\ best \in Block /\ HeightOf[best] >= Floor /\ NfBase /\ NfChain
      /\ HasNullifier => WitChain
      /\ nfPc = IF HasNullifier THEN "saved" ELSE "down"
      /\ nfPc = "down" => table = {}
      /\ Following /\ Following'
  BY <1>1 DEF IInv, NfBase, NfTypes, NfTables, Calm, ModesInv, Following
<1>3. NfChain'
  <2>1. CASE HasNullifier
    <3>1. Stretch(best, table')
      BY <1>1, <1>2, <2>1, RestIsStretch
    <3>. QED
      BY <1>1, <1>2, <2>1, <3>1, NfChainRests
  <2>2. CASE ~HasNullifier
    BY <1>1, <1>2, <2>2, NfChainDown
  <2>. QED
    BY <2>1, <2>2
<1>4. ASSUME HasNullifier
      PROVE  WitChain'
  <2>1. WitChain
    BY <1>2, <1>4
  <2>2. CASE witDisk' = witDisk
    BY <1>1, <2>1, <2>2, WitChainStays
  <2>3. CASE HasWitness
    <3>1. witPc = "saved"
      BY <1>1, <1>4, <2>3 DEF Calm, LoopChain, Meeting
    <3>2. /\ OnPlace(best, tree) /\ tree.records # <<>> /\ OnPlace(best, witLive)
          /\ \A t \in witDisk : OnPlace(best, t) /\ t.records # <<>>
      BY <2>1, <3>1 DEF WitChain, WitTrees
    <3>3. /\ witTask = "idle" /\ witFetched = <<>> /\ witQueue = <<>>
          /\ witCurrent \in Nat /\ witGoal \in Nat /\ witTo \in Nat
      BY <2>1, <3>1 DEF WitChain, WitShape
    <3>4. \A t \in witDisk' : OnPlace(best, t) /\ t.records # <<>>
      BY <1>1, <3>2
    <3>5. OnPlace(best, tree') /\ OnPlace(best, witLive')
      BY <1>1, <3>2
    <3>. QED
      BY <1>1, <2>1, <3>1, <3>2, <3>3, <3>4, <3>5, WitChainRests
  <2>. QED
    BY <1>1, <2>2, <2>3
<1>5. Built'
  BY <1>1, BuiltStays DEF Calm
<1>6. LoopChain'
  <2>1. CatchingUp' /\ Meeting'
    BY <1>1 DEF Calm, LoopChain, CatchingUp, Meeting, HasNullifier, HasWitness
  <2>2. Level'
    BY <1>1, <1>2 DEF Calm, LoopChain, Level, HasNullifier, HasWitness
  <2>. QED
    BY <2>1, <2>2 DEF LoopChain
<1>. QED
  BY <1>1, <1>2, <1>3, <1>4, <1>5, <1>6 DEF Calm, HasNullifier

-----------------------------------------------------------------------------
(* Every step *)

LEMMA CalmGrows ==
  ASSUME IInv, Calm, UNCHANGED switches, Environment, UNCHANGED features, switches \in Nat
  PROVE  Calm'
<1>1. /\ best \in Block /\ NfBase /\ HeightOf[best] >= Floor /\ NfChain
      /\ HasNullifier => WitChain
  BY DEF IInv, NfBase, NfTypes, Calm
<1>2. ~Switch
  BY DEF Switch
<1>3. Grow /\ UNCHANGED <<nfVars, witVars, mode, height, fetched, features>>
  BY <1>2 DEF Environment, loopVars
<1>4. NfChain'
  BY <1>1, <1>3, NfChainGrows
<1>5. HasNullifier' => WitChain'
  BY <1>1, <1>3, WitChainGrows DEF HasNullifier
<1>6. /\ best' \in Block /\ HeightOf[best] <= HeightOf[best']
      /\ ChainOf[best] \subseteq ChainOf[best']
  BY <1>1, <1>3, StretchGrows
<1>7. HeightOf[best'] >= Floor
  BY <1>1, <1>6, HeightType, Constants
<1>8. Built'
  BY <1>3, BuiltStays DEF Calm, witVars
<1>9. LoopChain'
  <2>1. UNCHANGED <<nfPc, table, nfTo, tree, witPc, witTo>>
    BY <1>3 DEF nfVars, witVars
  <2>2. CatchingUp' /\ Meeting'
    BY <1>3, <2>1 DEF Calm, LoopChain, CatchingUp, Meeting, HasNullifier, HasWitness
  <2>3. Level'
    BY <1>3, <1>6, <2>1 DEF Calm, LoopChain, Level, Following, HasNullifier, HasWitness
  <2>. QED
    BY <2>2, <2>3 DEF LoopChain
<1>. QED
  BY <1>4, <1>5, <1>7, <1>8, <1>9 DEF Calm

LEMMA CalmStutters ==
  ASSUME IInv, Calm, UNCHANGED vars
  PROVE  Calm'
<1>1. /\ HeightOf[best] >= Floor /\ NfChain
      /\ HasNullifier => WitChain
      /\ UNCHANGED <<best, nfVars, witVars, mode, height, fetched, features>>
  BY DEF Calm, vars, chainVars, loopVars
<1>2. NfChain'
  BY <1>1, NfChainStays DEF nfVars, SameStage
<1>3. HasNullifier' => WitChain'
  BY <1>1, WitChainStays DEF witVars, HasNullifier
<1>4. Built'
  BY <1>1, BuiltStays DEF Calm, witVars
<1>5. LoopChain'
  <2>1. UNCHANGED <<nfPc, table, nfTo, tree, witPc, witTo>>
    BY <1>1 DEF nfVars, witVars
  <2>. QED
    BY <1>1, <2>1
    DEF Calm, LoopChain, CatchingUp, Meeting, Level, Following, HasNullifier, HasWitness
<1>. QED
  BY <1>1, <1>2, <1>3, <1>4, <1>5 DEF Calm

LEMMA CalmNext ==
  ASSUME IInv, Calm, FaultTypes, Undisturbed, Undisturbed',
         UNCHANGED <<failures, refusals, switches>>, [Next]_vars
  PROVE  Calm'
<1>0. failures \in Nat /\ switches \in Nat
  BY DEF FaultTypes
<1>1. CASE UNCHANGED vars \/ PollNothingNew
  BY <1>1, CalmStutters DEF PollNothingNew
<1>2. CASE ServerStep
  <2>0. UNCHANGED features
    BY <1>2 DEF ServerStep
  <2>1. CASE NfSync \/ WitSync
    BY <2>0, <2>1, CalmPrepares, CalmSynced, CalmWitFails DEF NfSync, WitSync
  <2>2. CASE SyncStep
    BY <1>0, <2>0, <2>2, CalmSyncStep
  <2>3. CASE BothReturned \/ BlockMissing
    BY <2>0, <2>3, CalmFailRun DEF BothReturned, BlockMissing
  <2>4. CASE Compare \/ ServeAlone \/ CaughtUp \/ EnterFollow
    BY <2>0, <2>4, CalmCompare, CalmServeAlone, CalmCaughtUp, CalmEnterFollow
  <2>5. CASE Poll \/ FetchBlock
    BY <2>0, <2>5, CalmReads
  <2>6. CASE ApplyBlock
    BY <2>0, <2>6, CalmApply DEF ApplyBlock
  <2>7. CASE PublishNullifiers \/ PublishWitnesses \/ SaveNullifiers \/ SaveWitnesses
    BY <2>0, <2>7, CalmPublishes
  <2>. QED
    BY <1>2, <2>1, <2>2, <2>3, <2>4, <2>5, <2>6, <2>7 DEF ServerStep, LoopStep
<1>3. CASE Disturbance
  <2>0. UNCHANGED features
    BY <1>3 DEF Disturbance
  <2>1. CASE Environment
    BY <1>0, <2>0, <2>1, CalmGrows
  <2>2. CASE CallFailsInSync
    BY <1>0, <2>0, <2>2, CalmSyncStep
  <2>3. CASE CallFails \/ Crash
    BY <2>0, <2>3, CalmFailRun DEF CallFails, Crash
  <2>. QED
    BY <1>3, <2>1, <2>2, <2>3 DEF Disturbance
<1>. QED
  BY <1>1, <1>2, <1>3 DEF Next

LEMMA ChainInvNext ==
  ASSUME IInv, ChainInv, [Next]_vars
  PROVE  ChainInv'
<1>1. FaultTypes' /\ (Undisturbed' => /\ Undisturbed
                                      /\ UNCHANGED <<failures, refusals, switches, unanchored>>)
  BY UndisturbedBefore DEF ChainInv
<1>2. Undisturbed' => Calm'
  BY <1>1, CalmNext DEF ChainInv
<1>. QED
  BY <1>1, <1>2 DEF ChainInv

LEMMA ChainInvariant == Spec => [](IInv /\ ChainInv)
<1>1. Init => ChainInv
  BY CalmInit
<1>2. IInv /\ ChainInv /\ [Next]_vars => ChainInv'
  BY ChainInvNext
<1>. QED
  BY <1>1, <1>2, Invariant, PTL DEF Spec

-----------------------------------------------------------------------------
(* The theorems *)

(* Whenever the loop polls, table, tree and tracker are at one height,     *)
(* whichever subsystem synced further and whatever snapshots a crash left, *)
(* unless a call failed, an insertion was refused, the chain left its      *)
(* branch or a window was left without a block.                            *)
THEOREM OneHeightCorrect == Spec => []OneHeight
<1>1. IInv /\ ChainInv => OneHeight
  <2> SUFFICES ASSUME IInv, Calm, mode = "poll", Undisturbed
               PROVE  /\ HasNullifier =>
                           /\ height = Nf!Latest(table)
                           /\ Tracker!Tip(tracker) = Tracker!Pair(height, Nf!LatestHash(table))
                      /\ HasWitness => height = Wit!Latest(tree)
    BY DEF OneHeight, ChainInv
  <2>1. Following
    BY DEF Following
  <2>2. HasWitness => height = Wit!Latest(tree)
    BY <2>1 DEF Calm, LoopChain, Level
  <2>3. ASSUME HasNullifier
        PROVE  /\ height = Nf!Latest(table)
               /\ Tracker!Tip(tracker) = Tracker!Pair(height, Nf!LatestHash(table))
    <3>1. height = Nf!Latest(table)
      BY <2>1, <2>3 DEF Calm, LoopChain, Level
    <3> DEFINE tip == Tracker!Tip(tracker)
    <3>2. /\ Window(tracker) /\ Holds(tracker, table) /\ tip.height = height
          /\ NfBase /\ NfChain /\ nfPc = "saved"
      BY <2>1, <2>3 DEF IInv, TrackerInv, ModesInv, Undisturbed, Calm, Following
    <3>3. height # 0 /\ Whole(table) /\ table # {}
      BY <3>1, <3>2, RestIsStretch
    <3>4. tip = tracker[Len(tracker)] /\ Len(tracker) \in 1..Len(tracker)
      BY <3>2, WindowEnds DEF Tracker!Tip
    <3>5. tip \in TrackedPair /\ tip.hash \in Block /\ HeightOf[tip.hash] = height
      BY <3>2, <3>3, <3>4, WindowPair DEF Window
    <3>6. tip.hash \in table
      BY <3>2, <3>4, <3>5 DEF Holds
    <3>7. \A c \in table : HeightOf[c] <= HeightOf[tip.hash]
      BY <3>1, <3>3, <3>5, LatestBounds
    <3>8. Nf!LatestHash(table) = tip.hash
      BY <3>3, <3>6, <3>7, NewestOf
    <3>9. tip = [height |-> tip.height, hash |-> tip.hash]
      BY <3>5 DEF TrackedPair
    <3>. QED
      BY <3>1, <3>2, <3>8, <3>9 DEF Tracker!Pair
  <2>. QED
    BY <2>2, <2>3
<1>. QED
  BY <1>1, ChainInvariant, PTL

(* What is served is the chain, unless one of these happened: the table is *)
(* a stretch of the branch without gap, and the leaves of the tree are at  *)
(* their positions when there is a table to start the loop from.           *)
THEOREM ChainCorrect == Spec => []ServedIsTheChain
<1>1. IInv /\ ChainInv => ServedIsTheChain
  <2> SUFFICES ASSUME IInv, Calm
               PROVE  /\ Interval(Nf!Heights(nfLive)) /\ nfLive \subseteq ChainOf[best]
                      /\ HasNullifier => Wit!Placed(witLive)
    BY DEF ServedIsTheChain, ChainInv
  <2>1. best \in Block /\ (nfLive = {} \/ Stretch(best, nfLive))
    BY DEF IInv, NfBase, NfTypes, Calm, NfChain, NfStream
  <2>2. Interval(Nf!Heights(nfLive)) /\ nfLive \subseteq ChainOf[best]
    <3>1. CASE nfLive = {}
      BY <3>1, WholeNone
    <3>2. CASE Stretch(best, nfLive)
      BY <2>1, <3>2, StretchServed
    <3>. QED
      BY <2>1, <3>1, <3>2
  <2>3. HasNullifier => OnPlace(best, witLive)
    BY DEF Calm, WitChain, WitTrees
  <2>4. HasNullifier => Wit!Placed(witLive)
    BY <2>3, WitPlacedIs
  <2>. QED
    BY <2>2, <2>4
<1>. QED
  BY <1>1, ChainInvariant, PTL
=============================================================================
