------------------------- MODULE WitnessServer_proofs -------------------------
(***************************************************************************)
(* Proofs about the standalone witness server, for every tree of blocks,   *)
(* every size of its shards, window, batches and channel, and any number   *)
(* of crashes, failed calls and changes of branch.                         *)
(*                                                                         *)
(* The inductive invariant has named parts, proved one on top of the       *)
(* other: what the two tasks are doing and in which order blocks reach the *)
(* tree (Base), what the tracker's tip is (TipInv), and where the leaves   *)
(* are as long as the branch never changed (PlacedInv).                    *)
(***************************************************************************)
EXTENDS WitnessServer, Lightwalletd_proofs, SequenceTheorems

LEMMA Constants ==
  /\ ZeroHash \notin Block /\ Genesis \notin Block /\ ZeroHash # Genesis
  /\ ShardLeaves \in Nat \ {0} /\ WindowLimit \in Nat \ {0} /\ Floor \in Nat \ {0}
  /\ SyncBatch \in Nat \ {0} /\ Capacity \in Nat \ {0} /\ SnapshotInterval \in Nat \ {0}
  /\ TrackerDepth \in Nat \ {0}
  /\ \A b \in Block : Commitments[b] \in Nat
  /\ \A b \in Block : HeightOf[b] < Floor => Commitments[b] = 0
  BY WitnessAssumption, ChainAssumption

-----------------------------------------------------------------------------
(* The size of the chain's tree after a block *)

LEMMA TotalIs == TotalAt = TotalOf(Commitments)
  BY DEF TotalAt, TotalOf

LEMMA NothingBelow == Commitments \in [Block -> Nat] /\ NoneBelow(Commitments, Floor)
  BY WitnessAssumption DEF NoneBelow

LEMMA TotalType ==
  ASSUME NEW b \in Block
  PROVE  TotalAt[b] \in Nat /\ TotalAt[b] - Commitments[b] \in Nat /\ Commitments[b] \in Nat
  BY TotalIs, NothingBelow, TotalOfType

LEMMA TotalStep ==
  ASSUME NEW x \in Block, NEW b \in ChainOf[x], NEW c \in ChainOf[x],
         HeightOf[b] = HeightOf[c] + 1
  PROVE  TotalAt[b] - Commitments[b] = TotalAt[c]
  BY TotalIs, NothingBelow, TotalOfStep

LEMMA TotalFromFloor ==
  ASSUME NEW b \in Block, HeightOf[b] <= Floor
  PROVE  TotalAt[b] - Commitments[b] = 0
  BY TotalIs, NothingBelow, TotalOfLowest

LEMMA CompletingBlock ==
  ASSUME NEW x \in Block, NEW leaf \in Nat, 0 < leaf, leaf <= TotalAt[x]
  PROVE  \E b \in ChainOf[x] : TotalAt[b] >= leaf /\ TotalAt[b] - Commitments[b] < leaf
  BY TotalIs, NothingBelow, CompletingBlockOf

-----------------------------------------------------------------------------
(* The size of a tree *)

LEMMA SizeIs ==
  ASSUME NEW t \in TreeType
  PROVE  Size(t) = SizeOf(t) /\ Size(t) = SumOf(t, Len(t.records))
<1>1. DOMAIN t.records = 1..Len(t.records)
  BY TreeFields
<1>2. Size(t) = (CHOOSE f : RecordSums(f, t))[DOMAIN t.records]
  BY DEF Size, FoldLeft, MapThenFoldSet, RecordSums, Max, Greatest
<1>. QED
  BY <1>1, <1>2 DEF SizeOf, SumOf

LEMMA SizeType == ASSUME NEW t \in TreeType PROVE Size(t) \in Nat
  BY SizeIs, SizeOfType

LEMMA SizeOfNone ==
  ASSUME NEW t \in TreeType, t.records = <<>>
  PROVE  Size(t) = t.offset
  BY SizeIs, SizeOfBare

LEMMA AppendedTree ==
  ASSUME NEW t \in TreeType, NEW b \in Block
  PROVE  /\ Appended(t, b) = WithRecord(t, b, Commitments[b])
         /\ Appended(t, b) \in TreeType
         /\ Appended(t, b).offset = t.offset
         /\ Len(Appended(t, b).records) = Len(t.records) + 1
         /\ \A i \in 1..Len(t.records) : Appended(t, b).records[i] = t.records[i]
         /\ Appended(t, b).records[Len(t.records) + 1].block = b
         /\ Appended(t, b).records[Len(t.records) + 1].num = Commitments[b]
<1>1. Appended(t, b) = WithRecord(t, b, Commitments[b])
  BY DEF Appended, WithRecord, BlockRecord
<1>2. Commitments[b] \in Nat
  BY Constants
<1>. QED
  BY <1>1, <1>2, RecordAdded

LEMMA SizeAppended ==
  ASSUME NEW t \in TreeType, NEW b \in Block
  PROVE  Size(Appended(t, b)) = Size(t) + Commitments[b]
<1>1. Appended(t, b) = WithRecord(t, b, Commitments[b]) /\ Appended(t, b) \in TreeType
  BY AppendedTree
<1>2. Commitments[b] \in Nat
  BY Constants
<1>. QED
  BY <1>1, <1>2, SizeIs, RecordAddedSize

-----------------------------------------------------------------------------
(* The records of a tree *)

(* Records of ascending height. *)
HeightsUp(records) ==
  \A i, j \in 1..Len(records) : i < j => HeightOf[records[i].block] < HeightOf[records[j].block]

LEMMA RecordHeight ==
  ASSUME NEW t \in TreeType, NEW i \in 1..Len(t.records)
  PROVE  HeightOf[t.records[i].block] \in Nat
  BY TreeFields, HeightType

LEMMA NoTreeType ==
  NoTree \in TreeType /\ NoTree.records = <<>> /\ NoTree.offset = 0 /\ HeightsUp(NoTree.records)
<1>1. NoTree \in TreeType /\ NoTree.records = <<>> /\ NoTree.offset = 0
  BY DEF NoTree, TreeType
<1>. QED
  BY <1>1 DEF HeightsUp

LEMMA LatestOf ==
  ASSUME NEW t \in TreeType
  PROVE  /\ Latest(t) \in Nat
         /\ LatestHash(t) \in Block \cup {ZeroHash}
         /\ t.records # <<>> =>
              /\ Len(t.records) \in 1..Len(t.records)
              /\ LatestHash(t) = t.records[Len(t.records)].block
              /\ LatestHash(t) \in Block
              /\ Latest(t) = HeightOf[LatestHash(t)]
         /\ t.records = <<>> => Latest(t) = 0
<1>1. CASE t.records = <<>>
  BY <1>1 DEF Latest, LatestHash
<1>2. CASE t.records # <<>>
  <2>1. Len(t.records) \in 1..Len(t.records)
    BY <1>2, TreeFields
  <2>2. t.records[Len(t.records)].block \in Block
    BY <2>1, TreeFields
  <2>. QED
    BY <1>2, <2>1, <2>2, HeightType DEF Latest, LatestHash, Last
<1>. QED
  BY <1>1, <1>2

LEMMA LatestIsHighest ==
  ASSUME NEW t \in TreeType, HeightsUp(t.records), NEW i \in 1..Len(t.records)
  PROVE  HeightOf[t.records[i].block] <= Latest(t)
<1>1. Len(t.records) \in Nat /\ t.records # <<>>
  BY TreeFields
<1>2. /\ Len(t.records) \in 1..Len(t.records)
      /\ Latest(t) = HeightOf[t.records[Len(t.records)].block]
  BY <1>1, LatestOf
<1>3. HeightOf[t.records[i].block] \in Nat /\ Latest(t) \in Nat
  BY RecordHeight, LatestOf
<1>4. CASE i = Len(t.records)
  BY <1>2, <1>3, <1>4
<1>5. CASE i < Len(t.records)
  <2>1. HeightOf[t.records[i].block] < Latest(t)
    BY <1>2, <1>5 DEF HeightsUp
  <2>. QED
    BY <2>1, <1>3
<1>. QED
  BY <1>1, <1>4, <1>5

LEMMA AppendedLatest ==
  ASSUME NEW t \in TreeType, NEW b \in Block
  PROVE  /\ Appended(t, b).records # <<>>
         /\ Latest(Appended(t, b)) = HeightOf[b]
         /\ LatestHash(Appended(t, b)) = b
<1> DEFINE u == Appended(t, b)
<1>1. u \in TreeType /\ Len(u.records) = Len(t.records) + 1 /\ u.records[Len(u.records)].block = b
  BY AppendedTree
<1>2. Len(t.records) \in Nat
  BY TreeFields
<1>3. u.records # <<>>
  BY <1>1, <1>2
<1> HIDE DEF u
<1>4. LatestHash(u) = b /\ Latest(u) = HeightOf[b]
  BY <1>1, <1>3, LatestOf
<1>. QED
  BY <1>3, <1>4 DEF u

LEMMA AppendedUp ==
  ASSUME NEW t \in TreeType, HeightsUp(t.records), NEW b \in Block,
         \A i \in 1..Len(t.records) : HeightOf[t.records[i].block] < HeightOf[b]
  PROVE  HeightsUp(Appended(t, b).records)
<1> DEFINE u == Appended(t, b)
<1>1. /\ Len(u.records) = Len(t.records) + 1
      /\ \A i \in 1..Len(t.records) : u.records[i] = t.records[i]
      /\ u.records[Len(t.records) + 1].block = b
  BY AppendedTree
<1>2. Len(t.records) \in Nat
  BY TreeFields
<1> HIDE DEF u
<1>3. ASSUME NEW i \in 1..Len(u.records), NEW j \in 1..Len(u.records), i < j
      PROVE  HeightOf[u.records[i].block] < HeightOf[u.records[j].block]
  <2>1. i \in 1..Len(t.records)
    BY <1>1, <1>2, <1>3
  <2>2. CASE j \in 1..Len(t.records)
    BY <2>1, <2>2, <1>1, <1>3 DEF HeightsUp
  <2>3. CASE j = Len(t.records) + 1
    BY <2>1, <2>3, <1>1
  <2>. QED
    BY <2>2, <2>3, <1>1, <1>2
<1>. QED
  BY <1>3 DEF HeightsUp, u

(* A rollback keeps the first records. *)
LEMMA RolledBackTree ==
  ASSUME NEW t \in TreeType, NEW target \in Nat
  PROVE  /\ RolledBack(t, target) \in TreeType
         /\ RolledBack(t, target).offset = t.offset
         /\ Len(RolledBack(t, target).records) <= Len(t.records)
         /\ \A i \in 1..Len(RolledBack(t, target).records) :
              i \in 1..Len(t.records) /\ RolledBack(t, target).records[i] = t.records[i]
         /\ t.records = <<>> => RolledBack(t, target) = t
<1> DEFINE r == t.records
           Cut(k) == /\ k # 0 => HeightOf[r[k].block] <= target
                     /\ \A i \in (k + 1)..Len(r) : HeightOf[r[i].block] > target
           P == {i \in 1..Len(r) : HeightOf[r[i].block] <= target}
           S == {m \in 0..Len(r) : m = 0 \/ m \in P}
<1>1. /\ r \in Seq(RecordType) /\ Len(r) \in Nat
      /\ \A i \in 1..Len(r) : HeightOf[r[i].block] \in Nat
  BY TreeFields, RecordHeight
<1>2. \E k \in S : \A m \in S : m <= k
  <2>1. S \in SUBSET Nat /\ S # {} /\ \A m \in S : m <= Len(r)
    BY <1>1
  <2> HIDE DEF S
  <2>. QED
    BY <2>1, <1>1, GreatestNat
<1>3. PICK k \in S : \A m \in S : m <= k
  BY <1>2
<1>4. ASSUME NEW i \in (k + 1)..Len(r)
      PROVE  HeightOf[r[i].block] > target
  <2>1. i \in 1..Len(r) /\ k < i /\ i \in Nat /\ k \in Nat
    BY <1>1
  <2>2. i \notin P
    BY <2>1, <1>3
  <2>. QED
    BY <2>1, <2>2, <1>1
<1>5. \E m \in 0..Len(r) : Cut(m)
  BY <1>3, <1>4
<1> DEFINE n == CHOOSE m \in 0..Len(r) : Cut(m)
<1>6. n \in 0..Len(r)
  <2> HIDE DEF Cut
  <2>. QED
    BY <1>5
<1>7. RolledBack(t, target) = [t EXCEPT !.records = SubSeq(@, 1, n)]
  BY DEF RolledBack
<1> HIDE DEF n
<1>8. /\ SubSeq(r, 1, n) \in Seq(RecordType) /\ Len(SubSeq(r, 1, n)) = n /\ n <= Len(r)
      /\ \A i \in 1..n : i \in 1..Len(r) /\ SubSeq(r, 1, n)[i] = r[i]
  BY <1>1, <1>6
<1>9. /\ RolledBack(t, target) \in TreeType
      /\ RolledBack(t, target).offset = t.offset
      /\ RolledBack(t, target).records = SubSeq(r, 1, n)
  BY <1>7, <1>8 DEF TreeType
<1>10. r = <<>> => RolledBack(t, target) = t
  <2>1. SUFFICES ASSUME r = <<>> PROVE RolledBack(t, target) = t
    OBVIOUS
  <2>2. SubSeq(r, 1, n) = r
    BY <2>1, <1>6
  <2>. QED
    BY <2>2, <1>7 DEF TreeType
<1>. QED
  BY <1>8, <1>9, <1>10

-----------------------------------------------------------------------------
(* The tracker *)

TrackedPair == [height : Nat, hash : Block \cup {ZeroHash}]

LEMMA PairTracked ==
  ASSUME NEW height \in Nat, NEW hash \in Block \cup {ZeroHash}
  PROVE  /\ Tracker!Pair(height, hash) \in TrackedPair
         /\ Tracker!Pair(height, hash).height = height
         /\ Tracker!Pair(height, hash).hash = hash
  BY DEF Tracker!Pair, TrackedPair

LEMMA ForkPointType ==
  ASSUME NEW w \in Seq(TrackedPair), NEW hash
  PROVE  Tracker!FindForkPoint(w, hash) \in Nat
<1> DEFINE hits == {i \in DOMAIN w : w[i].hash = hash}
<1>1. Len(w) \in Nat /\ DOMAIN w = 1..Len(w) /\ \A i \in 1..Len(w) : w[i].height \in Nat
  <2>1. \A i \in 1..Len(w) : w[i] \in TrackedPair
    OBVIOUS
  <2>. QED
    BY <2>1 DEF TrackedPair
<1>2. CASE hits # {}
  <2>1. hits \in SUBSET Nat /\ \A i \in hits : i <= Len(w)
    BY <1>1
  <2>2. \E i \in hits : \A j \in hits : j <= i
    <3> HIDE DEF hits
    <3>. QED
      BY <2>1, <1>1, <1>2, GreatestNat
  <2> DEFINE k == CHOOSE i \in hits : \A j \in hits : j <= i
  <2>3. k \in hits
    <3> HIDE DEF hits
    <3>. QED
      BY <2>2
  <2>4. Tracker!FindForkPoint(w, hash) = w[k].height
    BY <1>2 DEF Tracker!FindForkPoint
  <2> HIDE DEF k
  <2>. QED
    BY <2>3, <2>4, <1>1
<1>3. CASE hits = {} /\ w = <<>>
  BY <1>3 DEF Tracker!FindForkPoint
<1>4. CASE hits = {} /\ w # <<>>
  <2>1. Tracker!FindForkPoint(w, hash) = Tracker!Below(w[1].height)
    BY <1>4 DEF Tracker!FindForkPoint
  <2>2. w[1].height \in Nat
    BY <1>1, <1>4
  <2>. QED
    BY <2>1, <2>2 DEF Tracker!Below
<1>. QED
  BY <1>2, <1>3, <1>4

LEMMA TruncatedType ==
  ASSUME NEW w \in Seq(TrackedPair), NEW fork \in Nat
  PROVE  Tracker!TruncateTo(w, fork) \in Seq(TrackedPair)
<1> DEFINE Cut(m) == /\ m # 0 => w[m].height <= fork
                     /\ \A i \in (m + 1)..Len(w) : w[i].height > fork
           P == {i \in 1..Len(w) : w[i].height <= fork}
           S == {m \in 0..Len(w) : m = 0 \/ m \in P}
<1>1. Len(w) \in Nat /\ \A i \in 1..Len(w) : w[i].height \in Nat
  <2>1. \A i \in 1..Len(w) : w[i] \in TrackedPair
    OBVIOUS
  <2>. QED
    BY <2>1 DEF TrackedPair
<1>2. \E k \in S : \A m \in S : m <= k
  <2>1. S \in SUBSET Nat /\ S # {} /\ \A m \in S : m <= Len(w)
    BY <1>1
  <2> HIDE DEF S
  <2>. QED
    BY <2>1, <1>1, GreatestNat
<1>3. PICK k \in S : \A m \in S : m <= k
  BY <1>2
<1>4. ASSUME NEW i \in (k + 1)..Len(w)
      PROVE  w[i].height > fork
  <2>1. i \in 1..Len(w) /\ k < i /\ i \in Nat /\ k \in Nat
    BY <1>1
  <2>2. i \notin P
    BY <2>1, <1>3
  <2>. QED
    BY <2>1, <2>2, <1>1
<1>5. \E m \in 0..Len(w) : Cut(m)
  BY <1>3, <1>4
<1> DEFINE n == CHOOSE m \in 0..Len(w) : Cut(m)
<1>6. n \in 0..Len(w)
  <2> HIDE DEF Cut
  <2>. QED
    BY <1>5
<1>7. Tracker!TruncateTo(w, fork) = SubSeq(w, 1, n)
  BY DEF Tracker!TruncateTo
<1> HIDE DEF n
<1>. QED
  BY <1>1, <1>6, <1>7

(* push_block ends the window in the block that was pushed. *)
LEMMA PushedTip ==
  ASSUME NEW w \in Seq(TrackedPair), NEW height \in Nat, NEW hash \in Block, NEW prev
  PROVE  LET v == Tracker!Pushed(w, height, hash, prev)
         IN  v \in Seq(TrackedPair) /\ v # <<>> /\ Tracker!Tip(v) = Tracker!Pair(height, hash)
<1> DEFINE p == Tracker!Pair(height, hash)
           v == Tracker!Pushed(w, height, hash, prev)
<1>1. p \in TrackedPair
  BY PairTracked
<1>2. TrackerDepth \in Nat \ {0}
  BY Constants
<1>3. CASE w = <<>>
  <2>1. v = <<p>>
    BY <1>3 DEF Tracker!Pushed, Tracker!WithTip
  <2> HIDE DEF p, v
  <2>2. v \in Seq(TrackedPair) /\ v # <<>> /\ v[Len(v)] = p
    BY <2>1, <1>1
  <2>. QED
    BY <2>2 DEF Tracker!Tip, p, v
<1>4. CASE w # <<>> /\ Tracker!Links(w, height, prev)
  <2> DEFINE u == Append(w, p)
  <2>1. v = Tracker!PopFront(u)
    BY <1>4 DEF Tracker!Pushed
  <2> HIDE DEF p, v
  <2>2. u \in Seq(TrackedPair) /\ Len(u) = Len(w) + 1 /\ u[Len(u)] = p /\ Len(w) \in Nat
    BY <1>1
  <2> HIDE DEF u
  <2>3. CASE Len(u) > TrackerDepth
    <3>1. v = Tail(u)
      BY <2>1, <2>3 DEF Tracker!PopFront
    <3>2. /\ Tail(u) \in Seq(TrackedPair) /\ Len(Tail(u)) = Len(u) - 1 /\ Len(u) - 1 >= 1
          /\ \A i \in 1..Len(Tail(u)) : Tail(u)[i] = u[i + 1]
      BY <2>2, <2>3, <1>2
    <3>3. Len(v) \in 1..Len(v) /\ v \in Seq(TrackedPair) /\ v[Len(v)] = u[Len(v) + 1]
          /\ Len(v) + 1 = Len(u)
      BY <3>1, <3>2, <2>2
    <3>4. v # <<>> /\ v[Len(v)] = p
      BY <3>3, <2>2
    <3>. QED
      BY <3>3, <3>4 DEF Tracker!Tip, p, v
  <2>4. CASE ~(Len(u) > TrackerDepth)
    <3>1. v = u
      BY <2>1, <2>4 DEF Tracker!PopFront
    <3>. QED
      BY <3>1, <2>2 DEF Tracker!Tip, p, v
  <2>. QED
    BY <2>3, <2>4
<1>5. CASE w # <<>> /\ ~Tracker!Links(w, height, prev)
  <2> DEFINE u == Tracker!TruncateTo(w, Tracker!FindForkPoint(w, prev))
  <2>1. v = Append(u, p)
    BY <1>5 DEF Tracker!Pushed
  <2>2. u \in Seq(TrackedPair)
    BY ForkPointType, TruncatedType
  <2> HIDE DEF p, v, u
  <2>3. v \in Seq(TrackedPair) /\ v # <<>> /\ v[Len(v)] = p
    BY <2>1, <2>2, <1>1
  <2>. QED
    BY <2>3 DEF Tracker!Tip, p, v
<1>. QED
  BY <1>3, <1>4, <1>5

-----------------------------------------------------------------------------
(* What the tasks are doing, and in which order blocks reach the tree *)

Event ==
  [type : {"NewBlock"}, block : Block, prior : SUBSET Nat]
    \cup [type : {"Reorg"}, rollbackTo : Nat]
IsNew(event) == event.type = "NewBlock"

Types ==
  /\ best \in Block /\ switches \in Nat
  /\ pc \in {"down", "roots", "window", "sync", "synced", "saved", "follow", "snapshot", "exited"}
  /\ tree \in TreeType
  /\ \A t \in disk : t \in TreeType
  /\ unanchored \in BOOLEAN
  /\ task \in {"idle", "poll", "fetch", "send", "resend"}
  /\ current \in Nat
  /\ fetched \in Seq(Block)
  /\ prior \in SUBSET Nat
  /\ tracker \in Seq(TrackedPair)
  /\ queue \in Seq(Event)

(* The blocks read follow the last one handed on; a sync only hands on     *)
(* blocks; outside sync and follow there is no task and nothing in the     *)
(* channel.                                                                *)
RangesInv ==
  /\ \A i \in 1..Len(fetched) : HeightOf[fetched[i]] = current + i
  /\ task \in {"idle", "poll"} => fetched = <<>>
  /\ task \in {"send", "resend"} => fetched # <<>>
  /\ task = "resend" => Following
  /\ Syncing => \A i \in 1..Len(queue) : IsNew(queue[i])
  /\ ~Syncing /\ ~Following => queue = <<>> /\ task = "idle"
  /\ Following => tracker # <<>>
  /\ serving <=> Following
  /\ Following => live = tree
  /\ pc \in {"down", "roots"} => tree = NoTree
  /\ pc = "window" => tree.records = <<>>

(* Heights ascend from the tree over the channel to the last block handed  *)
(* on.                                                                     *)
OrderInv ==
  /\ HeightsUp(tree.records)
  /\ \A t \in disk : HeightsUp(t.records)
  /\ \A i, j \in 1..Len(queue) :
       i < j /\ IsNew(queue[i]) /\ IsNew(queue[j]) =>
         HeightOf[queue[i].block] < HeightOf[queue[j].block]
  /\ \A j \in 1..Len(queue) : IsNew(queue[j]) => HeightOf[queue[j].block] <= current
  /\ Syncing \/ Following =>
       \A i \in 1..Len(tree.records) :
         /\ HeightOf[tree.records[i].block] <= current
         /\ \A j \in 1..Len(queue) :
              IsNew(queue[j]) => HeightOf[tree.records[i].block] < HeightOf[queue[j].block]

Base == Types /\ RangesInv /\ OrderInv

LEMMA EventFields ==
  ASSUME NEW e \in Event
  PROVE  /\ IsNew(e) => e.block \in Block /\ e.prior \in SUBSET Nat /\ HeightOf[e.block] \in Nat
         /\ ~IsNew(e) <=> e.type = "Reorg"
         /\ ~IsNew(e) => e.rollbackTo \in Nat
<1>1. CASE e \in [type : {"NewBlock"}, block : Block, prior : SUBSET Nat]
  BY <1>1, HeightType DEF IsNew
<1>2. CASE e \in [type : {"Reorg"}, rollbackTo : Nat]
  BY <1>2 DEF IsNew
<1>. QED
  BY <1>1, <1>2 DEF Event

LEMMA NewBlockIs ==
  ASSUME NEW b \in Block, NEW size \in SUBSET Nat
  PROVE  /\ NewBlock(b, size) \in Event /\ IsNew(NewBlock(b, size))
         /\ NewBlock(b, size).block = b /\ NewBlock(b, size).prior = size
  BY DEF NewBlock, Event, IsNew

LEMMA ReorgIs ==
  ASSUME NEW target \in Nat
  PROVE  Reorg(target) \in Event /\ ~IsNew(Reorg(target))
  BY DEF Reorg, Event, IsNew

LEMMA BaseInit == Init => Base
<1> SUFFICES ASSUME Init
             PROVE  Base
  OBVIOUS
<1>1. /\ best \in Block /\ switches = 0
      /\ pc = "down" /\ tree = NoTree /\ serving = FALSE /\ disk = {}
      /\ task = "idle" /\ current = 0 /\ fetched = <<>> /\ prior = {} /\ tracker = <<>>
      /\ queue = <<>> /\ unanchored = FALSE
  BY ChainAssumption DEF Init, ChainInit
<1>2. ~Syncing /\ ~Following
  BY <1>1 DEF Syncing, Following
<1>3. fetched \in Seq(Block) /\ queue \in Seq(Event) /\ tracker \in Seq(TrackedPair)
      /\ Len(fetched) = 0 /\ Len(queue) = 0
  BY <1>1
<1>4. Types
  BY <1>1, <1>3, NoTreeType DEF Types
<1>5. RangesInv
  BY <1>1, <1>2, <1>3, NoTreeType DEF RangesInv
<1>6. OrderInv
  BY <1>1, <1>2, <1>3, NoTreeType DEF OrderInv
<1>. QED
  BY <1>4, <1>5, <1>6 DEF Base

(* Steps that leave the tree, the channel and what was read alone. *)
LEMMA EnvironmentBase == ASSUME Base, Environment PROVE Base'
<1>1. best' \in Block /\ switches' \in Nat
  BY DEF Environment, Grow, Switch, Base, Types
<1>2. UNCHANGED <<pc, tree, serving, live, disk, task, current, fetched, prior, tracker,
                  queue, unanchored>>
  BY DEF Environment, mainVars, taskVars, faultVars
<1>3. Types'
  BY <1>1, <1>2 DEF Base, Types
<1>4. RangesInv'
  BY <1>2 DEF Base, RangesInv, Syncing, Following
<1>5. OrderInv'
  BY <1>2 DEF Base, OrderInv, Syncing, Following
<1>. QED
  BY <1>3, <1>4, <1>5 DEF Base

LEMMA PollSyncBase == ASSUME Base, PollSync PROVE Base'
<1>1. task = "poll" /\ task' \in {"fetch", "idle"} /\ Syncing
  BY DEF PollSync
<1>2. UNCHANGED <<best, switches, pc, tree, serving, live, disk, current, fetched, prior, tracker,
                  queue, unanchored>>
  BY DEF PollSync, chainVars, mainVars, faultVars
<1>3. fetched = <<>>
  BY <1>1 DEF Base, RangesInv
<1>4. Types'
  BY <1>1, <1>2 DEF Base, Types
<1>5. RangesInv'
  BY <1>1, <1>2, <1>3 DEF Base, RangesInv, Syncing, Following
<1>6. OrderInv'
  BY <1>2 DEF Base, OrderInv, Syncing, Following
<1>. QED
  BY <1>4, <1>5, <1>6 DEF Base

LEMMA QuietBase ==
  ASSUME Base,
         \/ Environment \/ PollSync \/ PollFollow \/ PollNothingNew \/ RangeDone
         \/ SaveAfterSync \/ PeriodicSave \/ Stopped \/ UNCHANGED vars
  PROVE  Base'
<1>1. CASE Environment
  BY <1>1, EnvironmentBase
<1>2. CASE PollSync
  BY <1>2, PollSyncBase
<1> USE DEF Base, Types, RangesInv, OrderInv, Syncing, Following
<1>3. CASE PollFollow
  BY <1>3 DEF PollFollow, chainVars, mainVars, faultVars
<1>4. CASE RangeDone
  BY <1>4 DEF RangeDone, chainVars, taskVars, faultVars
<1>5. CASE SaveAfterSync
  BY <1>5 DEF SaveAfterSync, chainVars, taskVars
<1>6. CASE PeriodicSave
  BY <1>6 DEF PeriodicSave, chainVars, taskVars, faultVars
<1>7. CASE UNCHANGED vars
  BY <1>7 DEF vars, chainVars, mainVars, taskVars, faultVars
<1>. QED
  BY <1>1, <1>2, <1>3, <1>4, <1>5, <1>6, <1>7 DEF PollNothingNew, Stopped

(* The process starts from nothing again. *)
LEMMA FailBase ==
  ASSUME Base, Fail, unanchored' = unanchored
  PROVE  Base'
<1>1. /\ UNCHANGED <<best, switches, disk>>
      /\ pc' = "down" /\ tree' = NoTree /\ serving' = FALSE
      /\ task' = "idle" /\ current' = 0 /\ fetched' = <<>> /\ prior' = {} /\ tracker' = <<>>
      /\ queue' = <<>>
  BY DEF Fail, Idle, chainVars
<1>2. ~Syncing' /\ ~Following'
  BY <1>1 DEF Syncing, Following
<1>3. fetched' \in Seq(Block) /\ queue' \in Seq(Event) /\ tracker' \in Seq(TrackedPair)
      /\ Len(fetched') = 0 /\ Len(queue') = 0
  BY <1>1
<1>4. Types'
  BY <1>1, <1>3, NoTreeType DEF Base, Types
<1>5. RangesInv'
  BY <1>1, <1>2, <1>3, NoTreeType DEF RangesInv
<1>6. OrderInv'
  BY <1>1, <1>2, <1>3, NoTreeType DEF Base, OrderInv
<1>. QED
  BY <1>4, <1>5, <1>6 DEF Base

LEMMA FailureBase ==
  ASSUME Base, CompletingBlockMissing \/ TreeSizeMismatch \/ Crash
  PROVE  Base' /\ Fail /\ unanchored' = unanchored
  BY FailBase DEF CompletingBlockMissing, TreeSizeMismatch, Crash, faultVars

(* sync_range starts above the blocks of the tree. *)
LEMMA SyncRangeBase ==
  ASSUME Base, ~Syncing, ~Following,
         UNCHANGED <<chainVars, serving, disk, queue, faultVars>>,
         tree' \in TreeType, HeightsUp(tree'.records),
         NEW h \in Nat, NEW last, NEW size \in SUBSET Nat, SyncRange(h + 1, last, size),
         \A i \in 1..Len(tree'.records) : HeightOf[tree'.records[i].block] <= h
  PROVE  Base'
<1>1. queue = <<>> /\ task = "idle" /\ fetched = <<>> /\ ~serving /\ queue' = <<>>
      /\ Len(queue') = 0 /\ Len(fetched) = 0
  BY DEF Base, RangesInv
<1>2. UNCHANGED <<best, switches, serving, disk, unanchored, fetched, tracker>>
  BY DEF SyncRange, chainVars, faultVars
<1>3. CASE h + 1 <= last
  <2>1. pc' = "sync" /\ task' = "poll" /\ current' = h + 1 - 1 /\ prior' = size
    BY <1>3 DEF SyncRange
  <2>2. current' = h /\ current' \in Nat /\ Syncing' /\ ~Following'
    BY <2>1 DEF Syncing, Following
  <2>3. Types'
    BY <1>1, <1>2, <2>1, <2>2 DEF Base, Types
  <2>4. RangesInv'
    BY <1>1, <1>2, <2>1, <2>2 DEF Base, RangesInv
  <2>5. OrderInv'
    BY <1>1, <1>2, <2>1, <2>2 DEF Base, OrderInv
  <2>. QED
    BY <2>3, <2>4, <2>5 DEF Base
<1>4. CASE ~(h + 1 <= last)
  <2>1. pc' = "synced" /\ UNCHANGED <<task, current, prior>>
    BY <1>4 DEF SyncRange
  <2>2. ~Syncing' /\ ~Following'
    BY <2>1 DEF Syncing, Following
  <2>3. Types'
    BY <1>1, <1>2, <2>1, <2>2 DEF Base, Types
  <2>4. RangesInv'
    BY <1>1, <1>2, <2>1, <2>2 DEF Base, RangesInv
  <2>5. OrderInv'
    BY <1>1, <1>2, <2>1, <2>2 DEF Base, OrderInv
  <2>. QED
    BY <2>3, <2>4, <2>5 DEF Base
<1>. QED
  BY <1>3, <1>4

LEMMA StartBase ==
  ASSUME Base, Start
  PROVE  Base'
<1>1. ~Syncing /\ ~Following
  BY DEF Start, Syncing, Following
<1>2. UNCHANGED <<chainVars, serving, disk, queue, faultVars>>
  BY DEF Start
<1>3. CASE \E t \in disk : tree' = t /\ SyncRange(Resume(t), HeightOf[best], ResumeSize(t))
  <2>1. PICK t \in disk : tree' = t /\ SyncRange(Resume(t), HeightOf[best], ResumeSize(t))
    BY <1>3
  <2>2. t \in TreeType /\ HeightsUp(t.records)
    BY DEF Base, Types, OrderInv
  <2>3. Latest(t) \in Nat /\ Resume(t) = Latest(t) + 1
    BY <2>2, LatestOf DEF Resume
  <2>4. ResumeSize(t) \in SUBSET Nat
    BY <2>2, SizeType DEF ResumeSize, NoSizeIfZero
  <2>5. \A i \in 1..Len(tree'.records) : HeightOf[tree'.records[i].block] <= Latest(t)
    BY <2>1, <2>2, LatestIsHighest
  <2>6. SyncRange(Latest(t) + 1, HeightOf[best], ResumeSize(t))
    BY <2>1, <2>3
  <2>. QED
    BY <1>1, <1>2, <2>1, <2>2, <2>3, <2>4, <2>5, <2>6, SyncRangeBase
<1>4. CASE /\ pc' = "roots"
           /\ UNCHANGED <<tree, task, current, goal, fetched, prior, tracker>>
  <2>1. UNCHANGED <<best, switches, tree, serving, disk, task, current, fetched, prior, tracker,
                    queue, unanchored>>
    BY <1>2, <1>4 DEF chainVars, faultVars
  <2>2. ~Syncing' /\ ~Following' /\ pc = "down"
    BY <1>4 DEF Syncing, Following, Start
  <2>3. Types'
    BY <1>4, <2>1 DEF Base, Types
  <2>4. RangesInv'
    BY <1>1, <1>4, <2>1, <2>2 DEF Base, RangesInv
  <2>5. OrderInv'
    BY <1>1, <2>1, <2>2 DEF Base, OrderInv
  <2>. QED
    BY <2>3, <2>4, <2>5 DEF Base
<1>. QED
  BY <1>3, <1>4 DEF Start

(* The window starts at a leaf of the branch. *)
LEMMA WindowStartBounds ==
  ASSUME best \in Block, CompletedShards >= WindowLimit
  PROVE  WindowStart \in Nat /\ 0 < WindowStart /\ WindowStart <= TotalAt[best]
<1>1. ShardLeaves \in Nat \ {0} /\ WindowLimit \in Nat \ {0} /\ TotalAt[best] \in Nat
  BY Constants, TotalType
<1>. QED
  BY <1>1, WholeShards DEF CompletedShards, WindowStart

(* The block in which an offset lies. *)
Completes(b, offset) == TotalAt[b] >= offset /\ TotalAt[b] - Commitments[b] < offset

LEMMA CompletingHeightIs ==
  ASSUME best \in Block, CompletedShards >= WindowLimit
  PROVE  \E b \in ChainOf[best] : /\ b \in Block
                                  /\ Completes(b, WindowStart)
                                  /\ CompletingHeight(WindowStart) = HeightOf[b]
<1> DEFINE o == WindowStart
           c == CHOOSE b \in ChainOf[best] :
                  TotalAt[b] >= o /\ TotalAt[b] - Commitments[b] < o
<1>1. o \in Nat /\ 0 < o /\ o <= TotalAt[best]
  BY WindowStartBounds
<1>2. \E b \in ChainOf[best] : TotalAt[b] >= o /\ TotalAt[b] - Commitments[b] < o
  <2> HIDE DEF o
  <2>. QED
    BY <1>1, CompletingBlock
<1>3. c \in ChainOf[best] /\ TotalAt[c] >= o /\ TotalAt[c] - Commitments[c] < o
  <2> HIDE DEF o
  <2>. QED
    BY <1>2
<1>4. CompletingHeight(WindowStart) = HeightOf[c]
  BY DEF CompletingHeight
<1>5. c \in Block
  BY <1>3, ChainBelowTip
<1>. QED
  BY <1>3, <1>4, <1>5 DEF Completes

LEMMA ReadRootsBase ==
  ASSUME Base, ReadRoots
  PROVE  Base'
<1>1. ~Syncing /\ ~Following
  BY DEF ReadRoots, Syncing, Following
<1>2. UNCHANGED <<chainVars, serving, disk, queue, faultVars>> /\ best \in Block
  BY DEF ReadRoots, Base, Types
<1>3. CASE CompletedShards >= WindowLimit
  <2>1. /\ tree' = [offset |-> WindowStart, records |-> <<>>]
        /\ current' = CompletingHeight(WindowStart)
        /\ pc' = "window"
        /\ UNCHANGED <<task, goal, to, fetched, prior, tracker>>
    BY <1>3 DEF ReadRoots
  <2>2. WindowStart \in Nat /\ current' \in Nat
    BY <1>2, <1>3, <2>1, WindowStartBounds, CompletingHeightIs, HeightType
  <2>3. tree' \in TreeType /\ tree'.records = <<>> /\ Len(tree'.records) = 0
    BY <2>1, <2>2 DEF TreeType
  <2>4. queue = <<>> /\ queue' = <<>> /\ Len(queue') = 0 /\ task = "idle" /\ fetched = <<>>
        /\ Len(fetched) = 0
    BY <1>1, <1>2 DEF Base, RangesInv
  <2>5. ~Syncing' /\ ~Following'
    BY <2>1 DEF Syncing, Following
  <2>6. Types'
    BY <1>2, <2>1, <2>2, <2>3 DEF Base, Types, chainVars, faultVars
  <2>7. RangesInv'
    BY <1>1, <1>2, <2>1, <2>4, <2>5 DEF Base, RangesInv
  <2>8. OrderInv'
    BY <1>2, <2>3, <2>4, <2>5 DEF Base, OrderInv, HeightsUp
  <2>. QED
    BY <2>6, <2>7, <2>8 DEF Base
<1>4. CASE ~(CompletedShards >= WindowLimit)
  <2>1. SyncRange(Floor, to, {}) /\ UNCHANGED tree
    BY <1>4 DEF ReadRoots
  <2>2. tree \in TreeType /\ HeightsUp(tree.records)
    BY DEF Base, Types, OrderInv
  <2>3. tree.records = <<>>
    BY NoTreeType DEF ReadRoots, Base, RangesInv
  <2>4. Floor - 1 \in Nat /\ Floor - 1 + 1 = Floor
    BY Constants
  <2>5. \A i \in 1..Len(tree'.records) : HeightOf[tree'.records[i].block] <= Floor - 1
    BY <2>1, <2>3
  <2>6. SyncRange((Floor - 1) + 1, to, {}) /\ {} \in SUBSET Nat
    BY <2>1, <2>4
  <2>. QED
    BY <1>1, <1>2, <2>1, <2>2, <2>4, <2>5, <2>6, SyncRangeBase
<1>. QED
  BY <1>3, <1>4

(* What the completing block brings into the window. *)
LEMMA SeededTree ==
  ASSUME Base, pc = "window", NEW b \in Block
  PROVE  /\ Spillover(b, tree.offset) \in Nat
         /\ Seeded(b) \in TreeType
         /\ Seeded(b).offset = tree.offset
         /\ Spillover(b, tree.offset) = 0 => Seeded(b) = tree /\ Seeded(b).records = <<>>
         /\ Spillover(b, tree.offset) # 0 =>
              /\ Len(Seeded(b).records) = 1
              /\ Seeded(b).records[1].block = b
              /\ Seeded(b).records[1].num = Spillover(b, tree.offset)
<1> DEFINE n == Spillover(b, tree.offset)
<1>1. tree \in TreeType /\ tree.offset \in Nat /\ tree.records = <<>>
  BY TreeFields DEF Base, Types, RangesInv
<1>2. TotalAt[b] \in Nat /\ Commitments[b] \in Nat
  BY TotalType
<1>3. n \in Nat
  BY <1>1, <1>2 DEF Spillover
<1> HIDE DEF n
<1>4. CASE n = 0
  BY <1>1, <1>3, <1>4 DEF Seeded, n
<1>5. CASE n # 0
  <2>1. Seeded(b) = [tree EXCEPT !.records = <<BlockRecord(b, n)>>]
    BY <1>5 DEF Seeded, n
  <2>2. BlockRecord(b, n) \in RecordType /\ BlockRecord(b, n).block = b /\ BlockRecord(b, n).num = n
    BY <1>3 DEF BlockRecord, RecordType
  <2> DEFINE r == BlockRecord(b, n)
  <2> HIDE DEF r
  <2>3. <<r>> \in Seq(RecordType) /\ Len(<<r>>) = 1 /\ <<r>>[1] = r
    BY <2>2 DEF r
  <2>4. Seeded(b) \in TreeType /\ Seeded(b).offset = tree.offset /\ Seeded(b).records = <<r>>
    BY <2>1, <2>3, <1>1 DEF TreeType, r
  <2>. QED
    BY <2>2, <2>3, <2>4, <1>3, <1>5 DEF n, r
<1>. QED
  BY <1>4, <1>5

LEMMA ReadCompletingBlockBase ==
  ASSUME Base, ReadCompletingBlock
  PROVE  Base'
<1> DEFINE b == BlockAt(current)
<1>1. /\ pc = "window" /\ ~Syncing /\ ~Following /\ tree' = Seeded(b)
      /\ UNCHANGED <<chainVars, serving, disk, queue, faultVars>>
      /\ SyncRange(current + 1, to, {Size(tree')})
  BY DEF ReadCompletingBlock, Syncing, Following
<1>2. b \in Block /\ HeightOf[b] = current /\ current \in Nat
  BY BlockAtHeight DEF ReadCompletingBlock, Base, Types
<1> HIDE DEF b
<1>3. /\ Seeded(b) \in TreeType
      /\ \/ Seeded(b).records = <<>>
         \/ Len(Seeded(b).records) = 1 /\ Seeded(b).records[1].block = b
  BY <1>1, <1>2, SeededTree
<1>4. /\ tree' \in TreeType
      /\ Len(tree'.records) \in {0, 1}
      /\ \A i \in 1..Len(tree'.records) : i = 1 /\ HeightOf[tree'.records[i].block] = current
  BY <1>1, <1>2, <1>3
<1>5. HeightsUp(tree'.records)
  BY <1>4 DEF HeightsUp
<1>6. \A i \in 1..Len(tree'.records) : HeightOf[tree'.records[i].block] <= current
  BY <1>2, <1>4
<1>7. {Size(tree')} \in SUBSET Nat
  BY <1>4, SizeType
<1>. QED
  BY <1>1, <1>2, <1>4, <1>5, <1>6, <1>7, SyncRangeBase

(* The head of the channel. *)
LEMMA QueueHead ==
  ASSUME Base, queue # <<>>
  PROVE  /\ Syncing \/ Following
         /\ Head(queue) = queue[1] /\ Head(queue) \in Event /\ 1 \in 1..Len(queue)
         /\ Len(queue) \in Nat \ {0}
         /\ Tail(queue) \in Seq(Event) /\ Len(Tail(queue)) = Len(queue) - 1
         /\ \A i \in 1..Len(Tail(queue)) :
              /\ Tail(queue)[i] = queue[i + 1] /\ i + 1 \in 1..Len(queue)
              /\ Tail(queue)[i] \in Event
<1>1. Syncing \/ Following
  BY DEF Base, RangesInv
<1>2. queue \in Seq(Event)
  BY DEF Base, Types
<1>3. Tail(queue) \in Seq(Event)
  BY <1>2
<1>. QED
  BY <1>1, <1>2, <1>3

(* The main task takes in a block. *)
Takes(b) ==
  /\ queue # <<>> /\ IsNew(Head(queue)) /\ b = Head(queue).block
  /\ tree' = Appended(tree, b)
  /\ queue' = Tail(queue)
  /\ UNCHANGED <<chainVars, serving, disk, taskVars, faultVars>>
  /\ Syncing' = Syncing /\ Following' = Following
  /\ pc' # "exited" /\ pc' \in {"sync", "follow", "snapshot"}
  /\ Following => live' = tree'

LEMMA TakesBlock ==
  ASSUME Base, AppendSynced \/ ApplyNewBlock
  PROVE  Takes(Head(queue).block) /\ Fits(tree, Head(queue).prior)
<1>1. CASE AppendSynced
  <2>1. Syncing /\ queue # <<>> /\ ~Following
    BY <1>1 DEF AppendSynced, Syncing, Following
  <2>2. IsNew(Head(queue))
    BY <2>1, QueueHead DEF Base, RangesInv
  <2>. QED
    BY <1>1, <2>1, <2>2 DEF AppendSynced, Takes, Syncing, Following
<1>2. CASE ApplyNewBlock
  BY <1>2 DEF ApplyNewBlock, Turn, Takes, IsNew, Syncing, Following
<1>. QED
  BY <1>1, <1>2

LEMMA TakesBase ==
  ASSUME Base, NEW b, Takes(b)
  PROVE  Base' /\ b \in Block
<1>1. /\ Syncing \/ Following
      /\ Head(queue) = queue[1] /\ Head(queue) \in Event /\ 1 \in 1..Len(queue)
      /\ Len(queue) \in Nat \ {0}
      /\ Tail(queue) \in Seq(Event) /\ Len(Tail(queue)) = Len(queue) - 1
      /\ \A i \in 1..Len(Tail(queue)) : Tail(queue)[i] = queue[i + 1] /\ i + 1 \in 1..Len(queue)
  BY QueueHead DEF Takes
<1>2. b \in Block /\ HeightOf[b] \in Nat /\ IsNew(queue[1]) /\ b = queue[1].block
  BY <1>1, EventFields DEF Takes
<1>3. /\ queue' = Tail(queue) /\ tree' = Appended(tree, b) /\ tree \in TreeType
      /\ UNCHANGED <<best, switches, serving, disk, task, current, fetched, prior, tracker, unanchored>>
      /\ Syncing' = Syncing /\ Following' = Following
      /\ pc' \in {"sync", "follow", "snapshot"}
      /\ Following => live' = tree'
  BY DEF Takes, chainVars, taskVars, faultVars, Base, Types
<1>4. /\ tree' \in TreeType
      /\ Len(tree'.records) = Len(tree.records) + 1
      /\ \A i \in 1..Len(tree.records) : tree'.records[i] = tree.records[i]
      /\ tree'.records[Len(tree.records) + 1].block = b
      /\ Len(tree.records) \in Nat
  BY <1>2, <1>3, AppendedTree, TreeFields
<1>5. \A i \in 1..Len(tree.records) : HeightOf[tree.records[i].block] < HeightOf[b]
  BY <1>1, <1>2 DEF Base, OrderInv
<1>6. HeightsUp(tree'.records)
  BY <1>2, <1>3, <1>5, AppendedUp DEF Base, OrderInv
<1>7. Types'
  BY <1>1, <1>3, <1>4 DEF Base, Types
<1>8. RangesInv'
  <2>1. Syncing => \A i \in 1..Len(queue') : IsNew(queue'[i])
    BY <1>1, <1>3 DEF Base, RangesInv
  <2>. QED
    BY <2>1, <1>1, <1>3 DEF Base, RangesInv
<1>9. ASSUME NEW i \in 1..Len(queue'), NEW j \in 1..Len(queue'), i < j,
             IsNew(queue'[i]), IsNew(queue'[j])
      PROVE  HeightOf[queue'[i].block] < HeightOf[queue'[j].block]
  <2>1. i + 1 < j + 1 /\ i + 1 \in 1..Len(queue) /\ j + 1 \in 1..Len(queue)
        /\ queue'[i] = queue[i + 1] /\ queue'[j] = queue[j + 1]
    BY <1>1, <1>3, <1>9
  <2>. QED
    BY <2>1, <1>9 DEF Base, OrderInv
<1>10. ASSUME NEW j \in 1..Len(queue'), IsNew(queue'[j])
       PROVE  HeightOf[queue'[j].block] <= current /\ HeightOf[b] < HeightOf[queue'[j].block]
  <2>1. 1 < j + 1 /\ j + 1 \in 1..Len(queue) /\ queue'[j] = queue[j + 1]
    BY <1>1, <1>3, <1>10
  <2>. QED
    BY <2>1, <1>1, <1>2, <1>10 DEF Base, OrderInv
<1>11. ASSUME NEW i \in 1..Len(tree'.records)
       PROVE  /\ HeightOf[tree'.records[i].block] <= current
              /\ \A j \in 1..Len(queue') :
                   IsNew(queue'[j]) => HeightOf[tree'.records[i].block] < HeightOf[queue'[j].block]
  <2>1. CASE i \in 1..Len(tree.records)
    <3>1. tree'.records[i] = tree.records[i]
      BY <2>1, <1>4
    <3>2. HeightOf[tree.records[i].block] <= current
      BY <2>1, <1>1 DEF Base, OrderInv
    <3>3. ASSUME NEW j \in 1..Len(queue'), IsNew(queue'[j])
          PROVE  HeightOf[tree.records[i].block] < HeightOf[queue'[j].block]
      <4>1. j + 1 \in 1..Len(queue) /\ queue'[j] = queue[j + 1]
        BY <1>1, <1>3, <3>3
      <4>. QED
        BY <4>1, <3>3, <2>1, <1>1 DEF Base, OrderInv
    <3>. QED
      BY <3>1, <3>2, <3>3
  <2>2. CASE i = Len(tree.records) + 1
    <3>1. HeightOf[b] <= current
      BY <1>1, <1>2 DEF Base, OrderInv
    <3>. QED
      BY <3>1, <2>2, <1>4, <1>10
  <2>. QED
    BY <2>1, <2>2, <1>4
<1>12. OrderInv'
  BY <1>3, <1>6, <1>9, <1>10, <1>11 DEF Base, OrderInv
<1>. QED
  BY <1>2, <1>7, <1>8, <1>12 DEF Base

LEMMA ApplyReorgBase ==
  ASSUME Base, ApplyReorg
  PROVE  Base'
<1>1. /\ Following
      /\ Head(queue) = queue[1] /\ Head(queue) \in Event
      /\ Len(queue) \in Nat \ {0}
      /\ Tail(queue) \in Seq(Event) /\ Len(Tail(queue)) = Len(queue) - 1
      /\ \A i \in 1..Len(Tail(queue)) : Tail(queue)[i] = queue[i + 1] /\ i + 1 \in 1..Len(queue)
  BY QueueHead DEF ApplyReorg, Following
<1> DEFINE target == Head(queue).rollbackTo
<1>2. target \in Nat
  BY <1>1, EventFields DEF ApplyReorg, IsNew
<1>3. /\ queue' = Tail(queue) /\ tree' = RolledBack(tree, target) /\ tree \in TreeType
      /\ UNCHANGED <<best, switches, serving, disk, task, current, fetched, prior, tracker, unanchored>>
      /\ pc' \in {"follow", "snapshot"} /\ live' = tree'
  BY DEF ApplyReorg, Turn, chainVars, taskVars, faultVars, Base, Types
<1> HIDE DEF target
<1>4. Following' /\ ~Syncing' /\ ~Syncing
  BY <1>1, <1>3 DEF Following, Syncing
<1>5. /\ tree' \in TreeType
      /\ Len(tree'.records) <= Len(tree.records)
      /\ \A i \in 1..Len(tree'.records) :
           i \in 1..Len(tree.records) /\ tree'.records[i] = tree.records[i]
  BY <1>2, <1>3, RolledBackTree
<1>6. HeightsUp(tree'.records)
  BY <1>5 DEF Base, OrderInv, HeightsUp
<1>7. Types'
  BY <1>1, <1>3, <1>5 DEF Base, Types
<1>8. RangesInv'
  BY <1>1, <1>3, <1>4 DEF Base, RangesInv
<1>9. ASSUME NEW i \in 1..Len(queue'), NEW j \in 1..Len(queue'), i < j,
             IsNew(queue'[i]), IsNew(queue'[j])
      PROVE  HeightOf[queue'[i].block] < HeightOf[queue'[j].block]
  <2>1. i + 1 < j + 1 /\ i + 1 \in 1..Len(queue) /\ j + 1 \in 1..Len(queue)
        /\ queue'[i] = queue[i + 1] /\ queue'[j] = queue[j + 1]
    BY <1>1, <1>3, <1>9
  <2>. QED
    BY <2>1, <1>9 DEF Base, OrderInv
<1>10. \A j \in 1..Len(queue') : IsNew(queue'[j]) => HeightOf[queue'[j].block] <= current
  BY <1>1, <1>3 DEF Base, OrderInv
<1>11. ASSUME NEW i \in 1..Len(tree'.records)
       PROVE  /\ HeightOf[tree'.records[i].block] <= current
              /\ \A j \in 1..Len(queue') :
                   IsNew(queue'[j]) => HeightOf[tree'.records[i].block] < HeightOf[queue'[j].block]
  BY <1>1, <1>3, <1>5 DEF Base, OrderInv
<1>12. OrderInv'
  BY <1>3, <1>6, <1>9, <1>10, <1>11 DEF Base, OrderInv
<1>. QED
  BY <1>7, <1>8, <1>12 DEF Base

LEMMA StartServingBase ==
  ASSUME Base, StartServing
  PROVE  Base' /\ tracker' = <<Tracker!Pair(Latest(tree), LatestHash(tree))>>
<1>1. /\ pc = "saved" /\ pc' = "follow" /\ ~Syncing /\ ~Following /\ Following' /\ ~Syncing'
      /\ UNCHANGED <<best, switches, tree, fetched, queue, unanchored>>
      /\ live' = tree' /\ serving' /\ disk' = {tree} /\ task' = "poll"
      /\ current' = Latest(tree)
      /\ prior' = NoSizeIfZero(Size(tree))
      /\ tracker' = <<Tracker!Pair(Latest(tree), LatestHash(tree))>>
      /\ serving' = TRUE
  BY DEF StartServing, Syncing, Following, StartOfFollow, Tracker!WithTip, chainVars, faultVars
<1>2. tree \in TreeType /\ queue = <<>> /\ fetched = <<>> /\ HeightsUp(tree.records)
  BY <1>1 DEF Base, Types, RangesInv, OrderInv
<1>3. current' \in Nat /\ LatestHash(tree) \in Block \cup {ZeroHash}
  BY <1>1, <1>2, LatestOf
<1> DEFINE p == Tracker!Pair(Latest(tree), LatestHash(tree))
<1>4. p \in TrackedPair
  BY <1>1, <1>3, PairTracked
<1> HIDE DEF p
<1>5. <<p>> \in Seq(TrackedPair) /\ <<p>> # <<>>
  BY <1>4
<1>6. prior' \in SUBSET Nat
  BY <1>1, <1>2, SizeType DEF NoSizeIfZero
<1>7. Len(queue') = 0 /\ Len(fetched') = 0 /\ queue' = <<>> /\ fetched' = <<>>
  BY <1>1, <1>2
<1>8. Types'
  BY <1>1, <1>2, <1>3, <1>5, <1>6, <1>7 DEF Base, Types, p
<1>9. RangesInv'
  BY <1>1, <1>5, <1>7 DEF RangesInv, p
<1>10. OrderInv'
  <2>1. \A i \in 1..Len(tree.records) : HeightOf[tree.records[i].block] <= current'
    BY <1>1, <1>2, LatestIsHighest
  <2>. QED
    BY <2>1, <1>1, <1>2, <1>7 DEF OrderInv
<1>. QED
  BY <1>1, <1>8, <1>9, <1>10 DEF Base

LEMMA ChannelClosedBase ==
  ASSUME Base, ChannelClosed
  PROVE  Base'
<1>1. /\ queue = <<>> /\ task = "idle" /\ pc' = "exited" /\ serving' = FALSE /\ tree' = NoTree
      /\ UNCHANGED <<best, switches, disk, task, current, fetched, prior, tracker, queue, unanchored>>
  BY DEF ChannelClosed, chainVars, taskVars, faultVars
<1>2. ~Syncing' /\ ~Following' /\ Len(queue') = 0 /\ queue' = <<>>
  BY <1>1 DEF Syncing, Following
<1>3. Types'
  BY <1>1, NoTreeType DEF Base, Types
<1>4. RangesInv'
  BY <1>1, <1>2 DEF Base, RangesInv
<1>5. OrderInv'
  BY <1>1, <1>2, NoTreeType DEF Base, OrderInv
<1>. QED
  BY <1>3, <1>4, <1>5 DEF Base

LEMMA FetchBlockBase ==
  ASSUME Base, FetchBlock
  PROVE  Base' /\ (Syncing \/ Following)
<1> DEFINE b == BlockAt(NextHeight)
<1>1. b \in Block /\ HeightOf[b] = NextHeight
  BY BlockAtHeight DEF FetchBlock, Base, Types
<1>2. /\ fetched \in Seq(Block) /\ Len(fetched) \in Nat /\ current \in Nat
      /\ NextHeight = current + 1 + Len(fetched)
  BY DEF Base, Types, NextHeight
<1>3. fetched' = Append(fetched, b) /\ task = "fetch" /\ task' \in {"send", "fetch"}
  BY DEF FetchBlock
<1> HIDE DEF b
<1>4. /\ fetched' \in Seq(Block) /\ Len(fetched') = Len(fetched) + 1 /\ fetched' # <<>>
      /\ \A i \in 1..Len(fetched) : fetched'[i] = fetched[i]
      /\ fetched'[Len(fetched) + 1] = b
  BY <1>1, <1>2, <1>3
<1>5. ASSUME NEW i \in 1..Len(fetched')
      PROVE  HeightOf[fetched'[i]] = current + i
  <2>1. CASE i \in 1..Len(fetched)
    BY <2>1, <1>4 DEF Base, RangesInv
  <2>2. CASE i = Len(fetched) + 1
    BY <2>2, <1>1, <1>2, <1>4
  <2>. QED
    BY <2>1, <2>2, <1>2, <1>4
<1>6. UNCHANGED <<best, switches, pc, tree, live, serving, disk, current, prior, tracker, queue,
                  unanchored>>
  BY DEF FetchBlock, chainVars, mainVars, faultVars
<1>7. Syncing \/ Following
  BY <1>3 DEF Base, RangesInv
<1>8. Types'
  BY <1>3, <1>4, <1>6 DEF Base, Types
<1>9. RangesInv'
  BY <1>3, <1>4, <1>5, <1>6, <1>7 DEF Base, RangesInv, Syncing, Following
<1>10. OrderInv'
  BY <1>6 DEF Base, OrderInv, Syncing, Following
<1>. QED
  BY <1>7, <1>8, <1>9, <1>10 DEF Base

LEMMA EndTaskBase ==
  ASSUME Base, BlockMissing \/ CallFails
  PROVE  /\ Base' /\ task' = "idle" /\ fetched' = <<>> /\ task # "resend" /\ (Syncing \/ Following)
         /\ UNCHANGED <<best, switches, pc, tree, live, serving, disk, current, prior, tracker,
                        queue, unanchored>>
<1>1. /\ task' = "idle" /\ fetched' = <<>> /\ task \in {"fetch", "poll"}
      /\ UNCHANGED <<best, switches, pc, tree, live, serving, disk, current, prior, tracker, queue,
                     unanchored>>
  BY DEF BlockMissing, CallFails, EndTask, chainVars, mainVars
<1>2. Len(fetched') = 0 /\ fetched' \in Seq(Block)
  BY <1>1
<1>3. Syncing \/ Following
  BY <1>1 DEF Base, RangesInv
<1>4. Types'
  BY <1>1, <1>2 DEF Base, Types
<1>5. RangesInv'
  BY <1>1, <1>2, <1>3 DEF Base, RangesInv, Syncing, Following
<1>6. OrderInv'
  BY <1>1 DEF Base, OrderInv, Syncing, Following
<1>. QED
  BY <1>1, <1>3, <1>4, <1>5, <1>6 DEF Base

(* Something enters the channel. *)
LEMMA QueueAppend ==
  ASSUME Base, NEW e \in Event, queue' = Append(queue, e)
  PROVE  /\ queue' \in Seq(Event) /\ Len(queue') = Len(queue) + 1 /\ Len(queue) \in Nat
         /\ queue' # <<>>
         /\ \A i \in 1..Len(queue) : queue'[i] = queue[i]
         /\ queue'[Len(queue) + 1] = e
<1>1. queue \in Seq(Event)
  BY DEF Base, Types
<1>. QED
  BY <1>1

LEMMA FetchedHead ==
  ASSUME Base, fetched # <<>>
  PROVE  /\ Head(fetched) \in Block
         /\ HeightOf[Head(fetched)] = current + 1
         /\ Head(fetched) = fetched[1] /\ 1 \in 1..Len(fetched)
         /\ Tail(fetched) \in Seq(Block) /\ Len(Tail(fetched)) = Len(fetched) - 1
         /\ \A i \in 1..Len(Tail(fetched)) :
              Tail(fetched)[i] = fetched[i + 1] /\ i + 1 \in 1..Len(fetched)
<1>1. fetched \in Seq(Block)
  BY DEF Base, Types
<1>2. 1 \in 1..Len(fetched) /\ Head(fetched) = fetched[1] /\ fetched[1] \in Block
  BY <1>1
<1>3. HeightOf[fetched[1]] = current + 1
  BY <1>2 DEF Base, RangesInv
<1>4. Tail(fetched) \in Seq(Block)
  BY <1>1
<1>. QED
  BY <1>1, <1>2, <1>3, <1>4

LEMMA HandOnBase ==
  ASSUME Base, Syncing \/ Following, task \in {"send", "resend"},
         NEW size \in SUBSET Nat, HandOn(size),
         tracker' \in Seq(TrackedPair), tracker' # <<>> \/ ~Following
  PROVE  Base'
<1> DEFINE b == Head(fetched)
           e == NewBlock(b, size)
<1>1. fetched # <<>> /\ current \in Nat
  BY DEF Base, Types, RangesInv
<1>2. /\ b \in Block /\ HeightOf[b] = current + 1
      /\ Tail(fetched) \in Seq(Block) /\ Len(Tail(fetched)) = Len(fetched) - 1
      /\ \A i \in 1..Len(Tail(fetched)) :
           Tail(fetched)[i] = fetched[i + 1] /\ i + 1 \in 1..Len(fetched)
  BY <1>1, FetchedHead
<1>3. e \in Event /\ IsNew(e) /\ e.block = b /\ TreeSizeAfter(b) \in SUBSET Nat
  BY <1>2, NewBlockIs, TotalType DEF TreeSizeAfter, NoSizeIfZero
<1>4. /\ queue' = Append(queue, e) /\ current' = current + 1
      /\ fetched' = Tail(fetched) /\ prior' = TreeSizeAfter(b)
      /\ task' = (IF Tail(fetched) = <<>> THEN "poll" ELSE "send")
      /\ UNCHANGED <<best, switches, pc, tree, live, serving, disk, unanchored>>
  BY <1>2 DEF HandOn, Send, chainVars, mainVars, faultVars
<1> HIDE DEF e, b
<1>5. /\ queue' \in Seq(Event) /\ Len(queue') = Len(queue) + 1 /\ Len(queue) \in Nat
      /\ \A i \in 1..Len(queue) : queue'[i] = queue[i]
      /\ queue'[Len(queue) + 1] = e
  BY <1>3, <1>4, QueueAppend
<1>6. Syncing' = Syncing /\ Following' = Following
  BY <1>4 DEF Syncing, Following
<1>7. current' \in Nat /\ current < current'
  BY <1>1, <1>4
<1>8. Types'
  <2>1. task' \in {"poll", "send"} /\ prior' \in SUBSET Nat
    BY <1>3, <1>4
  <2>. QED
    BY <2>1, <1>2, <1>4, <1>5, <1>7 DEF Base, Types
<1>9. RangesInv'
  <2>1. ASSUME NEW i \in 1..Len(fetched')
        PROVE  HeightOf[fetched'[i]] = current' + i
    <3>1. i + 1 \in 1..Len(fetched) /\ fetched'[i] = fetched[i + 1]
          /\ current + (i + 1) = current' + i
      BY <2>1, <1>1, <1>2, <1>4
    <3>2. HeightOf[fetched[i + 1]] = current + (i + 1)
      BY <3>1 DEF Base, RangesInv
    <3>. QED
      BY <3>1, <3>2
  <2>2. Syncing => \A i \in 1..Len(queue') : IsNew(queue'[i])
    BY <1>3, <1>5 DEF Base, RangesInv
  <2>3. task' \in {"poll", "send"} /\ (task' = "poll" <=> fetched' = <<>>)
    BY <1>4
  <2>4. (pc' \in {"down", "roots"} => tree' = NoTree) /\ (pc' = "window" => tree'.records = <<>>)
    BY <1>4 DEF Base, RangesInv
  <2>5. Following' => live' = tree' /\ tracker' # <<>>
    BY <1>4, <1>6 DEF Base, RangesInv
  <2>6. serving' <=> Following'
    BY <1>4, <1>6 DEF Base, RangesInv
  <2>. QED
    BY <2>1, <2>2, <2>3, <2>4, <2>5, <2>6, <1>6 DEF RangesInv
<1>10. \A j \in 1..Len(queue') :
         (j \in 1..Len(queue) /\ queue'[j] = queue[j]) \/ queue'[j] = e
  BY <1>5
<1>11. ASSUME NEW j \in 1..Len(queue'), IsNew(queue'[j])
       PROVE  HeightOf[queue'[j].block] <= current' /\ HeightOf[queue'[j].block] \in Nat
  <2>1. CASE j \in 1..Len(queue) /\ queue'[j] = queue[j]
    <3>1. HeightOf[queue[j].block] <= current
      BY <2>1, <1>11 DEF Base, OrderInv
    <3>2. queue[j] \in Event
      BY <2>1 DEF Base, Types
    <3>3. HeightOf[queue[j].block] \in Nat
      BY <3>2, <2>1, <1>11, EventFields
    <3>. QED
      BY <3>1, <3>3, <2>1, <1>1, <1>7
  <2>2. CASE queue'[j] = e
    BY <2>2, <1>1, <1>2, <1>3, <1>4
  <2>. QED
    BY <2>1, <2>2, <1>10
<1>12. ASSUME NEW i \in 1..Len(queue'), NEW j \in 1..Len(queue'), i < j,
              IsNew(queue'[i]), IsNew(queue'[j])
       PROVE  HeightOf[queue'[i].block] < HeightOf[queue'[j].block]
  <2>1. i \in 1..Len(queue) /\ queue'[i] = queue[i]
    BY <1>5, <1>12
  <2>2. CASE j \in 1..Len(queue) /\ queue'[j] = queue[j]
    BY <2>1, <2>2, <1>12 DEF Base, OrderInv
  <2>3. CASE queue'[j] = e
    <3>1. HeightOf[queue[i].block] <= current /\ HeightOf[queue[i].block] \in Nat
      <4>1. HeightOf[queue[i].block] <= current
        BY <2>1, <1>12 DEF Base, OrderInv
      <4>. QED
        BY <4>1, <2>1, <1>11, <1>12
    <3>. QED
      BY <3>1, <2>1, <2>3, <1>1, <1>2, <1>3
  <2>. QED
    BY <2>2, <2>3, <1>10
<1>13. ASSUME NEW i \in 1..Len(tree.records)
       PROVE  /\ HeightOf[tree.records[i].block] <= current'
              /\ \A j \in 1..Len(queue') :
                   IsNew(queue'[j]) => HeightOf[tree.records[i].block] < HeightOf[queue'[j].block]
  <2>1. HeightOf[tree.records[i].block] \in Nat /\ HeightOf[tree.records[i].block] <= current
    BY RecordHeight DEF Base, Types, OrderInv
  <2>2. ASSUME NEW j \in 1..Len(queue'), IsNew(queue'[j])
        PROVE  HeightOf[tree.records[i].block] < HeightOf[queue'[j].block]
    <3>1. CASE j \in 1..Len(queue) /\ queue'[j] = queue[j]
      BY <3>1, <2>2 DEF Base, OrderInv
    <3>2. CASE queue'[j] = e
      BY <3>2, <2>1, <1>1, <1>2, <1>3
    <3>. QED
      BY <3>1, <3>2, <1>10
  <2>. QED
    BY <2>1, <2>2, <1>1, <1>7
<1>14. OrderInv'
  <2>1. HeightsUp(tree'.records) /\ \A t \in disk' : HeightsUp(t.records)
    BY <1>4 DEF Base, OrderInv
  <2>. QED
    BY <2>1, <1>4, <1>11, <1>12, <1>13 DEF OrderInv
<1>. QED
  BY <1>8, <1>9, <1>14 DEF Base

LEMMA PushType ==
  ASSUME Base, fetched # <<>>, Push(Head(fetched))
  PROVE  /\ tracker' \in Seq(TrackedPair) /\ tracker' # <<>>
         /\ Tracker!Tip(tracker') = Tracker!Pair(HeightOf[Head(fetched)], Head(fetched))
<1> DEFINE b == Head(fetched)
<1>1. b \in Block /\ HeightOf[b] \in Nat
  BY FetchedHead, HeightType
<1>2. tracker \in Seq(TrackedPair)
  BY DEF Base, Types
<1>3. tracker' = Tracker!Pushed(tracker, HeightOf[b], b, Parent[b])
  BY DEF Push
<1> HIDE DEF b
<1>4. /\ tracker' \in Seq(TrackedPair) /\ tracker' # <<>>
      /\ Tracker!Tip(tracker') = Tracker!Pair(HeightOf[b], b)
  BY <1>1, <1>2, <1>3, PushedTip
<1>. QED
  BY <1>4 DEF b

LEMMA SendBlockBase ==
  ASSUME Base, SendSync \/ SendExtension \/ SendReplacement
  PROVE  Base'
<1>1. prior \in SUBSET Nat /\ {} \in SUBSET Nat /\ tracker \in Seq(TrackedPair)
  BY DEF Base, Types
<1>2. CASE SendSync
  <2>1. ~Following /\ Syncing /\ HandOn(prior) /\ UNCHANGED tracker /\ task = "send"
    BY <1>2 DEF SendSync, Syncing, Following
  <2>2. task \in {"send", "resend"} /\ (tracker' # <<>> \/ ~Following) /\ tracker' \in Seq(TrackedPair)
    BY <2>1, <1>1
  <2>. QED
    BY <1>1, <2>1, <2>2, HandOnBase
<1>3. CASE SendExtension
  <2>1. Following /\ HandOn(prior) /\ Push(Head(fetched)) /\ task = "send" /\ fetched # <<>>
    BY <1>3 DEF SendExtension, Base, RangesInv
  <2>2. tracker' \in Seq(TrackedPair) /\ tracker' # <<>>
    BY <2>1, PushType
  <2>. QED
    BY <1>1, <2>1, <2>2, HandOnBase
<1>4. CASE SendReplacement
  <2>1. Following /\ HandOn({}) /\ UNCHANGED tracker /\ task = "resend" /\ tracker # <<>>
    BY <1>4 DEF SendReplacement, Base, RangesInv
  <2>2. tracker' \in Seq(TrackedPair) /\ tracker' # <<>>
    BY <1>1, <2>1
  <2>. QED
    BY <1>1, <2>1, <2>2, HandOnBase
<1>. QED
  BY <1>2, <1>3, <1>4

LEMMA SendReorgIs ==
  ASSUME Base, SendReorg
  PROVE  /\ Following /\ fetched # <<>> /\ task = "send" /\ task' = "resend"
         /\ \E e \in Event : ~IsNew(e) /\ queue' = Append(queue, e)
         /\ Push(Head(fetched)) /\ ~Linked(Head(fetched))
         /\ UNCHANGED <<best, switches, pc, tree, live, serving, disk, current, fetched, prior,
                        unanchored>>
<1> DEFINE target == Tracker!FindForkPoint(tracker, Parent[Head(fetched)])
<1>1. target \in Nat
  BY ForkPointType DEF Base, Types
<1>2. Reorg(target) \in Event /\ ~IsNew(Reorg(target)) /\ queue' = Append(queue, Reorg(target))
  BY <1>1, ReorgIs DEF SendReorg, Send
<1>3. fetched # <<>>
  BY DEF SendReorg, Base, RangesInv
<1>. QED
  BY <1>2, <1>3 DEF SendReorg, Send, chainVars, mainVars, faultVars

LEMMA SendReorgBase ==
  ASSUME Base, SendReorg
  PROVE  Base'
<1>1. /\ Following /\ fetched # <<>> /\ task = "send" /\ task' = "resend"
      /\ UNCHANGED <<best, switches, pc, tree, live, serving, disk, current, fetched, prior, unanchored>>
      /\ Push(Head(fetched))
  BY SendReorgIs
<1>2. PICK e \in Event : ~IsNew(e) /\ queue' = Append(queue, e)
  BY SendReorgIs
<1>3. tracker' \in Seq(TrackedPair) /\ tracker' # <<>>
  BY <1>1, PushType
<1>4. /\ queue' \in Seq(Event)
      /\ \A j \in 1..Len(queue') :
           IsNew(queue'[j]) => j \in 1..Len(queue) /\ queue'[j] = queue[j]
  <2>1. /\ queue' \in Seq(Event) /\ Len(queue') = Len(queue) + 1 /\ Len(queue) \in Nat
        /\ \A i \in 1..Len(queue) : queue'[i] = queue[i]
        /\ queue'[Len(queue) + 1] = e
    BY <1>2, QueueAppend
  <2>. QED
    BY <2>1, <1>2
<1>5. Following' /\ ~Syncing' /\ ~Syncing
  BY <1>1 DEF Following, Syncing
<1>6. Types'
  BY <1>1, <1>3, <1>4 DEF Base, Types
<1>7. RangesInv'
  BY <1>1, <1>3, <1>5 DEF Base, RangesInv
<1>8. OrderInv'
  <2>1. HeightsUp(tree'.records) /\ \A t \in disk' : HeightsUp(t.records)
    BY <1>1 DEF Base, OrderInv
  <2>2. ASSUME NEW i \in 1..Len(queue'), NEW j \in 1..Len(queue'), i < j,
               IsNew(queue'[i]), IsNew(queue'[j])
        PROVE  HeightOf[queue'[i].block] < HeightOf[queue'[j].block]
    BY <2>2, <1>4 DEF Base, OrderInv
  <2>3. \A j \in 1..Len(queue') : IsNew(queue'[j]) => HeightOf[queue'[j].block] <= current
    BY <1>4 DEF Base, OrderInv
  <2>4. ASSUME NEW i \in 1..Len(tree.records)
        PROVE  /\ HeightOf[tree.records[i].block] <= current
               /\ \A j \in 1..Len(queue') :
                    IsNew(queue'[j]) => HeightOf[tree.records[i].block] < HeightOf[queue'[j].block]
    BY <1>1, <1>4 DEF Base, OrderInv
  <2>. QED
    BY <2>1, <2>2, <2>3, <2>4, <1>1 DEF OrderInv
<1>. QED
  BY <1>6, <1>7, <1>8 DEF Base

LEMMA BaseNext == ASSUME Base, [Next]_vars PROVE Base'
<1>1. CASE Start \/ ReadRoots \/ ReadCompletingBlock \/ StartServing \/ ChannelClosed
  BY <1>1, StartBase, ReadRootsBase, ReadCompletingBlockBase, StartServingBase, ChannelClosedBase
<1>2. CASE AppendSynced \/ ApplyNewBlock \/ ApplyReorg
  BY <1>2, TakesBlock, TakesBase, ApplyReorgBase
<1>3. CASE \/ FetchBlock \/ BlockMissing \/ CallFails \/ SendSync \/ SendExtension
           \/ SendReplacement \/ SendReorg
  BY <1>3, FetchBlockBase, EndTaskBase, SendBlockBase, SendReorgBase
<1>. QED
  BY <1>1, <1>2, <1>3, QuietBase, FailureBase DEF Next, MainStep, TaskStep

LEMMA BaseInvariant == Spec => []Base
  BY BaseInit, BaseNext, PTL DEF Spec

(* A block is only ever appended above every block of the tree, which is   *)
(* what CommitmentTreeDb relies on and append_commitments does not check:  *)
(* after windowed starts, restarts from any snapshot, reorgs to any height *)
(* and tips that shrink.                                                   *)
THEOREM AppendsInOrderCorrect == Spec => []AppendsInOrder
<1>1. ASSUME Base, queue # <<>>, Head(queue).type = "NewBlock", NEW i \in DOMAIN tree.records
      PROVE  HeightOf[tree.records[i].block] < HeightOf[Head(queue).block]
  <2>1. i \in 1..Len(tree.records)
    BY <1>1, TreeFields DEF Base, Types
  <2>2. (Syncing \/ Following) /\ Head(queue) = queue[1] /\ 1 \in 1..Len(queue)
    BY <1>1, QueueHead
  <2>. QED
    BY <2>1, <2>2, <1>1 DEF Base, OrderInv, IsNew
<1>2. Base => AppendsInOrder
  BY <1>1 DEF AppendsInOrder
<1>. QED
  BY <1>2, BaseInvariant, PTL

-----------------------------------------------------------------------------
(* The tracker *)

(* What the tracker's tip is: the block a reorg was announced for, else    *)
(* the last block in the channel, else the newest of the tree.             *)
TipOf ==
  IF task = "resend" THEN Tracker!Pair(HeightOf[Head(fetched)], Head(fetched))
  ELSE IF queue = <<>> THEN Tracker!Pair(Latest(tree), LatestHash(tree))
  ELSE Tracker!Pair(HeightOf[queue[Len(queue)].block], queue[Len(queue)].block)

(* A reorg at the end of the channel waits for its replacement.            *)
TipInv ==
  Following =>
    /\ queue # <<>> /\ ~IsNew(queue[Len(queue)]) => task = "resend"
    /\ Tracker!Tip(tracker) = TipOf

LEMMA TipInit == Init => TipInv
  BY DEF Init, TipInv, Following

LEMMA TipStays ==
  ASSUME Base, TipInv,
         \/ Environment \/ PollFollow \/ FetchBlock \/ BlockMissing \/ CallFails
         \/ PeriodicSave \/ Stopped \/ PollNothingNew \/ UNCHANGED vars
  PROVE  TipInv'
<1>1. UNCHANGED <<tracker, tree, queue>> /\ (Following' => Following)
  BY EndTaskBase DEF Environment, PollFollow, FetchBlock, PeriodicSave, Stopped, PollNothingNew,
     vars, chainVars, mainVars, taskVars, Following
<1>2. (task = "resend" <=> task' = "resend") /\ (task = "resend" => fetched' = fetched)
  BY EndTaskBase DEF Environment, PollFollow, FetchBlock, PeriodicSave, Stopped, PollNothingNew,
     vars, chainVars, mainVars, taskVars
<1>. QED
  BY <1>1, <1>2 DEF TipInv, TipOf

LEMMA TipOutside ==
  ASSUME Base,
         \/ PollSync \/ RangeDone \/ SaveAfterSync \/ Start \/ ReadRoots
         \/ ReadCompletingBlock \/ CompletingBlockMissing \/ TreeSizeMismatch \/ Crash
         \/ AppendSynced \/ SendSync \/ ChannelClosed
  PROVE  ~Following'
<1>1. CASE Start \/ ReadRoots \/ ReadCompletingBlock
  <2>1. pc' \in {"sync", "synced", "roots", "window"}
    BY <1>1 DEF Start, ReadRoots, ReadCompletingBlock, SyncRange
  <2>. QED
    BY <2>1 DEF Following
<1>2. CASE CompletingBlockMissing \/ TreeSizeMismatch \/ Crash
  BY <1>2, FailureBase DEF Fail, Following
<1>3. CASE PollSync \/ RangeDone \/ SaveAfterSync \/ AppendSynced \/ SendSync \/ ChannelClosed
  BY <1>3 DEF PollSync, RangeDone, SaveAfterSync, AppendSynced, SendSync, ChannelClosed,
     HandOn, Send, mainVars, Following, Syncing
<1>. QED
  BY <1>1, <1>2, <1>3

LEMMA StartServingTip ==
  ASSUME Base, StartServing
  PROVE  TipInv'
<1> DEFINE p == Tracker!Pair(Latest(tree), LatestHash(tree))
<1>1. tracker' = <<p>>
  BY StartServingBase
<1>2. task' = "poll" /\ queue' = queue /\ tree' = tree /\ queue = <<>>
  BY DEF StartServing, Base, RangesInv, Syncing, Following
<1> HIDE DEF p
<1>3. Tracker!Tip(tracker') = p
  BY <1>1 DEF Tracker!Tip
<1>4. TipOf' = p
  BY <1>2 DEF TipOf, p
<1>. QED
  BY <1>2, <1>3, <1>4 DEF TipInv

(* The head of the channel moves into the tree. *)
LEMMA ApplyNewBlockTip ==
  ASSUME Base, TipInv, ApplyNewBlock
  PROVE  TipInv'
<1> DEFINE b == Head(queue).block
<1>1. Takes(b) /\ b \in Block /\ tree \in TreeType /\ Following
  BY TakesBlock, TakesBase DEF ApplyNewBlock, Following, Base, Types
<1>2. /\ Head(queue) = queue[1] /\ Len(queue) \in Nat \ {0}
      /\ Len(Tail(queue)) = Len(queue) - 1 /\ Tail(queue) \in Seq(Event)
      /\ \A i \in 1..Len(Tail(queue)) : Tail(queue)[i] = queue[i + 1] /\ i + 1 \in 1..Len(queue)
  BY <1>1, QueueHead DEF Takes
<1>3. queue' = Tail(queue) /\ tree' = Appended(tree, b) /\ UNCHANGED <<task, fetched, tracker>>
  BY <1>1 DEF Takes, taskVars
<1>4. CASE Len(queue) = 1
  <2>1. queue' = <<>>
    BY <1>2, <1>3, <1>4
  <2>2. Latest(tree') = HeightOf[b] /\ LatestHash(tree') = b
    BY <1>1, <1>3, AppendedLatest
  <2>3. queue # <<>> /\ queue[Len(queue)].block = b
    BY <1>2, <1>4
  <2>4. TipOf' = TipOf
    BY <2>1, <2>2, <2>3, <1>3 DEF TipOf
  <2>. QED
    BY <2>1, <2>4, <1>1, <1>3 DEF TipInv
<1>5. CASE Len(queue) # 1
  <2>1. queue' # <<>> /\ queue # <<>> /\ queue'[Len(queue')] = queue[Len(queue)]
    <3>1. Len(queue') \in 1..Len(queue') /\ Len(queue') + 1 = Len(queue)
      BY <1>2, <1>3, <1>5
    <3>2. queue # <<>>
      BY <1>1 DEF Takes
    <3>3. queue' # <<>>
      BY <3>1
    <3>4. queue'[Len(queue')] = queue[Len(queue') + 1]
      BY <3>1, <1>2, <1>3
    <3>. QED
      BY <3>1, <3>2, <3>3, <3>4
  <2>2. TipOf' = TipOf
    BY <2>1, <1>3 DEF TipOf
  <2>. QED
    BY <2>1, <2>2, <1>1, <1>3 DEF TipInv
<1>. QED
  BY <1>4, <1>5

LEMMA ApplyReorgTip ==
  ASSUME Base, TipInv, ApplyReorg
  PROVE  TipInv'
<1>1. /\ Following /\ queue # <<>> /\ ~IsNew(Head(queue)) /\ queue' = Tail(queue)
      /\ UNCHANGED <<task, fetched, tracker>>
  BY DEF ApplyReorg, Turn, taskVars, Following, IsNew
<1>2. /\ Head(queue) = queue[1] /\ Len(queue) \in Nat \ {0}
      /\ Len(Tail(queue)) = Len(queue) - 1 /\ Tail(queue) \in Seq(Event)
      /\ \A i \in 1..Len(Tail(queue)) : Tail(queue)[i] = queue[i + 1] /\ i + 1 \in 1..Len(queue)
  BY <1>1, QueueHead
<1>3. CASE Len(queue) = 1
  <2>1. queue' = <<>> /\ task = "resend"
    BY <1>1, <1>2, <1>3 DEF TipInv
  <2>2. TipOf' = TipOf
    BY <2>1, <1>1 DEF TipOf
  <2>. QED
    BY <2>1, <2>2, <1>1 DEF TipInv
<1>4. CASE Len(queue) # 1
  <2>1. queue' # <<>> /\ queue # <<>> /\ queue'[Len(queue')] = queue[Len(queue)]
    <3>1. Len(queue') \in 1..Len(queue') /\ Len(queue') + 1 = Len(queue)
      BY <1>1, <1>2, <1>4
    <3>2. queue # <<>>
      BY <1>1
    <3>3. queue' # <<>>
      BY <3>1
    <3>4. queue'[Len(queue')] = queue[Len(queue') + 1]
      BY <3>1, <1>1, <1>2
    <3>. QED
      BY <3>1, <3>2, <3>3, <3>4
  <2>2. TipOf' = TipOf
    BY <2>1, <1>1 DEF TipOf
  <2>. QED
    BY <2>1, <2>2, <1>1 DEF TipInv
<1>. QED
  BY <1>3, <1>4

LEMMA SendTip ==
  ASSUME Base, TipInv, SendExtension \/ SendReplacement
  PROVE  TipInv'
<1> DEFINE b == Head(fetched)
<1>1. PICK size \in SUBSET Nat : HandOn(size)
  BY DEF SendExtension, SendReplacement, Base, Types
<1>2. Following /\ fetched # <<>> /\ task \in {"send", "resend"}
  BY DEF SendExtension, SendReplacement, Base, RangesInv
<1>3. b \in Block
  BY <1>2, FetchedHead
<1> DEFINE e == NewBlock(b, size)
<1>4. e \in Event /\ IsNew(e) /\ e.block = b
  BY <1>3, NewBlockIs
<1>5. queue' = Append(queue, e) /\ task' \in {"poll", "send"}
  BY <1>1 DEF HandOn, Send
<1> HIDE DEF e
<1>6. queue' # <<>> /\ queue'[Len(queue')] = e
  BY <1>4, <1>5, QueueAppend
<1>7. Tracker!Tip(tracker') = Tracker!Pair(HeightOf[b], b)
  <2>1. CASE SendExtension
    BY <2>1, <1>2, PushType DEF SendExtension
  <2>2. CASE SendReplacement
    BY <2>2, <1>2 DEF SendReplacement, TipInv, TipOf
  <2>. QED
    BY <2>1, <2>2
<1>8. TipOf' = Tracker!Pair(HeightOf[b], b)
  BY <1>4, <1>5, <1>6 DEF TipOf
<1>. QED
  BY <1>4, <1>6, <1>7, <1>8 DEF TipInv

LEMMA SendReorgTip ==
  ASSUME Base, SendReorg
  PROVE  TipInv'
<1>1. task' = "resend" /\ fetched' = fetched /\ fetched # <<>> /\ Push(Head(fetched))
  BY SendReorgIs
<1>2. Tracker!Tip(tracker') = Tracker!Pair(HeightOf[Head(fetched)], Head(fetched))
  BY <1>1, PushType
<1>. QED
  BY <1>1, <1>2 DEF TipInv, TipOf

LEMMA TipNext == ASSUME Base, TipInv, [Next]_vars PROVE TipInv'
<1>1. CASE \/ PollSync \/ RangeDone \/ SaveAfterSync \/ Start \/ ReadRoots
           \/ ReadCompletingBlock \/ CompletingBlockMissing \/ TreeSizeMismatch \/ Crash
           \/ AppendSynced \/ SendSync \/ ChannelClosed
  BY <1>1, TipOutside DEF TipInv
<1>2. CASE \/ StartServing \/ ApplyNewBlock \/ ApplyReorg \/ SendExtension \/ SendReplacement
           \/ SendReorg
  BY <1>2, StartServingTip, ApplyNewBlockTip, ApplyReorgTip, SendTip, SendReorgTip
<1>. QED
  BY <1>1, <1>2, TipStays DEF Next, MainStep, TaskStep

LEMMA TipInvariant == Spec => []TipInv
  BY TipInit, TipNext, BaseInvariant, PTL DEF Spec

(* Once the channel is empty the tracker's tip is the newest block of the  *)
(* tree, unless a reorg is half announced: what push_block compares a      *)
(* block's prev_hash with is the tree, across any number of reorgs.        *)
THEOREM TrackerCorrect == Spec => []TrackerFollowsTree
<1>1. TipInv => TrackerFollowsTree
  BY DEF TipInv, TipOf, TrackerFollowsTree
<1>. QED
  BY <1>1, TipInvariant, PTL

-----------------------------------------------------------------------------
(* Where the leaves are.  C is the branch. *)

PlacedOn(t, C) ==
  \A i \in 1..Len(t.records) :
    t.records[i].block \in C /\ SumOf(t, i) = TotalAt[t.records[i].block]

(* The tree is the chain's tree after height h. *)
Reaches(t, h, C) ==
  \/ \E b \in C : HeightOf[b] = h /\ Size(t) = TotalAt[b]
  \/ Size(t) = 0 /\ h < Floor

(* A tree size known for height h. *)
PriorAt(size, h, C) == size = {} \/ \E b \in C : HeightOf[b] = h /\ size = {TotalAt[b]}

(* A block of the branch comes with the size of the tree before it. *)
Carried(e, h, C) ==
  /\ IsNew(e) /\ e.block \in C /\ HeightOf[e.block] = h
  /\ e.prior \subseteq {TotalAt[e.block] - Commitments[e.block]}

LEMMA PlacedOnIs ==
  ASSUME NEW t \in TreeType, NEW C
  PROVE  PlacedOn(t, C) <=> PlacedAlong(Commitments, t, C)
  BY TotalIs DEF PlacedOn, PlacedAlong

LEMMA ReachesIs ==
  ASSUME NEW t \in TreeType, NEW h, NEW C
  PROVE  Reaches(t, h, C) <=> ReachesAlong(Commitments, Floor, t, h, C)
  BY TotalIs, SizeIs DEF Reaches, ReachesAlong

LEMMA SizeUpToIs ==
  ASSUME NEW t \in TreeType, NEW i \in 1..Len(t.records)
  PROVE  SizeUpTo(t, i) = SumOf(t, i)
  BY SizeOfPrefix, SizeIs DEF SizeUpTo

LEMMA PlacedIs ==
  ASSUME NEW t \in TreeType
  PROVE  Placed(t) <=> PlacedOn(t, ChainOf[best])
<1>1. DOMAIN t.records = 1..Len(t.records)
  BY TreeFields
<1>2. \A i \in 1..Len(t.records) : SizeUpTo(t, i) = SumOf(t, i)
  BY SizeUpToIs
<1>. QED
  BY <1>1, <1>2 DEF Placed, PlacedOn

LEMMA NothingPlaced == ASSUME NEW t \in TreeType, t.records = <<>>, NEW C PROVE PlacedOn(t, C)
  BY PlacedOnIs, BarePlaced

LEMMA PlacedEnd ==
  ASSUME NEW t \in TreeType, NEW C, PlacedOn(t, C), t.records # <<>>
  PROVE  /\ LatestHash(t) \in C
         /\ Latest(t) = HeightOf[LatestHash(t)]
         /\ Size(t) = TotalAt[LatestHash(t)]
<1>1. /\ Len(t.records) \in 1..Len(t.records)
      /\ LatestHash(t) = t.records[Len(t.records)].block
      /\ Latest(t) = HeightOf[LatestHash(t)]
  BY LatestOf
<1>2. Size(t) = SumOf(t, Len(t.records))
  BY SizeIs
<1>. QED
  BY <1>1, <1>2 DEF PlacedOn

(* A placed tree that is not a bare window reaches its newest block. *)
LEMMA AnchoredReaches ==
  ASSUME NEW t \in TreeType, NEW C, PlacedOn(t, C), ~Unanchored(t)
  PROVE  Reaches(t, Latest(t), C)
<1>1. CASE t.records = <<>>
  <2>1. t.offset = 0 /\ Latest(t) = 0 /\ Floor \in Nat \ {0}
    BY <1>1, TreeFields, LatestOf, Constants DEF Unanchored
  <2>2. Size(t) = 0
    BY <2>1, <1>1, SizeOfNone
  <2>3. Latest(t) < Floor
    BY <2>1
  <2>. QED
    BY <2>2, <2>3 DEF Reaches
<1>2. CASE t.records # <<>>
  BY <1>2, PlacedEnd DEF Reaches
<1>. QED
  BY <1>1, <1>2

LEMMA ReachesPrior ==
  ASSUME NEW t \in TreeType, NEW h, NEW C, Reaches(t, h, C)
  PROVE  PriorAt(NoSizeIfZero(Size(t)), h, C)
<1>1. Size(t) \in Nat
  BY SizeType
<1>. QED
  BY <1>1 DEF Reaches, PriorAt, NoSizeIfZero

(* The next block of the branch continues the tree. *)
LEMMA NextSize ==
  ASSUME NEW t \in TreeType, NEW x \in Block, NEW h \in Nat, Reaches(t, h, ChainOf[x]),
         NEW b \in ChainOf[x], HeightOf[b] = h + 1
  PROVE  Size(t) = TotalAt[b] - Commitments[b]
<1>1. ReachesAlong(Commitments, Floor, t, h, ChainOf[x])
  BY ReachesIs
<1>2. NoneBelow(Commitments, Floor)
  BY NothingBelow
<1>3. SizeOf(t) = TotalOf(Commitments)[b] - Commitments[b]
  BY <1>1, <1>2, SizeBeforeNext
<1>. QED
  BY <1>3, SizeIs, TotalIs

LEMMA AppendPlaced ==
  ASSUME NEW t \in TreeType, NEW x \in Block, NEW h \in Nat, Reaches(t, h, ChainOf[x]),
         PlacedOn(t, ChainOf[x]), NEW b \in ChainOf[x], HeightOf[b] = h + 1
  PROVE  /\ PlacedOn(Appended(t, b), ChainOf[x])
         /\ Reaches(Appended(t, b), h + 1, ChainOf[x])
<1>1. /\ ReachesAlong(Commitments, Floor, t, h, ChainOf[x])
      /\ PlacedAlong(Commitments, t, ChainOf[x])
  BY ReachesIs, PlacedOnIs
<1>2. /\ PlacedAlong(Commitments, WithRecord(t, b, Commitments[b]), ChainOf[x])
      /\ ReachesAlong(Commitments, Floor, WithRecord(t, b, Commitments[b]), h + 1, ChainOf[x])
  BY <1>1, NothingBelow, NextPlaced
<1>3. b \in Block
  BY ChainBelowTip
<1>4. Appended(t, b) = WithRecord(t, b, Commitments[b]) /\ Appended(t, b) \in TreeType
  BY <1>3, AppendedTree
<1>. QED
  BY <1>2, <1>4, ReachesIs, PlacedOnIs

(* The window that starts inside a block reaches that block. *)
LEMMA SeededReaches ==
  ASSUME Base, pc = "window", NEW b \in ChainOf[best], Completes(b, tree.offset)
  PROVE  /\ PlacedOn(Seeded(b), ChainOf[best])
         /\ Size(Seeded(b)) = TotalAt[b]
<1> DEFINE n == Spillover(b, tree.offset)
           u == Seeded(b)
<1>1. best \in Block /\ tree.offset \in Nat
  BY TreeFields DEF Base, Types
<1>2. b \in Block /\ TotalAt[b] \in Nat /\ Commitments[b] \in Nat
  BY <1>1, ChainBelowTip, TotalType
<1>3. n \in Nat /\ tree.offset + n = TotalAt[b]
  BY <1>1, <1>2 DEF Completes, Spillover
<1>4. /\ u \in TreeType /\ u.offset = tree.offset
      /\ n = 0 => u.records = <<>>
      /\ n # 0 => /\ Len(u.records) = 1 /\ u.records[1].block = b /\ u.records[1].num = n
  BY <1>2, SeededTree
<1> HIDE DEF n, u
<1>5. CASE n = 0
  <2>1. Size(u) = TotalAt[b]
    BY <1>1, <1>3, <1>4, <1>5, SizeOfNone
  <2>2. PlacedOn(u, ChainOf[best])
    BY <1>4, <1>5, NothingPlaced
  <2>. QED
    BY <2>1, <2>2 DEF u
<1>6. CASE n # 0
  <2>1. tree \in TreeType /\ tree.records = <<>>
    BY DEF Base, Types, RangesInv
  <2>2. u = WithRecord(tree, b, n)
    BY <1>6, <2>1 DEF u, n, Seeded, WithRecord, BlockRecord
  <2>3. tree.offset + n = TotalOf(Commitments)[b]
    BY <1>3, TotalIs
  <2>4. /\ PlacedAlong(Commitments, u, ChainOf[best])
        /\ SizeOf(u) = TotalOf(Commitments)[b]
    BY <2>1, <2>2, <2>3, <1>1, <1>3, NothingBelow, WindowPlaced
  <2>5. PlacedOn(u, ChainOf[best]) /\ Size(u) = TotalAt[b]
    BY <2>4, <1>4, PlacedOnIs, SizeIs, TotalIs
  <2>. QED
    BY <2>5 DEF u
<1>. QED
  BY <1>5, <1>6

(* The branch never changed and no sync failed before its first block. *)
Undisturbed == switches = 0 /\ ~unanchored

(* A reorg can then only be announced to a tree without records: its tip   *)
(* is ZeroHash, which no block names.  It is alone, ahead of all blocks.   *)
Lead == IF queue # <<>> /\ ~IsNew(queue[1]) THEN 1 ELSE 0

(* The block the main task takes in next is one above this height. *)
Done == current - Len(queue) + Lead

TreesInv(C) ==
  /\ PlacedOn(tree, C)
  /\ pc \in {"saved", "follow", "snapshot"} => ~Unanchored(tree)
  /\ \A t \in disk : PlacedOn(t, C) /\ ~Unanchored(t)
  /\ pc = "window" => \E b \in C : HeightOf[b] = current /\ Completes(b, tree.offset)

StreamInv(C) ==
  Syncing \/ Following =>
    /\ Done \in Nat
    /\ Reaches(tree, Done, C)
    /\ Following => Latest(tree) = Done
    /\ \A i \in 1..Len(queue) : i > Lead => Carried(queue[i], current - Len(queue) + i, C)
    /\ Lead = 1 => tree.records = <<>>
    /\ task = "resend" => tree.records = <<>> /\ Len(queue) = Lead
    /\ PriorAt(prior, current, C)
    /\ \A i \in 1..Len(fetched) : fetched[i] \in C

(* Every leaf is in its place, in the tree and in the snapshot, and what   *)
(* is on its way continues the tree.                                       *)
PlacedInv == Undisturbed => TreesInv(ChainOf[best]) /\ StreamInv(ChainOf[best])

LEMMA PlacedInit == Init => PlacedInv
<1> SUFFICES ASSUME Init
             PROVE  PlacedInv
  OBVIOUS
<1>1. pc = "down" /\ tree = NoTree /\ disk = {} /\ ~Syncing /\ ~Following
  BY DEF Init, Syncing, Following
<1>. QED
  BY <1>1, NoTreeType, NothingPlaced DEF PlacedInv, TreesInv, StreamInv

(* No step undoes a change of branch or the mark of a failed sync. *)
LEMMA UndisturbedBefore ==
  ASSUME Base, [Next]_vars, Undisturbed'
  PROVE  /\ Undisturbed /\ best \in Block /\ best' \in Block
         /\ ChainOf[best] \subseteq ChainOf[best']
         /\ ~Environment => best' = best
<1>1. best \in Block /\ switches \in Nat /\ unanchored \in BOOLEAN
  BY DEF Base, Types
<1>2. best' \in Block
  BY BaseNext DEF Base, Types
<1>3. CASE Environment
  <2>1. unanchored' = unanchored
    BY <1>3 DEF Environment, faultVars
  <2>2. CASE Grow
    <3>1. switches' = 0 /\ ~unanchored'
      BY DEF Undisturbed
    <3>2. switches' = switches /\ ChainOf[best] \subseteq ChainOf[best']
      BY <2>2, <1>1, GrowExtendsChain
    <3>3. Undisturbed
      BY <3>1, <3>2, <2>1 DEF Undisturbed
    <3>. QED
      BY <3>2, <3>3, <1>1, <1>2, <1>3
  <2>3. CASE Switch
    BY <2>3, <1>1 DEF Switch, Undisturbed
  <2>. QED
    BY <2>2, <2>3, <1>3 DEF Environment
<1>4. CASE ~Environment
  <2>1. best' = best /\ switches' = switches
    <3>1. CASE CompletingBlockMissing \/ TreeSizeMismatch \/ Crash
      BY <3>1, FailureBase DEF Fail, chainVars
    <3>2. CASE BlockMissing \/ CallFails
      BY <3>2, EndTaskBase
    <3>3. CASE ApplyNewBlock \/ ApplyReorg
      BY <3>3 DEF ApplyNewBlock, ApplyReorg, Turn, chainVars
    <3>4. CASE SendSync \/ SendExtension \/ SendReplacement
      BY <3>4 DEF SendSync, SendExtension, SendReplacement, HandOn, Send, chainVars
    <3>5. CASE SendReorg
      BY <3>5, SendReorgIs
    <3>6. CASE Stopped \/ PollNothingNew \/ UNCHANGED vars
      BY <3>6 DEF Stopped, PollNothingNew, vars, chainVars
    <3>7. CASE Start \/ ReadRoots \/ ReadCompletingBlock \/ AppendSynced \/ RangeDone
               \/ SaveAfterSync \/ StartServing \/ PeriodicSave \/ ChannelClosed
      BY <3>7 DEF Start, ReadRoots, ReadCompletingBlock, AppendSynced, RangeDone, SaveAfterSync,
         StartServing, PeriodicSave, ChannelClosed, chainVars
    <3>8. CASE PollSync \/ PollFollow \/ FetchBlock
      BY <3>8 DEF PollSync, PollFollow, FetchBlock, chainVars
    <3>. QED
      BY <1>4, <3>1, <3>2, <3>3, <3>4, <3>5, <3>6, <3>7, <3>8 DEF Next, MainStep, TaskStep
  <2>2. ~unanchored' => ~unanchored
    <3>1. CASE SaveAfterSync
      BY <3>1, <1>1 DEF SaveAfterSync
    <3>2. CASE CompletingBlockMissing \/ TreeSizeMismatch \/ Crash
      BY <3>2, FailureBase
    <3>3. CASE BlockMissing \/ CallFails
      BY <3>3, EndTaskBase
    <3>4. CASE ApplyNewBlock \/ ApplyReorg
      BY <3>4 DEF ApplyNewBlock, ApplyReorg, Turn, faultVars
    <3>5. CASE SendSync \/ SendExtension \/ SendReplacement
      BY <3>5 DEF SendSync, SendExtension, SendReplacement, HandOn, Send, faultVars
    <3>6. CASE SendReorg
      BY <3>6, SendReorgIs
    <3>7. CASE Stopped \/ PollNothingNew \/ UNCHANGED vars
      BY <3>7 DEF Stopped, PollNothingNew, vars, faultVars
    <3>8. CASE Start \/ ReadRoots \/ ReadCompletingBlock \/ AppendSynced \/ RangeDone
               \/ StartServing \/ PeriodicSave \/ ChannelClosed
      BY <3>8 DEF Start, ReadRoots, ReadCompletingBlock, AppendSynced, RangeDone,
         StartServing, PeriodicSave, ChannelClosed, faultVars
    <3>9. CASE PollSync \/ PollFollow \/ FetchBlock
      BY <3>9 DEF PollSync, PollFollow, FetchBlock, faultVars
    <3>. QED
      BY <1>4, <3>1, <3>2, <3>3, <3>4, <3>5, <3>6, <3>7, <3>8, <3>9 DEF Next, MainStep, TaskStep
  <2>3. Undisturbed
    <3>1. switches' = 0 /\ ~unanchored'
      BY DEF Undisturbed
    <3>. QED
      BY <3>1, <2>1, <2>2 DEF Undisturbed
  <2>4. ChainOf[best] \subseteq ChainOf[best']
    BY <2>1
  <2>. QED
    BY <2>1, <2>3, <2>4, <1>1, <1>2
<1>. QED
  BY <1>3, <1>4

(* What is so on a branch stays so when the branch grows. *)
LEMMA PlacedGrows ==
  ASSUME NEW C, NEW D, C \subseteq D
  PROVE  /\ TreesInv(C) => TreesInv(D)
         /\ StreamInv(C) => StreamInv(D)
<1>1. \A t : PlacedOn(t, C) => PlacedOn(t, D)
  BY DEF PlacedOn
<1>2. \A t, h : Reaches(t, h, C) => Reaches(t, h, D)
  BY DEF Reaches
<1>3. \A e, h : Carried(e, h, C) => Carried(e, h, D)
  BY DEF Carried
<1>4. \A size, h : PriorAt(size, h, C) => PriorAt(size, h, D)
  BY DEF PriorAt
<1>5. TreesInv(C) => TreesInv(D)
  BY <1>1 DEF TreesInv
<1>6. StreamInv(C) => StreamInv(D)
  BY <1>2, <1>3, <1>4 DEF StreamInv
<1>. QED
  BY <1>5, <1>6

LEMMA PlacedEnvironment ==
  ASSUME Base, PlacedInv, Environment
  PROVE  PlacedInv'
<1> SUFFICES ASSUME Undisturbed'
             PROVE  TreesInv(ChainOf[best])' /\ StreamInv(ChainOf[best])'
  BY DEF PlacedInv
<1> DEFINE C == ChainOf[best]
           D == ChainOf[best']
<1>1. Undisturbed /\ C \subseteq D
  BY UndisturbedBefore DEF Next
<1>2. TreesInv(C) /\ StreamInv(C)
  BY <1>1 DEF PlacedInv
<1> HIDE DEF C
<1> HIDE DEF D
<1>3. TreesInv(D) /\ StreamInv(D)
  BY <1>1, <1>2, PlacedGrows
<1>4. UNCHANGED <<pc, tree, disk, task, current, fetched, prior, queue>>
  BY DEF Environment, mainVars, taskVars
<1>5. TreesInv(ChainOf[best])'
  BY <1>3, <1>4 DEF TreesInv, D
<1>6. StreamInv(ChainOf[best])'
  BY <1>3, <1>4 DEF StreamInv, Done, Lead, Syncing, Following, D
<1>. QED
  BY <1>5, <1>6

(* The rest is about a step on a branch that stays what it is. *)
Steady ==
  /\ Base /\ TipInv /\ Undisturbed'
  /\ best' = best
  /\ TreesInv(ChainOf[best]) /\ StreamInv(ChainOf[best])

LEMMA SteadyFacts ==
  ASSUME Steady
  PROVE  /\ Base /\ best \in Block /\ tree \in TreeType /\ current \in Nat
         /\ ChainOf[best] \subseteq Block /\ Len(queue) \in Nat
         /\ ~unanchored'
  BY ChainBelowTip DEF Steady, Base, Types, Undisturbed

(* Steps after which the stream is where it was or gone. *)
LEMMA SavePlaced ==
  ASSUME Steady, SaveAfterSync \/ PeriodicSave
  PROVE  TreesInv(ChainOf[best])' /\ StreamInv(ChainOf[best])'
<1> DEFINE C == ChainOf[best]
<1>1. TreesInv(C) /\ StreamInv(C) /\ ChainOf[best'] = C /\ ~unanchored'
  BY SteadyFacts DEF Steady
<1>2. ~Unanchored(tree)
  <2>1. CASE SaveAfterSync
    BY <2>1, <1>1 DEF SaveAfterSync
  <2>2. CASE PeriodicSave
    BY <2>2, <1>1 DEF PeriodicSave, TreesInv
  <2>. QED
    BY <2>1, <2>2
<1>3. /\ disk' = {tree} /\ pc' \in {"saved", "follow"}
      /\ UNCHANGED <<tree, task, current, fetched, prior, queue>>
  BY DEF SaveAfterSync, PeriodicSave, taskVars
<1>4. Syncing' \/ Following' => Syncing \/ Following
  BY DEF SaveAfterSync, PeriodicSave, Syncing, Following
<1>5. Following' => Following
  BY DEF SaveAfterSync, PeriodicSave, Following
<1> HIDE DEF C
<1>6. TreesInv(ChainOf[best])'
  BY <1>1, <1>2, <1>3 DEF TreesInv
<1>7. StreamInv(ChainOf[best])'
  BY <1>1, <1>3, <1>4, <1>5 DEF StreamInv, Done, Lead
<1>. QED
  BY <1>6, <1>7

LEMMA QuietPlaced ==
  ASSUME Steady, \/ PollSync \/ PollFollow \/ RangeDone \/ Stopped \/ PollNothingNew
                 \/ UNCHANGED vars
  PROVE  TreesInv(ChainOf[best])' /\ StreamInv(ChainOf[best])'
<1> DEFINE C == ChainOf[best]
<1>1. TreesInv(C) /\ StreamInv(C) /\ ChainOf[best'] = C
  BY DEF Steady
<1>2. UNCHANGED <<tree, disk, current, fetched, prior, queue>>
  BY DEF PollSync, PollFollow, RangeDone, Stopped, PollNothingNew, vars, mainVars, taskVars
<1>3. pc' = pc \/ pc' = "synced"
  BY DEF PollSync, PollFollow, RangeDone, Stopped, PollNothingNew, vars, mainVars
<1>4. task' = "resend" => task = "resend"
  BY DEF PollSync, PollFollow, RangeDone, Stopped, PollNothingNew, vars, taskVars
<1> HIDE DEF C
<1>5. TreesInv(ChainOf[best])'
  BY <1>1, <1>2, <1>3 DEF TreesInv
<1>6. StreamInv(ChainOf[best])'
  BY <1>1, <1>2, <1>3, <1>4 DEF StreamInv, Done, Lead, Syncing, Following
<1>. QED
  BY <1>5, <1>6

LEMMA ClearedPlaced ==
  ASSUME Steady, CompletingBlockMissing \/ TreeSizeMismatch \/ Crash \/ ChannelClosed
  PROVE  TreesInv(ChainOf[best])' /\ StreamInv(ChainOf[best])'
<1> DEFINE C == ChainOf[best]
<1>1. TreesInv(C) /\ ChainOf[best'] = C /\ Base
  BY DEF Steady
<1>2. tree' = NoTree /\ disk' = disk /\ pc' \in {"down", "exited"}
  <2>1. CASE CompletingBlockMissing \/ TreeSizeMismatch \/ Crash
    BY <2>1, <1>1, FailureBase DEF Fail
  <2>2. CASE ChannelClosed
    BY <2>2 DEF ChannelClosed
  <2>. QED
    BY <2>1, <2>2
<1> HIDE DEF C
<1>3. PlacedOn(tree', C)
  BY <1>2, NoTreeType, NothingPlaced
<1>4. TreesInv(ChainOf[best])'
  BY <1>1, <1>2, <1>3 DEF TreesInv
<1>5. StreamInv(ChainOf[best])'
  BY <1>2 DEF StreamInv, Syncing, Following
<1>. QED
  BY <1>4, <1>5

(* sync_range starts where the tree ends. *)
LEMMA SyncRangePlaced ==
  ASSUME Steady, ~Syncing, ~Following,
         UNCHANGED <<disk, queue>>,
         PlacedOn(tree', ChainOf[best]),
         NEW h \in Nat, NEW last, NEW size \in SUBSET Nat, SyncRange(h + 1, last, size),
         Reaches(tree', h, ChainOf[best]), PriorAt(size, h, ChainOf[best])
  PROVE  TreesInv(ChainOf[best])' /\ StreamInv(ChainOf[best])'
<1> DEFINE C == ChainOf[best]
<1>1. TreesInv(C) /\ ChainOf[best'] = C
  BY DEF Steady
<1>2. queue = <<>> /\ fetched = <<>> /\ task # "resend"
  BY DEF Steady, Base, RangesInv
<1>3. PlacedOn(tree', C) /\ Reaches(tree', h, C) /\ PriorAt(size, h, C)
  OBVIOUS
<1> HIDE DEF C
<1>4. pc' \in {"sync", "synced"} /\ (pc' = "sync" => current' = h /\ prior' = size)
  BY DEF SyncRange
<1>5. queue' = <<>> /\ fetched' = <<>> /\ task' # "resend"
  BY <1>2 DEF SyncRange
<1>6. TreesInv(ChainOf[best])'
  BY <1>1, <1>3, <1>4 DEF TreesInv
<1>7. StreamInv(ChainOf[best])'
  <2> SUFFICES ASSUME (Syncing \/ Following)'
               PROVE  /\ Done' \in Nat
                      /\ Reaches(tree', Done', C)
                      /\ ~Following'
                      /\ Len(queue') = 0 /\ Len(fetched') = 0
                      /\ Lead' = 0 /\ task' # "resend"
                      /\ PriorAt(prior', current', C)
    BY <1>1 DEF StreamInv
  <2>1. pc' = "sync" /\ current' = h /\ prior' = size
    BY <1>4 DEF Syncing, Following
  <2>2. Lead' = 0 /\ Len(queue') = 0 /\ Len(fetched') = 0
    BY <1>5 DEF Lead
  <2>3. Done' = h
    BY <2>1, <2>2 DEF Done
  <2>. QED
    BY <2>1, <2>2, <2>3, <1>3, <1>5 DEF Following
<1>. QED
  BY <1>6, <1>7

LEMMA StartPlaced ==
  ASSUME Steady, Start
  PROVE  TreesInv(ChainOf[best])' /\ StreamInv(ChainOf[best])'
<1> DEFINE C == ChainOf[best]
<1>1. Base /\ TreesInv(C) /\ ChainOf[best'] = C
  BY DEF Steady
<1>2. ~Syncing /\ ~Following /\ UNCHANGED <<disk, queue>>
  BY DEF Start, Syncing, Following
<1>3. CASE \E t \in disk : tree' = t /\ SyncRange(Resume(t), HeightOf[best], ResumeSize(t))
  <2>1. PICK t \in disk : tree' = t /\ SyncRange(Resume(t), HeightOf[best], ResumeSize(t))
    BY <1>3
  <2>2. t \in TreeType /\ PlacedOn(t, C) /\ ~Unanchored(t)
    BY <1>1 DEF Base, Types, TreesInv
  <2> HIDE DEF C
  <2>3. Latest(t) \in Nat /\ Resume(t) = Latest(t) + 1
    BY <2>2, LatestOf DEF Resume
  <2>4. ResumeSize(t) \in SUBSET Nat
    BY <2>2, SizeType DEF ResumeSize, NoSizeIfZero
  <2>5. Reaches(t, Latest(t), C)
    BY <2>2, AnchoredReaches
  <2>6. PriorAt(ResumeSize(t), Latest(t), C)
    <3>1. PriorAt(NoSizeIfZero(Size(t)), Latest(t), C)
      BY <2>2, <2>5, ReachesPrior
    <3>. QED
      BY <3>1 DEF ResumeSize, PriorAt
  <2>7. SyncRange(Latest(t) + 1, HeightOf[best], ResumeSize(t))
    BY <2>1, <2>3
  <2>. QED
    BY <1>2, <2>1, <2>2, <2>3, <2>4, <2>5, <2>6, <2>7, SyncRangePlaced DEF C
<1>4. CASE pc' = "roots" /\ UNCHANGED tree
  <2> HIDE DEF C
  <2>1. TreesInv(ChainOf[best])'
    BY <1>1, <1>2, <1>4 DEF TreesInv
  <2>2. StreamInv(ChainOf[best])'
    BY <1>4 DEF StreamInv, Syncing, Following
  <2>. QED
    BY <2>1, <2>2
<1>. QED
  BY <1>3, <1>4 DEF Start

LEMMA ReadRootsPlaced ==
  ASSUME Steady, ReadRoots
  PROVE  TreesInv(ChainOf[best])' /\ StreamInv(ChainOf[best])'
<1> DEFINE C == ChainOf[best]
<1>1. Base /\ best \in Block /\ TreesInv(C) /\ ChainOf[best'] = C
  BY SteadyFacts DEF Steady
<1>2. ~Syncing /\ ~Following /\ UNCHANGED <<disk, queue>>
  BY DEF ReadRoots, Syncing, Following
<1>3. CASE CompletedShards >= WindowLimit
  <2>1. /\ tree' = [offset |-> WindowStart, records |-> <<>>]
        /\ current' = CompletingHeight(WindowStart)
        /\ pc' = "window"
    BY <1>3 DEF ReadRoots
  <2>2. \E b \in C : HeightOf[b] = current' /\ Completes(b, WindowStart)
    BY <1>1, <1>3, <2>1, CompletingHeightIs
  <2>3. tree' \in TreeType /\ tree'.records = <<>> /\ tree'.offset = WindowStart
    BY <1>1, <1>3, <2>1, WindowStartBounds DEF TreeType
  <2> HIDE DEF C
  <2>4. PlacedOn(tree', C)
    BY <2>3, NothingPlaced
  <2>5. TreesInv(ChainOf[best])'
    BY <1>1, <1>2, <2>1, <2>2, <2>3, <2>4 DEF TreesInv
  <2>6. StreamInv(ChainOf[best])'
    BY <2>1 DEF StreamInv, Syncing, Following
  <2>. QED
    BY <2>5, <2>6
<1>4. CASE ~(CompletedShards >= WindowLimit)
  <2>1. SyncRange(Floor, to, {}) /\ UNCHANGED tree
    BY <1>4 DEF ReadRoots
  <2>2. tree = NoTree
    BY <1>1 DEF ReadRoots, Base, RangesInv
  <2>3. tree' \in TreeType /\ tree'.records = <<>> /\ Size(tree') = 0
    BY <2>1, <2>2, NoTreeType, SizeOfNone
  <2>4. Floor - 1 \in Nat /\ Floor - 1 + 1 = Floor /\ Floor - 1 < Floor
    BY Constants
  <2> HIDE DEF C
  <2>5. PlacedOn(tree', C) /\ Reaches(tree', Floor - 1, C) /\ PriorAt({}, Floor - 1, C)
    BY <2>3, <2>4, NothingPlaced DEF Reaches, PriorAt
  <2>6. SyncRange((Floor - 1) + 1, to, {}) /\ {} \in SUBSET Nat
    BY <2>1, <2>4
  <2>. QED
    BY <1>2, <2>4, <2>5, <2>6, SyncRangePlaced DEF C
<1>. QED
  BY <1>3, <1>4

LEMMA ReadCompletingBlockPlaced ==
  ASSUME Steady, ReadCompletingBlock
  PROVE  TreesInv(ChainOf[best])' /\ StreamInv(ChainOf[best])'
<1> DEFINE C == ChainOf[best]
           b == BlockAt(current)
<1>1. Base /\ best \in Block /\ current \in Nat /\ TreesInv(C)
  BY SteadyFacts DEF Steady
<1>2. /\ pc = "window" /\ ~Syncing /\ ~Following /\ tree' = Seeded(b)
      /\ UNCHANGED <<disk, queue>>
      /\ SyncRange(current + 1, to, {Size(tree')})
  BY DEF ReadCompletingBlock, Syncing, Following
<1>3. b \in C /\ b \in Block /\ HeightOf[b] = current
  BY <1>1, BlockAtHeight DEF ReadCompletingBlock
<1> HIDE DEF b
<1>4. Completes(b, tree.offset)
  <2>1. PICK c \in C : HeightOf[c] = current /\ Completes(c, tree.offset)
    BY <1>1, <1>2 DEF TreesInv
  <2>2. c = b
    BY <1>1, <1>3, <2>1, ChainHeightsDiffer
  <2>. QED
    BY <2>1, <2>2
<1>5. PlacedOn(tree', C) /\ Size(tree') = TotalAt[b]
  BY <1>1, <1>2, <1>3, <1>4, SeededReaches
<1>6. {Size(tree')} \in SUBSET Nat
  BY <1>3, <1>5, TotalType
<1> HIDE DEF C
<1>7. Reaches(tree', current, C) /\ PriorAt({Size(tree')}, current, C)
  BY <1>3, <1>5 DEF Reaches, PriorAt
<1>. QED
  BY <1>1, <1>2, <1>5, <1>6, <1>7, SyncRangePlaced DEF C

(* follow starts at the newest block of a tree that knows where it is. *)
LEMMA StartServingPlaced ==
  ASSUME Steady, StartServing
  PROVE  TreesInv(ChainOf[best])' /\ StreamInv(ChainOf[best])'
<1> DEFINE C == ChainOf[best]
<1>1. Base /\ tree \in TreeType /\ TreesInv(C) /\ ChainOf[best'] = C
  BY SteadyFacts DEF Steady
<1>2. /\ pc = "saved" /\ pc' = "follow" /\ task' = "poll" /\ disk' = {tree}
      /\ current' = Latest(tree) /\ prior' = NoSizeIfZero(Size(tree))
      /\ UNCHANGED <<tree, fetched, queue>>
  BY DEF StartServing, StartOfFollow
<1>3. queue = <<>> /\ fetched = <<>>
  BY <1>1, <1>2 DEF Base, RangesInv, Syncing, Following
<1> HIDE DEF C
<1>4. PlacedOn(tree, C) /\ ~Unanchored(tree)
  BY <1>1, <1>2 DEF TreesInv
<1>5. /\ Reaches(tree, Latest(tree), C) /\ PriorAt(NoSizeIfZero(Size(tree)), Latest(tree), C)
      /\ Latest(tree) \in Nat
  BY <1>1, <1>4, AnchoredReaches, ReachesPrior, LatestOf
<1>6. TreesInv(ChainOf[best])'
  BY <1>1, <1>2, <1>4 DEF TreesInv
<1>7. Lead' = 0 /\ Len(queue') = 0 /\ Len(fetched') = 0
  BY <1>2, <1>3 DEF Lead
<1>8. Done' = Latest(tree)
  BY <1>2, <1>5, <1>7 DEF Done
<1>9. StreamInv(ChainOf[best])'
  <2>1. /\ Done' \in Nat /\ Reaches(tree', Done', C) /\ Latest(tree') = Done'
        /\ PriorAt(prior', current', C) /\ task' # "resend"
    BY <1>2, <1>5, <1>8
  <2>. QED
    BY <2>1, <1>1, <1>7 DEF StreamInv
<1>. QED
  BY <1>6, <1>9

(* The block at the head of the channel is the one above what the tree     *)
(* reaches.                                                                *)
LEMMA HeadContinues ==
  ASSUME Steady, queue # <<>>, IsNew(queue[1])
  PROVE  /\ Lead = 0 /\ Done = current - Len(queue) /\ Done \in Nat
         /\ Reaches(tree, Done, ChainOf[best])
         /\ Carried(queue[1], Done + 1, ChainOf[best])
         /\ task # "resend"
<1> DEFINE C == ChainOf[best]
<1>1. /\ Base /\ StreamInv(C) /\ current \in Nat
      /\ Len(queue) \in Nat \ {0} /\ 1 \in 1..Len(queue) /\ (Syncing \/ Following)
  BY SteadyFacts, QueueHead DEF Steady
<1> HIDE DEF C
<1>2. Lead = 0
  BY DEF Lead
<1>3. Done = current - Len(queue)
  BY <1>1, <1>2 DEF Done
<1>4. Done \in Nat /\ Reaches(tree, Done, C)
  BY <1>1 DEF StreamInv
<1>5. Carried(queue[1], current - Len(queue) + 1, C)
  BY <1>1, <1>2 DEF StreamInv
<1>6. task # "resend"
  BY <1>1, <1>2 DEF StreamInv
<1>. QED
  BY <1>2, <1>3, <1>4, <1>5, <1>6 DEF C

LEMMA TakesPlaced ==
  ASSUME Steady, NEW b, Takes(b)
  PROVE  TreesInv(ChainOf[best])' /\ StreamInv(ChainOf[best])'
<1> DEFINE C == ChainOf[best]
<1>1. /\ Base /\ TreesInv(C) /\ StreamInv(C) /\ ChainOf[best'] = C /\ current \in Nat
      /\ best \in Block /\ tree \in TreeType /\ C \subseteq Block
  BY SteadyFacts DEF Steady
<1>2. /\ queue # <<>> /\ Head(queue) = queue[1] /\ Len(queue) \in Nat \ {0}
      /\ Len(queue') = Len(queue) - 1
      /\ \A i \in 1..Len(queue') : queue'[i] = queue[i + 1] /\ i + 1 \in 1..Len(queue)
      /\ (Syncing \/ Following) /\ IsNew(queue[1]) /\ b = queue[1].block
  BY <1>1, QueueHead DEF Takes
<1>3. /\ Lead = 0 /\ Done = current - Len(queue) /\ Done \in Nat
      /\ Reaches(tree, Done, C) /\ Carried(queue[1], Done + 1, C) /\ task # "resend"
  BY <1>2, HeadContinues
<1>4. b \in C /\ b \in Block /\ HeightOf[b] = Done + 1 /\ tree' = Appended(tree, b)
  BY <1>1, <1>2, <1>3 DEF Carried, Takes
<1>5. PlacedOn(tree', C) /\ Reaches(tree', Done + 1, C)
  BY <1>1, <1>3, <1>4, AppendPlaced DEF TreesInv
<1>6. tree'.records # <<>> /\ Latest(tree') = Done + 1
  BY <1>1, <1>4, AppendedLatest
<1>7. /\ UNCHANGED <<disk, task, current, fetched, prior>>
      /\ Syncing' = Syncing /\ Following' = Following
      /\ pc' \in {"sync", "follow", "snapshot"}
  BY DEF Takes, taskVars
<1> HIDE DEF C
<1>8. ASSUME NEW i \in 1..Len(queue')
      PROVE  Carried(queue'[i], current - Len(queue') + i, C)
  <2>1. i + 1 \in 1..Len(queue) /\ queue'[i] = queue[i + 1] /\ i + 1 > Lead /\ i \in Nat
    BY <1>2, <1>3
  <2>2. Carried(queue[i + 1], current - Len(queue) + (i + 1), C)
    BY <2>1, <1>1, <1>2 DEF StreamInv
  <2>3. current - Len(queue) + (i + 1) = current - Len(queue') + i
    BY <2>1, <1>1, <1>2
  <2>. QED
    BY <2>1, <2>2, <2>3
<1>9. Lead' = 0
  <2>1. CASE queue' = <<>>
    BY <2>1 DEF Lead
  <2>2. CASE 1 \in 1..Len(queue')
    BY <2>2, <1>8 DEF Lead, Carried
  <2>3. queue' = <<>> \/ 1 \in 1..Len(queue')
    <3>1. queue' \in Seq(Event)
      BY <1>1, <1>2, QueueHead DEF Takes
    <3>. QED
      BY <3>1
  <2>. QED
    BY <2>1, <2>2, <2>3
<1>10. Done' = Done + 1 /\ Done' \in Nat
  BY <1>1, <1>2, <1>3, <1>7, <1>9 DEF Done
<1>11. TreesInv(ChainOf[best])'
  BY <1>1, <1>5, <1>6, <1>7 DEF TreesInv, Unanchored
<1>12. StreamInv(ChainOf[best])'
  <2>1. /\ Done' \in Nat /\ Reaches(tree', Done', C) /\ Latest(tree') = Done'
        /\ PriorAt(prior', current', C) /\ task' # "resend"
        /\ \A i \in 1..Len(fetched') : fetched'[i] \in C
    BY <1>1, <1>2, <1>3, <1>5, <1>6, <1>7, <1>10 DEF StreamInv
  <2>2. \A i \in 1..Len(queue') : Carried(queue'[i], current' - Len(queue') + i, C)
    BY <1>7, <1>8
  <2>. QED
    BY <2>1, <2>2, <1>1, <1>9 DEF StreamInv
<1>. QED
  BY <1>11, <1>12

(* The reorg meets a tree without records and changes nothing. *)
LEMMA ApplyReorgPlaced ==
  ASSUME Steady, ApplyReorg
  PROVE  TreesInv(ChainOf[best])' /\ StreamInv(ChainOf[best])'
<1> DEFINE C == ChainOf[best]
<1>1. /\ Base /\ TreesInv(C) /\ StreamInv(C) /\ ChainOf[best'] = C /\ current \in Nat
      /\ tree \in TreeType
  BY SteadyFacts DEF Steady
<1>2. /\ pc = "follow" /\ queue # <<>> /\ Head(queue).type = "Reorg"
      /\ tree' = RolledBack(tree, Head(queue).rollbackTo)
      /\ queue' = Tail(queue) /\ pc' \in {"follow", "snapshot"}
      /\ UNCHANGED <<disk, task, current, fetched, prior>>
  BY DEF ApplyReorg, Turn, taskVars
<1>3. /\ Head(queue) = queue[1] /\ Head(queue) \in Event /\ Len(queue) \in Nat \ {0}
      /\ Len(queue') = Len(queue) - 1 /\ queue' \in Seq(Event)
      /\ \A i \in 1..Len(queue') : queue'[i] = queue[i + 1] /\ i + 1 \in 1..Len(queue)
      /\ Following
  BY <1>1, <1>2, QueueHead DEF Following
<1>4. ~IsNew(queue[1]) /\ Head(queue).rollbackTo \in Nat
  BY <1>2, <1>3, EventFields
<1> HIDE DEF C
<1>5. Lead = 1 /\ tree.records = <<>>
  <2>1. Lead = 1
    BY <1>2, <1>4 DEF Lead
  <2>. QED
    BY <2>1, <1>1, <1>3 DEF StreamInv
<1>6. tree' = tree
  BY <1>1, <1>2, <1>4, <1>5, RolledBackTree
<1>7. ASSUME NEW i \in 1..Len(queue')
      PROVE  Carried(queue'[i], current - Len(queue') + i, C)
  <2>1. i + 1 \in 1..Len(queue) /\ queue'[i] = queue[i + 1] /\ i \in Nat
    BY <1>3
  <2>2. i + 1 > Lead
    BY <1>5
  <2>3. Carried(queue[i + 1], current - Len(queue) + (i + 1), C)
    BY <2>1, <2>2, <1>1, <1>3 DEF StreamInv
  <2>4. current - Len(queue) + (i + 1) = current - Len(queue') + i
    BY <2>1, <1>1, <1>3
  <2>. QED
    BY <2>1, <2>3, <2>4
<1>8. Lead' = 0
  <2>1. CASE queue' = <<>>
    BY <2>1 DEF Lead
  <2>2. CASE 1 \in 1..Len(queue')
    BY <2>2, <1>7 DEF Lead, Carried
  <2>. QED
    BY <2>1, <2>2, <1>3
<1>9. Done' = Done
  BY <1>1, <1>2, <1>3, <1>5, <1>8 DEF Done
<1>10. TreesInv(ChainOf[best])'
  BY <1>1, <1>2, <1>6 DEF TreesInv
<1>11. StreamInv(ChainOf[best])'
  <2>1. /\ Done' \in Nat /\ Reaches(tree', Done', C) /\ Latest(tree') = Done'
        /\ PriorAt(prior', current', C)
        /\ \A i \in 1..Len(fetched') : fetched'[i] \in C
    BY <1>1, <1>2, <1>3, <1>6, <1>9 DEF StreamInv
  <2>2. task' = "resend" => tree'.records = <<>> /\ Len(queue') = Lead'
    <3>1. task = "resend" => Len(queue) = Lead
      BY <1>1, <1>3 DEF StreamInv
    <3>. QED
      BY <3>1, <1>2, <1>3, <1>5, <1>6, <1>8
  <2>3. \A i \in 1..Len(queue') : Carried(queue'[i], current' - Len(queue') + i, C)
    BY <1>2, <1>7
  <2>. QED
    BY <2>1, <2>2, <2>3, <1>1, <1>8 DEF StreamInv
<1>. QED
  BY <1>10, <1>11

(* What was read stays on the branch. *)
LEMMA ReadPlaced ==
  ASSUME Steady, FetchBlock \/ BlockMissing \/ CallFails
  PROVE  TreesInv(ChainOf[best])' /\ StreamInv(ChainOf[best])'
<1> DEFINE C == ChainOf[best]
<1>1. /\ Base /\ TreesInv(C) /\ StreamInv(C) /\ ChainOf[best'] = C /\ best \in Block
  BY SteadyFacts DEF Steady
<1>2. /\ UNCHANGED <<pc, tree, disk, current, prior, queue>>
      /\ task' # "resend" /\ (Syncing \/ Following)
  <2>1. CASE FetchBlock
    BY <2>1, <1>1, FetchBlockBase DEF FetchBlock, mainVars
  <2>2. CASE BlockMissing \/ CallFails
    BY <2>2, <1>1, EndTaskBase
  <2>. QED
    BY <2>1, <2>2
<1>3. \A i \in 1..Len(fetched') : fetched'[i] \in C
  <2>1. CASE FetchBlock
    <3> DEFINE b == BlockAt(NextHeight)
    <3>1. b \in C /\ b \in Block
      BY <2>1, <1>1, BlockAtHeight DEF FetchBlock
    <3>2. fetched' = Append(fetched, b) /\ fetched \in Seq(Block)
      BY <2>1, <1>1 DEF FetchBlock, Base, Types
    <3> HIDE DEF b
    <3> HIDE DEF C
    <3>3. \A i \in 1..Len(fetched) : fetched[i] \in C
      BY <1>1, <1>2 DEF StreamInv
    <3>. QED
      BY <3>1, <3>2, <3>3
  <2>2. CASE BlockMissing \/ CallFails
    <3>1. fetched' = <<>>
      BY <2>2, <1>1, EndTaskBase
    <3>2. Len(fetched') = 0
      BY <3>1
    <3>. QED
      BY <3>2
  <2>. QED
    BY <2>1, <2>2
<1> HIDE DEF C
<1>4. TreesInv(ChainOf[best])'
  BY <1>1, <1>2 DEF TreesInv
<1>5. StreamInv(ChainOf[best])'
  BY <1>1, <1>2, <1>3 DEF StreamInv, Done, Lead, Syncing, Following
<1>. QED
  BY <1>4, <1>5

(* A block enters the channel behind what is on its way. *)
LEMMA HandOnPlaced ==
  ASSUME Steady, Syncing \/ Following, task \in {"send", "resend"},
         NEW size \in SUBSET prior, HandOn(size)
  PROVE  TreesInv(ChainOf[best])' /\ StreamInv(ChainOf[best])'
<1> DEFINE C == ChainOf[best]
           b == Head(fetched)
           e == NewBlock(b, size)
<1>1. /\ Base /\ TreesInv(C) /\ StreamInv(C) /\ ChainOf[best'] = C /\ current \in Nat
      /\ best \in Block /\ tree \in TreeType /\ C \subseteq Block /\ Len(queue) \in Nat
  BY SteadyFacts DEF Steady
<1>2. fetched # <<>> /\ prior \in SUBSET Nat
  BY <1>1 DEF Base, RangesInv, Types
<1>3. /\ b \in Block /\ HeightOf[b] = current + 1 /\ b = fetched[1] /\ 1 \in 1..Len(fetched)
      /\ \A i \in 1..Len(Tail(fetched)) :
           Tail(fetched)[i] = fetched[i + 1] /\ i + 1 \in 1..Len(fetched)
  BY <1>1, <1>2, FetchedHead
<1>4. b \in C
  BY <1>1, <1>3 DEF StreamInv
<1>5. e \in Event /\ IsNew(e) /\ e.block = b /\ e.prior = size
  BY <1>2, <1>3, NewBlockIs
<1>6. /\ queue' = Append(queue, e) /\ current' = HeightOf[b]
      /\ prior' = NoSizeIfZero(TotalAt[b])
      /\ fetched' = Tail(fetched) /\ task' # "resend"
      /\ UNCHANGED <<pc, tree, disk>>
  BY DEF HandOn, Send, TreeSizeAfter, mainVars
<1>7. Carried(e, current + 1, C)
  <2>1. size \subseteq {TotalAt[b] - Commitments[b]}
    <3>1. CASE prior = {}
      BY <3>1
    <3>2. CASE \E c \in C : HeightOf[c] = current /\ prior = {TotalAt[c]}
      <4>1. PICK c \in C : HeightOf[c] = current /\ prior = {TotalAt[c]}
        BY <3>2
      <4>2. TotalAt[b] - Commitments[b] = TotalAt[c]
        BY <4>1, <1>1, <1>3, <1>4, TotalStep
      <4>. QED
        BY <4>1, <4>2
    <3>3. PriorAt(prior, current, C)
      BY <1>1 DEF StreamInv
    <3>. QED
      BY <3>1, <3>2, <3>3 DEF PriorAt
  <2>. QED
    BY <2>1, <1>3, <1>4, <1>5 DEF Carried
<1>8. PriorAt(prior', current', C)
  <2>1. TotalAt[b] \in Nat
    BY <1>3, TotalType
  <2>. QED
    BY <2>1, <1>4, <1>6 DEF PriorAt, NoSizeIfZero
<1> HIDE DEF e
<1>9. /\ queue' \in Seq(Event) /\ Len(queue') = Len(queue) + 1
      /\ queue' # <<>>
      /\ \A i \in 1..Len(queue) : queue'[i] = queue[i]
      /\ queue'[Len(queue) + 1] = e
  BY <1>1, <1>5, <1>6, QueueAppend
<1> HIDE DEF b
<1> HIDE DEF C
<1>10. Lead' = Lead /\ Lead \in {0, 1}
  <2>1. CASE queue = <<>>
    <3>1. queue'[1] = e
      <4>1. Len(queue) + 1 = 1
        BY <2>1
      <4>. QED
        BY <4>1, <1>9
    <3>. QED
      BY <3>1, <2>1, <1>5 DEF Lead
  <2>2. CASE queue # <<>>
    <3>1. 1 \in 1..Len(queue)
      BY <2>2, <1>1, QueueHead
    <3>2. queue'[1] = queue[1]
      BY <3>1, <1>9
    <3>. QED
      BY <3>2, <2>2, <1>9 DEF Lead
  <2>. QED
    BY <2>1, <2>2
<1>11. current' = current + 1 /\ Done' = Done
  BY <1>1, <1>3, <1>6, <1>9, <1>10 DEF Done
<1>12. ASSUME NEW i \in 1..Len(queue'), i > Lead'
       PROVE  Carried(queue'[i], current' - Len(queue') + i, C)
  <2>1. CASE i \in 1..Len(queue)
    <3>1. Carried(queue[i], current - Len(queue) + i, C)
      BY <2>1, <1>1, <1>10, <1>12 DEF StreamInv
    <3>2. current - Len(queue) + i = current' - Len(queue') + i
      BY <2>1, <1>1, <1>9, <1>11
    <3>. QED
      BY <3>1, <3>2, <2>1, <1>9
  <2>2. CASE i = Len(queue) + 1
    <3>1. current + 1 = current' - Len(queue') + i
      BY <2>2, <1>1, <1>9, <1>11
    <3>. QED
      BY <3>1, <2>2, <1>7, <1>9
  <2>. QED
    BY <2>1, <2>2, <1>1, <1>9
<1>13. ASSUME NEW i \in 1..Len(fetched')
       PROVE  fetched'[i] \in C
  <2>1. fetched'[i] = fetched[i + 1] /\ i + 1 \in 1..Len(fetched)
    BY <1>3, <1>6
  <2>. QED
    BY <2>1, <1>1 DEF StreamInv
<1>14. TreesInv(ChainOf[best])'
  <2>1. pc' = pc /\ tree' = tree /\ disk' = disk /\ pc # "window"
    BY <1>6 DEF Syncing, Following
  <2>. QED
    BY <2>1, <1>1 DEF TreesInv
<1>15. StreamInv(ChainOf[best])'
  <2>1. /\ Done' \in Nat /\ Reaches(tree', Done', C) /\ (Following' => Latest(tree') = Done')
        /\ Lead' = 1 => tree'.records = <<>>
    BY <1>1, <1>6, <1>10, <1>11 DEF StreamInv, Following
  <2>. QED
    BY <2>1, <1>1, <1>6, <1>8, <1>12, <1>13 DEF StreamInv
<1>. QED
  BY <1>14, <1>15

(* On one branch only a tree without records sees a reorg. *)
LEMMA SendReorgPlaced ==
  ASSUME Steady, SendReorg
  PROVE  TreesInv(ChainOf[best])' /\ StreamInv(ChainOf[best])'
<1> DEFINE C == ChainOf[best]
           b == Head(fetched)
<1>1. /\ Base /\ TreesInv(C) /\ StreamInv(C) /\ ChainOf[best'] = C /\ current \in Nat
      /\ best \in Block /\ tree \in TreeType /\ C \subseteq Block /\ Len(queue) \in Nat
      /\ TipInv
  BY SteadyFacts DEF Steady
<1>2. /\ Following /\ fetched # <<>> /\ task = "send" /\ task' = "resend"
      /\ ~Linked(b)
      /\ UNCHANGED <<pc, tree, disk, current, fetched, prior>>
  BY <1>1, SendReorgIs
<1>3. b \in Block /\ HeightOf[b] = current + 1 /\ b = fetched[1] /\ 1 \in 1..Len(fetched)
  BY <1>1, <1>2, FetchedHead
<1>4. b \in C
  BY <1>1, <1>2, <1>3 DEF StreamInv
<1>5. ASSUME NEW c \in C, HeightOf[c] = current, Tracker!Tip(tracker) = Tracker!Pair(HeightOf[c], c)
      PROVE  FALSE
  <2>1. Parent[b] = c
    BY <1>1, <1>3, <1>4, <1>5, ChainStep
  <2>2. Tracker!Tip(tracker).hash = c /\ Tracker!Tip(tracker).height = current
    BY <1>5 DEF Tracker!Pair
  <2>. QED
    BY <2>1, <2>2, <1>2, <1>3 DEF Linked, Tracker!Extends, Tracker!Links
<1> HIDE DEF b
<1> HIDE DEF C
<1>6. queue = <<>>
  <2> SUFFICES ASSUME queue # <<>>
               PROVE  FALSE
    OBVIOUS
  <2> DEFINE n == Len(queue)
  <2>1. n \in 1..n /\ 1 \in 1..n /\ queue \in Seq(Event)
    BY <1>1, QueueHead DEF Base, Types
  <2>2. IsNew(queue[n])
    BY <1>1, <1>2 DEF TipInv
  <2>3. n > Lead
    <3>1. CASE IsNew(queue[1])
      BY <3>1, <2>1 DEF Lead
    <3>2. CASE ~IsNew(queue[1])
      <4>1. n # 1
        BY <3>2, <2>2
      <4>2. Lead = 1
        BY <3>2 DEF Lead
      <4>3. n \in Nat /\ 1 <= n
        BY <2>1, <1>1
      <4> HIDE DEF n
      <4>. QED
        BY <4>1, <4>2, <4>3
    <3>. QED
      BY <3>1, <3>2
  <2>4. Carried(queue[n], current - n + n, C)
    BY <2>1, <2>3, <1>1, <1>2 DEF StreamInv
  <2>5. queue[n].block \in C /\ HeightOf[queue[n].block] = current
    BY <2>1, <2>4, <1>1 DEF Carried
  <2>6. Tracker!Tip(tracker) = Tracker!Pair(HeightOf[queue[n].block], queue[n].block)
    BY <1>1, <1>2 DEF TipInv, TipOf
  <2>. QED
    BY <2>5, <2>6, <1>5
<1>7. Len(queue) = 0 /\ Lead = 0 /\ Done = current
  BY <1>1, <1>6 DEF Lead, Done
<1>8. tree.records = <<>>
  <2> SUFFICES ASSUME tree.records # <<>>
               PROVE  FALSE
    OBVIOUS
  <2>1. LatestHash(tree) \in C /\ Latest(tree) = HeightOf[LatestHash(tree)]
    BY <1>1, PlacedEnd DEF TreesInv
  <2>2. Latest(tree) = current
    BY <1>1, <1>2, <1>7 DEF StreamInv
  <2>3. Tracker!Tip(tracker) = Tracker!Pair(Latest(tree), LatestHash(tree))
    BY <1>1, <1>2, <1>6 DEF TipInv, TipOf
  <2>. QED
    BY <2>1, <2>2, <2>3, <1>5
<1>9. PICK e \in Event : ~IsNew(e) /\ queue' = Append(queue, e)
  BY <1>1, SendReorgIs
<1>10. Len(queue') = 1 /\ queue' # <<>> /\ queue'[1] = e
  <2>1. /\ Len(queue') = Len(queue) + 1 /\ queue' # <<>> /\ queue'[Len(queue) + 1] = e
    BY <1>1, <1>9, QueueAppend
  <2>. QED
    BY <2>1, <1>7
<1>11. Lead' = 1
  BY <1>9, <1>10 DEF Lead
<1>12. Done' = current
  BY <1>1, <1>2, <1>10, <1>11 DEF Done
<1>13. TreesInv(ChainOf[best])'
  BY <1>1, <1>2 DEF TreesInv
<1>14. StreamInv(ChainOf[best])'
  <2>1. /\ Done' \in Nat /\ Reaches(tree', Done', C) /\ Latest(tree') = Done'
        /\ tree'.records = <<>> /\ Len(queue') = Lead'
        /\ PriorAt(prior', current', C)
        /\ \A i \in 1..Len(fetched') : fetched'[i] \in C
    BY <1>1, <1>2, <1>7, <1>8, <1>10, <1>11, <1>12 DEF StreamInv
  <2>2. \A i \in 1..Len(queue') : ~(i > Lead')
    BY <1>10, <1>11
  <2>. QED
    BY <2>1, <2>2, <1>1 DEF StreamInv
<1>. QED
  BY <1>13, <1>14

LEMMA PlacedNext == ASSUME Base, TipInv, PlacedInv, [Next]_vars PROVE PlacedInv'
<1>1. CASE Environment
  BY <1>1, PlacedEnvironment
<1>2. CASE ~Environment
  <2> SUFFICES ASSUME Undisturbed'
               PROVE  TreesInv(ChainOf[best])' /\ StreamInv(ChainOf[best])'
    BY DEF PlacedInv
  <2>1. Steady
    BY <1>2, UndisturbedBefore DEF PlacedInv, Steady
  <2>2. CASE PollSync \/ PollFollow \/ RangeDone \/ Stopped \/ PollNothingNew \/ UNCHANGED vars
    BY <2>1, <2>2, QuietPlaced
  <2>3. CASE SaveAfterSync \/ PeriodicSave
    BY <2>1, <2>3, SavePlaced
  <2>4. CASE CompletingBlockMissing \/ TreeSizeMismatch \/ Crash \/ ChannelClosed
    BY <2>1, <2>4, ClearedPlaced
  <2>5. CASE Start \/ ReadRoots \/ ReadCompletingBlock \/ StartServing
    BY <2>1, <2>5, StartPlaced, ReadRootsPlaced, ReadCompletingBlockPlaced, StartServingPlaced
  <2>6. CASE AppendSynced \/ ApplyNewBlock
    BY <2>1, <2>6, TakesBlock, TakesPlaced
  <2>7. CASE ApplyReorg
    BY <2>1, <2>7, ApplyReorgPlaced
  <2>8. CASE FetchBlock \/ BlockMissing \/ CallFails
    BY <2>1, <2>8, ReadPlaced
  <2>9. CASE SendSync \/ SendExtension \/ SendReplacement
    <3>1. Syncing \/ Following
      BY <2>9 DEF SendSync, SendExtension, SendReplacement, Base, RangesInv
    <3>2. task \in {"send", "resend"}
      BY <2>9 DEF SendSync, SendExtension, SendReplacement
    <3>3. HandOn(prior) \/ HandOn({})
      BY <2>9 DEF SendSync, SendExtension, SendReplacement
    <3>4. prior \in SUBSET prior /\ {} \in SUBSET prior
      OBVIOUS
    <3>. QED
      BY <2>1, <3>1, <3>2, <3>3, <3>4, HandOnPlaced
  <2>10. CASE SendReorg
    BY <2>1, <2>10, SendReorgPlaced
  <2>. QED
    BY <1>2, <2>2, <2>3, <2>4, <2>5, <2>6, <2>7, <2>8, <2>9, <2>10 DEF Next, MainStep, TaskStep
<1>. QED
  BY <1>1, <1>2

LEMMA PlacedInvariant == Spec => []PlacedInv
  BY PlacedInit, PlacedNext, BaseInvariant, TipInvariant, PTL DEF Spec

(* As long as lightwalletd stayed on one branch and no sync failed before  *)
(* the first block of a window, every leaf is served at its position in    *)
(* the chain's tree: after floor and windowed starts, a window that begins *)
(* inside a block, crashes at any point and a resume from any snapshot.    *)
THEOREM LeavesCorrect == Spec => []LeavesAreInPlace
<1>1. Base /\ PlacedInv => LeavesAreInPlace
  <2> SUFFICES ASSUME Base, PlacedInv, serving, switches = 0, ~unanchored
               PROVE  Placed(live)
    BY DEF LeavesAreInPlace
  <2>1. live = tree /\ tree \in TreeType
    BY DEF Base, Types, RangesInv
  <2>2. PlacedOn(tree, ChainOf[best])
    BY DEF PlacedInv, Undisturbed, TreesInv
  <2>. QED
    BY <2>1, <2>2, PlacedIs
<1>. QED
  BY <1>1, BaseInvariant, PlacedInvariant, PTL

(* Under the same conditions the size that comes with a block is the size  *)
(* of the tree it is appended to: validate_prior_tree_size never stops a   *)
(* server for which there is nothing to mend.                              *)
THEOREM SizeCheckCorrect == Spec => []SizeCheckPasses
<1>1. Base /\ TipInv /\ PlacedInv => SizeCheckPasses
  <2> SUFFICES ASSUME Base, TipInv, PlacedInv, switches = 0, ~unanchored, queue # <<>>,
                      Head(queue).type = "NewBlock"
               PROVE  Fits(tree, Head(queue).prior)
    BY DEF SizeCheckPasses
  <2> DEFINE C == ChainOf[best]
             e == Head(queue)
  <2>1. StreamInv(C) /\ best \in Block /\ tree \in TreeType /\ current \in Nat
    BY DEF PlacedInv, Undisturbed, Base, Types
  <2>2. /\ e = queue[1] /\ 1 \in 1..Len(queue) /\ Len(queue) \in Nat \ {0} /\ IsNew(e)
        /\ (Syncing \/ Following)
    BY QueueHead DEF IsNew
  <2> HIDE DEF e
  <2>3. Lead = 0 /\ Done = current - Len(queue)
    BY <2>1, <2>2 DEF Lead, Done
  <2>4. Done \in Nat /\ Reaches(tree, Done, C)
    BY <2>1, <2>2 DEF StreamInv
  <2>5. Carried(e, Done + 1, C)
    BY <2>1, <2>2, <2>3 DEF StreamInv
  <2>6. e.block \in C /\ HeightOf[e.block] = Done + 1
        /\ e.prior \subseteq {TotalAt[e.block] - Commitments[e.block]}
    BY <2>5 DEF Carried
  <2>7. Size(tree) = TotalAt[e.block] - Commitments[e.block]
    BY <2>1, <2>4, <2>6, NextSize
  <2>. QED
    BY <2>6, <2>7 DEF Fits, e
<1>. QED
  BY <1>1, BaseInvariant, TipInvariant, PlacedInvariant, PTL

=============================================================================
