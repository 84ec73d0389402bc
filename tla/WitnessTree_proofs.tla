-------------------------- MODULE WitnessTree_proofs --------------------------
(***************************************************************************)
(* Proofs about the note commitment tree, for every size of sub-shard,     *)
(* shard and window, every set of blocks and every assignment of           *)
(* commitments to them; and about the client that reads what the tree      *)
(* publishes, for every behaviour of the server and a broadcast of any age.*)
(*                                                                         *)
(* The inductive invariant of the tree says the same of the state and of a *)
(* snapshot on disk, since from_snapshot makes the one the other           *)
(* (StateOK), and says of a published view what it says of itself.  That   *)
(* of the client (CInv) says what a publication says about its window, and *)
(* ViewsWhole how the rows, roots and cap of a publication hang together,  *)
(* whatever its age.                                                       *)
(*                                                                         *)
(* The last part is about the tree a publication stands for.  The client   *)
(* climbs it in three tiers (leaves of a row, roots of a shard, the cap);  *)
(* TreeRoot knows no tiers.  Both are levels of lists, each level pairing  *)
(* the one below, so a tier is followed level by level (TierOfTree for the *)
(* tree, PathThrough for the path of a witness) and what is true of each   *)
(* level by induction over the levels (NumberInduction).                   *)
(***************************************************************************)
EXTENDS WitnessClient, FiniteSetTheorems, SequenceTheorems, TLAPS

-----------------------------------------------------------------------------
(* The tree *)

(* LeavesOfSlot and CacheSound for a given list of leaves. *)
LeavesIn(list, s) ==
  [i \in 1..SubshardLeaves |->
     IF s * SubshardLeaves + i <= Len(list) THEN list[s * SubshardLeaves + i]
     ELSE EmptyLeaf]

CacheOK(list, c) ==
  \A s \in Slot :
    c[s] # {} => c[s] = {LeavesIn(list, s)} /\ s * SubshardLeaves < Len(list)

StateOK(list, records, c) ==
  /\ list \in Seq(Leaf)
  /\ records \in Seq(BlockRecord)
  /\ c \in [Slot -> Clean(Root)]
  /\ CacheOK(list, c)
  /\ LeavesAre(list, records)

RowsTyped == \A v \in pir : \A s \in Slot : v.rows[s] \in Root \cup {ZeroRow}

IInv ==
  /\ StateOK(leaves, blocks, cache)
  /\ \A d \in disk : StateOK(d.leaves, d.blocks, d.cache)
  /\ RowsTyped
  /\ RowsVerify
  /\ CapIsTheTree

(* The cells Recorded counts: one per leaf of a block from..to. *)
Span(records, from, to) == UNION {{i} \X (1..records[i].num) : i \in from..to}

-----------------------------------------------------------------------------
(* Geometry *)

LEMMA Division ==
  ASSUME NEW n \in Nat, NEW d \in Nat \ {0}
  PROVE  /\ n \div d \in Nat
         /\ (n \div d) * d <= n
         /\ n < (n \div d + 1) * d
  OBVIOUS

LEMMA NextMultiple ==
  ASSUME NEW a \in Int, NEW b \in Int, NEW d \in Nat, a < b
  PROVE  a * d + d <= b * d
  OBVIOUS

LEMMA NextSlot ==
  \A a, b \in Int : a < b => a * SubshardLeaves + SubshardLeaves <= b * SubshardLeaves
  BY NextMultiple, TreeAssumption

LEMMA SlotNat == Slot \subseteq Nat
  BY DEF Slot

(* A sub-shard that ends before the leaves do holds leaves only, and the   *)
(* same ones whatever follows.                                             *)
LEMMA SameLeaves ==
  ASSUME NEW s \in Nat, NEW l1 \in Seq(Leaf), NEW l2 \in Seq(Leaf), NEW n \in Nat,
         s * SubshardLeaves + SubshardLeaves <= n,
         n <= Len(l1), n <= Len(l2),
         \A p \in 1..n : l1[p] = l2[p]
  PROVE  LeavesIn(l1, s) = LeavesIn(l2, s)
<1> DEFINE start == s * SubshardLeaves
<1>1. start \in Nat /\ SubshardLeaves \in Nat /\ start + SubshardLeaves <= n
  BY TreeAssumption
<1>2. ASSUME NEW i \in 1..SubshardLeaves
      PROVE  start + i \in 1..n
  <2> HIDE DEF start
  <2>. QED
    BY <1>1
<1>3. ASSUME NEW i \in 1..SubshardLeaves
      PROVE  (IF start + i <= Len(l1) THEN l1[start + i] ELSE EmptyLeaf)
               = (IF start + i <= Len(l2) THEN l2[start + i] ELSE EmptyLeaf)
  BY <1>1, <1>2
<1>. QED
  BY <1>3 DEF LeavesIn

LEMMA LeavesInRoot ==
  ASSUME NEW list \in Seq(Leaf), NEW s \in Nat
  PROVE  LeavesIn(list, s) \in Root
<1> DEFINE start == s * SubshardLeaves
<1>1. start \in Nat
  BY TreeAssumption
<1>2. ASSUME NEW i \in 1..SubshardLeaves
      PROVE  (IF start + i <= Len(list) THEN list[start + i] ELSE EmptyLeaf)
               \in Leaf \cup {EmptyLeaf}
  BY <1>1
<1>. QED
  BY <1>2 DEF LeavesIn, Root

LEMMA SameDefinitions ==
  ASSUME leaves \in Seq(Leaf)
  PROVE  /\ \A s \in Slot : LeavesOfSlot(s) = LeavesIn(leaves, s)
         /\ \A s \in Slot : BeyondFrontier(s) <=> ~(s * SubshardLeaves < Len(leaves))
<1>1. \A s \in Slot : LeavesOfSlot(s) = LeavesIn(leaves, s)
  BY DEF LeavesOfSlot, LeavesIn, LeafAt
<1>2. ASSUME NEW s \in Slot
      PROVE  BeyondFrontier(s) <=> ~(s * SubshardLeaves < Len(leaves))
  <2>1. s * SubshardLeaves \in Nat /\ Len(leaves) \in Nat
    BY SlotNat, TreeAssumption
  <2>. QED
    BY <2>1 DEF BeyondFrontier
<1>. QED
  BY <1>1, <1>2

-----------------------------------------------------------------------------
(* The cache *)

(* A root append_commitments leaves in the cache is that of a full         *)
(* sub-shard, which the append does not touch.                             *)
LEMMA AppendKeepsRoots ==
  ASSUME NEW list \in Seq(Leaf), NEW cmx \in Seq(Leaf), cmx # <<>>,
         NEW s \in Nat, s * SubshardLeaves < Len(list),
         ~ (/\ Len(list) \div SubshardLeaves <= s
            /\ s <= (Len(list) + Len(cmx) - 1) \div SubshardLeaves)
  PROVE  LeavesIn(list \o cmx, s) = LeavesIn(list, s)
<1> DEFINE n == Len(list)
           q == n \div SubshardLeaves
           m == n + Len(cmx) - 1
           last == m \div SubshardLeaves
<1>1. n \in Nat /\ m \in Nat /\ n <= m
  BY EmptySeq
<1>2. /\ q \in Nat /\ q * SubshardLeaves <= n
      /\ last \in Nat /\ m < (last + 1) * SubshardLeaves
  BY <1>1, Division, TreeAssumption
<1>3. s < q
  <2>1. SUFFICES ASSUME last < s PROVE FALSE
    BY <1>2
  <2>2. (last + 1) * SubshardLeaves <= s * SubshardLeaves
    <3>1. last * SubshardLeaves + SubshardLeaves <= s * SubshardLeaves
      <4> HIDE DEF last
      <4>. QED
        BY <1>2, <2>1, NextSlot
    <3>. QED
      BY <1>2, <3>1, TreeAssumption
  <2>3. /\ s * SubshardLeaves \in Int /\ (last + 1) * SubshardLeaves \in Int
        /\ s * SubshardLeaves < n
    BY <1>2, TreeAssumption
  <2>. QED
    BY <1>1, <1>2, <2>2, <2>3
<1>4. s * SubshardLeaves + SubshardLeaves <= n
  <2>1. s * SubshardLeaves + SubshardLeaves <= q * SubshardLeaves
    <3> HIDE DEF q
    <3>. QED
      BY <1>2, <1>3, NextSlot
  <2>2. /\ s * SubshardLeaves \in Int /\ q * SubshardLeaves \in Int
        /\ SubshardLeaves \in Int
    BY <1>2, TreeAssumption
  <2>. QED
    BY <1>1, <1>2, <2>1, <2>2
<1>5. /\ list \o cmx \in Seq(Leaf)
      /\ Len(list \o cmx) = n + Len(cmx)
      /\ \A p \in 1..n : (list \o cmx)[p] = list[p]
  BY ConcatProperties
<1>. QED
  <2>1. n <= Len(list) /\ n <= Len(list \o cmx)
    BY <1>1, <1>5
  <2>. QED
    BY <1>1, <1>4, <1>5, <2>1, SameLeaves

(* A root rollback_to leaves in the cache is that of a sub-shard that ends *)
(* before the cut.                                                         *)
LEMMA CutKeepsRoots ==
  ASSUME NEW list \in Seq(Leaf), NEW n \in 0..Len(list),
         NEW s \in Nat, n # 0, s < (n - 1) \div SubshardLeaves
  PROVE  /\ LeavesIn(SubSeq(list, 1, n), s) = LeavesIn(list, s)
         /\ s * SubshardLeaves < n
<1> DEFINE q == (n - 1) \div SubshardLeaves
<1>1. q \in Nat /\ q * SubshardLeaves <= n - 1
  BY Division, TreeAssumption
<1>2. s * SubshardLeaves + SubshardLeaves <= q * SubshardLeaves
  <2>1. s < q
    OBVIOUS
  <2> HIDE DEF q
  <2>. QED
    BY <1>1, <2>1, NextSlot
<1>3. /\ s * SubshardLeaves \in Int /\ q * SubshardLeaves \in Int
      /\ SubshardLeaves \in Nat
  BY <1>1, TreeAssumption
<1>4. s * SubshardLeaves + SubshardLeaves <= n /\ s * SubshardLeaves < n
  BY <1>1, <1>2, <1>3
<1>5. /\ SubSeq(list, 1, n) \in Seq(Leaf)
      /\ Len(SubSeq(list, 1, n)) = n
      /\ \A p \in 1..n : SubSeq(list, 1, n)[p] = list[p]
  BY SubSeqProperties
<1>6. LeavesIn(SubSeq(list, 1, n), s) = LeavesIn(list, s)
  <2>1. n \in Nat /\ n <= Len(list) /\ n <= Len(SubSeq(list, 1, n))
    BY <1>5
  <2> DEFINE cut == SubSeq(list, 1, n)
  <2>2. cut \in Seq(Leaf) /\ n <= Len(cut) /\ \A p \in 1..n : cut[p] = list[p]
    BY <1>5, <2>1
  <2> HIDE DEF cut
  <2>3. LeavesIn(cut, s) = LeavesIn(list, s)
    BY <1>4, <2>1, <2>2, SameLeaves
  <2>. QED
    BY <2>3 DEF cut
<1>. QED
  BY <1>4, <1>6

-----------------------------------------------------------------------------
(* Counting the commitments of block records *)

LEMMA OneBlock ==
  ASSUME NEW a, NEW n \in Nat
  PROVE  IsFiniteSet({a} \X (1..n)) /\ Cardinality({a} \X (1..n)) = n
<1>1. IsFiniteSet({a}) /\ Cardinality({a}) = 1
  BY FS_Singleton
<1>2. IsFiniteSet(1..n) /\ Cardinality(1..n) = n
  <2>1. 1 \in Int /\ n \in Int
    OBVIOUS
  <2>2. IsFiniteSet(1..n) /\ Cardinality(1..n) = IF 1 > n THEN 0 ELSE n - 1 + 1
    BY <2>1, FS_Interval, Zenon
  <2>. QED
    BY <2>2
<1>3. /\ IsFiniteSet({a} \X (1..n))
      /\ Cardinality({a} \X (1..n)) = Cardinality({a}) * Cardinality(1..n)
  BY <1>1, <1>2, FS_Product
<1>4. Cardinality({a} \X (1..n)) = 1 * n
  BY <1>1, <1>2, <1>3, Zenon
<1>. QED
  BY <1>3, <1>4

LEMMA SpanFinite ==
  ASSUME NEW records, NEW a \in Int, NEW b \in Int,
         \A i \in a..b : records[i].num \in Nat
  PROVE  IsFiniteSet(Span(records, a, b)) /\ Recorded(records, a, b) \in Nat
<1> DEFINE part == [i \in a..b |-> {i} \X (1..records[i].num)]
           parts == {{i} \X (1..records[i].num) : i \in a..b}
<1>1. IsFiniteSet(a..b)
  BY FS_Interval
<1>2. part \in Surjection(a..b, parts)
  BY DEF Surjection
<1>3. IsFiniteSet(parts)
  BY <1>1, <1>2, FS_Surjection
<1>4. ASSUME NEW p \in parts PROVE IsFiniteSet(p)
  <2>1. PICK i \in a..b : p = {i} \X (1..records[i].num)
    BY <1>4
  <2>. QED
    BY <2>1, OneBlock
<1> HIDE DEF part
<1>5. IsFiniteSet(UNION parts)
  <2> HIDE DEF parts
  <2>. QED
    BY <1>3, <1>4, FS_UNION
<1>. QED
  BY <1>5, FS_CardinalityType DEF Span, Recorded

LEMMA RecordedNothing ==
  ASSUME NEW records, NEW a \in Int, NEW b \in Int, b < a
  PROVE  Recorded(records, a, b) = 0
<1>1. UNION {{i} \X (1..records[i].num) : i \in a..b} = {}
  BY a..b = {}
<1>. QED
  BY <1>1, FS_EmptySet DEF Recorded

LEMMA RecordedOne ==
  ASSUME NEW records, NEW a \in Int, records[a].num \in Nat
  PROVE  Recorded(records, a, a) = records[a].num
<1>1. a..a = {a}
  OBVIOUS
<1>2. UNION {{i} \X (1..records[i].num) : i \in a..a} = {a} \X (1..records[a].num)
  BY <1>1
<1>. QED
  BY <1>2, OneBlock DEF Recorded

LEMMA RecordedSplit ==
  ASSUME NEW records, NEW a \in Int, NEW k \in Int, NEW b \in Int,
         a <= k + 1, k <= b,
         \A i \in a..b : records[i].num \in Nat
  PROVE  Recorded(records, a, b) = Recorded(records, a, k) + Recorded(records, k + 1, b)
<1> DEFINE low == Span(records, a, k)
           high == Span(records, k + 1, b)
<1>1. Span(records, a, b) = low \cup high
  BY DEF Span
<1>2. low \cap high = {}
  BY DEF Span
<1>3. IsFiniteSet(low) /\ IsFiniteSet(high)
  BY SpanFinite
<1> HIDE DEF low, high
<1>4. Cardinality(low \cup high)
        = Cardinality(low) + Cardinality(high) - Cardinality(low \cap high)
  BY <1>3, FS_Union
<1>5. Cardinality(low \cap high) = 0
  BY <1>2, FS_EmptySet
<1>6. Cardinality(low) \in Nat /\ Cardinality(high) \in Nat
  BY <1>3, FS_CardinalityType
<1>7. Cardinality(Span(records, a, b)) = Cardinality(low) + Cardinality(high)
  BY <1>1, <1>4, <1>5, <1>6
<1>. QED
  BY <1>7 DEF low, high, Span, Recorded

LEMMA RecordedSame ==
  ASSUME NEW r1, NEW r2, NEW a \in Int, NEW b \in Int,
         \A i \in a..b : r1[i].num = r2[i].num
  PROVE  Recorded(r1, a, b) = Recorded(r2, a, b)
<1>1. {{i} \X (1..r1[i].num) : i \in a..b} = {{i} \X (1..r2[i].num) : i \in a..b}
  OBVIOUS
<1>. QED
  BY <1>1 DEF Recorded

LEMMA RecordType ==
  ASSUME NEW records \in Seq(BlockRecord)
  PROVE  \A i \in 1..Len(records) :
           /\ records[i].num \in Nat
           /\ CommitmentsOf[records[i].hash] \in Seq(Leaf)
<1> TAKE i \in 1..Len(records)
<1>1. records[i] \in BlockRecord
  BY ElementOfSeq
<1>2. records[i].num \in Nat /\ records[i].hash \in Block
  BY <1>1 DEF BlockRecord
<1>. QED
  BY <1>2, TreeAssumption

(* Where the commitments of one block lie. *)
LEMMA BlockSpan ==
  ASSUME NEW records \in Seq(BlockRecord), NEW i \in 1..Len(records)
  PROVE  /\ Recorded(records, 1, i - 1) \in Nat
         /\ records[i].num \in Nat
         /\ Recorded(records, 1, i) = Recorded(records, 1, i - 1) + records[i].num
         /\ Recorded(records, 1, i) <= Recorded(records, 1, Len(records))
<1>1. \A j \in 1..Len(records) : records[j].num \in Nat
  BY RecordType
<1>2. Recorded(records, 1, i - 1) \in Nat
  BY <1>1, SpanFinite
<1>3. records[i].num \in Nat
  BY <1>1
<1>4. Recorded(records, i, i) = records[i].num
  BY <1>3, RecordedOne
<1>5. Recorded(records, 1, i) = Recorded(records, 1, i - 1) + Recorded(records, i, i)
  <2> DEFINE k == i - 1
  <2>1. k \in Int /\ 1 <= k + 1 /\ k <= i /\ k + 1 = i
    OBVIOUS
  <2>2. \A j \in 1..i : records[j].num \in Nat
    BY <1>1
  <2> HIDE DEF k
  <2>3. Recorded(records, 1, i) = Recorded(records, 1, k) + Recorded(records, k + 1, i)
    BY <2>1, <2>2, RecordedSplit
  <2>. QED
    BY <2>1, <2>3 DEF k
<1>6. Recorded(records, 1, Len(records))
        = Recorded(records, 1, i) + Recorded(records, i + 1, Len(records))
  BY <1>1, RecordedSplit
<1>7. Recorded(records, 1, i) \in Nat /\ Recorded(records, i + 1, Len(records)) \in Nat
  BY <1>1, SpanFinite
<1>. QED
  BY <1>2, <1>3, <1>4, <1>5, <1>6, <1>7

LEMMA LeavesAreAppended ==
  ASSUME NEW list \in Seq(Leaf), NEW records \in Seq(BlockRecord),
         LeavesAre(list, records),
         NEW r \in BlockRecord, r.num = Len(CommitmentsOf[r.hash])
  PROVE  LeavesAre(list \o CommitmentsOf[r.hash], Append(records, r))
<1> DEFINE cmx == CommitmentsOf[r.hash]
           list2 == list \o cmx
           records2 == Append(records, r)
           m == Len(records)
<1>1. cmx \in Seq(Leaf)
  BY TreeAssumption DEF BlockRecord
<1>2. /\ list2 \in Seq(Leaf)
      /\ Len(list2) = Len(list) + Len(cmx)
      /\ \A p \in 1..Len(list) : list2[p] = list[p]
      /\ \A j \in 1..Len(cmx) : list2[Len(list) + j] = cmx[j]
  BY <1>1, ConcatProperties
<1>3. /\ records2 \in Seq(BlockRecord)
      /\ Len(records2) = m + 1 /\ m \in Nat
      /\ records2[m + 1] = r
      /\ \A i \in 1..m : records2[i] = records[i]
  OBVIOUS
<1>4. \A i \in 1..(m + 1) : Recorded(records2, 1, i - 1) = Recorded(records, 1, i - 1)
  <2> TAKE i \in 1..(m + 1)
  <2>1. /\ 1 \in Int /\ i - 1 \in Int
        /\ \A h \in 1..(i - 1) : records2[h].num = records[h].num
    BY <1>3
  <2> HIDE DEF records2
  <2>. QED
    BY <2>1, RecordedSame, Zenon
<1>5. Len(list) = Recorded(records, 1, m)
  BY DEF LeavesAre
<1>6. Recorded(records2, 1, m) = Len(list)
  <2>1. m + 1 \in 1..(m + 1) /\ m + 1 - 1 = m
    BY <1>3
  <2>. QED
    BY <1>4, <1>5, <2>1
<1> HIDE DEF list2, records2
<1>7. Len(list2) = Recorded(records2, 1, Len(records2))
  <2>1. m + 1 \in 1..Len(records2) /\ m + 1 - 1 = m
    BY <1>3
  <2>2. Recorded(records2, 1, m + 1) = Recorded(records2, 1, m) + r.num
    BY <1>3, <2>1, BlockSpan
  <2>. QED
    BY <1>2, <1>3, <1>6, <2>2
<1>8. ASSUME NEW i \in DOMAIN records2
      PROVE  /\ records2[i].num = Len(CommitmentsOf[records2[i].hash])
             /\ \A j \in DOMAIN CommitmentsOf[records2[i].hash] :
                  list2[Recorded(records2, 1, i - 1) + j]
                    = CommitmentsOf[records2[i].hash][j]
  <2>1. i \in 1..(m + 1)
    BY <1>3, <1>8
  <2>2. CASE i = m + 1
    <3>1. i - 1 = m /\ records2[i] = r
      BY <1>3, <2>2
    <3>2. Recorded(records2, 1, i - 1) = Len(list)
      BY <1>6, <3>1, Zenon
    <3>3. DOMAIN cmx = 1..Len(cmx)
      BY <1>1
    <3> HIDE DEF cmx
    <3>4. \A j \in DOMAIN cmx : list2[Recorded(records2, 1, i - 1) + j] = cmx[j]
      BY <1>2, <3>2, <3>3
    <3>. QED
      BY <3>1, <3>4 DEF cmx
  <2>3. CASE i \in 1..m
    <3> DEFINE before == Recorded(records, 1, i - 1)
               own == CommitmentsOf[records[i].hash]
    <3>1. /\ records[i].num = Len(own)
          /\ \A j \in DOMAIN own : list[before + j] = own[j]
      BY <2>3 DEF LeavesAre
    <3>2. own \in Seq(Leaf)
      BY <2>3, RecordType
    <3>3. before \in Nat /\ before + Len(own) <= Len(list)
      BY <1>5, <2>3, <3>1, BlockSpan
    <3>4. Recorded(records2, 1, i - 1) = before /\ records2[i] = records[i]
      BY <1>3, <1>4, <2>1, <2>3
    <3> HIDE DEF before, own
    <3>5. \A j \in DOMAIN own : list2[before + j] = own[j]
      <4> TAKE j \in DOMAIN own
      <4>1. before + j \in 1..Len(list)
        BY <3>2, <3>3
      <4>. QED
        BY <1>2, <3>1, <4>1
    <3>. QED
      BY <3>1, <3>4, <3>5 DEF own
  <2>. QED
    BY <1>3, <2>1, <2>2, <2>3
<1>9. LeavesAre(list2, records2)
  BY <1>7, <1>8 DEF LeavesAre
<1>. QED
  BY <1>9 DEF list2, records2

LEMMA LeavesAreCut ==
  ASSUME NEW list \in Seq(Leaf), NEW records \in Seq(BlockRecord),
         LeavesAre(list, records), NEW k \in 0..Len(records), NEW n,
         n = Len(list) - Recorded(records, k + 1, Len(records))
  PROVE  /\ n \in 0..Len(list)
         /\ Recorded(records, k + 1, Len(records)) \in Nat
         /\ LeavesAre(SubSeq(list, 1, n), SubSeq(records, 1, k))
<1> DEFINE m == Len(records)
           list2 == SubSeq(list, 1, n)
           records2 == SubSeq(records, 1, k)
<1>1. \A j \in 1..m : records[j].num \in Nat
  BY RecordType
<1>2. Recorded(records, k + 1, m) \in Nat /\ Recorded(records, 1, k) \in Nat
  BY <1>1, SpanFinite
<1>3. Recorded(records, 1, m) = Recorded(records, 1, k) + Recorded(records, k + 1, m)
  BY <1>1, RecordedSplit
<1>4. Len(list) = Recorded(records, 1, m)
  BY DEF LeavesAre
<1>5. n = Recorded(records, 1, k) /\ n \in 0..Len(list)
  BY <1>2, <1>3, <1>4
<1>6. /\ list2 \in Seq(Leaf) /\ Len(list2) = n
      /\ \A p \in 1..n : list2[p] = list[p]
  BY <1>5, SubSeqProperties
<1>7. /\ records2 \in Seq(BlockRecord) /\ Len(records2) = k
      /\ \A i \in 1..k : records2[i] = records[i]
  BY SubSeqProperties
<1>8. \A i \in 1..(k + 1) : Recorded(records2, 1, i - 1) = Recorded(records, 1, i - 1)
  <2> TAKE i \in 1..(k + 1)
  <2>1. /\ 1 \in Int /\ i - 1 \in Int
        /\ \A h \in 1..(i - 1) : records2[h].num = records[h].num
    BY <1>7
  <2> HIDE DEF records2
  <2>. QED
    BY <2>1, RecordedSame, Zenon
<1>9. Recorded(records2, 1, k) = n
  <2>1. k + 1 \in 1..(k + 1) /\ (k + 1) - 1 = k
    OBVIOUS
  <2>2. Recorded(records2, 1, (k + 1) - 1) = Recorded(records, 1, (k + 1) - 1)
    BY <1>8, <2>1, Zenon
  <2>. QED
    BY <1>5, <2>1, <2>2, Zenon
<1> HIDE DEF list2, records2
<1>10. ASSUME NEW i \in DOMAIN records2
       PROVE  /\ records2[i].num = Len(CommitmentsOf[records2[i].hash])
              /\ \A j \in DOMAIN CommitmentsOf[records2[i].hash] :
                   list2[Recorded(records2, 1, i - 1) + j]
                     = CommitmentsOf[records2[i].hash][j]
  <2>1. i \in 1..k /\ i \in 1..m /\ i \in 1..Len(records2)
    BY <1>7, <1>10
  <2> DEFINE before == Recorded(records, 1, i - 1)
             own == CommitmentsOf[records[i].hash]
  <2>2. /\ records[i].num = Len(own)
        /\ \A j \in DOMAIN own : list[before + j] = own[j]
    BY <2>1 DEF LeavesAre
  <2>3. own \in Seq(Leaf)
    BY <2>1, RecordType
  <2>4. Recorded(records2, 1, i - 1) = before /\ records2[i] = records[i]
    BY <1>7, <1>8, <2>1
  <2>5. before \in Nat /\ before + Len(own) <= n
    BY <1>7, <1>9, <2>1, <2>2, <2>4, BlockSpan
  <2> HIDE DEF before, own
  <2>6. \A j \in DOMAIN own : list2[before + j] = own[j]
    <3> TAKE j \in DOMAIN own
    <3>1. before + j \in 1..n
      BY <1>5, <2>3, <2>5
    <3>. QED
      BY <1>6, <2>2, <3>1
  <2>. QED
    BY <2>2, <2>4, <2>6 DEF own
<1>11. LeavesAre(list2, records2)
  BY <1>6, <1>7, <1>9, <1>10 DEF LeavesAre
<1>. QED
  BY <1>2, <1>5, <1>11 DEF list2, records2

-----------------------------------------------------------------------------
(* What a build publishes *)

LEMMA WindowFacts ==
  ASSUME leaves \in Seq(Leaf)
  PROVE  /\ LocalShardCount \in Nat
         /\ WindowShardCount \in Nat
         /\ WindowShardCount <= MaxShards
         /\ WindowSlot \subseteq Slot
         /\ \A j \in 0..(WindowShardCount - 1), ss \in 0..(SubshardsPerShard - 1) :
              j * SubshardsPerShard + ss \in WindowSlot
<1>1. LocalShardCount \in Nat
  <2>1. CASE leaves = <<>>
    BY <2>1 DEF LocalShardCount
  <2>2. CASE leaves # <<>>
    <3>1. Len(leaves) - 1 \in Nat
      BY <2>2, EmptySeq
    <3>2. ShardLeaves \in Nat \ {0}
      BY TreeAssumption DEF ShardLeaves
    <3>3. (Len(leaves) - 1) \div ShardLeaves \in Nat
      BY <3>1, <3>2, Division
    <3>. QED
      BY <2>2, <3>3 DEF LocalShardCount
  <2>. QED
    BY <2>1, <2>2
<1>2. WindowShardCount \in Nat /\ WindowShardCount <= MaxShards
  BY <1>1, TreeAssumption DEF WindowShardCount
<1> DEFINE w == WindowShardCount
           d == SubshardsPerShard
<1> HIDE DEF w, d
<1>3. w \in Nat /\ w <= MaxShards /\ MaxShards \in Nat /\ d \in Nat
  BY <1>2, TreeAssumption DEF w, d
<1>4. w * d <= MaxShards * d /\ w * d \in Nat /\ MaxShards * d \in Nat
  BY <1>3
<1>5. WindowSlot \subseteq Slot
  BY <1>4 DEF WindowSlot, Slot, w, d
<1>6. ASSUME NEW j \in 0..(w - 1), NEW ss \in 0..(d - 1)
      PROVE  j * d + ss \in 0..(w * d - 1)
  <2>1. j \in Nat /\ j < w
    BY <1>3
  <2>2. j * d + d <= w * d
    BY <1>3, <2>1, NextMultiple
  <2>3. j * d \in Nat
    BY <1>3, <2>1
  <2>. QED
    BY <1>3, <1>4, <2>2, <2>3
<1>. QED
  BY <1>1, <1>2, <1>5, <1>6 DEF WindowSlot, w, d

(* The root broadcast is the root of the leaves, cached or not.            *)
LEMMA RootIsLeaves ==
  ASSUME leaves \in Seq(Leaf), CacheOK(leaves, cache), NEW s \in Slot
  PROVE  RootOfSlot(s) = LeavesOfSlot(s)
<1>1. CASE BeyondFrontier(s)
  <2> DEFINE start == s * SubshardLeaves
  <2>1. start \in Nat /\ start >= Len(leaves)
    BY <1>1, SlotNat, TreeAssumption DEF BeyondFrontier
  <2>2. ASSUME NEW i \in 1..SubshardLeaves
        PROVE  LeafAt(start + i) = EmptyLeaf
    <3>1. ~(start + i <= Len(leaves))
      <4> HIDE DEF start
      <4>. QED
        BY <2>1, TreeAssumption
    <3>. QED
      BY <3>1 DEF LeafAt
  <2>3. EmptySubshardRoot = LeavesOfSlot(s)
    BY <2>2 DEF EmptySubshardRoot, LeavesOfSlot
  <2>. QED
    BY <1>1, <2>3 DEF RootOfSlot
<1>2. CASE ~BeyondFrontier(s) /\ cache[s] # {}
  <2>1. cache[s] = {LeavesOfSlot(s)}
    BY <1>2, SameDefinitions DEF CacheOK
  <2>. QED
    BY <1>2, <2>1 DEF RootOfSlot
<1>3. CASE ~BeyondFrontier(s) /\ cache[s] = {}
  BY <1>3 DEF RootOfSlot
<1>. QED
  BY <1>1, <1>2, <1>3

LEMMA BuildCache ==
  ASSUME leaves \in Seq(Leaf), CacheOK(leaves, cache),
         cache \in [Slot -> Clean(Root)], BuildAndPublish
  PROVE  cache' \in [Slot -> Clean(Root)] /\ CacheOK(leaves, cache')
<1>1. cache' = [s \in Slot |->
                 IF s \in WindowSlot /\ ~BeyondFrontier(s) THEN {LeavesIn(leaves, s)}
                 ELSE cache[s]]
  BY RootIsLeaves, SameDefinitions DEF BuildAndPublish
<1>2. \A s \in Slot : {LeavesIn(leaves, s)} \in Clean(Root)
  BY LeavesInRoot, SlotNat DEF Clean
<1>3. cache' \in [Slot -> Clean(Root)]
  BY <1>1, <1>2
<1>4. ASSUME NEW s \in Slot, cache'[s] # {}
      PROVE  cache'[s] = {LeavesIn(leaves, s)} /\ s * SubshardLeaves < Len(leaves)
  BY <1>1, <1>4, SameDefinitions DEF CacheOK
<1>. QED
  BY <1>3, <1>4 DEF CacheOK

LEMMA ViewOK ==
  ASSUME leaves \in Seq(Leaf), CacheOK(leaves, cache), BuildAndPublish
  PROVE  RowsTyped' /\ RowsVerify' /\ CapIsTheTree'
<1> DEFINE n == WindowStartShard + WindowShardCount
<1>1. pir' = {View}
  BY DEF BuildAndPublish
<1>2. /\ View.rows = [s \in Slot |-> IF s \in WindowSlot THEN LeavesOfSlot(s) ELSE ZeroRow]
      /\ View.roots = [s \in WindowSlot |-> RootOfSlot(s)]
      /\ View.cap = [i \in 1..n |-> CapRoot(i - 1)]
      /\ View.populated = PopulatedShards
  BY DEF View
<1>3. WindowSlot \subseteq Slot
  BY WindowFacts
<1>4. \A s \in Slot : View.rows[s] \in Root \cup {ZeroRow}
  <2> TAKE s \in Slot
  <2>1. LeavesOfSlot(s) \in Root
    BY LeavesInRoot, SameDefinitions, SlotNat
  <2>. QED
    BY <1>2, <2>1
<1>5. \A s \in DOMAIN View.roots : View.roots[s] = View.rows[s]
  BY <1>2, <1>3, RootIsLeaves
<1>6. ASSUME View.populated <= WindowStartShard + MaxShards
      PROVE  /\ Len(View.cap) = View.populated
             /\ \A i \in (WindowStartShard + 1)..View.populated :
                  View.cap[i] = [ss \in 0..(SubshardsPerShard - 1) |->
                    View.rows[(i - 1 - WindowStartShard) * SubshardsPerShard + ss]]
  <2>1. /\ n = PopulatedShards /\ n \in Nat
        /\ WindowStartShard \in Nat /\ WindowShardCount \in Nat
    <3>1. /\ LocalShardCount \in Nat /\ WindowShardCount \in Nat
          /\ WindowStartShard \in Nat /\ MaxShards \in Nat
      BY WindowFacts, TreeAssumption
    <3>2. LocalShardCount <= MaxShards
      BY <1>2, <1>6, <3>1 DEF PopulatedShards
    <3>3. WindowShardCount = LocalShardCount
      BY <3>1, <3>2 DEF WindowShardCount
    <3>. QED
      BY <3>1, <3>3 DEF PopulatedShards
  <2>2. Len(View.cap) = n
    BY <1>2, <2>1
  <2>3. ASSUME NEW i \in (WindowStartShard + 1)..View.populated
        PROVE  View.cap[i] = [ss \in 0..(SubshardsPerShard - 1) |->
                 View.rows[(i - 1 - WindowStartShard) * SubshardsPerShard + ss]]
    <3> DEFINE j == i - 1 - WindowStartShard
    <3>1. /\ i \in 1..n /\ i - 1 >= WindowStartShard
          /\ j \in 0..(WindowShardCount - 1)
      BY <1>2, <2>1
    <3>2. View.cap[i] = ShardRoot(j)
      BY <1>2, <3>1 DEF CapRoot
    <3>3. ASSUME NEW ss \in 0..(SubshardsPerShard - 1)
          PROVE  RootOfSlot(j * SubshardsPerShard + ss)
                   = View.rows[j * SubshardsPerShard + ss]
      <4> DEFINE s == j * SubshardsPerShard + ss
      <4>1. s \in WindowSlot
        <5> HIDE DEF j
        <5>. QED
          BY <3>1, WindowFacts
      <4> HIDE DEF s
      <4>2. RootOfSlot(s) = View.rows[s]
        BY <1>2, <1>3, <4>1, RootIsLeaves
      <4>. QED
        BY <4>2 DEF s
    <3>. QED
      BY <3>2, <3>3 DEF ShardRoot
  <2>. QED
    BY <1>2, <2>1, <2>2, <2>3
<1>7. RowsTyped'
  BY <1>1, <1>4 DEF RowsTyped
<1>8. RowsVerify'
  BY <1>1, <1>5 DEF RowsVerify
<1>9. CapIsTheTree'
  BY <1>1, <1>6 DEF CapIsTheTree
<1>. QED
  BY <1>7, <1>8, <1>9

-----------------------------------------------------------------------------
(* The invariant is inductive *)

LEMMA EmptyOK == StateOK(<<>>, <<>>, [s \in Slot |-> {}])
<1>1. Recorded(<<>>, 1, 0) = 0
  BY RecordedNothing
<1>2. LeavesAre(<<>>, <<>>)
  BY <1>1 DEF LeavesAre
<1>. QED
  BY <1>2 DEF StateOK, CacheOK, Clean

LEMMA InitIInv == Init => IInv
<1> SUFFICES ASSUME Init PROVE IInv
  OBVIOUS
<1>1. leaves = <<>> /\ blocks = <<>> /\ cache = [s \in Slot |-> {}] /\ pir = {} /\ disk = {}
  BY DEF Init
<1>. QED
  BY <1>1, EmptyOK DEF IInv, RowsTyped, RowsVerify, CapIsTheTree

LEMMA AppendStep ==
  ASSUME StateOK(leaves, blocks, cache), NEW b \in Block, AppendCommitments(b)
  PROVE  StateOK(leaves, blocks, cache)'
<1> DEFINE cmx == CommitmentsOf[b]
           record == [height |-> HeightOf[b], hash |-> b, num |-> Len(cmx)]
<1>1. /\ leaves \in Seq(Leaf) /\ blocks \in Seq(BlockRecord)
      /\ cache \in [Slot -> Clean(Root)]
      /\ CacheOK(leaves, cache) /\ LeavesAre(leaves, blocks)
  BY DEF StateOK
<1>2. /\ leaves' = leaves \o cmx
      /\ blocks' = Append(blocks, record)
      /\ cache' = IF cmx = <<>> THEN cache
                   ELSE Cleared(SlotsTouched(Len(leaves) + Len(cmx)))
  BY DEF AppendCommitments
<1>3. cmx \in Seq(Leaf) /\ record \in BlockRecord
  <2>1. cmx \in Seq(Leaf) /\ HeightOf[b] \in Nat
    BY TreeAssumption
  <2>. QED
    BY <2>1 DEF BlockRecord
<1>4. leaves' \in Seq(Leaf) /\ Len(leaves') = Len(leaves) + Len(cmx)
  BY <1>1, <1>2, <1>3, ConcatProperties
<1>5. blocks' \in Seq(BlockRecord)
  BY <1>1, <1>2, <1>3
<1>6. LeavesAre(leaves', blocks')
  <2>1. record.hash = b /\ record.num = Len(cmx)
    OBVIOUS
  <2> HIDE DEF record
  <2>. QED
    BY <1>1, <1>2, <1>3, <2>1, LeavesAreAppended
<1>7. cache' \in [Slot -> Clean(Root)] /\ CacheOK(leaves', cache')
  <2>1. CASE cmx = <<>>
    BY <1>1, <1>2, <2>1, ConcatEmptySeq
  <2>2. CASE cmx # <<>>
    <3>1. cache' = Cleared(SlotsTouched(Len(leaves) + Len(cmx)))
      BY <1>2, <2>2
    <3>2. cache' \in [Slot -> Clean(Root)]
      BY <1>1, <3>1 DEF Cleared, Clean
    <3>3. ASSUME NEW s \in Slot, cache'[s] # {}
          PROVE  cache'[s] = {LeavesIn(leaves', s)} /\ s * SubshardLeaves < Len(leaves')
      <4>1. cache'[s] = cache[s] /\ s \notin SlotsTouched(Len(leaves) + Len(cmx))
        BY <3>1, <3>3 DEF Cleared
      <4>2. cache[s] = {LeavesIn(leaves, s)} /\ s * SubshardLeaves < Len(leaves)
        BY <1>1, <3>3, <4>1 DEF CacheOK
      <4>3. ~ (/\ Len(leaves) \div SubshardLeaves <= s
               /\ s <= (Len(leaves) + Len(cmx) - 1) \div SubshardLeaves)
        BY <4>1 DEF SlotsTouched
      <4>4. s \in Nat
        BY SlotNat
      <4>5. LeavesIn(leaves', s) = LeavesIn(leaves, s)
        BY <1>1, <1>2, <1>3, <2>2, <4>2, <4>3, <4>4, AppendKeepsRoots
      <4>6. s * SubshardLeaves < Len(leaves')
        <5>1. s * SubshardLeaves \in Int /\ Len(leaves) \in Nat /\ Len(cmx) \in Nat
          BY <1>1, <1>3, <4>4, TreeAssumption
        <5>. QED
          BY <1>4, <4>2, <5>1
      <4>. QED
        BY <4>1, <4>2, <4>5, <4>6
    <3>. QED
      BY <3>2, <3>3 DEF CacheOK
  <2>. QED
    BY <2>1, <2>2
<1>. QED
  BY <1>4, <1>5, <1>6, <1>7 DEF StateOK

LEMMA RollbackStep ==
  ASSUME StateOK(leaves, blocks, cache), NEW target, RollbackTo(target)
  PROVE  StateOK(leaves, blocks, cache)'
<1>1. /\ leaves \in Seq(Leaf) /\ blocks \in Seq(BlockRecord)
      /\ cache \in [Slot -> Clean(Root)]
      /\ CacheOK(leaves, cache) /\ LeavesAre(leaves, blocks)
  BY DEF StateOK
<1>2. PICK k \in 0..Len(blocks) :
        /\ LET n == IF ToRemove(k) <= Len(leaves) THEN Len(leaves) - ToRemove(k) ELSE 0
           IN  /\ leaves' = SubSeq(leaves, 1, n)
               /\ cache' = Cleared(SlotsFromFrontier(n))
        /\ blocks' = SubSeq(blocks, 1, k)
  BY DEF RollbackTo
<1> DEFINE n == Len(leaves) - ToRemove(k)
<1>3. n = Len(leaves) - Recorded(blocks, k + 1, Len(blocks))
  BY DEF ToRemove
<1> HIDE DEF n
<1>4. /\ n \in 0..Len(leaves)
      /\ Recorded(blocks, k + 1, Len(blocks)) \in Nat
      /\ LeavesAre(SubSeq(leaves, 1, n), SubSeq(blocks, 1, k))
  BY <1>1, <1>3, LeavesAreCut
<1>5. /\ leaves' = SubSeq(leaves, 1, n) /\ cache' = Cleared(SlotsFromFrontier(n))
      /\ blocks' = SubSeq(blocks, 1, k)
  <2>1. Len(leaves) \in Nat /\ ToRemove(k) \in Nat
    BY <1>1, <1>4 DEF ToRemove
  <2>2. ToRemove(k) <= Len(leaves)
    BY <1>4, <2>1 DEF n
  <2>. QED
    BY <1>2, <2>2 DEF n
<1>6. leaves' \in Seq(Leaf) /\ Len(leaves') = n
  BY <1>1, <1>4, <1>5, SubSeqProperties
<1>7. blocks' \in Seq(BlockRecord)
  BY <1>1, <1>5, SubSeqProperties
<1>8. cache' \in [Slot -> Clean(Root)]
  BY <1>1, <1>5 DEF Cleared, Clean
<1>9. ASSUME NEW s \in Slot, cache'[s] # {}
      PROVE  cache'[s] = {LeavesIn(leaves', s)} /\ s * SubshardLeaves < Len(leaves')
  <2>1. cache'[s] = cache[s] /\ s \notin SlotsFromFrontier(n)
    BY <1>5, <1>9 DEF Cleared
  <2>2. cache[s] = {LeavesIn(leaves, s)}
    BY <1>1, <1>9, <2>1 DEF CacheOK
  <2>3. n # 0 /\ ~((n - 1) \div SubshardLeaves <= s) /\ s \in Nat
    BY <2>1, SlotNat DEF SlotsFromFrontier
  <2>4. (n - 1) \div SubshardLeaves \in Nat
    BY <1>4, <2>3, Division, TreeAssumption
  <2>5. s < (n - 1) \div SubshardLeaves
    BY <2>3, <2>4
  <2>6. LeavesIn(leaves', s) = LeavesIn(leaves, s) /\ s * SubshardLeaves < n
    BY <1>1, <1>4, <1>5, <2>3, <2>5, CutKeepsRoots
  <2>. QED
    BY <1>6, <2>1, <2>2, <2>6
<1>10. CacheOK(leaves', cache')
  BY <1>9 DEF CacheOK
<1>. QED
  BY <1>4, <1>5, <1>6, <1>7, <1>8, <1>10 DEF StateOK

LEMMA StepIInv == IInv /\ [Next]_vars => IInv'
<1> SUFFICES ASSUME IInv, [Next]_vars PROVE IInv'
  OBVIOUS
<1>1. /\ StateOK(leaves, blocks, cache)
      /\ \A d \in disk : StateOK(d.leaves, d.blocks, d.cache)
  BY DEF IInv
<1>2. ASSUME UNCHANGED pir PROVE RowsTyped' /\ RowsVerify' /\ CapIsTheTree'
  BY <1>2 DEF IInv, RowsTyped, RowsVerify, CapIsTheTree
<1>3. ASSUME pir' = {} PROVE RowsTyped' /\ RowsVerify' /\ CapIsTheTree'
  BY <1>3 DEF RowsTyped, RowsVerify, CapIsTheTree
<1>4. ASSUME NEW b \in Block, AppendCommitments(b) PROVE IInv'
  <2>1. StateOK(leaves, blocks, cache)'
    BY <1>1, <1>4, AppendStep
  <2>2. UNCHANGED <<pir, disk>>
    BY <1>4 DEF AppendCommitments
  <2>. QED
    BY <1>1, <1>2, <2>1, <2>2 DEF IInv
<1>5. ASSUME NEW target, RollbackTo(target) PROVE IInv'
  <2>1. StateOK(leaves, blocks, cache)'
    BY <1>1, <1>5, RollbackStep
  <2>2. UNCHANGED <<pir, disk>>
    BY <1>5 DEF RollbackTo
  <2>. QED
    BY <1>1, <1>2, <2>1, <2>2 DEF IInv
<1>6. CASE BuildAndPublish
  <2>1. /\ leaves \in Seq(Leaf) /\ cache \in [Slot -> Clean(Root)]
        /\ CacheOK(leaves, cache)
    BY <1>1 DEF StateOK
  <2>2. UNCHANGED <<leaves, blocks, disk>>
    BY <1>6 DEF BuildAndPublish
  <2>3. cache' \in [Slot -> Clean(Root)] /\ CacheOK(leaves, cache')
    BY <1>6, <2>1, BuildCache
  <2>4. StateOK(leaves, blocks, cache)'
    BY <1>1, <2>2, <2>3 DEF StateOK
  <2>5. RowsTyped' /\ RowsVerify' /\ CapIsTheTree'
    BY <1>6, <2>1, ViewOK
  <2>. QED
    BY <1>1, <2>2, <2>4, <2>5 DEF IInv
<1>7. CASE ToSnapshot
  <2>1. /\ disk' = {[leaves |-> leaves, blocks |-> blocks, cache |-> cache]}
        /\ UNCHANGED <<leaves, blocks, cache, pir>>
    BY <1>7 DEF ToSnapshot
  <2>2. \A d \in disk' : StateOK(d.leaves, d.blocks, d.cache)
    BY <1>1, <2>1
  <2>. QED
    BY <1>1, <1>2, <2>1, <2>2 DEF IInv
<1>8. CASE FromSnapshot
  <2>1. PICK d \in disk : leaves' = d.leaves /\ blocks' = d.blocks /\ cache' = d.cache
    BY <1>8 DEF FromSnapshot
  <2>2. pir' = {} /\ UNCHANGED disk
    BY <1>8 DEF FromSnapshot
  <2>3. StateOK(leaves, blocks, cache)'
    BY <1>1, <2>1
  <2>. QED
    BY <1>1, <1>3, <2>2, <2>3 DEF IInv
<1>9. CASE StartFresh
  <2>1. /\ leaves' = <<>> /\ blocks' = <<>> /\ cache' = [s \in Slot |-> {}]
        /\ pir' = {} /\ UNCHANGED disk
    BY <1>9 DEF StartFresh
  <2>2. StateOK(leaves, blocks, cache)'
    BY <2>1, EmptyOK
  <2>. QED
    BY <1>1, <1>3, <2>1, <2>2 DEF IInv
<1>10. CASE UNCHANGED vars
  <2>1. UNCHANGED <<leaves, blocks, cache, pir, disk>>
    BY <1>10 DEF vars
  <2>. QED
    BY <1>1, <1>2, <2>1 DEF IInv
<1>. QED
  BY <1>4, <1>5, <1>6, <1>7, <1>8, <1>9, <1>10 DEF Next

(* The inductive invariant holds in every reachable state.                 *)
THEOREM Invariance == Spec => []IInv
  BY InitIInv, StepIInv, PTL DEF Spec
-----------------------------------------------------------------------------
(* Every variable holds a value of its type, and no served row mixes       *)
(* leaves with the zero bytes of padding rows.                             *)
THEOREM TypeCorrect == Spec => []TypeOK
<1>1. IInv => TypeOK
  BY DEF IInv, StateOK, RowsTyped, TypeOK
<1>. QED
  BY <1>1, Invariance, PTL

(* No append, rollback, build or restart leaves a stale root in the cache. *)
THEOREM CacheCorrect == Spec => []CacheSound
<1>1. IInv => CacheSound
  BY SameDefinitions DEF IInv, StateOK, CacheOK, CacheSound
<1>. QED
  BY <1>1, Invariance, PTL

(* The leaves are the commitments of the recorded blocks in their places,  *)
(* so a rollback removes exactly those of the blocks it pops; the same     *)
(* holds of every snapshot written, so from_snapshot never refuses one.    *)
THEOREM LeavesCorrect == Spec => []LeavesAreTheBlocks
<1>1. IInv => LeavesAreTheBlocks
  BY DEF IInv, StateOK, LeavesAreTheBlocks
<1>. QED
  BY <1>1, Invariance, PTL

(* A row of a publication hashes to the root broadcast with it.            *)
THEOREM RowsCorrect == Spec => []RowsVerify
<1>1. IInv => RowsVerify
  BY DEF IInv
<1>. QED
  BY <1>1, Invariance, PTL

(* While the window has room, the cap is the tree over the rows.           *)
THEOREM CapCorrect == Spec => []CapIsTheTree
<1>1. IInv => CapIsTheTree
  BY DEF IInv
<1>. QED
  BY <1>1, Invariance, PTL

-----------------------------------------------------------------------------
(* The client *)

(* What a publication says about its window: rows and roots for the shards *)
(* that have leaves, as many as fit, and a cap that ends with them.        *)
ViewShape(v) ==
  \E local \in Nat :
    LET window == IF local < MaxShards THEN local ELSE MaxShards
    IN  /\ v.populated = WindowStartShard + local
        /\ DOMAIN v.roots = 0..(window * SubshardsPerShard - 1)
        /\ DOMAIN v.cap = 1..(WindowStartShard + window)
        /\ Len(v.cap) = WindowStartShard + window

(* The client's own: what it holds was published once.                     *)
CInv ==
  /\ leaves \in Seq(Leaf)
  /\ \A v \in pir : ViewShape(v)
  /\ \A b \in broadcast : ViewShape(b)

LEMMA ViewHasShape ==
  ASSUME leaves \in Seq(Leaf)
  PROVE  ViewShape(View)
<1> DEFINE window == IF LocalShardCount < MaxShards THEN LocalShardCount ELSE MaxShards
<1>1. LocalShardCount \in Nat
  <2>1. ShardLeaves \in Nat \ {0}
    BY TreeAssumption DEF ShardLeaves
  <2>2. Len(leaves) \in Nat /\ (leaves # <<>> => Len(leaves) - 1 \in Nat)
    OBVIOUS
  <2>. QED
    BY <2>1, <2>2, Division DEF LocalShardCount
<1>2. window = WindowShardCount /\ window \in Nat
  BY <1>1, TreeAssumption DEF WindowShardCount
<1>3. View.populated = WindowStartShard + LocalShardCount
  BY DEF View, PopulatedShards
<1>4. DOMAIN View.roots = 0..(window * SubshardsPerShard - 1)
  BY <1>2 DEF View, WindowSlot
<1>5. View.cap = [i \in 1..(WindowStartShard + window) |-> CapRoot(i - 1)]
  BY <1>2 DEF View
<1>6. DOMAIN View.cap = 1..(WindowStartShard + window) /\ Len(View.cap) = WindowStartShard + window
  <2>1. WindowStartShard + window \in Nat
    BY <1>2, TreeAssumption
  <2>. QED
    BY <1>5, <2>1
<1>. QED
  BY <1>1, <1>3, <1>4, <1>6 DEF ViewShape

LEMMA ClientInitCInv == ClientInit => CInv
  BY DEF ClientInit, Init, CInv

LEMMA ClientStepCInv == IInv /\ CInv /\ [ClientNext]_clientVars => CInv'
<1> SUFFICES ASSUME IInv, CInv, [ClientNext]_clientVars PROVE CInv'
  OBVIOUS
<1>1. leaves' \in Seq(Leaf)
  <2>1. IInv'
    <3>1. [Next]_vars
      BY DEF ClientNext, ServerStep, Connect, RefreshBroadcast, clientVars
    <3>. QED
      BY <3>1, StepIInv
  <2>. QED
    BY <2>1 DEF IInv, StateOK
<1>2. \A v \in pir' : ViewShape(v)
  <2>1. pir' = pir \/ pir' = {} \/ pir' = {View}
    BY DEF ClientNext, ServerStep, Connect, RefreshBroadcast, clientVars, vars, Next,
           AppendCommitments, RollbackTo, BuildAndPublish, ToSnapshot, FromSnapshot, StartFresh
  <2>. QED
    BY <2>1, ViewHasShape DEF CInv
<1>3. broadcast' = broadcast \/ broadcast' = pir
  BY DEF ClientNext, ServerStep, Connect, RefreshBroadcast, clientVars
<1>. QED
  BY <1>1, <1>2, <1>3 DEF CInv

(* The server under a client is the server: what is proved of its tree     *)
(* holds whatever clients ask of it.                                       *)
THEOREM ClientChangesNothing == ClientSpec => Spec
<1>1. ClientInit => Init
  BY DEF ClientInit
<1>2. [ClientNext]_clientVars => [Next]_vars
  BY DEF ClientNext, ServerStep, Connect, RefreshBroadcast, clientVars
<1>. QED
  BY <1>1, <1>2, PTL DEF ClientSpec, Spec

LEMMA PositionNat == Position \subseteq Nat
  BY DEF Position

(* What the client accepts under a broadcast of any age is in bounds, and  *)
(* it accepts the position of every leaf the broadcast knew.               *)
LEMMA ShapeServes ==
  ASSUME NEW b, ViewShape(b), NEW p \in Nat
  PROVE  /\ InWindow(b, p) => PhysicalRowIndex(p) \in DOMAIN b.roots \cap Slot
         /\ (b.populated <= WindowStartShard + MaxShards /\ ShardIndex(p) >= WindowStartShard
               /\ ~InWindow(b, p))
              => ShardIndex(p) >= b.populated
<1>1. PICK local \in Nat :
        LET window == IF local < MaxShards THEN local ELSE MaxShards
        IN  /\ b.populated = WindowStartShard + local
            /\ DOMAIN b.roots = 0..(window * SubshardsPerShard - 1)
            /\ Len(b.cap) = WindowStartShard + window
  BY DEF ViewShape
<1> DEFINE window == IF local < MaxShards THEN local ELSE MaxShards
           sh == ShardIndex(p)
           ss == SubshardIndex(p)
           n == sh - WindowStartShard
<1>2. /\ WindowStartShard \in Nat /\ MaxShards \in Nat /\ SubshardsPerShard \in Nat \ {0}
      /\ SubshardLeaves \in Nat \ {0} /\ ShardLeaves \in Nat \ {0} /\ window \in Nat
      /\ window <= MaxShards
  BY TreeAssumption DEF ShardLeaves
<1>3. sh \in Nat
  BY <1>2, Division DEF ShardIndex
<1>4. ss \in 0..(SubshardsPerShard - 1)
  <2>1. p \div SubshardLeaves \in Nat
    BY <1>2, Division
  <2>. QED
    BY <1>2, <2>1 DEF SubshardIndex
<1>5. WindowCount(b) = window
  BY <1>1, <1>2 DEF WindowCount
<1>6. ASSUME InWindow(b, p)
      PROVE  PhysicalRowIndex(p) \in DOMAIN b.roots \cap Slot
  <2> HIDE DEF sh, ss, window
  <2>1. sh >= WindowStartShard /\ sh < WindowStartShard + window
    BY <1>5, <1>6 DEF InWindow, sh
  <2>2. n \in Nat /\ n < window /\ n < MaxShards
    BY <1>2, <1>3, <2>1
  <2>3. PhysicalRowIndex(p) = n * SubshardsPerShard + ss
    BY DEF PhysicalRowIndex, sh, ss
  <2>4. n * SubshardsPerShard + SubshardsPerShard <= window * SubshardsPerShard
    BY <1>2, <2>2, NextMultiple
  <2>5. n * SubshardsPerShard + SubshardsPerShard <= MaxShards * SubshardsPerShard
    BY <1>2, <2>2, NextMultiple
  <2>6. /\ n * SubshardsPerShard \in Nat /\ window * SubshardsPerShard \in Nat
        /\ MaxShards * SubshardsPerShard \in Nat
    BY <1>2, <2>2
  <2> DEFINE x == n * SubshardsPerShard
             y == window * SubshardsPerShard
             z == MaxShards * SubshardsPerShard
  <2>7. x + ss \in 0..(y - 1) /\ x + ss \in 0..(z - 1)
    <3> HIDE DEF x, y, z
    <3>1. /\ x \in Nat /\ y \in Nat /\ z \in Nat
          /\ x + SubshardsPerShard <= y /\ x + SubshardsPerShard <= z
      BY <2>4, <2>5, <2>6 DEF x, y, z
    <3>. QED
      BY <1>2, <1>4, <3>1
  <2>. QED
    BY <1>1, <2>3, <2>7 DEF Slot, window
<1>7. ASSUME b.populated <= WindowStartShard + MaxShards, sh >= WindowStartShard, ~InWindow(b, p)
      PROVE  sh >= b.populated
  <2>1. local <= MaxShards
    BY <1>1, <1>2, <1>7
  <2>2. window = local
    BY <1>2, <2>1
  <2>3. ~(sh < WindowStartShard + window)
    BY <1>5, <1>7 DEF InWindow
  <2>. QED
    BY <1>1, <1>2, <1>3, <2>2, <2>3
<1>. QED
  BY <1>6, <1>7

(* A position the client accepts indexes the rows and the broadcast in     *)
(* bounds, and the position of every leaf there was when the broadcast was *)
(* fetched is accepted while the leaves fit the window, whatever the       *)
(* server did since (get_witness, physical_row_index).                     *)
THEOREM AcceptedCorrect == ClientSpec => []AcceptedPositionsAreServed
<1>1. CInv => AcceptedPositionsAreServed
  BY ShapeServes, PositionNat DEF CInv, AcceptedPositionsAreServed
<1>2. ClientSpec => []CInv
  BY ClientInitCInv, ClientStepCInv, ClientChangesNothing, Invariance, PTL DEF ClientSpec
<1>. QED
  BY <1>1, <1>2, PTL
-----------------------------------------------------------------------------
(* Induction, and powers of two *)

LEMMA NumberInduction ==
  ASSUME NEW S \in SUBSET Nat, 0 \in S, \A n \in S : n + 1 \in S
  PROVE  \A n \in Nat : n \in S
<1> DEFINE T == {0..n : n \in Nat \ S}
<1> SUFFICES ASSUME NEW k \in Nat, k \notin S
             PROVE  FALSE
  OBVIOUS
<1>1. ASSUME NEW n \in Nat
      PROVE  0..n \in FiniteSubsetsOf(Nat)
  <2>1. IsFiniteSet(0..n)
    BY FS_Interval
  <2>. QED
    BY <2>1 DEF FiniteSubsetsOf
<1>2. T \subseteq FiniteSubsetsOf(Nat) /\ T # {}
  BY <1>1
<1>3. IsWellFoundedOn(StrictSubsetOrdering(Nat), FiniteSubsetsOf(Nat))
  BY FS_StrictSubsetOrderingWellFounded
<1>4. \E x \in T : \A y \in T : ~(<<y, x>> \in StrictSubsetOrdering(Nat))
  <2> HIDE DEF T
  <2>. QED
    BY <1>2, <1>3, WFMin
<1>5. PICK n \in Nat \ S : \A y \in T : ~(<<y, 0..n>> \in StrictSubsetOrdering(Nat))
  BY <1>4
<1>6. n # 0 /\ n - 1 \in Nat /\ n = (n - 1) + 1
  BY <1>5
<1>7. n - 1 \notin S
  BY <1>5, <1>6
<1>8. 0..(n - 1) \in T
  BY <1>6, <1>7
<1>9. /\ 0..(n - 1) \subseteq 0..n /\ 0..(n - 1) # 0..n
      /\ 0..(n - 1) \in SUBSET Nat /\ 0..n \in SUBSET Nat
  BY <1>6
<1>10. <<0..(n - 1), 0..n>> \in StrictSubsetOrdering(Nat)
  BY <1>9 DEF StrictSubsetOrdering
<1>. QED
  BY <1>5, <1>8, <1>10

(* 2^n counts subsets, which is how its recursion is known here. *)
LEMMA PowerStep ==
  ASSUME NEW n \in Nat
  PROVE  2^n \in Nat /\ 2^(n + 1) = 2 * 2^n
<1> DEFINE A == SUBSET (1..n)
           B == SUBSET (1..(n + 1))
           C == {x \cup {n + 1} : x \in A}
<1>1. IsFiniteSet(1..n) /\ Cardinality(1..n) = n
  BY FS_Interval
<1>2. IsFiniteSet(1..(n + 1)) /\ Cardinality(1..(n + 1)) = n + 1
  BY FS_Interval
<1>3. IsFiniteSet(A) /\ Cardinality(A) = 2^n
  BY <1>1, FS_SUBSET
<1>4. IsFiniteSet(B) /\ Cardinality(B) = 2^(n + 1)
  BY <1>2, FS_SUBSET
<1>5. \A x \in A : n + 1 \notin x
  BY SMT
<1>6. B = A \cup C
  <2>1. 1..(n + 1) = (1..n) \cup {n + 1}
    OBVIOUS
  <2>2. ASSUME NEW y \in B
        PROVE  y \in A \cup C
    <3>1. CASE n + 1 \in y
      <4>1. y \ {n + 1} \in A /\ y = (y \ {n + 1}) \cup {n + 1}
        BY <2>1, <3>1
      <4>. QED
        BY <4>1
    <3>2. CASE n + 1 \notin y
      BY <2>1, <3>2
    <3>. QED
      BY <3>1, <3>2
  <2>3. A \subseteq B /\ C \subseteq B
    BY <2>1
  <2>. QED
    BY <2>2, <2>3
<1>7. A \cap C = {}
  BY <1>5
<1> DEFINE f == [x \in A |-> x \cup {n + 1}]
<1>8. f \in Bijection(A, C)
  <2>1. f \in [A -> C]
    OBVIOUS
  <2>2. ASSUME NEW x \in A, NEW y \in A, f[x] = f[y]
        PROVE  x = y
    <3>1. x \cup {n + 1} = y \cup {n + 1}
      BY <2>2
    <3>2. x = (x \cup {n + 1}) \ {n + 1} /\ y = (y \cup {n + 1}) \ {n + 1}
      <4> HIDE DEF A, f
      <4>. QED
        BY <1>5
    <3>. QED
      BY <3>1, <3>2
  <2>3. \A c \in C : \E x \in A : f[x] = c
    OBVIOUS
  <2> HIDE DEF A, C, f
  <2>. QED
    BY <2>1, <2>2, <2>3 DEF Bijection, Injection, Surjection, IsInjective
<1> HIDE DEF A, B, C, f
<1>9. IsFiniteSet(C) /\ Cardinality(C) = Cardinality(A)
  <2>1. ExistsBijection(A, C)
    BY <1>8 DEF ExistsBijection
  <2>. QED
    BY <1>3, <2>1, FS_Bijection
<1>10. Cardinality(A) \in Nat
  BY <1>3, FS_CardinalityType
<1>11. Cardinality(A \cup C) = Cardinality(A) + Cardinality(C) - Cardinality({})
  BY <1>3, <1>7, <1>9, FS_Union
<1>12. Cardinality({}) = 0
  BY FS_EmptySet
<1>. QED
  BY <1>3, <1>4, <1>6, <1>9, <1>10, <1>11, <1>12

LEMMA PowerPositive == \A n \in Nat : 2^n \in Nat \ {0}
<1> DEFINE S == {n \in Nat : 2^n \in Nat \ {0}}
<1>1. 0 \in S
  OBVIOUS
<1>2. ASSUME NEW n \in S
      PROVE  n + 1 \in S
  <2>1. n \in Nat /\ n + 1 \in Nat /\ 2^n \in Nat /\ 2^n # 0
    OBVIOUS
  <2>2. 2^(n + 1) = 2 * 2^n
    BY <2>1, PowerStep
  <2>. QED
    BY <2>1, <2>2
<1>3. S \in SUBSET Nat
  OBVIOUS
<1> HIDE DEF S
<1>4. \A n \in Nat : n \in S
  BY <1>1, <1>2, <1>3, NumberInduction
<1>. QED
  BY <1>4 DEF S

LEMMA PowerSum == \A m, n \in Nat : 2^(m + n) = 2^m * 2^n
<1> SUFFICES ASSUME NEW m \in Nat
             PROVE  \A n \in Nat : 2^(m + n) = 2^m * 2^n
  OBVIOUS
<1> DEFINE S == {n \in Nat : 2^(m + n) = 2^m * 2^n}
<1>0. 2^m \in Nat
  BY PowerPositive
<1>1. 0 \in S
  <2>1. m + 0 = m /\ 2^0 = 1
    OBVIOUS
  <2>. QED
    BY <2>1, <1>0
<1>2. ASSUME NEW n \in S
      PROVE  n + 1 \in S
  <2>1. n \in Nat /\ m + n \in Nat /\ m + (n + 1) = (m + n) + 1 /\ 2^(m + n) = 2^m * 2^n
    OBVIOUS
  <2>2. 2^((m + n) + 1) = 2 * 2^(m + n) /\ 2^(n + 1) = 2 * 2^n /\ 2^n \in Nat /\ 2^m \in Nat
    BY <2>1, PowerStep
  <2> DEFINE a == 2^m
             b == 2^n
  <2>3. 2 * (a * b) = a * (2 * b)
    <3>1. a \in Nat /\ b \in Nat
      BY <2>2
    <3> HIDE DEF a, b
    <3>. QED
      BY <3>1
  <2>. QED
    BY <2>1, <2>2, <2>3
<1>3. S \in SUBSET Nat
  OBVIOUS
<1> HIDE DEF S
<1>4. \A n \in Nat : n \in S
  BY <1>1, <1>2, <1>3, NumberInduction
<1>. QED
  BY <1>4 DEF S

LEMMA Halved ==
  ASSUME NEW x \in Nat, NEW n \in Nat
  PROVE  x \div 2^n \in Nat /\ x \div 2^(n + 1) = (x \div 2^n) \div 2
<1> DEFINE a == 2^n
<1>1. a \in Nat \ {0} /\ 2^(n + 1) = 2 * a
  BY PowerPositive, PowerStep
<1> HIDE DEF a
<1>2. x \div a \in Nat
  BY <1>1, Division
<1>3. x \div (2 * a) = (x \div a) \div 2
  BY <1>1
<1>. QED
  BY <1>1, <1>2, <1>3 DEF a

-----------------------------------------------------------------------------
(* What the recursive definitions of the client compute, level by level    *)

EmptyRec(f, k) ==
  f = [level \in 0..k |-> IF level = 0 THEN EmptyLeaf
                          ELSE HashCombine(level - 1, f[level - 1], f[level - 1])]

LEMMA EmptyExists == \A k \in Nat : \E f : EmptyRec(f, k)
<1> DEFINE S == {k \in Nat : \E f : EmptyRec(f, k)}
<1>1. 0 \in S
  <2>1. EmptyRec([level \in 0..0 |-> EmptyLeaf], 0)
    BY DEF EmptyRec
  <2>. QED
    BY <2>1
<1>2. ASSUME NEW k \in S
      PROVE  k + 1 \in S
  <2>1. PICK f : EmptyRec(f, k)
    OBVIOUS
  <2> DEFINE g == [level \in 0..(k + 1) |->
                     IF level <= k THEN f[level] ELSE HashCombine(k, f[k], f[k])]
  <2>2. k \in Nat /\ k + 1 \in Nat
    OBVIOUS
  <2>3. ASSUME NEW level \in 0..(k + 1)
        PROVE  g[level] = IF level = 0 THEN EmptyLeaf
                          ELSE HashCombine(level - 1, g[level - 1], g[level - 1])
    <3>1. CASE level <= k
      BY <2>1, <2>2, <3>1 DEF EmptyRec
    <3>2. CASE level = k + 1
      BY <2>2, <3>2
    <3>. QED
      BY <2>2, <3>1, <3>2
  <2>4. EmptyRec(g, k + 1)
    BY <2>3 DEF EmptyRec
  <2>. QED
    BY <2>2, <2>4
<1> HIDE DEF S
<1>3. \A k \in Nat : k \in S
  BY <1>1, <1>2, NumberInduction DEF S
<1>. QED
  BY <1>3 DEF S

LEMMA HeightType ==
  /\ SubshardHeight \in Nat /\ ShardHeight \in Nat /\ TreeDepth \in Nat
  /\ ShardHeight = SubshardHeight + SubshardHeight
  /\ TreeDepth = ShardHeight + ShardHeight
  BY GeometryAssumption DEF ShardHeight, TreeDepth

LEMMA EmptyRootIs ==
  /\ EmptyRoot[0] = EmptyLeaf
  /\ \A n \in 0..(TreeDepth - 1) : EmptyRoot[n + 1] = <<n, EmptyRoot[n], EmptyRoot[n]>>
<1>1. EmptyRoot = CHOOSE f : EmptyRec(f, TreeDepth)
  BY DEF EmptyRoot, EmptyRec
<1>2. \E f : EmptyRec(f, TreeDepth)
  BY EmptyExists, HeightType
<1>3. EmptyRec(EmptyRoot, TreeDepth)
  BY <1>1, <1>2
<1>4. EmptyRoot[0] = EmptyLeaf
  BY <1>3, HeightType DEF EmptyRec
<1>5. ASSUME NEW n \in 0..(TreeDepth - 1)
      PROVE  EmptyRoot[n + 1] = <<n, EmptyRoot[n], EmptyRoot[n]>>
  <2>1. n + 1 \in 0..TreeDepth /\ n + 1 # 0 /\ (n + 1) - 1 = n
    BY HeightType
  <2>. QED
    BY <1>3, <2>1 DEF EmptyRec, HashCombine
<1>. QED
  BY <1>4, <1>5

AncestorsRec(u, nodes, base, k) ==
  u = [n \in 0..k |-> IF n = 0 THEN nodes ELSE Parents(u[n - 1], base + n - 1)]

LEMMA AncestorsExist ==
  ASSUME NEW nodes, NEW base
  PROVE  \A k \in Nat : \E u : AncestorsRec(u, nodes, base, k)
<1> DEFINE S == {k \in Nat : \E u : AncestorsRec(u, nodes, base, k)}
<1>1. 0 \in S
  <2>1. AncestorsRec([n \in 0..0 |-> nodes], nodes, base, 0)
    BY DEF AncestorsRec
  <2>. QED
    BY <2>1
<1>2. ASSUME NEW k \in S
      PROVE  k + 1 \in S
  <2>1. PICK f : AncestorsRec(f, nodes, base, k)
    OBVIOUS
  <2> DEFINE g == [n \in 0..(k + 1) |->
                     IF n <= k THEN f[n] ELSE Parents(f[n - 1], base + n - 1)]
  <2>2. k \in Nat /\ k + 1 \in Nat
    OBVIOUS
  <2>3. ASSUME NEW n \in 0..(k + 1)
        PROVE  g[n] = IF n = 0 THEN nodes ELSE Parents(g[n - 1], base + n - 1)
    <3>1. CASE n <= k
      BY <2>1, <2>2, <3>1 DEF AncestorsRec
    <3>2. CASE n = k + 1
      BY <2>2, <3>2
    <3>. QED
      BY <2>2, <3>1, <3>2
  <2>4. AncestorsRec(g, nodes, base, k + 1)
    BY <2>3 DEF AncestorsRec
  <2>. QED
    BY <2>2, <2>4
<1> HIDE DEF S
<1>3. \A k \in Nat : k \in S
  BY <1>1, <1>2, NumberInduction DEF S
<1>. QED
  BY <1>3 DEF S

LEMMA AncestorsIs ==
  ASSUME NEW nodes, NEW base, NEW k \in Nat
  PROVE  \E u : AncestorsRec(u, nodes, base, k) /\ Ancestors(nodes, base, k) = u[k]
<1>1. Ancestors(nodes, base, k) = (CHOOSE u : AncestorsRec(u, nodes, base, k))[k]
  BY DEF Ancestors, AncestorsRec
<1>2. AncestorsRec((CHOOSE u : AncestorsRec(u, nodes, base, k)), nodes, base, k)
  BY AncestorsExist
<1>. QED
  BY <1>1, <1>2

LEMMA AncestorsAgree ==
  ASSUME NEW nodes, NEW base
  PROVE  \A n \in Nat : \A k \in Nat : \A u :
           n <= k /\ AncestorsRec(u, nodes, base, k) => u[n] = Ancestors(nodes, base, n)
<1> DEFINE S == {n \in Nat : \A k \in Nat : \A u :
                   n <= k /\ AncestorsRec(u, nodes, base, k) => u[n] = Ancestors(nodes, base, n)}
<1>1. 0 \in S
  <2>1. Ancestors(nodes, base, 0) = nodes
    BY AncestorsIs DEF AncestorsRec
  <2>. QED
    BY <2>1 DEF AncestorsRec
<1>2. ASSUME NEW n \in S
      PROVE  n + 1 \in S
  <2>1. PICK w : AncestorsRec(w, nodes, base, n + 1)
                 /\ Ancestors(nodes, base, n + 1) = w[n + 1]
    BY AncestorsIs
  <2>2. ASSUME NEW k \in Nat, NEW u, n + 1 <= k, AncestorsRec(u, nodes, base, k)
        PROVE  u[n + 1] = Parents(Ancestors(nodes, base, n), base + (n + 1) - 1)
    <3>1. u[n] = Ancestors(nodes, base, n)
      BY <2>2
    <3>2. u[n + 1] = Parents(u[n], base + (n + 1) - 1)
      BY <2>2 DEF AncestorsRec
    <3>. QED
      BY <3>1, <3>2
  <2>3. w[n + 1] = Parents(Ancestors(nodes, base, n), base + (n + 1) - 1)
    <3>1. n + 1 \in Nat /\ n + 1 <= n + 1
      OBVIOUS
    <3> HIDE DEF S
    <3>. QED
      BY <2>1, <2>2, <3>1
  <2>. QED
    BY <2>1, <2>2, <2>3
<1> HIDE DEF S
<1>3. \A n \in Nat : n \in S
  BY <1>1, <1>2, NumberInduction DEF S
<1>. QED
  BY <1>3 DEF S

(* One more level is one more step up. *)
LEMMA AncestorsStep ==
  ASSUME NEW nodes, NEW base \in Nat
  PROVE  /\ Ancestors(nodes, base, 0) = nodes
         /\ \A n \in Nat : Ancestors(nodes, base, n + 1)
                             = Parents(Ancestors(nodes, base, n), base + n)
<1>1. Ancestors(nodes, base, 0) = nodes
  BY AncestorsIs DEF AncestorsRec
<1>2. ASSUME NEW n \in Nat
      PROVE  Ancestors(nodes, base, n + 1) = Parents(Ancestors(nodes, base, n), base + n)
  <2>1. PICK w : AncestorsRec(w, nodes, base, n + 1)
                 /\ Ancestors(nodes, base, n + 1) = w[n + 1]
    BY AncestorsIs
  <2>2. w[n] = Ancestors(nodes, base, n)
    <3>1. n + 1 \in Nat /\ n <= n + 1
      OBVIOUS
    <3>. QED
      BY <2>1, <3>1, AncestorsAgree
  <2>3. w[n + 1] = Parents(w[n], base + n)
    <3>1. n + 1 \in 0..(n + 1) /\ n + 1 # 0 /\ (n + 1) - 1 = n /\ base + (n + 1) - 1 = base + n
      OBVIOUS
    <3>. QED
      BY <2>1, <3>1 DEF AncestorsRec
  <2>. QED
    BY <2>1, <2>2, <2>3
<1>. QED
  BY <1>1, <1>2

PathRec(f, p, leaf, siblings, k) ==
  f = [n \in 0..k |->
         IF n = 0 THEN leaf
         ELSE IF (p \div 2^(n - 1)) % 2 = 0
              THEN HashCombine(n - 1, f[n - 1], siblings[n])
              ELSE HashCombine(n - 1, siblings[n], f[n - 1])]

LEMMA PathExists ==
  ASSUME NEW p, NEW leaf, NEW siblings
  PROVE  \A k \in Nat : \E f : PathRec(f, p, leaf, siblings, k)
<1> DEFINE S == {k \in Nat : \E f : PathRec(f, p, leaf, siblings, k)}
           up(n, x) == IF (p \div 2^(n - 1)) % 2 = 0
                       THEN HashCombine(n - 1, x, siblings[n])
                       ELSE HashCombine(n - 1, siblings[n], x)
<1> HIDE DEF up
<1>0. ASSUME NEW k, NEW f
      PROVE  PathRec(f, p, leaf, siblings, k)
               <=> f = [n \in 0..k |-> IF n = 0 THEN leaf ELSE up(n, f[n - 1])]
  BY DEF PathRec, up
<1>1. 0 \in S
  <2> DEFINE f == [n \in 0..0 |-> leaf]
  <2>1. f = [n \in 0..0 |-> IF n = 0 THEN leaf ELSE up(n, f[n - 1])]
    OBVIOUS
  <2> HIDE DEF f
  <2>2. PathRec(f, p, leaf, siblings, 0)
    BY <1>0, <2>1
  <2>. QED
    BY <2>2
<1>2. ASSUME NEW k \in S
      PROVE  k + 1 \in S
  <2>1. PICK f : f = [n \in 0..k |-> IF n = 0 THEN leaf ELSE up(n, f[n - 1])]
    BY <1>0
  <2> DEFINE g == [n \in 0..(k + 1) |-> IF n <= k THEN f[n] ELSE up(n, f[n - 1])]
  <2>2. k \in Nat /\ k + 1 \in Nat
    OBVIOUS
  <2>3. ASSUME NEW n \in 0..(k + 1)
        PROVE  g[n] = IF n = 0 THEN leaf ELSE up(n, g[n - 1])
    <3>1. CASE n <= k
      BY <2>1, <2>2, <3>1
    <3>2. CASE n = k + 1
      BY <2>2, <3>2
    <3>. QED
      BY <2>2, <3>1, <3>2
  <2>4. PathRec(g, p, leaf, siblings, k + 1)
    BY <1>0, <2>3
  <2>. QED
    BY <2>2, <2>4
<1> HIDE DEF S
<1>3. \A k \in Nat : k \in S
  BY <1>1, <1>2, NumberInduction DEF S
<1>. QED
  BY <1>3 DEF S

(* The nodes on a path, from the leaf to the anchor root. *)
OnPath(f, p, leaf, siblings) ==
  /\ f[0] = leaf
  /\ \A n \in 0..(TreeDepth - 1) :
       f[n + 1] = IF (p \div 2^n) % 2 = 0 THEN <<n, f[n], siblings[n + 1]>>
                  ELSE <<n, siblings[n + 1], f[n]>>

LEMMA PathIs ==
  ASSUME NEW p, NEW leaf, NEW siblings
  PROVE  \E f : /\ OnPath(f, p, leaf, siblings)
                /\ ComputeRootFromPath(p, leaf, siblings) = f[TreeDepth]
<1> DEFINE f == CHOOSE f : PathRec(f, p, leaf, siblings, TreeDepth)
<1>1. ComputeRootFromPath(p, leaf, siblings) = f[TreeDepth]
  BY DEF ComputeRootFromPath, PathRec
<1>2. PathRec(f, p, leaf, siblings, TreeDepth)
  BY PathExists, HeightType
<1> HIDE DEF f
<1>3. f[0] = leaf
  BY <1>2, HeightType DEF PathRec
<1>4. ASSUME NEW n \in 0..(TreeDepth - 1)
      PROVE  f[n + 1] = IF (p \div 2^n) % 2 = 0 THEN <<n, f[n], siblings[n + 1]>>
                        ELSE <<n, siblings[n + 1], f[n]>>
  <2>1. n + 1 \in 0..TreeDepth /\ n + 1 # 0 /\ (n + 1) - 1 = n
    BY HeightType
  <2>2. f[n + 1] = IF (p \div 2^((n + 1) - 1)) % 2 = 0
                   THEN HashCombine((n + 1) - 1, f[(n + 1) - 1], siblings[n + 1])
                   ELSE HashCombine((n + 1) - 1, siblings[n + 1], f[(n + 1) - 1])
    BY <1>2, <2>1 DEF PathRec
  <2>. QED
    BY <2>1, <2>2 DEF HashCombine
<1>. QED
  BY <1>1, <1>3, <1>4 DEF OnPath

TreeRec(f, view, k) ==
  f = [level \in 0..k |->
        [i \in 1..2^(TreeDepth - level) |->
           CASE level = ShardHeight /\ i <= WindowStartShard -> WireCap(view)[i]
             [] level = 0 -> LeafOf(view, i - 1)
             [] OTHER -> HashCombine(level - 1, f[level - 1][2 * i - 1], f[level - 1][2 * i])]]

LEMMA TreeExists ==
  ASSUME NEW view
  PROVE  \A k \in Nat : \E f : TreeRec(f, view, k)
<1> DEFINE S == {k \in Nat : \E f : TreeRec(f, view, k)}
           row(level, below) ==
             [i \in 1..2^(TreeDepth - level) |->
                CASE level = ShardHeight /\ i <= WindowStartShard -> WireCap(view)[i]
                  [] level = 0 -> LeafOf(view, i - 1)
                  [] OTHER -> HashCombine(level - 1, below[2 * i - 1], below[2 * i])]
<1>0. ASSUME NEW k, NEW f
      PROVE  TreeRec(f, view, k) <=> f = [level \in 0..k |-> row(level, f[level - 1])]
  BY DEF TreeRec
<1>00. ASSUME NEW x, NEW y
       PROVE  row(0, x) = row(0, y)
  OBVIOUS
<1> HIDE DEF row
<1>1. 0 \in S
  <2> DEFINE f == [level \in 0..0 |-> row(0, 0)]
  <2>1. f = [level \in 0..0 |-> row(level, f[level - 1])]
    <3>1. ASSUME NEW level \in 0..0
          PROVE  f[level] = row(level, f[level - 1])
      <4>1. level = 0 /\ f[level] = row(0, 0)
        OBVIOUS
      <4> HIDE DEF f
      <4>. QED
        BY <4>1, <1>00
    <3>. QED
      BY <3>1
  <2>2. TreeRec(f, view, 0)
    BY <1>0, <2>1
  <2>. QED
    BY <2>2
<1>2. ASSUME NEW k \in S
      PROVE  k + 1 \in S
  <2>1. PICK f : f = [level \in 0..k |-> row(level, f[level - 1])]
    BY <1>0
  <2> DEFINE g == [level \in 0..(k + 1) |->
                     IF level <= k THEN f[level] ELSE row(level, f[level - 1])]
  <2>2. k \in Nat /\ k + 1 \in Nat
    OBVIOUS
  <2>3. ASSUME NEW level \in 0..(k + 1)
        PROVE  g[level] = row(level, g[level - 1])
    <3>1. CASE level = 0
      <4>1. g[level] = row(0, f[level - 1])
        BY <2>1, <2>2, <3>1
      <4> HIDE DEF g
      <4>. QED
        BY <3>1, <4>1, <1>00
    <3>2. CASE level # 0 /\ level <= k
      BY <2>1, <2>2, <3>2
    <3>3. CASE level = k + 1
      BY <2>2, <3>3
    <3>. QED
      BY <2>2, <3>1, <3>2, <3>3
  <2>4. TreeRec(g, view, k + 1)
    BY <1>0, <2>3
  <2>. QED
    BY <2>2, <2>4
<1> HIDE DEF S
<1>3. \A k \in Nat : k \in S
  BY <1>1, <1>2, NumberInduction DEF S
<1>. QED
  BY <1>3 DEF S

(* The nodes of the tree of a view, leaves first. *)
NodesOf(f, view) ==
  /\ \A i \in 1..2^TreeDepth :
       ~(ShardHeight = 0 /\ i <= WindowStartShard) => f[0][i] = LeafOf(view, i - 1)
  /\ \A level \in 0..TreeDepth : \A i \in 1..2^(TreeDepth - level) :
       level = ShardHeight /\ i <= WindowStartShard => f[level][i] = WireCap(view)[i]
  /\ \A n \in 0..(TreeDepth - 1) : \A i \in 1..2^(TreeDepth - (n + 1)) :
       ~(n + 1 = ShardHeight /\ i <= WindowStartShard)
         => f[n + 1][i] = <<n, f[n][2 * i - 1], f[n][2 * i]>>

(* A tree of one leaf has nothing before the window. *)
LEMMA NoWindowBelow == ShardHeight = 0 => WindowStartShard = 0
<1>1. ASSUME ShardHeight = 0
      PROVE  WindowStartShard = 0
  <2>1. 2 * SubshardHeight = 0 /\ 2^0 = 1
    BY <1>1 DEF ShardHeight
  <2>2. WindowStartShard + MaxShards <= 1
    BY <2>1, GeometryAssumption
  <2>. QED
    BY <2>2, TreeAssumption
<1>. QED
  BY <1>1

LEMMA TreeIs ==
  ASSUME NEW view
  PROVE  \E f : NodesOf(f, view) /\ TreeRoot(view) = f[TreeDepth][1]
<1> DEFINE f == CHOOSE f : TreeRec(f, view, TreeDepth)
<1>1. TreeRoot(view) = f[TreeDepth][1]
  BY DEF TreeRoot, TreeRec
<1>2. TreeRec(f, view, TreeDepth)
  BY TreeExists, HeightType
<1> HIDE DEF f
<1>3. ASSUME NEW level \in 0..TreeDepth, NEW i \in 1..2^(TreeDepth - level)
      PROVE  f[level][i] =
               CASE level = ShardHeight /\ i <= WindowStartShard -> WireCap(view)[i]
                 [] level = 0 -> LeafOf(view, i - 1)
                 [] OTHER -> HashCombine(level - 1, f[level - 1][2 * i - 1],
                                         f[level - 1][2 * i])
  <2> DEFINE node(j, x) == CASE j = ShardHeight /\ x <= WindowStartShard -> WireCap(view)[x]
                             [] j = 0 -> LeafOf(view, x - 1)
                             [] OTHER -> HashCombine(j - 1, f[j - 1][2 * x - 1],
                                                     f[j - 1][2 * x])
  <2>1. f = [j \in 0..TreeDepth |-> [x \in 1..2^(TreeDepth - j) |-> node(j, x)]]
    BY <1>2 DEF TreeRec
  <2>2. f[level][i] = node(level, i)
    <3> HIDE DEF node
    <3>. QED
      BY <2>1
  <2>. QED
    BY <2>2
<1>4. ASSUME NEW i \in 1..2^TreeDepth, ~(ShardHeight = 0 /\ i <= WindowStartShard)
      PROVE  f[0][i] = LeafOf(view, i - 1)
  <2>1. 0 \in 0..TreeDepth /\ TreeDepth - 0 = TreeDepth
    BY HeightType
  <2>2. i \in 1..2^(TreeDepth - 0)
    BY <1>4, <2>1
  <2>. QED
    BY <1>3, <1>4, <2>1, <2>2
<1>5. ASSUME NEW level \in 0..TreeDepth, NEW i \in 1..2^(TreeDepth - level),
             level = ShardHeight, i <= WindowStartShard
      PROVE  f[level][i] = WireCap(view)[i]
  <2>1. i \in Nat /\ i > 0
    <3>1. 2^(TreeDepth - level) \in Nat
      BY PowerPositive, HeightType
    <3>. QED
      BY <3>1
  <2>2. ShardHeight # 0
    BY <1>5, <2>1, NoWindowBelow
  <2>. QED
    BY <1>3, <1>5, <2>2
<1>6. ASSUME NEW n \in 0..(TreeDepth - 1), NEW i \in 1..2^(TreeDepth - (n + 1)),
             ~(n + 1 = ShardHeight /\ i <= WindowStartShard)
      PROVE  f[n + 1][i] = <<n, f[n][2 * i - 1], f[n][2 * i]>>
  <2>1. n + 1 \in 0..TreeDepth /\ n + 1 # 0 /\ (n + 1) - 1 = n
    BY HeightType
  <2>2. f[n + 1][i] = HashCombine((n + 1) - 1, f[(n + 1) - 1][2 * i - 1],
                                  f[(n + 1) - 1][2 * i])
    BY <1>3, <1>6, <2>1
  <2>. QED
    BY <2>1, <2>2 DEF HashCombine
<1>. QED
  BY <1>1, <1>4, <1>5, <1>6 DEF NodesOf

-----------------------------------------------------------------------------
(* A tier: 2^k nodes and the levels above them                             *)

(* A list of all 2^k nodes of a tier. *)
FullNodes(s, k) == s = [i \in 1..2^k |-> s[i]]

LEMMA FullLength ==
  ASSUME NEW k \in Nat, NEW s, FullNodes(s, k)
  PROVE  Len(s) = 2^k /\ 2^k \in Nat \ {0}
<1> DEFINE n == 2^k
           X == {s[i] : i \in 1..n}
<1>1. n \in Nat \ {0}
  BY PowerPositive
<1>2. s \in [1..n -> X]
  BY DEF FullNodes
<1> HIDE DEF n, X
<1>3. Len(s) = n
  BY <1>1, <1>2
<1>. QED
  BY <1>1, <1>3 DEF n

LEMMA ParentsFull ==
  ASSUME NEW k \in Nat, NEW s, FullNodes(s, k + 1), NEW level
  PROVE  /\ FullNodes(Parents(s, level), k)
         /\ \A i \in 1..2^k : Parents(s, level)[i] = <<level, s[2 * i - 1], s[2 * i]>>
<1> DEFINE n == 2^k
<1>1. Len(s) = 2 * n /\ n \in Nat \ {0}
  BY FullLength, PowerStep, PowerPositive
<1> HIDE DEF n
<1>2. (Len(s) + 1) \div 2 = n
  BY <1>1
<1>3. Parents(s, level) = [i \in 1..n |-> HashCombine(level, s[2 * i - 1],
                              IF 2 * i <= Len(s) THEN s[2 * i] ELSE EmptyRoot[level])]
  BY <1>2 DEF Parents
<1>4. ASSUME NEW i \in 1..n
      PROVE  Parents(s, level)[i] = <<level, s[2 * i - 1], s[2 * i]>>
  <2>1. 2 * i <= Len(s)
    BY <1>1
  <2>. QED
    BY <1>3, <2>1 DEF HashCombine
<1>5. Parents(s, level) = [i \in 1..n |-> Parents(s, level)[i]]
  BY <1>3
<1>. QED
  BY <1>4, <1>5 DEF FullNodes, n

LEMMA AncestorsFull ==
  ASSUME NEW k \in Nat, NEW s, FullNodes(s, k), NEW base \in Nat
  PROVE  \A n \in 0..k : FullNodes(Ancestors(s, base, n), k - n)
<1> DEFINE S == {n \in Nat : n <= k => FullNodes(Ancestors(s, base, n), k - n)}
<1>1. 0 \in S
  <2>1. k - 0 = k
    OBVIOUS
  <2>. QED
    BY <2>1, AncestorsStep
<1>2. ASSUME NEW n \in S
      PROVE  n + 1 \in S
  <2>1. SUFFICES ASSUME n + 1 <= k
                 PROVE  FullNodes(Ancestors(s, base, n + 1), k - (n + 1))
    OBVIOUS
  <2>2. n \in Nat /\ n <= k /\ k - (n + 1) \in Nat /\ k - n = (k - (n + 1)) + 1
    BY <2>1
  <2>3. FullNodes(Ancestors(s, base, n), (k - (n + 1)) + 1)
    BY <2>2
  <2>4. FullNodes(Parents(Ancestors(s, base, n), base + n), k - (n + 1))
    BY <2>2, <2>3, ParentsFull
  <2>. QED
    BY <2>2, <2>4, AncestorsStep
<1> HIDE DEF S
<1>3. \A n \in Nat : n \in S
  BY <1>1, <1>2, NumberInduction DEF S
<1>. QED
  BY <1>3 DEF S

LEMMA AncestorsPairs ==
  ASSUME NEW k \in Nat, NEW s, FullNodes(s, k), NEW base \in Nat, NEW n \in 0..(k - 1)
  PROVE  \A i \in 1..2^(k - (n + 1)) :
           Ancestors(s, base, n + 1)[i]
             = <<base + n, Ancestors(s, base, n)[2 * i - 1], Ancestors(s, base, n)[2 * i]>>
<1>1. n \in Nat /\ n \in 0..k /\ k - (n + 1) \in Nat /\ k - n = (k - (n + 1)) + 1
  OBVIOUS
<1>2. FullNodes(Ancestors(s, base, n), (k - (n + 1)) + 1)
  BY <1>1, AncestorsFull
<1>3. Ancestors(s, base, n + 1) = Parents(Ancestors(s, base, n), base + n)
  BY <1>1, AncestorsStep
<1>. QED
  BY <1>1, <1>2, <1>3, ParentsFull

(* Two lists of nodes with one root are one list. *)
LEMMA RootsDiffer ==
  ASSUME NEW k \in Nat, NEW base \in Nat,
         NEW s, FullNodes(s, k), NEW t, FullNodes(t, k),
         RootAbove(s, base, k) = RootAbove(t, base, k)
  PROVE  s = t
<1> DEFINE S == {m \in Nat : m <= k => Ancestors(s, base, k - m) = Ancestors(t, base, k - m)}
<1>1. 0 \in S
  <2>1. k \in 0..k /\ k - k = 0 /\ k - 0 = k /\ 2^0 = 1
    OBVIOUS
  <2>2. FullNodes(Ancestors(s, base, k), 0) /\ FullNodes(Ancestors(t, base, k), 0)
    BY <2>1, AncestorsFull
  <2>3. Ancestors(s, base, k)[1] = Ancestors(t, base, k)[1]
    BY DEF RootAbove
  <2>4. /\ Ancestors(s, base, k) = [i \in 1..1 |-> Ancestors(s, base, k)[i]]
        /\ Ancestors(t, base, k) = [i \in 1..1 |-> Ancestors(t, base, k)[i]]
    BY <2>1, <2>2 DEF FullNodes
  <2>5. Ancestors(s, base, k) = Ancestors(t, base, k)
    <3> DEFINE u == Ancestors(s, base, k)
               v == Ancestors(t, base, k)
    <3>1. u = [i \in 1..1 |-> u[i]] /\ v = [i \in 1..1 |-> v[i]] /\ u[1] = v[1]
      BY <2>3, <2>4
    <3> HIDE DEF u, v
    <3>2. \A i \in 1..1 : u[i] = v[i]
      BY <3>1
    <3>3. u = v
      BY <3>1, <3>2
    <3>. QED
      BY <3>3 DEF u, v
  <2>. QED
    BY <2>1, <2>5
<1>2. ASSUME NEW m \in S
      PROVE  m + 1 \in S
  <2>1. SUFFICES ASSUME m + 1 <= k
                 PROVE  Ancestors(s, base, k - (m + 1)) = Ancestors(t, base, k - (m + 1))
    OBVIOUS
  <2> DEFINE n == k - (m + 1)
             u == Ancestors(s, base, n)
             v == Ancestors(t, base, n)
  <2>2. /\ m \in Nat /\ m <= k /\ n \in 0..(k - 1) /\ n \in 0..k
        /\ k - m = n + 1 /\ k - (n + 1) = m /\ k - n = m + 1
    BY <2>1
  <2>3. Ancestors(s, base, n + 1) = Ancestors(t, base, n + 1)
    BY <2>2
  <2>4. FullNodes(u, m + 1) /\ FullNodes(v, m + 1)
    BY <2>2, AncestorsFull
  <2>5. ASSUME NEW i \in 1..2^m
        PROVE  u[2 * i - 1] = v[2 * i - 1] /\ u[2 * i] = v[2 * i]
    <3>1. /\ Ancestors(s, base, n + 1)[i] = <<base + n, u[2 * i - 1], u[2 * i]>>
          /\ Ancestors(t, base, n + 1)[i] = <<base + n, v[2 * i - 1], v[2 * i]>>
      <4> HIDE DEF n
      <4>1. i \in 1..2^(k - (n + 1))
        BY <2>2
      <4>. QED
        BY <2>2, <4>1, AncestorsPairs
    <3> HIDE DEF n, u, v
    <3>. QED
      BY <2>3, <3>1
  <2>6. ASSUME NEW j \in 1..2^(m + 1)
        PROVE  u[j] = v[j]
    <3> DEFINE a == 2^m
    <3>1. a \in Nat \ {0} /\ 2^(m + 1) = 2 * a
      BY <2>2, PowerPositive, PowerStep
    <3> HIDE DEF a
    <3>2. j \in Nat /\ j >= 1 /\ j <= 2 * a
      BY <3>1
    <3>3. PICK i \in 1..a : j = 2 * i - 1 \/ j = 2 * i
      <4>1. (j + 1) \div 2 \in 1..a
        BY <3>1, <3>2
      <4>2. j = 2 * ((j + 1) \div 2) - 1 \/ j = 2 * ((j + 1) \div 2)
        BY <3>2
      <4>. QED
        BY <4>1, <4>2
    <3>4. u[2 * i - 1] = v[2 * i - 1] /\ u[2 * i] = v[2 * i]
      BY <2>5 DEF a
    <3> HIDE DEF u, v
    <3>. QED
      BY <3>3, <3>4
  <2>7. u = v
    <3> HIDE DEF u, v
    <3>. QED
      BY <2>4, <2>6 DEF FullNodes
  <2>. QED
    BY <2>7
<1>3. S \in SUBSET Nat
  OBVIOUS
<1> HIDE DEF S
<1>4. \A n \in Nat : n \in S
  BY <1>1, <1>2, <1>3, NumberInduction
<1>5. Ancestors(s, base, 0) = Ancestors(t, base, 0)
  <2>1. k \in S /\ k <= k /\ k - k = 0
    BY <1>4
  <2>. QED
    BY <2>1 DEF S
<1>. QED
  BY <1>5, AncestorsStep

(* An index below 2^k, halved n times. *)
LEMMA HalvedBelow ==
  ASSUME NEW k \in Nat, NEW n \in 0..k, NEW x \in Nat, x < 2^k
  PROVE  x \div 2^n \in Nat /\ x \div 2^n < 2^(k - n)
<1> DEFINE a == 2^n
           b == 2^(k - n)
<1>1. n \in Nat /\ k - n \in Nat /\ n + (k - n) = k
  OBVIOUS
<1>2. a \in Nat \ {0} /\ b \in Nat \ {0}
  BY <1>1, PowerPositive
<1>3. 2^k = a * b
  BY <1>1, PowerSum
<1> HIDE DEF a, b
<1>4. x < a * b
  BY <1>3
<1>5. x \div a \in Nat /\ (x \div a) * a <= x
  BY <1>2, Division
<1>6. x \div a < b
  <2> DEFINE q == x \div a
  <2>1. SUFFICES ASSUME b <= q
                 PROVE  FALSE
    BY <1>2, <1>5
  <2> HIDE DEF q
  <2>2. q \in Nat /\ q * a <= x
    BY <1>5 DEF q
  <2>3. b * a <= q * a
    <3>1. PICK d \in Nat : q = b + d
      <4>1. q - b \in Nat /\ q = b + (q - b)
        BY <1>2, <2>1, <2>2
      <4>. QED
        BY <4>1
    <3>2. q * a = b * a + d * a /\ d * a \in Nat
      BY <1>2, <3>1
    <3>. QED
      BY <1>2, <3>2
  <2>. QED
    BY <1>2, <1>4, <2>2, <2>3
<1>. QED
  BY <1>5, <1>6 DEF a, b

(* The siblings the client takes from a full tier. *)
LEMMA ExtractedIs ==
  ASSUME NEW k \in Nat, NEW base \in Nat, NEW s, FullNodes(s, k),
         NEW idx \in Nat, idx < 2^k
  PROVE  /\ Len(ExtractSiblings(s, idx, base, k)) = k
         /\ DOMAIN ExtractSiblings(s, idx, base, k) = 1..k
         /\ \A n \in 0..(k - 1) :
              ExtractSiblings(s, idx, base, k)[n + 1]
                = Ancestors(s, base, n)[Sibling(idx \div 2^n) + 1]
<1> DEFINE e(n) == LET level == Ancestors(s, base, n - 1)
                       t == Sibling(idx \div 2^(n - 1)) + 1
                   IN  IF t <= Len(level) THEN level[t] ELSE EmptyRoot[base + n - 1]
<1>1. ExtractSiblings(s, idx, base, k) = [n \in 1..k |-> e(n)]
  BY DEF ExtractSiblings
<1>2. ASSUME NEW n \in 0..(k - 1)
      PROVE  e(n + 1) = Ancestors(s, base, n)[Sibling(idx \div 2^n) + 1]
  <2>1. n \in 0..k /\ n \in Nat /\ k - n \in Nat /\ k - (n + 1) \in Nat
        /\ k - n = (k - (n + 1)) + 1 /\ (n + 1) - 1 = n
    OBVIOUS
  <2>2. Len(Ancestors(s, base, n)) = 2^(k - n)
    <3>1. FullNodes(Ancestors(s, base, n), k - n)
      BY <2>1, AncestorsFull
    <3>. QED
      BY <2>1, <3>1, FullLength
  <2> DEFINE a == 2^(k - (n + 1))
             j == idx \div 2^n
  <2>3. 2^(k - n) = 2 * a /\ a \in Nat \ {0}
    BY <2>1, PowerStep, PowerPositive
  <2>4. j \in Nat /\ j < 2 * a
    BY <2>1, <2>3, HalvedBelow
  <2>5. Sibling(j) + 1 <= 2 * a
    <3> HIDE DEF a, j
    <3>. QED
      BY <2>3, <2>4 DEF Sibling
  <2>6. Sibling(idx \div 2^n) + 1 <= Len(Ancestors(s, base, n))
    BY <2>2, <2>3, <2>5
  <2>. QED
    BY <2>1, <2>6
<1> HIDE DEF e
<1>3. Len(ExtractSiblings(s, idx, base, k)) = k
  BY <1>1
<1>4. ASSUME NEW n \in 0..(k - 1)
      PROVE  ExtractSiblings(s, idx, base, k)[n + 1] = e(n + 1)
  BY <1>1
<1>. QED
  BY <1>1, <1>2, <1>3, <1>4

(* A path that enters a full tier at one of its nodes and takes its        *)
(* siblings from it leaves at its root.                                    *)
PathEnters(f, p, siblings, s, idx, base, k) ==
  /\ base + k <= TreeDepth
  /\ f[base] = s[idx + 1]
  /\ \A n \in 0..(k - 1) :
       /\ (p \div 2^(base + n)) % 2 = (idx \div 2^n) % 2
       /\ siblings[base + n + 1] = Ancestors(s, base, n)[Sibling(idx \div 2^n) + 1]

LEMMA PathThrough ==
  ASSUME NEW k \in Nat, NEW base \in Nat,
         NEW s, FullNodes(s, k), NEW idx \in Nat, idx < 2^k,
         NEW f, NEW p \in Nat, NEW leaf, NEW siblings, OnPath(f, p, leaf, siblings),
         PathEnters(f, p, siblings, s, idx, base, k)
  PROVE  f[base + k] = RootAbove(s, base, k)
<1>0. /\ base + k <= TreeDepth
      /\ f[base] = s[idx + 1]
      /\ \A n \in 0..(k - 1) :
           /\ (p \div 2^(base + n)) % 2 = (idx \div 2^n) % 2
           /\ siblings[base + n + 1] = Ancestors(s, base, n)[Sibling(idx \div 2^n) + 1]
  BY DEF PathEnters
<1> DEFINE S == {n \in Nat : n <= k => f[base + n] = Ancestors(s, base, n)[(idx \div 2^n) + 1]}
<1>1. 0 \in S
  <2>1. base + 0 = base /\ 2^0 = 1 /\ idx \div 1 = idx
    OBVIOUS
  <2>. QED
    BY <1>0, <2>1, AncestorsStep
<1>2. ASSUME NEW n \in S
      PROVE  n + 1 \in S
  <2>1. SUFFICES ASSUME n + 1 <= k
                 PROVE  f[base + (n + 1)] = Ancestors(s, base, n + 1)[(idx \div 2^(n + 1)) + 1]
    OBVIOUS
  <2> DEFINE j == idx \div 2^n
             i == (j \div 2) + 1
             u == Ancestors(s, base, n)
  <2>2. n \in Nat /\ n <= k /\ n \in 0..(k - 1) /\ n + 1 \in 0..k
        /\ base + n \in 0..(TreeDepth - 1) /\ (base + n) + 1 = base + (n + 1)
    BY <1>0, <2>1, HeightType
  <2>3. f[base + n] = u[j + 1]
    BY <2>2
  <2>4. j \in Nat /\ idx \div 2^(n + 1) = j \div 2
    BY <2>2, Halved
  <2>5. j \div 2 \in Nat /\ i \in 1..2^(k - (n + 1))
    <3>1. j \div 2 \in Nat /\ j \div 2 < 2^(k - (n + 1))
      BY <2>2, <2>4, HalvedBelow
    <3>2. 2^(k - (n + 1)) \in Nat
      BY <2>2, PowerPositive
    <3> HIDE DEF j
    <3>. QED
      BY <3>1, <3>2
  <2>6. Ancestors(s, base, n + 1)[i] = <<base + n, u[2 * i - 1], u[2 * i]>>
    <3> HIDE DEF i
    <3>. QED
      BY <2>2, <2>5, AncestorsPairs
  <2>7. f[base + (n + 1)] = IF j % 2 = 0 THEN <<base + n, u[j + 1], u[Sibling(j) + 1]>>
                            ELSE <<base + n, u[Sibling(j) + 1], u[j + 1]>>
    <3>1. f[(base + n) + 1] = IF (p \div 2^(base + n)) % 2 = 0
                              THEN <<base + n, f[base + n], siblings[(base + n) + 1]>>
                              ELSE <<base + n, siblings[(base + n) + 1], f[base + n]>>
      BY <2>2 DEF OnPath
    <3>2. (p \div 2^(base + n)) % 2 = j % 2 /\ siblings[(base + n) + 1] = u[Sibling(j) + 1]
      BY <1>0, <2>2
    <3> HIDE DEF j, u
    <3>. QED
      BY <2>2, <2>3, <3>1, <3>2
  <2>8. IF j % 2 = 0 THEN 2 * i - 1 = j + 1 /\ 2 * i = Sibling(j) + 1
        ELSE 2 * i = j + 1 /\ 2 * i - 1 = Sibling(j) + 1
    <3> HIDE DEF j
    <3>. QED
      BY <2>4 DEF Sibling
  <2> HIDE DEF j, u
  <2>9. f[base + (n + 1)] = <<base + n, u[2 * i - 1], u[2 * i]>>
    <3> HIDE DEF i
    <3>. QED
      BY <2>7, <2>8
  <2>. QED
    BY <2>4, <2>6, <2>9
<1>3. S \in SUBSET Nat
  OBVIOUS
<1> HIDE DEF S
<1>4. k \in S
  BY <1>1, <1>2, <1>3, NumberInduction
<1>5. f[base + k] = Ancestors(s, base, k)[(idx \div 2^k) + 1]
  BY <1>4 DEF S
<1>6. (idx \div 2^k) + 1 = 1
  <2>1. k \in 0..k /\ k - k = 0 /\ 2^0 = 1
    OBVIOUS
  <2>2. idx \div 2^k \in Nat /\ idx \div 2^k < 1
    BY <2>1, HalvedBelow
  <2> DEFINE q == idx \div 2^k
  <2> HIDE DEF q
  <2>3. q = 0
    BY <2>2 DEF q
  <2>. QED
    BY <2>3 DEF q
<1>. QED
  BY <1>5, <1>6 DEF RootAbove

(* A tier of the tree: 2^k neighbours at one level, none of the levels     *)
(* above them in the opaque part, have the root of the list above them.    *)
LEMMA TierOfTree ==
  ASSUME NEW view, NEW f, NodesOf(f, view),
         NEW k \in Nat, NEW base \in Nat, base + k <= TreeDepth,
         NEW o \in Nat, o < 2^(TreeDepth - (base + k)),
         base >= ShardHeight \/ base + k < ShardHeight
           \/ (base + k = ShardHeight /\ o >= WindowStartShard),
         NEW s, FullNodes(s, k),
         \A q \in 1..2^k : f[base][o * 2^k + q] = s[q]
  PROVE  f[base + k][o + 1] = RootAbove(s, base, k)
<1> DEFINE S == {n \in Nat : n <= k =>
                   \A q \in 1..2^(k - n) :
                     f[base + n][o * 2^(k - n) + q] = Ancestors(s, base, n)[q]}
<1>1. 0 \in S
  <2>1. base + 0 = base /\ k - 0 = k
    OBVIOUS
  <2>. QED
    BY <2>1, AncestorsStep
<1>2. ASSUME NEW n \in S
      PROVE  n + 1 \in S
  <2>1. SUFFICES ASSUME n + 1 <= k, NEW q \in 1..2^(k - (n + 1))
                 PROVE  f[base + (n + 1)][o * 2^(k - (n + 1)) + q]
                          = Ancestors(s, base, n + 1)[q]
    OBVIOUS
  <2> DEFINE a == 2^(k - (n + 1))
             i == o * a + q
             level == base + n
             u == Ancestors(s, base, n)
             c == 2^(TreeDepth - (base + k))
  <2>2. /\ n \in Nat /\ n <= k /\ n \in 0..(k - 1) /\ k - (n + 1) \in Nat
        /\ k - n = (k - (n + 1)) + 1
        /\ level \in 0..(TreeDepth - 1) /\ level + 1 = base + (n + 1)
        /\ TreeDepth - (base + k) \in Nat
        /\ TreeDepth - (level + 1) = (TreeDepth - (base + k)) + (k - (n + 1))
    BY <2>1, HeightType
  <2>3. a \in Nat \ {0} /\ 2^(k - n) = 2 * a /\ c \in Nat \ {0}
        /\ 2^(TreeDepth - (level + 1)) = c * a
    <3>1. a \in Nat \ {0} /\ c \in Nat \ {0}
      BY <2>2, PowerPositive
    <3>2. 2^(k - n) = 2 * a
      <4> DEFINE m == k - (n + 1)
      <4>1. m \in Nat /\ k - n = m + 1
        BY <2>2
      <4> HIDE DEF m
      <4>2. 2^(m + 1) = 2 * 2^m
        BY <4>1, PowerStep
      <4>. QED
        BY <4>1, <4>2 DEF m
    <3>3. 2^(TreeDepth - (level + 1)) = c * a
      <4> HIDE DEF level
      <4>. QED
        BY <2>2, PowerSum
    <3>. QED
      BY <3>1, <3>2, <3>3
  <2>4. q \in Nat /\ q >= 1 /\ q <= a
    BY <2>3
  <2>5. o * a \in Nat /\ o * a + a <= c * a /\ o * (2 * a) = 2 * (o * a)
    <3>1. o < c
      OBVIOUS
    <3> HIDE DEF a, c
    <3>2. o * a + a <= c * a
      BY <2>3, <3>1, NextMultiple
    <3>. QED
      BY <2>3, <3>2
  <2>6. i \in 1..2^(TreeDepth - (level + 1))
    <3> DEFINE x == o * a
               y == c * a
    <3>1. x \in Nat /\ y \in Nat /\ x + a <= y
      BY <2>3, <2>5
    <3> HIDE DEF a, c, x, y
    <3>2. x + q \in 1..y
      BY <2>3, <2>4, <3>1
    <3>. QED
      BY <2>3, <3>2 DEF x, y
  <2>7. ~(level + 1 = ShardHeight /\ i <= WindowStartShard)
    <3>1. SUFFICES ASSUME level + 1 = ShardHeight
                   PROVE  ~(i <= WindowStartShard)
      OBVIOUS
    <3>2. base + k = ShardHeight /\ o >= WindowStartShard /\ n + 1 = k
      BY <2>1, <2>2, <3>1, HeightType
    <3>3. a = 1
      <4>1. k - (n + 1) = 0 /\ 2^0 = 1
        BY <2>2, <3>2
      <4>. QED
        BY <4>1
    <3>4. i = o + q
      BY <2>4, <3>3
    <3>. QED
      BY <2>4, <3>2, <3>4, TreeAssumption
  <2>8. f[level + 1][i] = <<level, f[level][2 * i - 1], f[level][2 * i]>>
    <3> HIDE DEF i, level
    <3>. QED
      BY <2>2, <2>6, <2>7 DEF NodesOf
  <2>9. /\ 2 * i - 1 = o * 2^(k - n) + (2 * q - 1) /\ 2 * i = o * 2^(k - n) + 2 * q
        /\ 2 * q - 1 \in 1..2^(k - n) /\ 2 * q \in 1..2^(k - n)
    <3> DEFINE x == o * a
    <3>1. x \in Nat /\ o * 2^(k - n) = 2 * x
      BY <2>3, <2>5
    <3> HIDE DEF a, x
    <3>2. 2 * (x + q) - 1 = 2 * x + (2 * q - 1) /\ 2 * (x + q) = 2 * x + 2 * q
          /\ 2 * q - 1 \in 1..(2 * a) /\ 2 * q \in 1..(2 * a)
      BY <2>3, <2>4, <3>1
    <3>. QED
      BY <2>3, <3>1, <3>2 DEF x
  <2>10. f[level][2 * i - 1] = u[2 * q - 1] /\ f[level][2 * i] = u[2 * q]
    <3>1. \A j \in 1..2^(k - n) : f[level][o * 2^(k - n) + j] = u[j]
      BY <2>2
    <3> HIDE DEF i, level, u
    <3>2. f[level][o * 2^(k - n) + (2 * q - 1)] = u[2 * q - 1]
          /\ f[level][o * 2^(k - n) + 2 * q] = u[2 * q]
      BY <2>9, <3>1
    <3>. QED
      BY <2>9, <3>2
  <2>11. Ancestors(s, base, n + 1)[q] = <<level, u[2 * q - 1], u[2 * q]>>
    BY <2>2, AncestorsPairs
  <2>12. f[level + 1][i] = Ancestors(s, base, n + 1)[q]
    <3> HIDE DEF i, level, u
    <3>. QED
      BY <2>8, <2>10, <2>11
  <2>. QED
    BY <2>2, <2>12
<1>3. S \in SUBSET Nat
  OBVIOUS
<1> HIDE DEF S
<1>4. k \in S
  BY <1>1, <1>2, <1>3, NumberInduction
<1>5. \A q \in 1..2^(k - k) : f[base + k][o * 2^(k - k) + q] = Ancestors(s, base, k)[q]
  BY <1>4 DEF S
<1>6. k - k = 0 /\ 2^0 = 1 /\ 1 \in 1..1 /\ o * 1 = o
  OBVIOUS
<1>. QED
  BY <1>5, <1>6 DEF RootAbove

(* Above leaves that are all empty a node is the empty root of its level:  *)
(* the shards after the last of the cap.                                   *)
LEMMA NothingAbove ==
  ASSUME NEW view, NEW f, NodesOf(f, view),
         NEW l \in Nat, WindowStartShard <= l,
         \A i \in 1..2^TreeDepth : i > l * 2^ShardHeight => LeafOf(view, i - 1) = EmptyLeaf,
         NEW x \in 1..2^ShardHeight, x > l
  PROVE  f[ShardHeight][x] = EmptyRoot[ShardHeight]
<1> DEFINE S == {n \in Nat : n <= ShardHeight =>
                   \A i \in 1..2^(TreeDepth - n) :
                     i > l * 2^(ShardHeight - n) => f[n][i] = EmptyRoot[n]}
<1>1. 0 \in S
  <2>1. SUFFICES ASSUME NEW i \in 1..2^(TreeDepth - 0), i > l * 2^(ShardHeight - 0)
                 PROVE  f[0][i] = EmptyRoot[0]
    OBVIOUS
  <2>2. TreeDepth - 0 = TreeDepth /\ ShardHeight - 0 = ShardHeight
    BY HeightType
  <2>3. i \in 1..2^TreeDepth /\ i > l * 2^ShardHeight
    BY <2>1, <2>2
  <2>4. ~(ShardHeight = 0 /\ i <= WindowStartShard)
    <3>1. 2^TreeDepth \in Nat
      BY HeightType, PowerPositive
    <3>. QED
      BY <2>3, <3>1, NoWindowBelow
  <2>5. f[0][i] = LeafOf(view, i - 1)
    BY <2>3, <2>4 DEF NodesOf
  <2>. QED
    BY <2>3, <2>5, EmptyRootIs
<1>2. ASSUME NEW n \in S
      PROVE  n + 1 \in S
  <2>1. SUFFICES ASSUME n + 1 <= ShardHeight, NEW i \in 1..2^(TreeDepth - (n + 1)),
                        i > l * 2^(ShardHeight - (n + 1))
                 PROVE  f[n + 1][i] = EmptyRoot[n + 1]
    OBVIOUS
  <2> DEFINE a == 2^(ShardHeight - (n + 1))
             b == 2^(TreeDepth - (n + 1))
  <2>2. /\ n \in Nat /\ n <= ShardHeight /\ n \in 0..(TreeDepth - 1)
        /\ ShardHeight - (n + 1) \in Nat /\ ShardHeight - n = (ShardHeight - (n + 1)) + 1
        /\ TreeDepth - (n + 1) \in Nat /\ TreeDepth - n = (TreeDepth - (n + 1)) + 1
    BY <2>1, HeightType
  <2>3. /\ a \in Nat \ {0} /\ 2^(ShardHeight - n) = 2 * a
        /\ b \in Nat \ {0} /\ 2^(TreeDepth - n) = 2 * b
    BY <2>2, PowerPositive, PowerStep
  <2>4. i \in Nat /\ i >= 1 /\ i <= b /\ i > l * a
    BY <2>1, <2>3
  <2>5. l * a \in Nat /\ l * (2 * a) = 2 * (l * a)
    <3> HIDE DEF a
    <3>. QED
      BY <2>3
  <2>6. /\ 2 * i - 1 \in 1..2^(TreeDepth - n) /\ 2 * i \in 1..2^(TreeDepth - n)
        /\ 2 * i - 1 > l * 2^(ShardHeight - n) /\ 2 * i > l * 2^(ShardHeight - n)
    <3> DEFINE y == l * a
    <3>1. y \in Nat /\ l * 2^(ShardHeight - n) = 2 * y /\ i > y
      BY <2>3, <2>4, <2>5
    <3> HIDE DEF a, b, y
    <3>2. 2 * i - 1 \in 1..(2 * b) /\ 2 * i \in 1..(2 * b) /\ 2 * i - 1 > 2 * y /\ 2 * i > 2 * y
      BY <2>3, <2>4, <3>1
    <3>. QED
      BY <2>3, <3>1, <3>2
  <2>7. f[n][2 * i - 1] = EmptyRoot[n] /\ f[n][2 * i] = EmptyRoot[n]
    BY <2>2, <2>6
  <2>8. ~(n + 1 = ShardHeight /\ i <= WindowStartShard)
    <3>1. SUFFICES ASSUME n + 1 = ShardHeight
                   PROVE  i > WindowStartShard
      BY <2>4, TreeAssumption
    <3>2. a = 1
      <4>1. ShardHeight - (n + 1) = 0 /\ 2^0 = 1
        BY <2>2, <3>1
      <4>. QED
        BY <4>1
    <3>. QED
      BY <2>4, <3>2, TreeAssumption
  <2>9. f[n + 1][i] = <<n, f[n][2 * i - 1], f[n][2 * i]>>
    BY <2>2, <2>8 DEF NodesOf
  <2>. QED
    BY <2>2, <2>7, <2>9, EmptyRootIs
<1>3. S \in SUBSET Nat
  OBVIOUS
<1> HIDE DEF S
<1>4. ShardHeight \in S
  BY <1>1, <1>2, <1>3, NumberInduction, HeightType
<1>5. \A i \in 1..2^(TreeDepth - ShardHeight) :
        i > l * 2^(ShardHeight - ShardHeight) => f[ShardHeight][i] = EmptyRoot[ShardHeight]
  BY <1>4, HeightType DEF S
<1>6. TreeDepth - ShardHeight = ShardHeight /\ ShardHeight - ShardHeight = 0 /\ 2^0 = 1 /\ l * 1 = l
  BY HeightType
<1>. QED
  BY <1>5, <1>6

-----------------------------------------------------------------------------
(* Positions                                                               *)

LEMMA Quotient ==
  ASSUME NEW a \in Nat \ {0}, NEW y \in Nat, NEW r \in Nat, r < a
  PROVE  (y * a + r) \div a = y /\ (y * a + r) % a = r
<1>1. (0 * a + r) \div a = 0
  OBVIOUS
<1> DEFINE x == y * a
<1>2. x \in Nat /\ (y + 1) * a = x + a
  OBVIOUS
<1> DEFINE q == (x + r) \div a
<1>3. q \in Nat /\ q * a <= x + r /\ x + r < (q + 1) * a
  <2> HIDE DEF x
  <2>. QED
    BY <1>2, Division
<1>4. q = y
  <2>1. ~(q < y)
    <3>1. SUFFICES ASSUME q < y
                   PROVE  FALSE
      OBVIOUS
    <3>2. q * a + a <= y * a /\ (q + 1) * a = q * a + a /\ q * a \in Nat
      <4> HIDE DEF x, q
      <4>. QED
        BY <1>3, <3>1, NextMultiple
    <3> DEFINE z == q * a
    <3>3. z \in Nat /\ z + a <= x /\ x + r < z + a
      BY <1>3, <3>2
    <3> HIDE DEF x, z
    <3>. QED
      BY <1>2, <3>3
  <2>2. ~(y < q)
    <3>1. SUFFICES ASSUME y < q
                   PROVE  FALSE
      OBVIOUS
    <3>2. y * a + a <= q * a /\ q * a \in Nat
      <4> HIDE DEF x, q
      <4>. QED
        BY <1>3, <3>1, NextMultiple
    <3> DEFINE z == q * a
    <3>3. z \in Nat /\ x + a <= z /\ z <= x + r
      BY <1>3, <3>2
    <3> HIDE DEF x, z
    <3>. QED
      BY <1>2, <3>3
  <2> HIDE DEF q
  <2>. QED
    BY <1>3, <2>1, <2>2
<1>5. (x + r) % a = r
  <2>1. x + r = (q * a) + ((x + r) % a)
    <3> HIDE DEF x
    <3>. QED
      BY <1>2
  <2>2. q * a = x
    BY <1>4
  <2>3. (x + r) % a \in Nat
    <3> HIDE DEF x
    <3>. QED
      BY <1>2
  <2> HIDE DEF x, q
  <2>. QED
    BY <1>2, <2>1, <2>2, <2>3
<1>. QED
  BY <1>4, <1>5

LEMMA Remainder ==
  ASSUME NEW a \in Nat \ {0}, NEW x \in Nat
  PROVE  x % a \in Nat /\ x % a < a /\ x = (x \div a) * a + (x % a)
  OBVIOUS

LEMMA QuotientSum ==
  ASSUME NEW a \in Nat \ {0}, NEW y \in Nat, NEW r \in Nat
  PROVE  (y * a + r) \div a = y + (r \div a)
<1> DEFINE q == r \div a
           t == r % a
<1>1. q \in Nat /\ t \in Nat /\ t < a /\ r = q * a + t
  BY Remainder, Division
<1> HIDE DEF q, t
<1>2. y * a + r = (y + q) * a + t
  <2>1. (y + q) * a = y * a + q * a /\ y * a \in Nat /\ q * a \in Nat
    BY <1>1
  <2> DEFINE u == y * a
             w == q * a
             z == (y + q) * a
  <2>2. u \in Nat /\ w \in Nat /\ z = u + w /\ r = w + t
    BY <1>1, <2>1
  <2> HIDE DEF u, w, z
  <2>3. u + r = z + t
    BY <1>1, <2>2
  <2>. QED
    BY <2>3 DEF u, w, z
<1>3. y + q \in Nat
  BY <1>1
<1>4. ((y + q) * a + t) \div a = y + q
  <2> DEFINE v == y + q
  <2> HIDE DEF v
  <2>1. (v * a + t) \div a = v
    BY <1>1, <1>3, Quotient DEF v
  <2>. QED
    BY <2>1 DEF v
<1>. QED
  BY <1>2, <1>4 DEF q

(* The low bits of an index are those of its remainder. *)
LEMMA BitOfRemainder ==
  ASSUME NEW x \in Nat, NEW k \in Nat, NEW n \in 0..(k - 1)
  PROVE  (x \div 2^n) % 2 = ((x % 2^k) \div 2^n) % 2
<1> DEFINE a == 2^n
           c == 2^(k - (n + 1))
           q == x \div 2^k
           r == x % 2^k
<1>1. n \in Nat /\ k - (n + 1) \in Nat /\ n + 1 \in Nat /\ (k - (n + 1)) + (n + 1) = k
  OBVIOUS
<1>2. a \in Nat \ {0} /\ c \in Nat \ {0} /\ 2^k = c * (2 * a) /\ 2^k \in Nat \ {0}
  <2>1. a \in Nat \ {0} /\ c \in Nat \ {0} /\ 2^k \in Nat \ {0}
    BY <1>1, PowerPositive
  <2>2. 2^(n + 1) = 2 * a
    BY <1>1, PowerStep
  <2>3. 2^((k - (n + 1)) + (n + 1)) = c * 2^(n + 1)
    <3> HIDE DEF a
    <3>. QED
      BY <1>1, PowerSum
  <2>. QED
    BY <1>1, <2>1, <2>2, <2>3
<1>3. q \in Nat /\ r \in Nat /\ x = q * 2^k + r
  BY <1>2, Division, Remainder
<1> DEFINE y == 2 * (q * c)
<1> HIDE DEF a, c, q, r
<1>4. y \in Nat /\ x = y * a + r
  <2>1. q * (c * (2 * a)) = (2 * (q * c)) * a
    BY <1>2, <1>3
  <2>2. q * c \in Nat
    BY <1>2, <1>3
  <2>. QED
    BY <1>2, <1>3, <2>1, <2>2
<1>5. x \div a = y + (r \div a)
  <2> HIDE DEF y
  <2>1. a \in Nat \ {0} /\ y \in Nat /\ r \in Nat
    BY <1>2, <1>3, <1>4
  <2>2. (y * a + r) \div a = y + (r \div a)
    BY <2>1, QuotientSum
  <2>. QED
    BY <1>4, <2>2
<1>6. r \div a \in Nat
  BY <1>2, <1>3, Division
<1>7. (y + (r \div a)) % 2 = (r \div a) % 2
  <2> DEFINE m == q * c
             t == r \div a
  <2>1. m \in Nat /\ t \in Nat
    BY <1>2, <1>3, <1>6
  <2> HIDE DEF m, t
  <2>2. (2 * m + t) % 2 = t % 2
    BY <2>1
  <2>. QED
    BY <2>2 DEF m, t
<1>. QED
  BY <1>5, <1>7 DEF a, r

LEMMA DividedTwice ==
  ASSUME NEW x \in Nat, NEW m \in Nat, NEW n \in Nat
  PROVE  x \div 2^(m + n) = (x \div 2^m) \div 2^n
<1> DEFINE a == 2^m
           b == 2^n
<1>1. a \in Nat \ {0} /\ b \in Nat \ {0} /\ 2^(m + n) = a * b
  BY PowerPositive, PowerSum
<1> HIDE DEF a, b
<1>2. x \div (a * b) = (x \div a) \div b
  BY <1>1
<1>. QED
  BY <1>1, <1>2 DEF a, b

LEMMA Sizes ==
  /\ SubshardLeaves = 2^SubshardHeight /\ SubshardsPerShard = 2^SubshardHeight
  /\ ShardLeaves = 2^ShardHeight /\ ShardLeaves = 2^SubshardHeight * 2^SubshardHeight
  /\ CapSlots = 2^ShardHeight
  /\ 2^SubshardHeight \in Nat \ {0} /\ 2^ShardHeight \in Nat \ {0}
  /\ 2^TreeDepth = 2^ShardHeight * 2^ShardHeight
<1>1. SubshardLeaves = 2^SubshardHeight /\ SubshardsPerShard = 2^SubshardHeight
  BY GeometryAssumption
<1>2. 2^ShardHeight = 2^SubshardHeight * 2^SubshardHeight
  BY HeightType, PowerSum
<1>3. 2^TreeDepth = 2^ShardHeight * 2^ShardHeight
  BY HeightType, PowerSum
<1>4. 2^SubshardHeight \in Nat \ {0} /\ 2^ShardHeight \in Nat \ {0}
  BY HeightType, PowerPositive
<1>. QED
  BY <1>1, <1>2, <1>3, <1>4 DEF ShardLeaves, CapSlots

(* The three parts of a position, and the bits the path reads from each. *)
LEMMA PositionParts ==
  ASSUME NEW p \in Position
  PROVE  /\ p \in Nat
         /\ ShardIndex(p) \in Nat /\ ShardIndex(p) < 2^ShardHeight
         /\ SubshardIndex(p) \in Nat /\ SubshardIndex(p) < 2^SubshardHeight
         /\ LeafIndex(p) \in Nat /\ LeafIndex(p) < 2^SubshardHeight
         /\ \A n \in 0..(SubshardHeight - 1) :
              /\ (p \div 2^n) % 2 = (LeafIndex(p) \div 2^n) % 2
              /\ (p \div 2^(SubshardHeight + n)) % 2 = (SubshardIndex(p) \div 2^n) % 2
         /\ \A n \in 0..(ShardHeight - 1) :
              (p \div 2^(ShardHeight + n)) % 2 = (ShardIndex(p) \div 2^n) % 2
<1>1. p \in Nat /\ p < 2^TreeDepth
  <2>1. 2^TreeDepth \in Nat
    BY HeightType, PowerPositive
  <2>. QED
    BY <2>1 DEF Position
<1>2. /\ ShardIndex(p) = p \div 2^ShardHeight
      /\ SubshardIndex(p) = (p \div 2^SubshardHeight) % 2^SubshardHeight
      /\ LeafIndex(p) = p % 2^SubshardHeight
  BY Sizes DEF ShardIndex, SubshardIndex, LeafIndex
<1>3. ShardIndex(p) \in Nat /\ ShardIndex(p) < 2^ShardHeight
  <2>1. ShardHeight \in 0..TreeDepth /\ TreeDepth - ShardHeight = ShardHeight
    BY HeightType
  <2>. QED
    BY <1>1, <1>2, <2>1, HalvedBelow, HeightType
<1>4. p \div 2^SubshardHeight \in Nat
  BY <1>1, Sizes, Division
<1>5. SubshardIndex(p) \in Nat /\ SubshardIndex(p) < 2^SubshardHeight
  <2> DEFINE x == p \div 2^SubshardHeight
             a == 2^SubshardHeight
  <2>1. x \in Nat /\ a \in Nat \ {0} /\ SubshardIndex(p) = x % a
    BY <1>2, <1>4, Sizes
  <2> HIDE DEF x, a
  <2>2. SubshardIndex(p) \in Nat /\ SubshardIndex(p) < a
    BY <2>1, Remainder
  <2>. QED
    BY <2>2 DEF a
<1>6. LeafIndex(p) \in Nat /\ LeafIndex(p) < 2^SubshardHeight
  BY <1>1, <1>2, Sizes, Remainder
<1>7. ASSUME NEW n \in 0..(SubshardHeight - 1)
      PROVE  /\ (p \div 2^n) % 2 = (LeafIndex(p) \div 2^n) % 2
             /\ (p \div 2^(SubshardHeight + n)) % 2 = (SubshardIndex(p) \div 2^n) % 2
  <2>1. (p \div 2^n) % 2 = (LeafIndex(p) \div 2^n) % 2
    <3>1. (p \div 2^n) % 2 = ((p % 2^SubshardHeight) \div 2^n) % 2
      BY <1>1, BitOfRemainder, HeightType
    <3>. QED
      BY <1>2, <3>1
  <2>2. p \div 2^(SubshardHeight + n) = (p \div 2^SubshardHeight) \div 2^n
    BY <1>1, DividedTwice, HeightType
  <2>3. ((p \div 2^SubshardHeight) \div 2^n) % 2 = (SubshardIndex(p) \div 2^n) % 2
    <3> DEFINE x == p \div 2^SubshardHeight
    <3>1. x \in Nat /\ SubshardIndex(p) = x % 2^SubshardHeight
      BY <1>2, <1>4
    <3> HIDE DEF x
    <3>2. (x \div 2^n) % 2 = ((x % 2^SubshardHeight) \div 2^n) % 2
      BY <3>1, BitOfRemainder, HeightType
    <3>. QED
      BY <3>1, <3>2 DEF x
  <2>. QED
    BY <2>1, <2>2, <2>3
<1>8. ASSUME NEW n \in 0..(ShardHeight - 1)
      PROVE  (p \div 2^(ShardHeight + n)) % 2 = (ShardIndex(p) \div 2^n) % 2
  <2>1. p \div 2^(ShardHeight + n) = (p \div 2^ShardHeight) \div 2^n
    BY <1>1, DividedTwice, HeightType
  <2>. QED
    BY <1>2, <2>1
<1>. QED
  BY <1>1, <1>3, <1>5, <1>6, <1>7, <1>8

(* A position put together from its parts has them. *)
LEMMA PositionOf ==
  ASSUME NEW i \in Nat, NEW j \in Nat, j < 2^SubshardHeight,
         NEW q \in Nat, q < 2^SubshardHeight
  PROVE  LET p == (i * 2^SubshardHeight + j) * 2^SubshardHeight + q
         IN  p \in Nat /\ ShardIndex(p) = i /\ SubshardIndex(p) = j /\ LeafIndex(p) = q
<1> DEFINE a == 2^SubshardHeight
           x == i * a + j
           p == x * a + q
<1>1. a \in Nat \ {0} /\ j < a /\ q < a
  BY Sizes
<1>2. x \in Nat /\ x \div a = i /\ x % a = j
  <2> HIDE DEF a
  <2>1. i * a \in Nat
    BY <1>1
  <2>2. (i * a + j) \div a = i /\ (i * a + j) % a = j
    BY <1>1, Quotient
  <2>. QED
    BY <2>1, <2>2
<1>3. p \in Nat /\ p \div a = x /\ p % a = q
  <2> HIDE DEF a, x
  <2>1. x * a \in Nat
    BY <1>1, <1>2
  <2>2. (x * a + q) \div a = x /\ (x * a + q) % a = q
    BY <1>1, <1>2, Quotient
  <2>. QED
    BY <2>1, <2>2
<1>4. p \div (a * a) = i
  <2> HIDE DEF a, x, p
  <2>1. p \div (a * a) = (p \div a) \div a
    BY <1>1, <1>3
  <2>. QED
    BY <1>2, <1>3, <2>1
<1>5. ShardLeaves = a * a /\ SubshardLeaves = a /\ SubshardsPerShard = a
  BY Sizes
<1> HIDE DEF x, p, a
<1>6. ShardIndex(p) = i /\ SubshardIndex(p) = j /\ LeafIndex(p) = q
  BY <1>2, <1>3, <1>4, <1>5 DEF ShardIndex, SubshardIndex, LeafIndex
<1>. QED
  BY <1>3, <1>6 DEF x, p, a

-----------------------------------------------------------------------------
(* A publication as a tree                                                 *)

(* What a publication says of its window, however old: the root broadcast  *)
(* for a slot is the row of the slot, and the cap root of a shard the      *)
(* roots of its sub-shards.                                                *)
ViewWhole(v) ==
  \E window \in Nat :
    /\ window <= MaxShards
    /\ \A s \in Slot : v.rows[s] \in Root \cup {ZeroRow}
    /\ \A j \in 0..(window - 1), ss \in 0..(SubshardsPerShard - 1) :
         LET s == j * SubshardsPerShard + ss
         IN  s \in Slot /\ v.roots[s] = v.rows[s] /\ v.rows[s] \in Root
    /\ Len(v.cap) = WindowStartShard + window
    /\ DOMAIN v.cap = 1..(WindowStartShard + window)
    /\ \A j \in 0..(window - 1) :
         v.cap[WindowStartShard + j + 1]
           = [ss \in 0..(SubshardsPerShard - 1) |-> v.roots[j * SubshardsPerShard + ss]]

ViewsWhole == (\A v \in pir : ViewWhole(v)) /\ \A b \in broadcast : ViewWhole(b)

LEMMA ViewIsWhole ==
  ASSUME leaves \in Seq(Leaf), CacheOK(leaves, cache)
  PROVE  ViewWhole(View)
<1> DEFINE window == WindowShardCount
           n == WindowStartShard + window
<1>1. /\ View.rows = [s \in Slot |-> IF s \in WindowSlot THEN LeavesOfSlot(s) ELSE ZeroRow]
      /\ View.roots = [s \in WindowSlot |-> RootOfSlot(s)]
      /\ View.cap = [i \in 1..n |-> CapRoot(i - 1)]
  BY DEF View
<1>2. /\ window \in Nat /\ window <= MaxShards /\ WindowSlot \subseteq Slot
      /\ \A j \in 0..(window - 1), ss \in 0..(SubshardsPerShard - 1) :
           j * SubshardsPerShard + ss \in WindowSlot
  BY WindowFacts
<1>3. n \in Nat /\ WindowStartShard \in Nat
  BY <1>2, TreeAssumption
<1>4. \A s \in Slot : LeavesOfSlot(s) \in Root
  BY LeavesInRoot, SameDefinitions, SlotNat
<1>5. \A s \in Slot : View.rows[s] \in Root \cup {ZeroRow}
  BY <1>1, <1>4
<1>6. ASSUME NEW s \in WindowSlot
      PROVE  s \in Slot /\ View.roots[s] = View.rows[s] /\ View.rows[s] \in Root
  BY <1>1, <1>2, <1>4, RootIsLeaves
<1>7. Len(View.cap) = n /\ DOMAIN View.cap = 1..n
  <2> HIDE DEF n
  <2>. QED
    BY <1>1, <1>3
<1>8. ASSUME NEW j \in 0..(window - 1)
      PROVE  View.cap[WindowStartShard + j + 1]
               = [ss \in 0..(SubshardsPerShard - 1) |-> View.roots[j * SubshardsPerShard + ss]]
  <2> DEFINE i == WindowStartShard + j + 1
  <2>1. i \in 1..n /\ i - 1 >= WindowStartShard /\ (i - 1) - WindowStartShard = j
    <3> HIDE DEF window
    <3>. QED
      BY <1>2, <1>3
  <2>2. View.cap[i] = ShardRoot(j)
    <3> HIDE DEF i, n
    <3>. QED
      BY <1>1, <2>1 DEF CapRoot
  <2>3. ASSUME NEW ss \in 0..(SubshardsPerShard - 1)
        PROVE  RootOfSlot(j * SubshardsPerShard + ss) = View.roots[j * SubshardsPerShard + ss]
    <3> DEFINE s == j * SubshardsPerShard + ss
    <3>1. s \in WindowSlot
      BY <1>2
    <3> HIDE DEF s
    <3>2. RootOfSlot(s) = View.roots[s]
      BY <1>1, <3>1
    <3>. QED
      BY <3>2 DEF s
  <2>. QED
    BY <2>2, <2>3 DEF ShardRoot
<1> DEFINE v == View
<1>9. \A j \in 0..(window - 1), ss \in 0..(SubshardsPerShard - 1) :
        LET s == j * SubshardsPerShard + ss
        IN  s \in Slot /\ v.roots[s] = v.rows[s] /\ v.rows[s] \in Root
  <2> HIDE DEF v, window
  <2>. QED
    BY <1>2, <1>6 DEF v
<1>10. /\ window \in Nat /\ window <= MaxShards
       /\ \A s \in Slot : v.rows[s] \in Root \cup {ZeroRow}
       /\ Len(v.cap) = WindowStartShard + window
       /\ DOMAIN v.cap = 1..(WindowStartShard + window)
       /\ \A j \in 0..(window - 1) :
            v.cap[WindowStartShard + j + 1]
              = [ss \in 0..(SubshardsPerShard - 1) |-> v.roots[j * SubshardsPerShard + ss]]
  BY <1>2, <1>5, <1>7, <1>8
<1> HIDE DEF v, window
<1>11. ViewWhole(v)
  BY <1>9, <1>10 DEF ViewWhole
<1>. QED
  BY <1>11 DEF v

LEMMA ClientInitWhole == ClientInit => ViewsWhole
  BY DEF ClientInit, Init, ViewsWhole

LEMMA ClientStepWhole == IInv /\ ViewsWhole /\ [ClientNext]_clientVars => ViewsWhole'
<1> SUFFICES ASSUME IInv, ViewsWhole, [ClientNext]_clientVars PROVE ViewsWhole'
  OBVIOUS
<1>1. leaves \in Seq(Leaf) /\ CacheOK(leaves, cache)
  BY DEF IInv, StateOK
<1>2. ViewWhole(View)
  BY <1>1, ViewIsWhole
<1>3. pir' = pir \/ pir' = {} \/ pir' = {View}
  BY DEF ClientNext, ServerStep, Connect, RefreshBroadcast, clientVars, vars, Next,
         AppendCommitments, RollbackTo, BuildAndPublish, ToSnapshot, FromSnapshot, StartFresh
<1>4. broadcast' = broadcast \/ broadcast' = pir
  BY DEF ClientNext, ServerStep, Connect, RefreshBroadcast, clientVars
<1>. QED
  BY <1>2, <1>3, <1>4 DEF ViewsWhole

(* A row the client reads is 2^SubshardHeight leaves, and rows that differ *)
(* are read as different leaves.                                           *)
LEMMA RowsRead ==
  /\ \A r \in Root \cup {ZeroRow} : FullNodes(RowLeaves(r), SubshardHeight)
  /\ \A r \in Root : RowLeaves(r) = r
  /\ \A r, t \in Root \cup {ZeroRow} : RowLeaves(r) = RowLeaves(t) => r = t
<1> DEFINE n == 2^SubshardHeight
<1>1. SubshardLeaves = n /\ n \in Nat \ {0}
  BY Sizes
<1>2. ZeroRow \notin Root /\ ZeroLeaf \notin Leaf \cup {EmptyLeaf}
  BY GeometryAssumption
<1>3. Root = [1..n -> Leaf \cup {EmptyLeaf}]
  BY <1>1 DEF Root
<1>4. RowLeaves(ZeroRow) = [i \in 1..n |-> ZeroLeaf]
  BY <1>1 DEF RowLeaves
<1>5. \A r \in Root : RowLeaves(r) = r
  BY <1>2 DEF RowLeaves
<1> HIDE DEF n
<1>6. \A r \in Root : FullNodes(r, SubshardHeight)
  BY <1>3 DEF FullNodes, n
<1>7. FullNodes(RowLeaves(ZeroRow), SubshardHeight)
  BY <1>4 DEF FullNodes, n
<1>8. \A r \in Root : r # RowLeaves(ZeroRow)
  <2> TAKE r \in Root
  <2>1. 1 \in 1..n
    BY <1>1
  <2>2. r[1] \in Leaf \cup {EmptyLeaf} /\ RowLeaves(ZeroRow)[1] = ZeroLeaf
    BY <1>3, <1>4, <2>1
  <2>. QED
    BY <1>2, <2>2
<1>. QED
  BY <1>5, <1>6, <1>7, <1>8

(* The tree of a view, computed without tiers, has the root of the padded  *)
(* cap: rows make sub-shard roots, those shard roots, those the cap.       *)
LEMMA TreeIsCap ==
  ASSUME NEW b, ViewWhole(b)
  PROVE  TreeRoot(b) = RootAbove(PaddedCap(b), ShardHeight, ShardHeight)
         /\ FullNodes(PaddedCap(b), ShardHeight)
<1> DEFINE a == 2^SubshardHeight
           c == 2^ShardHeight
<1>0. PICK f : NodesOf(f, b) /\ TreeRoot(b) = f[TreeDepth][1]
  BY TreeIs
<1>1. PICK window \in Nat :
        /\ window <= MaxShards
        /\ \A j \in 0..(window - 1), ss \in 0..(SubshardsPerShard - 1) :
             LET s == j * SubshardsPerShard + ss
             IN  s \in Slot /\ b.roots[s] = b.rows[s] /\ b.rows[s] \in Root
        /\ Len(b.cap) = WindowStartShard + window
        /\ DOMAIN b.cap = 1..(WindowStartShard + window)
        /\ \A j \in 0..(window - 1) :
             b.cap[WindowStartShard + j + 1]
               = [ss \in 0..(SubshardsPerShard - 1) |-> b.roots[j * SubshardsPerShard + ss]]
  BY DEF ViewWhole
<1> DEFINE l == WindowStartShard + window
<1>2. /\ a \in Nat \ {0} /\ c \in Nat \ {0} /\ WindowStartShard \in Nat
      /\ SubshardsPerShard = a /\ SubshardLeaves = a /\ ShardLeaves = c /\ CapSlots = c
      /\ c = a * a /\ 2^TreeDepth = c * c
      /\ l \in Nat /\ l <= c /\ WindowStartShard <= l
  <2>1. WindowStartShard + MaxShards <= c
    BY GeometryAssumption DEF ShardHeight
  <2>2. c \in Nat \ {0} /\ WindowStartShard \in Nat /\ MaxShards \in Nat
    BY Sizes, TreeAssumption
  <2>3. l \in Nat /\ l <= c /\ WindowStartShard <= l
    <3> HIDE DEF c
    <3>. QED
      BY <1>1, <2>1, <2>2
  <2>. QED
    BY <2>2, <2>3, Sizes
<1>3. WindowCount(b) = window
  <2>1. WindowStartShard \in Nat /\ Len(b.cap) = WindowStartShard + window
    BY <1>1, <1>2
  <2>. QED
    BY <2>1 DEF WindowCount
<1>4. DOMAIN WireCap(b) = 1..l /\ Len(b.cap) = l
  BY <1>1 DEF WireCap
<1>5. /\ PaddedCap(b) = [i \in 1..c |-> IF i <= l THEN WireCap(b)[i] ELSE EmptyRoot[ShardHeight]]
      /\ FullNodes(PaddedCap(b), ShardHeight)
  BY <1>2, <1>4 DEF PaddedCap, FullNodes
<1> HIDE DEF l
<1>6. ASSUME NEW i \in WindowStartShard..(l - 1), NEW j \in 0..(a - 1)
      PROVE  f[SubshardHeight][(i * a + j) + 1]
               = WireSubshardRoot(b.roots[(i - WindowStartShard) * SubshardsPerShard + j])
  <2> DEFINE o == i * a + j
             slot == (i - WindowStartShard) * SubshardsPerShard + j
             r == b.rows[slot]
  <2>1. i \in Nat /\ j \in Nat /\ j < a /\ i < c /\ i - WindowStartShard \in 0..(window - 1)
        /\ i >= WindowStartShard /\ i < WindowStartShard + window
    <3> HIDE DEF a, c
    <3>. QED
      BY <1>1, <1>2 DEF l
  <2>2. j \in 0..(SubshardsPerShard - 1)
    BY <1>2
  <2>3. b.roots[slot] = r /\ r \in Root
    BY <1>1, <2>1, <2>2
  <2> HIDE DEF r
  <2>4. FullNodes(r, SubshardHeight) /\ RowLeaves(r) = r
    BY <2>3, RowsRead
  <2>5. ASSUME NEW q \in 1..a
        PROVE  f[0][o * a + q] = r[q]
    <3> DEFINE p == o * a + (q - 1)
    <3>1. q - 1 \in Nat /\ q - 1 < a /\ q \in Nat
      BY <1>2
    <3>2. p \in Nat /\ ShardIndex(p) = i /\ SubshardIndex(p) = j /\ LeafIndex(p) = q - 1
      BY <2>1, <3>1, PositionOf
    <3>3. InWindow(b, p)
      <4> HIDE DEF p
      <4>. QED
        BY <1>3, <2>1, <3>2 DEF InWindow
    <3>4. PhysicalRowIndex(p) = slot
      <4> HIDE DEF p
      <4>. QED
        BY <3>2 DEF PhysicalRowIndex
    <3>5. LeafOf(b, p) = r[q]
      <4>1. (q - 1) + 1 = q
        BY <3>1
      <4> HIDE DEF p, slot
      <4>. QED
        BY <2>4, <3>2, <3>3, <3>4, <4>1 DEF LeafOf, r
    <3>6. o * a + q \in 1..2^TreeDepth /\ (o * a + q) - 1 = p
      <4>1. o \in Nat /\ o + 1 <= c * a
        <5>1. i * a + a <= c * a /\ i * a \in Nat /\ c * a \in Nat
          <6> HIDE DEF a, c
          <6>. QED
            BY <1>2, <2>1, NextMultiple
        <5> DEFINE x == i * a
                   y == c * a
        <5>2. x \in Nat /\ y \in Nat /\ x + a <= y
          BY <5>1
        <5> HIDE DEF x, y, a
        <5>3. x + j \in Nat /\ (x + j) + 1 <= y
          BY <1>2, <2>1, <5>2
        <5>. QED
          BY <5>3 DEF x, y
      <4>2. (c * a) * a = c * c
        <5> HIDE DEF a, c
        <5>. QED
          BY <1>2
      <4>3. o * a \in Nat /\ o * a + a <= c * c
        <5>1. o < c * a /\ c * a \in Nat
          <6> HIDE DEF a, c, o
          <6>1. c * a \in Nat
            BY <1>2
          <6>. QED
            BY <4>1, <6>1
        <5> DEFINE y == c * a
        <5> HIDE DEF o, y, a, c
        <5>2. o * a + a <= y * a
          BY <1>2, <4>1, <5>1, NextMultiple DEF y
        <5>3. o * a \in Nat
          BY <1>2, <4>1
        <5>. QED
          BY <4>2, <5>2, <5>3 DEF y
      <4> DEFINE x == o * a
                 y == c * c
      <4>4. x \in Nat /\ x + a <= y /\ y = 2^TreeDepth
        BY <1>2, <4>3
      <4>5. y \in Nat
        <5> HIDE DEF c
        <5>. QED
          BY <1>2
      <4> HIDE DEF x, y, a
      <4>6. x + q \in 1..y /\ (x + q) - 1 = x + (q - 1)
        BY <1>2, <3>1, <4>4, <4>5
      <4>. QED
        BY <4>4, <4>6 DEF x
    <3>7. ~(ShardHeight = 0 /\ o * a + q <= WindowStartShard)
      <4>1. o * a + q \in Nat /\ o * a + q > 0
        <5>1. 2^TreeDepth \in Nat
          BY HeightType, PowerPositive
        <5>. QED
          BY <3>6, <5>1
      <4>. QED
        BY <4>1, NoWindowBelow
    <3>8. f[0][o * a + q] = LeafOf(b, (o * a + q) - 1)
      BY <1>0, <3>6, <3>7 DEF NodesOf
    <3>. QED
      BY <3>5, <3>6, <3>8
  <2>6. o \in Nat /\ o < 2^(TreeDepth - (0 + SubshardHeight))
    <3>1. TreeDepth - (0 + SubshardHeight) = ShardHeight + SubshardHeight
      BY HeightType
    <3>2. 2^(ShardHeight + SubshardHeight) = c * a
      BY HeightType, PowerSum
    <3>3. i * a + a <= c * a /\ i * a \in Nat /\ c * a \in Nat
      <4> HIDE DEF a, c
      <4>. QED
        BY <1>2, <2>1, NextMultiple
    <3> DEFINE x == i * a
               y == c * a
    <3>4. x \in Nat /\ y \in Nat /\ x + a <= y
      BY <3>3
    <3> HIDE DEF x, y, a
    <3>5. x + j \in Nat /\ x + j < y
      BY <1>2, <2>1, <3>4
    <3>. QED
      BY <3>1, <3>2, <3>5 DEF x, y, a
  <2>7. /\ 0 + SubshardHeight = SubshardHeight /\ SubshardHeight <= TreeDepth
        /\ 0 >= ShardHeight \/ 0 + SubshardHeight < ShardHeight
    BY HeightType
  <2>8. f[0 + SubshardHeight][o + 1] = RootAbove(r, 0, SubshardHeight)
    <3> HIDE DEF o
    <3>1. \A q \in 1..2^SubshardHeight : f[0][o * 2^SubshardHeight + q] = r[q]
      BY <2>5
    <3> DEFINE base == 0
    <3>2. /\ SubshardHeight \in Nat /\ base \in Nat /\ base + SubshardHeight <= TreeDepth
          /\ \/ base >= ShardHeight
             \/ base + SubshardHeight < ShardHeight
             \/ base + SubshardHeight = ShardHeight /\ o >= WindowStartShard
          /\ o \in Nat /\ o < 2^(TreeDepth - (base + SubshardHeight))
      BY <2>6, <2>7, HeightType
    <3>3. /\ NodesOf(f, b) /\ FullNodes(r, SubshardHeight)
          /\ \A q \in 1..2^SubshardHeight : f[base][o * 2^SubshardHeight + q] = r[q]
      BY <1>0, <2>4, <3>1
    <3> HIDE DEF base
    <3>4. f[base + SubshardHeight][o + 1] = RootAbove(r, base, SubshardHeight)
      BY <3>2, <3>3, TierOfTree
    <3>. QED
      BY <3>4 DEF base
  <2>. QED
    BY <2>3, <2>7, <2>8 DEF WireSubshardRoot
<1>7. ASSUME NEW i \in WindowStartShard..(l - 1)
      PROVE  f[ShardHeight][i + 1] = WireCap(b)[i + 1]
  <2> DEFINE k == i - WindowStartShard
             s == [q \in 1..SubshardsPerShard |-> WireSubshardRoot(b.cap[i + 1][q - 1])]
  <2>1. /\ i \in Nat /\ i + 1 \in 1..l /\ i + 1 > WindowStartShard /\ i < c /\ i >= WindowStartShard
        /\ k \in 0..(window - 1) /\ WindowStartShard + k + 1 = i + 1
    <3> HIDE DEF c
    <3>. QED
      BY <1>1, <1>2 DEF l
  <2>2. WireCap(b)[i + 1] = RootAbove(s, SubshardHeight, SubshardHeight)
    <3>1. i + 1 \in DOMAIN b.cap
      BY <1>1, <2>1 DEF l
    <3>2. WireCap(b)[i + 1] = WireShardRoot(b.cap[i + 1])
      <4> DEFINE x == i + 1
      <4>1. x \in DOMAIN b.cap /\ x > WindowStartShard /\ ~(x <= WindowStartShard)
        BY <2>1, <3>1, TreeAssumption
      <4> HIDE DEF x
      <4>2. WireCap(b)[x] = WireShardRoot(b.cap[x])
        BY <4>1 DEF WireCap
      <4>. QED
        BY <4>2 DEF x
    <3>. QED
      BY <3>2 DEF WireShardRoot
  <2>3. FullNodes(s, SubshardHeight)
    BY <1>2 DEF FullNodes
  <2>4. ASSUME NEW q \in 1..a
        PROVE  f[SubshardHeight][i * a + q] = s[q]
    <3>1. q - 1 \in 0..(a - 1) /\ q - 1 \in 0..(SubshardsPerShard - 1)
          /\ (q - 1) + 1 = q /\ q \in Nat
      BY <1>2
    <3>2. (i * a + (q - 1)) + 1 = i * a + q
      <4>1. i * a \in Nat
        <5> HIDE DEF a
        <5>. QED
          BY <1>2, <2>1
      <4> DEFINE x == i * a
      <4> HIDE DEF x
      <4>2. (x + (q - 1)) + 1 = x + q
        BY <3>1, <4>1 DEF x
      <4>. QED
        BY <4>2 DEF x
    <3>3. b.cap[i + 1][q - 1] = b.roots[k * SubshardsPerShard + (q - 1)]
      <4>1. b.cap[WindowStartShard + k + 1]
              = [ss \in 0..(SubshardsPerShard - 1) |-> b.roots[k * SubshardsPerShard + ss]]
        BY <1>1, <2>1
      <4> HIDE DEF k
      <4>. QED
        BY <2>1, <3>1, <4>1
    <3>4. s[q] = WireSubshardRoot(b.cap[i + 1][q - 1])
      BY <1>2
    <3>5. f[SubshardHeight][(i * a + (q - 1)) + 1]
            = WireSubshardRoot(b.roots[k * SubshardsPerShard + (q - 1)])
      BY <1>6, <3>1
    <3>. QED
      BY <3>2, <3>3, <3>4, <3>5
  <2>5. TreeDepth - (SubshardHeight + SubshardHeight) = ShardHeight
        /\ SubshardHeight + SubshardHeight = ShardHeight
        /\ SubshardHeight + SubshardHeight <= TreeDepth
    BY HeightType
  <2>6. i < 2^(TreeDepth - (SubshardHeight + SubshardHeight))
    BY <2>1, <2>5
  <2>7. f[SubshardHeight + SubshardHeight][i + 1] = RootAbove(s, SubshardHeight, SubshardHeight)
    <3> HIDE DEF s
    <3>1. \A q \in 1..2^SubshardHeight : f[SubshardHeight][i * 2^SubshardHeight + q] = s[q]
      BY <2>4
    <3>. QED
      BY <1>0, <2>1, <2>3, <2>5, <2>6, <3>1, TierOfTree, HeightType
  <2>. QED
    BY <2>2, <2>5, <2>7
<1>8. ASSUME NEW x \in 1..c, x > l
      PROVE  f[ShardHeight][x] = EmptyRoot[ShardHeight]
  <2>1. ASSUME NEW i \in 1..2^TreeDepth, i > l * c
        PROVE  LeafOf(b, i - 1) = EmptyLeaf
    <3>1. i - 1 \in Nat /\ i - 1 >= l * c /\ l * c \in Nat
      <4>1. 2^TreeDepth \in Nat
        BY HeightType, PowerPositive
      <4>2. l * c \in Nat
        <5> HIDE DEF c
        <5>. QED
          BY <1>2
      <4>. QED
        BY <2>1, <4>1, <4>2
    <3>2. ShardIndex(i - 1) = (i - 1) \div c
      BY <1>2 DEF ShardIndex
    <3>3. ~((i - 1) \div c < l)
      <4> DEFINE y == i - 1
                 q == y \div c
      <4>1. y \in Nat /\ q \in Nat /\ y < (q + 1) * c /\ y >= l * c
        <5>1. y \in Nat /\ c \in Nat \ {0} /\ y >= l * c
          BY <1>2, <3>1
        <5> HIDE DEF y, c
        <5>. QED
          BY <5>1, Division
      <4>2. SUFFICES ASSUME q < l
                     PROVE  FALSE
        OBVIOUS
      <4> HIDE DEF y, q, c
      <4>3. q * c + c <= l * c /\ (q + 1) * c = q * c + c
        BY <1>2, <4>1, <4>2, NextMultiple
      <4> DEFINE z == q * c
                 w == l * c
      <4>4. z \in Nat /\ w \in Nat
        BY <1>2, <4>1
      <4>5. y < z + c /\ y >= w /\ z + c <= w
        BY <4>1, <4>3
      <4> HIDE DEF z, w
      <4>. QED
        BY <1>2, <4>1, <4>4, <4>5
    <3>4. ~InWindow(b, i - 1)
      <4> DEFINE y == i - 1
      <4>1. ~(ShardIndex(y) < WindowStartShard + window)
        BY <3>2, <3>3 DEF l
      <4> HIDE DEF y
      <4>2. ~InWindow(b, y)
        BY <1>3, <4>1 DEF InWindow
      <4>. QED
        BY <4>2 DEF y
    <3>. QED
      BY <3>4 DEF LeafOf
  <2>. QED
    BY <1>0, <1>2, <1>8, <2>1, NothingAbove
<1>9. ASSUME NEW x \in 1..c
      PROVE  f[ShardHeight][x] = PaddedCap(b)[x]
  <2>1. x \in Nat /\ x >= 1 /\ x <= c
    BY <1>2
  <2>2. CASE x <= WindowStartShard
    <3>1. ShardHeight \in 0..TreeDepth /\ TreeDepth - ShardHeight = ShardHeight
      BY HeightType
    <3>2. f[ShardHeight][x] = WireCap(b)[x]
      BY <1>0, <2>2, <3>1 DEF NodesOf
    <3>3. x <= l
      BY <1>2, <2>1, <2>2
    <3>. QED
      BY <1>5, <3>2, <3>3
  <2>3. CASE x > WindowStartShard /\ x <= l
    <3>1. x - 1 \in WindowStartShard..(l - 1) /\ (x - 1) + 1 = x
      BY <1>2, <2>1, <2>3
    <3>2. f[ShardHeight][x] = WireCap(b)[x]
      BY <1>7, <3>1
    <3>. QED
      BY <1>5, <2>3, <3>2
  <2>4. CASE x > l
    <3>1. ~(x <= l)
      BY <1>2, <2>1, <2>4
    <3>. QED
      BY <1>5, <1>8, <2>4, <3>1
  <2>. QED
    BY <1>2, <2>1, <2>2, <2>3, <2>4
<1>10. f[ShardHeight + ShardHeight][0 + 1] = RootAbove(PaddedCap(b), ShardHeight, ShardHeight)
  <2>1. /\ TreeDepth - (ShardHeight + ShardHeight) = 0 /\ 2^0 = 1 /\ 0 < 1
        /\ ShardHeight + ShardHeight <= TreeDepth
    BY HeightType
  <2> DEFINE s == PaddedCap(b)
  <2>2. \A q \in 1..2^ShardHeight : f[ShardHeight][0 * 2^ShardHeight + q] = s[q]
    <3>1. \A q \in 1..c : 0 * c + q = q
      <4> HIDE DEF c
      <4>. QED
        BY <1>2
    <3>. QED
      BY <1>9, <3>1
  <2>3. FullNodes(s, ShardHeight)
    BY <1>5
  <2>4. 0 < 2^(TreeDepth - (ShardHeight + ShardHeight)) /\ 0 \in Nat
        /\ ShardHeight \in Nat /\ ShardHeight >= ShardHeight
    BY <2>1, HeightType
  <2> HIDE DEF s
  <2>5. f[ShardHeight + ShardHeight][0 + 1] = RootAbove(s, ShardHeight, ShardHeight)
    BY <1>0, <2>1, <2>2, <2>3, <2>4, TierOfTree
  <2>. QED
    BY <2>5 DEF s
<1>11. ShardHeight + ShardHeight = TreeDepth /\ 0 + 1 = 1
  BY HeightType
<1>. QED
  BY <1>0, <1>5, <1>10, <1>11

(* The indices of a list joined from two, and of one joined from three. *)
LEMMA Joined2 ==
  ASSUME NEW a, NEW b, Len(a) \in Nat, Len(b) \in Nat
  PROVE  /\ Len(a \o b) = Len(a) + Len(b)
         /\ \A n \in 1..(Len(a) + Len(b)) :
              (a \o b)[n] = IF n <= Len(a) THEN a[n] ELSE b[n - Len(a)]
  OBVIOUS

JoinsThree(s, a, b, c) ==
  /\ \A n \in 0..(Len(a) - 1) : s[n + 1] = a[n + 1]
  /\ \A n \in 0..(Len(b) - 1) : s[Len(a) + n + 1] = b[n + 1]
  /\ \A n \in 0..(Len(c) - 1) : s[(Len(a) + Len(b)) + n + 1] = c[n + 1]

LEMMA Joined3 ==
  ASSUME NEW a, NEW b, NEW c, Len(a) \in Nat, Len(b) \in Nat, Len(c) \in Nat
  PROVE  JoinsThree((a \o b) \o c, a, b, c)
<1> DEFINE d == a \o b
           i == Len(a)
           j == Len(b)
           k == Len(c)
           m == Len(d)
           s == d \o c
<1>1. m = i + j /\ \A n \in 1..m : d[n] = IF n <= i THEN a[n] ELSE b[n - i]
  BY Joined2
<1>2. i \in Nat /\ j \in Nat /\ k \in Nat /\ m \in Nat
  BY <1>1
<1> HIDE DEF d
<1>3. \A n \in 1..(m + k) : s[n] = IF n <= m THEN d[n] ELSE c[n - m]
  BY <1>2, Joined2
<1> HIDE DEF s, i, j, k, m
<1>4. ASSUME NEW n \in 0..(i - 1)
      PROVE  s[n + 1] = a[n + 1]
  <2>1. n + 1 \in 1..(m + k) /\ n + 1 <= m /\ n + 1 <= i /\ n + 1 \in 1..m
    BY <1>1, <1>2
  <2>. QED
    BY <1>1, <1>3, <2>1
<1>5. ASSUME NEW n \in 0..(j - 1)
      PROVE  s[i + n + 1] = b[n + 1]
  <2> DEFINE x == i + n + 1
  <2>1. x \in 1..(m + k) /\ x <= m /\ ~(x <= i) /\ x \in 1..m /\ x - i = n + 1
    BY <1>1, <1>2
  <2> HIDE DEF x
  <2>2. s[x] = b[n + 1]
    BY <1>1, <1>3, <2>1
  <2>. QED
    BY <2>2 DEF x
<1>6. ASSUME NEW n \in 0..(k - 1)
      PROVE  s[(i + j) + n + 1] = c[n + 1]
  <2> DEFINE x == (i + j) + n + 1
  <2>1. x \in 1..(m + k) /\ ~(x <= m) /\ x - m = n + 1
    BY <1>1, <1>2
  <2> HIDE DEF x
  <2>2. s[x] = c[n + 1]
    BY <1>3, <2>1
  <2>. QED
    BY <2>2 DEF x
<1>. QED
  BY <1>4, <1>5, <1>6 DEF JoinsThree, s, d, i, j, k

(* The slot of a position in the window. *)
LEMMA WindowSlots ==
  ASSUME NEW b, ViewWhole(b), NEW p \in Position, InWindow(b, p)
  PROVE  LET s == PhysicalRowIndex(p)
         IN  s \in Slot /\ b.roots[s] = b.rows[s] /\ b.rows[s] \in Root
<1>1. PICK window \in Nat :
        /\ \A j \in 0..(window - 1), ss \in 0..(SubshardsPerShard - 1) :
             LET s == j * SubshardsPerShard + ss
             IN  s \in Slot /\ b.roots[s] = b.rows[s] /\ b.rows[s] \in Root
        /\ Len(b.cap) = WindowStartShard + window
  BY DEF ViewWhole
<1>2. ShardIndex(p) \in Nat /\ SubshardIndex(p) \in Nat /\ SubshardIndex(p) < SubshardsPerShard
  BY PositionParts, Sizes
<1>3. WindowStartShard \in Nat /\ SubshardsPerShard \in Nat
  BY TreeAssumption
<1>4. ShardIndex(p) - WindowStartShard \in 0..(window - 1)
  <2>1. WindowCount(b) = window
    BY <1>1, <1>3 DEF WindowCount
  <2>. QED
    BY <1>2, <1>3, <2>1 DEF InWindow
<1>5. SubshardIndex(p) \in 0..(SubshardsPerShard - 1)
  BY <1>2, <1>3
<1>. QED
  BY <1>1, <1>4, <1>5 DEF PhysicalRowIndex

-----------------------------------------------------------------------------
(* The witness                                                             *)

(* Two paths of one position that take the same siblings above a level and *)
(* end in the same root pass through the same node of that level.          *)
LEMMA PathsMeet ==
  ASSUME NEW p, NEW f, NEW leaf1, NEW sib1, OnPath(f, p, leaf1, sib1),
         NEW g, NEW leaf2, NEW sib2, OnPath(g, p, leaf2, sib2),
         NEW m \in 0..TreeDepth,
         \A n \in m..(TreeDepth - 1) : sib1[n + 1] = sib2[n + 1],
         f[TreeDepth] = g[TreeDepth]
  PROVE  f[m] = g[m]
<1> DEFINE S == {d \in Nat : d <= TreeDepth - m => f[TreeDepth - d] = g[TreeDepth - d]}
<1>0. TreeDepth \in Nat /\ m \in Nat /\ TreeDepth - m \in Nat
  BY HeightType
<1>1. 0 \in S
  <2>1. TreeDepth - 0 = TreeDepth
    BY <1>0
  <2>. QED
    BY <2>1
<1>2. ASSUME NEW d \in S
      PROVE  d + 1 \in S
  <2>1. SUFFICES ASSUME d + 1 <= TreeDepth - m
                 PROVE  f[TreeDepth - (d + 1)] = g[TreeDepth - (d + 1)]
    OBVIOUS
  <2> DEFINE n == TreeDepth - (d + 1)
  <2>2. /\ d \in Nat /\ d <= TreeDepth - m /\ n \in m..(TreeDepth - 1)
        /\ n \in 0..(TreeDepth - 1) /\ TreeDepth - d = n + 1
    BY <1>0, <2>1
  <2>3. f[n + 1] = g[n + 1] /\ sib1[n + 1] = sib2[n + 1]
    BY <2>2
  <2> HIDE DEF n
  <2>4. f[n + 1] = IF (p \div 2^n) % 2 = 0 THEN <<n, f[n], sib1[n + 1]>>
                   ELSE <<n, sib1[n + 1], f[n]>>
    BY <2>2 DEF OnPath
  <2>5. g[n + 1] = IF (p \div 2^n) % 2 = 0 THEN <<n, g[n], sib2[n + 1]>>
                   ELSE <<n, sib2[n + 1], g[n]>>
    BY <2>2 DEF OnPath
  <2>6. f[n] = g[n]
    <3>1. CASE (p \div 2^n) % 2 = 0
      <4>1. <<n, f[n], sib1[n + 1]>> = <<n, g[n], sib2[n + 1]>>
        BY <2>3, <2>4, <2>5, <3>1
      <4>. QED
        BY <4>1
    <3>2. CASE (p \div 2^n) % 2 # 0
      <4>1. <<n, sib1[n + 1], f[n]>> = <<n, sib2[n + 1], g[n]>>
        BY <2>3, <2>4, <2>5, <3>2
      <4>. QED
        BY <4>1
    <3>. QED
      BY <3>1, <3>2
  <2>. QED
    BY <2>6 DEF n
<1>3. S \in SUBSET Nat
  OBVIOUS
<1> HIDE DEF S
<1>4. TreeDepth - m \in S
  BY <1>0, <1>1, <1>2, <1>3, NumberInduction
<1>5. f[TreeDepth - (TreeDepth - m)] = g[TreeDepth - (TreeDepth - m)]
  BY <1>0, <1>4 DEF S
<1>6. TreeDepth - (TreeDepth - m) = m
  BY <1>0
<1>. QED
  BY <1>5, <1>6

LEMMA WireRootsFull ==
  ASSUME NEW b, NEW o
  PROVE  FullNodes(WireSubshardRoots(b, o), SubshardHeight)
  BY Sizes DEF WireSubshardRoots, FullNodes

(* The path of a witness: at the top of the row it is the root of the row, *)
(* and if that is what was broadcast for the slot it ends in the root of   *)
(* the padded cap.                                                         *)
LEMMA PathOfWitness ==
  ASSUME NEW b, ViewWhole(b), NEW p \in Position, InWindow(b, p),
         NEW row, FullNodes(row, SubshardHeight)
  PROVE  \E f : /\ OnPath(f, p, row[LeafIndex(p) + 1], Siblings(b, row, p))
                /\ ReconstructWitness(b, row, p).anchorRoot = f[TreeDepth]
                /\ f[SubshardHeight] = RootAbove(row, 0, SubshardHeight)
                /\ f[SubshardHeight] = WireSubshardRoot(b.roots[PhysicalRowIndex(p)])
                     => f[TreeDepth] = RootAbove(PaddedCap(b), ShardHeight, ShardHeight)
<1> DEFINE h == SubshardHeight
           w == WindowStartShard
           sh == ShardIndex(p)
           ss == SubshardIndex(p)
           li == LeafIndex(p)
           T == WireSubshardRoots(b, sh - w)
           e1 == ExtractSiblings(row, li, 0, h)
           e2 == ExtractSiblings(T, ss, h, h)
           e3 == ExtractSiblings(PaddedCap(b), sh, ShardHeight, ShardHeight)
           sib == Siblings(b, row, p)
           leaf == row[li + 1]
<1>1. PICK f : OnPath(f, p, leaf, sib) /\ ComputeRootFromPath(p, leaf, sib) = f[TreeDepth]
  <2> HIDE DEF leaf, sib
  <2>. QED
    BY PathIs
<1>2. ReconstructWitness(b, row, p).anchorRoot = f[TreeDepth]
  <2>1. ReconstructWitness(b, row, p).anchorRoot = ComputeRootFromPath(p, leaf, sib)
    BY DEF ReconstructWitness
  <2>. QED
    BY <1>1, <2>1
<1>3. FullNodes(T, h) /\ FullNodes(PaddedCap(b), ShardHeight)
  BY WireRootsFull, TreeIsCap
<1>4. /\ p \in Nat /\ sh \in Nat /\ sh < 2^ShardHeight /\ ss \in Nat /\ ss < 2^h
      /\ li \in Nat /\ li < 2^h
      /\ h \in Nat /\ ShardHeight \in Nat /\ TreeDepth \in Nat
      /\ ShardHeight = h + h /\ TreeDepth = ShardHeight + ShardHeight
  BY PositionParts, HeightType
<1>5. /\ \A n \in 0..(h - 1) :
           /\ (p \div 2^n) % 2 = (li \div 2^n) % 2
           /\ (p \div 2^(h + n)) % 2 = (ss \div 2^n) % 2
      /\ \A n \in 0..(ShardHeight - 1) : (p \div 2^(ShardHeight + n)) % 2 = (sh \div 2^n) % 2
  BY PositionParts
<1>6. /\ Len(e1) = h /\ DOMAIN e1 = 1..h
      /\ \A n \in 0..(h - 1) : e1[n + 1] = Ancestors(row, 0, n)[Sibling(li \div 2^n) + 1]
  <2> HIDE DEF li
  <2>. QED
    BY <1>4, ExtractedIs
<1>7. /\ Len(e2) = h /\ DOMAIN e2 = 1..h
      /\ \A n \in 0..(h - 1) : e2[n + 1] = Ancestors(T, h, n)[Sibling(ss \div 2^n) + 1]
  <2> HIDE DEF ss, T
  <2>. QED
    BY <1>3, <1>4, ExtractedIs
<1>8. /\ Len(e3) = ShardHeight /\ DOMAIN e3 = 1..ShardHeight
      /\ \A n \in 0..(ShardHeight - 1) :
           e3[n + 1] = Ancestors(PaddedCap(b), ShardHeight, n)[Sibling(sh \div 2^n) + 1]
  <2> DEFINE cap == PaddedCap(b)
  <2>1. FullNodes(cap, ShardHeight)
    BY <1>3
  <2> HIDE DEF sh, cap
  <2>2. /\ Len(ExtractSiblings(cap, sh, ShardHeight, ShardHeight)) = ShardHeight
        /\ DOMAIN ExtractSiblings(cap, sh, ShardHeight, ShardHeight) = 1..ShardHeight
        /\ \A n \in 0..(ShardHeight - 1) :
             ExtractSiblings(cap, sh, ShardHeight, ShardHeight)[n + 1]
               = Ancestors(cap, ShardHeight, n)[Sibling(sh \div 2^n) + 1]
    BY <1>4, <2>1, ExtractedIs
  <2>. QED
    BY <2>2 DEF cap
<1>9. sib = (e1 \o e2) \o e3
  BY DEF Siblings
<1> HIDE DEF sib, e1, e2, e3
<1>10. /\ \A n \in 0..(h - 1) : sib[n + 1] = e1[n + 1]
       /\ \A n \in 0..(h - 1) : sib[h + n + 1] = e2[n + 1]
       /\ \A n \in 0..(ShardHeight - 1) : sib[ShardHeight + n + 1] = e3[n + 1]
  <2>0. Len(e1) \in Nat /\ Len(e2) \in Nat /\ Len(e3) \in Nat
    BY <1>4, <1>6, <1>7, <1>8
  <2>1. /\ \A n \in 0..(Len(e1) - 1) : ((e1 \o e2) \o e3)[n + 1] = e1[n + 1]
        /\ \A n \in 0..(Len(e2) - 1) : ((e1 \o e2) \o e3)[Len(e1) + n + 1] = e2[n + 1]
        /\ \A n \in 0..(Len(e3) - 1) :
             ((e1 \o e2) \o e3)[(Len(e1) + Len(e2)) + n + 1] = e3[n + 1]
    <3>1. JoinsThree((e1 \o e2) \o e3, e1, e2, e3)
      BY <2>0, Joined3
    <3>. QED
      BY <3>1 DEF JoinsThree
  <2>. QED
    <3>1. Len(e1) = h /\ Len(e2) = h /\ Len(e3) = ShardHeight /\ h + h = ShardHeight
      BY <1>4, <1>6, <1>7, <1>8
    <3>. QED
      BY <1>9, <2>1, <3>1
<1>11. f[h] = RootAbove(row, 0, h)
  <2>1. f[0] = row[li + 1]
    BY <1>1 DEF OnPath
  <2>2. \A n \in 0..(h - 1) :
          /\ (p \div 2^(0 + n)) % 2 = (li \div 2^n) % 2
          /\ sib[0 + n + 1] = Ancestors(row, 0, n)[Sibling(li \div 2^n) + 1]
    <3> TAKE n \in 0..(h - 1)
    <3>1. 0 + n = n /\ 0 + n + 1 = n + 1
      BY <1>4
    <3>. QED
      BY <1>5, <1>6, <1>10, <3>1
  <2>3. 0 + h <= TreeDepth /\ 0 + h = h
    BY <1>4
  <2>4. PathEnters(f, p, sib, row, li, 0, h)
    <3> HIDE DEF li
    <3>. QED
      BY <2>1, <2>2, <2>3 DEF PathEnters
  <2> HIDE DEF li, leaf
  <2>5. f[0 + h] = RootAbove(row, 0, h)
    <3>1. /\ OnPath(f, p, leaf, sib) /\ FullNodes(row, h) /\ p \in Nat
          /\ h \in Nat /\ li \in Nat /\ li < 2^h /\ 0 \in Nat
      BY <1>1, <1>4
    <3>. QED
      BY <2>4, <3>1, PathThrough
  <2>. QED
    BY <2>3, <2>5
<1>12. PICK window \in Nat :
         /\ Len(b.cap) = WindowStartShard + window /\ DOMAIN b.cap = 1..(WindowStartShard + window)
         /\ \A j \in 0..(window - 1) :
              b.cap[WindowStartShard + j + 1]
                = [i \in 0..(SubshardsPerShard - 1) |-> b.roots[j * SubshardsPerShard + i]]
  BY DEF ViewWhole
<1>13. /\ w \in Nat /\ sh >= w /\ sh < w + window /\ sh - w \in 0..(window - 1)
       /\ sh + 1 \in 1..(w + window) /\ w + (sh - w) + 1 = sh + 1
  <2>1. w \in Nat /\ Len(b.cap) = w + window
    BY <1>12, TreeAssumption
  <2>2. WindowCount(b) = window
    BY <2>1 DEF WindowCount
  <2>3. sh >= w /\ sh < w + window
    BY <2>2 DEF InWindow
  <2> HIDE DEF sh, w
  <2>. QED
    BY <1>4, <2>1, <2>3
<1>14. ASSUME f[h] = WireSubshardRoot(b.roots[PhysicalRowIndex(p)])
       PROVE  f[TreeDepth] = RootAbove(PaddedCap(b), ShardHeight, ShardHeight)
  <2>1. f[h] = T[ss + 1]
    <3>1. ss + 1 \in 1..SubshardsPerShard /\ (ss + 1) - 1 = ss
      <4>1. SubshardsPerShard = 2^h /\ 2^h \in Nat
        BY Sizes
      <4> HIDE DEF ss
      <4>. QED
        BY <1>4, <4>1
    <3>2. T[ss + 1] = WireSubshardRoot(b.roots[(sh - w) * SubshardsPerShard + (ss + 1) - 1])
      <4> HIDE DEF ss
      <4>. QED
        BY <3>1 DEF WireSubshardRoots
    <3>3. (sh - w) * SubshardsPerShard + (ss + 1) - 1 = (sh - w) * SubshardsPerShard + ss
      <4>1. SubshardsPerShard \in Nat /\ sh - w \in Nat
        BY <1>13, TreeAssumption
      <4> DEFINE x == (sh - w) * SubshardsPerShard
      <4>2. x \in Nat
        <5> DEFINE y == sh - w
        <5> HIDE DEF y
        <5>. QED
          BY <4>1 DEF y
      <4> HIDE DEF x, ss
      <4>3. x + (ss + 1) - 1 = x + ss
        BY <1>4, <4>2
      <4>. QED
        BY <4>3 DEF x
    <3>. QED
      BY <1>14, <3>2, <3>3 DEF PhysicalRowIndex
  <2>2. \A n \in 0..(h - 1) :
          /\ (p \div 2^(h + n)) % 2 = (ss \div 2^n) % 2
          /\ sib[h + n + 1] = Ancestors(T, h, n)[Sibling(ss \div 2^n) + 1]
    BY <1>5, <1>7, <1>10
  <2>3. h + h <= TreeDepth
    BY <1>4
  <2>4. f[h + h] = RootAbove(T, h, h)
    <3> HIDE DEF ss, T, leaf
    <3>1. PathEnters(f, p, sib, T, ss, h, h)
      BY <2>1, <2>2, <2>3 DEF PathEnters
    <3>2. /\ OnPath(f, p, leaf, sib) /\ FullNodes(T, h) /\ p \in Nat
          /\ h \in Nat /\ ss \in Nat /\ ss < 2^h
      BY <1>1, <1>3, <1>4
    <3>. QED
      BY <3>1, <3>2, PathThrough
  <2>5. PaddedCap(b)[sh + 1] = RootAbove(T, h, h)
    <3> DEFINE x == sh + 1
               s == [i \in 1..SubshardsPerShard |-> WireSubshardRoot(b.cap[x][i - 1])]
    <3>1. x \in DOMAIN b.cap /\ x > w /\ ~(x <= w) /\ x <= Len(b.cap)
      <4> HIDE DEF sh
      <4>. QED
        BY <1>4, <1>12, <1>13
    <3>2. x \in 1..CapSlots
      <4>1. CapSlots = 2^ShardHeight /\ 2^ShardHeight \in Nat
        BY Sizes
      <4> HIDE DEF sh
      <4>. QED
        BY <1>4, <4>1
    <3>3. PaddedCap(b)[x] = RootAbove(s, h, h)
      <4>1. WireCap(b)[x] = WireShardRoot(b.cap[x])
        <5> HIDE DEF x
        <5>. QED
          BY <3>1 DEF WireCap
      <4>2. PaddedCap(b)[x] = WireCap(b)[x]
        <5> HIDE DEF x
        <5>. QED
          BY <3>1, <3>2 DEF PaddedCap
      <4>. QED
        BY <4>1, <4>2 DEF WireShardRoot
    <3>4. ASSUME NEW i \in 1..SubshardsPerShard
          PROVE  b.cap[x][i - 1] = b.roots[(sh - w) * SubshardsPerShard + i - 1]
      <4>1. i - 1 \in 0..(SubshardsPerShard - 1)
        BY TreeAssumption
      <4>2. b.cap[x][i - 1] = b.roots[(sh - w) * SubshardsPerShard + (i - 1)]
        <5>1. b.cap[w + (sh - w) + 1]
                = [j \in 0..(SubshardsPerShard - 1) |->
                     b.roots[(sh - w) * SubshardsPerShard + j]]
          BY <1>12, <1>13
        <5> HIDE DEF sh
        <5>. QED
          BY <1>13, <4>1, <5>1
      <4>3. (sh - w) * SubshardsPerShard + (i - 1) = (sh - w) * SubshardsPerShard + i - 1
        <5>1. SubshardsPerShard \in Nat /\ sh - w \in Nat /\ i \in Nat
          BY <1>13, TreeAssumption
        <5> DEFINE y == sh - w
                   z == y * SubshardsPerShard
        <5>2. z \in Nat
          <6> HIDE DEF y
          <6>. QED
            BY <5>1 DEF y
        <5> HIDE DEF z
        <5>3. z + (i - 1) = z + i - 1
          BY <5>1, <5>2
        <5>. QED
          BY <5>3 DEF z
      <4>. QED
        BY <4>2, <4>3
    <3>5. s = T
      <4> HIDE DEF x
      <4>. QED
        BY <3>4 DEF WireSubshardRoots
    <3>. QED
      BY <3>3, <3>5
  <2>6. f[ShardHeight] = PaddedCap(b)[sh + 1]
    BY <1>4, <2>4, <2>5
  <2>7. \A n \in 0..(ShardHeight - 1) :
          /\ (p \div 2^(ShardHeight + n)) % 2 = (sh \div 2^n) % 2
          /\ sib[ShardHeight + n + 1]
               = Ancestors(PaddedCap(b), ShardHeight, n)[Sibling(sh \div 2^n) + 1]
    BY <1>5, <1>8, <1>10
  <2> DEFINE cap == PaddedCap(b)
  <2>8. /\ FullNodes(cap, ShardHeight) /\ f[ShardHeight] = cap[sh + 1]
        /\ ShardHeight + ShardHeight <= TreeDepth
        /\ \A n \in 0..(ShardHeight - 1) :
             /\ (p \div 2^(ShardHeight + n)) % 2 = (sh \div 2^n) % 2
             /\ sib[ShardHeight + n + 1]
                  = Ancestors(cap, ShardHeight, n)[Sibling(sh \div 2^n) + 1]
    BY <1>3, <1>4, <2>6, <2>7
  <2> HIDE DEF cap, sh, leaf
  <2>9. f[ShardHeight + ShardHeight] = RootAbove(cap, ShardHeight, ShardHeight)
    <3>1. PathEnters(f, p, sib, cap, sh, ShardHeight, ShardHeight)
      BY <2>8 DEF PathEnters
    <3>2. /\ OnPath(f, p, leaf, sib) /\ FullNodes(cap, ShardHeight) /\ p \in Nat
          /\ ShardHeight \in Nat /\ sh \in Nat /\ sh < 2^ShardHeight
      BY <1>1, <1>4, <2>8
    <3>. QED
      BY <3>1, <3>2, PathThrough
  <2>. QED
    BY <1>4, <2>9 DEF cap
<1>. QED
  BY <1>1, <1>2, <1>11, <1>14 DEF sib

(* Witnesses of one position and broadcast with different rows take the    *)
(* same siblings above the row.                                            *)
LEMMA SameSiblings ==
  ASSUME NEW b, ViewWhole(b), NEW p \in Position, InWindow(b, p),
         NEW r, FullNodes(r, SubshardHeight), NEW t, FullNodes(t, SubshardHeight)
  PROVE  \A n \in SubshardHeight..(TreeDepth - 1) :
           Siblings(b, r, p)[n + 1] = Siblings(b, t, p)[n + 1]
<1> DEFINE h == SubshardHeight
           e1 == ExtractSiblings(r, LeafIndex(p), 0, h)
           d1 == ExtractSiblings(t, LeafIndex(p), 0, h)
           e2 == ExtractSiblings(WireSubshardRoots(b, ShardIndex(p) - WindowStartShard),
                                 SubshardIndex(p), h, h)
           e3 == ExtractSiblings(PaddedCap(b), ShardIndex(p), ShardHeight, ShardHeight)
<1>1. Siblings(b, r, p) = (e1 \o e2) \o e3 /\ Siblings(b, t, p) = (d1 \o e2) \o e3
  BY DEF Siblings
<1>2. /\ Len(e1) = h /\ DOMAIN e1 = 1..h /\ Len(d1) = h /\ DOMAIN d1 = 1..h
  BY ExtractedIs, PositionParts, HeightType
<1>3. Len(e2) = h /\ DOMAIN e2 = 1..h
  <2>1. FullNodes(WireSubshardRoots(b, ShardIndex(p) - WindowStartShard), h)
    BY WireRootsFull
  <2>. QED
    BY <2>1, ExtractedIs, PositionParts, HeightType
<1>4. Len(e3) = ShardHeight /\ DOMAIN e3 = 1..ShardHeight
  <2>1. FullNodes(PaddedCap(b), ShardHeight)
    BY TreeIsCap
  <2>. QED
    BY <2>1, ExtractedIs, PositionParts, HeightType
<1> HIDE DEF e1, d1, e2, e3
<1>5. /\ h \in Nat /\ ShardHeight \in Nat /\ TreeDepth \in Nat
      /\ ShardHeight = h + h /\ TreeDepth = ShardHeight + ShardHeight
  BY HeightType
<1>6. /\ \A n \in 0..(h - 1) : Siblings(b, r, p)[h + n + 1] = e2[n + 1]
                               /\ Siblings(b, t, p)[h + n + 1] = e2[n + 1]
      /\ \A n \in 0..(ShardHeight - 1) : Siblings(b, r, p)[ShardHeight + n + 1] = e3[n + 1]
                                         /\ Siblings(b, t, p)[ShardHeight + n + 1] = e3[n + 1]
  <2>0. Len(e1) \in Nat /\ Len(d1) \in Nat /\ Len(e2) \in Nat /\ Len(e3) \in Nat
    BY <1>2, <1>3, <1>4, <1>5
  <2>1. /\ \A n \in 0..(Len(e2) - 1) : ((e1 \o e2) \o e3)[Len(e1) + n + 1] = e2[n + 1]
        /\ \A n \in 0..(Len(e3) - 1) :
             ((e1 \o e2) \o e3)[(Len(e1) + Len(e2)) + n + 1] = e3[n + 1]
    <3>1. JoinsThree((e1 \o e2) \o e3, e1, e2, e3)
      BY <2>0, Joined3
    <3>. QED
      BY <3>1 DEF JoinsThree
  <2>2. /\ \A n \in 0..(Len(e2) - 1) : ((d1 \o e2) \o e3)[Len(d1) + n + 1] = e2[n + 1]
        /\ \A n \in 0..(Len(e3) - 1) :
             ((d1 \o e2) \o e3)[(Len(d1) + Len(e2)) + n + 1] = e3[n + 1]
    <3>1. JoinsThree((d1 \o e2) \o e3, d1, e2, e3)
      BY <2>0, Joined3
    <3>. QED
      BY <3>1 DEF JoinsThree
  <2>3. Len(e1) = h /\ Len(d1) = h /\ Len(e2) = h /\ Len(e3) = ShardHeight
    BY <1>2, <1>3, <1>4
  <2>4. /\ \A n \in 0..(h - 1) : ((e1 \o e2) \o e3)[h + n + 1] = e2[n + 1]
        /\ \A n \in 0..(ShardHeight - 1) :
             ((e1 \o e2) \o e3)[ShardHeight + n + 1] = e3[n + 1]
    BY <1>5, <2>1, <2>3
  <2>5. /\ \A n \in 0..(h - 1) : ((d1 \o e2) \o e3)[h + n + 1] = e2[n + 1]
        /\ \A n \in 0..(ShardHeight - 1) :
             ((d1 \o e2) \o e3)[ShardHeight + n + 1] = e3[n + 1]
    BY <1>5, <2>2, <2>3
  <2> DEFINE x == (e1 \o e2) \o e3
             y == (d1 \o e2) \o e3
  <2>6. Siblings(b, r, p) = x /\ Siblings(b, t, p) = y
    BY <1>1
  <2>7. /\ \A n \in 0..(h - 1) : x[h + n + 1] = e2[n + 1] /\ y[h + n + 1] = e2[n + 1]
        /\ \A n \in 0..(ShardHeight - 1) :
             x[ShardHeight + n + 1] = e3[n + 1] /\ y[ShardHeight + n + 1] = e3[n + 1]
    BY <2>4, <2>5
  <2> HIDE DEF x, y
  <2>. QED
    BY <2>6, <2>7
<1>7. ASSUME NEW n \in h..(TreeDepth - 1)
      PROVE  Siblings(b, r, p)[n + 1] = Siblings(b, t, p)[n + 1]
  <2>1. CASE n < ShardHeight
    <3>1. n - h \in 0..(h - 1) /\ h + (n - h) + 1 = n + 1
      BY <1>5, <2>1
    <3>2. Siblings(b, r, p)[h + (n - h) + 1] = Siblings(b, t, p)[h + (n - h) + 1]
      BY <1>6, <3>1
    <3>. QED
      BY <3>1, <3>2
  <2>2. CASE n >= ShardHeight
    <3>1. n - ShardHeight \in 0..(ShardHeight - 1) /\ ShardHeight + (n - ShardHeight) + 1 = n + 1
      BY <1>5, <2>2
    <3>2. Siblings(b, r, p)[ShardHeight + (n - ShardHeight) + 1]
            = Siblings(b, t, p)[ShardHeight + (n - ShardHeight) + 1]
      BY <1>6, <3>1
    <3>. QED
      BY <3>1, <3>2
  <2>. QED
    BY <1>5, <2>1, <2>2
<1>. QED
  BY <1>7

(* A witness from a broadcast and a row of any other publication ends in   *)
(* the root of the broadcast tree exactly if the row is still the one      *)
(* published with the broadcast.                                           *)
LEMMA RootTells ==
  ASSUME NEW b, ViewWhole(b), NEW v, ViewWhole(v), NEW p \in Position, InWindow(b, p)
  PROVE  GetWitness(b, v, p).anchorRoot = TreeRoot(b)
           <=> v.rows[PhysicalRowIndex(p)] = b.rows[PhysicalRowIndex(p)]
<1> DEFINE h == SubshardHeight
           s == PhysicalRowIndex(p)
           r == RowLeaves(v.rows[s])
           t == RowLeaves(b.rows[s])
<1>1. s \in Slot /\ b.roots[s] = b.rows[s] /\ b.rows[s] \in Root
  BY WindowSlots
<1>2. v.rows[s] \in Root \cup {ZeroRow}
  BY <1>1 DEF ViewWhole
<1> HIDE DEF s
<1>3. FullNodes(r, h) /\ FullNodes(t, h) /\ t = b.rows[s]
      /\ (r = t => v.rows[s] = b.rows[s])
  BY <1>1, <1>2, RowsRead
<1> HIDE DEF r, t
<1>4. PICK f : /\ OnPath(f, p, r[LeafIndex(p) + 1], Siblings(b, r, p))
               /\ ReconstructWitness(b, r, p).anchorRoot = f[TreeDepth]
               /\ f[h] = RootAbove(r, 0, h)
  BY <1>3, PathOfWitness
<1>5. PICK g : /\ OnPath(g, p, t[LeafIndex(p) + 1], Siblings(b, t, p))
               /\ g[h] = RootAbove(t, 0, h)
               /\ g[h] = WireSubshardRoot(b.roots[s])
                    => g[TreeDepth] = RootAbove(PaddedCap(b), ShardHeight, ShardHeight)
               /\ ReconstructWitness(b, t, p).anchorRoot = g[TreeDepth]
  BY <1>3, PathOfWitness DEF s
<1>6. g[TreeDepth] = TreeRoot(b)
  <2>1. g[h] = WireSubshardRoot(b.roots[s])
    BY <1>1, <1>3, <1>5 DEF WireSubshardRoot
  <2>. QED
    BY <1>5, <2>1, TreeIsCap
<1>7. GetWitness(b, v, p).anchorRoot = f[TreeDepth]
  BY <1>4 DEF GetWitness, r, s
<1>8. ASSUME v.rows[s] = b.rows[s]
      PROVE  GetWitness(b, v, p).anchorRoot = TreeRoot(b)
  <2>1. r = t
    BY <1>8 DEF r, t
  <2>. QED
    BY <1>4, <1>5, <1>6, <1>7, <2>1
<1>9. ASSUME f[TreeDepth] = g[TreeDepth]
      PROVE  v.rows[s] = b.rows[s]
  <2>1. h \in 0..TreeDepth /\ h \in Nat /\ 0 \in Nat
    BY HeightType
  <2>2. \A n \in h..(TreeDepth - 1) : Siblings(b, r, p)[n + 1] = Siblings(b, t, p)[n + 1]
    BY <1>3, SameSiblings
  <2>3. f[h] = g[h]
    BY <1>4, <1>5, <1>9, <2>1, <2>2, PathsMeet
  <2>4. RootAbove(r, 0, h) = RootAbove(t, 0, h)
    BY <1>4, <1>5, <2>3
  <2>5. r = t
    BY <1>3, <2>1, <2>4, RootsDiffer
  <2>. QED
    BY <1>3, <2>5
<1>. QED
  BY <1>6, <1>7, <1>8, <1>9 DEF s

(* For every geometry, every broadcast the client may hold and every row   *)
(* it may be served, the anchor root of the witness is that of the         *)
(* broadcast tree if the row is the one published with the broadcast, and  *)
(* another if it is not (get_witness, reconstruct_witness).                *)
THEOREM AnchorRootCorrect == ClientSpec => []AnchorRootTellsMixedViews
<1>1. ViewsWhole => AnchorRootTellsMixedViews
  BY RootTells DEF ViewsWhole, AnchorRootTellsMixedViews
<1>2. ClientSpec => []ViewsWhole
  BY ClientInitWhole, ClientStepWhole, ClientChangesNothing, Invariance, PTL DEF ClientSpec
<1>. QED
  BY <1>1, <1>2, PTL
=============================================================================
