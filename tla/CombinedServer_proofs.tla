------------------------ MODULE CombinedServer_proofs ------------------------
(***************************************************************************)
(* Proofs about the combined server, for every build, every tree of blocks *)
(* and any number of crashes, failed calls, refused insertions and changes *)
(* of branch: what its one loop does with the table and the tracker, which *)
(* hold the same recent chain.                                             *)
(*                                                                         *)
(* The inductive invariant has a part for the sync of the table (NfBase),  *)
(* one for the shape of what the tree's sync handles (WitTypes), one for   *)
(* the loop's own data (LoopTypes), one for what each stage of run has     *)
(* reached (ModesInv) and one for table and tracker (TrackerInv).          *)
(***************************************************************************)
EXTENDS CombinedServer, Lightwalletd_proofs, SequenceTheorems
-----------------------------------------------------------------------------
(* The size of a table *)

PickOf(s) == CHOOSE x \in s : TRUE
Sums(f, t) ==
  f = [s \in SUBSET t |-> IF s = {} THEN 0 ELSE Weight[PickOf(s)] + f[s \ {PickOf(s)}]]

LEMMA SizeIter == ASSUME NEW t PROVE Nf!Size(t) = (CHOOSE f : Sums(f, t))[t]
  BY DEF Nf!Size, Nf!MapThenSumSet, Nf!MapThenFoldSet, Sums, PickOf

LEMMA SumsExist ==
  ASSUME NEW t, t \subseteq Block, IsFiniteSet(t)
  PROVE  \E f : Sums(f, t)
<1> DEFINE Small(n) == {s \in SUBSET t : Cardinality(s) <= n}
           Upto(f, n) == f = [s \in Small(n) |->
                                IF s = {} THEN 0 ELSE Weight[PickOf(s)] + f[s \ {PickOf(s)}]]
           Bad == {n \in Nat : ~ \E f : Upto(f, n)}
<1>0. \A s \in SUBSET t : IsFiniteSet(s) /\ Cardinality(s) \in Nat
  BY FS_Subset, FS_CardinalityType
<1>1. \E f : Upto(f, 0)
  <2>1. \A s \in Small(0) : s = {}
    BY <1>0, FS_EmptySet
  <2>2. Upto([s \in Small(0) |-> 0], 0)
    BY <2>1
  <2>. QED
    BY <2>2
<1>2. ASSUME NEW n \in Nat, n # 0, \E f : Upto(f, n - 1)
      PROVE  \E f : Upto(f, n)
  <2>1. PICK f : Upto(f, n - 1)
    BY <1>2
  <2> DEFINE g == [s \in Small(n) |->
                     IF s = {} THEN 0 ELSE Weight[PickOf(s)] + f[s \ {PickOf(s)}]]
  <2>2. ASSUME NEW s \in Small(n), s # {}
        PROVE  g[s] = Weight[PickOf(s)] + g[s \ {PickOf(s)}]
    <3> DEFINE r == s \ {PickOf(s)}
    <3>1. PickOf(s) \in s
      BY <2>2 DEF PickOf
    <3>2. Cardinality(r) = Cardinality(s) - 1 /\ r \in SUBSET t
      BY <3>1, <1>0, FS_RemoveElement
    <3>3. r \in Small(n - 1) /\ r \in Small(n)
      BY <3>2, <1>0, <1>2
    <3>4. f[r] = g[r]
      BY <3>3, <2>1
    <3>. QED
      BY <3>4, <2>2
  <2>3. Upto(g, n)
    BY <2>2
  <2>. QED
    BY <2>3
<1>3. Bad = {}
  <2>1. SUFFICES ASSUME Bad # {} PROVE FALSE
    OBVIOUS
  <2>2. Bad \in SUBSET Nat
    OBVIOUS
  <2>3. \E n \in Bad : \A m \in Bad : n <= m
    <3> HIDE DEF Bad
    <3>. QED
      BY <2>1, <2>2, LeastNat
  <2>4. PICK n \in Bad : \A m \in Bad : n <= m
    BY <2>3
  <2>5. n \in Nat /\ n # 0
    BY <1>1
  <2>6. n - 1 \notin Bad /\ n - 1 \in Nat
    <3>1. n - 1 \in Nat /\ ~(n <= n - 1)
      BY <2>5
    <3> HIDE DEF Bad
    <3>. QED
      BY <3>1, <2>4
  <2>7. \E f : Upto(f, n - 1)
    BY <2>6
  <2>. QED
    BY <2>5, <2>7, <1>2
<1>4. Small(Cardinality(t)) = SUBSET t
  <2>1. \A s \in SUBSET t : Cardinality(s) <= Cardinality(t)
    BY FS_Subset
  <2>. QED
    BY <2>1
<1>5. Cardinality(t) \in Nat
  BY FS_CardinalityType
<1>6. PICK f : Upto(f, Cardinality(t))
  BY <1>3, <1>5
<1>. QED
  BY <1>4, <1>6 DEF Sums

LEMMA SizeType ==
  ASSUME NEW t, t \subseteq Block, IsFiniteSet(t)
  PROVE  Nf!Size(t) \in Nat
<1> DEFINE f == CHOOSE g : Sums(g, t)
           Bad == {n \in Nat : \E s \in SUBSET t : Cardinality(s) = n /\ f[s] \notin Nat}
<1>0. \A s \in SUBSET t : IsFiniteSet(s) /\ Cardinality(s) \in Nat
  BY FS_Subset, FS_CardinalityType
<1>1. Sums(f, t)
  BY SumsExist
<1> HIDE DEF f
<1>2. Bad = {}
  <2>1. SUFFICES ASSUME Bad # {} PROVE FALSE
    OBVIOUS
  <2>2. Bad \in SUBSET Nat
    OBVIOUS
  <2>3. \E n \in Bad : \A m \in Bad : n <= m
    <3> HIDE DEF Bad
    <3>. QED
      BY <2>1, <2>2, LeastNat
  <2>4. PICK n \in Bad : \A m \in Bad : n <= m
    BY <2>3
  <2>5. PICK s \in SUBSET t : Cardinality(s) = n /\ f[s] \notin Nat
    BY <2>4
  <2>6. s # {}
    BY <2>5, <1>1 DEF Sums
  <2>7. f[s] = Weight[PickOf(s)] + f[s \ {PickOf(s)}]
    BY <2>6, <1>1 DEF Sums
  <2>8. PickOf(s) \in s
    BY <2>6 DEF PickOf
  <2>9. Weight[PickOf(s)] \in Nat
    BY <2>8, ServerAssumption
  <2>10. Cardinality(s \ {PickOf(s)}) = n - 1 /\ n - 1 \in Nat /\ n - 1 < n
    <3>1. Cardinality(s \ {PickOf(s)}) = Cardinality(s) - 1
      BY <2>8, <1>0, FS_RemoveElement
    <3>2. Cardinality(s \ {PickOf(s)}) \in Nat
      BY <1>0
    <3>. QED
      BY <3>1, <3>2, <2>5, <2>2
  <2>11. n - 1 \notin Bad
    BY <2>4, <2>10, <2>2
  <2>12. f[s \ {PickOf(s)}] \in Nat
    BY <2>10, <2>11
  <2>. QED
    BY <2>5, <2>7, <2>9, <2>12
<1>3. f[t] \in Nat
  BY <1>0, <1>2
<1>. QED
  BY <1>3, SizeIter DEF f

LEMMA SizeOfNone == Nf!Size({}) = 0
<1>1. \E f : Sums(f, {})
  BY SumsExist, FS_EmptySet
<1> DEFINE g == CHOOSE f : Sums(f, {})
<1>2. Sums(g, {})
  BY <1>1
<1>3. g[{}] = 0
  BY <1>2 DEF Sums
<1>. QED
  BY <1>3, SizeIter

LEMMA SizeOfOne == ASSUME NEW b \in Block PROVE Nf!Size({b}) = Weight[b]
<1>1. \E f : Sums(f, {b})
  BY SumsExist, FS_Singleton
<1> DEFINE g == CHOOSE f : Sums(f, {b})
<1>2. Sums(g, {b})
  BY <1>1
<1> HIDE DEF g
<1>3. PickOf({b}) = b
  BY DEF PickOf
<1>4. g[{}] = 0
  BY <1>2 DEF Sums
<1>5. {b} \ {b} = {} /\ {b} # {} /\ {b} \in SUBSET {b}
  OBVIOUS
<1>6. g[{b}] = Weight[b] + 0
  BY <1>2, <1>3, <1>4, <1>5 DEF Sums
<1>7. Weight[b] \in Nat
  BY ServerAssumption
<1>8. Weight[b] + 0 = Weight[b]
  BY <1>7
<1>9. Nf!Size({b}) = g[{b}]
  BY SizeIter DEF g
<1>. QED
  BY <1>6, <1>8, <1>9

-----------------------------------------------------------------------------
(* Whole tables *)

(* A table holds finitely many blocks, at most one per height. *)
Whole(t) ==
  /\ t \subseteq Block
  /\ IsFiniteSet(t)
  /\ \E n \in Nat : \A b \in t : HeightOf[b] <= n
  /\ \A b, c \in t : HeightOf[b] = HeightOf[c] => b = c

LEMMA MaxOfTwo ==
  ASSUME NEW m \in Int, NEW n \in Int
  PROVE  Nf!Max({m, n}) = IF m >= n THEN m ELSE n
  BY DEF Nf!Max

LEMMA MinOfTwo ==
  ASSUME NEW m \in Int, NEW n \in Int
  PROVE  Nf!Min({m, n}) = IF m <= n THEN m ELSE n
  BY DEF Nf!Min

LEMMA NewestOf ==
  ASSUME NEW t, Whole(t), NEW b \in t, \A c \in t : HeightOf[c] <= HeightOf[b]
  PROVE  Nf!Latest(t) = HeightOf[b] /\ Nf!LatestHash(t) = b
<1>1. t # {} /\ \A c \in t : c \in Block /\ HeightOf[c] \in Nat
  BY HeightType DEF Whole
<1>2. \A h \in Nf!Heights(t) : h \in Nat /\ h <= HeightOf[b]
  BY <1>1 DEF Nf!Heights
<1>3. HeightOf[b] \in Nf!Heights(t) /\ \A h \in Nf!Heights(t) : HeightOf[b] >= h
  BY <1>1, <1>2 DEF Nf!Heights
<1>4. ASSUME NEW x \in Nf!Heights(t), \A h \in Nf!Heights(t) : x >= h
      PROVE  x = HeightOf[b]
  BY <1>2, <1>3, <1>4
<1>5. Nf!Max(Nf!Heights(t)) = HeightOf[b]
  BY <1>3, <1>4 DEF Nf!Max
<1>6. Nf!Latest(t) = HeightOf[b]
  BY <1>1, <1>5 DEF Nf!Latest
<1>7. \A c \in t : HeightOf[c] = Nf!Latest(t) => c = b
  BY <1>6 DEF Whole
<1>8. (CHOOSE c \in t : HeightOf[c] = Nf!Latest(t)) = b
  BY <1>6, <1>7
<1>. QED
  BY <1>1, <1>6, <1>8 DEF Nf!LatestHash

LEMMA NewestExists ==
  ASSUME NEW t, Whole(t), t # {}
  PROVE  \E b \in t : /\ \A c \in t : HeightOf[c] <= HeightOf[b]
                      /\ Nf!Latest(t) = HeightOf[b]
                      /\ Nf!LatestHash(t) = b
<1>1. PICK n \in Nat : \A b \in t : HeightOf[b] <= n
  BY DEF Whole
<1>2. Nf!Heights(t) \in SUBSET Nat /\ Nf!Heights(t) # {} /\ \A h \in Nf!Heights(t) : h <= n
  BY <1>1, HeightType DEF Nf!Heights, Whole
<1>3. \E h \in Nf!Heights(t) : \A k \in Nf!Heights(t) : k <= h
  BY <1>2, GreatestNat
<1>4. PICK b \in t : \A c \in t : HeightOf[c] <= HeightOf[b]
  BY <1>3 DEF Nf!Heights
<1>. QED
  BY <1>4, NewestOf

LEMMA LatestBounds ==
  ASSUME NEW t, Whole(t)
  PROVE  /\ Nf!Latest(t) \in Nat
         /\ \A c \in t : HeightOf[c] <= Nf!Latest(t)
         /\ t # {} => Nf!Latest(t) \in Nf!Heights(t)
         /\ Nf!LatestHash(t) \in Block \cup {ZeroHash}
         /\ Nf!LatestHash(t) \in Block => HeightOf[Nf!LatestHash(t)] = Nf!Latest(t)
<1>1. CASE t = {}
  BY <1>1, ServerAssumption DEF Nf!Latest, Nf!LatestHash
<1>2. CASE t # {}
  <2>1. PICK b \in t : /\ \A c \in t : HeightOf[c] <= HeightOf[b]
                       /\ Nf!Latest(t) = HeightOf[b]
                       /\ Nf!LatestHash(t) = b
    BY <1>2, NewestExists
  <2>2. b \in Block /\ HeightOf[b] \in Nat
    BY HeightType DEF Whole
  <2>. QED
    BY <2>1, <2>2, <1>2 DEF Nf!Heights
<1>. QED
  BY <1>1, <1>2

LEMMA WholeNone == Whole({}) /\ Nf!Latest({}) = 0 /\ Interval(Nf!Heights({}))
  BY FS_EmptySet DEF Whole, Nf!Latest, Interval, Nf!Heights

LEMMA WholeSubset ==
  ASSUME NEW t, Whole(t), NEW s \in SUBSET t
  PROVE  Whole(s)
  BY FS_Subset DEF Whole

LEMMA WholeInsert ==
  ASSUME NEW t, Whole(t), NEW b \in Block, HeightOf[b] \notin Nf!Heights(t)
  PROVE  /\ Whole(t \cup {b})
         /\ Nf!Heights(t \cup {b}) = Nf!Heights(t) \cup {HeightOf[b]}
<1>1. \A c \in t : HeightOf[c] # HeightOf[b]
  BY DEF Nf!Heights
<1>2. IsFiniteSet(t \cup {b})
  BY FS_AddElement DEF Whole
<1>3. PICK n \in Nat : \A c \in t : HeightOf[c] <= n
  BY DEF Whole
<1>4. HeightOf[b] \in Nat /\ \A c \in t : HeightOf[c] \in Nat
  BY HeightType DEF Whole
<1>5. n + HeightOf[b] \in Nat /\ \A c \in t \cup {b} : HeightOf[c] <= n + HeightOf[b]
  BY <1>3, <1>4
<1>6. \E m \in Nat : \A c \in t \cup {b} : HeightOf[c] <= m
  BY <1>5
<1>7. t \cup {b} \subseteq Block
  BY DEF Whole
<1>8. \A c, d \in t \cup {b} : HeightOf[c] = HeightOf[d] => c = d
  BY <1>1 DEF Whole
<1>. QED
  BY <1>2, <1>6, <1>7, <1>8 DEF Whole, Nf!Heights

(* Eviction cuts a table at a height, and never drops its newest block.    *)
LEMMA EvictedCut ==
  ASSUME NEW t, Whole(t)
  PROVE  \E h \in Nat : /\ Nf!Evicted(t) = Nf!From(t, h)
                        /\ t # {} => h <= Nf!Latest(t)
<1> DEFINE S == {h \in Nf!Heights(t) \cup {Nf!Latest(t) + 1} : Nf!Size(Nf!From(t, h)) <= TargetSize}
<1>1. Nf!Heights(t) \in SUBSET Nat /\ Nf!Latest(t) \in Nat
  BY LatestBounds, HeightType DEF Nf!Heights, Whole
<1>0. Nf!Evicted(t) = Nf!From(t, Nf!Min(S))
  BY DEF Nf!Evicted
<1>2. CASE t = {}
  <2>1. Nf!From(t, Nf!Latest(t) + 1) = {} /\ TargetSize \in Nat
    BY <1>2, ServerAssumption DEF Nf!From
  <2>2. Nf!Latest(t) + 1 \in S
    BY <2>1, SizeOfNone
  <2>3. S = {Nf!Latest(t) + 1}
    BY <1>2, <2>2 DEF Nf!Heights
  <2>4. Nf!Min(S) = Nf!Latest(t) + 1
    BY <2>3, <1>1 DEF Nf!Min
  <2> HIDE DEF S
  <2>5. Nf!Latest(t) + 1 \in Nat
    BY <1>1
  <2>6. Nf!Evicted(t) = Nf!From(t, Nf!Latest(t) + 1)
    BY <2>4, <1>0
  <2>. QED
    BY <2>5, <2>6, <1>2
<1>3. CASE t # {}
  <2>1. PICK b \in t : /\ \A c \in t : HeightOf[c] <= HeightOf[b]
                       /\ Nf!Latest(t) = HeightOf[b]
    BY <1>3, NewestExists
  <2>2. b \in Block /\ HeightOf[b] \in Nat /\ \A c \in t : c \in Block /\ HeightOf[c] \in Nat
    BY HeightType DEF Whole
  <2>3. Nf!From(t, Nf!Latest(t)) = {b}
    <3>1. \A c \in t : HeightOf[c] >= HeightOf[b] => c = b
      BY <2>1, <2>2 DEF Whole
    <3>2. HeightOf[b] >= HeightOf[b]
      BY <2>2
    <3>. QED
      BY <3>1, <3>2, <2>1 DEF Nf!From
  <2>4. Nf!Size({b}) <= TargetSize
    <3>1. IsFiniteSet({b}) /\ Cardinality({b}) = 1
      BY FS_Singleton
    <3>2. Cardinality({b}) <= TrackerDepth
      BY <3>1, ServerAssumption
    <3>3. {b} \in SUBSET Block
      BY <2>2
    <3>. QED
      BY <3>1, <3>2, <3>3, WindowFitsAssumption
  <2>5. Nf!Latest(t) \in S /\ S \in SUBSET Nat
    <3>1. Nf!Latest(t) \in Nf!Heights(t)
      BY <2>1 DEF Nf!Heights
    <3>2. Nf!Size(Nf!From(t, Nf!Latest(t))) <= TargetSize
      BY <2>3, <2>4
    <3>3. Nf!Latest(t) \in S
      BY <3>1, <3>2
    <3>4. Nf!Latest(t) + 1 \in Nat
      BY <1>1
    <3>5. S \subseteq Nf!Heights(t) \cup {Nf!Latest(t) + 1}
      OBVIOUS
    <3> HIDE DEF S
    <3>. QED
      BY <3>3, <3>4, <3>5, <1>1
  <2>6. \E h \in S : \A k \in S : h <= k
    <3> HIDE DEF S
    <3>. QED
      BY <2>5, LeastNat
  <2>7. Nf!Min(S) \in S /\ \A k \in S : Nf!Min(S) <= k
    <3> HIDE DEF S
    <3>. QED
      BY <2>6 DEF Nf!Min
  <2>8. Nf!Min(S) \in Nat /\ Nf!Min(S) <= Nf!Latest(t)
    <3> HIDE DEF S
    <3>. QED
      BY <2>5, <2>7
  <2>. QED
    BY <2>8, <1>0, <1>3
<1>. QED
  BY <1>2, <1>3

LEMMA EvictedKeeps ==
  ASSUME NEW t, Whole(t)
  PROVE  /\ Nf!Evicted(t) \subseteq t
         /\ Whole(Nf!Evicted(t))
         /\ Nf!Latest(Nf!Evicted(t)) = Nf!Latest(t)
         /\ Nf!LatestHash(Nf!Evicted(t)) = Nf!LatestHash(t)
         /\ Interval(Nf!Heights(t)) => Interval(Nf!Heights(Nf!Evicted(t)))
<1>1. PICK h \in Nat : Nf!Evicted(t) = Nf!From(t, h) /\ (t # {} => h <= Nf!Latest(t))
  BY EvictedCut
<1>2. Nf!Evicted(t) \subseteq t /\ Whole(Nf!Evicted(t))
  BY <1>1, WholeSubset DEF Nf!From
<1>3. Nf!Latest(Nf!Evicted(t)) = Nf!Latest(t) /\ Nf!LatestHash(Nf!Evicted(t)) = Nf!LatestHash(t)
  <2>1. CASE t = {}
    BY <2>1, <1>2 DEF Nf!Latest, Nf!LatestHash
  <2>2. CASE t # {}
    <3>1. PICK b \in t : /\ \A c \in t : HeightOf[c] <= HeightOf[b]
                         /\ Nf!Latest(t) = HeightOf[b]
                         /\ Nf!LatestHash(t) = b
      BY <2>2, NewestExists
    <3>2. HeightOf[b] \in Nat
      BY HeightType DEF Whole
    <3>3. b \in Nf!Evicted(t)
      BY <3>1, <3>2, <1>1, <2>2 DEF Nf!From
    <3>. QED
      BY <3>1, <3>3, <1>2, NewestOf
  <2>. QED
    BY <2>1, <2>2
<1>4. ASSUME Interval(Nf!Heights(t))
      PROVE  Interval(Nf!Heights(Nf!Evicted(t)))
  <2>1. \A b \in t : HeightOf[b] \in Nat
    BY HeightType DEF Whole
  <2>2. Nf!Heights(Nf!Evicted(t)) = {k \in Nf!Heights(t) : k >= h}
    BY <1>1 DEF Nf!Heights, Nf!From
  <2>3. ASSUME NEW l \in Nf!Heights(Nf!Evicted(t)), NEW g \in Nf!Heights(Nf!Evicted(t)), NEW k \in l..g
        PROVE  k \in Nf!Heights(Nf!Evicted(t))
    <3>1. l \in Nat /\ g \in Nat /\ l \in Nf!Heights(t) /\ g \in Nf!Heights(t) /\ l >= h
      BY <2>1, <2>2 DEF Nf!Heights
    <3>2. k \in Nf!Heights(t) /\ k >= h
      BY <3>1, <1>4 DEF Interval
    <3>. QED
      BY <3>2, <2>2
  <2>. QED
    BY <2>3 DEF Interval
<1>. QED
  BY <1>2, <1>3, <1>4

-----------------------------------------------------------------------------
(* The sync of the nullifier subsystem, alone or catching up *)

(* The block the table takes in next is one above this height. *)
NfDone == nfCurrent - Len(nfQueue)

NfTypes ==
  /\ best \in Block
  /\ nfPc \in {"down", "sync", "backfill", "synced", "saved"}
  /\ nfFresh \in BOOLEAN
  /\ nfTask \in {"idle", "poll", "fetch", "send"}
  /\ nfBackfillEnd \in Nat /\ nfCurrent \in Nat /\ nfGoal \in Nat /\ nfTo \in Nat
  /\ nfFetched \in Seq(Block)
  /\ nfQueue \in Seq(Nf!Event)

(* The blocks read, and before them those in the channel, follow each      *)
(* other without a gap; the range being read ends inside the one asked for.*)
NfRanges ==
  /\ \A i \in 1..Len(nfFetched) : HeightOf[nfFetched[i]] = nfCurrent + i
  /\ \A i \in 1..Len(nfQueue) : HeightOf[nfQueue[i].block] = NfDone + i
  /\ NfDone >= 0
  /\ nfTask \in {"idle", "poll"} => nfFetched = <<>>
  /\ nfTask = "fetch" => nfCurrent + Len(nfFetched) < nfGoal
  /\ nfTask = "send" => nfFetched # <<>>
  /\ Nf!Syncing => nfCurrent <= nfTo
  /\ Nf!Syncing /\ nfTask \in {"fetch", "send"} =>
       nfCurrent + Len(nfFetched) <= nfGoal /\ nfGoal <= nfTo
  /\ ~Nf!Syncing => nfQueue = <<>> /\ nfTask = "idle"

(* The table is below what is still to come, or, during a backfill, above  *)
(* the range being read.                                                   *)
NfTables ==
  /\ Whole(table)
  /\ \A t \in nfDisk : Whole(t)
  /\ nfPc = "down" => table = {}
  /\ Nf!Syncing => \A b \in table : HeightOf[b] <= NfDone \/ HeightOf[b] > nfTo
  /\ nfPc = "sync" => \A b \in table : HeightOf[b] <= NfDone
  /\ nfPc = "backfill" => nfFresh

(* A fresh table is above what is left to backfill. *)
NfBackfills ==
  nfFresh /\ mode \in {"sync", "failing"} /\ nfPc # "down" =>
    /\ \A b \in table : HeightOf[b] > nfBackfillEnd
    /\ Floor - 1 <= nfBackfillEnd
    /\ Nf!Syncing => nfBackfillEnd <= NfDone

NfBase == NfTypes /\ NfRanges /\ NfTables /\ NfBackfills

(* No sync begins again but by a restart. *)
SameStage == mode' \in {"sync", "failing"} => mode \in {"sync", "failing"}

LEMMA Constants ==
  /\ BackfillBatch \in Nat \ {0} /\ SyncBatch \in Nat \ {0} /\ Capacity \in Nat \ {0}
  /\ SnapshotInterval \in Nat \ {0} /\ Floor \in Nat \ {0}
  /\ TrackerDepth \in Nat \ {0, 1}
  /\ BackfillTarget \in Nat
  /\ ZeroHash \notin Block /\ Genesis \notin Block /\ ZeroHash # Genesis
  BY ServerAssumption, ChainAssumption

LEMMA SameChain ==
  /\ \A h : Nf!Available(h) <=> Available(h)
  /\ \A h : Nf!BlockAt(h) = BlockAt(h)
  /\ \A h : Wit!Available(h) <=> Available(h)
  /\ \A h : Wit!BlockAt(h) = BlockAt(h)
  BY DEF Nf!Available, Nf!BlockAt, Nf!ChainOf, Wit!Available, Wit!BlockAt, Wit!ChainOf,
     Available, BlockAt, ChainOf

LEMMA NfStays ==
  ASSUME NfBase, best' \in Block, SameStage,
         UNCHANGED <<nfPc, nfFresh, table, nfBackfillEnd, nfDisk, nfTask, nfCurrent, nfGoal,
                     nfTo, nfFetched, nfQueue>>
  PROVE  NfBase'
<1>1. NfTypes'
  BY DEF NfBase, NfTypes
<1>2. NfRanges'
  BY DEF NfBase, NfRanges, NfDone, Nf!Syncing
<1>3. NfTables'
  BY DEF NfBase, NfTables, NfDone, Nf!Syncing
<1>4. NfBackfills'
  BY DEF NfBase, NfBackfills, NfDone, Nf!Syncing, SameStage
<1>. QED
  BY <1>1, <1>2, <1>3, <1>4 DEF NfBase

LEMMA NfPollSync ==
  ASSUME NfBase, Nf!PollSync, SameStage
  PROVE  NfBase'
<1>1. /\ UNCHANGED <<best, nfPc, nfFresh, table, nfBackfillEnd, nfDisk, nfCurrent,
                     nfTo, nfFetched, nfQueue>>
      /\ Nf!Syncing /\ nfTask = "poll"
  BY DEF Nf!PollSync, Nf!chainVars, Nf!mainVars
<1>2. Len(nfFetched) = 0 /\ nfFetched = <<>> /\ nfCurrent \in Nat /\ nfTo \in Nat
  BY <1>1 DEF NfBase, NfRanges, NfTypes
<1>3. /\ nfTask' \in {"fetch", "idle"} /\ nfGoal' \in Nat
      /\ nfTask' = "fetch" => nfCurrent < nfGoal' /\ nfGoal' <= nfTo
  <2>1. CASE nfCurrent < nfTo
    <3>1. nfGoal' = Nf!Min({nfCurrent + SyncBatch, nfTo}) /\ nfTask' = "fetch"
      BY <2>1 DEF Nf!PollSync
    <3>2. nfCurrent + SyncBatch \in Int /\ nfTo \in Int
      BY <1>2, Constants
    <3>3. nfGoal' \in Nat /\ nfCurrent < nfGoal' /\ nfGoal' <= nfTo
      BY <2>1, <3>1, <3>2, <1>2, MinOfTwo, Constants
    <3>. QED
      BY <3>1, <3>3
  <2>2. CASE ~(nfCurrent < nfTo)
    <3>1. nfTask' = "idle" /\ nfGoal' = nfGoal
      BY <2>2 DEF Nf!PollSync
    <3>. QED
      BY <3>1 DEF NfBase, NfTypes
  <2>. QED
    BY <2>1, <2>2
<1>4. NfTypes'
  BY <1>1, <1>3 DEF NfBase, NfTypes
<1>5. NfRanges'
  BY <1>1, <1>2, <1>3 DEF NfBase, NfRanges, NfDone, Nf!Syncing
<1>6. NfTables' /\ NfBackfills'
  BY <1>1 DEF NfBase, NfTables, NfBackfills, NfDone, Nf!Syncing, SameStage
<1>. QED
  BY <1>4, <1>5, <1>6 DEF NfBase

LEMMA NfRangeDone ==
  ASSUME NfBase, Nf!RangeDone, SameStage
  PROVE  NfBase'
<1>1. /\ UNCHANGED <<best, nfFresh, table, nfBackfillEnd, nfDisk, nfTask, nfCurrent, nfGoal,
                     nfTo, nfFetched, nfQueue>>
      /\ nfPc' = "synced" /\ nfQueue = <<>> /\ nfTask = "idle" /\ Nf!Syncing /\ ~Nf!Syncing'
  BY DEF Nf!RangeDone, Nf!chainVars, Nf!taskVars, Nf!Syncing
<1>2. NfTypes'
  BY <1>1 DEF NfBase, NfTypes
<1>3. NfRanges'
  BY <1>1 DEF NfBase, NfRanges, NfDone
<1>4. NfTables' /\ NfBackfills'
  BY <1>1 DEF NfBase, NfTables, NfBackfills, NfDone, SameStage, Nf!Syncing
<1>. QED
  BY <1>2, <1>3, <1>4 DEF NfBase

LEMMA NfEndTask ==
  ASSUME NfBase, Nf!EndTask, nfTask # "idle", SameStage
  PROVE  NfBase'
<1>1. /\ UNCHANGED <<best, nfPc, nfFresh, table, nfBackfillEnd, nfDisk, nfCurrent, nfGoal,
                     nfTo, nfQueue>>
      /\ nfTask' = "idle" /\ nfFetched' = <<>> /\ Len(nfFetched') = 0
      /\ nfFetched' \in Seq(Block)
  BY DEF Nf!EndTask, Nf!chainVars, Nf!mainVars
<1>2. Nf!Syncing
  BY DEF NfBase, NfRanges
<1>3. NfTypes'
  BY <1>1 DEF NfBase, NfTypes
<1>4. NfRanges'
  BY <1>1, <1>2 DEF NfBase, NfRanges, NfDone, Nf!Syncing
<1>5. NfTables' /\ NfBackfills'
  BY <1>1 DEF NfBase, NfTables, NfBackfills, NfDone, SameStage, Nf!Syncing
<1>. QED
  BY <1>3, <1>4, <1>5 DEF NfBase

LEMMA NfFetchBlock ==
  ASSUME NfBase, Nf!FetchBlock, SameStage
  PROVE  NfBase'
<1> DEFINE next == nfCurrent + 1 + Len(nfFetched)
           b == BlockAt(next)
<1>1. b \in Block /\ HeightOf[b] = next
  <2>1. Available(next)
    BY SameChain DEF Nf!FetchBlock, Nf!NextHeight
  <2>2. best \in Block
    BY DEF NfBase, NfTypes
  <2> HIDE DEF next
  <2>. QED
    BY <2>1, <2>2, BlockAtHeight
<1>2. /\ nfFetched \in Seq(Block) /\ Len(nfFetched) \in Nat /\ nfCurrent \in Nat
      /\ nfGoal \in Nat /\ next <= nfGoal /\ nfTask = "fetch"
  BY DEF NfBase, NfTypes, NfRanges, Nf!FetchBlock
<1>3. nfFetched' = Append(nfFetched, b)
  BY SameChain DEF Nf!FetchBlock, Nf!NextHeight
<1>4. nfTask' = IF next = nfGoal THEN "send" ELSE "fetch"
  BY DEF Nf!FetchBlock, Nf!NextHeight
<1> HIDE DEF b
<1>5. /\ nfFetched' \in Seq(Block) /\ Len(nfFetched') = Len(nfFetched) + 1
      /\ nfFetched' # <<>>
      /\ \A i \in 1..Len(nfFetched) : nfFetched'[i] = nfFetched[i]
      /\ nfFetched'[Len(nfFetched) + 1] = b
  BY <1>1, <1>2, <1>3
<1>6. ASSUME NEW i \in 1..Len(nfFetched')
      PROVE  HeightOf[nfFetched'[i]] = nfCurrent + i
  <2>1. CASE i \in 1..Len(nfFetched)
    BY <2>1, <1>5 DEF NfBase, NfRanges
  <2>2. CASE i = Len(nfFetched) + 1
    BY <2>2, <1>1, <1>2, <1>5
  <2>. QED
    BY <2>1, <2>2, <1>2, <1>5
<1>7. UNCHANGED <<best, nfPc, nfFresh, table, nfBackfillEnd, nfDisk, nfCurrent, nfGoal, nfTo,
                  nfQueue>>
  BY DEF Nf!FetchBlock, Nf!chainVars, Nf!mainVars
<1>8. NfTypes'
  BY <1>4, <1>5, <1>7 DEF NfBase, NfTypes
<1>9. NfRanges'
  <2>1. nfTask' = "fetch" => nfCurrent + Len(nfFetched') < nfGoal
    BY <1>2, <1>4, <1>5
  <2>2. nfCurrent + Len(nfFetched') <= nfGoal
    BY <1>2, <1>5
  <2>3. nfTask' \in {"fetch", "send"}
    BY <1>4
  <2>. QED
    BY <1>2, <1>5, <1>6, <1>7, <2>1, <2>2, <2>3 DEF NfBase, NfRanges, NfDone, Nf!Syncing
<1>10. NfTables' /\ NfBackfills'
  BY <1>7 DEF NfBase, NfTables, NfBackfills, NfDone, SameStage, Nf!Syncing
<1>. QED
  BY <1>8, <1>9, <1>10 DEF NfBase

(* Handing on a block leaves NfDone where it is. *)
LEMMA NfSendSync ==
  ASSUME NfBase, Nf!SendSync, SameStage
  PROVE  NfBase'
<1> DEFINE b == Head(nfFetched)
           e == Nf!NewBlock(b)
<1>1. /\ nfFetched \in Seq(Block) /\ nfQueue \in Seq(Nf!Event)
      /\ Len(nfFetched) \in Nat /\ Len(nfQueue) \in Nat /\ nfCurrent \in Nat
      /\ nfFetched # <<>> /\ Nf!Syncing
  BY DEF NfBase, NfTypes, Nf!SendSync
<1>2. /\ Len(nfFetched) # 0 /\ b = nfFetched[1] /\ 1 \in 1..Len(nfFetched) /\ b \in Block
  BY <1>1
<1>3. HeightOf[b] = nfCurrent + 1
  BY <1>2 DEF NfBase, NfRanges
<1>4. e \in Nf!Event /\ e.block = b
  BY <1>2 DEF Nf!NewBlock, Nf!Event
<1>5. /\ nfQueue' = Append(nfQueue, e) /\ nfCurrent' = nfCurrent + 1
      /\ nfFetched' = Tail(nfFetched)
      /\ nfTask' = (IF Tail(nfFetched) = <<>> THEN "poll" ELSE "send")
      /\ nfTask = "send"
  BY <1>3 DEF Nf!SendSync, Nf!HandOn
<1>6. UNCHANGED <<best, nfPc, nfFresh, table, nfBackfillEnd, nfDisk, nfGoal, nfTo>>
  BY DEF Nf!SendSync, Nf!HandOn, Nf!chainVars, Nf!mainVars
<1> HIDE DEF b, e
<1>7. /\ nfFetched' \in Seq(Block) /\ Len(nfFetched') = Len(nfFetched) - 1
      /\ \A i \in 1..Len(nfFetched') : nfFetched'[i] = nfFetched[i + 1]
  BY <1>1, <1>2, <1>5
<1>8. /\ nfQueue' \in Seq(Nf!Event) /\ Len(nfQueue') = Len(nfQueue) + 1
      /\ \A i \in 1..Len(nfQueue) : nfQueue'[i] = nfQueue[i]
      /\ nfQueue'[Len(nfQueue) + 1] = e
  BY <1>1, <1>4, <1>5
<1>9. NfDone' = NfDone
  BY <1>1, <1>5, <1>8 DEF NfDone
<1>10. NfTypes'
  BY <1>1, <1>5, <1>6, <1>7, <1>8 DEF NfBase, NfTypes
<1>11. ASSUME NEW i \in 1..Len(nfFetched')
       PROVE  HeightOf[nfFetched'[i]] = nfCurrent' + i
  <2>1. i + 1 \in 1..Len(nfFetched) /\ nfCurrent + (i + 1) = nfCurrent' + i
    BY <1>1, <1>5, <1>7
  <2>2. HeightOf[nfFetched[i + 1]] = nfCurrent + (i + 1)
    BY <2>1 DEF NfBase, NfRanges
  <2>. QED
    BY <2>1, <2>2, <1>7
<1>12. ASSUME NEW i \in 1..Len(nfQueue')
       PROVE  HeightOf[nfQueue'[i].block] = NfDone' + i
  <2>1. CASE i \in 1..Len(nfQueue)
    BY <2>1, <1>8, <1>9 DEF NfBase, NfRanges
  <2>2. CASE i = Len(nfQueue) + 1
    <3>1. NfDone + i = nfCurrent + 1
      BY <2>2, <1>1 DEF NfDone
    <3>. QED
      BY <3>1, <2>2, <1>3, <1>4, <1>8, <1>9
  <2>. QED
    BY <2>1, <2>2, <1>1, <1>8
<1>13. /\ nfTask' = "poll" => nfFetched' = <<>>
       /\ nfTask' = "send" => nfFetched' # <<>>
       /\ nfTask' \in {"poll", "send"}
       /\ nfCurrent' + Len(nfFetched') = nfCurrent + Len(nfFetched)
       /\ nfCurrent' <= nfTo
  <2>1. nfCurrent + Len(nfFetched) <= nfGoal /\ nfGoal <= nfTo /\ nfGoal \in Nat /\ nfTo \in Nat
    BY <1>1, <1>5 DEF NfBase, NfRanges, NfTypes
  <2>2. nfCurrent + 1 <= nfTo
    BY <2>1, <1>1, <1>2
  <2>. QED
    BY <2>2, <1>1, <1>5, <1>7
<1>14. NfRanges'
  BY <1>1, <1>5, <1>6, <1>9, <1>11, <1>12, <1>13 DEF NfBase, NfRanges, Nf!Syncing
<1>15. NfTables' /\ NfBackfills'
  BY <1>6, <1>9 DEF NfBase, NfTables, NfBackfills, SameStage, Nf!Syncing
<1>. QED
  BY <1>10, <1>14, <1>15 DEF NfBase

(* The block the table takes in is new to it. *)
LEMMA NfQueueHead ==
  ASSUME NfBase, nfQueue # <<>>
  PROVE  /\ Head(nfQueue) = nfQueue[1]
         /\ Head(nfQueue).block \in Block
         /\ HeightOf[Head(nfQueue).block] = NfDone + 1
         /\ HeightOf[Head(nfQueue).block] \notin Nf!Heights(table)
         /\ Len(nfQueue) \in Nat \ {0} /\ NfDone \in Nat /\ NfDone + 1 <= nfCurrent
         /\ Nf!Syncing
<1>1. /\ nfQueue \in Seq(Nf!Event) /\ Len(nfQueue) \in Nat /\ Len(nfQueue) # 0
      /\ nfCurrent \in Nat
  BY DEF NfBase, NfTypes
<1>2. 1 \in 1..Len(nfQueue) /\ Head(nfQueue) = nfQueue[1] /\ nfQueue[1] \in Nf!Event
  BY <1>1
<1>3. /\ HeightOf[Head(nfQueue).block] = NfDone + 1 /\ NfDone \in Nat
      /\ NfDone + 1 <= nfCurrent
  BY <1>1, <1>2 DEF NfBase, NfRanges, NfDone
<1>4. Nf!Syncing
  BY DEF NfBase, NfRanges
<1>5. ASSUME NEW c \in table
      PROVE  HeightOf[c] # NfDone + 1
  <2>1. HeightOf[c] \in Nat
    BY HeightType DEF NfBase, NfTables, Whole
  <2>2. HeightOf[c] <= NfDone \/ HeightOf[c] > nfTo
    BY <1>4 DEF NfBase, NfTables
  <2>3. nfCurrent <= nfTo /\ nfTo \in Nat
    BY <1>4 DEF NfBase, NfRanges, NfTypes
  <2>. QED
    BY <2>1, <2>2, <2>3, <1>1, <1>3
<1>6. NfDone + 1 \notin Nf!Heights(table)
  BY <1>5 DEF Nf!Heights
<1>. QED
  BY <1>1, <1>2, <1>3, <1>4, <1>6 DEF Nf!Event

LEMMA NfInsertSynced ==
  ASSUME NfBase, Nf!InsertSynced, SameStage
  PROVE  NfBase'
<1> DEFINE b == Head(nfQueue).block
<1>1. /\ b \in Block /\ HeightOf[b] = NfDone + 1 /\ HeightOf[b] \notin Nf!Heights(table)
      /\ Len(nfQueue) \in Nat \ {0} /\ NfDone \in Nat
  BY NfQueueHead DEF Nf!InsertSynced
<1>2. /\ UNCHANGED <<best, nfPc, nfFresh, nfBackfillEnd, nfDisk, nfTask, nfCurrent, nfGoal,
                     nfTo, nfFetched>>
      /\ table' = table \cup {b} /\ Nf!Syncing /\ nfQueue # <<>>
      /\ nfQueue' = Tail(nfQueue)
  BY DEF Nf!InsertSynced, Nf!chainVars, Nf!taskVars
<1> HIDE DEF b
<1>3. /\ nfQueue \in Seq(Nf!Event) /\ nfCurrent \in Nat
      /\ nfQueue' \in Seq(Nf!Event) /\ Len(nfQueue') = Len(nfQueue) - 1
      /\ \A i \in 1..Len(nfQueue') : nfQueue'[i] = nfQueue[i + 1]
  BY <1>2 DEF NfBase, NfTypes
<1>4. NfDone' = NfDone + 1
  BY <1>1, <1>2, <1>3 DEF NfDone
<1>5. ASSUME NEW i \in 1..Len(nfQueue')
      PROVE  HeightOf[nfQueue'[i].block] = NfDone' + i
  <2>1. i \in Nat /\ i + 1 \in 1..Len(nfQueue)
    <3>1. Len(nfQueue) \in Nat /\ Len(nfQueue') = Len(nfQueue) - 1
      BY <1>1, <1>3
    <3>. QED
      BY <3>1
  <2>2. NfDone + (i + 1) = NfDone' + i
    <3>1. NfDone \in Nat
      BY <1>1
    <3>. QED
      BY <3>1, <2>1, <1>4
  <2>3. HeightOf[nfQueue[i + 1].block] = NfDone + (i + 1)
    BY <2>1 DEF NfBase, NfRanges
  <2>. QED
    BY <2>2, <2>3, <1>3
<1>6. NfTypes'
  BY <1>2, <1>3 DEF NfBase, NfTypes
<1>7. NfRanges'
  <2>1. NfDone' >= 0
    BY <1>1, <1>4
  <2>. QED
    BY <2>1, <1>2, <1>3, <1>5 DEF NfBase, NfRanges, Nf!Syncing
<1>8. Whole(table')
  BY <1>1, <1>2, WholeInsert DEF NfBase, NfTables
<1>9. \A c \in table : HeightOf[c] \in Nat
  BY HeightType DEF NfBase, NfTables, Whole
<1>10. \A c \in table' : HeightOf[c] <= NfDone' \/ HeightOf[c] > nfTo
  BY <1>1, <1>2, <1>4, <1>9 DEF NfBase, NfTables
<1>11. nfPc = "sync" => \A c \in table' : HeightOf[c] <= NfDone'
  BY <1>1, <1>2, <1>4, <1>9 DEF NfBase, NfTables
<1>12. NfTables'
  BY <1>2, <1>8, <1>10, <1>11 DEF NfBase, NfTables, Nf!Syncing
<1>13. NfBackfills'
  <2> SUFFICES ASSUME nfFresh, mode \in {"sync", "failing"}
               PROVE  /\ \A c \in table' : HeightOf[c] > nfBackfillEnd
                      /\ Floor - 1 <= nfBackfillEnd
                      /\ nfBackfillEnd <= NfDone'
    BY <1>2 DEF NfBackfills, SameStage
  <2>1. (\A c \in table : HeightOf[c] > nfBackfillEnd) /\ Floor - 1 <= nfBackfillEnd
        /\ nfBackfillEnd <= NfDone /\ nfBackfillEnd \in Nat
    BY <1>2 DEF NfBase, NfBackfills, NfTypes, Nf!Syncing
  <2>2. nfBackfillEnd < HeightOf[b] /\ nfBackfillEnd <= NfDone'
    BY <2>1, <1>1, <1>4
  <2>. QED
    BY <2>1, <2>2, <1>2
<1>. QED
  BY <1>6, <1>7, <1>12, <1>13 DEF NfBase

(* sync_range, called with a range above or below all of the table. *)
LEMMA NfSyncRange ==
  ASSUME NfBase, nfPc \in {"down", "synced", "saved"},
         NEW first \in Nat \ {0}, NEW last \in Nat, NEW where \in {"sync", "backfill"},
         Nf!SyncRange(first, last, where),
         UNCHANGED <<best, nfDisk, nfQueue>>,
         Whole(table'), nfFresh' \in BOOLEAN, nfBackfillEnd' \in Nat,
         \A b \in table' : HeightOf[b] < first \/ HeightOf[b] > last,
         where = "sync" => \A b \in table' : HeightOf[b] < first,
         where = "backfill" => nfFresh',
         nfFresh' /\ mode' \in {"sync", "failing"} =>
           /\ \A b \in table' : HeightOf[b] > nfBackfillEnd'
           /\ Floor - 1 <= nfBackfillEnd' /\ nfBackfillEnd' <= first - 1
  PROVE  NfBase'
<1>1. /\ nfFetched = <<>> /\ nfQueue = <<>> /\ Len(nfFetched) = 0 /\ Len(nfQueue) = 0
      /\ nfTask = "idle" /\ ~Nf!Syncing
  BY DEF NfBase, NfRanges, Nf!Syncing
<1>2. \A b \in table' : HeightOf[b] \in Nat
  BY HeightType DEF Whole
<1>3. CASE first <= last
  <2>1. /\ nfPc' = where /\ nfTask' = "poll" /\ nfCurrent' = first - 1 /\ nfTo' = last
        /\ UNCHANGED <<nfGoal, nfFetched>>
    BY <1>3 DEF Nf!SyncRange
  <2>2. Nf!Syncing' /\ NfDone' = first - 1
    BY <2>1, <1>1 DEF Nf!Syncing, NfDone
  <2>3. nfCurrent' \in Nat /\ nfCurrent' <= nfTo' /\ NfDone' >= 0
    BY <2>1, <2>2, <1>3
  <2>4. NfTypes'
    <3>1. best' \in Block /\ nfGoal' \in Nat /\ nfFetched' \in Seq(Block)
          /\ nfQueue' \in Seq(Nf!Event)
      BY <2>1 DEF NfBase, NfTypes
    <3>. QED
      BY <3>1, <2>1, <2>3 DEF NfTypes
  <2>5. NfRanges'
    BY <2>1, <2>2, <2>3, <1>1 DEF NfRanges
  <2>6. \A b \in table' : HeightOf[b] <= NfDone' \/ HeightOf[b] > nfTo'
    BY <2>1, <2>2, <1>2
  <2>7. where = "sync" => \A b \in table' : HeightOf[b] <= NfDone'
    BY <2>2, <1>2
  <2>8. NfTables'
    BY <2>1, <2>2, <2>6, <2>7, <1>1 DEF NfBase, NfTables
  <2>9. NfBackfills'
    BY <2>1, <2>2 DEF NfBackfills
  <2>. QED
    BY <2>4, <2>5, <2>8, <2>9 DEF NfBase
<1>4. CASE ~(first <= last)
  <2>1. nfPc' = "synced" /\ UNCHANGED <<nfTask, nfCurrent, nfGoal, nfTo, nfFetched>>
    BY <1>4 DEF Nf!SyncRange, Nf!taskVars
  <2>2. ~Nf!Syncing' /\ NfDone' = NfDone
    BY <2>1 DEF Nf!Syncing, NfDone
  <2>3. NfTypes'
    BY <2>1 DEF NfBase, NfTypes
  <2>4. NfRanges'
    BY <2>1, <2>2, <1>1 DEF NfBase, NfRanges
  <2>5. NfTables'
    BY <2>1, <2>2, <1>1 DEF NfBase, NfTables
  <2>6. NfBackfills'
    BY <2>1, <2>2 DEF NfBackfills
  <2>. QED
    BY <2>3, <2>4, <2>5, <2>6 DEF NfBase
<1>. QED
  BY <1>3, <1>4

(* The ranges run_sync_only asks for. *)
LEMMA NfFreshStartAt ==
  ASSUME NEW tip \in Nat
  PROVE  /\ Nf!FreshStart(tip) \in Nat \ {0} /\ Nf!FreshStart(tip) >= Floor
         /\ Nf!EndBefore(Nf!FreshStart(tip)) \in Nat
  BY MaxOfTwo, Constants DEF Nf!FreshStart, Nf!EndBefore

LEMMA NfBackfillStartAt ==
  ASSUME NEW end \in Nat, end >= Floor
  PROVE  /\ Nf!BackfillStart(end) \in Nat \ {0}
         /\ Floor <= Nf!BackfillStart(end) /\ Nf!BackfillStart(end) <= end
         /\ Nf!EndBefore(Nf!BackfillStart(end)) \in Nat
  BY MaxOfTwo, Constants DEF Nf!BackfillStart, Nf!EndBefore

LEMMA NfStart ==
  ASSUME NfBase, Nf!Start
  PROVE  NfBase'
<1> DEFINE tip == HeightOf[best]
<1>1. /\ nfPc = "down" /\ tip \in Nat \ {0}
      /\ UNCHANGED <<best, nfDisk, nfQueue>>
  BY HeightType DEF NfBase, NfTypes, Nf!Start, Nf!chainVars
<1>2. CASE \E snapshot \in nfDisk :
             /\ table' = snapshot /\ nfFresh' = FALSE /\ nfBackfillEnd' = 0
             /\ Nf!SyncRange(Nf!ForwardStart(snapshot, tip), tip, "sync")
  <2>1. PICK snapshot \in nfDisk :
             /\ table' = snapshot /\ nfFresh' = FALSE /\ nfBackfillEnd' = 0
             /\ Nf!SyncRange(Nf!ForwardStart(snapshot, tip), tip, "sync")
    BY <1>2
  <2>2. Whole(snapshot)
    BY DEF NfBase, NfTables
  <2>3. Nf!Latest(snapshot) \in Nat
        /\ \A b \in snapshot : HeightOf[b] \in Nat /\ HeightOf[b] <= Nf!Latest(snapshot)
    BY <2>2, LatestBounds, HeightType DEF Whole
  <2>4. Nf!ForwardStart(snapshot, tip) \in Nat \ {0}
        /\ \A b \in snapshot : HeightOf[b] < Nf!ForwardStart(snapshot, tip)
    BY <2>3, <1>1 DEF Nf!ForwardStart
  <2>5. nfFresh' \in BOOLEAN /\ ~nfFresh' /\ nfBackfillEnd' \in Nat
    BY <2>1
  <2>. QED
    BY <2>1, <2>2, <2>4, <2>5, <1>1, NfSyncRange
<1>3. CASE /\ table' = {} /\ nfFresh' = TRUE
           /\ nfBackfillEnd' = Nf!EndBefore(Nf!FreshStart(tip))
           /\ Nf!SyncRange(Nf!FreshStart(tip), tip, "sync")
  <2>1. Nf!FreshStart(tip) \in Nat \ {0} /\ Nf!FreshStart(tip) >= Floor
        /\ nfBackfillEnd' \in Nat
    BY <1>1, <1>3, NfFreshStartAt
  <2>2. Floor - 1 <= nfBackfillEnd' /\ nfBackfillEnd' <= Nf!FreshStart(tip) - 1
    BY <2>1, <1>3, Constants DEF Nf!EndBefore
  <2>3. nfFresh' \in BOOLEAN /\ Whole(table')
    BY <1>3, WholeNone
  <2>. QED
    BY <2>1, <2>2, <2>3, <1>1, <1>3, NfSyncRange
<1>. QED
  BY <1>2, <1>3 DEF Nf!Start

LEMMA NfBackfill ==
  ASSUME NfBase, Nf!Backfill, mode \in {"sync", "failing"}
  PROVE  NfBase'
<1> DEFINE first == Nf!BackfillStart(nfBackfillEnd)
<1>1. /\ nfPc = "synced" /\ nfFresh /\ nfBackfillEnd \in Nat /\ nfBackfillEnd >= Floor
      /\ Nf!SyncRange(first, nfBackfillEnd, "backfill")
      /\ nfBackfillEnd' = first - 1
      /\ UNCHANGED <<best, nfFresh, table, nfDisk, nfQueue>>
  BY DEF Nf!Backfill, Nf!BackfillNeeded, Nf!EndBefore, Nf!chainVars, NfBase, NfTypes
<1>2. first \in Nat \ {0} /\ Floor <= first /\ first <= nfBackfillEnd /\ first - 1 \in Nat
  BY <1>1, NfBackfillStartAt DEF Nf!EndBefore
<1>3. \A b \in table : HeightOf[b] > nfBackfillEnd /\ HeightOf[b] \in Nat
  BY <1>1, HeightType DEF NfBase, NfBackfills, NfTables, Whole
<1> HIDE DEF first
<1>4. Floor - 1 <= nfBackfillEnd' /\ \A b \in table' : HeightOf[b] > nfBackfillEnd'
  BY <1>1, <1>2, <1>3, Constants
<1>5. Whole(table') /\ nfFresh' \in BOOLEAN /\ nfFresh' /\ nfBackfillEnd' \in Nat
  BY <1>1, <1>2 DEF NfBase, NfTables, NfTypes
<1>6. \A b \in table' : HeightOf[b] < first \/ HeightOf[b] > nfBackfillEnd
  BY <1>1, <1>3
<1>. QED
  BY <1>1, <1>2, <1>4, <1>5, <1>6, NfSyncRange

(* With the one behind being the table: the rest of the other's range. *)
LEMMA NfCatchUp ==
  ASSUME NfBase, nfPc = "saved", NEW last \in Nat, mode' = "catchup",
         Nf!SyncRange(CatchUpStart(Nf!Latest(table)), last, "sync"),
         UNCHANGED <<best, nfFresh, table, nfBackfillEnd, nfDisk, nfQueue>>
  PROVE  NfBase'
<1>1. Whole(table) /\ nfFresh \in BOOLEAN /\ nfBackfillEnd \in Nat
  BY DEF NfBase, NfTables, NfTypes
<1>2. Nf!Latest(table) \in Nat
      /\ \A b \in table : HeightOf[b] \in Nat /\ HeightOf[b] <= Nf!Latest(table)
  BY <1>1, LatestBounds, HeightType DEF Whole
<1>3. CatchUpStart(Nf!Latest(table)) \in Nat \ {0}
      /\ \A b \in table : HeightOf[b] < CatchUpStart(Nf!Latest(table))
  BY <1>2 DEF CatchUpStart
<1>. QED
  BY <1>1, <1>3, NfSyncRange

(* A table that changes outside of its own sync. *)
LEMMA NfTableChanges ==
  ASSUME NfBase, nfPc \in {"down", "synced", "saved"}, nfPc' = "saved",
         Whole(table'), best' \in Block,
         \A t \in nfDisk' : Whole(t),
         mode' \in {"sync", "failing"} =>
           mode \in {"sync", "failing"} /\ nfPc # "down" /\ table' \subseteq table,
         UNCHANGED <<nfFresh, nfBackfillEnd, nfTask, nfCurrent, nfGoal, nfTo, nfFetched,
                     nfQueue>>
  PROVE  NfBase'
<1>1. ~Nf!Syncing /\ ~Nf!Syncing' /\ NfDone' = NfDone
  BY DEF Nf!Syncing, NfDone
<1>2. NfTypes'
  BY DEF NfBase, NfTypes
<1>3. NfRanges'
  BY <1>1 DEF NfBase, NfRanges
<1>4. NfTables'
  BY <1>1 DEF NfTables
<1>5. NfBackfills'
  BY <1>1 DEF NfBase, NfBackfills
<1>. QED
  BY <1>2, <1>3, <1>4, <1>5 DEF NfBase

LEMMA NfFailRun ==
  ASSUME NfBase, FailRun
  PROVE  NfBase'
<1>1. /\ UNCHANGED <<best, nfDisk>>
      /\ nfPc' = "down" /\ ~nfFresh' /\ table' = {} /\ nfBackfillEnd' = 0
      /\ nfTask' = "idle" /\ nfCurrent' = 0 /\ nfGoal' = 0 /\ nfTo' = 0
      /\ nfFetched' = <<>> /\ nfQueue' = <<>>
  BY DEF FailRun, chainVars
<1>2. nfFresh' \in BOOLEAN
  BY DEF FailRun
<1>0. Len(nfFetched') = 0 /\ Len(nfQueue') = 0
      /\ nfFetched' \in Seq(Block) /\ nfQueue' \in Seq(Nf!Event)
  BY <1>1
<1>3. ~Nf!Syncing' /\ NfDone' = 0
  BY <1>0, <1>1 DEF Nf!Syncing, NfDone
<1>4. NfTypes'
  BY <1>0, <1>1, <1>2, <1>3 DEF NfBase, NfTypes
<1>5. NfRanges'
  BY <1>0, <1>1, <1>3 DEF NfRanges
<1>6. NfTables'
  BY <1>1, <1>3, WholeNone DEF NfBase, NfTables
<1>7. NfBackfills'
  BY <1>1 DEF NfBackfills
<1>. QED
  BY <1>4, <1>5, <1>6, <1>7 DEF NfBase

(* The ingestion task is not the follow task. *)
LEMMA NfEnds ==
  ASSUME NfBase, Nf!BlockMissing \/ Nf!CallFails, SameStage
  PROVE  NfBase'
<1>1. Nf!EndTask /\ nfTask # "idle"
  BY DEF Nf!BlockMissing, Nf!CallFails
<1>. QED
  BY <1>1, NfEndTask

LEMMA NfForgets ==
  ASSUME NfBase, Forget, nfPc \in {"down", "saved"}, best' \in Block, mode' = "poll"
  PROVE  NfBase'
<1>1. /\ UNCHANGED <<nfPc, table, nfDisk, nfTask, nfFetched, nfQueue>>
      /\ nfFresh' = FALSE /\ nfBackfillEnd' = 0 /\ nfCurrent' = 0 /\ nfGoal' = 0 /\ nfTo' = 0
  BY DEF Forget
<1>2. ~Nf!Syncing /\ ~Nf!Syncing'
  BY <1>1 DEF Nf!Syncing
<1>3. nfQueue = <<>> /\ nfTask = "idle" /\ nfFetched = <<>>
  BY <1>2 DEF NfBase, NfRanges
<1>4. Len(nfQueue') = 0 /\ Len(nfFetched') = 0 /\ NfDone' = 0
  <2>1. Len(nfQueue') = 0 /\ Len(nfFetched') = 0
    BY <1>1, <1>3
  <2>. QED
    BY <2>1, <1>1 DEF NfDone
<1>5. NfTypes'
  BY <1>1 DEF NfBase, NfTypes
<1>6. NfRanges'
  BY <1>1, <1>2, <1>3, <1>4 DEF NfRanges
<1>7. NfTables'
  BY <1>1, <1>2 DEF NfBase, NfTables, Nf!Syncing
<1>8. NfBackfills'
  BY DEF NfBackfills
<1>. QED
  BY <1>5, <1>6, <1>7, <1>8 DEF NfBase

-----------------------------------------------------------------------------
(* Trees, trackers and the blocks in between, as far as the loop needs     *)
(* their shape: what leaves a tree has matters to WitnessServer alone.     *)

Record(S) == [block : Block, num : S]
Shaped(t) == \E O, S : t \in [offset : O, records : Seq(Record(S))]

LEMMA WiderSeq ==
  ASSUME NEW S, NEW T, S \subseteq T, NEW s \in Seq(S)
  PROVE  s \in Seq(T)
<1>1. \A i \in 1..Len(s) : s[i] \in T
  OBVIOUS
<1>. QED
  BY <1>1

LEMMA ShapedBare == ASSUME NEW o PROVE Shaped([offset |-> o, records |-> <<>>])
<1>1. [offset |-> o, records |-> <<>>] \in [offset : {o}, records : Seq(Record({}))]
  OBVIOUS
<1>. QED
  BY <1>1 DEF Shaped

LEMMA ShapedOne ==
  ASSUME NEW t, Shaped(t), NEW b \in Block, NEW n
  PROVE  Shaped([t EXCEPT !.records = <<Wit!BlockRecord(b, n)>>])
<1>1. PICK O, S : t \in [offset : O, records : Seq(Record(S))]
  BY DEF Shaped
<1>2. Wit!BlockRecord(b, n) \in Record({n})
  BY DEF Wit!BlockRecord, Record
<1>3. <<Wit!BlockRecord(b, n)>> \in Seq(Record({n}))
  BY <1>2
<1>4. [t EXCEPT !.records = <<Wit!BlockRecord(b, n)>>]
        \in [offset : O, records : Seq(Record({n}))]
  BY <1>1, <1>3
<1>. QED
  BY <1>4 DEF Shaped

LEMMA ShapedAppend ==
  ASSUME NEW t, Shaped(t), NEW b \in Block
  PROVE  Shaped(Wit!Appended(t, b))
<1>1. PICK O, S : t \in [offset : O, records : Seq(Record(S))]
  BY DEF Shaped
<1> DEFINE r == Wit!BlockRecord(b, Commitments[b])
           T == S \cup {Commitments[b]}
<1>2. r \in Record(T) /\ Record(S) \subseteq Record(T)
  BY DEF Wit!BlockRecord, Record
<1>3. t.records \in Seq(Record(S))
  BY <1>1
<1>4. t.records \in Seq(Record(T))
  BY <1>2, <1>3, WiderSeq
<1>5. Append(t.records, r) \in Seq(Record(T))
  <2> HIDE DEF r, T
  <2>. QED
    BY <1>2, <1>4
<1>6. Wit!Appended(t, b) = [t EXCEPT !.records = Append(t.records, r)]
  BY DEF Wit!Appended
<1> HIDE DEF r, T
<1>7. [t EXCEPT !.records = Append(t.records, r)] \in [offset : O, records : Seq(Record(T))]
  BY <1>1, <1>5
<1>. QED
  BY <1>6, <1>7 DEF Shaped

LEMMA ShapedRolledBack ==
  ASSUME NEW t, Shaped(t), NEW target \in Nat
  PROVE  Shaped(Wit!RolledBack(t, target))
<1>1. PICK O, S : t \in [offset : O, records : Seq(Record(S))]
  BY DEF Shaped
<1> DEFINE r == t.records
           Cut(k) == /\ k # 0 => HeightOf[r[k].block] <= target
                     /\ \A i \in (k + 1)..Len(r) : HeightOf[r[i].block] > target
           P == {m \in 0..Len(r) : m = 0 \/ HeightOf[r[m].block] <= target}
<1>2. r \in Seq(Record(S)) /\ Len(r) \in Nat
  BY <1>1
<1>3. \A i \in 1..Len(r) : HeightOf[r[i].block] \in Nat
  <2>1. \A i \in 1..Len(r) : r[i] \in Record(S)
    BY <1>2
  <2>. QED
    BY <2>1, HeightType DEF Record
<1>4. \E k \in P : \A m \in P : m <= k
  <2>1. P \in SUBSET Nat /\ P # {} /\ \A m \in P : m <= Len(r)
    BY <1>2
  <2> HIDE DEF P
  <2>. QED
    BY <2>1, <1>2, GreatestNat
<1>5. PICK k \in P : \A m \in P : m <= k
  BY <1>4
<1>6. ASSUME NEW i \in (k + 1)..Len(r)
      PROVE  HeightOf[r[i].block] > target
  <2>1. i \in 1..Len(r) /\ ~(i <= k)
    BY <1>2
  <2>2. i \notin P
    BY <2>1, <1>5
  <2>3. ~(HeightOf[r[i].block] <= target)
    BY <2>1, <2>2, <1>2
  <2>. QED
    BY <2>1, <2>3, <1>3
<1>7. k \in 0..Len(r) /\ Cut(k)
  BY <1>5, <1>6
<1> DEFINE n == CHOOSE m \in 0..Len(r) : Cut(m)
<1>8. n \in 0..Len(r)
  <2> HIDE DEF Cut
  <2>. QED
    BY <1>7
<1>9. Wit!RolledBack(t, target) = [t EXCEPT !.records = SubSeq(r, 1, n)]
  BY DEF Wit!RolledBack
<1> HIDE DEF n
<1>10. SubSeq(r, 1, n) \in Seq(Record(S))
  BY <1>2, <1>8
<1>11. [t EXCEPT !.records = SubSeq(r, 1, n)] \in [offset : O, records : Seq(Record(S))]
  BY <1>1, <1>10
<1>. QED
  BY <1>9, <1>11 DEF Shaped

LEMMA ShapedLatest ==
  ASSUME NEW t, Shaped(t)
  PROVE  Wit!Latest(t) \in Nat
<1>1. PICK O, S : t \in [offset : O, records : Seq(Record(S))]
  BY DEF Shaped
<1>2. t.records \in Seq(Record(S)) /\ Len(t.records) \in Nat
  BY <1>1
<1>3. CASE t.records = <<>>
  BY <1>3 DEF Wit!Latest
<1>4. CASE t.records # <<>>
  <2>1. t.records[Len(t.records)] \in Record(S)
    BY <1>2, <1>4
  <2>2. t.records[Len(t.records)].block \in Block
    BY <2>1 DEF Record
  <2>. QED
    BY <2>2, <1>4, HeightType DEF Wit!Latest, Wit!Last
<1>. QED
  BY <1>3, <1>4

-----------------------------------------------------------------------------
(* The witness subsystem *)

WitEvent(S) == [type : {"NewBlock"}, block : Block, prior : S]

WitTypes ==
  /\ Shaped(tree)
  /\ \A t \in witDisk : Shaped(t)
  /\ witFetched \in Seq(Block)
  /\ witTask = "send" => witFetched # <<>>
  /\ \E S : witQueue \in Seq(WitEvent(S))

LEMMA WitStays ==
  ASSUME WitTypes, UNCHANGED <<tree, witDisk, witFetched, witTask, witQueue>>
  PROVE  WitTypes'
  BY DEF WitTypes

LEMMA WitSyncRange ==
  ASSUME WitTypes, NEW first, NEW last, NEW size, Wit!SyncRange(first, last, size),
         Shaped(tree'), UNCHANGED <<witDisk, witQueue>>
  PROVE  WitTypes'
<1>1. UNCHANGED witFetched /\ (witTask' = "poll" \/ witTask' = witTask)
  BY DEF Wit!SyncRange
<1>. QED
  BY <1>1 DEF WitTypes

LEMMA WitPrepares ==
  ASSUME WitTypes, best \in Block, Wit!Start \/ Wit!ReadRoots \/ Wit!ReadCompletingBlock
  PROVE  WitTypes'
<1>1. CASE Wit!Start
  <2>1. UNCHANGED <<witDisk, witQueue>>
    BY <1>1 DEF Wit!Start
  <2>2. CASE \E snapshot \in witDisk :
               /\ tree' = snapshot
               /\ Wit!SyncRange(Wit!Resume(snapshot), HeightOf[best], Wit!ResumeSize(snapshot))
    <3>1. PICK snapshot \in witDisk :
                 /\ tree' = snapshot
                 /\ Wit!SyncRange(Wit!Resume(snapshot), HeightOf[best], Wit!ResumeSize(snapshot))
      BY <2>2
    <3>2. Shaped(tree')
      BY <3>1 DEF WitTypes
    <3>. QED
      BY <3>1, <3>2, <2>1, WitSyncRange
  <2>3. CASE UNCHANGED <<tree, witTask, witFetched>>
    BY <2>1, <2>3, WitStays
  <2>. QED
    BY <1>1, <2>2, <2>3 DEF Wit!Start
<1>2. CASE Wit!ReadRoots
  <2>1. UNCHANGED <<witDisk, witQueue>>
    BY <1>2 DEF Wit!ReadRoots
  <2>2. CASE Wit!CompletedShards >= WindowLimit
    <3>1. tree' = [offset |-> Wit!WindowStart, records |-> <<>>]
          /\ UNCHANGED <<witTask, witFetched>>
      BY <1>2, <2>2 DEF Wit!ReadRoots
    <3>2. Shaped(tree')
      BY <3>1, ShapedBare
    <3>. QED
      BY <2>1, <3>1, <3>2 DEF WitTypes
  <2>3. CASE ~(Wit!CompletedShards >= WindowLimit)
    <3>1. Wit!SyncRange(Floor, witTo, {}) /\ UNCHANGED tree
      BY <1>2, <2>3 DEF Wit!ReadRoots
    <3>2. Shaped(tree')
      BY <3>1 DEF WitTypes
    <3>. QED
      BY <2>1, <3>1, <3>2, WitSyncRange
  <2>. QED
    BY <2>2, <2>3
<1>3. CASE Wit!ReadCompletingBlock
  <2> DEFINE b == Wit!BlockAt(witCurrent)
  <2>1. UNCHANGED <<witDisk, witQueue>> /\ tree' = Wit!Seeded(b)
        /\ Wit!SyncRange(witCurrent + 1, witTo, {Wit!Size(tree')})
    BY <1>3 DEF Wit!ReadCompletingBlock
  <2>2. b \in Block
    <3>1. Available(witCurrent)
      BY <1>3, SameChain DEF Wit!ReadCompletingBlock
    <3>2. BlockAt(witCurrent) \in Block
      BY <3>1, BlockAtHeight
    <3>. QED
      BY <3>2, SameChain
  <2> HIDE DEF b
  <2>3. Shaped(tree')
    BY <2>1, <2>2, ShapedOne DEF Wit!Seeded, WitTypes
  <2>. QED
    BY <2>1, <2>3, WitSyncRange
<1>. QED
  BY <1>1, <1>2, <1>3

LEMMA WitSends ==
  ASSUME WitTypes, Wit!SendSync
  PROVE  WitTypes'
<1> DEFINE e == Wit!NewBlock(Head(witFetched), witPrior)
<1>1. /\ witTask = "send" /\ UNCHANGED <<tree, witDisk>>
      /\ witQueue' = Append(witQueue, e)
      /\ witFetched' = Tail(witFetched)
      /\ witTask' = IF Tail(witFetched) = <<>> THEN "poll" ELSE "send"
  BY DEF Wit!SendSync, Wit!HandOn, Wit!Send, Wit!mainVars
<1>2. witFetched \in Seq(Block) /\ witFetched # <<>>
  BY <1>1 DEF WitTypes
<1>3. Head(witFetched) \in Block /\ Tail(witFetched) \in Seq(Block)
  BY <1>2
<1>4. PICK S : witQueue \in Seq(WitEvent(S))
  BY DEF WitTypes
<1> DEFINE T == S \cup {witPrior}
<1>5. e \in WitEvent(T) /\ WitEvent(S) \subseteq WitEvent(T)
  BY <1>3 DEF Wit!NewBlock, WitEvent
<1> HIDE DEF e, T
<1>6. witQueue \in Seq(WitEvent(T))
  BY <1>4, <1>5, WiderSeq
<1>7. witQueue' \in Seq(WitEvent(T))
  BY <1>1, <1>5, <1>6
<1>8. witTask' = "send" => witFetched' # <<>>
  BY <1>1
<1>. QED
  BY <1>1, <1>3, <1>7, <1>8 DEF WitTypes

LEMMA WitRangeStep ==
  ASSUME WitTypes, best \in Block,
         \/ Wit!AppendSynced \/ Wit!RangeDone
         \/ Wit!PollSync \/ Wit!FetchBlock \/ Wit!BlockMissing \/ Wit!CallFails \/ Wit!SendSync
  PROVE  WitTypes'
<1>1. CASE Wit!AppendSynced
  <2>1. /\ tree' = Wit!Appended(tree, Head(witQueue).block)
        /\ witQueue' = Tail(witQueue) /\ witQueue # <<>>
        /\ UNCHANGED <<witDisk, witTask, witFetched>>
    BY <1>1 DEF Wit!AppendSynced, Wit!taskVars
  <2>2. PICK S : witQueue \in Seq(WitEvent(S))
    BY DEF WitTypes
  <2>3. Head(witQueue) \in WitEvent(S) /\ Tail(witQueue) \in Seq(WitEvent(S))
    BY <2>1, <2>2
  <2>4. Head(witQueue).block \in Block
    BY <2>3 DEF WitEvent
  <2>5. Shaped(tree')
    BY <2>1, <2>4, ShapedAppend DEF WitTypes
  <2>6. \E U : witQueue' \in Seq(WitEvent(U))
    BY <2>1, <2>3
  <2>. QED
    BY <2>1, <2>5, <2>6 DEF WitTypes
<1>2. CASE Wit!RangeDone
  <2>1. UNCHANGED <<tree, witDisk, witTask, witFetched, witQueue>>
    BY <1>2 DEF Wit!RangeDone, Wit!taskVars
  <2>. QED
    BY <2>1, WitStays
<1>3. CASE Wit!PollSync
  <2>1. UNCHANGED <<tree, witDisk, witFetched, witQueue>> /\ witTask' # "send"
    BY <1>3 DEF Wit!PollSync, Wit!mainVars
  <2>. QED
    BY <2>1 DEF WitTypes
<1>4. CASE Wit!FetchBlock
  <2> DEFINE h == Wit!NextHeight
  <2>1. /\ UNCHANGED <<tree, witDisk, witQueue>>
        /\ witFetched' = Append(witFetched, Wit!BlockAt(h)) /\ Wit!Available(h)
    BY <1>4 DEF Wit!FetchBlock, Wit!mainVars
  <2> HIDE DEF h
  <2>2. BlockAt(h) \in Block
    BY <2>1, SameChain, BlockAtHeight
  <2>3. witFetched' \in Seq(Block) /\ witFetched' # <<>>
    BY <2>1, <2>2, SameChain DEF WitTypes
  <2>. QED
    BY <2>1, <2>3 DEF WitTypes
<1>5. CASE Wit!BlockMissing \/ Wit!CallFails
  <2>1. UNCHANGED <<tree, witDisk, witQueue>> /\ witFetched' = <<>> /\ witTask' = "idle"
    BY <1>5 DEF Wit!BlockMissing, Wit!CallFails, Wit!EndTask, Wit!mainVars
  <2>. QED
    BY <2>1 DEF WitTypes
<1>. QED
  BY <1>1, <1>2, <1>3, <1>4, <1>5, WitSends

LEMMA WitFailRun ==
  ASSUME WitTypes, FailRun
  PROVE  WitTypes'
<1>1. /\ tree' = Wit!NoTree /\ witTask' = "idle" /\ witFetched' = <<>> /\ witQueue' = <<>>
      /\ UNCHANGED witDisk
  BY DEF FailRun
<1>2. Shaped(tree')
  BY <1>1, ShapedBare DEF Wit!NoTree
<1>3. witQueue' \in Seq(WitEvent({}))
  BY <1>1
<1>. QED
  BY <1>1, <1>2, <1>3 DEF WitTypes

-----------------------------------------------------------------------------
(* The tracker *)

TrackedPair == [height : Nat, hash : Block \cup {ZeroHash}]

(* A window of tracked pairs of ascending heights; the hash of zeros goes  *)
(* with height 0.                                                          *)
Window(w) ==
  /\ w \in Seq(TrackedPair)
  /\ Len(w) \in 1..TrackerDepth
  /\ \A i, j \in 1..Len(w) : i < j => w[i].height < w[j].height
  /\ \A i \in 1..Len(w) :
       w[i].height = IF w[i].hash \in Block THEN HeightOf[w[i].hash] ELSE 0

(* The blocks of a window are those of one branch. *)
OneBranch(w) ==
  \A i \in 1..Len(w) : w[i].hash \in Block => w[i].hash \in ChainOf[Tracker!Tip(w).hash]

(* What a table holds from the bottom of a window on is in the window, and *)
(* the other way round.                                                    *)
Covers(w, t) ==
  \A c \in t : HeightOf[c] >= w[1].height => \E i \in 1..Len(w) : w[i].hash = c
Holds(w, t) == \A i \in 1..Len(w) : w[i].hash \in Block => w[i].hash \in t

LEMMA PairTracked ==
  ASSUME NEW h \in Nat, NEW hash \in Block \cup {ZeroHash}
  PROVE  /\ Tracker!Pair(h, hash) \in TrackedPair
         /\ Tracker!Pair(h, hash).height = h
         /\ Tracker!Pair(h, hash).hash = hash
  BY DEF Tracker!Pair, TrackedPair

LEMMA WindowPair ==
  ASSUME NEW w, Window(w), NEW i \in 1..Len(w)
  PROVE  /\ w[i] \in TrackedPair
         /\ w[i].height \in Nat
         /\ w[i].hash \in Block \cup {ZeroHash}
<1>1. w[i] \in TrackedPair
  BY DEF Window
<1>. QED
  BY <1>1 DEF TrackedPair

LEMMA WindowEnds ==
  ASSUME NEW w, Window(w)
  PROVE  /\ w \in Seq(TrackedPair) /\ Len(w) \in Nat /\ w # <<>>
         /\ 1 \in 1..Len(w) /\ Len(w) \in 1..Len(w)
         /\ \A i \in 1..Len(w) : w[1].height <= w[i].height /\ w[i].height <= Tracker!Tip(w).height
<1>1. w \in Seq(TrackedPair) /\ Len(w) \in Nat /\ w # <<>> /\ 1 \in 1..Len(w) /\ Len(w) \in 1..Len(w)
  BY Constants DEF Window
<1>2. ASSUME NEW i \in 1..Len(w)
      PROVE  w[1].height <= w[i].height /\ w[i].height <= w[Len(w)].height
  <2>1. w[1].height \in Nat /\ w[i].height \in Nat /\ w[Len(w)].height \in Nat
    BY <1>1, WindowPair
  <2>2. w[1].height <= w[i].height
    <3>1. CASE i = 1
      BY <3>1, <2>1
    <3>2. CASE 1 < i
      <4>1. w[1].height < w[i].height
        BY <3>2, <1>1 DEF Window
      <4>. QED
        BY <4>1, <2>1
    <3>. QED
      BY <3>1, <3>2
  <2>3. w[i].height <= w[Len(w)].height
    <3>1. CASE i = Len(w)
      BY <3>1, <2>1
    <3>2. CASE i < Len(w)
      <4>1. w[i].height < w[Len(w)].height
        BY <3>2, <1>1 DEF Window
      <4>. QED
        BY <4>1, <2>1
    <3>. QED
      BY <3>1, <3>2, <1>1
  <2>. QED
    BY <2>2, <2>3
<1>. QED
  BY <1>1, <1>2 DEF Tracker!Tip

(* The parent of the next height can only be tracked as the tip. *)
LEMMA ParentIsTip ==
  ASSUME NEW w, Window(w), NEW b \in Block, HeightOf[b] = Tracker!Tip(w).height + 1,
         ~Tracker!Links(w, HeightOf[b], Parent[b]), NEW i \in 1..Len(w)
  PROVE  w[i].hash # Parent[b]
<1> SUFFICES ASSUME w[i].hash = Parent[b]
             PROVE  FALSE
  OBVIOUS
<1>1. Len(w) \in Nat /\ Len(w) \in 1..Len(w)
  BY WindowEnds
<1>2. Parent[b] \in Block
  <2>1. w[i].hash \in Block \cup {ZeroHash}
    BY WindowPair
  <2>2. Parent[b] \in Block \cup {Genesis}
    BY ChainAssumption
  <2>. QED
    BY <2>1, <2>2, Constants
<1>3. w[i].height = HeightOf[Parent[b]] /\ HeightOf[b] = HeightOf[Parent[b]] + 1
      /\ HeightOf[Parent[b]] \in Nat
  BY <1>2, ParentHeight, HeightType DEF Window
<1>4. w[Len(w)].height = w[i].height
  <2>1. w[Len(w)].height \in Nat
    BY <1>1, WindowPair
  <2>. QED
    BY <2>1, <1>3 DEF Tracker!Tip
<1>5. i = Len(w)
  <2>1. ~(i < Len(w))
    BY <1>1, <1>3, <1>4 DEF Window
  <2>. QED
    BY <2>1, <1>1
<1>. QED
  BY <1>5 DEF Tracker!Links, Tracker!Tip

(* A block that extends the window: the window slides over it. *)
LEMMA PushedExtends ==
  ASSUME NEW w, Window(w), OneBranch(w), NEW b \in Block,
         Tracker!Extends(w, HeightOf[b], Parent[b])
  PROVE  LET v == Tracker!Pushed(w, HeightOf[b], b, Parent[b])
         IN  /\ Window(v) /\ OneBranch(v)
             /\ Tracker!Tip(v) = Tracker!Pair(HeightOf[b], b)
             /\ w[1].height <= v[1].height
             /\ \A i \in 1..Len(v) : v[i].hash = b \/ \E j \in 1..Len(w) : v[i] = w[j]
             /\ \A j \in 1..Len(w) : w[j].height < v[1].height \/ \E i \in 1..Len(v) : v[i] = w[j]
             /\ \E i \in 1..Len(v) : v[i].hash = b
             /\ Parent[b] = Tracker!Tip(w).hash /\ Parent[b] \in Block
<1> DEFINE p == Tracker!Pair(HeightOf[b], b)
           a == Append(w, p)
           v == Tracker!Pushed(w, HeightOf[b], b, Parent[b])
<1>1. /\ w \in Seq(TrackedPair) /\ Len(w) \in Nat /\ w # <<>>
      /\ 1 \in 1..Len(w) /\ Len(w) \in 1..Len(w)
  BY WindowEnds
<1>2. /\ Tracker!Links(w, HeightOf[b], Parent[b])
      /\ Parent[b] = w[Len(w)].hash /\ HeightOf[b] = w[Len(w)].height + 1
  BY <1>1 DEF Tracker!Extends, Tracker!Links, Tracker!Tip
<1>3. Parent[b] \in Block
  <2>1. Parent[b] \in Block \cup {ZeroHash}
    BY <1>1, <1>2, WindowPair
  <2>2. Parent[b] \in Block \cup {Genesis}
    BY ChainAssumption
  <2>. QED
    BY <2>1, <2>2, Constants
<1>4. p \in TrackedPair /\ p.height = HeightOf[b] /\ p.hash = b /\ HeightOf[b] \in Nat
  BY HeightType, PairTracked
<1>5. v = Tracker!PopFront(a)
  BY <1>1, <1>2 DEF Tracker!Pushed
<1> HIDE DEF p
<1>6. /\ a \in Seq(TrackedPair) /\ Len(a) = Len(w) + 1 /\ a[Len(w) + 1] = p
      /\ \A i \in 1..Len(w) : a[i] = w[i]
  BY <1>1, <1>4
<1> HIDE DEF a
(* v is a from its k-th pair on. *)
<1>7. \E k \in {0, 1} : /\ v \in Seq(TrackedPair)
                        /\ Len(v) = Len(a) - k /\ Len(v) \in 1..TrackerDepth
                        /\ \A i \in 1..Len(v) : v[i] = a[i + k]
  <2>0. TrackerDepth \in Nat \ {0, 1} /\ Len(w) <= TrackerDepth
    BY Constants DEF Window
  <2>1. CASE Len(a) > TrackerDepth
    <3>1. v = Tail(a)
      BY <2>1, <1>5 DEF Tracker!PopFront
    <3>2. Tail(a) \in Seq(TrackedPair) /\ Len(Tail(a)) = Len(a) - 1
          /\ \A i \in 1..Len(Tail(a)) : Tail(a)[i] = a[i + 1]
      BY <1>1, <1>6
    <3> HIDE DEF v
    <3>3. Len(v) \in 1..TrackerDepth
      BY <3>1, <3>2, <2>0, <2>1, <1>1, <1>6
    <3>. QED
      BY <3>1, <3>2, <3>3
  <2>2. CASE ~(Len(a) > TrackerDepth)
    <3>1. v = a
      BY <2>2, <1>5 DEF Tracker!PopFront
    <3> HIDE DEF v
    <3>2. Len(v) = Len(a) - 0 /\ Len(v) \in 1..TrackerDepth /\ v \in Seq(TrackedPair)
      BY <3>1, <2>0, <2>2, <1>1, <1>6
    <3>3. \A i \in 1..Len(v) : v[i] = a[i + 0]
      BY <3>1
    <3>. QED
      BY <3>2, <3>3
  <2>. QED
    BY <2>1, <2>2
<1> HIDE DEF v
<1>8. PICK k \in {0, 1} : /\ v \in Seq(TrackedPair)
                          /\ Len(v) = Len(a) - k /\ Len(v) \in 1..TrackerDepth
                          /\ \A i \in 1..Len(v) : v[i] = a[i + k]
  BY <1>7
<1>9. ASSUME NEW i \in 1..Len(w)
      PROVE  w[i].height \in Nat /\ w[i].height < HeightOf[b]
  <2>1. w[i].height \in Nat /\ w[Len(w)].height \in Nat
    BY <1>1, WindowPair
  <2>2. w[i].height <= w[Len(w)].height
    BY WindowEnds DEF Tracker!Tip
  <2>. QED
    BY <2>1, <2>2, <1>2
<1>10. ASSUME NEW i \in 1..Len(a), NEW j \in 1..Len(a), i < j
       PROVE  a[i].height < a[j].height
  <2>1. i \in 1..Len(w)
    BY <1>1, <1>6, <1>10
  <2>2. CASE j \in 1..Len(w)
    BY <2>1, <2>2, <1>6, <1>10 DEF Window
  <2>3. CASE j = Len(w) + 1
    BY <2>1, <2>3, <1>4, <1>6, <1>9
  <2>. QED
    BY <2>2, <2>3, <1>1, <1>6
<1>11. ASSUME NEW i \in 1..Len(a)
       PROVE  /\ a[i].height = IF a[i].hash \in Block THEN HeightOf[a[i].hash] ELSE 0
              /\ a[i].hash \in Block => a[i].hash \in ChainOf[b]
  <2>1. CASE i \in 1..Len(w)
    <3>1. a[i] = w[i] /\ Tracker!Tip(w).hash = Parent[b]
      BY <2>1, <1>2, <1>6 DEF Tracker!Tip
    <3>2. ChainOf[b] = ChainOf[Parent[b]] \cup {b}
      BY <1>3, ChainOfBlock
    <3>. QED
      BY <2>1, <3>1, <3>2 DEF Window, OneBranch
  <2>2. CASE i = Len(w) + 1
    BY <2>2, <1>4, <1>6, ChainBelowTip
  <2>. QED
    BY <2>1, <2>2, <1>1, <1>6
<1>12. \A i \in 1..Len(v) : i + k \in 1..Len(a) /\ i \in Nat
  BY <1>1, <1>6, <1>8
<1>13. Len(v) \in 1..Len(v) /\ Len(v) \in Nat /\ Len(v) + k = Len(w) + 1
       /\ v[Len(v)] = p /\ 1 \in 1..Len(v)
  <2>1. Len(v) \in 1..Len(v) /\ Len(v) + k = Len(w) + 1 /\ Len(v) \in Nat /\ 1 \in 1..Len(v)
    BY <1>1, <1>6, <1>8, Constants
  <2>2. v[Len(v)] = a[Len(v) + k]
    BY <2>1, <1>8
  <2>. QED
    BY <2>1, <2>2, <1>6
<1>14. ASSUME NEW i \in 1..Len(v), NEW j \in 1..Len(v), i < j
       PROVE  v[i].height < v[j].height
  <2>1. i + k < j + k
    BY <1>12, <1>14
  <2>. QED
    BY <2>1, <1>8, <1>10, <1>12
<1>15. Window(v)
  <2>1. \A i \in 1..Len(v) :
          v[i].height = IF v[i].hash \in Block THEN HeightOf[v[i].hash] ELSE 0
    BY <1>8, <1>11, <1>12
  <2>. QED
    BY <2>1, <1>8, <1>14 DEF Window
<1>16. Tracker!Tip(v) = p
  BY <1>13 DEF Tracker!Tip
<1>17. OneBranch(v)
  BY <1>4, <1>8, <1>11, <1>12, <1>16 DEF OneBranch
<1>18. \A i \in 1..Len(v) : v[i].hash = b \/ \E j \in 1..Len(w) : v[i] = w[j]
  <2> TAKE i \in 1..Len(v)
  <2>1. v[i] = a[i + k] /\ i + k \in 1..Len(a)
    BY <1>8, <1>12
  <2>2. CASE i + k \in 1..Len(w)
    BY <2>1, <2>2, <1>6
  <2>3. CASE i + k = Len(w) + 1
    BY <2>1, <2>3, <1>4, <1>6
  <2>. QED
    BY <2>1, <2>2, <2>3, <1>1, <1>6
<1>19. w[1].height <= v[1].height
  <2>1. v[1] = a[1 + k] /\ 1 + k \in 1..Len(a)
    BY <1>8, <1>12, <1>13
  <2>2. a[1] = w[1] /\ 1 \in 1..Len(a) /\ w[1].height \in Nat
    BY <1>1, <1>6, <1>9
  <2>3. CASE k = 0
    BY <2>1, <2>2, <2>3
  <2>4. CASE k = 1
    <3>1. a[1].height < a[1 + k].height
      BY <2>1, <2>2, <2>4, <1>10
    <3>2. v[1].height \in Nat
      BY <1>13, <1>15, WindowPair
    <3>. QED
      BY <3>1, <3>2, <2>1, <2>2
  <2>. QED
    BY <2>3, <2>4
<1>20. ASSUME NEW j \in 1..Len(w)
       PROVE  w[j].height < v[1].height \/ \E i \in 1..Len(v) : v[i] = w[j]
  <2>1. a[j] = w[j] /\ j \in 1..Len(a) /\ j \in Nat
    BY <1>1, <1>6
  <2>2. CASE j - k \in 1..Len(v)
    <3>1. v[j - k] = a[(j - k) + k] /\ (j - k) + k = j
      BY <2>1, <2>2, <1>8
    <3>. QED
      BY <3>1, <2>1, <2>2
  <2>3. CASE ~(j - k \in 1..Len(v))
    <3>1. k = 1 /\ j = 1
      BY <2>1, <2>3, <1>1, <1>6, <1>8
    <3>2. v[1] = a[1 + 1] /\ 1 + 1 \in 1..Len(a)
      BY <3>1, <1>8, <1>12, <1>13
    <3>. QED
      BY <3>1, <3>2, <2>1, <1>10
  <2>. QED
    BY <2>2, <2>3
<1>21. \E i \in 1..Len(v) : v[i].hash = b
  BY <1>4, <1>13
<1>. QED
  BY <1>2, <1>3, <1>15, <1>16, <1>17, <1>18, <1>19, <1>20, <1>21 DEF v, p, Tracker!Tip

(* A block that does not: the fork is below the window, which is emptied   *)
(* but for a pair of height 0.                                             *)
LEMMA PushedReorg ==
  ASSUME NEW w, Window(w), NEW b \in Block, HeightOf[b] = Tracker!Tip(w).height + 1,
         ~Tracker!Extends(w, HeightOf[b], Parent[b])
  PROVE  LET v == Tracker!Pushed(w, HeightOf[b], b, Parent[b])
         IN  /\ Window(v) /\ OneBranch(v)
             /\ Tracker!Tip(v) = Tracker!Pair(HeightOf[b], b)
             /\ \A i \in 1..Len(v) : v[i].hash = b \/ v[i].hash \notin Block
             /\ \E i \in 1..Len(v) : v[i].hash = b
             /\ Tracker!FindForkPoint(w, Parent[b]) = Tracker!Below(w[1].height)
             /\ w[1].height <= v[1].height
<1> DEFINE p == Tracker!Pair(HeightOf[b], b)
           v == Tracker!Pushed(w, HeightOf[b], b, Parent[b])
           fork == Tracker!FindForkPoint(w, Parent[b])
           cut == Tracker!TruncateTo(w, fork)
           Cut(m) == /\ m # 0 => w[m].height <= fork
                     /\ \A i \in (m + 1)..Len(w) : w[i].height > fork
           z == IF w[1].height = 0 THEN 1 ELSE 0
<1>1. /\ w \in Seq(TrackedPair) /\ Len(w) \in Nat /\ w # <<>>
      /\ 1 \in 1..Len(w) /\ Len(w) \in 1..Len(w)
      /\ \A i \in 1..Len(w) : w[i].height \in Nat /\ w[1].height <= w[i].height
  BY WindowEnds, WindowPair
<1>2. ~Tracker!Links(w, HeightOf[b], Parent[b])
  BY DEF Tracker!Extends
<1>3. {i \in DOMAIN w : w[i].hash = Parent[b]} = {}
  BY <1>1, <1>2, ParentIsTip
<1>4. fork = Tracker!Below(w[1].height)
  BY <1>1, <1>3 DEF Tracker!FindForkPoint
<1>5. v = Append(cut, p)
  BY <1>1, <1>2 DEF Tracker!Pushed
<1>6. p \in TrackedPair /\ p.height = HeightOf[b] /\ p.hash = b
      /\ HeightOf[b] \in Nat /\ HeightOf[b] # 0
  BY HeightType, PairTracked
<1>7. w[1].height < HeightOf[b]
  <2>1. w[1].height <= w[Len(w)].height /\ w[Len(w)].height \in Nat /\ w[1].height \in Nat
    BY <1>1
  <2>. QED
    BY <2>1 DEF Tracker!Tip
<1>8. cut = SubSeq(w, 1, CHOOSE m \in 0..Len(w) : Cut(m))
  BY DEF Tracker!TruncateTo
<1> HIDE DEF p, v
<1>9. z \in 0..Len(w) /\ Cut(z)
  <2>1. CASE w[1].height = 0
    <3>1. fork = 0 /\ z = 1
      BY <2>1, <1>4 DEF Tracker!Below
    <3>2. ASSUME NEW i \in 2..Len(w)
          PROVE  w[i].height > 0
      <4>1. i \in 1..Len(w) /\ 1 < i
        BY <1>1
      <4>. QED
        BY <4>1, <2>1, <1>1 DEF Window
    <3> HIDE DEF fork, z
    <3>3. z \in 0..Len(w)
      BY <3>1, <1>1
    <3>4. w[1].height <= 0
      BY <2>1
    <3>. QED
      BY <3>1, <3>2, <3>3, <3>4
  <2>2. CASE w[1].height # 0
    <3>1. fork = w[1].height - 1 /\ z = 0
      BY <2>2, <1>4 DEF Tracker!Below
    <3>2. \A i \in 1..Len(w) : w[i].height > w[1].height - 1
      BY <1>1
    <3> HIDE DEF fork, z
    <3>. QED
      BY <3>1, <3>2, <1>1
  <2>. QED
    BY <2>1, <2>2
<1>10. ASSUME NEW m \in 0..Len(w), Cut(m)
       PROVE  m = z
  <2>1. CASE w[1].height = 0
    <3>1. fork = 0 /\ z = 1
      BY <2>1, <1>4 DEF Tracker!Below
    <3>2. m # 0
      <4>1. m = 0 => w[1].height > fork
        BY <1>1, <1>10
      <4> HIDE DEF fork
      <4>. QED
        BY <4>1, <3>1, <2>1
    <3>3. ~(1 < m)
      <4>1. m # 0 => w[m].height <= fork
        BY <1>10
      <4>2. 1 < m => w[1].height < w[m].height /\ w[m].height \in Nat
        BY <1>1 DEF Window
      <4> HIDE DEF fork
      <4>. QED
        BY <4>1, <4>2, <3>1, <3>2, <2>1, <1>1
    <3>. QED
      BY <3>1, <3>2, <3>3, <1>1
  <2>2. CASE w[1].height # 0
    <3>1. fork = w[1].height - 1 /\ z = 0
      BY <2>2, <1>4 DEF Tracker!Below
    <3>2. m # 0 => w[m].height <= fork
      BY <1>10
    <3>3. \A i \in 1..Len(w) : w[i].height > w[1].height - 1
      BY <1>1
    <3> HIDE DEF fork, z
    <3>. QED
      BY <3>1, <3>2, <3>3, <1>1
  <2>. QED
    BY <2>1, <2>2
<1>11. (CHOOSE m \in 0..Len(w) : Cut(m)) = z
  <2> HIDE DEF Cut, z
  <2>. QED
    BY <1>9, <1>10
<1>12. cut = SubSeq(w, 1, z)
  BY <1>8, <1>11
<1> HIDE DEF cut, fork, Cut
<1>13. /\ cut \in Seq(TrackedPair) /\ Len(cut) = z /\ z \in {0, 1}
       /\ z = 1 => cut[1] = w[1] /\ w[1].height = 0
  <2>1. z \in {0, 1} /\ (z = 1 => w[1].height = 0)
    OBVIOUS
  <2>2. z \in 0..Len(w)
    BY <1>9
  <2> HIDE DEF z
  <2>3. /\ SubSeq(w, 1, z) \in Seq(TrackedPair) /\ Len(SubSeq(w, 1, z)) = z
        /\ \A i \in 1..z : SubSeq(w, 1, z)[i] = w[i]
    BY <2>2, <1>1
  <2>. QED
    BY <2>1, <2>3, <1>12
<1> HIDE DEF z
<1>14. /\ v \in Seq(TrackedPair) /\ Len(v) = z + 1 /\ v[z + 1] = p
       /\ z = 1 => v[1] = w[1]
  BY <1>5, <1>6, <1>13
<1>15. Len(v) \in 1..TrackerDepth
  BY <1>13, <1>14, Constants
<1>16. \A i \in 1..Len(v) : i = z + 1 \/ (i = 1 /\ z = 1)
  BY <1>13, <1>14
<1>17. z = 1 => w[1].hash \notin Block
  <2>1. w[1].hash \in Block => HeightOf[w[1].hash] # 0 /\ w[1].height = HeightOf[w[1].hash]
    BY <1>1, HeightType DEF Window
  <2>. QED
    BY <2>1, <1>13
<1>18. Window(v)
  <2>1. \A i \in 1..Len(v) :
          v[i].height = IF v[i].hash \in Block THEN HeightOf[v[i].hash] ELSE 0
    BY <1>6, <1>13, <1>14, <1>16, <1>17
  <2>2. ASSUME NEW i \in 1..Len(v), NEW j \in 1..Len(v), i < j
        PROVE  v[i].height < v[j].height
    <3>1. i = 1 /\ z = 1 /\ j = z + 1
      BY <2>2, <1>13, <1>16
    <3>. QED
      BY <3>1, <1>6, <1>13, <1>14
  <2>. QED
    BY <2>1, <2>2, <1>14, <1>15 DEF Window
<1>19. Tracker!Tip(v) = p
  BY <1>14 DEF Tracker!Tip
<1>20. \A i \in 1..Len(v) : v[i].hash = b \/ v[i].hash \notin Block
  BY <1>6, <1>14, <1>16, <1>17
<1>21. OneBranch(v)
  BY <1>6, <1>19, <1>20, ChainBelowTip DEF OneBranch
<1>22. \E i \in 1..Len(v) : v[i].hash = b
  <2>1. z + 1 \in 1..Len(v)
    BY <1>13, <1>14
  <2>. QED
    BY <2>1, <1>6, <1>14
<1>23. w[1].height <= v[1].height
  <2>1. CASE z = 0
    BY <2>1, <1>1, <1>6, <1>7, <1>14
  <2>2. CASE z = 1
    BY <2>2, <1>1, <1>14
  <2>. QED
    BY <2>1, <2>2, <1>13
<1>. QED
  BY <1>4, <1>18, <1>19, <1>20, <1>21, <1>22, <1>23 DEF v, p, fork

(* Without a table the tracker starts with a hash of zeros and is no       *)
(* window; all that is needed of it are its types.                         *)
LEMMA ForkPointType ==
  ASSUME NEW w \in Seq(TrackedPair), NEW hash
  PROVE  Tracker!FindForkPoint(w, hash) \in Nat
<1> DEFINE hits == {i \in DOMAIN w : w[i].hash = hash}
<1>1. Len(w) \in Nat /\ DOMAIN w = 1..Len(w) /\ \A i \in 1..Len(w) : w[i].height \in Nat
  <2>1. \A i \in 1..Len(w) : w[i] \in TrackedPair
    OBVIOUS
  <2>. QED
    BY <2>1 DEF TrackedPair
<1>2. CASE hits # {}
  <2>1. hits \in SUBSET Nat /\ \A i \in hits : i <= Len(w)
    BY <1>1
  <2>2. \E i \in hits : \A j \in hits : j <= i
    <3> HIDE DEF hits
    <3>. QED
      BY <2>1, <1>1, <1>2, GreatestNat
  <2> DEFINE k == CHOOSE i \in hits : \A j \in hits : j <= i
  <2>3. k \in hits
    <3> HIDE DEF hits
    <3>. QED
      BY <2>2
  <2>4. Tracker!FindForkPoint(w, hash) = w[k].height
    BY <1>2 DEF Tracker!FindForkPoint
  <2> HIDE DEF k
  <2>. QED
    BY <2>3, <2>4, <1>1
<1>3. CASE hits = {} /\ w = <<>>
  BY <1>3 DEF Tracker!FindForkPoint
<1>4. CASE hits = {} /\ w # <<>>
  <2>1. Tracker!FindForkPoint(w, hash) = Tracker!Below(w[1].height)
    BY <1>4 DEF Tracker!FindForkPoint
  <2>2. w[1].height \in Nat
    BY <1>1, <1>4
  <2>. QED
    BY <2>1, <2>2 DEF Tracker!Below
<1>. QED
  BY <1>2, <1>3, <1>4

LEMMA TruncatedType ==
  ASSUME NEW w \in Seq(TrackedPair), NEW fork \in Nat
  PROVE  Tracker!TruncateTo(w, fork) \in Seq(TrackedPair)
<1> DEFINE Cut(m) == /\ m # 0 => w[m].height <= fork
                     /\ \A i \in (m + 1)..Len(w) : w[i].height > fork
           P == {i \in 1..Len(w) : w[i].height <= fork}
           S == {m \in 0..Len(w) : m = 0 \/ m \in P}
<1>1. Len(w) \in Nat /\ \A i \in 1..Len(w) : w[i].height \in Nat
  <2>1. \A i \in 1..Len(w) : w[i] \in TrackedPair
    OBVIOUS
  <2>. QED
    BY <2>1 DEF TrackedPair
<1>2. \E k \in S : \A m \in S : m <= k
  <2>1. S \in SUBSET Nat /\ S # {} /\ \A m \in S : m <= Len(w)
    BY <1>1
  <2> HIDE DEF S
  <2>. QED
    BY <2>1, <1>1, GreatestNat
<1>3. PICK k \in S : \A m \in S : m <= k
  BY <1>2
<1>4. ASSUME NEW i \in (k + 1)..Len(w)
      PROVE  w[i].height > fork
  <2>1. i \in 1..Len(w) /\ k < i /\ i \in Nat /\ k \in Nat
    BY <1>1
  <2>2. i \notin P
    BY <2>1, <1>3
  <2>. QED
    BY <2>1, <2>2, <1>1
<1>5. \E m \in 0..Len(w) : Cut(m)
  BY <1>3, <1>4
<1> DEFINE n == CHOOSE m \in 0..Len(w) : Cut(m)
<1>6. n \in 0..Len(w)
  <2> HIDE DEF Cut
  <2>. QED
    BY <1>5
<1>7. Tracker!TruncateTo(w, fork) = SubSeq(w, 1, n)
  BY DEF Tracker!TruncateTo
<1> HIDE DEF n
<1>. QED
  BY <1>1, <1>6, <1>7

LEMMA PushedType ==
  ASSUME NEW w \in Seq(TrackedPair), NEW h \in Nat, NEW hash \in Block, NEW prev
  PROVE  Tracker!Pushed(w, h, hash, prev) \in Seq(TrackedPair)
<1> DEFINE p == Tracker!Pair(h, hash)
           v == Tracker!Pushed(w, h, hash, prev)
<1>1. p \in TrackedPair
  BY PairTracked
<1>2. CASE w = <<>>
  <2>1. v = <<p>>
    BY <1>2 DEF Tracker!Pushed, Tracker!WithTip
  <2> HIDE DEF p, v
  <2>. QED
    BY <2>1, <1>1 DEF v
<1>3. CASE w # <<>> /\ Tracker!Links(w, h, prev)
  <2> DEFINE u == Append(w, p)
  <2>1. v = Tail(u) \/ v = u
    BY <1>3 DEF Tracker!Pushed, Tracker!PopFront
  <2> HIDE DEF p, v
  <2>2. u \in Seq(TrackedPair) /\ Len(u) = Len(w) + 1 /\ Len(w) \in Nat
    BY <1>1
  <2> HIDE DEF u
  <2>3. u # <<>>
    BY <2>2
  <2>. QED
    BY <2>1, <2>2, <2>3 DEF v
<1>4. CASE w # <<>> /\ ~Tracker!Links(w, h, prev)
  <2> DEFINE u == Tracker!TruncateTo(w, Tracker!FindForkPoint(w, prev))
  <2>1. v = Append(u, p)
    BY <1>4 DEF Tracker!Pushed
  <2>2. u \in Seq(TrackedPair)
    BY ForkPointType, TruncatedType
  <2> HIDE DEF p, v, u
  <2>. QED
    BY <2>1, <2>2, <1>1 DEF v
<1>. QED
  BY <1>2, <1>3, <1>4

(* Eviction leaves alone what is in the window: it has room for it.        *)
LEMMA EvictedHolds ==
  ASSUME NEW t, Whole(t), NEW w, Window(w), Covers(w, t), Holds(w, t)
  PROVE  Holds(w, Nf!Evicted(t))
<1> DEFINE S == {h \in Nf!Heights(t) \cup {Nf!Latest(t) + 1} :
                   Nf!Size(Nf!From(t, h)) <= TargetSize}
<1>1. t \in SUBSET Block /\ \A c \in t : HeightOf[c] \in Nat
  BY HeightType DEF Whole
<1> SUFFICES ASSUME NEW i \in 1..Len(w), w[i].hash \in Block
             PROVE  w[i].hash \in Nf!Evicted(t)
  BY DEF Holds
<1> DEFINE b == w[i].hash
           f == Nf!From(t, HeightOf[b])
<1>2. b \in t /\ w[i].height = HeightOf[b]
  BY DEF Holds, Window
<1>3. w \in Seq(TrackedPair) /\ Len(w) \in Nat /\ w[1].height <= HeightOf[b]
      /\ w[1].height \in Nat /\ Len(w) <= TrackerDepth
  BY <1>2, WindowEnds, WindowPair, Constants DEF Window
(* Not above the window, hence at most as many blocks as it has pairs. *)
<1>4. f \subseteq {w[j].hash : j \in 1..Len(w)}
  <2> SUFFICES ASSUME NEW c \in f
               PROVE  \E j \in 1..Len(w) : c = w[j].hash
    OBVIOUS
  <2>1. c \in t /\ HeightOf[c] >= HeightOf[b]
    BY DEF Nf!From
  <2>2. HeightOf[c] >= w[1].height
    BY <2>1, <1>1, <1>2, <1>3
  <2>. QED
    BY <2>1, <2>2 DEF Covers
<1>5. IsFiniteSet(f) /\ Cardinality(f) <= TrackerDepth
  <2>1. IsFiniteSet(1..Len(w)) /\ Cardinality(1..Len(w)) = Len(w)
    <3>1. Cardinality(1..Len(w)) = IF 1 > Len(w) THEN 0 ELSE Len(w) - 1 + 1
      BY <1>3, FS_Interval
    <3>. QED
      BY <3>1, <1>3, FS_Interval
  <2> DEFINE img == {w[j].hash : j \in 1..Len(w)}
  <2>2. IsFiniteSet(img) /\ Cardinality(img) <= Len(w) /\ Cardinality(img) \in Nat
    <3> DEFINE g == [j \in 1..Len(w) |-> w[j].hash]
    <3>1. g \in Surjection(1..Len(w), img)
      BY DEF Surjection
    <3>2. IsFiniteSet(img) /\ Cardinality(img) <= Cardinality(1..Len(w))
      <4> HIDE DEF g, img
      <4>. QED
        BY <3>1, <2>1, FS_Surjection
    <3> HIDE DEF img
    <3>. QED
      BY <3>2, <2>1, FS_CardinalityType
  <2> HIDE DEF img
  <2>3. f \subseteq img
    BY <1>4 DEF img
  <2> HIDE DEF f
  <2>4. IsFiniteSet(f) /\ Cardinality(f) <= Cardinality(img) /\ Cardinality(f) \in Nat
    BY <2>2, <2>3, FS_Subset, FS_CardinalityType
  <2>. QED
    BY <2>2, <2>4, <1>3, Constants
<1>6. Nf!Size(f) <= TargetSize
  <2>1. f \in SUBSET Block
    BY <1>1 DEF Nf!From
  <2> HIDE DEF f
  <2>. QED
    BY <2>1, <1>5, WindowFitsAssumption
<1>7. HeightOf[b] \in S
  BY <1>2, <1>6 DEF Nf!Heights
<1>8. S \in SUBSET Nat
  <2>1. Nf!Heights(t) \in SUBSET Nat /\ Nf!Latest(t) + 1 \in Nat
    BY <1>1, LatestBounds DEF Nf!Heights
  <2>. QED
    BY <2>1
<1>9. Nf!Min(S) \in S /\ \A k \in S : Nf!Min(S) <= k
  <2> HIDE DEF S, b
  <2>1. \E h \in S : \A k \in S : h <= k
    BY <1>7, <1>8, LeastNat
  <2>. QED
    BY <2>1 DEF Nf!Min
<1>10. Nf!Evicted(t) = Nf!From(t, Nf!Min(S))
  BY DEF Nf!Evicted
<1> HIDE DEF S
<1>11. HeightOf[b] >= Nf!Min(S)
  BY <1>1, <1>2, <1>7, <1>8, <1>9
<1>. QED
  BY <1>2, <1>10, <1>11 DEF Nf!From

-----------------------------------------------------------------------------
(* The loop *)

(* The blocks read follow each other above the current height.             *)
LoopTypes ==
  /\ mode \in {"sync", "failing", "catchup", "enter",
               "poll", "fetch", "apply", "publish", "save", "saved"}
  /\ tracker \in Seq(TrackedPair)
  /\ height \in Nat /\ refusals \in Nat
  /\ fetched \in Seq(Block)
  /\ \A i \in 1..Len(fetched) : HeightOf[fetched[i]] = height + i
  /\ mode \notin {"fetch", "apply"} => fetched = <<>>

(* A table that is built has come to rest before the loop begins, and      *)
(* while the tree catches up.                                              *)
ModesInv ==
  /\ nfPc # "down" => HasNullifier
  /\ mode = "catchup" =>
       /\ HasNullifier
       /\ nfPc = "saved" \/ (nfPc \in {"sync", "synced"} /\ witPc = "saved")
  /\ mode \notin {"sync", "failing", "catchup"} =>
       nfPc = IF HasNullifier THEN "saved" ELSE "down"

(* The tracker's window is a part of a branch that ends at the current     *)
(* height, and what the table holds from its bottom on.                    *)
TrackerInv ==
  Following /\ HasNullifier =>
    /\ Window(tracker) /\ OneBranch(tracker)
    /\ Tracker!Tip(tracker).height = height
    /\ Covers(tracker, table)
    /\ refusals = 0 => Holds(tracker, table)

IInv == NfBase /\ WitTypes /\ LoopTypes /\ ModesInv /\ TrackerInv

(* A block to be applied is one above all that the table holds. *)
LEMMA TableIsBelow ==
  ASSUME IInv, Following
  PROVE  /\ Whole(table)
         /\ \A c \in table : HeightOf[c] \in Nat /\ HeightOf[c] <= height
<1>1. Whole(table) /\ height \in Nat
  BY DEF IInv, NfBase, NfTables, LoopTypes
<1>2. \A c \in table : c \in Block /\ HeightOf[c] \in Nat
  BY <1>1, HeightType DEF Whole
<1>3. CASE HasNullifier
  <2>1. /\ Window(tracker) /\ Covers(tracker, table)
        /\ Tracker!Tip(tracker).height = height
    BY <1>3 DEF IInv, TrackerInv
  <2>2. /\ \A i \in 1..Len(tracker) : /\ tracker[i].height \in Nat
                                      /\ tracker[1].height <= tracker[i].height
                                      /\ tracker[i].height <= height
        /\ 1 \in 1..Len(tracker)
    BY <2>1, WindowPair, WindowEnds
  <2>3. ASSUME NEW c \in table
        PROVE  HeightOf[c] <= height
    <3>1. CASE HeightOf[c] >= tracker[1].height
      <4>1. PICK i \in 1..Len(tracker) : tracker[i].hash = c
        BY <2>1, <3>1 DEF Covers
      <4>2. tracker[i].height = HeightOf[c]
        BY <4>1, <2>1, <1>2 DEF Window
      <4>. QED
        BY <4>2, <2>2
    <3>2. CASE ~(HeightOf[c] >= tracker[1].height)
      BY <3>2, <2>2, <1>1, <1>2
    <3>. QED
      BY <3>1, <3>2
  <2>. QED
    BY <1>1, <1>2, <2>3
<1>4. CASE ~HasNullifier
  <2>1. nfPc = "down"
    BY <1>4 DEF IInv, ModesInv
  <2>2. table = {}
    BY <2>1 DEF IInv, NfBase, NfTables
  <2>. QED
    BY <1>1, <2>2
<1>. QED
  BY <1>3, <1>4

LEMMA AppliedBlock ==
  ASSUME IInv, mode = "apply", fetched # <<>>
  PROVE  /\ Head(fetched) \in Block
         /\ HeightOf[Head(fetched)] = height + 1
         /\ HeightOf[Head(fetched)] \notin Nf!Heights(table)
<1>1. fetched \in Seq(Block) /\ height \in Nat
      /\ \A i \in 1..Len(fetched) : HeightOf[fetched[i]] = height + i
  BY DEF IInv, LoopTypes
<1>2. 1 \in 1..Len(fetched) /\ Head(fetched) = fetched[1] /\ Head(fetched) \in Block
  <2>1. Len(fetched) \in Nat /\ Len(fetched) # 0
    BY <1>1
  <2>. QED
    BY <2>1, <1>1
<1>3. HeightOf[Head(fetched)] = height + 1
  BY <1>1, <1>2
<1>4. \A c \in table : HeightOf[c] # height + 1
  <2>1. Following
    BY DEF Following
  <2>2. \A c \in table : HeightOf[c] \in Nat /\ HeightOf[c] <= height
    BY <2>1, TableIsBelow
  <2>. QED
    BY <2>2, <1>1
<1>. QED
  BY <1>2, <1>3, <1>4 DEF Nf!Heights

(* What a block of the loop does to table and tracker, and which blocks it *)
(* leaves in the table.                                                    *)
OrphansLeft ==
  \A c \in table' :
    HeightOf[c] < tracker[1].height \/ c \in ChainOf[Tracker!Tip(tracker').hash]

AppliedWell ==
  /\ Whole(table')
  /\ refusals' \in Nat
  /\ Window(tracker') /\ OneBranch(tracker')
  /\ Tracker!Tip(tracker').height = height'
  /\ Covers(tracker', table')
  /\ refusals' = 0 => Holds(tracker', table')
  /\ OrphansLeft

LEMMA ExtendWell ==
  ASSUME IInv, HasNullifier, NEW b \in Block, Extend(b)
  PROVE  AppliedWell
<1>1. /\ mode = "apply" /\ fetched # <<>> /\ b = Head(fetched)
      /\ tracker' = Tracker!Pushed(tracker, HeightOf[b], b, Parent[b])
      /\ height' = HeightOf[b]
      /\ Tracker!Extends(tracker, HeightOf[b], Parent[b])
      /\ InsertAndEvict(table, b)
  BY DEF Extend, Applied
<1>2. Following
  BY <1>1 DEF Following
<1>3. /\ Window(tracker) /\ OneBranch(tracker) /\ Covers(tracker, table)
      /\ refusals = 0 => Holds(tracker, table)
      /\ refusals \in Nat
  BY <1>2 DEF IInv, TrackerInv, LoopTypes
<1>4. Whole(table) /\ Whole(table \cup {b})
  <2>1. HeightOf[b] \notin Nf!Heights(table)
    BY <1>1, AppliedBlock
  <2>. QED
    BY <2>1, <1>2, TableIsBelow, WholeInsert
<1> DEFINE w == tracker
           v == tracker'
<1>5. /\ Window(v) /\ OneBranch(v)
      /\ Tracker!Tip(v) = Tracker!Pair(HeightOf[b], b)
      /\ w[1].height <= v[1].height
      /\ \A i \in 1..Len(v) : v[i].hash = b \/ \E j \in 1..Len(w) : v[i] = w[j]
      /\ \A j \in 1..Len(w) : w[j].height < v[1].height \/ \E i \in 1..Len(v) : v[i] = w[j]
      /\ \E i \in 1..Len(v) : v[i].hash = b
      /\ Parent[b] = Tracker!Tip(w).hash /\ Parent[b] \in Block
  BY <1>1, <1>3, PushedExtends
<1>6. Tracker!Tip(v).height = height' /\ Tracker!Tip(v).hash = b
  BY <1>1, <1>5 DEF Tracker!Pair
<1>7. w[1].height \in Nat /\ v[1].height \in Nat
  BY <1>3, <1>5, WindowEnds, WindowPair
<1>8. \A c \in table : c \in Block /\ HeightOf[c] \in Nat
  BY <1>4, HeightType DEF Whole
<1>9. Covers(v, table \cup {b})
  <2> SUFFICES ASSUME NEW c \in table \cup {b}, HeightOf[c] >= v[1].height
               PROVE  \E i \in 1..Len(v) : v[i].hash = c
    BY DEF Covers
  <2>1. CASE c = b
    BY <2>1, <1>5
  <2>2. CASE c \in table
    <3>1. HeightOf[c] >= w[1].height
      BY <2>2, <1>5, <1>7, <1>8
    <3>2. PICK j \in 1..Len(w) : w[j].hash = c
      BY <2>2, <3>1, <1>3 DEF Covers
    <3>3. w[j].height = HeightOf[c]
      BY <2>2, <3>2, <1>3, <1>8 DEF Window
    <3>4. ~(w[j].height < v[1].height)
      BY <2>2, <3>3, <1>7, <1>8
    <3>5. PICK i \in 1..Len(v) : v[i] = w[j]
      BY <3>4, <1>5
    <3>. QED
      BY <3>2, <3>5
  <2>. QED
    BY <2>1, <2>2
<1>10. refusals = 0 => Holds(v, table \cup {b})
  BY <1>3, <1>5 DEF Holds
<1>11. \A c \in table \cup {b} : HeightOf[c] < w[1].height \/ c \in ChainOf[b]
  <2> SUFFICES ASSUME NEW c \in table \cup {b}, ~(HeightOf[c] < w[1].height)
               PROVE  c \in ChainOf[b]
    OBVIOUS
  <2>1. CASE c = b
    BY <2>1, ChainBelowTip
  <2>2. CASE c \in table
    <3>1. HeightOf[c] >= w[1].height
      BY <2>2, <1>7, <1>8
    <3>2. PICK j \in 1..Len(w) : w[j].hash = c
      BY <2>2, <3>1, <1>3 DEF Covers
    <3>3. c \in ChainOf[Parent[b]]
      BY <2>2, <3>2, <1>3, <1>5, <1>8 DEF OneBranch
    <3>. QED
      BY <3>3, <1>5, ChainOfBlock
  <2>. QED
    BY <2>1, <2>2
<1> HIDE DEF v
<1>12. CASE table' = Nf!Evicted(table \cup {b}) /\ UNCHANGED refusals
  <2>1. Whole(table') /\ table' \subseteq table \cup {b}
    BY <1>4, <1>12, EvictedKeeps
  <2>2. Covers(v, table')
    BY <2>1, <1>9 DEF Covers
  <2>3. refusals' = 0 => Holds(v, table')
    BY <1>4, <1>5, <1>9, <1>10, <1>12, EvictedHolds
  <2>4. OrphansLeft
    BY <2>1, <1>6, <1>11 DEF OrphansLeft, v
  <2>. QED
    BY <2>1, <2>2, <2>3, <2>4, <1>3, <1>5, <1>6, <1>12 DEF AppliedWell, v
<1>13. CASE table' = Nf!Evicted(table) /\ refusals' = refusals + 1
  <2>1. Whole(table') /\ table' \subseteq table
    BY <1>4, <1>13, EvictedKeeps
  <2>2. Covers(v, table')
    BY <2>1, <1>9 DEF Covers
  <2>3. refusals' \in Nat /\ refusals' # 0
    BY <1>3, <1>13
  <2>4. OrphansLeft
    BY <2>1, <1>6, <1>11 DEF OrphansLeft, v
  <2>. QED
    BY <2>1, <2>2, <2>3, <2>4, <1>5, <1>6 DEF AppliedWell, v
<1>. QED
  BY <1>1, <1>12, <1>13 DEF InsertAndEvict

LEMMA ReorgWell ==
  ASSUME IInv, HasNullifier, NEW b \in Block, Reorg(b)
  PROVE  AppliedWell
<1> DEFINE w == tracker
           v == tracker'
           fork == Tracker!FindForkPoint(tracker, Parent[b])
           kept == Kept(fork)
<1>1. /\ mode = "apply" /\ fetched # <<>> /\ b = Head(fetched)
      /\ tracker' = Tracker!Pushed(tracker, HeightOf[b], b, Parent[b])
      /\ height' = HeightOf[b]
      /\ ~Tracker!Extends(tracker, HeightOf[b], Parent[b])
      /\ Insert(kept, b)
  BY DEF Reorg, Applied
<1>2. Following
  BY <1>1 DEF Following
<1>3. /\ Window(w) /\ refusals \in Nat /\ Tracker!Tip(w).height = height
  BY <1>2 DEF IInv, TrackerInv, LoopTypes
<1>4. HeightOf[b] = Tracker!Tip(w).height + 1 /\ HeightOf[b] \notin Nf!Heights(table)
  BY <1>1, <1>3, AppliedBlock
<1>5. /\ Window(v) /\ OneBranch(v)
      /\ Tracker!Tip(v) = Tracker!Pair(HeightOf[b], b)
      /\ \A i \in 1..Len(v) : v[i].hash = b \/ v[i].hash \notin Block
      /\ \E i \in 1..Len(v) : v[i].hash = b
      /\ fork = Tracker!Below(w[1].height)
      /\ w[1].height <= v[1].height
  <2>1. ~Tracker!Extends(w, HeightOf[b], Parent[b]) /\ Window(w)
        /\ HeightOf[b] = Tracker!Tip(w).height + 1
    BY <1>1, <1>3, <1>4
  <2>2. v = Tracker!Pushed(w, HeightOf[b], b, Parent[b])
    BY <1>1
  <2> HIDE DEF v, w
  <2>. QED
    BY <2>1, <2>2, PushedReorg DEF w
<1>6. Tracker!Tip(v).height = height' /\ Tracker!Tip(v).hash = b
  BY <1>1, <1>5 DEF Tracker!Pair
<1>7. w[1].height \in Nat /\ v[1].height \in Nat
  BY <1>3, <1>5, WindowEnds, WindowPair
<1>8. kept \subseteq table /\ \A c \in kept : HeightOf[c] \in Nat /\ HeightOf[c] < w[1].height
  <2>1. Whole(table)
    BY <1>2, TableIsBelow
  <2>2. ASSUME NEW c \in kept
        PROVE  c \in table /\ HeightOf[c] \in Nat /\ HeightOf[c] < w[1].height
    <3>1. c \in table /\ HeightOf[c] <= fork
      BY DEF Kept
    <3>2. HeightOf[c] \in Nat /\ HeightOf[c] # 0
      BY <3>1, <2>1, HeightType DEF Whole
    <3>3. fork = IF w[1].height = 0 THEN 0 ELSE w[1].height - 1
      BY <1>5 DEF Tracker!Below
    <3> HIDE DEF fork
    <3>. QED
      BY <3>1, <3>2, <3>3, <1>7
  <2>. QED
    BY <2>2
<1> HIDE DEF fork, kept, v
<1>9. Whole(kept) /\ Whole(kept \cup {b})
  <2>1. Whole(kept)
    BY <1>2, <1>8, TableIsBelow, WholeSubset
  <2>2. HeightOf[b] \notin Nf!Heights(kept)
    BY <1>4, <1>8 DEF Nf!Heights
  <2>. QED
    BY <2>1, <2>2, WholeInsert
<1>10. Covers(v, kept \cup {b})
  <2> SUFFICES ASSUME NEW c \in kept \cup {b}, HeightOf[c] >= v[1].height
               PROVE  \E i \in 1..Len(v) : v[i].hash = c
    BY DEF Covers
  <2>1. c = b
    BY <1>5, <1>7, <1>8
  <2>. QED
    BY <2>1, <1>5
<1>11. \A c \in kept \cup {b} : HeightOf[c] < w[1].height \/ c \in ChainOf[b]
  BY <1>8, ChainBelowTip
<1>12. CASE table' = kept \cup {b} /\ UNCHANGED refusals
  <2>1. Holds(v, table')
    BY <1>5, <1>12 DEF Holds
  <2>2. OrphansLeft
    BY <1>6, <1>11, <1>12 DEF OrphansLeft, v
  <2>. QED
    BY <2>1, <2>2, <1>3, <1>5, <1>6, <1>9, <1>10, <1>12 DEF AppliedWell, v
<1>13. CASE table' = kept /\ refusals' = refusals + 1
  <2>1. Covers(v, table')
    BY <1>10, <1>13 DEF Covers
  <2>2. refusals' \in Nat /\ refusals' # 0
    BY <1>3, <1>13
  <2>3. OrphansLeft
    BY <1>6, <1>11, <1>13 DEF OrphansLeft, v
  <2>. QED
    BY <2>1, <2>2, <2>3, <1>5, <1>6, <1>9, <1>13 DEF AppliedWell, v
<1>. QED
  BY <1>1, <1>12, <1>13 DEF Insert

-----------------------------------------------------------------------------
(* The steps *)

LEMMA ServerInit == Init => IInv
<1> SUFFICES ASSUME Init
             PROVE  IInv
  OBVIOUS
<1>1. /\ best \in FirstTip
      /\ nfPc = "down" /\ nfFresh = FALSE /\ table = {} /\ nfBackfillEnd = 0 /\ nfDisk = {}
      /\ nfTask = "idle" /\ nfCurrent = 0 /\ nfGoal = 0 /\ nfTo = 0
      /\ nfFetched = <<>> /\ tracker = <<>> /\ nfQueue = <<>>
  BY DEF Init, Nf!Init, Nf!ChainInit
<1>2. /\ tree = Wit!NoTree /\ witDisk = {} /\ witTask = "idle"
      /\ witFetched = <<>> /\ witQueue = <<>>
      /\ mode = "sync" /\ height = 0 /\ fetched = <<>> /\ refusals = 0
  BY DEF Init
<1>3. NfBase
  <2>1. best \in Block
    BY <1>1, ChainAssumption
  <2>2. Len(nfFetched) = 0 /\ Len(nfQueue) = 0
    BY <1>1
  <2>3. NfTypes
    <3>1. nfFetched \in Seq(Block) /\ nfQueue \in Seq(Nf!Event)
      BY <1>1
    <3>2. /\ nfPc \in {"down", "sync", "backfill", "synced", "saved"}
          /\ nfTask \in {"idle", "poll", "fetch", "send"}
          /\ nfBackfillEnd \in Nat /\ nfCurrent \in Nat /\ nfGoal \in Nat /\ nfTo \in Nat
      BY <1>1
    <3>3. nfFresh \in BOOLEAN
      BY <1>1
    <3>. QED
      BY <2>1, <3>1, <3>2, <3>3 DEF NfTypes
  <2>4. ~Nf!Syncing /\ NfDone = 0
    BY <2>2, <1>1 DEF Nf!Syncing, NfDone
  <2>5. NfRanges
    BY <2>2, <2>4, <1>1 DEF NfRanges
  <2>6. NfTables
    BY <2>4, <1>1, WholeNone DEF NfTables
  <2>7. NfBackfills
    BY <1>1 DEF NfBackfills
  <2>. QED
    BY <2>3, <2>5, <2>6, <2>7 DEF NfBase
<1>4. WitTypes
  <2>1. Shaped(tree)
    BY <1>2, ShapedBare DEF Wit!NoTree
  <2>2. witQueue \in Seq(WitEvent({}))
    BY <1>2
  <2>. QED
    BY <2>1, <2>2, <1>2 DEF WitTypes
<1>5. LoopTypes
  BY <1>1, <1>2 DEF LoopTypes
<1>6. ModesInv /\ TrackerInv
  BY <1>1, <1>2 DEF ModesInv, TrackerInv, Following
<1>. QED
  BY <1>3, <1>4, <1>5, <1>6 DEF IInv

LEMMA FailRunInv ==
  ASSUME IInv, FailRun, UNCHANGED features
  PROVE  IInv'
<1>1. NfBase' /\ WitTypes'
  BY NfFailRun, WitFailRun DEF IInv
<1>2. /\ mode' = "sync" /\ height' = 0 /\ fetched' = <<>> /\ tracker' = <<>>
      /\ nfPc' = "down" /\ UNCHANGED refusals
  BY DEF FailRun
<1>3. LoopTypes'
  BY <1>2 DEF IInv, LoopTypes
<1>4. ModesInv' /\ TrackerInv'
  BY <1>2 DEF ModesInv, TrackerInv, Following
<1>. QED
  BY <1>1, <1>3, <1>4 DEF IInv

(* What syncing leaves alone. *)
LEMMA SyncLoop ==
  ASSUME IInv, UNCHANGED <<tracker, height, fetched, refusals>>,
         mode \notin {"fetch", "apply"}, mode' \in {"sync", "failing", "catchup", "enter"}
  PROVE  LoopTypes' /\ TrackerInv'
  BY DEF IInv, LoopTypes, TrackerInv, Following

LEMMA PrepareInv ==
  ASSUME IInv, NfPrepare \/ WitPrepare, UNCHANGED features
  PROVE  IInv'
<1>1. CASE NfPrepare
  <2>1. /\ HasNullifier /\ mode \in {"sync", "failing"} /\ (Nf!Start \/ Nf!Backfill)
        /\ UNCHANGED <<witVars, mode, height, fetched, refusals>>
    BY <1>1 DEF NfPrepare
  <2>2. NfBase'
    BY <2>1, NfStart, NfBackfill DEF IInv
  <2>3. WitTypes'
    BY <2>1, WitStays DEF IInv, witVars
  <2>4. UNCHANGED tracker
    BY <2>1 DEF Nf!Start, Nf!Backfill, Nf!SyncRange, Nf!taskVars
  <2>5. LoopTypes' /\ TrackerInv'
    BY <2>1, <2>4, SyncLoop
  <2>6. ModesInv'
    BY <2>1 DEF ModesInv, HasNullifier
  <2>. QED
    BY <2>2, <2>3, <2>5, <2>6 DEF IInv
<1>2. CASE WitPrepare
  <2>1. /\ mode = "sync" /\ (Wit!Start \/ Wit!ReadRoots \/ Wit!ReadCompletingBlock)
        /\ UNCHANGED <<nfVars, mode, height, fetched, refusals>>
    BY <1>2 DEF WitPrepare
  <2>2. UNCHANGED <<best, tracker>>
    BY <2>1 DEF Wit!Start, Wit!ReadRoots, Wit!ReadCompletingBlock, Wit!SyncRange, Wit!chainVars
  <2>3. best \in Block
    BY DEF IInv, NfBase, NfTypes
  <2>4. NfBase'
    BY <2>1, <2>2, <2>3, NfStays DEF IInv, nfVars, SameStage
  <2>5. WitTypes'
    BY <2>1, <2>3, WitPrepares DEF IInv
  <2>6. LoopTypes' /\ TrackerInv'
    BY <2>1, <2>2, SyncLoop
  <2>7. ModesInv'
    BY <2>1 DEF IInv, ModesInv, HasNullifier, nfVars
  <2>. QED
    BY <2>4, <2>5, <2>6, <2>7 DEF IInv
<1>. QED
  BY <1>1, <1>2

(* The steps of the two ingestion tasks and what takes their blocks in. *)
NfRangeStep ==
  \/ Nf!InsertSynced \/ Nf!RangeDone
  \/ Nf!PollSync \/ Nf!FetchBlock \/ Nf!BlockMissing \/ Nf!SendSync \/ Nf!CallFails
WitRangeSteps ==
  \/ Wit!AppendSynced \/ Wit!RangeDone
  \/ Wit!PollSync \/ Wit!FetchBlock \/ Wit!BlockMissing \/ Wit!CallFails \/ Wit!SendSync

LEMMA NfRangeStepInv ==
  ASSUME NfBase, NfRangeStep, UNCHANGED mode
  PROVE  /\ NfBase' /\ UNCHANGED tracker
         /\ nfPc' = nfPc \/ (nfPc \in {"sync", "backfill"} /\ nfPc' = "synced")
<1>1. SameStage
  BY DEF SameStage
<1>2. NfBase'
  BY <1>1, NfInsertSynced, NfRangeDone, NfPollSync, NfFetchBlock, NfEnds, NfSendSync
  DEF NfRangeStep
<1>3. UNCHANGED tracker
  BY DEF NfRangeStep, Nf!InsertSynced, Nf!RangeDone, Nf!PollSync, Nf!FetchBlock,
     Nf!BlockMissing, Nf!SendSync, Nf!CallFails, Nf!EndTask, Nf!taskVars
<1>4. nfPc' = nfPc \/ (nfPc \in {"sync", "backfill"} /\ nfPc' = "synced")
  BY DEF NfRangeStep, Nf!InsertSynced, Nf!RangeDone, Nf!PollSync, Nf!FetchBlock,
     Nf!BlockMissing, Nf!SendSync, Nf!HandOn, Nf!CallFails, Nf!EndTask, Nf!mainVars, Nf!Syncing
<1>. QED
  BY <1>2, <1>3, <1>4

LEMMA WitRangeStepInv ==
  ASSUME WitTypes, best \in Block, WitRangeSteps
  PROVE  /\ WitTypes' /\ UNCHANGED <<best, tracker>>
         /\ witPc' = witPc \/ witPc = "sync"
<1>1. WitTypes'
  BY WitRangeStep DEF WitRangeSteps
<1>2. UNCHANGED tracker
  BY DEF WitRangeSteps, Wit!AppendSynced, Wit!RangeDone, Wit!PollSync, Wit!FetchBlock,
     Wit!BlockMissing, Wit!SendSync, Wit!CallFails, Wit!EndTask, Wit!taskVars
<1>3. UNCHANGED best
  BY DEF WitRangeSteps, Wit!AppendSynced, Wit!RangeDone, Wit!PollSync, Wit!FetchBlock,
     Wit!BlockMissing, Wit!SendSync, Wit!HandOn, Wit!Send, Wit!CallFails, Wit!EndTask,
     Wit!chainVars
<1>4. witPc' = witPc \/ witPc = "sync"
  BY DEF WitRangeSteps, Wit!AppendSynced, Wit!RangeDone, Wit!PollSync, Wit!FetchBlock,
     Wit!BlockMissing, Wit!SendSync, Wit!HandOn, Wit!Send, Wit!CallFails, Wit!EndTask,
     Wit!mainVars, Wit!Syncing
<1>. QED
  BY <1>1, <1>2, <1>3, <1>4

LEMMA SyncStepInv ==
  ASSUME IInv, SyncStep \/ CallFailsInSync, UNCHANGED features
  PROVE  IInv'
<1>1. /\ mode \in {"sync", "failing", "catchup"}
      /\ UNCHANGED <<mode, height, fetched, refusals>>
      /\ (NfRangeStep /\ UNCHANGED witVars) \/ (WitRangeSteps /\ UNCHANGED nfVars)
  BY DEF SyncStep, RangeStep, CallFailsInSync, NfRangeStep, WitRangeSteps
<1>2. CASE NfRangeStep /\ UNCHANGED witVars
  <2>1. /\ NfBase' /\ UNCHANGED tracker
        /\ nfPc' = nfPc \/ (nfPc \in {"sync", "backfill"} /\ nfPc' = "synced")
    BY <1>1, <1>2, NfRangeStepInv DEF IInv
  <2>2. WitTypes' /\ UNCHANGED witPc
    BY <1>2, WitStays DEF IInv, witVars
  <2>3. LoopTypes' /\ TrackerInv'
    BY <1>1, <2>1, SyncLoop
  <2>4. ModesInv'
    BY <1>1, <2>1, <2>2 DEF IInv, ModesInv, HasNullifier
  <2>. QED
    BY <2>1, <2>2, <2>3, <2>4 DEF IInv
<1>3. CASE WitRangeSteps /\ UNCHANGED nfVars
  <2>0. best \in Block
    BY DEF IInv, NfBase, NfTypes
  <2>1. /\ WitTypes' /\ UNCHANGED <<best, tracker>>
        /\ witPc' = witPc \/ witPc = "sync"
    BY <1>3, <2>0, WitRangeStepInv DEF IInv
  <2>2. NfBase'
    BY <1>1, <1>3, <2>0, <2>1, NfStays DEF IInv, nfVars, SameStage
  <2>3. LoopTypes' /\ TrackerInv'
    BY <1>1, <2>1, SyncLoop
  <2>4. ModesInv'
    BY <1>1, <1>3, <2>1 DEF IInv, ModesInv, HasNullifier, nfVars
  <2>. QED
    BY <2>1, <2>2, <2>3, <2>4 DEF IInv
<1>. QED
  BY <1>1, <1>2, <1>3

LEMMA SyncedInv ==
  ASSUME IInv, NfSynced \/ WitSynced, UNCHANGED features
  PROVE  IInv'
<1>0. best \in Block
  BY DEF IInv, NfBase, NfTypes
<1>1. CASE NfSynced
  <2>1. /\ mode \in {"sync", "failing"} /\ nfPc = "synced" /\ nfPc' = "saved"
        /\ table' = Nf!Evicted(table) /\ nfDisk' = {table'}
        /\ UNCHANGED <<best, nfFresh, nfBackfillEnd, nfTask, nfCurrent, nfGoal, nfTo,
                       nfFetched, nfQueue, witVars, mode, tracker, height, fetched, refusals>>
    BY <1>1 DEF NfSynced, chainVars, loopVars
  <2>2. Whole(table') /\ table' \subseteq table
    BY <2>1, EvictedKeeps DEF IInv, NfBase, NfTables
  <2>3. NfBase'
    BY <1>0, <2>1, <2>2, NfTableChanges DEF IInv
  <2>4. WitTypes'
    BY <2>1, WitStays DEF IInv, witVars
  <2>5. LoopTypes' /\ TrackerInv'
    BY <2>1, SyncLoop
  <2>6. ModesInv'
    BY <2>1 DEF IInv, ModesInv, HasNullifier
  <2>. QED
    BY <2>3, <2>4, <2>5, <2>6 DEF IInv
<1>2. CASE WitSynced
  <2>1. /\ mode = "sync" /\ witDisk' = {tree}
        /\ UNCHANGED <<best, nfVars, tree, witTask, witFetched, witQueue, mode, tracker, height,
                       fetched, refusals>>
    BY <1>2 DEF WitSynced, chainVars, loopVars
  <2>2. NfBase'
    BY <1>0, <2>1, NfStays DEF IInv, nfVars, SameStage
  <2>3. WitTypes'
    BY <2>1 DEF IInv, WitTypes
  <2>4. LoopTypes' /\ TrackerInv'
    BY <2>1, SyncLoop
  <2>5. ModesInv'
    BY <2>1 DEF IInv, ModesInv, HasNullifier, nfVars
  <2>. QED
    BY <2>2, <2>3, <2>4, <2>5 DEF IInv
<1>. QED
  BY <1>1, <1>2

LEMMA WitFailsInv ==
  ASSUME IInv, WitFails, UNCHANGED features
  PROVE  IInv'
<1>1. CASE FailRun
  BY <1>1, FailRunInv
<1>2. CASE ~FailRun
  <2>1. /\ mode = "sync" /\ mode' = "failing"
        /\ witTask' = "idle" /\ witQueue' = <<>>
        /\ UNCHANGED <<best, nfVars, tree, witDisk, witFetched, tracker, height, fetched,
                       refusals>>
    BY <1>2 DEF WitFails, chainVars, loopVars
  <2>2. best \in Block
    BY DEF IInv, NfBase, NfTypes
  <2>3. NfBase'
    BY <2>1, <2>2, NfStays DEF IInv, nfVars, SameStage
  <2>4. WitTypes'
    <3>1. witQueue' \in Seq(WitEvent({}))
      BY <2>1
    <3>. QED
      BY <2>1, <3>1 DEF IInv, WitTypes
  <2>5. LoopTypes' /\ TrackerInv'
    BY <2>1, SyncLoop
  <2>6. ModesInv'
    BY <2>1 DEF IInv, ModesInv, HasNullifier, nfVars
  <2>. QED
    BY <2>3, <2>4, <2>5, <2>6 DEF IInv
<1>. QED
  BY <1>1, <1>2

LEMMA CompareInv ==
  ASSUME IInv, Compare, UNCHANGED features
  PROVE  IInv'
<1>1. /\ mode = "sync" /\ nfPc = "saved" /\ witPc = "saved"
      /\ UNCHANGED <<best, height, fetched, refusals>>
  BY DEF Compare, chainVars
<1>2. HasNullifier /\ best \in Block
  BY <1>1 DEF IInv, ModesInv, NfBase, NfTypes
<1>3. CASE /\ Nf!SyncRange(CatchUpStart(Nf!Latest(table)), Wit!Latest(tree), "sync")
           /\ mode' = "catchup"
           /\ UNCHANGED witVars
           /\ UNCHANGED <<nfFresh, table, nfBackfillEnd, nfDisk, nfQueue>>
  <2>1. Wit!Latest(tree) \in Nat
    BY ShapedLatest DEF IInv, WitTypes
  <2>2. NfBase'
    BY <1>1, <1>3, <2>1, NfCatchUp DEF IInv
  <2>3. WitTypes' /\ UNCHANGED witPc
    BY <1>3, WitStays DEF IInv, witVars
  <2>4. UNCHANGED tracker /\ nfPc' \in {"sync", "synced"}
    BY <1>3 DEF Nf!SyncRange, Nf!taskVars
  <2>5. LoopTypes' /\ TrackerInv'
    BY <1>1, <1>3, <2>4, SyncLoop
  <2>6. ModesInv'
    BY <1>1, <1>2, <1>3, <2>3, <2>4 DEF ModesInv, HasNullifier
  <2>. QED
    BY <2>2, <2>3, <2>5, <2>6 DEF IInv
<1>4. CASE /\ \E first, last, size : Wit!SyncRange(first, last, size)
           /\ mode' = "catchup"
           /\ UNCHANGED nfVars
           /\ UNCHANGED <<tree, witDisk, witQueue>>
  <2>1. NfBase'
    BY <1>1, <1>2, <1>4, NfStays DEF IInv, nfVars, SameStage
  <2>2. Shaped(tree')
    BY <1>4 DEF IInv, WitTypes
  <2>3. WitTypes'
    BY <1>4, <2>2, WitSyncRange DEF IInv
  <2>4. UNCHANGED tracker /\ nfPc' = "saved"
    BY <1>1, <1>4 DEF Wit!SyncRange, nfVars
  <2>5. LoopTypes' /\ TrackerInv'
    BY <1>1, <1>4, <2>4, SyncLoop
  <2>6. ModesInv'
    BY <1>2, <1>4, <2>4 DEF ModesInv, HasNullifier
  <2>. QED
    BY <2>1, <2>3, <2>5, <2>6 DEF IInv
<1>5. CASE mode' = "enter" /\ UNCHANGED <<nfVars, witVars, tracker>>
  <2>1. NfBase'
    BY <1>1, <1>2, <1>5, NfStays DEF IInv, nfVars, SameStage
  <2>2. WitTypes'
    BY <1>5, WitStays DEF IInv, witVars
  <2>3. LoopTypes' /\ TrackerInv'
    BY <1>1, <1>5, SyncLoop
  <2>4. ModesInv'
    BY <1>1, <1>2, <1>5 DEF ModesInv, HasNullifier, nfVars
  <2>. QED
    BY <2>1, <2>2, <2>3, <2>4 DEF IInv
<1>. QED
  BY <1>3, <1>4, <1>5 DEF Compare

LEMMA ServeAloneInv ==
  ASSUME IInv, ServeAlone, UNCHANGED features
  PROVE  IInv'
<1>1. /\ mode = "sync" /\ mode' = "enter" /\ (nfPc = "saved" \/ ~HasNullifier)
      /\ UNCHANGED <<best, nfVars, witVars, tracker, height, fetched, refusals>>
  BY DEF ServeAlone, chainVars, loopVars
<1>2. best \in Block
  BY DEF IInv, NfBase, NfTypes
<1>3. NfBase'
  BY <1>1, <1>2, NfStays DEF IInv, nfVars, SameStage
<1>4. WitTypes'
  BY <1>1, WitStays DEF IInv, witVars
<1>5. LoopTypes' /\ TrackerInv'
  BY <1>1, SyncLoop
<1>6. ModesInv'
  BY <1>1 DEF IInv, ModesInv, HasNullifier, nfVars
<1>. QED
  BY <1>3, <1>4, <1>5, <1>6 DEF IInv

LEMMA CaughtUpInv ==
  ASSUME IInv, CaughtUp, UNCHANGED features
  PROVE  IInv'
<1>1. /\ mode = "catchup" /\ mode' = "enter" /\ nfPc' = "saved"
      /\ UNCHANGED <<best, nfFresh, nfBackfillEnd, nfDisk, nfTask, nfCurrent, nfGoal, nfTo,
                     nfFetched, nfQueue, tree, witDisk, witFetched, witTask, witQueue,
                     tracker, height, fetched, refusals>>
  BY DEF CaughtUp, chainVars, loopVars
<1>2. \/ (nfPc = "synced" /\ table' = Nf!Evicted(table))
      \/ (witPc = "synced" /\ UNCHANGED table)
  BY DEF CaughtUp
<1>3. /\ best \in Block /\ Whole(table) /\ (\A t \in nfDisk : Whole(t))
      /\ HasNullifier
      /\ nfPc = "saved" \/ (nfPc \in {"sync", "synced"} /\ witPc = "saved")
  BY <1>1 DEF IInv, NfBase, NfTypes, NfTables, ModesInv
<1>4. nfPc \in {"synced", "saved"} /\ Whole(table')
  BY <1>2, <1>3, EvictedKeeps
<1>5. NfBase'
  BY <1>1, <1>3, <1>4, NfTableChanges DEF IInv
<1>6. WitTypes'
  BY <1>1, WitStays DEF IInv
<1>7. LoopTypes' /\ TrackerInv'
  BY <1>1, SyncLoop
<1>8. ModesInv'
  BY <1>1, <1>3 DEF ModesInv, HasNullifier
<1>. QED
  BY <1>5, <1>6, <1>7, <1>8 DEF IInv

(* The window the loop starts with. *)
LEMMA FirstWindow ==
  ASSUME NEW t, Whole(t), NEW w, w = Tracker!WithTip(Nf!Latest(t), Nf!LatestHash(t))
  PROVE  /\ Window(w) /\ OneBranch(w)
         /\ Tracker!Tip(w).height = Nf!Latest(t)
         /\ Covers(w, t) /\ Holds(w, t)
<1> DEFINE n == Nf!Latest(t)
           hash == Nf!LatestHash(t)
<1>1. n \in Nat /\ hash \in Block \cup {ZeroHash}
  BY LatestBounds
<1>2. hash \in Block => hash \in t /\ HeightOf[hash] = n
  <2>1. CASE t = {}
    BY <2>1, Constants DEF Nf!LatestHash
  <2>2. CASE t # {}
    BY <2>2, NewestExists
  <2>. QED
    BY <2>1, <2>2
<1>3. hash \notin Block => t = {} /\ n = 0
  <2>1. CASE t = {}
    BY <2>1, WholeNone
  <2>2. CASE t # {}
    BY <2>2, NewestExists DEF Whole
  <2>. QED
    BY <2>1, <2>2
<1>4. \A c \in t : c \in Block /\ HeightOf[c] \in Nat /\ (HeightOf[c] >= n => c = hash)
  <2>1. CASE t # {}
    <3>1. PICK b \in t : (\A c \in t : HeightOf[c] <= HeightOf[b]) /\ n = HeightOf[b] /\ hash = b
      BY <2>1, NewestExists
    <3>2. ASSUME NEW c \in t
          PROVE  c \in Block /\ HeightOf[c] \in Nat /\ (HeightOf[c] >= n => c = hash)
      <4>1. c \in Block /\ HeightOf[c] \in Nat /\ HeightOf[b] \in Nat
        BY HeightType DEF Whole
      <4>2. HeightOf[c] >= n => HeightOf[c] = HeightOf[b]
        BY <3>1, <4>1
      <4>. QED
        BY <3>1, <4>1, <4>2 DEF Whole
    <3>. QED
      BY <3>2
  <2>. QED
    BY <2>1
<1> HIDE DEF n, hash
<1>5. w = <<Tracker!Pair(n, hash)>>
  BY DEF n, hash, Tracker!WithTip
<1>6. /\ Tracker!Pair(n, hash) \in TrackedPair
      /\ Tracker!Pair(n, hash).height = n /\ Tracker!Pair(n, hash).hash = hash
  BY <1>1, PairTracked
<1>7. /\ w \in Seq(TrackedPair) /\ Len(w) = 1
      /\ w[1].height = n /\ w[1].hash = hash
      /\ Tracker!Tip(w).height = n /\ Tracker!Tip(w).hash = hash
  <2> DEFINE p == Tracker!Pair(n, hash)
  <2> HIDE DEF p
  <2>1. p \in TrackedPair => <<p>> \in Seq(TrackedPair) /\ Len(<<p>>) = 1 /\ <<p>>[1] = p
    OBVIOUS
  <2>2. w \in Seq(TrackedPair) /\ Len(w) = 1 /\ w[1] = p
    BY <2>1, <1>5, <1>6 DEF p
  <2>. QED
    BY <2>2, <1>6 DEF p, Tracker!Tip
<1>8. \A i \in 1..Len(w) : i = 1
  BY <1>7
<1>9. Window(w)
  <2>1. Len(w) \in 1..TrackerDepth
    BY <1>7, Constants
  <2>2. \A i, j \in 1..Len(w) : i < j => w[i].height < w[j].height
    BY <1>7
  <2>. QED
    BY <2>1, <2>2, <1>2, <1>3, <1>7, <1>8 DEF Window
<1>10. OneBranch(w)
  BY <1>7, <1>8, ChainBelowTip DEF OneBranch
<1>11. Covers(w, t) /\ Holds(w, t)
  BY <1>2, <1>4, <1>7, <1>8 DEF Covers, Holds
<1>. QED
  BY <1>7, <1>9, <1>10, <1>11 DEF n

LEMMA EnterFollowInv ==
  ASSUME IInv, EnterFollow, UNCHANGED features
  PROVE  IInv'
<1>1. /\ mode = "enter" /\ mode' = "poll" /\ Forget
      /\ height' = StartHeight /\ tracker' = Tracker!WithTip(StartHeight, StartHash)
      /\ UNCHANGED <<best, fetched, refusals, nfPc, table, tree, witDisk, witFetched, witTask,
                     witQueue>>
  BY DEF EnterFollow, chainVars, Forget
<1>2. /\ best \in Block /\ Whole(table) /\ Shaped(tree)
      /\ nfPc = IF HasNullifier THEN "saved" ELSE "down"
  BY <1>1 DEF IInv, NfBase, NfTypes, NfTables, WitTypes, ModesInv
<1>3. NfBase'
  BY <1>1, <1>2, NfForgets DEF IInv
<1>4. WitTypes'
  BY <1>1, WitStays DEF IInv
<1>5. StartHeight \in Nat /\ StartHash \in Block \cup {ZeroHash}
  BY <1>2, LatestBounds, ShapedLatest DEF StartHeight, StartHash
<1>6. tracker' \in Seq(TrackedPair)
  BY <1>1, <1>5, PairTracked DEF Tracker!WithTip
<1>7. LoopTypes'
  <2>1. fetched' = <<>> /\ refusals' \in Nat
    BY <1>1 DEF IInv, LoopTypes
  <2>2. fetched' \in Seq(Block) /\ Len(fetched') = 0
    BY <2>1
  <2>. QED
    BY <2>1, <2>2, <1>1, <1>5, <1>6 DEF LoopTypes
<1>8. ModesInv'
  BY <1>1, <1>2 DEF IInv, ModesInv, HasNullifier
<1>9. TrackerInv'
  <2>1. CASE HasNullifier
    <3>1. /\ height' = Nf!Latest(table)
          /\ tracker' = Tracker!WithTip(Nf!Latest(table), Nf!LatestHash(table))
      BY <1>1, <2>1 DEF StartHeight, StartHash
    <3>2. /\ Window(tracker') /\ OneBranch(tracker')
          /\ Tracker!Tip(tracker').height = Nf!Latest(table)
          /\ Covers(tracker', table) /\ Holds(tracker', table)
      BY <3>1, <1>2, FirstWindow
    <3>. QED
      BY <3>1, <3>2, <1>1 DEF TrackerInv
  <2>2. CASE ~HasNullifier
    BY <2>2 DEF TrackerInv, HasNullifier
  <2>. QED
    BY <2>1, <2>2
<1>. QED
  BY <1>3, <1>4, <1>7, <1>8, <1>9 DEF IInv

(* Steps that leave table, tracker and height of the loop alone. *)
LEMMA QuietInv ==
  ASSUME IInv, Following, Following', best' \in Block,
         UNCHANGED <<features, nfPc, nfFresh, table, nfBackfillEnd, nfDisk, nfTask, nfCurrent,
                     nfGoal, nfTo, nfFetched, nfQueue, tree, witFetched, witTask, witQueue,
                     tracker, height, refusals>>,
         \A t \in witDisk' : Shaped(t),
         fetched' \in Seq(Block),
         \A i \in 1..Len(fetched') : HeightOf[fetched'[i]] = height + i,
         mode' \notin {"fetch", "apply"} => fetched' = <<>>
  PROVE  IInv'
<1>1. NfBase'
  BY NfStays DEF IInv, SameStage, Following
<1>2. WitTypes'
  BY DEF IInv, WitTypes
<1>3. LoopTypes'
  BY DEF IInv, LoopTypes, Following
<1>4. ModesInv'
  BY DEF IInv, ModesInv, HasNullifier, Following
<1>5. TrackerInv'
  BY DEF IInv, TrackerInv, HasNullifier
<1>. QED
  BY <1>1, <1>2, <1>3, <1>4, <1>5 DEF IInv

LEMMA ReadInv ==
  ASSUME IInv, Poll \/ FetchBlock \/ PollNothingNew, UNCHANGED features
  PROVE  IInv'
<1>1. /\ best \in Block /\ fetched \in Seq(Block) /\ height \in Nat
      /\ \A i \in 1..Len(fetched) : HeightOf[fetched[i]] = height + i
      /\ mode \notin {"fetch", "apply"} => fetched = <<>>
      /\ \A t \in witDisk : Shaped(t)
  BY DEF IInv, NfBase, NfTypes, LoopTypes, WitTypes
<1>2. CASE Poll
  <2>1. /\ mode = "poll" /\ mode' = "fetch"
        /\ UNCHANGED <<best, nfVars, witVars, height, fetched, tracker, refusals>>
    BY <1>2 DEF Poll, chainVars
  <2>. QED
    BY <1>1, <2>1, QuietInv DEF Following, nfVars, witVars
<1>3. CASE PollNothingNew
  <2>1. mode = "poll" /\ UNCHANGED <<mode, best, nfVars, witVars, height, fetched, tracker, refusals>>
    BY <1>3 DEF PollNothingNew, vars, chainVars, loopVars
  <2>. QED
    BY <1>1, <2>1, QuietInv DEF Following, nfVars, witVars
<1>4. CASE FetchBlock
  <2>1. /\ mode = "fetch" /\ Available(NextHeight)
        /\ fetched' = Append(fetched, BlockAt(NextHeight))
        /\ mode' \in {"fetch", "apply"}
        /\ UNCHANGED <<best, nfVars, witVars, height, tracker, refusals>>
    BY <1>4 DEF FetchBlock, chainVars
  <2> DEFINE b == BlockAt(NextHeight)
  <2>2. b \in Block /\ HeightOf[b] = NextHeight
    BY <1>1, <2>1, BlockAtHeight
  <2>3. NextHeight = height + (Len(fetched) + 1)
    BY <1>1 DEF NextHeight
  <2> HIDE DEF b
  <2>4. /\ fetched' \in Seq(Block)
        /\ \A i \in 1..Len(fetched') : HeightOf[fetched'[i]] = height + i
    <3>1. /\ fetched' \in Seq(Block) /\ Len(fetched') = Len(fetched) + 1
          /\ \A i \in 1..Len(fetched) : fetched'[i] = fetched[i]
          /\ fetched'[Len(fetched) + 1] = b
      BY <1>1, <2>1, <2>2 DEF b
    <3>2. Len(fetched) \in Nat
      BY <1>1
    <3>. QED
      BY <3>1, <3>2, <1>1, <2>2, <2>3
  <2>. QED
    BY <1>1, <2>1, <2>4, QuietInv DEF Following, nfVars, witVars
<1>. QED
  BY <1>2, <1>3, <1>4

LEMMA PublishInv ==
  ASSUME IInv, PublishNullifiers \/ PublishWitnesses \/ SaveWitnesses, UNCHANGED features
  PROVE  IInv'
<1>1. /\ best \in Block /\ Shaped(tree) /\ \A t \in witDisk : Shaped(t)
  BY DEF IInv, NfBase, NfTypes, WitTypes
<1>2. /\ mode \in {"apply", "publish", "saved"} /\ mode' \in {"publish", "poll", "save"}
      /\ mode = "apply" => fetched = <<>>
      /\ witDisk' \in {witDisk, {tree}}
      /\ UNCHANGED <<best, nfPc, nfFresh, table, nfBackfillEnd, nfDisk, nfTask, nfCurrent,
                     nfGoal, nfTo, nfFetched, nfQueue, tree, witFetched, witTask, witQueue,
                     tracker, height, refusals, fetched>>
  BY DEF PublishNullifiers, PublishWitnesses, SaveWitnesses, chainVars, loopVars, nfVars, witVars
<1>3. fetched = <<>>
  BY <1>2 DEF IInv, LoopTypes
<1>4. fetched' \in Seq(Block) /\ Len(fetched') = 0 /\ fetched' = <<>>
  BY <1>2, <1>3
<1>5. \A t \in witDisk' : Shaped(t)
  BY <1>1, <1>2
<1>6. \A i \in 1..Len(fetched') : HeightOf[fetched'[i]] = height + i
  BY <1>4
<1>7. Following /\ Following'
  BY <1>2 DEF Following
<1>. QED
  BY <1>1, <1>2, <1>4, <1>5, <1>6, <1>7, QuietInv

LEMMA EnvironmentInv ==
  ASSUME IInv, Environment, UNCHANGED features
  PROVE  IInv'
<1>1. /\ Grow \/ Switch
      /\ UNCHANGED <<nfVars, witVars, mode, tracker, height, fetched, refusals>>
  BY DEF Environment, loopVars
<1>2. best' \in Block
  BY <1>1 DEF Grow, Switch
<1>3. NfBase'
  BY <1>1, <1>2, NfStays DEF IInv, nfVars, SameStage
<1>4. WitTypes'
  BY <1>1, WitStays DEF IInv, witVars
<1>5. LoopTypes'
  BY <1>1 DEF IInv, LoopTypes
<1>6. ModesInv'
  BY <1>1 DEF IInv, ModesInv, HasNullifier, nfVars, witVars
<1>7. TrackerInv'
  BY <1>1 DEF IInv, TrackerInv, Following, HasNullifier, nfVars
<1>. QED
  BY <1>3, <1>4, <1>5, <1>6, <1>7 DEF IInv

LEMMA SaveNullifiersInv ==
  ASSUME IInv, SaveNullifiers, UNCHANGED features
  PROVE  IInv'
<1>1. /\ mode = "save" /\ mode' = "saved" /\ nfDisk' \in {nfDisk, {table}}
      /\ UNCHANGED <<best, nfPc, nfFresh, table, nfBackfillEnd, nfTask, nfCurrent, nfGoal,
                     nfTo, nfFetched, nfQueue, witVars, tracker, height, fetched, refusals>>
  BY DEF SaveNullifiers, chainVars, loopVars
<1>2. /\ best \in Block /\ Whole(table) /\ (\A t \in nfDisk : Whole(t))
      /\ nfPc \in {"down", "saved"}
  BY <1>1 DEF IInv, NfBase, NfTypes, NfTables, ModesInv
<1>3. \A t \in nfDisk' : Whole(t)
  BY <1>1, <1>2
<1>4. NfBase'
  <2>1. NfTypes'
    BY <1>1 DEF IInv, NfBase, NfTypes
  <2>2. NfRanges'
    BY <1>1 DEF IInv, NfBase, NfRanges, NfDone, Nf!Syncing
  <2>3. NfTables'
    BY <1>1, <1>3 DEF IInv, NfBase, NfTables, NfDone, Nf!Syncing
  <2>4. NfBackfills'
    BY <1>1 DEF NfBackfills
  <2>. QED
    BY <2>1, <2>2, <2>3, <2>4 DEF NfBase
<1>5. WitTypes'
  BY <1>1, WitStays DEF IInv, witVars
<1>6. LoopTypes'
  BY <1>1 DEF IInv, LoopTypes
<1>7. ModesInv'
  BY <1>1 DEF IInv, ModesInv, HasNullifier, witVars
<1>8. TrackerInv'
  BY <1>1 DEF IInv, TrackerInv, Following, HasNullifier
<1>. QED
  BY <1>4, <1>5, <1>6, <1>7, <1>8 DEF IInv

LEMMA ApplyInv ==
  ASSUME IInv, NEW b \in Block, Extend(b) \/ Reorg(b), UNCHANGED features
  PROVE  IInv'
<1>1. /\ mode = "apply" /\ mode' = "apply" /\ fetched # <<>> /\ b = Head(fetched)
      /\ fetched' = Tail(fetched) /\ height' = HeightOf[b]
      /\ tracker' = Tracker!Pushed(tracker, HeightOf[b], b, Parent[b])
      /\ UNCHANGED <<best, nfPc, nfFresh, nfBackfillEnd, nfDisk, nfTask, nfCurrent, nfGoal,
                     nfTo, nfFetched, nfQueue, witPc, witDisk, witTask, witFetched, witQueue>>
  BY DEF Extend, Reorg, Applied, chainVars
<1>2. /\ best \in Block /\ Whole(table) /\ (\A t \in nfDisk : Whole(t))
      /\ Shaped(tree) /\ tracker \in Seq(TrackedPair)
      /\ nfPc = IF HasNullifier THEN "saved" ELSE "down"
  BY <1>1 DEF IInv, NfBase, NfTypes, NfTables, WitTypes, LoopTypes, ModesInv
<1>3. fetched \in Seq(Block) /\ height \in Nat /\ refusals \in Nat
      /\ \A i \in 1..Len(fetched) : HeightOf[fetched[i]] = height + i
  BY DEF IInv, LoopTypes
<1>4. HeightOf[b] = height + 1 /\ HeightOf[b] \in Nat
  BY <1>1, <1>3, AppliedBlock
<1>5. HasNullifier => AppliedWell
  BY ExtendWell, ReorgWell
<1>6. ~HasNullifier => UNCHANGED <<table, refusals>>
  BY DEF Extend, Reorg
<1>7. NfBase'
  <2>1. CASE HasNullifier
    <3>1. Whole(table')
      BY <2>1, <1>5 DEF AppliedWell
    <3>. QED
      BY <2>1, <3>1, <1>1, <1>2, NfTableChanges DEF IInv
  <2>2. CASE ~HasNullifier
    BY <2>2, <1>1, <1>2, <1>6, NfStays DEF IInv, SameStage
  <2>. QED
    BY <2>1, <2>2
<1>8. WitTypes'
  <2>1. Shaped(tree')
    <3>1. CASE Extend(b)
      BY <3>1, <1>2, ShapedAppend DEF Extend
    <3>2. CASE Reorg(b)
      <4> DEFINE fork == Tracker!FindForkPoint(tracker, Parent[b])
      <4>1. fork \in Nat
        BY <1>2, ForkPointType
      <4>2. tree' = IF HasWitness THEN Wit!Appended(Wit!RolledBack(tree, fork), b) ELSE tree
        BY <3>2 DEF Reorg
      <4> HIDE DEF fork
      <4>3. Shaped(Wit!RolledBack(tree, fork))
        BY <4>1, <1>2, ShapedRolledBack
      <4>4. Shaped(Wit!Appended(Wit!RolledBack(tree, fork), b))
        BY <4>3, ShapedAppend
      <4>. QED
        BY <4>2, <4>4, <1>2
    <3>. QED
      BY <3>1, <3>2
  <2>. QED
    BY <2>1, <1>1 DEF IInv, WitTypes
<1>9. LoopTypes'
  <2>1. tracker' \in Seq(TrackedPair)
    BY <1>1, <1>2, <1>4, PushedType
  <2>2. /\ fetched' \in Seq(Block)
        /\ \A i \in 1..Len(fetched') : HeightOf[fetched'[i]] = height' + i
    <3>1. Len(fetched) \in Nat /\ Len(fetched) # 0
      BY <1>1, <1>3
    <3>2. /\ fetched' \in Seq(Block) /\ Len(fetched') = Len(fetched) - 1
          /\ \A i \in 1..Len(fetched') : fetched'[i] = fetched[i + 1]
      BY <1>1, <1>3
    <3>3. \A i \in 1..Len(fetched') : i + 1 \in 1..Len(fetched)
      BY <3>1, <3>2
    <3>4. height' = height + 1
      BY <1>1, <1>4
    <3>5. \A i \in 1..Len(fetched') : HeightOf[fetched'[i]] = height + (i + 1)
      BY <3>2, <3>3, <1>3
    <3>. QED
      BY <3>2, <3>4, <3>5, <1>3
  <2>3. refusals' \in Nat
    BY <1>3, <1>5, <1>6 DEF AppliedWell
  <2>. QED
    BY <2>1, <2>2, <2>3, <1>1, <1>4 DEF LoopTypes
<1>10. ModesInv'
  BY <1>1, <1>2 DEF IInv, ModesInv, HasNullifier
<1>11. TrackerInv'
  BY <1>5 DEF TrackerInv, AppliedWell, HasNullifier
<1>. QED
  BY <1>7, <1>8, <1>9, <1>10, <1>11 DEF IInv

LEMMA IInvNext ==
  ASSUME IInv, [Next]_vars
  PROVE  IInv'
<1>1. CASE UNCHANGED vars
  <2>1. /\ UNCHANGED <<best, nfVars, witVars, mode, tracker, height, fetched, refusals, features>>
    BY <1>1 DEF vars, chainVars, loopVars
  <2>2. best \in Block
    BY DEF IInv, NfBase, NfTypes
  <2>3. NfBase'
    BY <2>1, <2>2, NfStays DEF IInv, nfVars, SameStage
  <2>4. WitTypes'
    BY <2>1, WitStays DEF IInv, witVars
  <2>5. LoopTypes'
    BY <2>1 DEF IInv, LoopTypes
  <2>6. ModesInv'
    BY <2>1 DEF IInv, ModesInv, HasNullifier, nfVars, witVars
  <2>7. TrackerInv'
    BY <2>1 DEF IInv, TrackerInv, Following, HasNullifier, nfVars
  <2>. QED
    BY <2>3, <2>4, <2>5, <2>6, <2>7 DEF IInv
<1>2. CASE ServerStep
  <2>0. UNCHANGED features
    BY <1>2 DEF ServerStep
  <2>1. CASE NfSync \/ WitSync
    BY <2>0, <2>1, PrepareInv, SyncedInv, WitFailsInv DEF NfSync, WitSync
  <2>2. CASE SyncStep
    BY <2>0, <2>2, SyncStepInv
  <2>3. CASE BothReturned \/ BlockMissing
    BY <2>0, <2>3, FailRunInv DEF BothReturned, BlockMissing
  <2>4. CASE Compare \/ ServeAlone \/ CaughtUp \/ EnterFollow
    BY <2>0, <2>4, CompareInv, ServeAloneInv, CaughtUpInv, EnterFollowInv
  <2>5. CASE Poll \/ FetchBlock
    BY <2>0, <2>5, ReadInv
  <2>6. CASE ApplyBlock
    BY <2>0, <2>6, ApplyInv DEF ApplyBlock
  <2>7. CASE PublishNullifiers \/ PublishWitnesses \/ SaveNullifiers \/ SaveWitnesses
    BY <2>0, <2>7, PublishInv, SaveNullifiersInv
  <2>. QED
    BY <1>2, <2>1, <2>2, <2>3, <2>4, <2>5, <2>6, <2>7 DEF ServerStep, LoopStep
<1>3. CASE PollNothingNew
  BY <1>3, ReadInv DEF PollNothingNew, vars
<1>4. CASE Disturbance
  <2>0. UNCHANGED features
    BY <1>4 DEF Disturbance
  <2>1. CASE Environment
    BY <2>0, <2>1, EnvironmentInv
  <2>2. CASE CallFailsInSync
    BY <2>0, <2>2, SyncStepInv
  <2>3. CASE CallFails \/ Crash
    BY <2>0, <2>3, FailRunInv DEF CallFails, Crash
  <2>. QED
    BY <1>4, <2>1, <2>2, <2>3 DEF Disturbance
<1>. QED
  BY <1>1, <1>2, <1>3, <1>4 DEF Next

LEMMA Invariant == Spec => []IInv
<1>1. IInv /\ [Next]_vars => IInv'
  BY IInvNext
<1>. QED
  BY ServerInit, <1>1, PTL DEF Spec

-----------------------------------------------------------------------------
(* The theorems *)

(* Neither the catching up of one subsystem nor the loop ever inserts a    *)
(* block at a height the table holds already: insert_block does not check. *)
THEOREM InsertsAreFreshCorrect == Spec => []InsertsAreFresh
<1>1. IInv => InsertsAreFresh
  BY NfQueueHead, AppliedBlock DEF IInv, InsertsAreFresh
<1>. QED
  BY <1>1, Invariant, PTL

(* As long as no insertion was refused, what the table holds from the      *)
(* bottom of the tracker's window on is that window, whenever the loop     *)
(* polls, after any number of reorgs, failed calls and crashes.            *)
THEOREM WindowCorrect == Spec => []WindowIsInTable
<1>1. IInv => WindowIsInTable
  <2> SUFFICES ASSUME IInv, mode = "poll", HasNullifier, refusals = 0
               PROVE  {b \in table : HeightOf[b] >= tracker[1].height}
                        = {tracker[i].hash : i \in DOMAIN tracker} \ {ZeroHash}
    BY DEF WindowIsInTable
  <2>1. /\ Window(tracker) /\ Covers(tracker, table) /\ Holds(tracker, table)
        /\ Whole(table)
    BY DEF IInv, TrackerInv, Following, NfBase, NfTables
  <2>2. DOMAIN tracker = 1..Len(tracker)
    BY <2>1 DEF Window
  <2>3. ASSUME NEW b \in table, HeightOf[b] >= tracker[1].height
        PROVE  b \in {tracker[i].hash : i \in DOMAIN tracker} \ {ZeroHash}
    <3>1. b \in Block /\ b # ZeroHash
      BY <2>1, Constants DEF Whole
    <3>2. \E i \in 1..Len(tracker) : tracker[i].hash = b
      BY <2>1, <2>3 DEF Covers
    <3>. QED
      BY <2>2, <3>1, <3>2
  <2>4. ASSUME NEW i \in 1..Len(tracker), tracker[i].hash # ZeroHash
        PROVE  tracker[i].hash \in table /\ HeightOf[tracker[i].hash] >= tracker[1].height
    <3>1. tracker[i].hash \in Block
      BY <2>1, <2>4, WindowPair
    <3>2. tracker[i].height = HeightOf[tracker[i].hash]
      BY <2>1, <3>1 DEF Window
    <3>3. tracker[1].height <= tracker[i].height /\ tracker[i].height \in Nat
          /\ tracker[1].height \in Nat
      BY <2>1, WindowEnds, WindowPair
    <3>. QED
      BY <2>1, <3>1, <3>2, <3>3 DEF Holds
  <2>. QED
    BY <2>2, <2>3, <2>4
<1>. QED
  BY <1>1, Invariant, PTL

(* The orphans of a reorg leave the table of the combined server: of the   *)
(* blocks it holds after one of the loop, those that are no ancestors of   *)
(* that block lie below the window the tracker had.                        *)
THEOREM OrphansCorrect == Spec => OrphansLeave
<1>1. ASSUME IInv, [Next]_vars, mode = "apply", fetched' # fetched
      PROVE  OrphansLeft
  <2>1. CASE FailRun
    BY <2>1 DEF FailRun, OrphansLeft
  <2>2. CASE ApplyBlock
    <3>1. PICK b \in Block : Extend(b) \/ Reorg(b)
      BY <2>2 DEF ApplyBlock
    <3>2. CASE HasNullifier
      BY <1>1, <3>1, <3>2, ExtendWell, ReorgWell DEF AppliedWell
    <3>3. CASE ~HasNullifier
      <4>1. table = {}
        BY <1>1, <3>3 DEF IInv, ModesInv, NfBase, NfTables
      <4>2. table' = {}
        BY <3>1, <3>3, <4>1 DEF Extend, Reorg
      <4>. QED
        BY <4>2 DEF OrphansLeft
    <3>. QED
      BY <3>2, <3>3
  <2>3. FailRun \/ ApplyBlock
    <3>1. CASE UNCHANGED vars
      BY <1>1, <3>1 DEF vars, loopVars
    <3>2. CASE ServerStep
      <4>1. CASE NfSync \/ WitSync \/ SyncStep
        BY <1>1, <4>1 DEF NfSync, WitSync, SyncStep, NfPrepare, NfSynced, WitPrepare,
           WitSynced, WitFails, loopVars
      <4>2. CASE LoopStep
        BY <1>1, <4>2 DEF LoopStep, BothReturned, Compare, ServeAlone, CaughtUp, EnterFollow,
           Poll, FetchBlock, BlockMissing, PublishNullifiers, PublishWitnesses, SaveNullifiers,
           SaveWitnesses, loopVars
      <4>. QED
        BY <3>2, <4>1, <4>2 DEF ServerStep
    <3>3. CASE PollNothingNew
      BY <1>1, <3>3 DEF PollNothingNew
    <3>4. CASE Disturbance
      BY <1>1, <3>4 DEF Disturbance, Environment, CallFailsInSync, CallFails, Crash, loopVars
    <3>. QED
      BY <1>1, <3>1, <3>2, <3>3, <3>4 DEF Next
  <2>. QED
    BY <2>1, <2>2, <2>3
<1>2. IInv /\ [Next]_vars =>
        [mode = "apply" /\ fetched' # fetched =>
           \A b \in table' :
             HeightOf[b] < tracker[1].height \/ b \in ChainOf[Tracker!Tip(tracker').hash]]_vars
  BY <1>1 DEF OrphansLeft
<1>. QED
  BY <1>2, Invariant, PTL DEF Spec, OrphansLeave
=============================================================================
