----------------------------- MODULE Spend_proofs -----------------------------
(***************************************************************************)
(* Proofs about the standalone nullifier server and its client, for every  *)
(* tree of blocks, every size of its batches, channel, table and window,   *)
(* and any number of crashes, failed calls, changes of branch and          *)
(* requests.                                                               *)
(*                                                                         *)
(* The inductive invariant has named parts, proved one on top of the       *)
(* other: what the two tasks are doing (RangesInv), what the table holds   *)
(* relative to that (TablesInv), that it has no gap (GapsInv), that it is  *)
(* on lightwalletd's branch (BranchInv), what the tracker holds            *)
(* (TrackerInv), how old the snapshot is (LagInv), what an undisturbed     *)
(* backfill has read (BackfillInv) and that the server is never on its way *)
(* to serve less than it told a client (HeldInv).  Where an entry says the *)
(* outputs are is a matter of the parser: the last part computes it.       *)
(***************************************************************************)
EXTENDS SpendClient, Lightwalletd_proofs, SequenceTheorems

-----------------------------------------------------------------------------
(* The size of a table *)

PickOf(s) == CHOOSE x \in s : TRUE
Sums(f, t) ==
  f = [s \in SUBSET t |-> IF s = {} THEN 0 ELSE Weight[PickOf(s)] + f[s \ {PickOf(s)}]]

LEMMA SizeIter == ASSUME NEW t PROVE Size(t) = (CHOOSE f : Sums(f, t))[t]
  BY DEF Size, MapThenSumSet, MapThenFoldSet, Sums, PickOf

LEMMA SumsExist ==
  ASSUME NEW t, t \subseteq Block, IsFiniteSet(t)
  PROVE  \E f : Sums(f, t)
<1> DEFINE Small(n) == {s \in SUBSET t : Cardinality(s) <= n}
           Upto(f, n) == f = [s \in Small(n) |->
                                IF s = {} THEN 0 ELSE Weight[PickOf(s)] + f[s \ {PickOf(s)}]]
           Bad == {n \in Nat : ~ \E f : Upto(f, n)}
<1>0. \A s \in SUBSET t : IsFiniteSet(s) /\ Cardinality(s) \in Nat
  BY FS_Subset, FS_CardinalityType
<1>1. \E f : Upto(f, 0)
  <2>1. \A s \in Small(0) : s = {}
    BY <1>0, FS_EmptySet
  <2>2. Upto([s \in Small(0) |-> 0], 0)
    BY <2>1
  <2>. QED
    BY <2>2
<1>2. ASSUME NEW n \in Nat, n # 0, \E f : Upto(f, n - 1)
      PROVE  \E f : Upto(f, n)
  <2>1. PICK f : Upto(f, n - 1)
    BY <1>2
  <2> DEFINE g == [s \in Small(n) |->
                     IF s = {} THEN 0 ELSE Weight[PickOf(s)] + f[s \ {PickOf(s)}]]
  <2>2. ASSUME NEW s \in Small(n), s # {}
        PROVE  g[s] = Weight[PickOf(s)] + g[s \ {PickOf(s)}]
    <3> DEFINE r == s \ {PickOf(s)}
    <3>1. PickOf(s) \in s
      BY <2>2 DEF PickOf
    <3>2. Cardinality(r) = Cardinality(s) - 1 /\ r \in SUBSET t
      BY <3>1, <1>0, FS_RemoveElement
    <3>3. r \in Small(n - 1) /\ r \in Small(n)
      BY <3>2, <1>0, <1>2
    <3>4. f[r] = g[r]
      BY <3>3, <2>1
    <3>. QED
      BY <3>4, <2>2
  <2>3. Upto(g, n)
    BY <2>2
  <2>. QED
    BY <2>3
<1>3. Bad = {}
  <2>1. SUFFICES ASSUME Bad # {} PROVE FALSE
    OBVIOUS
  <2>2. Bad \in SUBSET Nat
    OBVIOUS
  <2>3. \E n \in Bad : \A m \in Bad : n <= m
    <3> HIDE DEF Bad
    <3>. QED
      BY <2>1, <2>2, LeastNat
  <2>4. PICK n \in Bad : \A m \in Bad : n <= m
    BY <2>3
  <2>5. n \in Nat /\ n # 0
    BY <1>1
  <2>6. n - 1 \notin Bad /\ n - 1 \in Nat
    <3>1. n - 1 \in Nat /\ ~(n <= n - 1)
      BY <2>5
    <3> HIDE DEF Bad
    <3>. QED
      BY <3>1, <2>4
  <2>7. \E f : Upto(f, n - 1)
    BY <2>6
  <2>. QED
    BY <2>5, <2>7, <1>2
<1>4. Small(Cardinality(t)) = SUBSET t
  <2>1. \A s \in SUBSET t : Cardinality(s) <= Cardinality(t)
    BY FS_Subset
  <2>. QED
    BY <2>1
<1>5. Cardinality(t) \in Nat
  BY FS_CardinalityType
<1>6. PICK f : Upto(f, Cardinality(t))
  BY <1>3, <1>5
<1>. QED
  BY <1>4, <1>6 DEF Sums

LEMMA SizeType ==
  ASSUME NEW t, t \subseteq Block, IsFiniteSet(t)
  PROVE  Size(t) \in Nat
<1> DEFINE f == CHOOSE g : Sums(g, t)
           Bad == {n \in Nat : \E s \in SUBSET t : Cardinality(s) = n /\ f[s] \notin Nat}
<1>0. \A s \in SUBSET t : IsFiniteSet(s) /\ Cardinality(s) \in Nat
  BY FS_Subset, FS_CardinalityType
<1>1. Sums(f, t)
  BY SumsExist
<1> HIDE DEF f
<1>2. Bad = {}
  <2>1. SUFFICES ASSUME Bad # {} PROVE FALSE
    OBVIOUS
  <2>2. Bad \in SUBSET Nat
    OBVIOUS
  <2>3. \E n \in Bad : \A m \in Bad : n <= m
    <3> HIDE DEF Bad
    <3>. QED
      BY <2>1, <2>2, LeastNat
  <2>4. PICK n \in Bad : \A m \in Bad : n <= m
    BY <2>3
  <2>5. PICK s \in SUBSET t : Cardinality(s) = n /\ f[s] \notin Nat
    BY <2>4
  <2>6. s # {}
    BY <2>5, <1>1 DEF Sums
  <2>7. f[s] = Weight[PickOf(s)] + f[s \ {PickOf(s)}]
    BY <2>6, <1>1 DEF Sums
  <2>8. PickOf(s) \in s
    BY <2>6 DEF PickOf
  <2>9. Weight[PickOf(s)] \in Nat
    BY <2>8, ServerAssumption
  <2>10. Cardinality(s \ {PickOf(s)}) = n - 1 /\ n - 1 \in Nat /\ n - 1 < n
    <3>1. Cardinality(s \ {PickOf(s)}) = Cardinality(s) - 1
      BY <2>8, <1>0, FS_RemoveElement
    <3>2. Cardinality(s \ {PickOf(s)}) \in Nat
      BY <1>0
    <3>. QED
      BY <3>1, <3>2, <2>5, <2>2
  <2>11. n - 1 \notin Bad
    BY <2>4, <2>10, <2>2
  <2>12. f[s \ {PickOf(s)}] \in Nat
    BY <2>10, <2>11
  <2>. QED
    BY <2>5, <2>7, <2>9, <2>12
<1>3. f[t] \in Nat
  BY <1>0, <1>2
<1>. QED
  BY <1>3, SizeIter DEF f

LEMMA SizeOfNone == Size({}) = 0
<1>1. \E f : Sums(f, {})
  BY SumsExist, FS_EmptySet
<1> DEFINE g == CHOOSE f : Sums(f, {})
<1>2. Sums(g, {})
  BY <1>1
<1>3. g[{}] = 0
  BY <1>2 DEF Sums
<1>. QED
  BY <1>3, SizeIter

LEMMA SizeOfOne == ASSUME NEW b \in Block PROVE Size({b}) = Weight[b]
<1>1. \E f : Sums(f, {b})
  BY SumsExist, FS_Singleton
<1> DEFINE g == CHOOSE f : Sums(f, {b})
<1>2. Sums(g, {b})
  BY <1>1
<1> HIDE DEF g
<1>3. PickOf({b}) = b
  BY DEF PickOf
<1>4. g[{}] = 0
  BY <1>2 DEF Sums
<1>5. {b} \ {b} = {} /\ {b} # {} /\ {b} \in SUBSET {b}
  OBVIOUS
<1>6. g[{b}] = Weight[b] + 0
  BY <1>2, <1>3, <1>4, <1>5 DEF Sums
<1>7. Weight[b] \in Nat
  BY ServerAssumption
<1>8. Weight[b] + 0 = Weight[b]
  BY <1>7
<1>9. Size({b}) = g[{b}]
  BY SizeIter DEF g
<1>. QED
  BY <1>6, <1>8, <1>9

-----------------------------------------------------------------------------
(* Whole tables *)

(* A table holds finitely many blocks, at most one per height. *)
Whole(t) ==
  /\ t \subseteq Block
  /\ IsFiniteSet(t)
  /\ \E n \in Nat : \A b \in t : HeightOf[b] <= n
  /\ \A b, c \in t : HeightOf[b] = HeightOf[c] => b = c

LEMMA MaxOfTwo ==
  ASSUME NEW m \in Int, NEW n \in Int
  PROVE  Max({m, n}) = IF m >= n THEN m ELSE n
  BY DEF Max

LEMMA MinOfTwo ==
  ASSUME NEW m \in Int, NEW n \in Int
  PROVE  Min({m, n}) = IF m <= n THEN m ELSE n
  BY DEF Min

LEMMA NewestOf ==
  ASSUME NEW t, Whole(t), NEW b \in t, \A c \in t : HeightOf[c] <= HeightOf[b]
  PROVE  Latest(t) = HeightOf[b] /\ LatestHash(t) = b
<1>1. t # {} /\ \A c \in t : c \in Block /\ HeightOf[c] \in Nat
  BY HeightType DEF Whole
<1>2. \A h \in Heights(t) : h \in Nat /\ h <= HeightOf[b]
  BY <1>1 DEF Heights
<1>3. HeightOf[b] \in Heights(t) /\ \A h \in Heights(t) : HeightOf[b] >= h
  BY <1>1, <1>2 DEF Heights
<1>4. ASSUME NEW x \in Heights(t), \A h \in Heights(t) : x >= h
      PROVE  x = HeightOf[b]
  BY <1>2, <1>3, <1>4
<1>5. Max(Heights(t)) = HeightOf[b]
  BY <1>3, <1>4 DEF Max
<1>6. Latest(t) = HeightOf[b]
  BY <1>1, <1>5 DEF Latest
<1>7. \A c \in t : HeightOf[c] = Latest(t) => c = b
  BY <1>6 DEF Whole
<1>8. (CHOOSE c \in t : HeightOf[c] = Latest(t)) = b
  BY <1>6, <1>7
<1>. QED
  BY <1>1, <1>6, <1>8 DEF LatestHash

LEMMA NewestExists ==
  ASSUME NEW t, Whole(t), t # {}
  PROVE  \E b \in t : /\ \A c \in t : HeightOf[c] <= HeightOf[b]
                      /\ Latest(t) = HeightOf[b]
                      /\ LatestHash(t) = b
<1>1. PICK n \in Nat : \A b \in t : HeightOf[b] <= n
  BY DEF Whole
<1>2. Heights(t) \in SUBSET Nat /\ Heights(t) # {} /\ \A h \in Heights(t) : h <= n
  BY <1>1, HeightType DEF Heights, Whole
<1>3. \E h \in Heights(t) : \A k \in Heights(t) : k <= h
  BY <1>2, GreatestNat
<1>4. PICK b \in t : \A c \in t : HeightOf[c] <= HeightOf[b]
  BY <1>3 DEF Heights
<1>. QED
  BY <1>4, NewestOf

LEMMA LatestBounds ==
  ASSUME NEW t, Whole(t)
  PROVE  /\ Latest(t) \in Nat
         /\ \A c \in t : HeightOf[c] <= Latest(t)
         /\ t # {} => Latest(t) \in Heights(t)
         /\ LatestHash(t) \in Block \cup {ZeroHash}
         /\ LatestHash(t) \in Block => HeightOf[LatestHash(t)] = Latest(t)
<1>1. CASE t = {}
  BY <1>1, ServerAssumption DEF Latest, LatestHash
<1>2. CASE t # {}
  <2>1. PICK b \in t : /\ \A c \in t : HeightOf[c] <= HeightOf[b]
                       /\ Latest(t) = HeightOf[b]
                       /\ LatestHash(t) = b
    BY <1>2, NewestExists
  <2>2. b \in Block /\ HeightOf[b] \in Nat
    BY HeightType DEF Whole
  <2>. QED
    BY <2>1, <2>2, <1>2 DEF Heights
<1>. QED
  BY <1>1, <1>2

LEMMA WholeNone == Whole({}) /\ Latest({}) = 0 /\ Interval(Heights({}))
  BY FS_EmptySet DEF Whole, Latest, Interval, Heights

LEMMA WholeSubset ==
  ASSUME NEW t, Whole(t), NEW s \in SUBSET t
  PROVE  Whole(s)
  BY FS_Subset DEF Whole

LEMMA WholeInsert ==
  ASSUME NEW t, Whole(t), NEW b \in Block, HeightOf[b] \notin Heights(t)
  PROVE  /\ Whole(t \cup {b})
         /\ Heights(t \cup {b}) = Heights(t) \cup {HeightOf[b]}
<1>1. \A c \in t : HeightOf[c] # HeightOf[b]
  BY DEF Heights
<1>2. IsFiniteSet(t \cup {b})
  BY FS_AddElement DEF Whole
<1>3. PICK n \in Nat : \A c \in t : HeightOf[c] <= n
  BY DEF Whole
<1>4. HeightOf[b] \in Nat /\ \A c \in t : HeightOf[c] \in Nat
  BY HeightType DEF Whole
<1>5. n + HeightOf[b] \in Nat /\ \A c \in t \cup {b} : HeightOf[c] <= n + HeightOf[b]
  BY <1>3, <1>4
<1>6. \E m \in Nat : \A c \in t \cup {b} : HeightOf[c] <= m
  BY <1>5
<1>7. t \cup {b} \subseteq Block
  BY DEF Whole
<1>8. \A c, d \in t \cup {b} : HeightOf[c] = HeightOf[d] => c = d
  BY <1>1 DEF Whole
<1>. QED
  BY <1>2, <1>6, <1>7, <1>8 DEF Whole, Heights

(* Eviction cuts a table at a height, and never drops its newest block.    *)
LEMMA EvictedCut ==
  ASSUME NEW t, Whole(t)
  PROVE  \E h \in Nat : /\ Evicted(t) = From(t, h)
                        /\ t # {} => h <= Latest(t)
<1> DEFINE S == {h \in Heights(t) \cup {Latest(t) + 1} : Size(From(t, h)) <= TargetSize}
<1>1. Heights(t) \in SUBSET Nat /\ Latest(t) \in Nat
  BY LatestBounds, HeightType DEF Heights, Whole
<1>2. CASE t = {}
  <2>1. From(t, Latest(t) + 1) = {} /\ TargetSize \in Nat
    BY <1>2, ServerAssumption DEF From
  <2>2. Latest(t) + 1 \in S
    BY <2>1, SizeOfNone
  <2>3. S = {Latest(t) + 1}
    BY <1>2, <2>2 DEF Heights
  <2>4. Min(S) = Latest(t) + 1
    BY <2>3, <1>1 DEF Min
  <2>. QED
    BY <2>4, <1>1, <1>2 DEF Evicted
<1>3. CASE t # {}
  <2>1. PICK b \in t : /\ \A c \in t : HeightOf[c] <= HeightOf[b]
                       /\ Latest(t) = HeightOf[b]
    BY <1>3, NewestExists
  <2>2. b \in Block /\ HeightOf[b] \in Nat /\ \A c \in t : c \in Block /\ HeightOf[c] \in Nat
    BY HeightType DEF Whole
  <2>3. From(t, Latest(t)) = {b}
    <3>1. \A c \in t : HeightOf[c] >= HeightOf[b] => c = b
      BY <2>1, <2>2 DEF Whole
    <3>2. HeightOf[b] >= HeightOf[b]
      BY <2>2
    <3>. QED
      BY <3>1, <3>2, <2>1 DEF From
  <2>4. Size({b}) <= TargetSize
    BY <2>2, SizeOfOne, ServerAssumption
  <2>5. Latest(t) \in S /\ S \in SUBSET Nat
    BY <2>1, <2>3, <2>4, <1>1 DEF Heights
  <2>6. \E h \in S : \A k \in S : h <= k
    <3> HIDE DEF S
    <3>. QED
      BY <2>5, LeastNat
  <2>7. Min(S) \in S /\ \A k \in S : Min(S) <= k
    <3> HIDE DEF S
    <3>. QED
      BY <2>6 DEF Min
  <2>8. Min(S) \in Nat /\ Min(S) <= Latest(t)
    <3> HIDE DEF S
    <3>. QED
      BY <2>5, <2>7
  <2>. QED
    BY <2>8 DEF Evicted
<1>. QED
  BY <1>2, <1>3

LEMMA EvictedKeeps ==
  ASSUME NEW t, Whole(t)
  PROVE  /\ Evicted(t) \subseteq t
         /\ Whole(Evicted(t))
         /\ Latest(Evicted(t)) = Latest(t)
         /\ LatestHash(Evicted(t)) = LatestHash(t)
         /\ Interval(Heights(t)) => Interval(Heights(Evicted(t)))
<1>1. PICK h \in Nat : Evicted(t) = From(t, h) /\ (t # {} => h <= Latest(t))
  BY EvictedCut
<1>2. Evicted(t) \subseteq t /\ Whole(Evicted(t))
  BY <1>1, WholeSubset DEF From
<1>3. Latest(Evicted(t)) = Latest(t) /\ LatestHash(Evicted(t)) = LatestHash(t)
  <2>1. CASE t = {}
    BY <2>1, <1>2 DEF Latest, LatestHash
  <2>2. CASE t # {}
    <3>1. PICK b \in t : /\ \A c \in t : HeightOf[c] <= HeightOf[b]
                         /\ Latest(t) = HeightOf[b]
                         /\ LatestHash(t) = b
      BY <2>2, NewestExists
    <3>2. HeightOf[b] \in Nat
      BY HeightType DEF Whole
    <3>3. b \in Evicted(t)
      BY <3>1, <3>2, <1>1, <2>2 DEF From
    <3>. QED
      BY <3>1, <3>3, <1>2, NewestOf
  <2>. QED
    BY <2>1, <2>2
<1>4. ASSUME Interval(Heights(t))
      PROVE  Interval(Heights(Evicted(t)))
  <2>1. \A b \in t : HeightOf[b] \in Nat
    BY HeightType DEF Whole
  <2>2. Heights(Evicted(t)) = {k \in Heights(t) : k >= h}
    BY <1>1 DEF Heights, From
  <2>3. ASSUME NEW l \in Heights(Evicted(t)), NEW g \in Heights(Evicted(t)), NEW k \in l..g
        PROVE  k \in Heights(Evicted(t))
    <3>1. l \in Nat /\ g \in Nat /\ l \in Heights(t) /\ g \in Heights(t) /\ l >= h
      BY <2>1, <2>2 DEF Heights
    <3>2. k \in Heights(t) /\ k >= h
      BY <3>1, <1>4 DEF Interval
    <3>. QED
      BY <3>2, <2>2
  <2>. QED
    BY <2>3 DEF Interval
<1>. QED
  BY <1>2, <1>3, <1>4

-----------------------------------------------------------------------------
(* What the tasks are doing, and what the table holds *)

(* The block the main task takes in next is one above this height. *)
Done == current - Len(queue)

(* TypeOK but for the tracker. *)
Types ==
  /\ best \in Block /\ switches \in Nat
  /\ pc \in {"down", "sync", "backfill", "synced", "saved", "follow", "snapshot", "exited"}
  /\ fresh \in BOOLEAN /\ serving \in BOOLEAN /\ swallowed \in BOOLEAN
  /\ task \in {"idle", "poll", "fetch", "send"}
  /\ backfillEnd \in Nat /\ since \in Nat /\ current \in Nat /\ goal \in Nat
  /\ to \in Nat /\ failures \in Nat /\ crashes \in Nat
  /\ fetched \in Seq(Block)
  /\ queue \in Seq(Event)
  /\ Len(queue) <= Capacity

(* The blocks read, and before them those in the channel, follow each      *)
(* other without a gap; the range being read ends inside the one asked for.*)
RangesInv ==
  /\ \A i \in 1..Len(fetched) : HeightOf[fetched[i]] = current + i
  /\ \A i \in 1..Len(queue) : HeightOf[queue[i].block] = Done + i
  /\ Done >= 0
  /\ task \in {"idle", "poll"} => fetched = <<>>
  /\ task = "fetch" => current + Len(fetched) < goal
  /\ task = "send" => fetched # <<>>
  /\ Syncing => current <= to
  /\ Syncing /\ task \in {"fetch", "send"} => current + Len(fetched) <= goal /\ goal <= to
  /\ ~Syncing /\ ~Following => queue = <<>> /\ task = "idle"

(* The table is below what is still to come, or, during a backfill, above  *)
(* the range being read.                                                   *)
TablesInv ==
  /\ Whole(table)
  /\ \A t \in disk : Whole(t)
  /\ serving <=> Following
  /\ live = IF Following THEN table ELSE {}
  /\ pc \in {"down", "exited"} => table = {}
  /\ Syncing => \A b \in table : HeightOf[b] <= Done \/ HeightOf[b] > to
  /\ pc = "sync" => \A b \in table : HeightOf[b] <= Done
  /\ Following => Latest(table) = Done
  /\ pc = "backfill" => fresh

(* A fresh table is above what is left to backfill. *)
FreshInv ==
  fresh /\ pc \in {"sync", "backfill", "synced", "saved"} =>
    /\ \A b \in table : HeightOf[b] > backfillEnd
    /\ Floor - 1 <= backfillEnd
    /\ Syncing => backfillEnd <= Done

Base == Types /\ RangesInv /\ TablesInv /\ FreshInv

LEMMA Constants ==
  /\ BackfillBatch \in Nat \ {0} /\ SyncBatch \in Nat \ {0} /\ Capacity \in Nat \ {0}
  /\ SnapshotInterval \in Nat \ {0} /\ TrackerDepth \in Nat \ {0} /\ Floor \in Nat \ {0}
  /\ BackfillTarget \in Nat
  /\ ZeroHash \notin Block /\ Genesis \notin Block /\ ZeroHash # Genesis
  BY ServerAssumption, ChainAssumption

LEMMA BaseInit == Init => Base
<1> SUFFICES ASSUME Init
             PROVE  Base
  OBVIOUS
<1>1. Types
  <2>1. best \in Block /\ switches = 0
    BY ChainAssumption DEF Init, ChainInit
  <2>2. fresh \in BOOLEAN /\ serving \in BOOLEAN /\ swallowed \in BOOLEAN
    BY DEF Init
  <2>3. fetched = <<>> /\ queue = <<>> /\ pc = "down" /\ task = "idle"
        /\ backfillEnd = 0 /\ since = 0 /\ current = 0 /\ goal = 0 /\ to = 0
        /\ failures = 0 /\ crashes = 0
    BY DEF Init
  <2>4. queue \in Seq(Event) /\ fetched \in Seq(Block) /\ Len(queue) <= Capacity
    BY <2>3, Constants
  <2>. QED
    BY <2>1, <2>2, <2>3, <2>4 DEF Types
<1>2. RangesInv
  BY DEF Init, RangesInv, Syncing, Following, Done
<1>3. TablesInv
  <2>1. ~Following /\ ~Syncing /\ serving = FALSE /\ disk = {} /\ table = {} /\ live = {}
        /\ pc = "down"
    BY DEF Init, Following, Syncing
  <2>. QED
    BY <2>1, WholeNone DEF TablesInv
<1>4. FreshInv
  BY DEF Init, FreshInv
<1>. QED
  BY <1>1, <1>2, <1>3, <1>4 DEF Base

(* Steps that leave the table, what was read and the channel alone. *)
LEMMA QuietBase ==
  ASSUME Base,
         \/ Environment \/ PollSync \/ PollFollow \/ RangeDone \/ SaveAfterSync
         \/ PeriodicSave \/ UNCHANGED vars
  PROVE  Base'
<1> USE DEF Base, Types, RangesInv, TablesInv, FreshInv, Syncing, Following, Done
<1>1. CASE Environment
  <2>1. best' \in Block /\ switches' \in Nat
    BY <1>1 DEF Environment, Grow, Switch
  <2>. QED
    BY <1>1, <2>1 DEF Environment, mainVars, taskVars, faultVars
<1>2. CASE PollSync
  <2>1. Len(fetched) = 0 /\ fetched = <<>>
    BY <1>2 DEF PollSync
  <2>2. CASE current < to
    <3>1. goal' = Min({current + SyncBatch, to}) /\ task' = "fetch"
      BY <1>2, <2>2 DEF PollSync
    <3>2. current + SyncBatch \in Int /\ to \in Int
      BY Constants
    <3>3. goal' \in Nat /\ current < goal' /\ goal' <= to
      BY <2>2, <3>1, <3>2, MinOfTwo, Constants
    <3>. QED
      BY <1>2, <2>1, <3>1, <3>3 DEF PollSync, chainVars, mainVars, faultVars
  <2>3. CASE ~(current < to)
    BY <1>2, <2>1, <2>3 DEF PollSync, chainVars, mainVars, faultVars
  <2>. QED
    BY <2>2, <2>3
<1>3. CASE PollFollow
  <2>1. Len(fetched) = 0 /\ fetched = <<>>
    BY <1>3 DEF PollFollow
  <2>2. goal' \in Nat /\ goal' > current
    BY <1>3, HeightType DEF PollFollow, TipIsNewer
  <2>. QED
    BY <1>3, <2>1, <2>2 DEF PollFollow, chainVars, mainVars, faultVars
<1>4. CASE RangeDone
  BY <1>4 DEF RangeDone, chainVars, taskVars, faultVars
<1>5. CASE SaveAfterSync
  BY <1>5 DEF SaveAfterSync, chainVars, taskVars, faultVars
<1>6. CASE PeriodicSave
  BY <1>6 DEF PeriodicSave, chainVars, taskVars, faultVars
<1>7. CASE UNCHANGED vars
  BY <1>7 DEF vars, chainVars, mainVars, taskVars, faultVars
<1>. QED
  BY <1>1, <1>2, <1>3, <1>4, <1>5, <1>6, <1>7

LEMMA EndTaskBase ==
  ASSUME Base, Syncing \/ Following, EndTask, failures' \in Nat
  PROVE  Base'
<1>1. fetched' = <<>> /\ Len(fetched') = 0 /\ fetched' \in Seq(Block)
  BY DEF EndTask
<1>. QED
  BY <1>1 DEF EndTask, chainVars, mainVars,
     Base, Types, RangesInv, TablesInv, FreshInv, Syncing, Following, Done

LEMMA FailureBase ==
  ASSUME Base, BlockMissing \/ CallFails
  PROVE  Base' /\ EndTask /\ (Syncing \/ Following)
<1>1. Syncing \/ Following
  BY DEF BlockMissing, CallFails, Base, RangesInv
<1>2. failures' \in Nat /\ EndTask
  BY DEF BlockMissing, CallFails, Base, Types
<1>. QED
  BY <1>1, <1>2, EndTaskBase

LEMMA FetchBlockBase ==
  ASSUME Base, FetchBlock
  PROVE  Base'
<1> DEFINE b == BlockAt(NextHeight)
<1>1. b \in Block /\ HeightOf[b] = NextHeight
  BY BlockAtHeight DEF FetchBlock, Base, Types
<1>2. /\ fetched \in Seq(Block) /\ Len(fetched) \in Nat /\ current \in Nat /\ goal \in Nat
      /\ NextHeight = current + 1 + Len(fetched) /\ NextHeight <= goal
  BY DEF Base, Types, RangesInv, FetchBlock, NextHeight
<1>3. fetched' = Append(fetched, b)
  BY DEF FetchBlock
<1> HIDE DEF b
<1>4. /\ fetched' \in Seq(Block) /\ Len(fetched') = Len(fetched) + 1 /\ fetched' # <<>>
      /\ \A i \in 1..Len(fetched) : fetched'[i] = fetched[i]
      /\ fetched'[Len(fetched) + 1] = b
  BY <1>1, <1>2, <1>3
<1>5. ASSUME NEW i \in 1..Len(fetched')
      PROVE  HeightOf[fetched'[i]] = current + i
  <2>1. CASE i \in 1..Len(fetched)
    BY <2>1, <1>4 DEF Base, RangesInv
  <2>2. CASE i = Len(fetched) + 1
    BY <2>2, <1>1, <1>2, <1>4
  <2>. QED
    BY <2>1, <2>2, <1>2, <1>4
<1>6. task = "fetch" /\ task' = IF NextHeight = goal THEN "send" ELSE "fetch"
  BY DEF FetchBlock
<1>7. UNCHANGED <<best, switches, pc, fresh, table, backfillEnd, since, live, serving, disk,
                  current, goal, to, tracker, queue, failures, crashes, swallowed>>
  BY DEF FetchBlock, chainVars, mainVars, faultVars
<1>8. Types'
  BY <1>4, <1>6, <1>7 DEF Base, Types
<1>9. RangesInv'
  <2>1. task' = "fetch" => current + Len(fetched') < goal
    BY <1>2, <1>4, <1>6
  <2>2. current + Len(fetched') <= goal
    BY <1>2, <1>4
  <2>. QED
    BY <1>4, <1>5, <1>6, <1>7, <2>1, <2>2 DEF Base, RangesInv, Syncing, Following, Done
<1>10. TablesInv' /\ FreshInv'
  BY <1>7 DEF Base, TablesInv, FreshInv, Syncing, Following, Done
<1>. QED
  BY <1>8, <1>9, <1>10 DEF Base

(* Handing on a block leaves Done where it is. *)
LEMMA HandOnBase ==
  ASSUME Base, Syncing \/ Following, fetched # <<>>,
         NEW e \in Event, e.block = Head(fetched), HandOn(e)
  PROVE  Base' /\ Done' = Done /\ current' = current + 1
<1>1. /\ fetched \in Seq(Block) /\ queue \in Seq(Event)
      /\ Len(fetched) \in Nat /\ Len(queue) \in Nat /\ current \in Nat
  BY DEF Base, Types
<1>2. Len(fetched) # 0 /\ Head(fetched) = fetched[1] /\ 1 \in 1..Len(fetched)
  BY <1>1
<1>3. HeightOf[Head(fetched)] = current + 1
  BY <1>2 DEF Base, RangesInv
<1>4. /\ queue' = Append(queue, e) /\ current' = current + 1
      /\ fetched' = Tail(fetched)
      /\ task' = (IF Tail(fetched) = <<>> THEN "poll" ELSE "send")
      /\ task = "send" /\ Len(queue) < Capacity
  BY <1>3 DEF HandOn, Room
<1>5. UNCHANGED <<best, switches, pc, fresh, table, backfillEnd, since, live, serving, disk,
                  goal, to, failures, crashes, swallowed>>
  BY DEF HandOn, chainVars, mainVars, faultVars
<1>6. /\ fetched' \in Seq(Block) /\ Len(fetched') = Len(fetched) - 1
      /\ \A i \in 1..Len(fetched') : fetched'[i] = fetched[i + 1]
  BY <1>1, <1>2, <1>4
<1>7. /\ queue' \in Seq(Event) /\ Len(queue') = Len(queue) + 1
      /\ \A i \in 1..Len(queue) : queue'[i] = queue[i]
      /\ queue'[Len(queue) + 1] = e
  BY <1>1, <1>4
<1>8. Done' = Done
  BY <1>1, <1>4, <1>7 DEF Done
<1>9. Types'
  <2>1. Len(queue') <= Capacity
    BY <1>1, <1>4, <1>7, Constants
  <2>. QED
    BY <2>1, <1>1, <1>4, <1>5, <1>6, <1>7 DEF Base, Types
<1>10. ASSUME NEW i \in 1..Len(fetched')
       PROVE  HeightOf[fetched'[i]] = current' + i
  <2>1. i + 1 \in 1..Len(fetched) /\ current + (i + 1) = current' + i
    BY <1>1, <1>4, <1>6
  <2>2. HeightOf[fetched[i + 1]] = current + (i + 1)
    BY <2>1 DEF Base, RangesInv
  <2>. QED
    BY <2>1, <2>2, <1>6
<1>11. ASSUME NEW i \in 1..Len(queue')
       PROVE  HeightOf[queue'[i].block] = Done' + i
  <2>1. CASE i \in 1..Len(queue)
    BY <2>1, <1>7, <1>8 DEF Base, RangesInv
  <2>2. CASE i = Len(queue) + 1
    <3>1. Done + i = current + 1
      BY <2>2, <1>1 DEF Done
    <3>. QED
      BY <3>1, <2>2, <1>3, <1>7, <1>8
  <2>. QED
    BY <2>1, <2>2, <1>1, <1>7
<1>12. /\ task' = "poll" => fetched' = <<>>
       /\ task' = "send" => fetched' # <<>>
       /\ task' \in {"poll", "send"}
       /\ current' + Len(fetched') = current + Len(fetched)
       /\ Syncing => current' <= to
  <2>1. Syncing => current + Len(fetched) <= goal /\ goal <= to /\ goal \in Nat /\ to \in Nat
    BY <1>4 DEF Base, RangesInv, Types
  <2>2. Syncing => current + 1 <= to
    BY <2>1, <1>1, <1>2
  <2>. QED
    BY <2>2, <1>1, <1>4, <1>6
<1>13. RangesInv'
  BY <1>4, <1>5, <1>8, <1>10, <1>11, <1>12 DEF Base, RangesInv, Syncing, Following
<1>14. TablesInv' /\ FreshInv'
  BY <1>5, <1>8 DEF Base, TablesInv, FreshInv, Syncing, Following
<1>. QED
  BY <1>4, <1>8, <1>9, <1>13, <1>14 DEF Base

(* The block the main task takes in is new to the table. *)
LEMMA QueueHead ==
  ASSUME Base, queue # <<>>
  PROVE  /\ Head(queue) = queue[1] /\ Head(queue) \in Event
         /\ Head(queue).block \in Block /\ Head(queue).orphaned \subseteq {ZeroHash}
         /\ HeightOf[Head(queue).block] = Done + 1
         /\ HeightOf[Head(queue).block] \notin Heights(table)
         /\ Len(queue) \in Nat \ {0} /\ Done \in Nat /\ Done + 1 <= current
         /\ Syncing \/ Following
<1>1. queue \in Seq(Event) /\ Len(queue) \in Nat /\ Len(queue) # 0 /\ current \in Nat
  BY DEF Base, Types
<1>2. 1 \in 1..Len(queue) /\ Head(queue) = queue[1] /\ queue[1] \in Event
  BY <1>1
<1>3. HeightOf[Head(queue).block] = Done + 1 /\ Done \in Nat /\ Done + 1 <= current
  BY <1>1, <1>2 DEF Base, RangesInv, Done
<1>4. Syncing \/ Following
  BY DEF Base, RangesInv
<1>5. ASSUME NEW c \in table
      PROVE  HeightOf[c] # Done + 1
  <2>1. HeightOf[c] \in Nat
    BY HeightType DEF Base, TablesInv, Whole
  <2>2. CASE Syncing
    <3>1. HeightOf[c] <= Done \/ HeightOf[c] > to
      BY <2>2 DEF Base, TablesInv
    <3>2. current <= to /\ to \in Nat
      BY <2>2 DEF Base, RangesInv, Types
    <3>. QED
      BY <3>1, <3>2, <2>1, <1>1, <1>3
  <2>3. CASE Following
    <3>1. HeightOf[c] <= Done
      BY <2>3, LatestBounds DEF Base, TablesInv
    <3>. QED
      BY <3>1, <2>1, <1>3
  <2>. QED
    BY <2>2, <2>3, <1>4
<1>6. Done + 1 \notin Heights(table)
  BY <1>5 DEF Heights
<1>. QED
  BY <1>1, <1>2, <1>3, <1>4, <1>6 DEF Event

LEMMA QueueTail ==
  ASSUME Base, queue # <<>>, queue' = Tail(queue), UNCHANGED current
  PROVE  /\ queue' \in Seq(Event)
         /\ Len(queue') = Len(queue) - 1
         /\ \A i \in 1..Len(queue') : queue'[i] = queue[i + 1]
         /\ Done' = Done + 1
         /\ \A i \in 1..Len(queue') : HeightOf[queue'[i].block] = Done' + i
<1>1. queue \in Seq(Event) /\ Len(queue) \in Nat /\ Len(queue) # 0 /\ current \in Nat
  BY DEF Base, Types
<1>2. /\ queue' \in Seq(Event) /\ Len(queue') = Len(queue) - 1
      /\ \A i \in 1..Len(queue') : queue'[i] = queue[i + 1]
  BY <1>1
<1>3. Done' = Done + 1 /\ Done \in Int
  BY <1>1, <1>2 DEF Done
<1>4. ASSUME NEW i \in 1..Len(queue')
      PROVE  HeightOf[queue'[i].block] = Done' + i
  <2>1. i + 1 \in 1..Len(queue) /\ Done + (i + 1) = Done' + i
    BY <1>1, <1>2, <1>3
  <2>2. HeightOf[queue[i + 1].block] = Done + (i + 1)
    BY <2>1 DEF Base, RangesInv
  <2>. QED
    BY <2>1, <2>2, <1>2
<1>. QED
  BY <1>2, <1>3, <1>4

LEMMA InsertSyncedBase ==
  ASSUME Base, InsertSynced
  PROVE  Base'
<1> DEFINE b == Head(queue).block
<1>1. /\ b \in Block /\ HeightOf[b] = Done + 1 /\ HeightOf[b] \notin Heights(table)
      /\ Len(queue) \in Nat \ {0} /\ Done \in Nat
  BY QueueHead DEF InsertSynced
<1>2. /\ UNCHANGED <<best, switches, pc, fresh, backfillEnd, since, live, serving, disk,
                     task, current, goal, to, fetched, tracker, failures, crashes, swallowed>>
      /\ table' = table \cup {b} /\ Syncing /\ ~Following /\ queue # <<>>
      /\ queue' = Tail(queue)
  BY DEF InsertSynced, chainVars, taskVars, faultVars, Syncing, Following
<1> HIDE DEF b
<1>3. /\ queue' \in Seq(Event) /\ Len(queue') = Len(queue) - 1 /\ Done' = Done + 1
      /\ \A i \in 1..Len(queue') : HeightOf[queue'[i].block] = Done' + i
  BY <1>2, QueueTail
<1>4. Types'
  <2>1. Len(queue') <= Capacity
    BY <1>1, <1>3, Constants DEF Base, Types
  <2>. QED
    BY <2>1, <1>2, <1>3 DEF Base, Types
<1>5. RangesInv'
  <2>1. Done' >= 0
    BY <1>1, <1>3
  <2>. QED
    BY <2>1, <1>2, <1>3 DEF Base, RangesInv, Syncing, Following
<1>6. Whole(table')
  BY <1>1, <1>2, WholeInsert DEF Base, TablesInv
<1>7. \A c \in table : HeightOf[c] \in Nat
  BY HeightType DEF Base, TablesInv, Whole
<1>8. \A c \in table' : HeightOf[c] <= Done' \/ HeightOf[c] > to
  BY <1>1, <1>2, <1>3, <1>7 DEF Base, TablesInv
<1>9. pc = "sync" => \A c \in table' : HeightOf[c] <= Done'
  BY <1>1, <1>2, <1>3, <1>7 DEF Base, TablesInv
<1>10. TablesInv'
  BY <1>2, <1>6, <1>8, <1>9 DEF Base, TablesInv, Syncing, Following
<1>11. FreshInv'
  <2> SUFFICES ASSUME fresh
               PROVE  /\ \A c \in table' : HeightOf[c] > backfillEnd
                      /\ Floor - 1 <= backfillEnd
                      /\ backfillEnd <= Done'
    BY <1>2 DEF FreshInv
  <2>1. (\A c \in table : HeightOf[c] > backfillEnd) /\ Floor - 1 <= backfillEnd
        /\ backfillEnd <= Done /\ backfillEnd \in Nat
    BY <1>2 DEF Base, FreshInv, Types, Syncing
  <2>2. backfillEnd < HeightOf[b] /\ backfillEnd <= Done'
    BY <2>1, <1>1, <1>3
  <2>. QED
    BY <2>1, <2>2, <1>1, <1>2
<1>. QED
  BY <1>4, <1>5, <1>10, <1>11 DEF Base

(* What one turn of the event loop does to the table. *)
LEMMA ApplyTable ==
  ASSUME Base, NEW type, Apply(type)
  PROVE  LET b == Head(queue).block
         IN  /\ b \in Block /\ HeightOf[b] = Latest(table) + 1
             /\ HeightOf[b] \notin Heights(table)
             /\ table' = Evicted(table \cup {b})
             /\ Whole(table \cup {b})
             /\ Whole(table')
             /\ Latest(table') = HeightOf[b]
             /\ LatestHash(table') = b
<1> DEFINE b == Head(queue).block
<1>1. /\ b \in Block /\ HeightOf[b] = Done + 1 /\ HeightOf[b] \notin Heights(table)
      /\ Head(queue).orphaned \subseteq {ZeroHash}
  BY QueueHead DEF Apply
<1>2. Latest(table) = Done /\ Whole(table) /\ Done \in Nat
  BY LatestBounds DEF Apply, Base, TablesInv, Following
<1>3. table \ Head(queue).orphaned = table
  BY <1>1, <1>2, Constants DEF Whole
<1>4. table' = Evicted(table \cup {b})
  BY <1>3 DEF Apply, Applied
<1> HIDE DEF b
<1>5. Whole(table \cup {b})
  BY <1>1, <1>2, WholeInsert
<1>6. Latest(table \cup {b}) = HeightOf[b] /\ LatestHash(table \cup {b}) = b
  <2>1. \A c \in table : HeightOf[c] \in Nat /\ HeightOf[c] <= Done
    BY <1>2, LatestBounds, HeightType DEF Whole
  <2>2. \A c \in table \cup {b} : HeightOf[c] <= HeightOf[b]
    BY <2>1, <1>1, <1>2
  <2>. QED
    BY <2>2, <1>5, NewestOf
<1>7. Whole(table') /\ Latest(table') = HeightOf[b] /\ LatestHash(table') = b
  BY <1>4, <1>5, <1>6, EvictedKeeps
<1>. QED
  BY <1>1, <1>2, <1>4, <1>5, <1>7 DEF b

LEMMA ApplyBase ==
  ASSUME Base, NEW type, Apply(type)
  PROVE  Base' /\ Done' = Done + 1
<1>1. /\ UNCHANGED <<best, switches, fresh, backfillEnd, serving, disk,
                     task, current, goal, to, fetched, tracker, failures, crashes, swallowed>>
      /\ pc = "follow" /\ queue # <<>> /\ queue' = Tail(queue)
      /\ pc' \in {"follow", "snapshot"} /\ since' = since + 1 /\ live' = table'
  BY DEF Apply, CountedBlocks, chainVars, taskVars, faultVars
<1>2. Following /\ ~Syncing /\ Following' /\ ~Syncing'
  BY <1>1 DEF Following, Syncing
<1>3. /\ queue' \in Seq(Event) /\ Len(queue') = Len(queue) - 1 /\ Done' = Done + 1
      /\ \A i \in 1..Len(queue') : HeightOf[queue'[i].block] = Done' + i
  BY <1>1, QueueTail
<1>4. Len(queue) \in Nat \ {0} /\ Done \in Nat
  BY <1>1, QueueHead
<1>5. Types'
  <2>1. Len(queue') <= Capacity /\ since' \in Nat
    BY <1>1, <1>3, <1>4, Constants DEF Base, Types
  <2>. QED
    BY <2>1, <1>1, <1>3 DEF Base, Types
<1>6. RangesInv'
  <2>1. Done' >= 0
    BY <1>3, <1>4
  <2>. QED
    BY <2>1, <1>1, <1>2, <1>3 DEF Base, RangesInv
<1>7. Whole(table') /\ Latest(table') = Done'
  BY <1>2, <1>3, ApplyTable DEF Base, TablesInv
<1>8. TablesInv'
  BY <1>1, <1>2, <1>7 DEF Base, TablesInv
<1>9. FreshInv'
  BY <1>1 DEF FreshInv
<1>. QED
  BY <1>3, <1>5, <1>6, <1>8, <1>9 DEF Base

LEMMA StartServingBase ==
  ASSUME Base, StartServing
  PROVE  /\ Base'
         /\ Whole(table) /\ table' = Evicted(table) /\ Whole(table')
         /\ Latest(table') = Latest(table) /\ Latest(table') \in Nat
<1>1. /\ UNCHANGED <<best, switches, fresh, backfillEnd, disk, goal, to, fetched, queue,
                     failures, crashes, swallowed>>
      /\ table' = Evicted(table) /\ live' = table' /\ serving' = TRUE /\ pc' = "follow"
      /\ task' = "poll" /\ current' = Latest(table') /\ since' = 0 /\ pc = "saved"
  BY DEF StartServing, chainVars, faultVars
<1>2. Following' /\ ~Syncing' /\ ~Following /\ ~Syncing
  BY <1>1 DEF Following, Syncing
<1>3. Whole(table) /\ Whole(table') /\ Latest(table') = Latest(table) /\ Latest(table') \in Nat
  BY <1>1, EvictedKeeps, LatestBounds DEF Base, TablesInv
<1>4. fetched' = <<>> /\ queue' = <<>> /\ Len(queue') = 0 /\ Len(fetched') = 0
  BY <1>1, <1>2 DEF Base, RangesInv
<1>5. Done' = Latest(table')
  BY <1>1, <1>3, <1>4 DEF Done
<1>6. Types'
  BY <1>1, <1>3 DEF Base, Types
<1>7. RangesInv'
  BY <1>1, <1>2, <1>3, <1>4, <1>5 DEF RangesInv
<1>8. TablesInv'
  BY <1>1, <1>2, <1>3, <1>5 DEF Base, TablesInv
<1>9. FreshInv'
  BY <1>1 DEF FreshInv
<1>. QED
  BY <1>1, <1>3, <1>6, <1>7, <1>8, <1>9 DEF Base

LEMMA ClosedOrCrashBase ==
  ASSUME Base, ChannelClosed \/ Crash
  PROVE  Base'
<1>1. /\ UNCHANGED <<best, switches, disk, failures, swallowed>>
      /\ pc' \in {"down", "exited"} /\ table' = {} /\ live' = {} /\ serving' = FALSE
      /\ task' = "idle" /\ fetched' = <<>> /\ queue' = <<>>
      /\ fresh' \in BOOLEAN /\ backfillEnd' \in Nat /\ since' \in Nat
      /\ current' \in Nat /\ goal' \in Nat /\ to' \in Nat /\ crashes' \in Nat
  <2>1. CASE ChannelClosed
    BY <2>1 DEF ChannelClosed, chainVars, taskVars, faultVars, Base, Types, RangesInv
  <2>2. CASE Crash
    <3>1. /\ UNCHANGED <<best, switches, disk, failures, swallowed>>
          /\ pc' = "down" /\ table' = {} /\ live' = {} /\ serving' = FALSE
          /\ task' = "idle" /\ fetched' = <<>> /\ queue' = <<>>
          /\ backfillEnd' = 0 /\ since' = 0
          /\ current' = 0 /\ goal' = 0 /\ to' = 0 /\ crashes' = crashes + 1
      BY <2>2 DEF Crash, chainVars
    <3>2. fresh' \in BOOLEAN
      BY <2>2 DEF Crash
    <3>3. crashes \in Nat
      BY DEF Base, Types
    <3>. QED
      BY <3>1, <3>2, <3>3
  <2>. QED
    BY <2>1, <2>2
<1>2. ~Following' /\ ~Syncing' /\ Len(fetched') = 0 /\ Len(queue') = 0
      /\ fetched' \in Seq(Block) /\ queue' \in Seq(Event)
  BY <1>1 DEF Following, Syncing
<1>3. Types'
  <2>1. serving' \in BOOLEAN
    BY <1>1
  <2>2. swallowed' \in BOOLEAN /\ Len(queue') <= Capacity
    BY <1>1, <1>2, Constants DEF Base, Types
  <2>3. best' \in Block /\ switches' \in Nat /\ failures' \in Nat
    BY <1>1 DEF Base, Types
  <2>. QED
    BY <2>1, <2>2, <2>3, <1>1, <1>2 DEF Types
<1>4. RangesInv'
  <2>1. Done' >= 0
    <3>1. CASE ChannelClosed
      BY <3>1 DEF ChannelClosed, taskVars, Base, RangesInv, Done
    <3>2. CASE Crash
      <4>1. current' = 0 /\ queue' = <<>>
        BY <3>2 DEF Crash
      <4>. QED
        BY <4>1 DEF Done
    <3>. QED
      BY <3>1, <3>2
  <2>. QED
    BY <2>1, <1>1, <1>2 DEF RangesInv
<1>5. TablesInv'
  BY <1>1, <1>2, WholeNone DEF Base, TablesInv
<1>6. FreshInv'
  BY <1>1 DEF FreshInv
<1>. QED
  BY <1>3, <1>4, <1>5, <1>6 DEF Base

(* sync_range, called with a range above or below all of the table. *)
LEMMA SyncRangeBase ==
  ASSUME Base, pc \in {"down", "synced"},
         NEW first \in Nat \ {0}, NEW last \in Nat, NEW where \in {"sync", "backfill"},
         SyncRange(first, last, where),
         UNCHANGED <<best, switches, since, live, serving, disk, queue,
                     failures, crashes, swallowed>>,
         Whole(table'), fresh' \in BOOLEAN, backfillEnd' \in Nat,
         \A b \in table' : HeightOf[b] < first \/ HeightOf[b] > last,
         where = "sync" => \A b \in table' : HeightOf[b] < first,
         where = "backfill" => fresh',
         fresh' => /\ \A b \in table' : HeightOf[b] > backfillEnd'
                   /\ Floor - 1 <= backfillEnd' /\ backfillEnd' <= first - 1
  PROVE  Base'
<1>1. /\ fetched = <<>> /\ queue = <<>> /\ Len(fetched) = 0 /\ Len(queue) = 0
      /\ task = "idle" /\ ~Following /\ ~Syncing
  BY DEF Base, RangesInv, Syncing, Following
<1>2. \A b \in table' : HeightOf[b] \in Nat
  BY HeightType DEF Whole
<1>3. CASE first <= last
  <2>1. /\ pc' = where /\ task' = "poll" /\ current' = first - 1 /\ to' = last
        /\ UNCHANGED <<goal, fetched, tracker>>
    BY <1>3 DEF SyncRange
  <2>2. Syncing' /\ ~Following' /\ Done' = first - 1
    BY <2>1, <1>1 DEF Syncing, Following, Done
  <2>3. current' \in Nat /\ current' <= to' /\ Done' >= 0
    BY <2>1, <2>2, <1>3
  <2>4. Types'
    <3>1. best' \in Block /\ switches' \in Nat /\ failures' \in Nat /\ since' \in Nat
          /\ crashes' \in Nat /\ goal' \in Nat /\ fetched' \in Seq(Block)
          /\ queue' \in Seq(Event) /\ Len(queue') <= Capacity
          /\ serving' \in BOOLEAN /\ swallowed' \in BOOLEAN
      BY <2>1 DEF Base, Types
    <3>. QED
      BY <3>1, <2>1, <2>3 DEF Types
  <2>5. RangesInv'
    BY <2>1, <2>2, <2>3, <1>1 DEF RangesInv
  <2>6. \A b \in table' : HeightOf[b] <= Done' \/ HeightOf[b] > to'
    BY <2>1, <2>2, <1>2
  <2>7. where = "sync" => \A b \in table' : HeightOf[b] <= Done'
    BY <2>2, <1>2
  <2>8. TablesInv'
    <3>1. serving' <=> Following'
      BY <1>1, <2>2 DEF Base, TablesInv
    <3>. QED
      BY <3>1, <2>1, <2>2, <2>6, <2>7, <1>1 DEF Base, TablesInv
  <2>9. FreshInv'
    BY <2>2 DEF FreshInv
  <2>. QED
    BY <2>4, <2>5, <2>8, <2>9 DEF Base
<1>4. CASE ~(first <= last)
  <2>1. pc' = "synced" /\ UNCHANGED <<task, current, goal, to, fetched, tracker>>
    BY <1>4 DEF SyncRange, taskVars
  <2>2. ~Syncing' /\ ~Following' /\ Done' = Done
    BY <2>1 DEF Syncing, Following, Done
  <2>3. Types'
    BY <2>1 DEF Base, Types
  <2>4. RangesInv'
    BY <2>1, <2>2, <1>1 DEF Base, RangesInv
  <2>5. TablesInv'
    <3>1. serving' <=> Following'
      BY <1>1, <2>2 DEF Base, TablesInv
    <3>. QED
      BY <3>1, <2>1, <2>2, <1>1 DEF Base, TablesInv
  <2>6. FreshInv'
    BY <2>2 DEF FreshInv
  <2>. QED
    BY <2>3, <2>4, <2>5, <2>6 DEF Base
<1>. QED
  BY <1>3, <1>4

(* The ranges run asks for. *)
LEMMA FreshStartAt ==
  ASSUME NEW tip \in Nat
  PROVE  /\ FreshStart(tip) \in Nat \ {0} /\ FreshStart(tip) >= Floor
         /\ EndBefore(FreshStart(tip)) \in Nat
         /\ tip >= Floor => FreshStart(tip) <= tip
  BY MaxOfTwo, Constants DEF FreshStart, EndBefore

LEMMA BackfillStartAt ==
  ASSUME NEW end \in Nat, end >= Floor
  PROVE  /\ BackfillStart(end) \in Nat \ {0}
         /\ Floor <= BackfillStart(end) /\ BackfillStart(end) <= end
         /\ EndBefore(BackfillStart(end)) \in Nat
  BY MaxOfTwo, Constants DEF BackfillStart, EndBefore

LEMMA StartCases ==
  ASSUME Base, Start
  PROVE  LET tip == HeightOf[best]
         IN  /\ tip \in Nat \ {0}
             /\ \/ \E snapshot \in disk :
                     /\ table' = snapshot /\ fresh' = FALSE /\ backfillEnd' = 0
                     /\ ForwardStart(snapshot, tip) \in Nat \ {0}
                     /\ SyncRange(ForwardStart(snapshot, tip), tip, "sync")
                \/ /\ table' = {} /\ fresh' = TRUE
                   /\ backfillEnd' = EndBefore(FreshStart(tip))
                   /\ SyncRange(FreshStart(tip), tip, "sync")
<1>1. HeightOf[best] \in Nat \ {0}
  BY HeightType DEF Base, Types
<1>2. CASE \E snapshot \in disk :
             /\ table' = snapshot
             /\ fresh' = FALSE
             /\ backfillEnd' = 0
             /\ SyncRange(ForwardStart(snapshot, HeightOf[best]), HeightOf[best], "sync")
  <2>1. PICK snapshot \in disk :
             /\ table' = snapshot
             /\ fresh' = FALSE
             /\ backfillEnd' = 0
             /\ SyncRange(ForwardStart(snapshot, HeightOf[best]), HeightOf[best], "sync")
    BY <1>2
  <2>2. Latest(snapshot) \in Nat
    BY LatestBounds DEF Base, TablesInv
  <2>3. ForwardStart(snapshot, HeightOf[best]) \in Nat \ {0}
    BY <2>2, <1>1 DEF ForwardStart
  <2>. QED
    BY <2>1, <2>3, <1>1
<1>. QED
  BY <1>1, <1>2 DEF Start

LEMMA StartBase ==
  ASSUME Base, Start
  PROVE  Base'
<1> DEFINE tip == HeightOf[best]
<1>1. /\ pc = "down" /\ tip \in Nat
      /\ UNCHANGED <<best, switches, since, live, serving, disk, queue,
                     failures, crashes, swallowed>>
  BY StartCases DEF Start, chainVars, faultVars
<1>2. CASE \E snapshot \in disk :
             /\ table' = snapshot /\ fresh' = FALSE /\ backfillEnd' = 0
             /\ ForwardStart(snapshot, tip) \in Nat \ {0}
             /\ SyncRange(ForwardStart(snapshot, tip), tip, "sync")
  <2>1. PICK snapshot \in disk :
             /\ table' = snapshot /\ fresh' = FALSE /\ backfillEnd' = 0
             /\ ForwardStart(snapshot, tip) \in Nat \ {0}
             /\ SyncRange(ForwardStart(snapshot, tip), tip, "sync")
    BY <1>2
  <2>2. Whole(snapshot)
    BY DEF Base, TablesInv
  <2>3. \A b \in snapshot : HeightOf[b] < ForwardStart(snapshot, tip)
    <3>1. Latest(snapshot) \in Nat
          /\ \A b \in snapshot : HeightOf[b] \in Nat /\ HeightOf[b] <= Latest(snapshot)
      BY <2>2, LatestBounds, HeightType DEF Whole
    <3>. QED
      BY <3>1 DEF ForwardStart
  <2>4. fresh' \in BOOLEAN /\ ~fresh' /\ backfillEnd' \in Nat
    BY <2>1
  <2>. QED
    BY <2>1, <2>2, <2>3, <2>4, <1>1, SyncRangeBase
<1>3. CASE /\ table' = {} /\ fresh' = TRUE
           /\ backfillEnd' = EndBefore(FreshStart(tip))
           /\ SyncRange(FreshStart(tip), tip, "sync")
  <2>1. FreshStart(tip) \in Nat \ {0} /\ FreshStart(tip) >= Floor /\ backfillEnd' \in Nat
    BY <1>1, <1>3, FreshStartAt
  <2>2. Floor - 1 <= backfillEnd' /\ backfillEnd' <= FreshStart(tip) - 1
    BY <2>1, <1>3, Constants DEF EndBefore
  <2>3. fresh' \in BOOLEAN /\ Whole(table')
    BY <1>3, WholeNone
  <2>. QED
    BY <2>1, <2>2, <2>3, <1>1, <1>3, SyncRangeBase
<1>. QED
  BY <1>2, <1>3, StartCases

LEMMA BackfillBase ==
  ASSUME Base, Backfill
  PROVE  /\ Base' /\ fresh
         /\ backfillEnd' = BackfillStart(backfillEnd) - 1
         /\ pc' = "backfill" /\ task' = "poll" /\ to' = backfillEnd /\ current' = backfillEnd'
         /\ Done' = backfillEnd'
<1> DEFINE first == BackfillStart(backfillEnd)
<1>1. /\ pc = "synced" /\ fresh /\ backfillEnd \in Nat /\ backfillEnd >= Floor
      /\ SyncRange(first, backfillEnd, "backfill")
      /\ backfillEnd' = first - 1
      /\ UNCHANGED <<best, switches, fresh, table, since, live, serving, disk, queue,
                     failures, crashes, swallowed>>
  BY DEF Backfill, BackfillNeeded, EndBefore, chainVars, faultVars, Base, Types
<1>2. first \in Nat \ {0} /\ Floor <= first /\ first <= backfillEnd /\ first - 1 \in Nat
  BY <1>1, BackfillStartAt DEF EndBefore
<1>3. \A b \in table : HeightOf[b] > backfillEnd /\ HeightOf[b] \in Nat
  BY <1>1, HeightType DEF Base, FreshInv, TablesInv, Whole
<1> HIDE DEF first
<1>4. Floor - 1 <= backfillEnd' /\ \A b \in table' : HeightOf[b] > backfillEnd'
  BY <1>1, <1>2, <1>3, Constants
<1>5. Whole(table') /\ fresh' \in BOOLEAN /\ fresh' /\ backfillEnd' \in Nat
  BY <1>1, <1>2 DEF Base, TablesInv, Types
<1>6. \A b \in table' : HeightOf[b] < first \/ HeightOf[b] > backfillEnd
  BY <1>1, <1>3
<1>7. Base'
  BY <1>1, <1>2, <1>4, <1>5, <1>6, SyncRangeBase
<1>8. /\ pc' = "backfill" /\ task' = "poll" /\ to' = backfillEnd /\ current' = first - 1
  BY <1>1, <1>2 DEF SyncRange
<1>9. Done' = current'
  <2>1. queue' = <<>> /\ Len(queue') = 0
    BY <1>1 DEF Base, RangesInv, Syncing, Following
  <2>. QED
    BY <2>1, <1>2, <1>8 DEF Done
<1>. QED
  BY <1>1, <1>7, <1>8, <1>9 DEF first

LEMMA SendEvent ==
  ASSUME Base, SendSync \/ SendFollow
  PROVE  /\ Syncing \/ Following
         /\ fetched # <<>>
         /\ \E e \in Event : e.block = Head(fetched) /\ HandOn(e)
<1>1. fetched # <<>> /\ Head(fetched) \in Block
  BY DEF SendSync, SendFollow, Base, Types
<1>2. NewBlock(Head(fetched)) \in Event /\ NewBlock(Head(fetched)).block = Head(fetched)
  BY <1>1 DEF NewBlock, Event
<1>3. ASSUME NEW hashes \in SUBSET {ZeroHash}
      PROVE  /\ Reorg(hashes, Head(fetched)) \in Event
             /\ Reorg(hashes, Head(fetched)).block = Head(fetched)
  BY <1>1 DEF Reorg, Event
<1>4. \A fork : OrphanedHashes(fork) \in SUBSET {ZeroHash}
  BY DEF OrphanedHashes
<1>5. CASE SendSync
  BY <1>1, <1>2, <1>5 DEF SendSync
<1>6. CASE SendFollow
  <2> DEFINE b == Head(fetched)
             fork == Tracker!FindForkPoint(tracker, Parent[b])
             e == IF Tracker!Extends(tracker, HeightOf[b], Parent[b])
                  THEN NewBlock(b) ELSE Reorg(OrphanedHashes(fork), b)
  <2>1. HandOn(e) /\ Following
    BY <1>6 DEF SendFollow
  <2>2. e \in Event /\ e.block = b
    <3> HIDE DEF fork
    <3>. QED
      BY <1>2, <1>3, <1>4
  <2> HIDE DEF e
  <2>. QED
    BY <2>1, <2>2, <1>1
<1>. QED
  BY <1>5, <1>6

LEMMA SendBase ==
  ASSUME Base, SendSync \/ SendFollow
  PROVE  Base' /\ Done' = Done /\ current' = current + 1
  BY SendEvent, HandOnBase

LEMMA BaseNext ==
  ASSUME Base, [Next]_vars
  PROVE  Base'
<1>1. CASE Environment
  BY <1>1, QuietBase
<1>2. CASE MainStep
  BY <1>2, QuietBase, StartBase, InsertSyncedBase, BackfillBase, StartServingBase,
     ApplyBase, ClosedOrCrashBase DEF MainStep, ApplyNewBlock, ApplyReorg
<1>3. CASE TaskStep
  BY <1>3, QuietBase, FetchBlockBase, FailureBase, SendBase DEF TaskStep
<1>4. CASE CallFails \/ Crash
  BY <1>4, FailureBase, ClosedOrCrashBase
<1>5. CASE Stopped \/ PollNothingNew \/ UNCHANGED vars
  BY <1>5, QuietBase DEF Stopped, PollNothingNew
<1>. QED
  BY <1>1, <1>2, <1>3, <1>4, <1>5 DEF Next

LEMMA BaseInvariant == Spec => []Base
<1>. QED
  BY BaseInit, BaseNext, PTL DEF Spec

(* No step of any task, and no crash, failure or change of branch, lets    *)
(* insert_block see a height the table already holds.                      *)
THEOREM InsertsAreFreshCorrect == Spec => []InsertsAreFresh
<1>1. Base => InsertsAreFresh
  BY QueueHead DEF InsertsAreFresh
<1>. QED
  BY <1>1, BaseInvariant, PTL

-----------------------------------------------------------------------------
(* No gap *)

(* Unless an error of a backfill range was swallowed: the table is an      *)
(* interval but while a backfill range comes in; that fills the gap below  *)
(* the table from its lower end.                                           *)
GapsInv ==
  ~swallowed =>
    /\ \A t \in disk : Interval(Heights(t))
    /\ pc # "backfill" => Interval(Heights(table))
    /\ pc = "sync" /\ table # {} => Done \in Heights(table)
    /\ pc = "sync" /\ table = {} /\ fresh => Done = backfillEnd
    /\ fresh /\ pc \in {"sync", "synced", "saved"} /\ table # {} =>
         backfillEnd + 1 \in Heights(table)
    /\ pc = "backfill" =>
         /\ (backfillEnd + 1)..Done \subseteq Heights(table)
         /\ \A h \in Heights(table) : h > to => (to + 1)..h \subseteq Heights(table)
         /\ task = "idle" => current = to

LEMMA IntervalGrows ==
  ASSUME NEW hs \in SUBSET Nat, Interval(hs), NEW h \in Nat,
         \A k \in hs : k <= h, hs # {} => h \in hs
  PROVE  Interval(hs \cup {h + 1})
<1>1. ASSUME NEW l \in hs \cup {h + 1}, NEW g \in hs \cup {h + 1}, NEW k \in l..g
      PROVE  k \in hs \cup {h + 1}
  <2>1. CASE k = h + 1
    BY <2>1
  <2>2. CASE k # h + 1
    <3>1. l \in hs /\ l \in Nat /\ k <= h /\ k \in Nat /\ h \in hs
      BY <2>2, <1>1
    <3>2. k \in l..h
      BY <3>1, <1>1
    <3>. QED
      BY <3>1, <3>2 DEF Interval
  <2>. QED
    BY <2>1, <2>2
<1>. QED
  BY <1>1 DEF Interval

LEMMA TableHeights ==
  ASSUME NEW t, Whole(t)
  PROVE  Heights(t) \in SUBSET Nat /\ (Heights(t) = {} <=> t = {})
  BY HeightType DEF Heights, Whole

LEMMA GapsInit == Init => GapsInv
  BY WholeNone DEF Init, GapsInv

LEMMA InsertSyncedGaps ==
  ASSUME Base, GapsInv, InsertSynced
  PROVE  GapsInv'
<1> DEFINE b == Head(queue).block
           H == Heights(table)
<1>1. /\ b \in Block /\ HeightOf[b] = Done + 1 /\ HeightOf[b] \notin H
      /\ Done \in Nat /\ Done + 1 <= current
  BY QueueHead DEF InsertSynced
<1>2. /\ UNCHANGED <<pc, fresh, backfillEnd, disk, task, current, to, swallowed>>
      /\ table' = table \cup {b} /\ pc \in {"sync", "backfill"} /\ queue # <<>>
      /\ queue' = Tail(queue)
  BY DEF InsertSynced, taskVars, faultVars, Syncing
<1>3. Whole(table) /\ Heights(table') = H \cup {Done + 1}
  BY <1>1, <1>2, WholeInsert DEF Base, TablesInv
<1>4. Done' = Done + 1
  BY <1>2, QueueTail
<1>5. H \in SUBSET Nat /\ (H = {} <=> table = {}) /\ to \in Nat /\ current \in Nat
      /\ backfillEnd \in Nat /\ current <= to
  BY <1>2, <1>3, TableHeights DEF Base, Types, RangesInv, Syncing
<1> SUFFICES ASSUME ~swallowed
             PROVE  GapsInv'
  BY <1>2 DEF GapsInv
<1>6. CASE pc = "sync"
  <2>1. \A h \in H : h <= Done
    BY <1>6 DEF Base, TablesInv, Heights
  <2>2. Interval(H) /\ (H # {} => Done \in H)
    BY <1>5, <1>6 DEF GapsInv
  <2>3. Interval(Heights(table'))
    <3> HIDE DEF H
    <3>. QED
      BY <2>1, <2>2, <1>1, <1>3, <1>5, IntervalGrows
  <2>4. fresh => backfillEnd + 1 \in Heights(table')
    <3>1. CASE table = {}
      BY <3>1, <1>3, <1>6 DEF GapsInv
    <3>2. CASE table # {}
      BY <3>2, <1>3, <1>6 DEF GapsInv
    <3>. QED
      BY <3>1, <3>2
  <2>5. table' # {}
    BY <1>2
  <2>. QED
    BY <2>3, <2>4, <2>5, <1>2, <1>3, <1>4, <1>6 DEF GapsInv
<1>7. CASE pc = "backfill"
  <2>1. (backfillEnd + 1)..Done' \subseteq Heights(table')
    <3> SUFFICES ASSUME NEW k \in (backfillEnd + 1)..(Done + 1)
                 PROVE  k \in H \cup {Done + 1}
      BY <1>3, <1>4
    <3>1. CASE k = Done + 1
      BY <3>1
    <3>2. CASE k # Done + 1
      <4>1. k \in (backfillEnd + 1)..Done
        BY <3>2, <1>1, <1>5
      <4>. QED
        BY <4>1, <1>7 DEF GapsInv
    <3>. QED
      BY <3>1, <3>2
  <2>2. ASSUME NEW h \in Heights(table'), h > to
        PROVE  (to + 1)..h \subseteq Heights(table')
    <3>1. h \in H
      BY <2>2, <1>1, <1>3, <1>5
    <3>. QED
      BY <3>1, <2>2, <1>3, <1>7 DEF GapsInv
  <2>. QED
    BY <2>1, <2>2, <1>2, <1>7 DEF GapsInv
<1>. QED
  BY <1>2, <1>6, <1>7

LEMMA ApplyGaps ==
  ASSUME Base, GapsInv, NEW type, Apply(type)
  PROVE  GapsInv'
<1> DEFINE b == Head(queue).block
<1>1. /\ b \in Block /\ HeightOf[b] = Latest(table) + 1
      /\ HeightOf[b] \notin Heights(table)
      /\ table' = Evicted(table \cup {b}) /\ Whole(table \cup {b})
  BY ApplyTable
<1> HIDE DEF b
<1>2. /\ UNCHANGED <<fresh, backfillEnd, disk, swallowed>>
      /\ pc = "follow" /\ pc' \in {"follow", "snapshot"}
  BY DEF Apply, faultVars
<1> SUFFICES ASSUME ~swallowed
             PROVE  GapsInv'
  BY <1>2 DEF GapsInv
<1>3. Whole(table) /\ Interval(Heights(table)) /\ Latest(table) \in Nat
      /\ Heights(table) \in SUBSET Nat
      /\ (\A h \in Heights(table) : h <= Latest(table))
      /\ (Heights(table) # {} => Latest(table) \in Heights(table))
  <2>1. Whole(table) /\ Interval(Heights(table))
    BY <1>2 DEF Base, TablesInv, GapsInv
  <2>2. Latest(table) \in Nat /\ (\A c \in table : HeightOf[c] <= Latest(table))
        /\ (table # {} => Latest(table) \in Heights(table))
    BY <2>1, LatestBounds
  <2>. QED
    BY <2>1, <2>2, TableHeights DEF Heights
<1>4. Heights(table \cup {b}) = Heights(table) \cup {Latest(table) + 1}
  BY <1>1, <1>3, WholeInsert
<1>5. Interval(Heights(table \cup {b}))
  BY <1>3, <1>4, IntervalGrows
<1>6. Interval(Heights(table'))
  BY <1>1, <1>5, EvictedKeeps
<1>. QED
  BY <1>2, <1>6 DEF GapsInv

LEMMA RangeDoneGaps ==
  ASSUME Base, GapsInv, RangeDone
  PROVE  GapsInv'
<1> DEFINE H == Heights(table)
<1>1. /\ UNCHANGED <<fresh, table, backfillEnd, disk, swallowed, current, to>>
      /\ pc \in {"sync", "backfill"} /\ pc' = "synced" /\ task = "idle" /\ queue = <<>>
  BY DEF RangeDone, Syncing, taskVars, faultVars
<1> SUFFICES ASSUME ~swallowed
             PROVE  GapsInv'
  BY <1>1 DEF GapsInv
<1>2. CASE pc = "sync"
  BY <1>1, <1>2 DEF GapsInv
<1>3. CASE pc = "backfill"
  <2>1. Len(queue) = 0 /\ current = to /\ Done = to /\ to \in Nat
    BY <1>1, <1>3 DEF GapsInv, Done, Base, Types
  <2>2. H \in SUBSET Nat /\ backfillEnd \in Nat /\ backfillEnd <= to
        /\ \A h \in H : h > backfillEnd
    BY <2>1, <1>3, TableHeights DEF Base, Types, TablesInv, FreshInv, Syncing, Heights
  <2>3. /\ (backfillEnd + 1)..to \subseteq H
        /\ \A h \in H : h > to => (to + 1)..h \subseteq H
    BY <2>1, <1>3 DEF GapsInv
  <2> HIDE DEF H
  <2>4. ASSUME NEW h \in H, NEW k \in (backfillEnd + 1)..h
        PROVE  k \in H
    <3>1. CASE k <= to
      BY <3>1, <2>1, <2>2, <2>3
    <3>2. CASE k > to
      <4>1. h > to /\ k \in (to + 1)..h
        BY <3>2, <2>1, <2>2
      <4>. QED
        BY <4>1, <2>3
    <3>. QED
      BY <3>1, <3>2, <2>1, <2>2
  <2>5. ASSUME NEW l \in H, NEW h \in H, NEW k \in l..h
        PROVE  k \in H
    <3>1. k \in (backfillEnd + 1)..h
      BY <2>2
    <3>. QED
      BY <3>1, <2>4
  <2>6. Interval(H)
    BY <2>5 DEF Interval
  <2>7. ASSUME H # {}
        PROVE  backfillEnd + 1 \in H
    <3>1. PICK h \in H : TRUE
      BY <2>7
    <3>2. backfillEnd + 1 \in (backfillEnd + 1)..h
      BY <3>1, <2>2
    <3>. QED
      BY <3>1, <3>2, <2>4
  <2>8. table # {} => H # {}
    BY TableHeights DEF Base, TablesInv, H
  <2>. QED
    BY <2>6, <2>7, <2>8, <1>1, <1>3 DEF GapsInv, H
<1>. QED
  BY <1>1, <1>2, <1>3

LEMMA BackfillGaps ==
  ASSUME Base, GapsInv, Backfill
  PROVE  GapsInv'
<1> DEFINE H == Heights(table)
<1>1. /\ UNCHANGED <<fresh, table, disk, swallowed>> /\ pc = "synced"
  BY DEF Backfill, faultVars
<1>2. /\ fresh /\ pc' = "backfill" /\ task' = "poll" /\ to' = backfillEnd
      /\ Done' = backfillEnd' /\ backfillEnd' \in Nat
  BY BackfillBase DEF Base, Types
<1> SUFFICES ASSUME ~swallowed
             PROVE  GapsInv'
  BY <1>1 DEF GapsInv
<1>3. (backfillEnd' + 1)..Done' \subseteq H
  <2>1. \A n \in Nat : (n + 1)..n = {}
    OBVIOUS
  <2>2. (backfillEnd' + 1)..backfillEnd' = {}
    BY <2>1, <1>2
  <2>. QED
    BY <2>2, <1>2
<1>4. ASSUME NEW h \in H, h > backfillEnd
      PROVE  (backfillEnd + 1)..h \subseteq H
  <2>1. table # {}
    BY <1>4 DEF Heights
  <2>2. backfillEnd + 1 \in H /\ Interval(H)
    BY <2>1, <1>1, <1>2 DEF GapsInv
  <2>. QED
    BY <2>2, <1>4 DEF Interval
<1>. QED
  BY <1>1, <1>2, <1>3, <1>4 DEF GapsInv

LEMMA StartGaps ==
  ASSUME Base, GapsInv, Start
  PROVE  GapsInv'
<1> DEFINE tip == HeightOf[best]
<1>1. UNCHANGED <<disk, swallowed, queue>> /\ pc = "down" /\ tip \in Nat
  BY StartCases DEF Start, faultVars
<1>2. queue' = <<>> /\ Len(queue') = 0
  BY <1>1 DEF Base, RangesInv, Syncing, Following
<1> SUFFICES ASSUME ~swallowed
             PROVE  GapsInv'
  BY <1>1 DEF GapsInv
<1>3. CASE \E snapshot \in disk :
             /\ table' = snapshot /\ fresh' = FALSE /\ backfillEnd' = 0
             /\ ForwardStart(snapshot, tip) \in Nat \ {0}
             /\ SyncRange(ForwardStart(snapshot, tip), tip, "sync")
  <2>1. PICK snapshot \in disk :
             /\ table' = snapshot /\ ~fresh'
             /\ ForwardStart(snapshot, tip) \in Nat \ {0}
             /\ SyncRange(ForwardStart(snapshot, tip), tip, "sync")
    BY <1>3
  <2>2. Interval(Heights(table')) /\ \A t \in disk' : Interval(Heights(t))
    BY <2>1, <1>1 DEF GapsInv
  <2>3. pc' \in {"sync", "synced"}
    BY <2>1 DEF SyncRange
  <2>4. pc' = "sync" /\ snapshot # {} => Done' \in Heights(table')
    <3> SUFFICES ASSUME pc' = "sync", snapshot # {}
                 PROVE  Done' \in Heights(snapshot)
      BY <2>1
    <3>1. Latest(snapshot) \in Nat /\ Latest(snapshot) \in Heights(snapshot)
      BY LatestBounds DEF Base, TablesInv
    <3>2. current' = ForwardStart(snapshot, tip) - 1
      BY <2>1 DEF SyncRange
    <3>3. current' = Latest(snapshot)
      BY <3>1, <3>2 DEF ForwardStart
    <3>4. Done' = Latest(snapshot)
      BY <3>1, <3>3, <1>2 DEF Done
    <3>. QED
      BY <3>1, <3>4
  <2>. QED
    BY <2>1, <2>2, <2>3, <2>4 DEF GapsInv
<1>4. CASE /\ table' = {} /\ fresh' = TRUE
           /\ backfillEnd' = EndBefore(FreshStart(tip))
           /\ SyncRange(FreshStart(tip), tip, "sync")
  <2>1. FreshStart(tip) \in Nat \ {0} /\ backfillEnd' = FreshStart(tip) - 1
    BY <1>1, <1>4, FreshStartAt DEF EndBefore
  <2>2. pc' \in {"sync", "synced"} /\ (pc' = "sync" => current' = FreshStart(tip) - 1)
    BY <1>4 DEF SyncRange
  <2>3. pc' = "sync" => Done' = backfillEnd'
    BY <2>1, <2>2, <1>2 DEF Done
  <2>4. Interval(Heights(table'))
    BY <1>4, WholeNone
  <2>5. \A t \in disk' : Interval(Heights(t))
    BY <1>1 DEF GapsInv
  <2>. QED
    BY <2>2, <2>3, <2>4, <2>5, <1>4 DEF GapsInv
<1>. QED
  BY <1>3, <1>4, StartCases

LEMMA GapsNext ==
  ASSUME Base, Base', GapsInv, [Next]_vars
  PROVE  GapsInv'
<1>1. CASE UNCHANGED <<pc, fresh, table, backfillEnd, disk, swallowed, Done, current, to>>
           /\ (task' = "idle" /\ pc = "backfill" => task = "idle" \/ current = to)
  BY <1>1 DEF GapsInv
<1>2. CASE Environment \/ PollFollow \/ FetchBlock \/ Stopped \/ PollNothingNew
           \/ UNCHANGED vars
  <2>1. UNCHANGED <<pc, fresh, table, backfillEnd, disk, swallowed, current, to, queue>>
    BY <1>2 DEF Environment, PollFollow, FetchBlock, Stopped, PollNothingNew, vars,
       chainVars, mainVars, taskVars, faultVars
  <2>2. task' = task \/ task' \in {"fetch", "send"}
    BY <1>2 DEF Environment, PollFollow, FetchBlock, Stopped, PollNothingNew, vars,
       taskVars
  <2>. QED
    BY <2>1, <2>2, <1>1 DEF Done
<1>3. CASE PollSync
  <2>1. UNCHANGED <<pc, fresh, table, backfillEnd, disk, swallowed, current, to, queue>>
    BY <1>3 DEF PollSync, mainVars, faultVars
  <2>2. task' = "idle" => current = to
    BY <1>3 DEF PollSync, Base, RangesInv, Types
  <2>. QED
    BY <2>1, <2>2, <1>1 DEF Done
<1>4. CASE SendSync \/ SendFollow
  <2>1. /\ UNCHANGED <<pc, fresh, table, backfillEnd, disk, swallowed, to, Done>>
        /\ task' # "idle"
    BY <1>4, SendEvent, SendBase DEF HandOn, mainVars, faultVars
  <2>. QED
    BY <2>1 DEF GapsInv
<1>5. CASE BlockMissing \/ CallFails
  <2>1. /\ UNCHANGED <<pc, fresh, table, backfillEnd, disk, current, to, queue>>
        /\ ~swallowed' => ~swallowed /\ pc # "backfill"
    BY <1>5, FailureBase DEF EndTask, mainVars
  <2>. QED
    BY <2>1 DEF GapsInv, Done
<1>6. CASE SaveAfterSync
  BY <1>6 DEF SaveAfterSync, taskVars, faultVars, GapsInv, Done
<1>7. CASE PeriodicSave
  BY <1>7 DEF PeriodicSave, taskVars, faultVars, GapsInv, Done
<1>8. CASE StartServing
  <2>1. /\ UNCHANGED <<fresh, backfillEnd, disk, swallowed>> /\ pc = "saved" /\ pc' = "follow"
        /\ table' = Evicted(table) /\ Whole(table)
    BY <1>8, StartServingBase DEF StartServing, faultVars
  <2>2. Interval(Heights(table)) => Interval(Heights(table'))
    BY <2>1, EvictedKeeps
  <2>. QED
    BY <2>1, <2>2 DEF GapsInv
<1>9. CASE ChannelClosed \/ Crash
  <2>1. UNCHANGED <<disk, swallowed>> /\ table' = {} /\ pc' \in {"down", "exited"}
    BY <1>9 DEF ChannelClosed, Crash, faultVars
  <2>. QED
    BY <2>1, WholeNone DEF GapsInv
<1>. QED
  BY <1>2, <1>3, <1>4, <1>5, <1>6, <1>7, <1>8, <1>9, StartGaps, InsertSyncedGaps,
     RangeDoneGaps, BackfillGaps, ApplyGaps
  DEF Next, MainStep, TaskStep, ApplyNewBlock, ApplyReorg

LEMMA GapsInvariant == Spec => []GapsInv
<1>. QED
  BY GapsInit, GapsNext, BaseInvariant, PTL DEF Spec

(* Whatever the chain did and however often the process died, the heights  *)
(* served have no gap, but for the one error that is swallowed: a backfill *)
(* range that fails (server.rs: `sync_handle.await.ok()').                 *)
THEOREM NoGapCorrect == Spec => []ServedHeightsHaveNoGap
<1>1. Base /\ GapsInv => ServedHeightsHaveNoGap
  BY DEF Base, TablesInv, GapsInv, ServedHeightsHaveNoGap, Following
<1>. QED
  BY <1>1, BaseInvariant, GapsInvariant, PTL

-----------------------------------------------------------------------------
(* One branch *)

(* As long as lightwalletd stays on one branch, all that was read from it  *)
(* is on that branch.                                                      *)
BranchInv ==
  switches = 0 =>
    /\ table \subseteq ChainOf[best]
    /\ \A t \in disk : t \subseteq ChainOf[best]
    /\ \A i \in 1..Len(fetched) : fetched[i] \in ChainOf[best]
    /\ \A i \in 1..Len(queue) : queue[i].block \in ChainOf[best]

LEMMA BranchInit == Init => BranchInv
  BY DEF Init, BranchInv

LEMMA EnvironmentBranch ==
  ASSUME Base, BranchInv, Environment
  PROVE  BranchInv'
<1>1. UNCHANGED <<table, disk, fetched, queue>>
  BY DEF Environment, mainVars, taskVars
<1>2. CASE Grow
  BY <1>1, <1>2, GrowExtendsChain DEF BranchInv, Base, Types
<1>3. CASE Switch
  <2>1. switches' # 0
    BY <1>3 DEF Switch, Base, Types
  <2>. QED
    BY <2>1 DEF BranchInv
<1>. QED
  BY <1>2, <1>3 DEF Environment

LEMMA FetchBlockBranch ==
  ASSUME Base, BranchInv, FetchBlock
  PROVE  BranchInv'
<1> DEFINE b == BlockAt(NextHeight)
<1>1. b \in ChainOf[best] /\ b \in Block /\ fetched' = Append(fetched, b)
  BY BlockAtHeight DEF FetchBlock, Base, Types
<1>2. UNCHANGED <<best, switches, table, disk, queue>>
  BY DEF FetchBlock, chainVars, mainVars
<1> HIDE DEF b
<1>3. fetched \in Seq(Block)
  BY DEF Base, Types
<1>4. \A i \in 1..Len(fetched') : fetched'[i] = b \/ (i \in 1..Len(fetched) /\ fetched'[i] = fetched[i])
  BY <1>1, <1>3
<1>. QED
  BY <1>1, <1>2, <1>4 DEF BranchInv

LEMMA SendBranch ==
  ASSUME Base, BranchInv, SendSync \/ SendFollow
  PROVE  BranchInv'
<1>1. PICK e \in Event : e.block = Head(fetched) /\ HandOn(e)
  BY SendEvent
<1>2. /\ UNCHANGED <<best, switches, table, disk>>
      /\ queue' = Append(queue, e) /\ fetched' = Tail(fetched)
  BY <1>1 DEF HandOn, chainVars, mainVars
<1>3. fetched \in Seq(Block) /\ fetched # <<>> /\ queue \in Seq(Event)
  BY SendEvent DEF Base, Types
<1>4. /\ \A i \in 1..Len(fetched') : i + 1 \in 1..Len(fetched) /\ fetched'[i] = fetched[i + 1]
      /\ 1 \in 1..Len(fetched) /\ Head(fetched) = fetched[1]
  BY <1>2, <1>3
<1>5. \A i \in 1..Len(queue') : queue'[i] = e \/ (i \in 1..Len(queue) /\ queue'[i] = queue[i])
  BY <1>2, <1>3
<1>. QED
  BY <1>1, <1>2, <1>4, <1>5 DEF BranchInv

LEMMA InsertBranch ==
  ASSUME Base, BranchInv, queue # <<>>, queue' = Tail(queue),
         UNCHANGED <<best, switches, disk, fetched, current>>,
         table' \subseteq table \cup {Head(queue).block}
  PROVE  BranchInv'
<1>1. /\ Head(queue) = queue[1] /\ 1 \in 1..Len(queue) /\ Len(queue) \in Nat
  BY QueueHead
<1>2. /\ Len(queue') = Len(queue) - 1
      /\ \A i \in 1..Len(queue') : queue'[i] = queue[i + 1]
  BY QueueTail
<1>3. \A i \in 1..Len(queue') : i + 1 \in 1..Len(queue)
  BY <1>1, <1>2
<1>. QED
  BY <1>1, <1>2, <1>3 DEF BranchInv

LEMMA BranchNext ==
  ASSUME Base, Base', BranchInv, [Next]_vars
  PROVE  BranchInv'
<1>1. CASE /\ UNCHANGED <<best, switches, queue>>
           /\ table' \subseteq table \/ table' \in disk
           /\ disk' \subseteq disk \cup {table}
           /\ fetched' \in {fetched, <<>>}
  <2>1. CASE fetched' = fetched
    BY <1>1, <2>1 DEF BranchInv
  <2>2. CASE fetched' = <<>>
    <3>1. \A i \in 1..Len(fetched') : FALSE
      BY <2>2
    <3>. QED
      BY <1>1, <3>1 DEF BranchInv
  <2>. QED
    BY <1>1, <2>1, <2>2
<1>2. CASE \/ PollSync \/ PollFollow \/ RangeDone \/ SaveAfterSync \/ PeriodicSave
           \/ BlockMissing \/ CallFails \/ Stopped \/ PollNothingNew \/ UNCHANGED vars
  <2>1. /\ UNCHANGED <<best, switches, queue, table>>
        /\ disk' \in {disk, {table}} /\ fetched' \in {fetched, <<>>}
    BY <1>2, FailureBase DEF PollSync, PollFollow, RangeDone, SaveAfterSync, PeriodicSave,
       EndTask, Stopped, PollNothingNew, vars, chainVars, mainVars, taskVars
  <2>. QED
    BY <2>1, <1>1
<1>3. CASE Start \/ Backfill \/ StartServing
  <2>1. UNCHANGED <<best, switches, queue, disk, fetched>>
    BY <1>3 DEF Start, Backfill, StartServing, SyncRange, chainVars, taskVars
  <2>2. table' \subseteq table \/ table' \in disk
    BY <1>3, StartServingBase, EvictedKeeps DEF Start, Backfill, StartServing
  <2>. QED
    BY <2>1, <2>2, <1>1
<1>4. CASE ChannelClosed \/ Crash
  <2>1. /\ UNCHANGED <<best, switches, disk>> /\ table' = {} /\ queue' = <<>>
        /\ fetched' \in {fetched, <<>>}
    BY <1>4 DEF ChannelClosed, Crash, chainVars, taskVars
  <2>2. \A i \in 1..Len(queue') : FALSE
    BY <2>1
  <2>3. fetched' = <<>> => \A i \in 1..Len(fetched') : FALSE
    OBVIOUS
  <2>. QED
    BY <2>1, <2>2, <2>3 DEF BranchInv
<1>5. CASE InsertSynced
  BY <1>5, InsertBranch DEF InsertSynced, chainVars, taskVars
<1>6. ASSUME NEW type, Apply(type)
      PROVE  BranchInv'
  <2>1. table' \subseteq table \cup {Head(queue).block}
    BY <1>6, ApplyTable, EvictedKeeps
  <2>. QED
    BY <2>1, <1>6, InsertBranch DEF Apply, chainVars, taskVars
<1>. QED
  BY <1>2, <1>3, <1>4, <1>5, <1>6, EnvironmentBranch, FetchBlockBranch, SendBranch
  DEF Next, MainStep, TaskStep, ApplyNewBlock, ApplyReorg

LEMMA BranchInvariant == Spec => []BranchInv
<1>. QED
  BY BranchInit, BranchNext, BaseInvariant, PTL DEF Spec

(* On one branch, what is served is exactly the branch between the lowest  *)
(* and the highest height served, also after crashes and restarts.         *)
THEOREM ChainCorrect == Spec => []ServedIsTheChain
<1>1. ASSUME Base, GapsInv, BranchInv, serving, ~swallowed, switches = 0
      PROVE  live = {b \in ChainOf[best] :
                      \E l, h \in Heights(live) : l <= HeightOf[b] /\ HeightOf[b] <= h}
  <2>1. live = table /\ pc # "backfill" /\ Whole(live)
    BY <1>1 DEF Base, TablesInv, Following
  <2>2. live \subseteq ChainOf[best] /\ Interval(Heights(live))
    BY <2>1, <1>1 DEF BranchInv, GapsInv
  <2>3. ASSUME NEW b \in live
        PROVE  \E l, h \in Heights(live) : l <= HeightOf[b] /\ HeightOf[b] <= h
    <3>1. HeightOf[b] \in Heights(live) /\ HeightOf[b] \in Nat
      BY <2>1, HeightType DEF Heights, Whole
    <3>. QED
      BY <3>1
  <2>4. ASSUME NEW b \in ChainOf[best], NEW l \in Heights(live), NEW h \in Heights(live),
               l <= HeightOf[b], HeightOf[b] <= h
        PROVE  b \in live
    <3>1. best \in Block /\ b \in Block /\ HeightOf[b] \in Nat
      BY <1>1, ChainBelowTip, HeightType DEF Base, Types
    <3>2. HeightOf[b] \in l..h
      BY <2>1, <2>4, <3>1, TableHeights
    <3>3. HeightOf[b] \in Heights(live)
      BY <3>2, <2>2 DEF Interval
    <3>4. PICK c \in live : HeightOf[c] = HeightOf[b]
      BY <3>3 DEF Heights
    <3>. QED
      BY <3>1, <3>4, <2>2, ChainHeightsDiffer
  <2>. QED
    BY <2>2, <2>3, <2>4
<1>2. Base /\ GapsInv /\ BranchInv => ServedIsTheChain
  BY <1>1 DEF ServedIsTheChain
<1>. QED
  BY <1>2, BaseInvariant, GapsInvariant, BranchInvariant, PTL

-----------------------------------------------------------------------------
(* The tracker *)

TrackedPair == [height : Nat, hash : Block \cup {ZeroHash}]

(* A window of tracked pairs of ascending heights. *)
Window(w) ==
  /\ w \in Seq(TrackedPair)
  /\ w # <<>>
  /\ \A i, j \in 1..Len(w) : i < j => w[i].height < w[j].height
  /\ \A i \in 1..Len(w) : w[i].hash \in Block => w[i].height = HeightOf[w[i].hash]

TrackerInv ==
  /\ tracker \in Seq(TrackedPair)
  /\ Following =>
       /\ Window(tracker)
       /\ Tracker!Tip(tracker).height = current
       /\ Tracker!Tip(tracker).hash
            = IF queue = <<>> THEN LatestHash(table) ELSE queue[Len(queue)].block

LEMMA PairTracked ==
  ASSUME NEW height \in Nat, NEW hash \in Block \cup {ZeroHash}
  PROVE  /\ Tracker!Pair(height, hash) \in TrackedPair
         /\ Tracker!Pair(height, hash).height = height
         /\ Tracker!Pair(height, hash).hash = hash
  BY DEF Tracker!Pair, TrackedPair

LEMMA WindowPair ==
  ASSUME NEW w, Window(w), NEW i \in 1..Len(w)
  PROVE  /\ w[i] \in TrackedPair
         /\ w[i].height \in Nat
         /\ w[i].hash \in Block \cup {ZeroHash}
<1>1. w[i] \in TrackedPair
  BY DEF Window
<1>. QED
  BY <1>1 DEF TrackedPair

LEMMA WindowEnds ==
  ASSUME NEW w, Window(w)
  PROVE  /\ w \in Seq(TrackedPair) /\ Len(w) \in Nat
         /\ 1 \in 1..Len(w) /\ Len(w) \in 1..Len(w)
<1>1. w \in Seq(TrackedPair) /\ w # <<>>
  BY DEF Window
<1>. QED
  BY <1>1

(* The parent of the next height can only be tracked as the tip. *)
LEMMA ParentIsTip ==
  ASSUME NEW w, Window(w), NEW b \in Block, HeightOf[b] = Tracker!Tip(w).height + 1,
         ~Tracker!Links(w, HeightOf[b], Parent[b]), NEW i \in 1..Len(w)
  PROVE  w[i].hash # Parent[b]
<1> SUFFICES ASSUME w[i].hash = Parent[b]
             PROVE  FALSE
  OBVIOUS
<1>1. Len(w) \in Nat /\ w[i] \in TrackedPair /\ w[Len(w)] \in TrackedPair
      /\ Len(w) \in 1..Len(w)
  BY DEF Window
<1>2. Parent[b] \in Block
  <2>1. w[i].hash \in Block \cup {ZeroHash}
    BY <1>1 DEF TrackedPair
  <2>2. Parent[b] \in Block \cup {Genesis}
    BY ChainAssumption
  <2>. QED
    BY <2>1, <2>2, Constants
<1>3. w[i].height = HeightOf[Parent[b]] /\ HeightOf[b] = HeightOf[Parent[b]] + 1
      /\ HeightOf[Parent[b]] \in Nat
  BY <1>2, ParentHeight, HeightType DEF Window
<1>4. w[Len(w)].height = w[i].height
  <2>1. w[Len(w)].height \in Nat
    BY <1>1 DEF TrackedPair
  <2>. QED
    BY <2>1, <1>3 DEF Tracker!Tip
<1>5. i = Len(w)
  <2>1. ~(i < Len(w))
    BY <1>1, <1>3, <1>4 DEF Window
  <2>. QED
    BY <2>1, <1>1
<1>. QED
  BY <1>5 DEF Tracker!Links, Tracker!Tip

(* Appending a higher pair to the front part of a window. *)
LEMMA AppendWindow ==
  ASSUME NEW w, Window(w), NEW b \in Block, NEW n \in 0..Len(w),
         n # 0 => w[n].height < HeightOf[b]
  PROVE  LET v == Append(SubSeq(w, 1, n), Tracker!Pair(HeightOf[b], b))
         IN  /\ Window(v) /\ Len(v) = n + 1
             /\ Tracker!Tip(v) = Tracker!Pair(HeightOf[b], b)
<1> DEFINE p == Tracker!Pair(HeightOf[b], b)
           s == SubSeq(w, 1, n)
           v == Append(s, p)
<1>1. p \in TrackedPair /\ p.height = HeightOf[b] /\ p.hash = b /\ HeightOf[b] \in Nat
  BY HeightType, PairTracked
<1>2. w \in Seq(TrackedPair) /\ Len(w) \in Nat /\ n \in Nat
  BY DEF Window
<1>3. s \in Seq(TrackedPair) /\ Len(s) = n /\ \A i \in 1..n : s[i] = w[i] /\ i \in 1..Len(w)
  BY <1>2
<1> HIDE DEF s, p
<1>4. v \in Seq(TrackedPair) /\ Len(v) = n + 1 /\ v[n + 1] = p
      /\ \A i \in 1..n : v[i] = w[i]
  BY <1>1, <1>2, <1>3
<1> HIDE DEF v
<1>5. ASSUME NEW i \in 1..Len(v), NEW j \in 1..Len(v), i < j
      PROVE  v[i].height < v[j].height
  <2>1. i \in 1..n /\ i \in 1..Len(w) /\ v[i] = w[i] /\ w[i].height \in Nat
    <3>1. i \in 1..n /\ i \in 1..Len(w) /\ v[i] = w[i]
      BY <1>2, <1>3, <1>4, <1>5
    <3>. QED
      BY <3>1, WindowPair
  <2>2. CASE j \in 1..n
    <3>1. j \in 1..Len(w) /\ v[j] = w[j]
      BY <2>2, <1>3, <1>4
    <3>. QED
      BY <3>1, <2>1, <1>5 DEF Window
  <2>3. CASE j = n + 1
    <3>1. n \in 1..Len(w) /\ w[n] \in TrackedPair /\ v[j].height = HeightOf[b]
      BY <2>1, <2>3, <1>1, <1>2, <1>4
    <3>2. w[n].height \in Nat /\ w[n].height < HeightOf[b]
      BY <3>1, <2>1 DEF TrackedPair
    <3>3. CASE i = n
      BY <3>1, <3>2, <3>3, <2>1
    <3>4. CASE i < n
      <4>1. w[i].height < w[n].height
        BY <3>1, <3>4, <2>1 DEF Window
      <4>. QED
        BY <4>1, <3>1, <3>2, <2>1, <1>1
    <3>. QED
      BY <3>3, <3>4, <2>1, <1>2
  <2>. QED
    BY <2>2, <2>3, <1>2, <1>4
<1>6. ASSUME NEW i \in 1..Len(v), v[i].hash \in Block
      PROVE  v[i].height = HeightOf[v[i].hash]
  <2>1. CASE i = n + 1
    BY <2>1, <1>1, <1>4
  <2>2. CASE i \in 1..n
    BY <2>2, <1>3, <1>4, <1>6 DEF Window
  <2>. QED
    BY <2>1, <2>2, <1>2, <1>4
<1>7. v # <<>>
  BY <1>2, <1>4
<1>8. Window(v) /\ Tracker!Tip(v) = p
  BY <1>4, <1>5, <1>6, <1>7 DEF Window, Tracker!Tip
<1>. QED
  BY <1>4, <1>8 DEF s, v, p

LEMMA PopFrontWindow ==
  ASSUME NEW w, Window(w)
  PROVE  /\ Window(Tracker!PopFront(w))
         /\ Tracker!Tip(Tracker!PopFront(w)) = Tracker!Tip(w)
<1>1. w \in Seq(TrackedPair) /\ Len(w) \in Nat
  BY DEF Window
<1>2. CASE Len(w) > TrackerDepth
  <2> DEFINE v == Tail(w)
  <2>1. TrackerDepth \in Nat \ {0}
    BY Constants
  <2>2. v \in Seq(TrackedPair) /\ Len(v) = Len(w) - 1 /\ Len(v) >= 1
        /\ \A i \in 1..Len(v) : v[i] = w[i + 1] /\ i + 1 \in 1..Len(w)
    BY <2>1, <1>1, <1>2
  <2>3. Tracker!PopFront(w) = v
    BY <1>2 DEF Tracker!PopFront
  <2> HIDE DEF v
  <2>4. v # <<>> /\ v[Len(v)] = w[Len(w)]
    BY <2>2, <1>1
  <2>5. ASSUME NEW i \in 1..Len(v), NEW j \in 1..Len(v), i < j
        PROVE  v[i].height < v[j].height
    BY <2>2, <2>5 DEF Window
  <2>6. \A i \in 1..Len(v) : v[i].hash \in Block => v[i].height = HeightOf[v[i].hash]
    BY <2>2 DEF Window
  <2>. QED
    BY <2>2, <2>3, <2>4, <2>5, <2>6 DEF Window, Tracker!Tip
<1>3. CASE ~(Len(w) > TrackerDepth)
  BY <1>3 DEF Tracker!PopFront
<1>. QED
  BY <1>2, <1>3

(* A reorg of the next height empties the window: the fork is below it.    *)
LEMMA TruncatedWindow ==
  ASSUME NEW w, Window(w), NEW b \in Block, HeightOf[b] = Tracker!Tip(w).height + 1,
         ~Tracker!Links(w, HeightOf[b], Parent[b])
  PROVE  \E n \in 0..Len(w) :
           /\ Tracker!TruncateTo(w, Tracker!FindForkPoint(w, Parent[b])) = SubSeq(w, 1, n)
           /\ n # 0 => w[n].height < HeightOf[b]
<1> DEFINE fork == Tracker!FindForkPoint(w, Parent[b])
           Cut(m) == /\ m # 0 => w[m].height <= fork
                     /\ \A i \in (m + 1)..Len(w) : w[i].height > fork
<1>1. w \in Seq(TrackedPair) /\ Len(w) \in Nat /\ 1 \in 1..Len(w) /\ Len(w) \in 1..Len(w)
      /\ \A i \in 1..Len(w) : w[i].height \in Nat
  BY WindowEnds, WindowPair
<1>2. {i \in DOMAIN w : w[i].hash = Parent[b]} = {}
  BY <1>1, ParentIsTip
<1>3. fork = Tracker!Below(w[1].height)
  <2>1. w # <<>>
    BY DEF Window
  <2>. QED
    BY <2>1, <1>2 DEF Tracker!FindForkPoint
<1>4. fork \in Nat /\ fork <= w[1].height
  BY <1>1, <1>3 DEF Tracker!Below
<1> HIDE DEF fork
<1> DEFINE P == {i \in 1..Len(w) : w[i].height <= fork}
           S == {m \in 0..Len(w) : m = 0 \/ m \in P}
<1>5. \E k \in S : \A m \in S : m <= k
  <2>1. S \in SUBSET Nat /\ S # {} /\ \A m \in S : m <= Len(w)
    BY <1>1
  <2> HIDE DEF S
  <2>. QED
    BY <2>1, <1>1, GreatestNat
<1>6. PICK k \in S : \A m \in S : m <= k
  BY <1>5
<1>7. ASSUME NEW i \in (k + 1)..Len(w)
      PROVE  w[i].height > fork
  <2>1. i \in 1..Len(w) /\ k < i /\ i \in Nat /\ k \in Nat
    BY <1>1
  <2>2. i \notin P
    BY <2>1, <1>6
  <2>. QED
    BY <2>1, <2>2, <1>1, <1>4
<1>8. \E m \in 0..Len(w) : Cut(m)
  BY <1>6, <1>7
<1> DEFINE n == CHOOSE m \in 0..Len(w) : Cut(m)
<1>9. n \in 0..Len(w) /\ Cut(n)
  <2> HIDE DEF Cut
  <2>. QED
    BY <1>8
<1>10. Tracker!TruncateTo(w, fork) = SubSeq(w, 1, n)
  BY DEF Tracker!TruncateTo
<1> HIDE DEF n
<1>11. n # 0 => w[n].height < HeightOf[b]
  <2> SUFFICES ASSUME n # 0
               PROVE  w[n].height < HeightOf[b]
    OBVIOUS
  <2>1. n \in 1..Len(w)
    BY <1>1, <1>9
  <2>2. w[n].height <= w[Len(w)].height
    <3>1. CASE n = Len(w)
      BY <3>1, <1>1
    <3>2. CASE n < Len(w)
      <4>1. w[n].height < w[Len(w)].height
        BY <2>1, <3>2, <1>1 DEF Window
      <4>. QED
        BY <4>1, <2>1, <1>1
    <3>. QED
      BY <3>1, <3>2, <2>1, <1>1
  <2>3. HeightOf[b] = w[Len(w)].height + 1
    BY DEF Tracker!Tip
  <2>. QED
    BY <2>1, <2>2, <2>3, <1>1
<1>. QED
  BY <1>9, <1>10, <1>11 DEF fork

LEMMA PushedWindow ==
  ASSUME NEW w, Window(w), NEW b \in Block, HeightOf[b] = Tracker!Tip(w).height + 1
  PROVE  LET v == Tracker!Pushed(w, HeightOf[b], b, Parent[b])
         IN  Window(v) /\ Tracker!Tip(v) = Tracker!Pair(HeightOf[b], b)
<1> DEFINE p == Tracker!Pair(HeightOf[b], b)
<1>1. w # <<>> /\ w \in Seq(TrackedPair) /\ Len(w) \in Nat
  BY DEF Window
<1>2. CASE Tracker!Links(w, HeightOf[b], Parent[b])
  <2>1. Tracker!Pushed(w, HeightOf[b], b, Parent[b]) = Tracker!PopFront(Append(w, p))
    BY <1>1, <1>2 DEF Tracker!Pushed
  <2>2. Len(w) \in 0..Len(w) /\ SubSeq(w, 1, Len(w)) = w
    BY <1>1
  <2>3. w[Len(w)].height < HeightOf[b]
    <3>1. w[Len(w)].height \in Nat
      BY WindowEnds, WindowPair
    <3>. QED
      BY <3>1 DEF Tracker!Tip
  <2>4. Window(Append(w, p)) /\ Tracker!Tip(Append(w, p)) = p
    <3>1. Len(w) # 0 => w[Len(w)].height < HeightOf[b]
      BY <2>3
    <3>2. LET v == Append(SubSeq(w, 1, Len(w)), Tracker!Pair(HeightOf[b], b))
          IN  Window(v) /\ Tracker!Tip(v) = Tracker!Pair(HeightOf[b], b)
      BY <2>2, <3>1, AppendWindow
    <3>. QED
      BY <2>2, <3>2
  <2> HIDE DEF p
  <2>5. /\ Window(Tracker!PopFront(Append(w, p)))
        /\ Tracker!Tip(Tracker!PopFront(Append(w, p))) = p
    BY <2>4, PopFrontWindow
  <2>. QED
    BY <2>1, <2>5 DEF p
<1>3. CASE ~Tracker!Links(w, HeightOf[b], Parent[b])
  <2>1. Tracker!Pushed(w, HeightOf[b], b, Parent[b])
          = Append(Tracker!TruncateTo(w, Tracker!FindForkPoint(w, Parent[b])), p)
    BY <1>1, <1>3 DEF Tracker!Pushed
  <2>2. PICK n \in 0..Len(w) :
          /\ Tracker!TruncateTo(w, Tracker!FindForkPoint(w, Parent[b])) = SubSeq(w, 1, n)
          /\ n # 0 => w[n].height < HeightOf[b]
    BY <1>3, TruncatedWindow
  <2>. QED
    BY <2>1, <2>2, AppendWindow
<1>. QED
  BY <1>2, <1>3

LEMMA TrackerInit == Init => TrackerInv
<1> SUFFICES ASSUME Init
             PROVE  TrackerInv
  OBVIOUS
<1>1. tracker = <<>> /\ ~Following
  BY DEF Init, Following
<1>2. tracker \in Seq(TrackedPair)
  BY <1>1
<1>. QED
  BY <1>1, <1>2 DEF TrackerInv

LEMMA SendFollowTracker ==
  ASSUME Base, TrackerInv, SendFollow
  PROVE  TrackerInv'
<1> DEFINE b == Head(fetched)
<1>1. PICK e \in Event : e.block = b /\ HandOn(e)
  BY SendEvent
<1>2. /\ Following /\ Following' /\ queue' = Append(queue, e) /\ current' = HeightOf[b]
      /\ tracker' = Tracker!Pushed(tracker, HeightOf[b], b, Parent[b])
  BY <1>1 DEF SendFollow, HandOn, mainVars, Following
<1>3. b \in Block /\ current' = current + 1
  BY SendBase, SendEvent DEF Base, Types
<1>4. Window(tracker) /\ HeightOf[b] = Tracker!Tip(tracker).height + 1
  BY <1>2, <1>3 DEF TrackerInv
<1> HIDE DEF b
<1>5. Window(tracker') /\ Tracker!Tip(tracker') = Tracker!Pair(HeightOf[b], b)
  BY <1>2, <1>3, <1>4, PushedWindow
<1>6. Tracker!Tip(tracker').height = current' /\ Tracker!Tip(tracker').hash = b
  BY <1>2, <1>5 DEF Tracker!Pair
<1>7. queue' # <<>> /\ queue'[Len(queue')] = e
  BY <1>2 DEF Base, Types
<1>8. tracker' \in Seq(TrackedPair)
  BY <1>5 DEF Window
<1>. QED
  BY <1>1, <1>5, <1>6, <1>7, <1>8 DEF TrackerInv, b

LEMMA ApplyTracker ==
  ASSUME Base, TrackerInv, NEW type, Apply(type)
  PROVE  TrackerInv'
<1> DEFINE b == Head(queue).block
<1>1. /\ Following /\ UNCHANGED <<current, tracker>> /\ queue # <<>> /\ queue' = Tail(queue)
  BY DEF Apply, taskVars, Following
<1>2. /\ Len(queue') = Len(queue) - 1 /\ queue' \in Seq(Event)
      /\ \A i \in 1..Len(queue') : queue'[i] = queue[i + 1]
      /\ Len(queue) \in Nat \ {0} /\ Head(queue) = queue[1]
  BY <1>1, QueueTail, QueueHead
<1>3. LatestHash(table') = b
  BY ApplyTable
<1>4. Tracker!Tip(tracker).hash = queue[Len(queue)].block
  BY <1>1 DEF TrackerInv
<1>5. queue[Len(queue)].block
        = IF queue' = <<>> THEN LatestHash(table') ELSE queue'[Len(queue')].block
  <2>1. CASE Len(queue) = 1
    <3>1. queue' = <<>>
      BY <2>1, <1>2
    <3>. QED
      BY <3>1, <2>1, <1>2, <1>3
  <2>2. CASE Len(queue) # 1
    <3>1. Len(queue') \in 1..Len(queue') /\ Len(queue') + 1 = Len(queue)
      BY <2>2, <1>2
    <3>2. queue' # <<>>
      BY <3>1
    <3>3. queue'[Len(queue')] = queue[Len(queue)]
      BY <3>1, <1>2
    <3>. QED
      BY <3>2, <3>3
  <2>. QED
    BY <2>1, <2>2
<1>. QED
  BY <1>1, <1>4, <1>5 DEF TrackerInv

LEMMA StartServingTracker ==
  ASSUME Base, TrackerInv, StartServing
  PROVE  TrackerInv'
<1> DEFINE p == Tracker!Pair(Latest(table'), LatestHash(table'))
<1>1. Whole(table') /\ Latest(table') \in Nat
  BY StartServingBase
<1>2. /\ LatestHash(table') \in Block \cup {ZeroHash}
      /\ LatestHash(table') \in Block => HeightOf[LatestHash(table')] = Latest(table')
  BY <1>1, LatestBounds
<1>3. p \in TrackedPair /\ p.height = Latest(table') /\ p.hash = LatestHash(table')
  BY <1>1, <1>2, PairTracked
<1>4. tracker' = <<p>> /\ current' = Latest(table')
  BY DEF StartServing, Tracker!WithTip
<1>5. queue' = <<>>
  BY DEF StartServing, Base, RangesInv, Syncing, Following
<1> HIDE DEF p
<1>6. tracker' \in Seq(TrackedPair) /\ Len(tracker') = 1 /\ tracker'[1] = p /\ tracker' # <<>>
  BY <1>3, <1>4
<1>7. Window(tracker')
  BY <1>2, <1>3, <1>6 DEF Window
<1>8. Tracker!Tip(tracker') = p
  BY <1>6 DEF Tracker!Tip
<1>. QED
  BY <1>3, <1>4, <1>5, <1>6, <1>7, <1>8 DEF TrackerInv

LEMMA TrackerNext ==
  ASSUME Base, TrackerInv, [Next]_vars
  PROVE  TrackerInv'
<1>1. CASE \/ Environment \/ PollFollow \/ FetchBlock \/ BlockMissing \/ CallFails
           \/ PeriodicSave \/ Stopped \/ PollNothingNew \/ UNCHANGED vars
  <2>1. UNCHANGED <<tracker, current, queue, table>>
    BY <1>1, FailureBase DEF Environment, PollFollow, FetchBlock, EndTask, PeriodicSave,
       Stopped, PollNothingNew, vars, chainVars, mainVars, taskVars
  <2>2. Following' => Following
    BY <1>1, FailureBase DEF Environment, PollFollow, FetchBlock, EndTask, PeriodicSave,
       Stopped, PollNothingNew, vars, chainVars, mainVars, taskVars, Following
  <2>. QED
    BY <2>1, <2>2 DEF TrackerInv
<1>2. CASE \/ PollSync \/ RangeDone \/ SaveAfterSync \/ Start \/ InsertSynced \/ Backfill
           \/ SendSync
  <2>1. UNCHANGED tracker /\ ~Following'
    BY <1>2 DEF PollSync, RangeDone, SaveAfterSync, Start, InsertSynced, Backfill, SendSync,
       HandOn, SyncRange, mainVars, taskVars, Following, Syncing
  <2>. QED
    BY <2>1 DEF TrackerInv
<1>3. CASE ChannelClosed \/ Crash
  <2>1. (UNCHANGED tracker \/ tracker' = <<>>) /\ ~Following'
    BY <1>3 DEF ChannelClosed, Crash, taskVars, Following
  <2>2. <<>> \in Seq(TrackedPair)
    OBVIOUS
  <2>. QED
    BY <2>1, <2>2 DEF TrackerInv
<1>. QED
  BY <1>1, <1>2, <1>3, SendFollowTracker, ApplyTracker, StartServingTracker
  DEF Next, MainStep, TaskStep, ApplyNewBlock, ApplyReorg

LEMMA TrackerInvariant == Spec => []TrackerInv
<1>. QED
  BY TrackerInit, TrackerNext, BaseInvariant, PTL DEF Spec

(* Every variable of the server holds a value of its type, and the channel *)
(* never holds more than its capacity.                                     *)
THEOREM TypeCorrect == Spec => []TypeOK
<1>1. Base /\ TrackerInv => TypeOK
  <2> SUFFICES ASSUME Base, TrackerInv
               PROVE  TypeOK
    OBVIOUS
  <2>1. \A n \in {backfillEnd, since, current, goal, to, failures, crashes} : n \in Nat
    BY DEF Base, Types
  <2>2. table \in SUBSET Block /\ live \in SUBSET Block /\ disk \in SUBSET SUBSET Block
    <3>1. table \in SUBSET Block /\ disk \in SUBSET SUBSET Block
      BY DEF Base, TablesInv, Whole
    <3>. QED
      BY <3>1 DEF Base, TablesInv
  <2>3. tracker \in Seq([height : Nat, hash : Block \cup {ZeroHash}])
    BY DEF TrackerInv, TrackedPair
  <2>. QED
    BY <2>1, <2>2, <2>3 DEF TypeOK, Base, Types
<1>. QED
  BY <1>1, BaseInvariant, TrackerInvariant, PTL

(* The tracker's tip is always the block that entered the channel last,    *)
(* hence the newest of the table when the channel is empty.                *)
THEOREM TrackerCorrect == Spec => []TrackerFollowsTable
<1>1. TrackerInv => TrackerFollowsTable
  BY DEF TrackerInv, TrackerFollowsTable
<1>. QED
  BY <1>1, TrackerInvariant, PTL

(* The fork search of push_block never finds the parent in this server:    *)
(* follow asks for the next height only, so a reorg empties the window.    *)
THEOREM NoForkCorrect == Spec => []ForkIsNeverFound
<1>1. ASSUME Base, TrackerInv, Following, task = "send",
             ~Tracker!Links(tracker, HeightOf[Head(fetched)], Parent[Head(fetched)]),
             NEW i \in DOMAIN tracker
      PROVE  tracker[i].hash # Parent[Head(fetched)]
  <2>1. fetched \in Seq(Block) /\ fetched # <<>> /\ current \in Nat
    BY <1>1 DEF Base, Types, RangesInv
  <2>2. Head(fetched) \in Block /\ Head(fetched) = fetched[1] /\ 1 \in 1..Len(fetched)
    BY <2>1
  <2>3. HeightOf[Head(fetched)] = Tracker!Tip(tracker).height + 1
    BY <2>2, <1>1 DEF Base, RangesInv, TrackerInv
  <2>4. i \in 1..Len(tracker) /\ Window(tracker)
    BY <1>1 DEF TrackerInv
  <2>. QED
    BY <2>2, <2>3, <2>4, <1>1, ParentIsTip
<1>2. Base /\ TrackerInv => ForkIsNeverFound
  BY <1>1 DEF ForkIsNeverFound
<1>. QED
  BY <1>2, BaseInvariant, TrackerInvariant, PTL

-----------------------------------------------------------------------------
(* The age of the snapshot *)

LagInv ==
  /\ pc = "saved" => disk = {table}
  /\ Following => \E t \in disk : /\ disk = {t}
                                  /\ Latest(table) <= Latest(t) + since
                                  /\ since <= SnapshotInterval
                                  /\ pc = "follow" => since < SnapshotInterval

LEMMA LagInit == Init => LagInv
  BY DEF Init, LagInv, Following

LEMMA LagNext ==
  ASSUME Base, LagInv, [Next]_vars
  PROVE  LagInv'
<1>0. Latest(table) \in Nat /\ SnapshotInterval \in Nat \ {0} /\ since \in Nat
      /\ \A t \in disk : Latest(t) \in Nat
  BY LatestBounds, Constants DEF Base, TablesInv, Types
<1>1. CASE \/ Environment \/ TaskStep \/ CallFails \/ Stopped \/ PollNothingNew
           \/ UNCHANGED vars
  <2>1. UNCHANGED <<pc, table, disk, since>>
    <3>1. CASE SendSync \/ SendFollow
      BY <3>1, SendEvent DEF HandOn, mainVars
    <3>2. CASE BlockMissing \/ CallFails
      BY <3>2, FailureBase DEF EndTask, mainVars
    <3>. QED
      BY <3>1, <3>2, <1>1 DEF Environment, TaskStep, PollSync, PollFollow, FetchBlock,
         Stopped, PollNothingNew, vars, mainVars
  <2>. QED
    BY <2>1 DEF LagInv, Following
<1>2. CASE Start \/ InsertSynced \/ RangeDone \/ Backfill
  <2>1. pc' \in {"sync", "backfill", "synced"}
    BY <1>2 DEF Start, InsertSynced, RangeDone, Backfill, SyncRange, Syncing
  <2>. QED
    BY <2>1 DEF LagInv, Following
<1>3. CASE ChannelClosed \/ Crash
  BY <1>3 DEF ChannelClosed, Crash, LagInv, Following
<1>4. CASE SaveAfterSync
  BY <1>4 DEF SaveAfterSync, LagInv, Following
<1>5. CASE StartServing
  <2>1. pc = "saved" /\ pc' = "follow" /\ UNCHANGED disk /\ since' = 0
    BY <1>5 DEF StartServing
  <2>2. Latest(table') = Latest(table) /\ disk' = {table}
    BY <1>5, <2>1, StartServingBase DEF LagInv
  <2>3. Latest(table') <= Latest(table) + since'
    BY <2>1, <2>2, <1>0
  <2>. QED
    BY <2>1, <2>2, <2>3, <1>0 DEF LagInv, Following
<1>6. ASSUME NEW type, Apply(type)
      PROVE  LagInv'
  <2>1. /\ pc = "follow" /\ UNCHANGED disk /\ since' = since + 1
        /\ pc' = (IF since' >= SnapshotInterval THEN "snapshot" ELSE "follow")
    BY <1>6 DEF Apply, CountedBlocks
  <2>2. Latest(table') = Latest(table) + 1
    BY <1>6, ApplyTable
  <2>3. PICK t \in disk : /\ disk = {t}
                          /\ Latest(table) <= Latest(t) + since
                          /\ since < SnapshotInterval
    BY <2>1 DEF LagInv, Following
  <2>4. Latest(table') <= Latest(t) + since' /\ since' <= SnapshotInterval
        /\ (pc' = "follow" => since' < SnapshotInterval)
    BY <2>1, <2>2, <2>3, <1>0
  <2>. QED
    BY <2>1, <2>3, <2>4 DEF LagInv
<1>7. CASE PeriodicSave
  <2>1. UNCHANGED table /\ disk' = {table} /\ since' = 0 /\ pc' = "follow"
    BY <1>7 DEF PeriodicSave
  <2>2. Latest(table') <= Latest(table) + since' /\ since' < SnapshotInterval
        /\ since' <= SnapshotInterval
    BY <2>1, <1>0
  <2>. QED
    BY <2>1, <2>2 DEF LagInv
<1>. QED
  BY <1>1, <1>2, <1>3, <1>4, <1>5, <1>6, <1>7 DEF Next, MainStep, ApplyNewBlock, ApplyReorg

LEMMA LagInvariant == Spec => []LagInv
<1>. QED
  BY LagInit, LagNext, BaseInvariant, PTL DEF Spec

(* Once it serves, the snapshot on disk is at most snapshot_interval       *)
(* blocks behind the table, so a crash costs no more than that.            *)
THEOREM LagCorrect == Spec => []SnapshotLagBounded
<1>1. Base /\ LagInv => SnapshotLagBounded
  <2> SUFFICES ASSUME Base, LagInv, serving
               PROVE  /\ disk # {}
                      /\ \A t \in disk : Latest(table) <= Latest(t) + SnapshotInterval
    BY DEF SnapshotLagBounded
  <2>1. PICK t \in disk : /\ disk = {t}
                          /\ Latest(table) <= Latest(t) + since
                          /\ since <= SnapshotInterval
    BY DEF LagInv, Base, TablesInv
  <2>2. Latest(table) \in Nat /\ Latest(t) \in Nat /\ since \in Nat
        /\ SnapshotInterval \in Nat
    BY LatestBounds, Constants DEF Base, TablesInv, Types
  <2>3. Latest(table) <= Latest(t) + SnapshotInterval
    BY <2>1, <2>2
  <2>. QED
    BY <2>1, <2>3
<1>. QED
  BY <1>1, BaseInvariant, LagInvariant, PTL

-----------------------------------------------------------------------------
(* An undisturbed backfill *)

Undisturbed == failures = 0 /\ switches = 0

(* While no call has failed and no branch was left, every range of a fresh *)
(* server lies on the branch and is read to its end.                       *)
BackfillInv ==
  /\ switches = 0 => HeightOf[best] >= Floor
  /\ switches = 0 /\ fresh /\ pc \in {"sync", "backfill", "synced", "saved"} =>
       backfillEnd < HeightOf[best]
  /\ Undisturbed => ~swallowed
  /\ Undisturbed /\ fresh /\ pc \in {"sync", "backfill"} =>
       /\ to <= HeightOf[best]
       /\ pc = "sync" => backfillEnd < to
       /\ task = "idle" => current = to
  /\ Undisturbed /\ fresh /\ pc \in {"backfill", "synced", "saved"} => table # {}
  /\ BackfillIsComplete

(* Every branch holds every height from the floor to its tip. *)
LEMMA BranchReachesFloor ==
  ASSUME NEW b \in Block
  PROVE  \E c \in ChainOf[b] : HeightOf[c] <= Floor
  BY BranchReaches, FloorAssumption, Constants

LEMMA AvailableAboveFloor ==
  ASSUME best \in Block, NEW h \in Nat, Floor <= h, h <= HeightOf[best]
  PROVE  Available(h)
<1>1. PICK c \in ChainOf[best] : HeightOf[c] <= Floor
  BY BranchReachesFloor
<1>2. HeightOf[c] \in Nat /\ Floor \in Nat
  BY ChainBelowTip, HeightType, Constants
<1>3. HeightOf[c] <= h
  BY <1>1, <1>2
<1>. QED
  BY <1>3, AvailableBetween

LEMMA NothingMissing ==
  ASSUME Base, BackfillInv, Undisturbed, fresh, Syncing, task = "fetch"
  PROVE  Available(NextHeight)
<1>1. /\ best \in Block /\ HeightOf[best] \in Nat
      /\ current \in Nat /\ Len(fetched) \in Nat /\ goal \in Nat /\ to \in Nat
      /\ backfillEnd \in Nat /\ Len(queue) \in Nat /\ Floor \in Nat
  BY HeightType, Constants DEF Base, Types
<1>2. current + Len(fetched) < goal /\ goal <= to
  BY DEF Base, RangesInv
<1>3. to <= HeightOf[best]
  BY DEF BackfillInv, Syncing
<1>4. Floor - 1 <= backfillEnd /\ backfillEnd <= current - Len(queue)
  BY DEF Base, FreshInv, Syncing, Done
<1>5. NextHeight = current + 1 + Len(fetched)
  BY DEF NextHeight
<1>6. NextHeight \in Nat /\ Floor <= NextHeight /\ NextHeight <= HeightOf[best]
  BY <1>1, <1>2, <1>3, <1>4, <1>5
<1>. QED
  BY <1>1, <1>6, AvailableAboveFloor

LEMMA BackfillInit == Init => BackfillInv
<1> SUFFICES ASSUME Init
             PROVE  BackfillInv
  OBVIOUS
<1>1. HeightOf[best] >= Floor /\ pc = "down" /\ ~swallowed /\ ~fresh
  BY FloorAssumption DEF Init, ChainInit
<1>. QED
  BY <1>1 DEF BackfillInv, BackfillIsComplete

LEMMA EnvironmentBackfill ==
  ASSUME Base, BackfillInv, Environment
  PROVE  BackfillInv'
<1>1. UNCHANGED <<pc, fresh, table, backfillEnd, task, current, to, swallowed, failures>>
  BY DEF Environment, mainVars, taskVars, faultVars
<1>2. CASE Grow
  <2>1. best \in Block /\ HeightOf[best] \in Nat /\ Floor \in Nat /\ backfillEnd \in Nat
        /\ to \in Nat
    BY HeightType, Constants DEF Base, Types
  <2>2. UNCHANGED switches /\ HeightOf[best'] = HeightOf[best] + 1
    BY <1>2, <2>1, GrowExtendsChain
  <2>3. switches = 0 => HeightOf[best'] >= Floor
    BY <2>1, <2>2 DEF BackfillInv
  <2>4. backfillEnd < HeightOf[best] => backfillEnd < HeightOf[best']
    BY <2>1, <2>2
  <2>5. to <= HeightOf[best] => to <= HeightOf[best']
    BY <2>1, <2>2
  <2>. QED
    BY <1>1, <2>2, <2>3, <2>4, <2>5 DEF BackfillInv, BackfillIsComplete, Undisturbed
<1>3. CASE Switch
  <2>1. switches' # 0
    BY <1>3 DEF Switch, Base, Types
  <2>. QED
    BY <2>1 DEF BackfillInv, BackfillIsComplete, Undisturbed
<1>. QED
  BY <1>2, <1>3 DEF Environment

LEMMA FailureBackfill ==
  ASSUME Base, BackfillInv, BlockMissing \/ CallFails
  PROVE  BackfillInv'
<1>1. /\ UNCHANGED <<best, switches, pc, fresh, table, backfillEnd, current, to>>
      /\ task' = "idle" /\ swallowed' = (swallowed \/ pc = "backfill")
      /\ pc \notin {"down", "synced", "saved"}
  BY FailureBase DEF EndTask, chainVars, mainVars, Syncing, Following
<1>2. CASE CallFails
  <2>1. failures' # 0
    BY <1>2 DEF CallFails, Base, Types
  <2>. QED
    BY <2>1, <1>1 DEF BackfillInv, BackfillIsComplete, Undisturbed
<1>3. CASE BlockMissing
  <2>1. UNCHANGED failures /\ ~(Undisturbed /\ fresh /\ Syncing)
    BY <1>3, NothingMissing DEF BlockMissing
  <2>2. pc = "backfill" => fresh
    BY DEF Base, TablesInv
  <2>3. Undisturbed => ~swallowed /\ pc # "backfill"
    BY <2>1, <2>2 DEF BackfillInv, Syncing
  <2>. QED
    BY <2>1, <2>3, <1>1 DEF BackfillInv, BackfillIsComplete, Undisturbed, Syncing
<1>. QED
  BY <1>2, <1>3

LEMMA RangeDoneBackfill ==
  ASSUME Base, GapsInv, BackfillInv, RangeDone
  PROVE  BackfillInv'
<1>1. /\ UNCHANGED <<best, switches, fresh, table, backfillEnd, current, to, swallowed, failures>>
      /\ pc \in {"sync", "backfill"} /\ pc' = "synced" /\ task = "idle" /\ queue = <<>>
  BY DEF RangeDone, Syncing, taskVars, faultVars, chainVars
<1>2. ASSUME Undisturbed, fresh
      PROVE  table # {}
  <2>1. CASE pc = "backfill"
    BY <2>1, <1>2 DEF BackfillInv
  <2>2. CASE pc = "sync"
    <3>1. current = to /\ backfillEnd < to /\ ~swallowed
      BY <2>2, <1>1, <1>2 DEF BackfillInv
    <3>2. Done = to /\ backfillEnd \in Nat /\ to \in Nat
      BY <3>1, <1>1 DEF Done, Base, Types
    <3>3. Done # backfillEnd
      BY <3>1, <3>2
    <3>. QED
      BY <3>1, <3>3, <2>2, <1>2 DEF GapsInv
  <2>. QED
    BY <2>1, <2>2, <1>1
<1>. QED
  BY <1>1, <1>2 DEF BackfillInv, BackfillIsComplete, Undisturbed

LEMMA SaveBackfill ==
  ASSUME Base, GapsInv, BackfillInv, SaveAfterSync
  PROVE  BackfillInv'
<1>1. /\ UNCHANGED <<best, switches, fresh, table, backfillEnd, current, to, swallowed, failures>>
      /\ pc = "synced" /\ pc' = "saved" /\ ~BackfillNeeded
  BY DEF SaveAfterSync, taskVars, faultVars, chainVars
<1>2. ASSUME Undisturbed, fresh
      PROVE  /\ Size(table) >= BackfillTarget \/ Floor \in Heights(table)
             /\ Interval(Heights(table))
  <2>1. table # {} /\ ~swallowed
    BY <1>1, <1>2 DEF BackfillInv
  <2>2. backfillEnd + 1 \in Heights(table) /\ Interval(Heights(table))
    BY <2>1, <1>1, <1>2 DEF GapsInv
  <2>3. Size(table) \in Nat /\ BackfillTarget \in Nat /\ Floor \in Nat /\ backfillEnd \in Nat
    BY SizeType, Constants DEF Base, TablesInv, Whole, Types
  <2>4. Floor - 1 <= backfillEnd
    BY <1>1, <1>2 DEF Base, FreshInv
  <2>5. Size(table) >= BackfillTarget \/ backfillEnd < Floor
    BY <1>1, <1>2, <2>3 DEF BackfillNeeded
  <2>6. backfillEnd < Floor => backfillEnd + 1 = Floor
    BY <2>3, <2>4
  <2>. QED
    BY <2>2, <2>5, <2>6
<1>3. BackfillIsComplete'
  BY <1>1, <1>2 DEF BackfillIsComplete, Undisturbed
<1>. QED
  BY <1>1, <1>3 DEF BackfillInv, Undisturbed

LEMMA StartBackfill ==
  ASSUME Base, BackfillInv, Start
  PROVE  BackfillInv'
<1> DEFINE tip == HeightOf[best]
<1>1. UNCHANGED <<best, switches, swallowed, failures>> /\ pc = "down" /\ tip \in Nat
  BY StartCases DEF Start, faultVars, chainVars
<1>2. pc' \in {"sync", "synced"}
  BY DEF Start, SyncRange
<1>3. CASE ~fresh'
  BY <1>1, <1>2, <1>3 DEF BackfillInv, BackfillIsComplete, Undisturbed
<1>4. CASE switches # 0
  BY <1>1, <1>2, <1>4 DEF BackfillInv, BackfillIsComplete, Undisturbed
<1>5. CASE fresh' /\ switches = 0
  <2>1. backfillEnd' = EndBefore(FreshStart(tip)) /\ SyncRange(FreshStart(tip), tip, "sync")
    BY <1>5, StartCases
  <2>2. tip >= Floor
    BY <1>5 DEF BackfillInv
  <2>3. FreshStart(tip) \in Nat /\ FreshStart(tip) <= tip
    BY <1>1, <2>2, FreshStartAt
  <2>4. pc' = "sync" /\ task' = "poll" /\ to' = tip
    BY <2>1, <2>3 DEF SyncRange
  <2>5. backfillEnd' < tip /\ to' <= tip
    BY <2>1, <2>3, <2>4, <1>1 DEF EndBefore
  <2>. QED
    BY <1>1, <2>4, <2>5 DEF BackfillInv, BackfillIsComplete, Undisturbed
<1>. QED
  BY <1>3, <1>4, <1>5

LEMMA BackfillBackfill ==
  ASSUME Base, BackfillInv, Backfill
  PROVE  BackfillInv'
<1>1. /\ UNCHANGED <<best, switches, fresh, table, swallowed, failures>>
      /\ pc = "synced" /\ backfillEnd >= Floor /\ backfillEnd \in Nat
  BY DEF Backfill, BackfillNeeded, faultVars, chainVars, Base, Types
<1>2. /\ fresh /\ backfillEnd' = BackfillStart(backfillEnd) - 1
      /\ pc' = "backfill" /\ task' = "poll" /\ to' = backfillEnd
  BY BackfillBase
<1>3. HeightOf[best] \in Nat
  BY HeightType DEF Base, Types
<1>4. BackfillStart(backfillEnd) \in Nat /\ BackfillStart(backfillEnd) <= backfillEnd
  BY <1>1, BackfillStartAt
<1>5. backfillEnd < HeightOf[best] => to' <= HeightOf[best] /\ backfillEnd' < HeightOf[best]
  BY <1>1, <1>2, <1>3, <1>4
<1>. QED
  BY <1>1, <1>2, <1>5 DEF BackfillInv, BackfillIsComplete, Undisturbed

LEMMA BackfillNext ==
  ASSUME Base, GapsInv, BackfillInv, [Next]_vars
  PROVE  BackfillInv'
<1>1. CASE \/ PollSync \/ PollFollow \/ FetchBlock \/ SendSync \/ SendFollow \/ Stopped
           \/ PollNothingNew \/ UNCHANGED vars
  <2>1. UNCHANGED <<best, switches, pc, fresh, table, backfillEnd, to, swallowed, failures>>
    <3>1. CASE SendSync \/ SendFollow
      BY <3>1, SendEvent DEF HandOn, chainVars, mainVars, faultVars
    <3>2. CASE ~(SendSync \/ SendFollow)
      BY <3>2, <1>1 DEF PollSync, PollFollow, FetchBlock, Stopped, PollNothingNew, vars,
         chainVars, mainVars, taskVars, faultVars
    <3>. QED
      BY <3>1, <3>2
  <2>2. pc \in {"sync", "backfill"} /\ task' = "idle" => \/ task = "idle" /\ current' = current
                                                         \/ current' = to
    <3>1. CASE SendSync \/ SendFollow
      BY <3>1, SendEvent DEF HandOn
    <3>2. CASE PollSync
      BY <3>2 DEF PollSync, Base, RangesInv, Types
    <3>3. CASE \/ PollFollow \/ FetchBlock \/ Stopped \/ PollNothingNew \/ UNCHANGED vars
      BY <3>3 DEF PollFollow, FetchBlock, Stopped, PollNothingNew, vars, taskVars
    <3>. QED
      BY <3>1, <3>2, <3>3, <1>1
  <2>. QED
    BY <2>1, <2>2 DEF BackfillInv, BackfillIsComplete, Undisturbed
<1>2. CASE InsertSynced
  <2>1. /\ UNCHANGED <<best, switches, pc, fresh, backfillEnd, to, task, current, swallowed, failures>>
        /\ pc \in {"sync", "backfill"} /\ table' # {}
    BY <1>2 DEF InsertSynced, chainVars, taskVars, faultVars, Syncing
  <2>. QED
    BY <2>1 DEF BackfillInv, BackfillIsComplete, Undisturbed
<1>3. CASE StartServing \/ ApplyNewBlock \/ ApplyReorg \/ PeriodicSave \/ ChannelClosed \/ Crash
  <2>1. /\ UNCHANGED <<best, switches, swallowed, failures>>
        /\ pc' \in {"follow", "snapshot", "exited", "down"}
    BY <1>3 DEF StartServing, ApplyNewBlock, ApplyReorg, Apply, PeriodicSave, ChannelClosed,
       Crash, chainVars, faultVars
  <2>. QED
    BY <2>1 DEF BackfillInv, BackfillIsComplete, Undisturbed
<1>. QED
  BY <1>1, <1>2, <1>3, EnvironmentBackfill, FailureBackfill, RangeDoneBackfill, SaveBackfill,
     StartBackfill, BackfillBackfill
  DEF Next, MainStep, TaskStep

LEMMA BackfillInvariant == Spec => []BackfillInv
<1>. QED
  BY BackfillInit, BackfillNext, BaseInvariant, GapsInvariant, PTL DEF Spec

(* A fresh server no call failed for, on a chain that left no branch,      *)
(* serves only once it holds target_size nullifiers or every block down to *)
(* min_sync_height, and then leaves out no height below the newest.        *)
THEOREM BackfillCorrect == Spec => []BackfillIsComplete
<1>1. BackfillInv => BackfillIsComplete
  BY DEF BackfillInv
<1>. QED
  BY <1>1, BackfillInvariant, PTL

-----------------------------------------------------------------------------
(* What the parser reads *)

(* f starts at a, and next says how each value follows from the last. *)
Steps(f, X, a, n, next) ==
  f \in [0..n -> X] /\ f[0] = a /\ \A i \in 1..n : f[i] = next[i][f[i - 1]]

LEMMA StepsExist ==
  ASSUME NEW X, NEW a \in X, NEW n \in Nat, NEW next \in [1..n -> [X -> X]]
  PROVE  \E f : Steps(f, X, a, n, next)
<1> DEFINE Upto(f, k) == f[0] = a /\ \A i \in 1..k : f[i] = next[i][f[i - 1]]
           Bad == {k \in 0..n : ~ \E f \in [0..k -> X] : Upto(f, k)}
<1>1. \E f \in [0..0 -> X] : Upto(f, 0)
  <2>1. [i \in 0..0 |-> a] \in [0..0 -> X] /\ Upto([i \in 0..0 |-> a], 0)
    OBVIOUS
  <2>. QED
    BY <2>1
<1>2. ASSUME NEW k \in 1..n, NEW f \in [0..(k - 1) -> X], Upto(f, k - 1)
      PROVE  \E g \in [0..k -> X] : Upto(g, k)
  <2> DEFINE g == [i \in 0..k |-> IF i = k THEN next[k][f[k - 1]] ELSE f[i]]
  <2>1. f[k - 1] \in X /\ next[k] \in [X -> X]
    OBVIOUS
  <2>2. g \in [0..k -> X]
    BY <2>1
  <2>3. g[0] = a
    BY <1>2
  <2>4. ASSUME NEW i \in 1..k
        PROVE  g[i] = next[i][g[i - 1]]
    <3>1. CASE i = k
      <4>1. g[k] = next[k][f[k - 1]] /\ g[k - 1] = f[k - 1]
        OBVIOUS
      <4>. QED
        BY <3>1, <4>1
    <3>2. CASE i # k
      <4>1. i \in 1..(k - 1) /\ i - 1 \in 0..k /\ i - 1 # k
        BY <3>2
      <4>2. g[i] = f[i] /\ g[i - 1] = f[i - 1]
        BY <3>2, <4>1
      <4>3. f[i] = next[i][f[i - 1]]
        BY <4>1, <1>2
      <4> HIDE DEF g
      <4>. QED
        BY <4>2, <4>3
    <3>. QED
      BY <3>1, <3>2
  <2> HIDE DEF g
  <2>. QED
    BY <2>2, <2>3, <2>4
<1>3. Bad = {}
  <2> SUFFICES ASSUME Bad # {}
               PROVE  FALSE
    OBVIOUS
  <2>1. Bad \in SUBSET Nat
    OBVIOUS
  <2>2. PICK k \in Bad : \A m \in Bad : k <= m
    <3> HIDE DEF Bad
    <3>. QED
      BY <2>1, LeastNat
  <2>3. k # 0 /\ k \in 0..n /\ ~ \E f \in [0..k -> X] : Upto(f, k)
    BY <2>2, <1>1
  <2>4. k \in 1..n /\ k - 1 \in 0..n /\ ~(k <= k - 1)
    BY <2>3
  <2>5. k - 1 \notin Bad
    <3> HIDE DEF Bad
    <3>. QED
      BY <2>2, <2>4
  <2>6. PICK f \in [0..(k - 1) -> X] : Upto(f, k - 1)
    BY <2>4, <2>5
  <2> HIDE DEF Upto, Bad
  <2>. QED
    BY <2>3, <2>4, <2>6, <1>2
<1>4. n \in 0..n
  OBVIOUS
<1>5. \E f \in [0..n -> X] : Upto(f, n)
  BY <1>3, <1>4
<1>. QED
  BY <1>5 DEF Steps

(* What holds at the start and after each step holds all along. *)
LEMMA StepsKeep ==
  ASSUME NEW n \in Nat, NEW Good \in SUBSET (0..n), 0 \in Good,
         \A i \in 1..n : i - 1 \in Good => i \in Good
  PROVE  n \in Good /\ \A i \in 0..n : i \in Good
<1> DEFINE Bad == (0..n) \ Good
<1> SUFFICES ASSUME Bad # {}
             PROVE  FALSE
  OBVIOUS
<1>1. Bad \in SUBSET Nat
  OBVIOUS
<1>2. PICK k \in Bad : \A m \in Bad : k <= m
  <2> HIDE DEF Bad
  <2>. QED
    BY <1>1, LeastNat
<1>3. k \in 1..n
  BY <1>2
<1>4. k - 1 \in 0..n /\ ~(k <= k - 1)
  BY <1>3
<1>5. k - 1 \in Good
  BY <1>2, <1>4
<1>. QED
  BY <1>2, <1>3, <1>5

(* The sequences over S of ss, joined one by one. *)
Joins(f, S, n, ss) ==
  f[0] = <<>> /\ \A i \in 1..n : f[i - 1] \in Seq(S) /\ f[i] = f[i - 1] \o ss[i]

LEMMA JoinsExist ==
  ASSUME NEW S, NEW n \in Nat, NEW ss \in [1..n -> Seq(S)]
  PROVE  \E f : Joins(f, S, n, ss)
<1> DEFINE X == Seq(S)
           none == <<>>
           next == [i \in 1..n |-> [x \in X |-> x \o ss[i]]]
<1>1. next \in [1..n -> [X -> X]] /\ none \in X
  OBVIOUS
<1>2. PICK f : Steps(f, X, none, n, next)
  <2> HIDE DEF next, X, none
  <2>. QED
    BY <1>1, StepsExist
<1>3. ASSUME NEW i \in 1..n
      PROVE  f[i - 1] \in Seq(S) /\ f[i] = f[i - 1] \o ss[i]
  <2>1. f[i - 1] \in X
    <3> HIDE DEF X
    <3>. QED
      BY <1>2 DEF Steps
  <2>2. f[i] = next[i][f[i - 1]]
    <3> HIDE DEF X, next
    <3>. QED
      BY <1>2 DEF Steps
  <2>3. next[i][f[i - 1]] = f[i - 1] \o ss[i]
    <3> HIDE DEF X
    <3>. QED
      BY <2>1
  <2>. QED
    BY <2>1, <2>2, <2>3
<1>. QED
  BY <1>2, <1>3 DEF Joins, Steps

(* Flattening sequences over S gives a sequence over S. *)
FlattenRec(f, ss) ==
  f = [i \in 1..Len(ss) |-> IF i = 1 THEN ss[i] ELSE f[i - 1] \o ss[i]]

LEMMA FlattenIs ==
  ASSUME NEW ss, Len(ss) # 0
  PROVE  FlattenSeq(ss) = (CHOOSE f : FlattenRec(f, ss))[Len(ss)]
BY DEF FlattenSeq, FlattenRec

(* h ends in the flattened sequence. *)
Flattens(h, S, ss) ==
  /\ FlattenSeq(ss) = h[Len(ss)]
  /\ \A i \in 1..Len(ss) :
       h[i] \in Seq(S) /\ h[i] = IF i = 1 THEN ss[i] ELSE h[i - 1] \o ss[i]

LEMMA FlattenSteps ==
  ASSUME NEW S, NEW ss \in Seq(Seq(S)), Len(ss) # 0
  PROVE  \E h : Flattens(h, S, ss)
<1> DEFINE n == Len(ss)
<1>1. n \in Nat /\ n # 0 /\ \A i \in 1..n : ss[i] \in Seq(S)
  OBVIOUS
<1>2. PICK f : Joins(f, S, n, ss)
  <2>1. n \in Nat /\ ss \in [1..n -> Seq(S)]
    OBVIOUS
  <2> HIDE DEF n
  <2>. QED
    BY <2>1, JoinsExist
<1>3. f[0] = <<>> /\ \A i \in 1..n : f[i - 1] \in Seq(S) /\ f[i] = f[i - 1] \o ss[i]
  <2> HIDE DEF n
  <2>. QED
    BY <1>2 DEF Joins
<1> DEFINE g == [i \in 1..n |-> f[i]]
<1>4. ASSUME NEW i \in 1..n
      PROVE  g[i] = IF i = 1 THEN ss[i] ELSE g[i - 1] \o ss[i]
  <2>1. f[i - 1] \in Seq(S) /\ f[i] = f[i - 1] \o ss[i] /\ g[i] = f[i]
    BY <1>3
  <2>2. CASE i = 1
    <3>1. f[i - 1] = <<>>
      BY <2>2, <1>3
    <3>. QED
      BY <1>1, <2>1, <2>2, <3>1
  <2>3. CASE i # 1
    <3>1. i - 1 \in 1..n
      BY <2>3, <1>1
    <3>2. g[i - 1] = f[i - 1]
      BY <3>1
    <3>. QED
      BY <2>1, <2>3, <3>2
  <2>. QED
    BY <2>2, <2>3
<1>5. FlattenRec(g, ss)
  <2>1. g = [i \in 1..n |-> IF i = 1 THEN ss[i] ELSE g[i - 1] \o ss[i]]
    <3>1. g = [i \in 1..n |-> g[i]]
      OBVIOUS
    <3> HIDE DEF g
    <3>. QED
      BY <1>4, <3>1
  <2>. QED
    BY <2>1 DEF FlattenRec
<1>6. FlattenRec((CHOOSE h : FlattenRec(h, ss)), ss)
  <2> HIDE DEF g
  <2>. QED
    BY <1>5
<1>7. PICK h : FlattenRec(h, ss) /\ FlattenSeq(ss) = h[n]
  BY <1>6, <1>1, FlattenIs
<1> DEFINE Good == {i \in 0..n : i = 0 \/ h[i] \in Seq(S)}
<1>8. \A i \in 1..n : h[i] = IF i = 1 THEN ss[i] ELSE h[i - 1] \o ss[i]
  BY <1>7 DEF FlattenRec
<1>9. ASSUME NEW i \in 1..n, i - 1 \in Good
      PROVE  i \in Good
  <2>1. CASE i = 1
    BY <2>1, <1>8, <1>1
  <2>2. CASE i # 1
    <3>1. i - 1 # 0 /\ i \in 0..n /\ ss[i] \in Seq(S)
      BY <2>2, <1>1
    <3>2. h[i - 1] \in Seq(S)
      BY <3>1, <1>9
    <3>3. h[i] = h[i - 1] \o ss[i]
      <4> HIDE DEF n
      <4>. QED
        BY <2>2, <1>8
    <3>4. h[i - 1] \o ss[i] \in Seq(S)
      BY <3>1, <3>2
    <3>. QED
      BY <3>1, <3>3, <3>4
  <2>. QED
    BY <2>1, <2>2
<1>10. Good \in SUBSET (0..n) /\ 0 \in Good
  BY <1>1
<1>11. \A i \in 0..n : i \in Good
  <2> HIDE DEF Good, n
  <2>. QED
    BY <1>1, <1>9, <1>10, StepsKeep
<1>12. \A i \in 1..n : h[i] \in Seq(S)
  BY <1>11
<1>. QED
  BY <1>7, <1>8, <1>12 DEF Flattens

LEMMA FlattenType ==
  ASSUME NEW S, NEW ss \in Seq(Seq(S))
  PROVE  FlattenSeq(ss) \in Seq(S)
<1>1. CASE Len(ss) = 0
  <2>1. FlattenSeq(ss) = ss /\ ss = <<>>
    BY <1>1 DEF FlattenSeq
  <2>. QED
    BY <2>1
<1>2. CASE Len(ss) # 0
  <2>1. Len(ss) \in 1..Len(ss)
    BY <1>2
  <2>. QED
    BY <2>1, <1>2, FlattenSteps DEF Flattens
<1>. QED
  BY <1>1, <1>2

(* What is collected of a field are valid values of it. *)
CollectedRec(f, actions, field, valid) ==
  f = [n \in 0..Len(actions) |->
        IF n = 0 THEN <<>>
        ELSE IF actions[n][field] \in valid THEN Append(f[n - 1], actions[n][field])
        ELSE f[n - 1]]

LEMMA CollectedIs ==
  ASSUME NEW actions, NEW field, NEW valid
  PROVE  Collected(actions, field, valid) =
           (CHOOSE f : CollectedRec(f, actions, field, valid))[Len(actions)]
BY DEF Collected, CollectedRec

LEMMA CollectedSteps ==
  ASSUME NEW S, NEW actions \in Seq(S), NEW field, NEW valid
  PROVE  \E h :
           /\ Collected(actions, field, valid) = h[Len(actions)]
           /\ \A i \in 0..Len(actions) :
                /\ h[i] \in Seq({actions[k][field] : k \in 1..Len(actions)} \cap valid)
                /\ h[i] = IF i = 0 THEN <<>>
                         ELSE IF actions[i][field] \in valid
                              THEN Append(h[i - 1], actions[i][field])
                         ELSE h[i - 1]
<1> DEFINE n == Len(actions)
           V == {actions[k][field] : k \in 1..n} \cap valid
           next == [k \in 1..n |-> [x \in Seq(V) |->
                      IF actions[k][field] \in valid THEN Append(x, actions[k][field]) ELSE x]]
<1>1. n \in Nat
  OBVIOUS
<1>2. \A k \in 1..n : actions[k][field] \in valid => actions[k][field] \in V
  OBVIOUS
<1>3. next \in [1..n -> [Seq(V) -> Seq(V)]]
  <2> HIDE DEF V
  <2>. QED
    BY <1>1, <1>2
<1>4. <<>> \in Seq(V)
  OBVIOUS
<1>5. PICK f \in [0..n -> Seq(V)] : f[0] = <<>> /\ \A i \in 1..n : f[i] = next[i][f[i - 1]]
  <2> DEFINE X == Seq(V)
             none == <<>>
  <2>1. n \in Nat /\ none \in X /\ next \in [1..n -> [X -> X]]
    BY <1>1, <1>3, <1>4
  <2> HIDE DEF next, n, X, none
  <2>2. \E f : Steps(f, X, none, n, next)
    BY <2>1, StepsExist
  <2>. QED
    BY <2>2 DEF X, none, Steps
<1>6. CollectedRec(f, actions, field, valid)
  <2>1. ASSUME NEW i \in 0..n
        PROVE  f[i] = IF i = 0 THEN <<>>
                      ELSE IF actions[i][field] \in valid THEN Append(f[i - 1], actions[i][field])
                      ELSE f[i - 1]
    <3>1. CASE i = 0
      BY <3>1, <1>5
    <3>2. CASE i # 0
      <4>1. i \in 1..n /\ i - 1 \in 0..n
        BY <3>2
      <4>2. f[i] = next[i][f[i - 1]] /\ f[i - 1] \in Seq(V)
        BY <4>1, <1>5
      <4> HIDE DEF V, n
      <4>. QED
        BY <3>2, <4>1, <4>2
    <3>. QED
      BY <3>1, <3>2
  <2>2. f = [i \in 0..n |-> f[i]]
    OBVIOUS
  <2>. QED
    BY <2>1, <2>2 DEF CollectedRec
<1>7. PICK h : CollectedRec(h, actions, field, valid) /\ Collected(actions, field, valid) = h[n]
  BY <1>6, CollectedIs
<1> DEFINE Good == {i \in 0..n : h[i] \in Seq(V)}
<1>8. \A i \in 0..n : h[i] = IF i = 0 THEN <<>>
                             ELSE IF actions[i][field] \in valid
                                  THEN Append(h[i - 1], actions[i][field])
                             ELSE h[i - 1]
  BY <1>7 DEF CollectedRec
<1>9. 0 \in Good /\ Good \in SUBSET (0..n)
  <2>1. h[0] = <<>>
    BY <1>8, <1>1
  <2>. QED
    BY <2>1, <1>1, <1>4
<1>10. ASSUME NEW i \in 1..n, i - 1 \in Good
       PROVE  i \in Good
  <2>1. i \in 0..n /\ i # 0 /\ h[i - 1] \in Seq(V)
    BY <1>10
  <2>2. h[i] = IF actions[i][field] \in valid
               THEN Append(h[i - 1], actions[i][field]) ELSE h[i - 1]
    BY <1>8, <2>1
  <2>3. h[i] \in Seq(V)
    <3> HIDE DEF V, n
    <3>. QED
      BY <1>2, <2>1, <2>2
  <2>. QED
    BY <2>1, <2>3
<1>11. \A i \in 0..n : i \in Good
  <2> HIDE DEF Good, n
  <2>. QED
    BY <1>1, <1>9, <1>10, StepsKeep
<1>. QED
  BY <1>7, <1>8, <1>11

LEMMA CollectedType ==
  ASSUME NEW S, NEW actions \in Seq(S), NEW field, NEW valid
  PROVE  Collected(actions, field, valid)
           \in Seq({actions[k][field] : k \in 1..Len(actions)} \cap valid)
<1>1. Len(actions) \in 0..Len(actions)
  OBVIOUS
<1>. QED
  BY <1>1, CollectedSteps

(* Every nullifier extract_nullifiers reads out of a block has an entry of *)
(* its own among those extract_nullifiers_with_meta makes of it.           *)
LEMMA NullifierHasEntry ==
  ASSUME NEW b \in Block, NEW i \in DOMAIN ExtractNullifiers(b)
  PROVE  \E e \in Entries(b) : e.nf = ExtractNullifiers(b)[i] /\ e.spendHeight = HeightOf[b]
<1> DEFINE nf == ExtractNullifiers(b)[i]
           V == {Actions(b)[k].nf : k \in 1..Len(Actions(b))} \cap Nullifier
<1>1. Actions(b) \in Seq(ActionsIn(TxsOf[b]))
  BY ParserAssumption, FlattenType DEF Actions
<1>2. ExtractNullifiers(b) \in Seq(V)
  BY <1>1, CollectedType DEF ExtractNullifiers
<1>3. nf \in V
  <2> HIDE DEF V
  <2>. QED
    BY <1>2
<1>4. PICK k \in 1..Len(Actions(b)) : nf = Actions(b)[k].nf /\ nf \in Nullifier
  BY <1>3
<1>5. Actions(b)[k] \in ActionsIn(TxsOf[b])
  BY <1>1
<1>6. PICK t \in DOMAIN TxsOf[b] : \E j \in DOMAIN TxsOf[b][t] : TxsOf[b][t][j] = Actions(b)[k]
  BY <1>5 DEF ActionsIn
<1>7. PICK j \in DOMAIN TxsOf[b][t] : TxsOf[b][t][j].nf = nf
  BY <1>4, <1>6
<1> DEFINE entry == [nf |-> nf, first |-> FirstOutputPosition(b, t, {}),
                     count |-> Len(TxsOf[b][t]) % CountModulus]
<1> HIDE DEF nf, V
<1>8. entry \in NullifiersWithMeta(b, {})
  BY <1>4, <1>7 DEF NullifiersWithMeta
<1>9. {} \in PriorSizes(b)
  BY DEF PriorSizes
<1> DEFINE e == [nf |-> entry.nf, spendHeight |-> HeightOf[b],
                 first |-> entry.first, count |-> entry.count]
<1>10. e \in Entries(b)
  <2> HIDE DEF entry
  <2>. QED
    BY <1>8, <1>9 DEF Entries
<1>11. e.nf = nf /\ e.spendHeight = HeightOf[b]
  OBVIOUS
<1>. QED
  BY <1>10, <1>11 DEF nf

-----------------------------------------------------------------------------
(* The client *)

(* While no call has failed and no branch was left, the server is never on *)
(* its way to serve less than it told a client: a sync ends at the tip it  *)
(* read, which is not below any tip before it.                             *)
HeldInv ==
  /\ \A m \in metadata : m.latest \in Nat
  /\ Undisturbed =>
       /\ \A m \in metadata : m.latest <= HeightOf[best]
       /\ pc = "sync" =>
            /\ to <= HeightOf[best]
            /\ \A m \in metadata : m.latest <= to
            /\ task = "idle" => current = to
            /\ table = {} /\ ~fresh => Floor <= to /\ Done + 1 = to
       /\ pc \in {"backfill", "synced", "saved", "follow", "snapshot"} =>
            \A m \in metadata : m.latest <= Latest(table)

ClientBase == Base /\ GapsInv /\ BranchInv /\ BackfillInv

LEMMA LatestGrows ==
  ASSUME NEW s, NEW t, Whole(s), Whole(t), s \subseteq t
  PROVE  Latest(s) <= Latest(t)
<1>1. Latest(s) \in Nat /\ Latest(t) \in Nat
  BY LatestBounds
<1>2. CASE s = {}
  BY <1>1, <1>2 DEF Latest
<1>3. CASE s # {}
  <2>1. PICK b \in s : Latest(s) = HeightOf[b]
    BY <1>3, NewestExists
  <2>. QED
    BY <2>1, LatestBounds
<1>. QED
  BY <1>2, <1>3

(* Nothing read on one branch is missing, whatever the sync started from.  *)
LEMMA NothingMissingInSync ==
  ASSUME ClientBase, HeldInv, Undisturbed, pc = "sync", task = "fetch"
  PROVE  Available(NextHeight)
<1>1. CASE fresh
  BY <1>1, NothingMissing DEF ClientBase, Syncing
<1> SUFFICES ASSUME ~fresh
             PROVE  Available(NextHeight)
  BY <1>1
<1>2. /\ best \in Block /\ HeightOf[best] \in Nat
      /\ current \in Nat /\ Len(fetched) \in Nat /\ goal \in Nat /\ to \in Nat
      /\ Len(queue) \in Nat /\ Floor \in Nat
  BY HeightType, Constants DEF ClientBase, Base, Types
<1>3. current + Len(fetched) < goal /\ goal <= to /\ to <= HeightOf[best]
  BY DEF ClientBase, Base, RangesInv, HeldInv, Syncing
<1>4. NextHeight = current + 1 + Len(fetched)
  BY DEF NextHeight
<1>5. NextHeight \in Nat /\ NextHeight <= HeightOf[best] /\ NextHeight <= to
      /\ Done + 1 <= NextHeight /\ Done \in Int
  BY <1>2, <1>3, <1>4 DEF Done
<1>6. CASE table = {}
  <2>1. Floor <= NextHeight
    <3>1. Floor <= to /\ Done + 1 = to
      BY <1>6 DEF HeldInv
    <3>. QED
      BY <3>1, <1>2, <1>5
  <2>. QED
    BY <1>2, <1>5, <2>1, AvailableAboveFloor
<1>7. CASE table # {}
  <2>1. PICK c \in table : TRUE
    BY <1>7
  <2>2. c \in ChainOf[best] /\ c \in Block /\ HeightOf[c] \in Nat /\ HeightOf[c] <= Done
    BY HeightType DEF ClientBase, BranchInv, Base, TablesInv, Whole, Undisturbed
  <2>3. NextHeight \in HeightOf[c]..HeightOf[best]
    BY <2>2, <1>2, <1>5
  <2>. QED
    BY <1>2, <2>2, <2>3, ChainHasNoGap DEF Available
<1>. QED
  BY <1>6, <1>7

(* What a client is told. *)
LEMMA ToldHeld ==
  ASSUME ClientBase, HeldInv, Connect \/ RefreshMetadata
  PROVE  HeldInv'
<1>1. /\ serving /\ metadata' = {MetadataOf(live)}
      /\ UNCHANGED <<best, switches, failures, pc, fresh, table, task, current, to, queue>>
  BY DEF Connect, RefreshMetadata, vars, mainVars, taskVars, chainVars, faultVars
<1>2. live = table /\ Following /\ Whole(table) /\ best \in Block
  BY <1>1 DEF ClientBase, Base, TablesInv, Types
<1>3. \A m \in metadata' : m.latest = Latest(table)
  BY <1>1, <1>2 DEF MetadataOf
<1>4. Latest(table) \in Nat
  BY <1>2, LatestBounds
<1>5. ASSUME switches = 0
      PROVE  Latest(table) <= HeightOf[best]
  <2>1. CASE table = {}
    BY <2>1, <1>2, HeightType DEF Latest
  <2>2. CASE table # {}
    <3>1. PICK b \in table : Latest(table) = HeightOf[b]
      BY <2>2, <1>2, NewestExists
    <3>2. b \in ChainOf[best]
      BY <3>1, <1>5 DEF ClientBase, BranchInv
    <3>. QED
      BY <3>1, <3>2, <1>2, ChainBelowTip
  <2>. QED
    BY <2>1, <2>2
<1>. QED
  BY <1>1, <1>2, <1>3, <1>4, <1>5 DEF HeldInv, Undisturbed, Following

LEMMA StartHeld ==
  ASSUME ClientBase, HeldInv, Start, UNCHANGED metadata
  PROVE  HeldInv'
<1> DEFINE tip == HeightOf[best]
<1>1. /\ UNCHANGED <<best, switches, failures, queue, disk>> /\ pc = "down"
      /\ tip \in Nat \ {0} /\ best \in Block
  BY StartCases DEF Start, faultVars, chainVars, ClientBase, Base, Types
<1>2. Len(queue') = 0
  BY <1>1 DEF ClientBase, Base, RangesInv, Syncing, Following
<1> SUFFICES ASSUME Undisturbed
             PROVE  HeldInv'
  BY <1>1 DEF HeldInv, Undisturbed
<1>3. /\ \A m \in metadata : m.latest \in Nat /\ m.latest <= tip
      /\ tip >= Floor /\ Floor \in Nat
  BY Constants DEF HeldInv, ClientBase, BackfillInv, Undisturbed
<1>4. CASE \E snapshot \in disk :
             /\ table' = snapshot /\ fresh' = FALSE
             /\ SyncRange(ForwardStart(snapshot, tip), tip, "sync")
  <2>1. PICK t \in disk : table' = t /\ fresh' = FALSE /\ SyncRange(ForwardStart(t, tip), tip, "sync")
    BY <1>4
  <2>2. Whole(t) /\ Latest(t) \in Nat
    BY LatestBounds DEF ClientBase, Base, TablesInv
  <2>3. CASE ForwardStart(t, tip) <= tip
    <3>1. /\ pc' = "sync" /\ task' = "poll" /\ to' = tip
          /\ current' = ForwardStart(t, tip) - 1
      BY <2>1, <2>3 DEF SyncRange
    <3>2. t = {} => Done' + 1 = tip
      <4>1. t = {} => current' = tip - 1
        BY <3>1 DEF ForwardStart
      <4>2. Done' = current' - Len(queue')
        BY DEF Done
      <4>. QED
        BY <4>1, <4>2, <1>1, <1>2
    <3>. QED
      BY <1>1, <1>3, <2>1, <3>1, <3>2 DEF HeldInv
  <2>4. CASE ~(ForwardStart(t, tip) <= tip)
    <3>1. pc' = "synced"
      BY <2>1, <2>4 DEF SyncRange
    <3>2. tip <= Latest(t)
      BY <1>1, <2>2, <2>4 DEF ForwardStart
    <3>3. \A m \in metadata : m.latest <= Latest(t)
      BY <1>1, <1>3, <2>2, <3>2
    <3>. QED
      BY <1>1, <1>3, <2>1, <3>1, <3>3 DEF HeldInv
  <2>. QED
    BY <2>3, <2>4
<1>5. CASE fresh' = TRUE /\ SyncRange(FreshStart(tip), tip, "sync")
  <2>1. FreshStart(tip) <= tip
    BY <1>1, <1>3, FreshStartAt
  <2>2. pc' = "sync" /\ task' = "poll" /\ to' = tip
    BY <1>5, <2>1 DEF SyncRange
  <2>. QED
    BY <1>1, <1>3, <1>5, <2>2 DEF HeldInv
<1>6. \/ \E snapshot \in disk :
           /\ table' = snapshot /\ fresh' = FALSE
           /\ SyncRange(ForwardStart(snapshot, tip), tip, "sync")
      \/ fresh' = TRUE /\ SyncRange(FreshStart(tip), tip, "sync")
  BY StartCases DEF ClientBase
<1>. QED
  BY <1>4, <1>5, <1>6

LEMMA RangeDoneHeld ==
  ASSUME ClientBase, HeldInv, RangeDone, UNCHANGED metadata
  PROVE  HeldInv'
<1>1. /\ UNCHANGED <<best, switches, failures, table>>
      /\ pc \in {"sync", "backfill"} /\ pc' = "synced" /\ task = "idle" /\ queue = <<>>
  BY DEF RangeDone, Syncing, chainVars, faultVars
<1>2. ASSUME Undisturbed, pc = "sync"
      PROVE  \A m \in metadata : m.latest <= Latest(table)
  <2>1. current = to /\ (\A m \in metadata : m.latest <= to /\ m.latest \in Nat)
    BY <1>1, <1>2 DEF HeldInv
  <2>2. Len(queue) = 0 /\ to \in Nat
    BY <1>1 DEF ClientBase, Base, Types
  <2>3. Done = to
    BY <2>1, <2>2 DEF Done
  <2>4. table # {}
    <3>1. CASE fresh
      <4>1. backfillEnd < to /\ ~swallowed /\ backfillEnd \in Nat
        BY <3>1, <1>2 DEF ClientBase, BackfillInv, Base, Types
      <4>2. Done # backfillEnd
        BY <4>1, <2>2, <2>3
      <4>. QED
        BY <3>1, <4>1, <4>2, <1>2 DEF ClientBase, GapsInv
    <3>2. CASE ~fresh
      <4>1. Done + 1 # to
        BY <2>2, <2>3
      <4>. QED
        BY <3>2, <4>1, <1>2 DEF HeldInv
    <3>. QED
      BY <3>1, <3>2
  <2>5. to \in Heights(table)
    <3>1. ~swallowed
      BY <1>2 DEF ClientBase, BackfillInv
    <3>. QED
      BY <3>1, <2>3, <2>4, <1>2 DEF ClientBase, GapsInv
  <2>6. to <= Latest(table) /\ Latest(table) \in Nat
    BY <2>5, LatestBounds DEF Heights, ClientBase, Base, TablesInv
  <2>. QED
    BY <2>1, <2>2, <2>6
<1>. QED
  BY <1>1, <1>2 DEF HeldInv, Undisturbed

LEMMA InsertSyncedHeld ==
  ASSUME ClientBase, HeldInv, InsertSynced, UNCHANGED metadata
  PROVE  HeldInv'
<1>1. /\ UNCHANGED <<best, switches, failures, pc, fresh, task, current, to>>
      /\ Syncing /\ queue # <<>> /\ table' = table \cup {Head(queue).block}
  BY DEF InsertSynced, chainVars, faultVars, taskVars
<1>2. Whole(table) /\ Whole(table')
  <2>1. Base /\ Base'
    BY InsertSyncedBase DEF ClientBase
  <2>. QED
    BY <2>1 DEF Base, TablesInv
<1>3. Latest(table) <= Latest(table') /\ Latest(table) \in Nat /\ Latest(table') \in Nat
  BY <1>1, <1>2, LatestGrows, LatestBounds
<1>4. table' # {}
  BY <1>1
<1>5. \A m \in metadata : m.latest <= Latest(table) => m.latest <= Latest(table')
  BY <1>3 DEF HeldInv
<1>. QED
  BY <1>1, <1>4, <1>5 DEF HeldInv, Undisturbed

LEMMA ApplyHeld ==
  ASSUME ClientBase, HeldInv, NEW type, Apply(type), UNCHANGED metadata
  PROVE  HeldInv'
<1>1. /\ UNCHANGED <<best, switches, failures>> /\ pc = "follow"
      /\ pc' \in {"follow", "snapshot"}
  BY DEF Apply, chainVars, faultVars
<1>2. Latest(table') = Latest(table) + 1 /\ Latest(table) \in Nat
  BY ApplyTable, LatestBounds DEF ClientBase, Base, TablesInv
<1>3. \A m \in metadata : m.latest <= Latest(table) => m.latest <= Latest(table')
  BY <1>2 DEF HeldInv
<1>. QED
  BY <1>1, <1>3 DEF HeldInv, Undisturbed

LEMMA EnvironmentHeld ==
  ASSUME ClientBase, HeldInv, Environment, UNCHANGED metadata
  PROVE  HeldInv'
<1>1. UNCHANGED <<pc, fresh, table, task, current, to, queue, failures>>
  BY DEF Environment, mainVars, taskVars, faultVars
<1>2. CASE Grow
  <2>1. best \in Block /\ HeightOf[best] \in Nat /\ to \in Nat
    BY HeightType DEF ClientBase, Base, Types
  <2>2. UNCHANGED switches /\ HeightOf[best'] = HeightOf[best] + 1
    BY <1>2, <2>1, GrowExtendsChain
  <2>3. \A m \in metadata : m.latest <= HeightOf[best] => m.latest <= HeightOf[best']
    BY <2>1, <2>2 DEF HeldInv
  <2>4. to <= HeightOf[best] => to <= HeightOf[best']
    BY <2>1, <2>2
  <2>5. Done' = Done
    BY <1>1 DEF Done
  <2>. QED
    BY <1>1, <2>2, <2>3, <2>4, <2>5 DEF HeldInv, Undisturbed
<1>3. CASE Switch
  <2>1. switches' # 0
    BY <1>3 DEF Switch, ClientBase, Base, Types
  <2>. QED
    BY <2>1, <1>1 DEF HeldInv, Undisturbed
<1>. QED
  BY <1>2, <1>3 DEF Environment

LEMMA FailureHeld ==
  ASSUME ClientBase, HeldInv, BlockMissing \/ CallFails, UNCHANGED metadata
  PROVE  HeldInv'
<1>1. UNCHANGED <<best, switches, pc, fresh, table, current, to, queue>>
  BY FailureBase DEF EndTask, chainVars, mainVars, ClientBase
<1>2. CASE CallFails
  <2>1. failures' # 0
    BY <1>2 DEF CallFails, ClientBase, Base, Types
  <2>. QED
    BY <2>1, <1>1 DEF HeldInv, Undisturbed
<1>3. CASE BlockMissing
  <2>1. UNCHANGED failures /\ ~(Undisturbed /\ pc = "sync")
    BY <1>3, NothingMissingInSync DEF BlockMissing
  <2>. QED
    BY <2>1, <1>1 DEF HeldInv, Undisturbed
<1>. QED
  BY <1>2, <1>3


LEMMA ServerHeld ==
  ASSUME ClientBase, HeldInv, [Next]_vars, UNCHANGED metadata
  PROVE  HeldInv'
<1>1. CASE SendSync \/ SendFollow
  <2>1. UNCHANGED <<best, switches, failures, pc, fresh, table, to>> /\ Done' = Done
    BY <1>1, SendEvent, SendBase DEF HandOn, chainVars, mainVars, faultVars, ClientBase
  <2>2. task' # "idle"
    BY <1>1, SendEvent DEF HandOn, ClientBase
  <2>. QED
    BY <2>1, <2>2 DEF HeldInv, Undisturbed
<1>2. CASE PollSync \/ PollFollow \/ FetchBlock \/ Stopped \/ PollNothingNew \/ UNCHANGED vars
  <2>1. UNCHANGED <<best, switches, failures, pc, fresh, table, to, current, queue>>
    BY <1>2 DEF PollSync, PollFollow, FetchBlock, Stopped, PollNothingNew, vars, chainVars,
       mainVars, taskVars, faultVars
  <2>2. Done' = Done
    BY <2>1 DEF Done
  <2>3. pc = "sync" /\ task' = "idle" => task = "idle" \/ current = to
    <3>1. CASE PollSync
      BY <3>1 DEF PollSync, ClientBase, Base, RangesInv, Types
    <3>2. CASE ~PollSync
      BY <3>2, <1>2 DEF PollFollow, FetchBlock, Stopped, PollNothingNew, vars, taskVars
    <3>. QED
      BY <3>1, <3>2
  <2>. QED
    BY <2>1, <2>2, <2>3 DEF HeldInv, Undisturbed
<1>3. CASE Backfill
  <2>1. /\ UNCHANGED <<best, switches, failures, table>> /\ pc = "synced" /\ pc' = "backfill"
    BY <1>3, BackfillBase DEF Backfill, chainVars, faultVars, ClientBase
  <2>. QED
    BY <2>1 DEF HeldInv, Undisturbed
<1>4. CASE SaveAfterSync \/ PeriodicSave
  <2>1. /\ UNCHANGED <<best, switches, failures, table>>
        /\ pc \in {"synced", "snapshot"} /\ pc' \in {"saved", "follow"}
    BY <1>4 DEF SaveAfterSync, PeriodicSave, chainVars, faultVars
  <2>. QED
    BY <2>1 DEF HeldInv, Undisturbed
<1>5. CASE StartServing
  <2>1. /\ UNCHANGED <<best, switches, failures>> /\ pc = "saved" /\ pc' = "follow"
        /\ table' = Evicted(table)
    BY <1>5 DEF StartServing, chainVars, faultVars
  <2>2. Latest(table') = Latest(table)
    BY <2>1, EvictedKeeps DEF ClientBase, Base, TablesInv
  <2>. QED
    BY <2>1, <2>2 DEF HeldInv, Undisturbed
<1>6. CASE ChannelClosed \/ Crash
  <2>1. /\ UNCHANGED <<best, switches, failures>> /\ pc' \in {"exited", "down"}
    BY <1>6 DEF ChannelClosed, Crash, chainVars, faultVars
  <2>. QED
    BY <2>1 DEF HeldInv, Undisturbed
<1>. QED
  BY <1>1, <1>2, <1>3, <1>4, <1>5, <1>6, StartHeld, RangeDoneHeld, InsertSyncedHeld, ApplyHeld,
     EnvironmentHeld, FailureHeld
  DEF Next, MainStep, TaskStep, ApplyNewBlock, ApplyReorg

LEMMA HeldInvariant == ClientSpec => [](ClientBase /\ HeldInv)
<1>1. ClientInit => ClientBase /\ HeldInv
  <2>1. ASSUME ClientInit
        PROVE  ClientBase /\ HeldInv
    <3>1. Init /\ metadata = {} /\ pc = "down"
      BY <2>1 DEF ClientInit, Init
    <3>. QED
      BY <3>1, BaseInit, GapsInit, BranchInit, BackfillInit DEF ClientBase, HeldInv
  <2>. QED
    BY <2>1
<1>2. ASSUME ClientBase, HeldInv, [ClientNext]_clientVars
      PROVE  ClientBase' /\ HeldInv'
  <2>1. [Next]_vars
    BY <1>2 DEF ClientNext, ServerStep, Connect, RefreshMetadata, clientVars
  <2>2. ClientBase'
    BY <1>2, <2>1, BaseNext, GapsNext, BranchNext, BackfillNext DEF ClientBase
  <2>3. CASE UNCHANGED metadata
    BY <1>2, <2>1, <2>2, <2>3, ServerHeld
  <2>4. CASE Connect \/ RefreshMetadata
    BY <1>2, <2>2, <2>4, ToldHeld
  <2>. QED
    BY <1>2, <2>2, <2>3, <2>4 DEF ClientNext, ServerStep, clientVars
<1>. QED
  BY <1>1, <1>2, PTL DEF ClientSpec


LEMMA EarliestBounds ==
  ASSUME NEW t, Whole(t), t # {}
  PROVE  Earliest(t) \in Heights(t)
<1>1. Heights(t) \in SUBSET Nat /\ Heights(t) # {}
  BY TableHeights
<1>2. \E n \in Heights(t) : \A m \in Heights(t) : n <= m
  BY <1>1, LeastNat
<1>. QED
  BY <1>2 DEF Earliest, Min

(* A nullifier spent on the chain between two heights a client was told of *)
(* is found until its block is evicted, however old the metadata.          *)
THEOREM HeldCoverageCorrect == ClientSpec => []HeldCoverageIsSearched
<1>1. ASSUME ClientBase, HeldInv, serving, Undisturbed,
             NEW m \in metadata, NEW b \in ChainOf[best], NEW i \in DOMAIN ExtractNullifiers(b),
             HeightOf[b] <= m.latest, Earliest(live) <= HeightOf[b]
      PROVE  \E e \in IsSpent(ExtractNullifiers(b)[i]) : e.spendHeight = HeightOf[b]
  <2>1. live = table /\ Following /\ Whole(live) /\ ~swallowed
    BY <1>1 DEF ClientBase, Base, TablesInv, BackfillInv
  <2>2. live \subseteq ChainOf[best] /\ Interval(Heights(live))
    BY <2>1, <1>1 DEF ClientBase, BranchInv, GapsInv, Undisturbed, Following
  <2>3. b \in Block /\ best \in Block /\ HeightOf[b] \in Nat \ {0}
    <3>1. best \in Block
      BY <1>1 DEF ClientBase, Base, Types
    <3>. QED
      BY <3>1, ChainBelowTip, HeightType
  <2>4. m.latest \in Nat /\ m.latest <= Latest(live) /\ Latest(live) \in Nat
    BY <2>1, <1>1, LatestBounds DEF HeldInv, Following
  <2>5. HeightOf[b] <= Latest(live) /\ Latest(live) # 0
    BY <2>3, <2>4, <1>1
  <2>6. live # {}
    BY <2>5 DEF Latest
  <2>7. Latest(live) \in Heights(live) /\ Earliest(live) \in Heights(live) /\ Heights(live) \in SUBSET Nat
    BY <2>1, <2>6, LatestBounds, EarliestBounds, TableHeights
  <2>8. HeightOf[b] \in Earliest(live)..Latest(live)
    BY <2>3, <2>5, <2>7, <1>1
  <2>9. HeightOf[b] \in Heights(live)
    BY <2>2, <2>7, <2>8 DEF Interval
  <2>10. PICK c \in live : HeightOf[c] = HeightOf[b]
    BY <2>9 DEF Heights
  <2>11. b \in live
    BY <2>2, <2>3, <2>10, ChainHeightsDiffer
  <2>. QED
    BY <2>3, <2>11, NullifierHasEntry DEF IsSpent, ScanBucketForNf
<1>2. ClientBase /\ HeldInv => HeldCoverageIsSearched
  BY <1>1 DEF HeldCoverageIsSearched, Undisturbed
<1>. QED
  BY <1>2, HeldInvariant, PTL

-----------------------------------------------------------------------------
(* What the branch below a block adds up to *)

(* f starts at a below the branch, and next says what each block makes of  *)
(* the value its parent has.                                               *)
BranchSteps(f, X, a, next, S) ==
  /\ f \in [S -> X]
  /\ \A b \in S : f[b] = next[b][IF Parent[b] \in Block THEN f[Parent[b]] ELSE a]

LEMMA ParentUpTo ==
  ASSUME NEW n \in Nat, NEW b \in UpTo(n), Parent[b] \in Block
  PROVE  n # 0 /\ Parent[b] \in UpTo(n - 1) /\ Parent[b] \in UpTo(n)
<1>1. b \in Block /\ HeightOf[b] \in Nat /\ HeightOf[b] <= n /\ HeightOf[Parent[b]] \in Nat
  BY HeightType DEF UpTo
<1>2. HeightOf[b] = HeightOf[Parent[b]] + 1
  BY <1>1, ParentHeight
<1>3. n # 0 /\ HeightOf[Parent[b]] <= n - 1 /\ HeightOf[Parent[b]] <= n
  BY <1>1, <1>2
<1>. QED
  BY <1>3 DEF UpTo

LEMMA BranchStepsUpTo ==
  ASSUME NEW X, NEW a \in X, NEW next \in [Block -> [X -> X]]
  PROVE  \A n \in Nat : \E f : BranchSteps(f, X, a, next, UpTo(n))
<1> DEFINE Bad == {n \in Nat : ~ \E f : BranchSteps(f, X, a, next, UpTo(n))}
<1> SUFFICES ASSUME Bad # {}
             PROVE  FALSE
  OBVIOUS
<1>1. PICK n \in Bad : \A m \in Bad : n <= m
  <2>1. Bad \in SUBSET Nat
    OBVIOUS
  <2> HIDE DEF Bad
  <2>. QED
    BY <2>1, LeastNat
<1> DEFINE Good(f) == \A b \in UpTo(n) : Parent[b] \in Block => f[Parent[b]] \in X
           g(f) == [b \in UpTo(n) |-> next[b][IF Parent[b] \in Block THEN f[Parent[b]] ELSE a]]
<1>2. n \in Nat /\ UpTo(n) \subseteq Block
  BY DEF UpTo
<1>3. ASSUME NEW f, Good(f)
      PROVE  g(f) \in [UpTo(n) -> X]
  <2>1. ASSUME NEW b \in UpTo(n)
        PROVE  next[b][IF Parent[b] \in Block THEN f[Parent[b]] ELSE a] \in X
    <3>1. next[b] \in [X -> X]
      BY <1>2
    <3>2. (IF Parent[b] \in Block THEN f[Parent[b]] ELSE a) \in X
      BY <1>3
    <3>. QED
      BY <3>1, <3>2
  <2>. QED
    BY <2>1
<1>4. CASE n = 0
  <2>1. \A b \in UpTo(0) : Parent[b] \notin Block
    BY ParentUpTo
  <2>2. g([b \in {} |-> b]) \in [UpTo(n) -> X]
    <3>1. Good([b \in {} |-> b])
      BY <2>1, <1>4
    <3> HIDE DEF g, Good
    <3>. QED
      BY <3>1, <1>3
  <2>3. BranchSteps(g([b \in {} |-> b]), X, a, next, UpTo(n))
    BY <2>1, <2>2, <1>4 DEF BranchSteps
  <2>. QED
    BY <2>3
<1>5. CASE n # 0
  <2>1. n - 1 \in Nat /\ n - 1 \notin Bad
    <3>1. n - 1 \in Nat /\ ~(n <= n - 1)
      BY <1>2, <1>5
    <3> HIDE DEF Bad
    <3>. QED
      BY <3>1, <1>1
  <2>2. PICK f : BranchSteps(f, X, a, next, UpTo(n - 1))
    BY <2>1
  <2>3. \A b \in UpTo(n) : Parent[b] \in Block => Parent[b] \in UpTo(n - 1) /\ Parent[b] \in UpTo(n)
    BY <1>2, ParentUpTo
  <2>4. g(f) \in [UpTo(n) -> X]
    <3>1. Good(f)
      BY <2>2, <2>3 DEF BranchSteps
    <3> HIDE DEF g, Good
    <3>. QED
      BY <3>1, <1>3
  <2>5. ASSUME NEW c \in UpTo(n - 1)
        PROVE  c \in UpTo(n) /\ g(f)[c] = f[c]
    <3>1. c \in UpTo(n)
      <4>1. c \in Block /\ HeightOf[c] \in Nat /\ HeightOf[c] <= n - 1
        BY HeightType DEF UpTo
      <4>2. HeightOf[c] <= n
        BY <4>1, <1>2
      <4>. QED
        BY <4>1, <4>2 DEF UpTo
    <3>. QED
      BY <3>1, <2>2 DEF BranchSteps
  <2>6. ASSUME NEW b \in UpTo(n)
        PROVE  g(f)[b] = next[b][IF Parent[b] \in Block THEN g(f)[Parent[b]] ELSE a]
    <3>1. Parent[b] \in Block => g(f)[Parent[b]] = f[Parent[b]]
      <4> HIDE DEF g
      <4>. QED
        BY <2>3, <2>5
    <3>2. g(f)[b] = next[b][IF Parent[b] \in Block THEN f[Parent[b]] ELSE a]
      OBVIOUS
    <3> HIDE DEF g
    <3>. QED
      BY <3>1, <3>2
  <2>7. BranchSteps(g(f), X, a, next, UpTo(n))
    <3> HIDE DEF g
    <3>. QED
      BY <2>4, <2>6 DEF BranchSteps
  <2>. QED
    BY <2>7, <1>1
<1>. QED
  BY <1>4, <1>5

LEMMA BranchStepsAgree ==
  ASSUME NEW X, NEW a, NEW next, NEW n \in Nat, NEW m \in Nat, n <= m, NEW f, NEW g,
         BranchSteps(f, X, a, next, UpTo(n)), BranchSteps(g, X, a, next, UpTo(m))
  PROVE  \A b \in UpTo(n) : f[b] = g[b]
<1> DEFINE S == {b \in Block : b \in UpTo(n) => f[b] = g[b]}
<1>1. ASSUME NEW b \in Block, Parent[b] \in Block => Parent[b] \in S
      PROVE  b \in S
  <2> SUFFICES ASSUME b \in UpTo(n)
               PROVE  f[b] = g[b]
    OBVIOUS
  <2>1. b \in UpTo(m)
    BY HeightType DEF UpTo
  <2>2. Parent[b] \in Block => f[Parent[b]] = g[Parent[b]]
    BY <1>1, ParentUpTo
  <2>. QED
    BY <2>1, <2>2 DEF BranchSteps
<1>2. Block \subseteq S
  <2> HIDE DEF S
  <2>. QED
    BY <1>1, ChainInduction
<1>. QED
  BY <1>2 DEF UpTo

LEMMA BranchStepsExist ==
  ASSUME NEW X, NEW a \in X, NEW next \in [Block -> [X -> X]]
  PROVE  \E f : BranchSteps(f, X, a, next, Block)
<1> DEFINE F(n) == CHOOSE f : BranchSteps(f, X, a, next, UpTo(n))
           C == [b \in Block |-> F(HeightOf[b])[b]]
<1>1. \A n \in Nat : BranchSteps(F(n), X, a, next, UpTo(n))
  BY BranchStepsUpTo
<1> HIDE DEF F
<1>2. ASSUME NEW b \in Block
      PROVE  C[b] \in X /\ C[b] = next[b][IF Parent[b] \in Block THEN C[Parent[b]] ELSE a]
  <2>1. HeightOf[b] \in Nat /\ b \in UpTo(HeightOf[b])
    BY HeightType DEF UpTo
  <2>2. /\ C[b] \in X
        /\ C[b] = next[b][IF Parent[b] \in Block THEN F(HeightOf[b])[Parent[b]] ELSE a]
    BY <2>1, <1>1 DEF BranchSteps
  <2>3. ASSUME Parent[b] \in Block
        PROVE  C[Parent[b]] = F(HeightOf[b])[Parent[b]]
    <3> DEFINE p == Parent[b]
    <3>1. HeightOf[p] \in Nat /\ HeightOf[p] <= HeightOf[b] /\ p \in UpTo(HeightOf[p])
      BY <2>3, HeightType, ParentHeight, ParentBelow DEF UpTo
    <3>2. F(HeightOf[p])[p] = F(HeightOf[b])[p]
      <4> DEFINE f == F(HeightOf[p])
                 h == F(HeightOf[b])
      <4>1. /\ BranchSteps(f, X, a, next, UpTo(HeightOf[p]))
            /\ BranchSteps(h, X, a, next, UpTo(HeightOf[b]))
        BY <3>1, <2>1, <1>1
      <4> HIDE DEF f, h, p
      <4>2. \A c \in UpTo(HeightOf[p]) : f[c] = h[c]
        BY <4>1, <3>1, <2>1, BranchStepsAgree
      <4>. QED
        BY <4>2, <3>1 DEF f, h
    <3>. QED
      BY <3>2, <2>3
  <2> HIDE DEF C
  <2>. QED
    BY <2>2, <2>3
<1>3. C \in [Block -> X]
  <2>1. C = [b \in Block |-> C[b]]
    OBVIOUS
  <2> HIDE DEF C
  <2>. QED
    BY <2>1, <1>2
<1> HIDE DEF C
<1>. QED
  BY <1>2, <1>3 DEF BranchSteps

-----------------------------------------------------------------------------
(* The first k of the sequences, joined. *)
Joined(ss, k) == FlattenSeq(SubSeq(ss, 1, k))

LEMMA JoinedType ==
  ASSUME NEW S, NEW ss \in Seq(Seq(S)), NEW k \in 0..Len(ss)
  PROVE  /\ SubSeq(ss, 1, k) \in Seq(Seq(S)) /\ Len(SubSeq(ss, 1, k)) = k
         /\ \A i \in 1..k : SubSeq(ss, 1, k)[i] = ss[i]
         /\ Joined(ss, k) \in Seq(S)
<1> DEFINE Q == Seq(S)
<1>1. /\ SubSeq(ss, 1, k) \in Seq(Q) /\ Len(SubSeq(ss, 1, k)) = k
      /\ \A i \in 1..k : SubSeq(ss, 1, k)[i] = ss[i]
  <2>1. ss \in Seq(Q)
    OBVIOUS
  <2> HIDE DEF Q
  <2>. QED
    BY <2>1
<1>2. Joined(ss, k) \in Seq(S)
  BY <1>1, FlattenType DEF Joined
<1>. QED
  BY <1>1, <1>2

LEMMA JoinedGrows ==
  ASSUME NEW S, NEW ss \in Seq(Seq(S)), NEW k \in 1..Len(ss)
  PROVE  Joined(ss, k) = Joined(ss, k - 1) \o ss[k]
<1> DEFINE u == SubSeq(ss, 1, k)
           w == SubSeq(ss, 1, k - 1)
<1>1. k \in Nat /\ k # 0 /\ k \in 0..Len(ss) /\ k - 1 \in 0..Len(ss) /\ ss[k] \in Seq(S)
  OBVIOUS
<1>2. u \in Seq(Seq(S)) /\ Len(u) = k /\ \A i \in 1..k : u[i] = ss[i]
  BY <1>1, JoinedType
<1>3. w \in Seq(Seq(S)) /\ Len(w) = k - 1 /\ \A i \in 1..(k - 1) : w[i] = ss[i]
  BY <1>1, JoinedType
<1>4. Joined(ss, k) = FlattenSeq(u) /\ Joined(ss, k - 1) = FlattenSeq(w)
  BY DEF Joined
<1> HIDE DEF u, w
<1>5. PICK h : /\ FlattenSeq(u) = h[k]
               /\ \A i \in 1..k :
                    h[i] \in Seq(S) /\ h[i] = IF i = 1 THEN u[i] ELSE h[i - 1] \o u[i]
  <2>1. Len(u) # 0
    BY <1>1, <1>2
  <2>2. PICK h : Flattens(h, S, u)
    BY <2>1, <1>2, FlattenSteps
  <2>. QED
    BY <2>2, <1>2 DEF Flattens
<1>6. CASE k = 1
  <2>1. w = <<>> /\ FlattenSeq(w) = <<>>
    <3>1. w = <<>>
      BY <1>3, <1>6
    <3>. QED
      BY <3>1 DEF FlattenSeq
  <2>2. h[k] = ss[k]
    BY <1>2, <1>5, <1>6
  <2>3. <<>> \o ss[k] = ss[k]
    <3> DEFINE s == ss[k]
    <3>1. s \in Seq(S)
      BY <1>1
    <3> HIDE DEF s
    <3>2. <<>> \o s = s
      BY <3>1
    <3>. QED
      BY <3>2 DEF s
  <2>4. Joined(ss, k) = ss[k] /\ Joined(ss, k - 1) = <<>>
    BY <2>1, <2>2, <1>4, <1>5
  <2>. QED
    BY <2>3, <2>4
<1>7. CASE k # 1
  <2>1. k - 1 \in Nat /\ k - 1 # 0 /\ k - 1 \in 1..k
    BY <1>1, <1>7
  <2>2. PICK g : /\ FlattenSeq(w) = g[k - 1]
                 /\ \A i \in 1..(k - 1) :
                      g[i] \in Seq(S) /\ g[i] = IF i = 1 THEN w[i] ELSE g[i - 1] \o w[i]
    <3>1. Len(w) # 0
      BY <2>1, <1>3
    <3>2. PICK g : Flattens(g, S, w)
      BY <3>1, <1>3, FlattenSteps
    <3>. QED
      BY <3>2, <1>3 DEF Flattens
  <2> DEFINE Good == {i \in 0..(k - 1) : i = 0 \/ h[i] = g[i]}
  <2>3. Good \in SUBSET (0..(k - 1)) /\ 0 \in Good
    BY <2>1
  <2>4. ASSUME NEW i \in 1..(k - 1), i - 1 \in Good
        PROVE  i \in Good
    <3>1. i \in 1..k /\ i \in 0..(k - 1) /\ u[i] = w[i]
      <4>1. i \in 1..k /\ i \in 0..(k - 1)
        BY <1>1
      <4>. QED
        BY <4>1, <1>2, <1>3
    <3>2. h[i] = IF i = 1 THEN u[i] ELSE h[i - 1] \o u[i]
      BY <3>1, <1>5
    <3>3. g[i] = IF i = 1 THEN w[i] ELSE g[i - 1] \o w[i]
      BY <2>2
    <3>4. i # 1 => h[i - 1] = g[i - 1]
      BY <2>4
    <3>5. h[i] = g[i]
      BY <3>1, <3>2, <3>3, <3>4
    <3>. QED
      BY <3>1, <3>5
  <2>5. k - 1 \in Good
    <3> DEFINE m == k - 1
    <3>1. m \in Nat /\ Good \in SUBSET (0..m) /\ \A i \in 1..m : i - 1 \in Good => i \in Good
      BY <2>1, <2>3, <2>4
    <3> HIDE DEF m, Good
    <3>2. m \in Good
      BY <3>1, <2>3, StepsKeep
    <3>. QED
      BY <3>2 DEF m
  <2>6. h[k - 1] = g[k - 1]
    BY <2>1, <2>5
  <2>7. k \in 1..k /\ u[k] = ss[k]
    BY <1>1, <1>2
  <2>8. h[k] = h[k - 1] \o ss[k]
    BY <2>7, <1>5, <1>7
  <2>. QED
    BY <2>2, <2>6, <2>8, <1>4, <1>5
<1>. QED
  BY <1>6, <1>7

(* Where the elements of the t-th sequence are after joining. *)
LEMMA FlattenPlaces ==
  ASSUME NEW S, NEW ss \in Seq(Seq(S)), NEW t \in 1..Len(ss), NEW j \in 1..Len(ss[t])
  PROVE  /\ Len(Joined(ss, t - 1)) \in Nat
         /\ Len(Joined(ss, t - 1)) + j \in 1..Len(FlattenSeq(ss))
         /\ FlattenSeq(ss)[Len(Joined(ss, t - 1)) + j] = ss[t][j]
<1> DEFINE n == Len(ss)
           p == Len(Joined(ss, t - 1))
           Placed(s) == p + j \in 1..Len(s) /\ s[p + j] = ss[t][j]
           Good == {k \in 0..n : t <= k => Placed(Joined(ss, k))}
<1>1. /\ n \in Nat /\ t \in Nat /\ t # 0 /\ t <= n /\ t - 1 \in 0..n
      /\ \A k \in 1..n : ss[k] \in Seq(S)
  OBVIOUS
<1>2. \A k \in 0..n : Joined(ss, k) \in Seq(S)
  BY JoinedType
<1>3. p \in Nat /\ j \in Nat /\ j # 0 /\ j <= Len(ss[t]) /\ ss[t] \in Seq(S)
  <2>1. Joined(ss, t - 1) \in Seq(S)
    BY <1>1, <1>2
  <2>2. ss[t] \in Seq(S)
    BY <1>1
  <2>. QED
    BY <2>1, <2>2
<1>4. ASSUME NEW s \in Seq(S), NEW r \in Seq(S), Placed(s)
      PROVE  Placed(s \o r)
  <2>1. p + j \in 1..Len(s) /\ s[p + j] = ss[t][j]
    BY <1>4
  <2> DEFINE q == p + j
  <2>2. q \in 1..Len(s)
    BY <2>1
  <2> HIDE DEF q
  <2>3. q \in 1..Len(s \o r) /\ (s \o r)[q] = s[q]
    BY <2>2
  <2>. QED
    BY <2>1, <2>3 DEF q
<1>5. ASSUME NEW s \in Seq(S), Len(s) = p
      PROVE  Placed(s \o ss[t])
  <2> DEFINE r == ss[t]
  <2>1. r \in Seq(S) /\ j \in 1..Len(r)
    BY <1>3
  <2> HIDE DEF r, p
  <2>2. Len(s) \in Nat /\ Len(r) \in Nat /\ Len(s \o r) = Len(s) + Len(r)
    BY <2>1
  <2>3. (s \o r)[Len(s) + j] = r[j]
    BY <2>1
  <2>4. Len(s) + j \in 1..Len(s \o r)
    BY <2>1, <2>2
  <2>. QED
    BY <1>5, <2>3, <2>4 DEF r
<1>6. Good \in SUBSET (0..n) /\ 0 \in Good
  BY <1>1
<1>7. ASSUME NEW k \in 1..n, k - 1 \in Good
      PROVE  k \in Good
  <2>1. k \in 0..n /\ k - 1 \in 0..n /\ Joined(ss, k) = Joined(ss, k - 1) \o ss[k]
    <3>1. k \in 0..n /\ k - 1 \in 0..n
      BY <1>1
    <3>2. k \in 1..Len(ss)
      OBVIOUS
    <3>. QED
      BY <3>1, <3>2, JoinedGrows
  <2>2. Joined(ss, k - 1) \in Seq(S) /\ ss[k] \in Seq(S)
    BY <2>1, <1>1, <1>2
  <2>3. CASE t = k
    <3>1. Len(Joined(ss, k - 1)) = p
      BY <2>3
    <3> HIDE DEF Placed, p
    <3>2. Placed(Joined(ss, k))
      BY <3>1, <2>1, <2>2, <2>3, <1>5
    <3>. QED
      BY <3>2, <2>1
  <2>4. CASE t <= k - 1
    <3> HIDE DEF Placed
    <3>1. Placed(Joined(ss, k - 1))
      BY <2>4, <1>7
    <3>2. Placed(Joined(ss, k))
      BY <3>1, <2>1, <2>2, <1>4
    <3>. QED
      BY <3>2, <2>1
  <2>5. CASE ~(t <= k)
    BY <2>1, <2>5
  <2>. QED
    BY <1>1, <2>3, <2>4, <2>5
<1>8. n \in Good
  <2> HIDE DEF Good, n
  <2>. QED
    BY <1>1, <1>6, <1>7, StepsKeep
<1>9. Joined(ss, n) = FlattenSeq(ss)
  <2> DEFINE Q == Seq(S)
  <2>1. ss \in Seq(Q)
    OBVIOUS
  <2> HIDE DEF Q
  <2>2. SubSeq(ss, 1, Len(ss)) = ss
    BY <2>1
  <2>. QED
    BY <2>2 DEF Joined
<1>10. Placed(Joined(ss, n))
  <2> HIDE DEF Placed
  <2>. QED
    BY <1>1, <1>8
<1>. QED
  BY <1>3, <1>9, <1>10

(* If every value of the field is valid, all are collected. *)
LEMMA CollectedAll ==
  ASSUME NEW S, NEW actions \in Seq(S), NEW field, NEW valid,
         \A k \in 1..Len(actions) : actions[k][field] \in valid
  PROVE  /\ Collected(actions, field, valid) \in Seq(valid)
         /\ Len(Collected(actions, field, valid)) = Len(actions)
         /\ \A k \in 1..Len(actions) : Collected(actions, field, valid)[k] = actions[k][field]
<1> DEFINE n == Len(actions)
           V == {actions[k][field] : k \in 1..n} \cap valid
           All(s, i) == Len(s) = i /\ \A k \in 1..i : s[k] = actions[k][field]
<1>1. n \in Nat /\ \A k \in 1..n : actions[k][field] \in V /\ actions[k][field] \in valid
  OBVIOUS
<1>2. PICK h : /\ Collected(actions, field, valid) = h[n]
               /\ \A i \in 0..n :
                    /\ h[i] \in Seq(V)
                    /\ h[i] = IF i = 0 THEN <<>>
                              ELSE IF actions[i][field] \in valid
                                   THEN Append(h[i - 1], actions[i][field])
                              ELSE h[i - 1]
  BY CollectedSteps
<1> DEFINE Good == {i \in 0..n : All(h[i], i)}
<1>3. Good \in SUBSET (0..n) /\ 0 \in Good
  <2>1. 0 \in 0..n /\ h[0] = <<>>
    <3> HIDE DEF V, n
    <3>1. 0 \in 0..n
      BY <1>1
    <3>. QED
      BY <3>1, <1>2
  <2>. QED
    BY <2>1
<1>4. ASSUME NEW i \in 1..n, i - 1 \in Good
      PROVE  i \in Good
  <2>1. i \in 0..n /\ i # 0 /\ i - 1 \in 0..n /\ i - 1 \in Nat
    BY <1>1
  <2>2. h[i - 1] \in Seq(V) /\ h[i] = Append(h[i - 1], actions[i][field])
    <3> HIDE DEF V, n
    <3>. QED
      BY <2>1, <1>1, <1>2
  <2>3. Len(h[i - 1]) = i - 1 /\ \A k \in 1..(i - 1) : h[i - 1][k] = actions[k][field]
    BY <1>4
  <2> DEFINE s == h[i - 1]
             v == actions[i][field]
  <2>4. v \in V
    BY <1>1
  <2>5. Len(Append(s, v)) = i /\ \A k \in 1..i : Append(s, v)[k] = actions[k][field]
    <3>1. s \in Seq(V) /\ Len(s) = i - 1 /\ \A k \in 1..(i - 1) : s[k] = actions[k][field]
      BY <2>2, <2>3
    <3>2. v = actions[i][field]
      OBVIOUS
    <3> HIDE DEF s, v, V, n
    <3>3. Len(Append(s, v)) = i /\ Append(s, v)[i] = v
      BY <3>1, <2>1, <2>4
    <3>4. \A k \in 1..(i - 1) : Append(s, v)[k] = s[k]
      BY <3>1, <2>4
    <3>5. \A k \in 1..i : k = i \/ k \in 1..(i - 1)
      BY <2>1
    <3>. QED
      BY <3>1, <3>2, <3>3, <3>4, <3>5
  <2>. QED
    BY <2>1, <2>2, <2>5
<1>5. n \in Good
  <2> HIDE DEF Good, n
  <2>. QED
    BY <1>1, <1>3, <1>4, StepsKeep
<1>6. h[n] \in Seq(valid)
  <2>1. h[n] \in Seq(V) /\ V \subseteq valid
    <3>1. n \in 0..n
      BY <1>1
    <3>. QED
      BY <3>1, <1>2
  <2> HIDE DEF V
  <2>. QED
    BY <2>1
<1>. QED
  BY <1>2, <1>5, <1>6

-----------------------------------------------------------------------------
(* The commitment tree before and after a block. *)
TreeBelow(b) == IF Parent[b] \in Block THEN TreeOf[Parent[b]] ELSE <<>>
TreeRec(f) ==
  f = [b \in Block |-> (IF Parent[b] \in Block THEN f[Parent[b]] ELSE <<>>)
                         \o ExtractCommitments(b)]

(* The commitments of a block are those of its actions, one each. *)
LEMMA CommitmentsOf ==
  ASSUME NEW b \in Block
  PROVE  /\ TxsOf[b] \in Seq(Seq(ActionsIn(TxsOf[b])))
         /\ Actions(b) \in Seq(ActionsIn(TxsOf[b]))
         /\ ExtractCommitments(b) \in Seq(Commitment)
         /\ Len(ExtractCommitments(b)) = Len(Actions(b))
         /\ \A k \in 1..Len(Actions(b)) : ExtractCommitments(b)[k] = Actions(b)[k].cmx
<1>1. TxsOf[b] \in Seq(Seq(ActionsIn(TxsOf[b])))
  BY ParserAssumption
<1>2. Actions(b) \in Seq(ActionsIn(TxsOf[b]))
  BY <1>1, FlattenType DEF Actions
<1>3. \A k \in 1..Len(Actions(b)) : Actions(b)[k]["cmx"] \in Commitment
  <2>1. \A k \in 1..Len(Actions(b)) : Actions(b)[k] \in ActionsIn(TxsOf[b])
    BY <1>2
  <2>. QED
    BY <2>1, ConsensusAssumption
<1>. QED
  BY <1>1, <1>2, <1>3, CollectedAll DEF ExtractCommitments

LEMMA TreeOfBlock ==
  \A b \in Block : /\ TreeBelow(b) \in Seq(Commitment)
                   /\ TreeOf[b] \in Seq(Commitment)
                   /\ TreeOf[b] = TreeBelow(b) \o ExtractCommitments(b)
<1> DEFINE X == Seq(Commitment)
           none == <<>>
           next == [b \in Block |-> [x \in X |-> x \o ExtractCommitments(b)]]
<1>1. none \in X /\ next \in [Block -> [X -> X]]
  BY CommitmentsOf
<1>2. PICK f : BranchSteps(f, X, none, next, Block)
  <2> HIDE DEF X, none, next
  <2>. QED
    BY <1>1, BranchStepsExist
<1>3. ASSUME NEW b \in Block
      PROVE  f[b] = (IF Parent[b] \in Block THEN f[Parent[b]] ELSE <<>>) \o ExtractCommitments(b)
  <2> DEFINE x == IF Parent[b] \in Block THEN f[Parent[b]] ELSE none
  <2>1. f[b] = next[b][x]
    <3> HIDE DEF X, next, none
    <3>. QED
      BY <1>2 DEF BranchSteps
  <2>2. x \in X
    <3> HIDE DEF X, next, none
    <3>. QED
      BY <1>1, <1>2 DEF BranchSteps
  <2>3. next[b][x] = x \o ExtractCommitments(b)
    <3> HIDE DEF x, X
    <3>. QED
      BY <2>2
  <2>. QED
    BY <2>1, <2>3
<1>4. TreeRec(f)
  <2>1. f = [b \in Block |-> f[b]]
    BY <1>2 DEF BranchSteps
  <2>. QED
    BY <1>3, <2>1 DEF TreeRec
<1>5. TreeRec(TreeOf)
  <2>1. TreeOf = CHOOSE g : TreeRec(g)
    BY DEF TreeOf, TreeRec
  <2>. QED
    BY <1>4, <2>1
<1>6. \A b \in Block : TreeOf[b] = TreeBelow(b) \o ExtractCommitments(b)
  BY <1>5 DEF TreeRec, TreeBelow
<1> DEFINE S == {b \in Block : TreeOf[b] \in X}
<1>7. ASSUME NEW b \in Block, Parent[b] \in Block => Parent[b] \in S
      PROVE  TreeBelow(b) \in X /\ b \in S
  <2>1. TreeBelow(b) \in X
    BY <1>7 DEF TreeBelow
  <2>2. ExtractCommitments(b) \in X
    BY CommitmentsOf
  <2>3. TreeBelow(b) \o ExtractCommitments(b) \in X
    BY <2>1, <2>2
  <2>. QED
    BY <2>1, <2>3, <1>6
<1>8. Block \subseteq S
  <2>1. \A b \in Block : (Parent[b] \in Block => Parent[b] \in S) => b \in S
    BY <1>7
  <2> HIDE DEF S
  <2>. QED
    BY <2>1, ChainInduction
<1>. QED
  BY <1>6, <1>7, <1>8

-----------------------------------------------------------------------------
(* Where an entry says the outputs of its transaction are *)

SizeKnown(b, prior) ==
  \/ OrchardTreeSize(b) # {}
  \/ prior # {} /\ Parent[b] \in Block /\ prior = OrchardTreeSize(Parent[b])

LEMMA SizeBefore ==
  ASSUME NEW b \in Block, NEW prior, SizeKnown(b, prior)
  PROVE  TreeSizeBeforeBlock(b, prior) = {Len(TreeBelow(b))}
<1>1. Len(TreeBelow(b)) \in Nat /\ Len(Actions(b)) \in Nat
  BY TreeOfBlock, CommitmentsOf
<1>2. Len(TreeOf[b]) = Len(TreeBelow(b)) + Len(Actions(b))
  <2> DEFINE x == TreeBelow(b)
             y == ExtractCommitments(b)
  <2>1. x \in Seq(Commitment) /\ y \in Seq(Commitment) /\ TreeOf[b] = x \o y
    BY TreeOfBlock, CommitmentsOf
  <2>2. Len(y) = Len(Actions(b))
    BY CommitmentsOf
  <2> HIDE DEF x, y
  <2>3. Len(x \o y) = Len(x) + Len(y)
    BY <2>1
  <2>. QED
    BY <2>1, <2>2, <2>3 DEF x
<1>3. CASE OrchardTreeSize(b) # {}
  <2>1. OrchardTreeSize(b) = {Len(TreeOf[b])}
    BY <1>3, MetadataIsTrue DEF OrchardTreeSize
  <2>2. Len(TreeOf[b]) - Len(Actions(b)) = Len(TreeBelow(b))
    BY <1>1, <1>2
  <2>3. {size - Len(Actions(b)) : size \in OrchardTreeSize(b)} \cap Nat = {Len(TreeBelow(b))}
    BY <1>1, <2>1, <2>2
  <2>. QED
    BY <2>3 DEF TreeSizeBeforeBlock
<1>4. CASE OrchardTreeSize(b) = {}
  <2>1. prior # {} /\ Parent[b] \in Block /\ prior = OrchardTreeSize(Parent[b])
    BY <1>4 DEF SizeKnown
  <2>2. prior = {Len(TreeOf[Parent[b]])}
    BY <2>1, MetadataIsTrue DEF OrchardTreeSize
  <2>3. prior = {Len(TreeBelow(b))}
    BY <2>1, <2>2 DEF TreeBelow
  <2>4. {size - Len(Actions(b)) : size \in OrchardTreeSize(b)} \cap Nat = {}
    BY <1>4
  <2>. QED
    BY <2>3, <2>4 DEF TreeSizeBeforeBlock
<1>. QED
  BY <1>3, <1>4

(* The number of leaves before transaction t of b. *)
LeavesBefore(b, t) == Len(TreeBelow(b)) + Len(Joined(TxsOf[b], t - 1))

LEMMA FirstOutput ==
  ASSUME NEW b \in Block, NEW prior, SizeKnown(b, prior), NEW t
  PROVE  FirstOutputPosition(b, t, prior) = LeavesBefore(b, t)
<1>1. TreeSizeBeforeBlock(b, prior) = {Len(TreeBelow(b))}
  BY SizeBefore
<1>2. (CHOOSE size \in TreeSizeBeforeBlock(b, prior) : TRUE) = Len(TreeBelow(b))
  BY <1>1
<1>. QED
  BY <1>1, <1>2 DEF FirstOutputPosition, LeavesBefore, Joined

(* The j-th output of transaction t is where that number says. *)
LEMMA OutputPlaced ==
  ASSUME NEW b \in Block, NEW t \in DOMAIN TxsOf[b], NEW j \in 1..Len(TxsOf[b][t])
  PROVE  /\ LeavesBefore(b, t) \in Nat
         /\ LeavesBefore(b, t) + j \in 1..Len(TreeOf[b])
         /\ TreeOf[b][LeavesBefore(b, t) + j] = TxsOf[b][t][j].cmx
<1> DEFINE S == ActionsIn(TxsOf[b])
           txs == TxsOf[b]
           q == Len(Joined(txs, t - 1))
           x == TreeBelow(b)
           y == ExtractCommitments(b)
<1>1. txs \in Seq(Seq(S)) /\ t \in 1..Len(txs)
  BY CommitmentsOf
<1>2. q \in Nat /\ q + j \in 1..Len(Actions(b)) /\ Actions(b)[q + j] = txs[t][j]
  <2> HIDE DEF S
  <2>1. j \in 1..Len(txs[t])
    OBVIOUS
  <2>2. Actions(b) = FlattenSeq(txs)
    BY DEF Actions
  <2> HIDE DEF txs
  <2>. QED
    BY <1>1, <2>1, <2>2, FlattenPlaces DEF txs
<1>3. /\ x \in Seq(Commitment) /\ y \in Seq(Commitment) /\ TreeOf[b] = x \o y
      /\ Len(y) = Len(Actions(b)) /\ y[q + j] = txs[t][j].cmx
  <2> HIDE DEF q, txs
  <2>. QED
    BY <1>2, TreeOfBlock, CommitmentsOf
<1> DEFINE k == q + j
<1>4. k \in 1..Len(y) /\ k = q + j
  BY <1>2, <1>3
<1> HIDE DEF x, y, k
<1>5. /\ Len(x) \in Nat /\ Len(x) + k \in 1..Len(x \o y) /\ (x \o y)[Len(x) + k] = y[k]
  <2>1. Len(x) \in Nat /\ Len(y) \in Nat /\ Len(x \o y) = Len(x) + Len(y)
    <3>1. x \in Seq(Commitment) /\ y \in Seq(Commitment)
      BY <1>3
    <3>. QED
      BY <3>1
  <2>2. (x \o y)[Len(x) + k] = y[k]
    BY <1>3, <1>4
  <2>. QED
    BY <2>1, <2>2, <1>4
<1>6. LeavesBefore(b, t) = Len(x) + q
  BY DEF LeavesBefore, x
<1>7. Len(x) + q \in Nat /\ Len(x) + q + j = Len(x) + k
  <2> HIDE DEF q
  <2>1. j \in Nat
    OBVIOUS
  <2>. QED
    BY <2>1, <1>2, <1>4, <1>5
<1>. QED
  BY <1>3, <1>4, <1>5, <1>6, <1>7

LEMMA CountTruncated ==
  ASSUME NEW n \in Nat
  PROVE  /\ n % CountModulus \in 0..n
         /\ n < CountModulus => n % CountModulus = n
<1>1. CountModulus \in Nat /\ CountModulus > 0
  BY ParserAssumption
<1>. QED
  BY <1>1

LEMMA EntryLocates ==
  ASSUME NEW b \in Block, NEW prior, SizeKnown(b, prior),
         NEW n \in NullifiersWithMeta(b, prior), NEW t \in DOMAIN TxsOf[b],
         \E i \in DOMAIN TxsOf[b][t] : TxsOf[b][t][i].nf = n.nf
  PROVE  /\ Located(n) \subseteq OutputPositions(b, TxsOf[b][t])
         /\ Len(TxsOf[b][t]) < CountModulus => Located(n) = OutputPositions(b, TxsOf[b][t])
<1> DEFINE tx == TxsOf[b][t]
           l == Len(tx)
           p == LeavesBefore(b, t)
           m == Len(TreeOf[b])
<1>1. l \in Nat /\ DOMAIN tx = 1..l /\ m \in Nat
  <2>1. TxsOf[b] \in Seq(Seq(ActionsIn(TxsOf[b])))
    BY CommitmentsOf
  <2>2. tx \in Seq(ActionsIn(TxsOf[b]))
    BY <2>1
  <2>3. TreeOf[b] \in Seq(Commitment)
    BY TreeOfBlock
  <2>. QED
    BY <2>2, <2>3
<1>2. n.first = p /\ n.count = l % CountModulus
  <2>1. PICK u \in DOMAIN TxsOf[b] :
          \E i \in {j \in DOMAIN TxsOf[b][u] : TxsOf[b][u][j].nf \in Nullifier} :
            n = [nf |-> TxsOf[b][u][i].nf,
                 first |-> FirstOutputPosition(b, u, prior),
                 count |-> Len(TxsOf[b][u]) % CountModulus]
    BY DEF NullifiersWithMeta
  <2>2. PICK i \in DOMAIN TxsOf[b][u] :
          /\ TxsOf[b][u][i].nf \in Nullifier /\ TxsOf[b][u][i].nf = n.nf
          /\ n.first = FirstOutputPosition(b, u, prior)
          /\ n.count = Len(TxsOf[b][u]) % CountModulus
    BY <2>1
  <2>3. u = t
    BY <2>2, ConsensusAssumption
  <2>. QED
    BY <2>2, <2>3, FirstOutput
<1>3. \A j \in 1..l : p \in Nat /\ p + j \in 1..m /\ TreeOf[b][p + j] = tx[j].cmx
  BY OutputPlaced
<1>4. l % CountModulus \in 0..l /\ (l < CountModulus => l % CountModulus = l)
  BY <1>1, CountTruncated
<1> DEFINE c == l % CountModulus
<1>5. Located(n) = p..(p + c - 1)
  BY <1>2 DEF Located
<1>6. OutputPositions(b, tx) = {r \in 0..(m - 1) : \E i \in 1..l : tx[i].cmx = TreeOf[b][r + 1]}
  BY <1>1 DEF OutputPositions
<1>7. p \in Nat
  <2>1. CASE l = 0
    <3>1. FALSE
      BY <2>1, <1>1
    <3>. QED
      BY <3>1
  <2>2. CASE l # 0
    <3>1. 1 \in 1..l
      BY <2>2, <1>1
    <3> HIDE DEF l, p, m
    <3>. QED
      BY <3>1, <1>3
  <2>. QED
    BY <2>1, <2>2
<1>8. \A i, k \in 1..m : TreeOf[b][i] = TreeOf[b][k] => i = k
  <2>1. DOMAIN TreeOf[b] = 1..m
    BY TreeOfBlock
  <2>. QED
    BY <2>1, ConsensusAssumption DEF IsInjective
<1> HIDE DEF tx, l, p, m, c
<1>9. ASSUME NEW r \in p..(p + c - 1)
      PROVE  r \in 0..(m - 1) /\ \E i \in 1..l : tx[i].cmx = TreeOf[b][r + 1]
  <2> DEFINE j == r - p + 1
  <2>1. c \in 0..l
    BY <1>4 DEF c
  <2>2. j \in 1..l /\ p + j = r + 1 /\ r \in Int
    BY <2>1, <1>1, <1>7
  <2> HIDE DEF j
  <2>3. p + j \in 1..m /\ TreeOf[b][p + j] = tx[j].cmx
    BY <2>2, <1>3
  <2>4. r \in 0..(m - 1)
    BY <2>2, <2>3, <1>1
  <2>. QED
    BY <2>2, <2>3, <2>4
<1>10. ASSUME NEW r \in 0..(m - 1), NEW i \in 1..l, tx[i].cmx = TreeOf[b][r + 1], l < CountModulus
       PROVE  r \in p..(p + c - 1)
  <2>1. p + i \in 1..m /\ TreeOf[b][p + i] = TreeOf[b][r + 1]
    BY <1>3, <1>10
  <2>2. r + 1 \in 1..m
    BY <1>1
  <2>3. p + i = r + 1
    BY <2>1, <2>2, <1>8
  <2>4. c = l
    BY <1>4, <1>10 DEF c
  <2>. QED
    BY <2>3, <2>4, <1>1, <1>7
<1>11. Located(n) \subseteq OutputPositions(b, tx)
  BY <1>5, <1>6, <1>9
<1>12. l < CountModulus => OutputPositions(b, tx) \subseteq Located(n)
  BY <1>5, <1>6, <1>10
<1>. QED
  BY <1>11, <1>12 DEF tx, l

(* What the table says of a nullifier names outputs of the transaction     *)
(* that spent it and of no other, with every count of actions, whatever    *)
(* branches the server read and however it was interrupted.                *)
THEOREM SpendLocatesCorrect == ClientSpec => []SpendLocatesItsOutputs
<1>1. ClientBase => SpendLocatesItsOutputs
  <2>1. ASSUME ClientBase
        PROVE  SpendLocatesItsOutputs
    <3>1. live \subseteq Block
      BY <2>1 DEF ClientBase, Base, TablesInv, Whole, Following
    <3>2. ASSUME NEW b \in live, NEW prior \in PriorSizes(b), SizeKnown(b, prior)
          PROVE  \A n \in NullifiersWithMeta(b, prior) : \A t \in DOMAIN TxsOf[b] :
                   (\E i \in DOMAIN TxsOf[b][t] : TxsOf[b][t][i].nf = n.nf) =>
                     /\ Located(n) \subseteq OutputPositions(b, TxsOf[b][t])
                     /\ Len(TxsOf[b][t]) < CountModulus
                        => Located(n) = OutputPositions(b, TxsOf[b][t])
      BY <3>1, <3>2, EntryLocates
    <3>. QED
      BY <3>2 DEF SpendLocatesItsOutputs, SizeKnown
  <2>. QED
    BY <2>1
<1>. QED
  BY <1>1, HeldInvariant, PTL
===============================================================================
