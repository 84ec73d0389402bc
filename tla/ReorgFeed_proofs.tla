--------------------------- MODULE ReorgFeed_proofs ---------------------------
(***************************************************************************)
(* Proofs about the chain tracker and a consumer that obeys it, for every  *)
(* tree of blocks, every depth of the window and every order in which the  *)
(* blocks may come.                                                        *)
(*                                                                         *)
(* The inductive invariant adds to what the run checks that the heights of *)
(* the consumer's blocks ascend: it makes a cut by height a cut at a       *)
(* place, so the window and the consumer are cut at the same block.        *)
(***************************************************************************)
EXTENDS ReorgFeed, FiniteSets, FiniteSetTheorems, SequenceTheorems, TLAPS

KeptAscends ==
  /\ \A i, j \in 1..Len(kept) : i < j => HeightOf[kept[i]] < HeightOf[kept[j]]
  /\ window = <<>> => kept = <<>>

IInv == TypeOK /\ WindowLinked /\ WindowIsNewestKept /\ KeptAscends

-----------------------------------------------------------------------------
(* Blocks and pairs *)

LEMMA HeightType == ASSUME NEW b \in Block PROVE HeightOf[b] \in Nat /\ HeightOf[b] # 0
  BY FeedAssumption

LEMMA ParentHeight ==
  ASSUME NEW b \in Block, Parent[b] \in Block
  PROVE  HeightOf[b] = HeightOf[Parent[b]] + 1
  BY FeedAssumption

LEMMA PairType ==
  ASSUME NEW b \in Block
  PROVE  /\ PairOf(b) \in {PairOf(c) : c \in Block}
         /\ PairOf(b).hash = b
         /\ PairOf(b).height = HeightOf[b]
  BY DEF PairOf, Pair

(* A block of the window is one the consumer keeps, at the same place from *)
(* the end.                                                                *)
LEMMA WindowBlock ==
  ASSUME IInv, NEW i \in 1..Len(window)
  PROVE  /\ Len(window) \in Nat /\ Len(kept) \in Nat
         /\ Len(kept) - Len(window) + i \in 1..Len(kept)
         /\ window[i].hash = kept[Len(kept) - Len(window) + i]
         /\ window[i].hash \in Block
         /\ window[i].height = HeightOf[window[i].hash]
<1>1. Len(window) \in Nat /\ Len(kept) \in Nat /\ Len(window) <= Len(kept)
  BY DEF IInv, TypeOK, WindowIsNewestKept
<1>2. window[i].hash = kept[Len(kept) - Len(window) + i]
  BY DEF IInv, TypeOK, WindowIsNewestKept
<1>3. window[i] \in {PairOf(b) : b \in Block}
  BY DEF IInv, TypeOK
<1>4. PICK b \in Block : window[i] = PairOf(b)
  BY <1>3
<1>. QED
  BY <1>1, <1>2, <1>4, PairType

(* So the heights of the window ascend, and a hash occurs in it once.      *)
LEMMA WindowAscends ==
  ASSUME IInv, NEW i \in 1..Len(window), NEW j \in 1..Len(window), i < j
  PROVE  /\ window[i].height \in Nat /\ window[j].height \in Nat
         /\ window[i].height < window[j].height
         /\ window[i].hash # window[j].hash
<1> DEFINE off == Len(kept) - Len(window)
<1>1. /\ off + i \in 1..Len(kept) /\ off + j \in 1..Len(kept) /\ off + i < off + j
  BY WindowBlock
<1>2. HeightOf[kept[off + i]] < HeightOf[kept[off + j]]
  BY <1>1 DEF IInv, KeptAscends
<1>3. window[i].height = HeightOf[kept[off + i]] /\ window[j].height = HeightOf[kept[off + j]]
  BY WindowBlock
<1>4. window[i].height \in Nat /\ window[j].height \in Nat
  BY WindowBlock, HeightType
<1>5. window[i].height = HeightOf[window[i].hash] /\ window[j].height = HeightOf[window[j].hash]
  BY WindowBlock
<1>. QED
  BY <1>2, <1>3, <1>4, <1>5

-----------------------------------------------------------------------------
(* Cuts by height *)

(* Where a sequence of ascending heights is cut by a height: TruncateTo    *)
(* and RolledBack.  The last place in P is the least of the intervals that *)
(* end at n, since strict inclusion of finite sets is well founded.        *)
LEMMA CutExists ==
  ASSUME NEW n \in Nat, NEW P
  PROVE  \E k \in 0..n : (k # 0 => k \in P) /\ \A i \in (k + 1)..n : i \notin P
<1> DEFINE S == {m \in 0..n : m = 0 \/ m \in P}
           T == {m..n : m \in S}
<1>1. T \subseteq FiniteSubsetsOf(Nat) /\ T # {}
  <2>1. \A m \in 0..n : m..n \in FiniteSubsetsOf(Nat)
    BY FS_Interval DEF FiniteSubsetsOf
  <2>2. 0 \in S
    OBVIOUS
  <2>. QED
    BY <2>1, <2>2
<1>2. IsWellFoundedOn(StrictSubsetOrdering(Nat), FiniteSubsetsOf(Nat))
  BY FS_StrictSubsetOrderingWellFounded
<1>3. \E x \in T : \A y \in T : ~(<<y, x>> \in StrictSubsetOrdering(Nat))
  <2> HIDE DEF T
  <2>. QED
    BY <1>1, <1>2, WFMin
<1>4. PICK k \in S : \A y \in T : ~(<<y, k..n>> \in StrictSubsetOrdering(Nat))
  BY <1>3
<1>5. ASSUME NEW m \in S, k < m
      PROVE  FALSE
  <2>1. m..n \subseteq k..n /\ m..n # k..n /\ m..n \in SUBSET Nat /\ k..n \in SUBSET Nat
    BY <1>5
  <2>2. <<m..n, k..n>> \in StrictSubsetOrdering(Nat)
    BY <2>1 DEF StrictSubsetOrdering
  <2>. QED
    BY <2>2, <1>4
<1>6. \A i \in (k + 1)..n : i \notin S
  BY <1>5
<1>. QED
  BY <1>6

LEMMA TruncateToCut ==
  ASSUME IInv, NEW fork \in Nat
  PROVE  \E n \in 0..Len(window) :
           /\ TruncateTo(window, fork) = SubSeq(window, 1, n)
           /\ n # 0 => window[n].height <= fork
           /\ \A i \in (n + 1)..Len(window) : window[i].height > fork
<1> DEFINE P == {i \in 1..Len(window) : window[i].height <= fork}
           Cut(m) == /\ m # 0 => window[m].height <= fork
                     /\ \A i \in (m + 1)..Len(window) : window[i].height > fork
<1>1. Len(window) \in Nat
  BY DEF IInv, TypeOK
<1>2. PICK k \in 0..Len(window) : (k # 0 => k \in P) /\ \A i \in (k + 1)..Len(window) : i \notin P
  <2> HIDE DEF P
  <2>. QED
    BY <1>1, CutExists
<1>3. ASSUME NEW i \in (k + 1)..Len(window)
      PROVE  window[i].height > fork
  <2>1. i \in 1..Len(window) /\ i \notin P
    BY <1>1, <1>2
  <2>2. window[i].height \in Nat
    BY <2>1, WindowBlock, HeightType
  <2>. QED
    BY <2>1, <2>2
<1>4. Cut(k)
  BY <1>2, <1>3
<1>5. \E m \in 0..Len(window) : Cut(m)
  BY <1>4
<1> DEFINE n == CHOOSE m \in 0..Len(window) : Cut(m)
<1>6. n \in 0..Len(window) /\ Cut(n)
  <2> HIDE DEF Cut
  <2>. QED
    BY <1>5
<1>7. TruncateTo(window, fork) = SubSeq(window, 1, n)
  BY DEF TruncateTo
<1>. QED
  BY <1>6, <1>7

LEMMA RolledBackCut ==
  ASSUME IInv, NEW fork \in Nat
  PROVE  \E n \in 0..Len(kept) :
           /\ RolledBack(fork) = SubSeq(kept, 1, n)
           /\ n # 0 => HeightOf[kept[n]] <= fork
           /\ \A i \in (n + 1)..Len(kept) : HeightOf[kept[i]] > fork
<1> DEFINE P == {i \in 1..Len(kept) : HeightOf[kept[i]] <= fork}
           Cut(m) == /\ m # 0 => HeightOf[kept[m]] <= fork
                     /\ \A i \in (m + 1)..Len(kept) : HeightOf[kept[i]] > fork
<1>1. Len(kept) \in Nat /\ \A i \in 1..Len(kept) : kept[i] \in Block
  BY DEF IInv, TypeOK
<1>2. PICK k \in 0..Len(kept) : (k # 0 => k \in P) /\ \A i \in (k + 1)..Len(kept) : i \notin P
  <2> HIDE DEF P
  <2>. QED
    BY <1>1, CutExists
<1>3. ASSUME NEW i \in (k + 1)..Len(kept)
      PROVE  HeightOf[kept[i]] > fork
  <2>1. i \in 1..Len(kept) /\ i \notin P
    BY <1>1, <1>2
  <2>2. HeightOf[kept[i]] \in Nat
    BY <2>1, <1>1, HeightType
  <2>. QED
    BY <2>1, <2>2
<1>4. Cut(k)
  BY <1>2, <1>3
<1>5. \E m \in 0..Len(kept) : Cut(m)
  BY <1>4
<1> DEFINE n == CHOOSE m \in 0..Len(kept) : Cut(m)
<1>6. n \in 0..Len(kept) /\ Cut(n)
  <2> HIDE DEF Cut
  <2>. QED
    BY <1>5
<1>7. RolledBack(fork) = SubSeq(kept, 1, n)
  BY DEF RolledBack
<1>. QED
  BY <1>6, <1>7

(* The fork found is the height of the tracked pair, or just below the     *)
(* window.                                                                 *)
LEMMA ForkFound ==
  ASSUME IInv, NEW i \in 1..Len(window)
  PROVE  FindForkPoint(window, window[i].hash) = window[i].height
<1> DEFINE hits == {j \in DOMAIN window : window[j].hash = window[i].hash}
<1>1. Len(window) \in Nat /\ DOMAIN window = 1..Len(window)
  BY DEF IInv, TypeOK
<1>2. ASSUME NEW j \in 1..Len(window), j # i
      PROVE  window[j].hash # window[i].hash
  <2>1. j < i \/ i < j
    BY <1>1, <1>2
  <2>. QED
    BY <2>1, WindowAscends
<1>3. hits = {i}
  BY <1>1, <1>2
<1>4. (CHOOSE k \in hits : \A j \in hits : j <= k) = i
  BY <1>1, <1>3
<1>. QED
  BY <1>3, <1>4 DEF FindForkPoint

LEMMA ForkNotFound ==
  ASSUME IInv, window # <<>>, NEW hash, \A i \in 1..Len(window) : window[i].hash # hash
  PROVE  /\ FindForkPoint(window, hash) \in Nat
         /\ \A i \in 1..Len(window) : FindForkPoint(window, hash) < window[i].height
<1>1. Len(window) \in Nat /\ DOMAIN window = 1..Len(window) /\ 1 \in 1..Len(window)
  BY DEF IInv, TypeOK
<1>2. FindForkPoint(window, hash) = Below(window[1].height)
  BY <1>1 DEF FindForkPoint
<1>3. window[1].height \in Nat /\ window[1].height # 0
  BY <1>1, WindowBlock, HeightType
<1>4. Below(window[1].height) = window[1].height - 1
  BY <1>3 DEF Below
<1>5. ASSUME NEW i \in 1..Len(window)
      PROVE  FindForkPoint(window, hash) < window[i].height
  <2>1. CASE i = 1
    BY <2>1, <1>2, <1>3, <1>4
  <2>2. CASE i # 1
    <3>1. 1 < i
      BY <2>2, <1>1
    <3>2. window[1].height < window[i].height /\ window[i].height \in Nat
      BY <3>1, <1>1, WindowAscends
    <3>. QED
      BY <3>2, <1>2, <1>3, <1>4
  <2>. QED
    BY <2>1, <2>2
<1>. QED
  BY <1>2, <1>3, <1>4, <1>5

-----------------------------------------------------------------------------
(* What a push does *)

FirstBlock(b) ==
  /\ window = <<>>
  /\ window' = <<PairOf(b)>>
  /\ kept' = Append(kept, b)

Extension(b) ==
  /\ window # <<>>
  /\ Links(window, HeightOf[b], Parent[b])
  /\ window' = PopFront(Append(window, PairOf(b)))
  /\ kept' = Append(kept, b)

(* The parent is the i-th pair, below the tip. *)
ReorgInWindow(b) ==
  \E i \in 1..(Len(window) - 1) :
    /\ window[i].hash = Parent[b]
    /\ window' = Append(SubSeq(window, 1, i), PairOf(b))
    /\ kept' = Append(SubSeq(kept, 1, Len(kept) - Len(window) + i), b)

(* The parent is not in the window: nothing of it stays. *)
ReorgBelowWindow(b) ==
  /\ window # <<>>
  /\ \A i \in 1..Len(window) : window[i].hash # Parent[b]
  /\ HeightOf[b] = Tip(window).height + 1
  /\ window' = <<PairOf(b)>>
  /\ \E n \in 0..(Len(kept) - Len(window)) : kept' = Append(SubSeq(kept, 1, n), b)

LEMMA ReorgInWindowCut ==
  ASSUME IInv, NEW b \in Block, Push(b), NEW i \in 1..Len(window),
         window[i].hash = Parent[b],
         ~Links(window, HeightOf[b], Parent[b])
  PROVE  ReorgInWindow(b)
<1> DEFINE fork == window[i].height
           off == Len(kept) - Len(window)
<1>1. /\ Len(window) \in Nat /\ Len(kept) \in Nat /\ off \in Nat
      /\ window # <<>>
  BY DEF IInv, TypeOK, WindowIsNewestKept
<1>2. fork \in Nat /\ Parent[b] \in Block /\ fork = HeightOf[Parent[b]]
  BY WindowBlock, HeightType
<1>3. HeightOf[b] = fork + 1
  BY <1>2, ParentHeight
<1>4. i # Len(window)
  BY <1>3 DEF Links, Tip
<1>5. FindForkPoint(window, Parent[b]) = fork
  BY ForkFound
<1>6. PICK n \in 0..Len(window) :
        /\ TruncateTo(window, fork) = SubSeq(window, 1, n)
        /\ n # 0 => window[n].height <= fork
        /\ \A j \in (n + 1)..Len(window) : window[j].height > fork
  BY <1>2, TruncateToCut
<1>7. n = i
  <2>1. CASE n < i
    <3>1. i \in (n + 1)..Len(window)
      BY <2>1, <1>1
    <3>. QED
      BY <3>1, <1>2, <1>6
  <2>2. CASE i < n
    <3>1. n \in 1..Len(window)
      BY <2>2, <1>1
    <3>2. window[n].height \in Nat /\ fork < window[n].height
      BY <3>1, <2>2, WindowAscends
    <3>. QED
      BY <3>1, <3>2, <1>2, <1>6
  <2>. QED
    BY <2>1, <2>2, <1>1
<1>8. PICK m \in 0..Len(kept) :
        /\ RolledBack(fork) = SubSeq(kept, 1, m)
        /\ m # 0 => HeightOf[kept[m]] <= fork
        /\ \A j \in (m + 1)..Len(kept) : HeightOf[kept[j]] > fork
  BY <1>2, RolledBackCut
<1>9. m = off + i
  <2>1. off + i \in 1..Len(kept) /\ HeightOf[kept[off + i]] = fork
    BY WindowBlock
  <2>2. CASE m < off + i
    <3>1. off + i \in (m + 1)..Len(kept)
      BY <2>1, <2>2, <1>1
    <3>. QED
      BY <3>1, <2>1, <1>2, <1>8
  <2>3. CASE off + i < m
    <3>1. m \in 1..Len(kept)
      BY <2>1, <2>3, <1>1
    <3>2. kept[m] \in Block
      BY <3>1 DEF IInv, TypeOK
    <3>3. HeightOf[kept[m]] \in Nat /\ fork < HeightOf[kept[m]]
      BY <3>1, <3>2, <2>1, <2>3, HeightType DEF IInv, KeptAscends
    <3>. QED
      BY <3>1, <3>3, <1>2, <1>8
  <2>. QED
    BY <2>1, <2>2, <2>3, <1>1
<1>10. /\ window' = Append(TruncateTo(window, fork), PairOf(b))
       /\ kept' = Append(RolledBack(fork), b)
  BY <1>1, <1>5 DEF Push, Pushed, Extends, PairOf
<1>11. i \in 1..(Len(window) - 1)
  BY <1>1, <1>4
<1>. QED
  BY <1>6, <1>7, <1>8, <1>9, <1>10, <1>11 DEF ReorgInWindow

LEMMA ReorgBelowWindowCut ==
  ASSUME IInv, NEW b \in Block, Push(b), window # <<>>,
         \A i \in 1..Len(window) : window[i].hash # Parent[b]
  PROVE  ReorgBelowWindow(b)
<1> DEFINE fork == FindForkPoint(window, Parent[b])
           off == Len(kept) - Len(window)
<1>1. /\ Len(window) \in Nat /\ Len(kept) \in Nat /\ off \in Nat
      /\ Len(window) \in 1..Len(window)
      /\ DOMAIN window = 1..Len(window)
  BY DEF IInv, TypeOK, WindowIsNewestKept
<1>2. ~Links(window, HeightOf[b], Parent[b])
  BY <1>1 DEF Links, Tip
<1>3. HeightOf[b] = Tip(window).height + 1
  BY <1>1 DEF Push, Tracked
<1>4. fork \in Nat /\ \A i \in 1..Len(window) : fork < window[i].height
  BY ForkNotFound
<1> HIDE DEF fork
<1>5. PICK n \in 0..Len(window) :
        /\ TruncateTo(window, fork) = SubSeq(window, 1, n)
        /\ n # 0 => window[n].height <= fork
  BY <1>4, TruncateToCut
<1>6. n = 0
  <2>1. ASSUME n # 0
        PROVE  FALSE
    <3>1. n \in 1..Len(window) /\ window[n].height \in Nat
      BY <2>1, <1>1, WindowBlock, HeightType
    <3>. QED
      BY <3>1, <2>1, <1>4, <1>5
  <2>. QED
    BY <2>1
<1>7. PICK m \in 0..Len(kept) :
        /\ RolledBack(fork) = SubSeq(kept, 1, m)
        /\ m # 0 => HeightOf[kept[m]] <= fork
  BY <1>4, RolledBackCut
<1>8. m <= off
  <2>1. ASSUME m > off
        PROVE  FALSE
    <3>1. m - off \in 1..Len(window) /\ off + (m - off) = m
      BY <2>1, <1>1
    <3>2. /\ window[m - off].height = HeightOf[kept[m]]
          /\ window[m - off].height \in Nat
      BY <3>1, WindowBlock, HeightType
    <3>. QED
      BY <3>1, <3>2, <2>1, <1>1, <1>4, <1>7
  <2>. QED
    BY <2>1, <1>1
<1>9. /\ window' = Append(TruncateTo(window, fork), PairOf(b))
      /\ kept' = Append(RolledBack(fork), b)
  BY <1>2 DEF fork, Push, Pushed, Extends, PairOf
<1>10. window' = <<PairOf(b)>>
  <2>1. SubSeq(window, 1, 0) = <<>>
    BY DEF IInv, TypeOK
  <2>2. Append(<<>>, PairOf(b)) = <<PairOf(b)>>
    OBVIOUS
  <2>. QED
    BY <2>1, <2>2, <1>5, <1>6, <1>9
<1>11. m \in 0..(Len(kept) - Len(window))
  BY <1>1, <1>8
<1>. QED
  BY <1>3, <1>7, <1>9, <1>10, <1>11 DEF ReorgBelowWindow

LEMMA PushCases ==
  ASSUME IInv, NEW b \in Block, Push(b)
  PROVE  FirstBlock(b) \/ Extension(b) \/ ReorgInWindow(b) \/ ReorgBelowWindow(b)
<1>1. CASE window = <<>>
  BY <1>1 DEF Push, Pushed, Extends, WithTip, PairOf, FirstBlock
<1>2. CASE window # <<>> /\ Links(window, HeightOf[b], Parent[b])
  BY <1>2 DEF Push, Pushed, Extends, PairOf, Extension
<1>3. CASE window # <<>> /\ ~Links(window, HeightOf[b], Parent[b])
  BY <1>3, ReorgInWindowCut, ReorgBelowWindowCut
<1>. QED
  BY <1>1, <1>2, <1>3

-----------------------------------------------------------------------------
(* The invariant *)

LEMMA InitIInv == Init => IInv
<1> SUFFICES ASSUME Init
             PROVE  IInv
  OBVIOUS
<1>1. MaxDepth \in Nat \ {0}
  BY FeedAssumption
<1>2. CASE window = <<>> /\ kept = <<>>
  BY <1>1, <1>2 DEF IInv, TypeOK, WindowLinked, WindowIsNewestKept, KeptAscends
<1>3. CASE \E b \in Block : window = WithTip(HeightOf[b], b) /\ kept = <<b>>
  <2>1. PICK b \in Block : window = WithTip(HeightOf[b], b) /\ kept = <<b>>
    BY <1>3
  <2>2. window = <<PairOf(b)>> /\ PairOf(b).hash = b
        /\ PairOf(b) \in {PairOf(c) : c \in Block}
    BY <2>1, PairType DEF WithTip, PairOf
  <2>3. TypeOK
    BY <2>1, <2>2, <1>1 DEF TypeOK
  <2>. QED
    BY <2>1, <2>2, <2>3 DEF IInv, WindowLinked, WindowIsNewestKept, KeptAscends
<1>. QED
  BY <1>2, <1>3 DEF Init

LEMMA FirstBlockIInv ==
  ASSUME IInv, NEW b \in Block, FirstBlock(b)
  PROVE  IInv'
<1>1. window' = <<PairOf(b)>> /\ kept' = <<b>>
  BY DEF IInv, KeptAscends, FirstBlock
<1>2. PairOf(b) \in {PairOf(c) : c \in Block} /\ PairOf(b).hash = b
  BY PairType
<1>3. TypeOK'
  BY <1>1, <1>2, FeedAssumption DEF TypeOK
<1>. QED
  BY <1>1, <1>2, <1>3 DEF IInv, WindowLinked, WindowIsNewestKept, KeptAscends

LEMMA ExtensionIInv ==
  ASSUME IInv, NEW b \in Block, Extension(b)
  PROVE  IInv'
<1> DEFINE grown == Append(window, PairOf(b))
           off == Len(kept) - Len(window)
<1>1. /\ Len(window) \in Nat /\ Len(kept) \in Nat /\ Len(window) \in 1..Len(window)
      /\ Len(window) <= MaxDepth /\ MaxDepth \in Nat \ {0} /\ off \in Nat
      /\ window \in Seq({PairOf(c) : c \in Block}) /\ kept \in Seq(Block)
  BY FeedAssumption DEF IInv, TypeOK, WindowIsNewestKept, Extension
<1>2. /\ PairOf(b) \in {PairOf(c) : c \in Block} /\ PairOf(b).hash = b
  BY PairType
<1>3. /\ kept' = Append(kept, b)
      /\ Parent[b] = window[Len(window)].hash
      /\ HeightOf[b] = window[Len(window)].height + 1
  BY DEF Extension, Links, Tip
<1>4. /\ grown \in Seq({PairOf(c) : c \in Block})
      /\ Len(grown) = Len(window) + 1
      /\ \A i \in 1..Len(window) : grown[i] = window[i]
      /\ grown[Len(window) + 1] = PairOf(b)
  BY <1>1, <1>2
<1>5. \A i \in 1..Len(window) : Parent[grown[i + 1].hash] = grown[i].hash
  <2> SUFFICES ASSUME NEW i \in 1..Len(window)
               PROVE  Parent[grown[i + 1].hash] = grown[i].hash
    OBVIOUS
  <2>1. CASE i = Len(window)
    BY <2>1, <1>2, <1>3, <1>4
  <2>2. CASE i # Len(window)
    <3>1. i \in 1..(Len(window) - 1) /\ i + 1 \in 1..Len(window)
      BY <2>2, <1>1
    <3>2. Parent[window[i + 1].hash] = window[i].hash
      BY <3>1 DEF IInv, WindowLinked
    <3>. QED
      BY <3>1, <3>2, <1>4
  <2>. QED
    BY <2>1, <2>2
<1>6. \A i \in 1..Len(grown) : grown[i].hash = kept'[Len(kept') - Len(grown) + i]
  <2> SUFFICES ASSUME NEW i \in 1..Len(grown)
               PROVE  grown[i].hash = kept'[Len(kept') - Len(grown) + i]
    OBVIOUS
  <2>1. Len(kept') = Len(kept) + 1 /\ Len(kept') - Len(grown) + i = off + i
    BY <1>1, <1>3, <1>4
  <2>2. CASE i = Len(window) + 1
    BY <2>1, <2>2, <1>1, <1>2, <1>3, <1>4
  <2>3. CASE i # Len(window) + 1
    <3>1. i \in 1..Len(window)
      BY <2>3, <1>1, <1>4
    <3>2. off + i \in 1..Len(kept) /\ window[i].hash = kept[off + i]
      BY <3>1, WindowBlock
    <3>3. kept'[off + i] = kept[off + i]
      BY <3>2, <1>1, <1>3
    <3>. QED
      BY <3>1, <3>2, <3>3, <2>1, <1>4
  <2>. QED
    BY <2>2, <2>3
<1> HIDE DEF grown
<1>7. KeptAscends'
  <2>1. HeightOf[b] = HeightOf[kept[Len(kept)]] + 1 /\ Len(kept) \in 1..Len(kept)
    <3>1. off + Len(window) = Len(kept)
      BY <1>1
    <3>. QED
      BY <3>1, <1>1, <1>3, WindowBlock
  <2>2. ASSUME NEW i \in 1..Len(kept'), NEW j \in 1..Len(kept'), i < j
        PROVE  HeightOf[kept'[i]] < HeightOf[kept'[j]]
    <3>1. i \in 1..Len(kept) /\ kept'[i] = kept[i] /\ kept[i] \in Block
      BY <2>2, <1>1, <1>3
    <3>2. HeightOf[kept[i]] \in Nat /\ kept[Len(kept)] \in Block
          /\ HeightOf[kept[Len(kept)]] \in Nat
      BY <3>1, <2>1, <1>1, HeightType
    <3>3. CASE j \in 1..Len(kept)
      <4>1. kept'[j] = kept[j]
        BY <3>3, <1>1, <1>3
      <4>. QED
        BY <4>1, <3>1, <3>3, <2>2 DEF IInv, KeptAscends
    <3>4. CASE j = Len(kept) + 1
      <4>1. kept'[j] = b
        BY <3>4, <1>1, <1>3
      <4>2. HeightOf[kept[i]] <= HeightOf[kept[Len(kept)]]
        <5>1. CASE i = Len(kept)
          BY <5>1, <3>2
        <5>2. CASE i # Len(kept)
          <6>1. i < Len(kept)
            BY <5>2, <3>1, <1>1
          <6>2. HeightOf[kept[i]] < HeightOf[kept[Len(kept)]]
            BY <6>1, <3>1, <2>1 DEF IInv, KeptAscends
          <6>. QED
            BY <6>2, <3>2
        <5>. QED
          BY <5>1, <5>2
      <4>. QED
        BY <4>1, <4>2, <3>1, <3>2, <2>1
    <3>5. Len(kept') = Len(kept) + 1 /\ Len(kept) \in Nat
      BY <1>1, <1>3
    <3>6. j \in 1..Len(kept) \/ j = Len(kept) + 1
      BY <3>5, <2>2
    <3>. QED
      BY <3>3, <3>4, <3>6
  <2>3. window' # <<>>
    <3>1. Len(window') # 0
      BY <1>1, <1>4 DEF Extension, PopFront, grown
    <3>. QED
      BY <3>1
  <2>. QED
    BY <2>2, <2>3 DEF KeptAscends
<1>8. CASE Len(grown) > MaxDepth
  <2>1. window' = Tail(grown)
    BY <1>8 DEF Extension, PopFront, grown
  <2>2. /\ window' \in Seq({PairOf(c) : c \in Block})
        /\ Len(window') = Len(window)
        /\ \A i \in 1..Len(window') : window'[i] = grown[i + 1]
    BY <2>1, <1>1, <1>4
  <2>3. TypeOK'
    BY <2>2, <1>1, <1>3 DEF TypeOK
  <2>4. WindowLinked'
    BY <2>2, <1>1, <1>4, <1>5 DEF WindowLinked
  <2>5. ASSUME NEW i \in 1..Len(window')
        PROVE  window'[i].hash = kept'[Len(kept') - Len(window') + i]
    <3>1. i + 1 \in 1..Len(grown) /\ Len(kept') = Len(kept) + 1
          /\ Len(kept') - Len(grown) + (i + 1) = Len(kept') - Len(window') + i
      BY <2>2, <1>1, <1>3, <1>4
    <3>. QED
      BY <3>1, <2>2, <1>6
  <2>6. Len(window') <= Len(kept') /\ DOMAIN window' = 1..Len(window')
    BY <2>2, <1>1, <1>3
  <2>7. WindowIsNewestKept'
    BY <2>5, <2>6 DEF WindowIsNewestKept
  <2>. QED
    BY <2>3, <2>4, <2>7, <1>7 DEF IInv
<1>9. CASE ~(Len(grown) > MaxDepth)
  <2>1. window' = grown
    BY <1>9 DEF Extension, PopFront, grown
  <2>2. TypeOK'
    BY <2>1, <1>9, <1>1, <1>3, <1>4 DEF TypeOK
  <2>3. WindowLinked'
    BY <2>1, <1>1, <1>4, <1>5 DEF WindowLinked
  <2>4. Len(window') <= Len(kept') /\ DOMAIN window' = 1..Len(window')
    BY <2>1, <1>1, <1>3, <1>4
  <2>5. WindowIsNewestKept'
    BY <2>1, <2>4, <1>6 DEF WindowIsNewestKept
  <2>. QED
    BY <2>2, <2>3, <2>5, <1>7 DEF IInv
<1>. QED
  BY <1>8, <1>9

(* Appending a block above where the consumer is cut keeps it ascending.   *)
LEMMA CutAscends ==
  ASSUME IInv, NEW b \in Block, NEW m \in 0..Len(kept),
         m # 0 => HeightOf[kept[m]] < HeightOf[b],
         kept' = Append(SubSeq(kept, 1, m), b)
  PROVE  /\ kept' \in Seq(Block) /\ Len(kept') = m + 1
         /\ \A i \in 1..m : kept'[i] = kept[i]
         /\ kept'[m + 1] = b
         /\ \A i, j \in 1..Len(kept') : i < j => HeightOf[kept'[i]] < HeightOf[kept'[j]]
<1>1. kept \in Seq(Block) /\ Len(kept) \in Nat /\ m \in Nat
  BY DEF IInv, TypeOK
<1> DEFINE s == SubSeq(kept, 1, m)
<1>2. s \in Seq(Block) /\ Len(s) = m /\ \A i \in 1..m : s[i] = kept[i]
  BY <1>1
<1> HIDE DEF s
<1>3. /\ kept' \in Seq(Block) /\ Len(kept') = m + 1
      /\ \A i \in 1..m : kept'[i] = kept[i]
      /\ kept'[m + 1] = b
  BY <1>1, <1>2 DEF s
<1>4. ASSUME NEW i \in 1..Len(kept'), NEW j \in 1..Len(kept'), i < j
      PROVE  HeightOf[kept'[i]] < HeightOf[kept'[j]]
  <2>1. i \in 1..m /\ i \in 1..Len(kept) /\ kept'[i] = kept[i] /\ kept[i] \in Block
    BY <1>1, <1>3, <1>4
  <2>2. CASE j \in 1..m
    <3>1. j \in 1..Len(kept) /\ kept'[j] = kept[j]
      BY <2>2, <1>1, <1>3
    <3>. QED
      BY <3>1, <2>1, <1>4 DEF IInv, KeptAscends
  <2>3. CASE j = m + 1
    <3>1. m \in 1..Len(kept) /\ kept[m] \in Block /\ kept'[j] = b
      BY <2>1, <2>3, <1>1, <1>3
    <3>2. HeightOf[kept[i]] \in Nat /\ HeightOf[kept[m]] \in Nat /\ HeightOf[b] \in Nat
      BY <3>1, <2>1, HeightType
    <3>3. HeightOf[kept[m]] < HeightOf[b]
      BY <3>1
    <3>4. CASE i = m
      BY <3>1, <3>3, <3>4, <2>1
    <3>5. CASE i < m
      <4>1. HeightOf[kept[i]] < HeightOf[kept[m]]
        BY <3>1, <3>5, <2>1 DEF IInv, KeptAscends
      <4>. QED
        BY <4>1, <3>1, <3>2, <3>3, <2>1
    <3>. QED
      BY <3>4, <3>5, <2>1, <1>1
  <2>. QED
    BY <2>2, <2>3, <1>1, <1>3
<1>. QED
  BY <1>3, <1>4

LEMMA ReorgInWindowIInv ==
  ASSUME IInv, NEW b \in Block, ReorgInWindow(b)
  PROVE  IInv'
<1> DEFINE off == Len(kept) - Len(window)
<1>1. /\ Len(window) \in Nat /\ Len(kept) \in Nat /\ off \in Nat
      /\ Len(window) <= MaxDepth /\ MaxDepth \in Nat \ {0}
      /\ window \in Seq({PairOf(c) : c \in Block})
  BY FeedAssumption DEF IInv, TypeOK, WindowIsNewestKept
<1>2. PICK i \in 1..(Len(window) - 1) :
        /\ window[i].hash = Parent[b]
        /\ window' = Append(SubSeq(window, 1, i), PairOf(b))
        /\ kept' = Append(SubSeq(kept, 1, off + i), b)
  BY DEF ReorgInWindow
<1>3. PairOf(b) \in {PairOf(c) : c \in Block} /\ PairOf(b).hash = b
  BY PairType
<1>4. i \in 1..Len(window) /\ i \in Nat /\ i # 0
      /\ off + i \in 1..Len(kept) /\ off + i \in 0..Len(kept)
      /\ kept[off + i] = Parent[b] /\ Parent[b] \in Block
  BY <1>1, <1>2, WindowBlock
<1>5. HeightOf[kept[off + i]] < HeightOf[b]
  <2>1. HeightOf[b] = HeightOf[Parent[b]] + 1 /\ HeightOf[Parent[b]] \in Nat
    BY <1>4, ParentHeight, HeightType
  <2>. QED
    BY <2>1, <1>4
<1>6. /\ kept' \in Seq(Block) /\ Len(kept') = off + i + 1
      /\ \A j \in 1..(off + i) : kept'[j] = kept[j]
      /\ kept'[off + i + 1] = b
      /\ \A j, k \in 1..Len(kept') : j < k => HeightOf[kept'[j]] < HeightOf[kept'[k]]
  <2> HIDE DEF off
  <2>. QED
    BY <1>2, <1>4, <1>5, CutAscends
<1> DEFINE w == SubSeq(window, 1, i)
<1>7. w \in Seq({PairOf(c) : c \in Block}) /\ Len(w) = i /\ \A j \in 1..i : w[j] = window[j]
  BY <1>1, <1>4
<1>8. window' = Append(w, PairOf(b))
  BY <1>2
<1> HIDE DEF w
<1>9. /\ window' \in Seq({PairOf(c) : c \in Block})
      /\ Len(window') = i + 1 /\ DOMAIN window' = 1..(i + 1)
      /\ \A j \in 1..i : window'[j] = window[j]
      /\ window'[i + 1] = PairOf(b)
  BY <1>3, <1>4, <1>7, <1>8
<1>10. TypeOK'
  <2>1. i + 1 <= MaxDepth
    BY <1>1, <1>2
  <2>. QED
    BY <2>1, <1>6, <1>9 DEF TypeOK
<1>11. ASSUME NEW j \in 1..(Len(window') - 1)
       PROVE  Parent[window'[j + 1].hash] = window'[j].hash
  <2>0. j \in 1..i
    BY <1>4, <1>9
  <2>1. CASE j = i
    <3>1. window'[i + 1].hash = b /\ window'[i] = window[i]
      BY <1>3, <1>4, <1>9
    <3>2. window[i].hash = Parent[b]
      BY <1>2
    <3>. QED
      BY <3>1, <3>2, <2>1
  <2>2. CASE j # i
    <3>1. j \in 1..i /\ j + 1 \in 1..i /\ j \in 1..(Len(window) - 1)
      BY <2>0, <2>2, <1>1, <1>2
    <3>2. Parent[window[j + 1].hash] = window[j].hash
      BY <3>1 DEF IInv, WindowLinked
    <3>. QED
      BY <3>1, <3>2, <1>9
  <2>. QED
    BY <2>1, <2>2
<1>12. ASSUME NEW j \in 1..(i + 1)
       PROVE  window'[j].hash = kept'[Len(kept') - Len(window') + j]
  <2>1. Len(kept') - Len(window') + j = off + j
    BY <1>1, <1>4, <1>6, <1>9
  <2>2. CASE j = i + 1
    <3>1. off + j = off + i + 1
      BY <2>2, <1>1, <1>4
    <3>. QED
      BY <3>1, <2>1, <2>2, <1>3, <1>6, <1>9
  <2>3. CASE j # i + 1
    <3>1. j \in 1..i /\ j \in 1..Len(window) /\ off + j \in 1..(off + i)
      BY <2>3, <1>1, <1>4
    <3>2. window[j].hash = kept[off + j]
      BY <3>1, WindowBlock
    <3>. QED
      BY <3>1, <3>2, <2>1, <1>6, <1>9
  <2>. QED
    BY <2>2, <2>3
<1>13. WindowLinked'
  BY <1>11 DEF WindowLinked
<1>14. Len(window') <= Len(kept')
  BY <1>1, <1>4, <1>6, <1>9
<1>15. WindowIsNewestKept'
  BY <1>9, <1>12, <1>14 DEF WindowIsNewestKept
<1>16. window' # <<>>
  <2>1. Len(window') # 0
    BY <1>4, <1>9
  <2>. QED
    BY <2>1
<1>17. KeptAscends'
  BY <1>6, <1>16 DEF KeptAscends
<1>. QED
  BY <1>10, <1>13, <1>15, <1>17 DEF IInv

LEMMA ReorgBelowWindowIInv ==
  ASSUME IInv, NEW b \in Block, ReorgBelowWindow(b)
  PROVE  IInv'
<1> DEFINE off == Len(kept) - Len(window)
<1>1. /\ Len(window) \in Nat /\ Len(kept) \in Nat /\ off \in Nat
      /\ Len(window) \in 1..Len(window) /\ Len(kept) \in 1..Len(kept)
      /\ off < Len(kept) /\ off + Len(window) = Len(kept)
  BY DEF IInv, TypeOK, WindowIsNewestKept, ReorgBelowWindow
<1>2. PICK n \in 0..off : kept' = Append(SubSeq(kept, 1, n), b)
  BY DEF ReorgBelowWindow
<1>3. HeightOf[b] = HeightOf[kept[Len(kept)]] + 1 /\ kept[Len(kept)] \in Block
  <2>1. HeightOf[b] = window[Len(window)].height + 1
    BY DEF ReorgBelowWindow, Tip
  <2>. QED
    BY <2>1, <1>1, WindowBlock
<1>4. n # 0 => HeightOf[kept[n]] < HeightOf[b]
  <2> SUFFICES ASSUME n # 0
               PROVE  HeightOf[kept[n]] < HeightOf[b]
    OBVIOUS
  <2>1. n \in 1..Len(kept) /\ n < Len(kept)
    BY <1>1, <1>2
  <2>2. HeightOf[kept[n]] < HeightOf[kept[Len(kept)]]
    BY <2>1, <1>1 DEF IInv, KeptAscends
  <2>3. kept[n] \in Block
    BY <2>1 DEF IInv, TypeOK
  <2>4. HeightOf[kept[n]] \in Nat /\ HeightOf[kept[Len(kept)]] \in Nat
    BY <2>3, <1>3, HeightType
  <2>. QED
    BY <2>2, <2>4, <1>3
<1>5. n \in Nat /\ n \in 0..Len(kept)
  BY <1>1
<1>6. /\ kept' \in Seq(Block) /\ Len(kept') = n + 1
      /\ kept'[n + 1] = b
      /\ \A j, k \in 1..Len(kept') : j < k => HeightOf[kept'[j]] < HeightOf[kept'[k]]
  BY <1>2, <1>4, <1>5, CutAscends
<1>7. window' = <<PairOf(b)>>
  BY DEF ReorgBelowWindow
<1>8. PairOf(b) \in {PairOf(c) : c \in Block} /\ PairOf(b).hash = b
  BY PairType
<1>9. TypeOK'
  BY <1>6, <1>7, <1>8, FeedAssumption DEF TypeOK
<1>10. WindowLinked'
  BY <1>7 DEF WindowLinked
<1>11. WindowIsNewestKept'
  <2>1. Len(window') = 1 /\ DOMAIN window' = {1} /\ window'[1] = PairOf(b)
    BY <1>7
  <2>2. Len(kept') - 1 + 1 = n + 1 /\ 1 <= Len(kept')
    BY <1>5, <1>6
  <2>. QED
    BY <2>1, <2>2, <1>6, <1>8 DEF WindowIsNewestKept
<1>12. KeptAscends'
  BY <1>6, <1>7 DEF KeptAscends
<1>. QED
  BY <1>9, <1>10, <1>11, <1>12 DEF IInv

LEMMA NextIInv == IInv /\ [Next]_vars => IInv'
<1> SUFFICES ASSUME IInv, [Next]_vars
             PROVE  IInv'
  OBVIOUS
<1>1. CASE Next
  <2>1. PICK b \in Block : Push(b)
    BY <1>1 DEF Next
  <2>. QED
    BY <2>1, PushCases, FirstBlockIInv, ExtensionIInv, ReorgInWindowIInv,
       ReorgBelowWindowIInv
<1>2. CASE UNCHANGED vars
  BY <1>2 DEF vars, IInv, TypeOK, WindowLinked, WindowIsNewestKept, KeptAscends
<1>. QED
  BY <1>1, <1>2

LEMMA Invariant == Spec => []IInv
<1>. QED
  BY InitIInv, NextIInv, PTL DEF Spec

(* The window holds at most max_depth blocks, though only the Extend       *)
(* branch of push_block pops.                                              *)
THEOREM TypeCorrect == Spec => []TypeOK
<1>1. IInv => TypeOK
  BY DEF IInv
<1>. QED
  BY <1>1, Invariant, PTL

(* The window is one branch of the chain, in whatever order the feed       *)
(* delivers blocks.                                                        *)
THEOREM LinkedCorrect == Spec => []WindowLinked
<1>1. IInv => WindowLinked
  BY DEF IInv
<1>. QED
  BY <1>1, Invariant, PTL

(* The window is the newest blocks of a consumer that obeys the actions    *)
(* push_block returns.                                                     *)
THEOREM NewestCorrect == Spec => []WindowIsNewestKept
<1>1. IInv => WindowIsNewestKept
  BY DEF IInv
<1>. QED
  BY <1>1, Invariant, PTL

-----------------------------------------------------------------------------
(* The fork *)

(* A tracked block is at one place only of what the consumer keeps.        *)
LEMMA KeptOnce ==
  ASSUME IInv, NEW i \in 1..Len(kept), NEW j \in 1..Len(kept), kept[i] = kept[j]
  PROVE  i = j
<1>1. kept[i] \in Block /\ HeightOf[kept[i]] \in Nat
  BY HeightType DEF IInv, TypeOK
<1>2. CASE i < j
  BY <1>1, <1>2 DEF IInv, KeptAscends
<1>3. CASE j < i
  BY <1>1, <1>3 DEF IInv, KeptAscends
<1>. QED
  BY <1>2, <1>3

LEMMA PushRollsBack ==
  ASSUME IInv, NEW c \in Block, Push(c),
         NEW i \in DOMAIN kept,
         kept[i] = Parent[kept'[Len(kept')]], Tracked(kept[i])
  PROVE  kept' = Append(SubSeq(kept, 1, i), kept'[Len(kept')])
<1> DEFINE off == Len(kept) - Len(window)
<1>1. /\ Len(window) \in Nat /\ Len(kept) \in Nat /\ off \in Nat
      /\ DOMAIN window = 1..Len(window) /\ DOMAIN kept = 1..Len(kept)
      /\ kept \in Seq(Block)
  BY DEF IInv, TypeOK, WindowIsNewestKept
<1>2. kept'[Len(kept')] = c
  <2>1. PICK s \in Seq(Block) : kept' = Append(s, c)
    <3>1. kept \in Seq(Block) /\ \A n \in 0..Len(kept) : SubSeq(kept, 1, n) \in Seq(Block)
      BY <1>1
    <3>2. FirstBlock(c) \/ Extension(c) \/ ReorgInWindow(c) \/ ReorgBelowWindow(c)
      BY PushCases
    <3>3. CASE FirstBlock(c) \/ Extension(c)
      BY <3>1, <3>3 DEF FirstBlock, Extension
    <3>4. CASE ReorgInWindow(c)
      <4>1. PICK k \in 1..(Len(window) - 1) : kept' = Append(SubSeq(kept, 1, off + k), c)
        BY <3>4 DEF ReorgInWindow
      <4>2. off + k \in 0..Len(kept)
        BY <4>1, <1>1
      <4>. QED
        BY <4>1, <4>2, <3>1
    <3>5. CASE ReorgBelowWindow(c)
      <4>1. PICK n \in 0..off : kept' = Append(SubSeq(kept, 1, n), c)
        BY <3>5 DEF ReorgBelowWindow
      <4>2. n \in 0..Len(kept)
        BY <4>1, <1>1
      <4>. QED
        BY <4>1, <4>2, <3>1
    <3>. QED
      BY <3>2, <3>3, <3>4, <3>5
  <2>. QED
    BY <2>1
<1>3. PICK k \in 1..Len(window) : window[k].hash = Parent[c]
  BY <1>1, <1>2 DEF Tracked
<1>4. i = off + k
  <2>1. off + k \in 1..Len(kept) /\ kept[off + k] = Parent[c]
    BY <1>3, WindowBlock
  <2>. QED
    BY <2>1, <1>1, <1>2, KeptOnce
<1>5. window # <<>>
  BY <1>1, <1>3
<1>6. CASE Extension(c)
  <2>1. kept' = Append(kept, c) /\ window[Len(window)].hash = Parent[c]
    BY <1>6 DEF Extension, Links, Tip
  <2>2. Len(window) \in 1..Len(window) /\ off + Len(window) = Len(kept)
    BY <1>1, <1>3
  <2>3. i = Len(kept)
    <3>1. kept[Len(kept)] = Parent[c] /\ Len(kept) \in 1..Len(kept)
      BY <2>1, <2>2, WindowBlock
    <3>. QED
      BY <3>1, <1>1, <1>2, KeptOnce
  <2>4. SubSeq(kept, 1, Len(kept)) = kept
    BY <1>1
  <2>. QED
    BY <2>1, <2>3, <2>4, <1>2
<1>7. CASE ReorgInWindow(c)
  <2>1. PICK j \in 1..(Len(window) - 1) :
          window[j].hash = Parent[c] /\ kept' = Append(SubSeq(kept, 1, off + j), c)
    BY <1>7 DEF ReorgInWindow
  <2>2. j \in 1..Len(window)
    BY <2>1, <1>1
  <2>3. off + j \in 1..Len(kept) /\ kept[off + j] = Parent[c]
    BY <2>1, <2>2, WindowBlock
  <2>4. i = off + j
    BY <2>3, <1>1, <1>2, KeptOnce
  <2>. QED
    BY <2>1, <2>4, <1>2
<1>8. CASE ReorgBelowWindow(c)
  BY <1>3, <1>8 DEF ReorgBelowWindow
<1>. QED
  BY <1>5, <1>6, <1>7, <1>8, PushCases DEF FirstBlock

(* A reorg whose fork is tracked leaves the consumer with its old blocks   *)
(* up to the fork and the new block: nothing above the fork survives the   *)
(* rollback, nothing below it is lost.                                     *)
THEOREM ForkCorrect == Spec => RollsBackToTheFork
<1> DEFINE Back == LET b == kept'[Len(kept')]
                   IN  \A i \in DOMAIN kept :
                         kept[i] = Parent[b] /\ Tracked(kept[i])
                           => kept' = Append(SubSeq(kept, 1, i), b)
<1>1. IInv /\ [Next]_vars => [Back]_vars
  <2> SUFFICES ASSUME IInv, Next
               PROVE  Back
    OBVIOUS
  <2>1. PICK c \in Block : Push(c)
    BY DEF Next
  <2>. QED
    BY <2>1, PushRollsBack
<1>. QED
  BY <1>1, Invariant, PTL DEF Spec, RollsBackToTheFork
=============================================================================
