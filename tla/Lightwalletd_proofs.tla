------------------------- MODULE Lightwalletd_proofs -------------------------
(***************************************************************************)
(* The shape of the branches lightwalletd serves, for every tree of        *)
(* blocks, and the size of a note commitment tree along a branch: what the *)
(* invariants of the servers rely on.  The latter is stated for any number *)
(* of commitments per block, so that it can be cited about WitnessServer   *)
(* by itself and inside CombinedServer.                                    *)
(*                                                                         *)
(* Induction is by least counterexample: the library's induction theorems  *)
(* take an operator as a parameter, which the provers cannot instantiate;  *)
(* that strict inclusion of finite sets is well founded takes none, and    *)
(* yields the least element of a set of naturals.                          *)
(***************************************************************************)
EXTENDS Lightwalletd, Sequences, FiniteSets, FiniteSetTheorems, TLAPS

(* Induction by least counterexample *)

LEMMA LeastNat ==
  ASSUME NEW S \in SUBSET Nat, S # {}
  PROVE  \E n \in S : \A m \in S : n <= m
<1> DEFINE T == {0..n : n \in S}
<1>1. ASSUME NEW n \in S
      PROVE  0..n \in FiniteSubsetsOf(Nat)
  <2>1. IsFiniteSet(0..n)
    BY FS_Interval
  <2>. QED
    BY <2>1 DEF FiniteSubsetsOf
<1>2. T \subseteq FiniteSubsetsOf(Nat) /\ T # {}
  BY <1>1
<1>3. IsWellFoundedOn(StrictSubsetOrdering(Nat), FiniteSubsetsOf(Nat))
  BY FS_StrictSubsetOrderingWellFounded
<1>4. \E x \in T : \A y \in T : ~(<<y, x>> \in StrictSubsetOrdering(Nat))
  <2> HIDE DEF T
  <2>. QED
    BY <1>2, <1>3, WFMin
<1>5. PICK n \in S : \A y \in T : ~(<<y, 0..n>> \in StrictSubsetOrdering(Nat))
  BY <1>4
<1>6. ASSUME NEW m \in S, m < n
      PROVE  FALSE
  <2>1. 0..m \subseteq 0..n /\ 0..m # 0..n /\ 0..m \in SUBSET Nat /\ 0..n \in SUBSET Nat
    BY <1>6
  <2>2. <<0..m, 0..n>> \in StrictSubsetOrdering(Nat)
    BY <2>1 DEF StrictSubsetOrdering
  <2>. QED
    BY <2>2, <1>5
<1>. QED
  BY <1>6

LEMMA GreatestNat ==
  ASSUME NEW S \in SUBSET Nat, S # {}, NEW bound \in Nat, \A n \in S : n <= bound
  PROVE  \E n \in S : \A m \in S : m <= n
<1> DEFINE T == {bound - n : n \in S}
<1>1. T \in SUBSET Nat /\ T # {}
  <2>1. \A n \in S : bound - n \in Nat
    OBVIOUS
  <2>. QED
    BY <2>1
<1>2. \E k \in T : \A l \in T : k <= l
  <2> HIDE DEF T
  <2>. QED
    BY <1>1, LeastNat
<1>3. PICK n \in S : \A l \in T : bound - n <= l
  BY <1>2
<1>4. ASSUME NEW m \in S
      PROVE  m <= n
  BY <1>3
<1>. QED
  BY <1>4

-----------------------------------------------------------------------------

(* Induction along the chain *)

LEMMA HeightType == ASSUME NEW b \in Block PROVE HeightOf[b] \in Nat /\ HeightOf[b] # 0
  BY ChainAssumption

LEMMA ParentHeight ==
  ASSUME NEW b \in Block, Parent[b] \in Block
  PROVE  HeightOf[b] = HeightOf[Parent[b]] + 1
  BY ChainAssumption

LEMMA ParentBelow ==
  ASSUME NEW b \in Block, Parent[b] \in Block
  PROVE  HeightOf[Parent[b]] < HeightOf[b]
<1>1. HeightOf[b] \in Nat /\ HeightOf[Parent[b]] \in Nat
  BY HeightType
<1>. QED
  BY <1>1, ParentHeight

LEMMA ChainInduction ==
  ASSUME NEW S,
         \A b \in Block : (Parent[b] \in Block => Parent[b] \in S) => b \in S
  PROVE  Block \subseteq S
<1> DEFINE Heights == {HeightOf[b] : b \in Block \ S}
<1> SUFFICES ASSUME Heights # {}
             PROVE  FALSE
  OBVIOUS
<1>1. Heights \in SUBSET Nat
  BY HeightType, ParentHeight, ParentBelow
<1>2. \E h \in Heights : \A k \in Heights : h <= k
  <2> HIDE DEF Heights
  <2>. QED
    BY <1>1, LeastNat
<1>3. PICK b \in Block \ S : \A k \in Heights : HeightOf[b] <= k
  BY <1>2
<1>4. Parent[b] \in Block \ S
  BY <1>3
<1>5. HeightOf[b] <= HeightOf[Parent[b]]
  BY <1>3, <1>4
<1>6. HeightOf[Parent[b]] < HeightOf[b]
  BY <1>4, ParentBelow
<1>7. HeightOf[b] \in Nat /\ HeightOf[Parent[b]] \in Nat
  BY <1>4, HeightType
<1>. QED
  BY <1>5, <1>6, <1>7

-----------------------------------------------------------------------------
(* ChainOf is what its recursive definition says *)

(* The blocks up to a height, and the chains of the blocks of a set. *)
UpTo(n) == {b \in Block : HeightOf[b] <= n}
Chains(f, S) ==
  f = [b \in S |-> IF Parent[b] \in Block THEN f[Parent[b]] \cup {b} ELSE {b}]

LEMMA ChainsExist == \A n \in Nat : \E f : Chains(f, UpTo(n))
<1> DEFINE Bad == {n \in Nat : ~ \E f : Chains(f, UpTo(n))}
<1> SUFFICES ASSUME Bad # {}
             PROVE  FALSE
  OBVIOUS
<1>1. PICK n \in Bad : \A m \in Bad : n <= m
  <2>1. Bad \in SUBSET Nat
    OBVIOUS
  <2> HIDE DEF Bad
  <2>. QED
    BY <2>1, LeastNat
<1>2. CASE n = 0
  <2>1. UpTo(0) = {}
    <3>1. ASSUME NEW b \in Block
          PROVE  ~(HeightOf[b] <= 0)
      <4>1. HeightOf[b] \in Nat /\ HeightOf[b] # 0
        BY HeightType
      <4>. QED
        BY <4>1
    <3>. QED
      BY <3>1 DEF UpTo
  <2>2. Chains([b \in {} |-> b], {})
    BY DEF Chains
  <2>. QED
    BY <2>1, <2>2, <1>2
<1>3. CASE n # 0
  <2>1. n - 1 \in Nat /\ n - 1 \notin Bad
    BY <1>1, <1>3
  <2>2. PICK f : Chains(f, UpTo(n - 1))
    BY <2>1
  <2> DEFINE g == [b \in UpTo(n) |->
                     IF Parent[b] \in Block THEN f[Parent[b]] \cup {b} ELSE {b}]
  <2>3. ASSUME NEW b \in UpTo(n)
        PROVE  g[b] = IF Parent[b] \in Block THEN g[Parent[b]] \cup {b} ELSE {b}
    <3>1. CASE Parent[b] \in Block
      <4>1. Parent[b] \in UpTo(n - 1) /\ Parent[b] \in UpTo(n)
        <5>1. b \in Block /\ HeightOf[b] <= n
          BY DEF UpTo
        <5>2. HeightOf[Parent[b]] \in Nat /\ HeightOf[b] = HeightOf[Parent[b]] + 1
          BY <5>1, <3>1, HeightType, ParentHeight
        <5>3. HeightOf[Parent[b]] <= n - 1 /\ HeightOf[Parent[b]] <= n
          BY <5>1, <5>2
        <5>. QED
          BY <3>1, <5>3 DEF UpTo
      <4>2. f[Parent[b]] = g[Parent[b]]
        BY <4>1, <2>2 DEF Chains
      <4>. QED
        BY <4>2, <3>1
    <3>. QED
      BY <3>1
  <2>4. Chains(g, UpTo(n))
    BY <2>3 DEF Chains
  <2>. QED
    BY <2>4, <1>1
<1>. QED
  BY <1>2, <1>3

LEMMA ChainsAgree ==
  ASSUME NEW n \in Nat, NEW m \in Nat, n <= m, NEW f, NEW g,
         Chains(f, UpTo(n)), Chains(g, UpTo(m))
  PROVE  \A b \in UpTo(n) : f[b] = g[b]
<1> DEFINE S == {b \in Block : b \in UpTo(n) => f[b] = g[b]}
<1>1. ASSUME NEW b \in Block, Parent[b] \in Block => Parent[b] \in S
      PROVE  b \in S
  <2>1. CASE b \in UpTo(n) /\ Parent[b] \in Block
    <3>1. Parent[b] \in UpTo(n) /\ b \in UpTo(m)
      BY <2>1, HeightType, ParentHeight, ParentBelow DEF UpTo
    <3>. QED
      BY <3>1, <2>1, <1>1 DEF Chains
  <2>2. CASE b \in UpTo(n) /\ Parent[b] \notin Block
    <3>1. b \in UpTo(m)
      BY <2>2, HeightType, ParentHeight, ParentBelow DEF UpTo
    <3>. QED
      BY <3>1, <2>2 DEF Chains
  <2>. QED
    BY <2>1, <2>2
<1>2. Block \subseteq S
  <2> HIDE DEF S
  <2>. QED
    BY <1>1, ChainInduction
<1>. QED
  BY <1>2 DEF UpTo

LEMMA ChainOfBlock ==
  \A b \in Block :
    ChainOf[b] = IF Parent[b] \in Block THEN ChainOf[Parent[b]] \cup {b} ELSE {b}
<1> DEFINE F(n) == CHOOSE f : Chains(f, UpTo(n))
           C == [b \in Block |-> F(HeightOf[b])[b]]
<1>1. \A n \in Nat : Chains(F(n), UpTo(n))
  BY ChainsExist
<1> HIDE DEF F
<1>2. ASSUME NEW b \in Block
      PROVE  C[b] = IF Parent[b] \in Block THEN C[Parent[b]] \cup {b} ELSE {b}
  <2>1. HeightOf[b] \in Nat /\ b \in UpTo(HeightOf[b])
    BY HeightType, ParentHeight, ParentBelow DEF UpTo
  <2>2. C[b] = IF Parent[b] \in Block THEN F(HeightOf[b])[Parent[b]] \cup {b} ELSE {b}
    BY <2>1, <1>1 DEF Chains
  <2>3. CASE Parent[b] \in Block
    <3> DEFINE p == Parent[b]
    <3>1. HeightOf[p] \in Nat /\ HeightOf[p] <= HeightOf[b] /\ p \in UpTo(HeightOf[p])
      BY <2>3, HeightType, ParentHeight, ParentBelow DEF UpTo
    <3>2. F(HeightOf[p])[p] = F(HeightOf[b])[p]
      BY <3>1, <2>1, <1>1, ChainsAgree
    <3>. QED
      BY <3>2, <2>2, <2>3
  <2>. QED
    BY <2>2, <2>3
<1>3. C = [b \in Block |-> IF Parent[b] \in Block THEN C[Parent[b]] \cup {b} ELSE {b}]
  BY <1>2
<1> HIDE DEF C
<1>4. ChainOf = [b \in Block |-> IF Parent[b] \in Block THEN ChainOf[Parent[b]] \cup {b} ELSE {b}]
  BY <1>3 DEF ChainOf
<1>. QED
  BY <1>4

-----------------------------------------------------------------------------
(* The shape of a branch *)

(* A branch ends in its tip and holds blocks at most as high. *)
LEMMA ChainBelowTip ==
  ASSUME NEW b \in Block
  PROVE  /\ b \in ChainOf[b]
         /\ ChainOf[b] \subseteq Block
         /\ \A c \in ChainOf[b] : HeightOf[c] <= HeightOf[b]
<1> DEFINE S == {d \in Block : /\ d \in ChainOf[d]
                               /\ ChainOf[d] \subseteq Block
                               /\ \A c \in ChainOf[d] : HeightOf[c] <= HeightOf[d]}
<1>1. ASSUME NEW d \in Block, Parent[d] \in Block => Parent[d] \in S
      PROVE  d \in S
  <2>1. CASE Parent[d] \in Block
    <3>1. ChainOf[d] = ChainOf[Parent[d]] \cup {d}
      BY <2>1, ChainOfBlock
    <3>2. ASSUME NEW c \in ChainOf[d]
          PROVE  c \in Block /\ HeightOf[c] <= HeightOf[d]
      <4>1. HeightOf[d] \in Nat /\ HeightOf[Parent[d]] < HeightOf[d]
        BY <2>1, HeightType, ParentBelow
      <4>2. CASE c \in ChainOf[Parent[d]]
        <5>1. c \in Block /\ HeightOf[c] <= HeightOf[Parent[d]]
          BY <4>2, <2>1, <1>1
        <5>2. HeightOf[c] \in Nat /\ HeightOf[Parent[d]] \in Nat
          BY <5>1, <2>1, HeightType
        <5>. QED
          BY <5>1, <5>2, <4>1
      <4>. QED
        BY <4>1, <4>2, <3>1
    <3>. QED
      BY <3>1, <3>2
  <2>2. CASE Parent[d] \notin Block
    <3>1. ChainOf[d] = {d} /\ HeightOf[d] \in Nat
      BY <2>2, ChainOfBlock, HeightType
    <3>. QED
      BY <3>1
  <2>. QED
    BY <2>1, <2>2
<1>2. Block \subseteq S
  <2> HIDE DEF S
  <2>. QED
    BY <1>1, ChainInduction
<1>. QED
  BY <1>2

(* A branch has at most one block per height. *)
LEMMA ChainHeightsDiffer ==
  ASSUME NEW b \in Block, NEW c \in ChainOf[b], NEW d \in ChainOf[b],
         HeightOf[c] = HeightOf[d]
  PROVE  c = d
<1> DEFINE S == {e \in Block : \A x, y \in ChainOf[e] : HeightOf[x] = HeightOf[y] => x = y}
<1>1. ASSUME NEW e \in Block, Parent[e] \in Block => Parent[e] \in S
      PROVE  e \in S
  <2>1. CASE Parent[e] \in Block
    <3>1. ChainOf[e] = ChainOf[Parent[e]] \cup {e}
      BY <2>1, ChainOfBlock
    <3>2. \A x \in ChainOf[Parent[e]] : x \in Block /\ HeightOf[x] <= HeightOf[Parent[e]]
      BY <2>1, ChainBelowTip
    <3>3. \A x \in ChainOf[Parent[e]] : HeightOf[x] # HeightOf[e]
      BY <3>2, <2>1, HeightType, ParentHeight, ParentBelow
    <3>. QED
      BY <3>1, <3>3, <2>1, <1>1
  <2>2. CASE Parent[e] \notin Block
    BY <2>2, ChainOfBlock
  <2>. QED
    BY <2>1, <2>2
<1>2. Block \subseteq S
  <2> HIDE DEF S
  <2>. QED
    BY <1>1, ChainInduction
<1>. QED
  BY <1>2

(* A branch has no gap. *)
LEMMA ChainHasNoGap ==
  ASSUME NEW b \in Block, NEW c \in ChainOf[b], NEW h \in HeightOf[c]..HeightOf[b]
  PROVE  \E d \in ChainOf[b] : HeightOf[d] = h
<1> DEFINE S == {e \in Block : \A x \in ChainOf[e] : \A k \in HeightOf[x]..HeightOf[e] :
                                 \E d \in ChainOf[e] : HeightOf[d] = k}
<1>1. ASSUME NEW e \in Block, Parent[e] \in Block => Parent[e] \in S
      PROVE  e \in S
  <2>1. CASE Parent[e] \in Block
    <3>1. ChainOf[e] = ChainOf[Parent[e]] \cup {e}
      BY <2>1, ChainOfBlock
    <3>2. ASSUME NEW x \in ChainOf[e], NEW k \in HeightOf[x]..HeightOf[e], k # HeightOf[e]
          PROVE  \E d \in ChainOf[e] : HeightOf[d] = k
      <4>1. x \in Block /\ HeightOf[x] \in Nat /\ HeightOf[e] \in Nat
            /\ HeightOf[e] = HeightOf[Parent[e]] + 1 /\ HeightOf[Parent[e]] \in Nat
        BY <2>1, ChainBelowTip, HeightType, ParentHeight, ParentBelow
      <4>2. x \in ChainOf[Parent[e]]
        BY <3>1, <3>2, <4>1
      <4>3. k \in HeightOf[x]..HeightOf[Parent[e]]
        BY <3>2, <4>1
      <4>. QED
        BY <4>2, <4>3, <3>1, <2>1, <1>1
    <3>. QED
      BY <3>1, <3>2
  <2>2. CASE Parent[e] \notin Block
    <3>1. ChainOf[e] = {e}
      BY <2>2, ChainOfBlock
    <3>. QED
      BY <3>1, HeightType, ParentHeight, ParentBelow
  <2>. QED
    BY <2>1, <2>2
<1>2. Block \subseteq S
  <2> HIDE DEF S
  <2>. QED
    BY <1>1, ChainInduction
<1>. QED
  BY <1>2

(* A block that is mined extends the branch. *)
LEMMA GrowExtendsChain ==
  ASSUME best \in Block, Grow
  PROVE  /\ best' \in Block
         /\ HeightOf[best'] = HeightOf[best] + 1
         /\ ChainOf[best]  \subseteq ChainOf[best']
         /\ switches' = switches
  BY ChainOfBlock, HeightType, ParentHeight, ParentBelow DEF Grow

(* What a stream yields is on the branch, at the height asked for. *)
LEMMA BlockAtHeight ==
  ASSUME best \in Block, NEW h, Available(h)
  PROVE  /\ BlockAt(h) \in ChainOf[best]
         /\ BlockAt(h) \in Block
         /\ HeightOf[BlockAt(h)] = h
  BY ChainBelowTip DEF Available, BlockAt

(* In a branch, a block's parent is the block one below it. *)
LEMMA ChainStep ==
  ASSUME NEW x \in Block, NEW b \in ChainOf[x], NEW c \in ChainOf[x],
         HeightOf[b] = HeightOf[c] + 1
  PROVE  Parent[b] = c
<1> DEFINE S == {y \in Block : \A d, e \in ChainOf[y] :
                                 HeightOf[d] = HeightOf[e] + 1 => Parent[d] = e}
<1>1. ASSUME NEW y \in Block, Parent[y] \in Block => Parent[y] \in S
      PROVE  y \in S
  <2>1. CASE Parent[y] \in Block
    <3>1. ChainOf[y] = ChainOf[Parent[y]] \cup {y}
      BY <2>1, ChainOfBlock
    <3>2. ASSUME NEW d \in ChainOf[y], NEW e \in ChainOf[y], HeightOf[d] = HeightOf[e] + 1
          PROVE  Parent[d] = e
      <4>1. /\ d \in Block /\ e \in Block /\ HeightOf[d] \in Nat /\ HeightOf[e] \in Nat
            /\ HeightOf[d] <= HeightOf[y] /\ HeightOf[e] <= HeightOf[y] /\ HeightOf[y] \in Nat
        BY ChainBelowTip, HeightType
      <4>2. e # y
        BY <4>1, <3>2
      <4>3. e \in ChainOf[Parent[y]]
        BY <4>2, <3>1
      <4>4. CASE d \in ChainOf[Parent[y]]
        BY <4>3, <4>4, <3>2, <2>1, <1>1
      <4>5. CASE d = y
        <5>1. HeightOf[e] = HeightOf[Parent[y]] /\ Parent[y] \in ChainOf[Parent[y]]
          <6>1. HeightOf[y] = HeightOf[Parent[y]] + 1 /\ HeightOf[Parent[y]] \in Nat
            BY <2>1, ParentHeight, HeightType
          <6>. QED
            BY <6>1, <4>1, <4>5, <3>2, <2>1, ChainBelowTip
        <5>. QED
          BY <5>1, <4>3, <4>5, <2>1, ChainHeightsDiffer
      <4>. QED
        BY <4>4, <4>5, <3>1
    <3>. QED
      BY <3>2
  <2>2. CASE Parent[y] \notin Block
    <3>1. ChainOf[y] = {y} /\ HeightOf[y] \in Nat
      BY <2>2, ChainOfBlock, HeightType
    <3>. QED
      BY <3>1
  <2>. QED
    BY <2>1, <2>2
<1>2. Block \subseteq S
  <2> HIDE DEF S
  <2>. QED
    BY <1>1, ChainInduction
<1>. QED
  BY <1>2

(* A branch whose lowest block is not above the floor holds every height   *)
(* from the floor to its tip.                                              *)
LEMMA BranchReaches ==
  ASSUME NEW floor \in Nat, \A b \in Block : Parent[b] \notin Block => HeightOf[b] <= floor,
         NEW x \in Block
  PROVE  \E c \in ChainOf[x] : HeightOf[c] <= floor
<1> DEFINE S == {d \in Block : \E c \in ChainOf[d] : HeightOf[c] <= floor}
<1>1. ASSUME NEW d \in Block, Parent[d] \in Block => Parent[d] \in S
      PROVE  d \in S
  <2>1. CASE Parent[d] \in Block
    <3>1. ChainOf[d] = ChainOf[Parent[d]] \cup {d}
      BY <2>1, ChainOfBlock
    <3>. QED
      BY <3>1, <2>1, <1>1
  <2>2. CASE Parent[d] \notin Block
    <3>1. ChainOf[d] = {d} /\ HeightOf[d] <= floor
      BY <2>2, ChainOfBlock
    <3>. QED
      BY <3>1
  <2>. QED
    BY <2>1, <2>2
<1>2. Block \subseteq S
  <2> HIDE DEF S
  <2>. QED
    BY <1>1, ChainInduction
<1>. QED
  BY <1>2

LEMMA AvailableBetween ==
  ASSUME best \in Block, NEW c \in ChainOf[best], NEW h \in Nat,
         HeightOf[c] <= h, h <= HeightOf[best]
  PROVE  Available(h)
<1>1. c \in Block /\ HeightOf[c] \in Nat /\ HeightOf[best] \in Nat
  BY ChainBelowTip, HeightType
<1>2. h \in HeightOf[c]..HeightOf[best]
  BY <1>1
<1>. QED
  BY <1>2, ChainHasNoGap DEF Available

-----------------------------------------------------------------------------
(* The size of the chain's tree after a block *)

(* cm[b] added up from the bottom of b's branch to b. *)
TotalOf(cm) ==
  CHOOSE f : f = [b \in Block |-> cm[b] + IF Parent[b] \in Block THEN f[Parent[b]] ELSE 0]

Totals(cm, f, S) ==
  f = [b \in S |-> cm[b] + IF Parent[b] \in Block THEN f[Parent[b]] ELSE 0]

LEMMA TotalsExist == ASSUME NEW cm PROVE \A n \in Nat : \E f : Totals(cm, f, UpTo(n))
<1> DEFINE Bad == {n \in Nat : ~ \E f : Totals(cm, f, UpTo(n))}
<1> SUFFICES ASSUME Bad # {}
             PROVE  FALSE
  OBVIOUS
<1>1. PICK n \in Bad : \A m \in Bad : n <= m
  <2>1. Bad \in SUBSET Nat
    OBVIOUS
  <2> HIDE DEF Bad
  <2>. QED
    BY <2>1, LeastNat
<1>2. CASE n = 0
  <2>1. UpTo(0) = {}
    <3>1. ASSUME NEW b \in Block
          PROVE  ~(HeightOf[b] <= 0)
      <4>1. HeightOf[b] \in Nat /\ HeightOf[b] # 0
        BY HeightType
      <4>. QED
        BY <4>1
    <3>. QED
      BY <3>1 DEF UpTo
  <2>2. Totals(cm, [b \in {} |-> b], {})
    BY DEF Totals
  <2>. QED
    BY <2>1, <2>2, <1>2
<1>3. CASE n # 0
  <2>1. n - 1 \in Nat /\ n - 1 \notin Bad
    BY <1>1, <1>3
  <2>2. PICK f : Totals(cm, f, UpTo(n - 1))
    BY <2>1
  <2> DEFINE g == [b \in UpTo(n) |->
                     cm[b] + IF Parent[b] \in Block THEN f[Parent[b]] ELSE 0]
  <2>3. ASSUME NEW b \in UpTo(n)
        PROVE  g[b] = cm[b] + IF Parent[b] \in Block THEN g[Parent[b]] ELSE 0
    <3>1. CASE Parent[b] \in Block
      <4>1. Parent[b] \in UpTo(n - 1) /\ Parent[b] \in UpTo(n)
        <5>1. b \in Block /\ HeightOf[b] <= n
          BY DEF UpTo
        <5>2. HeightOf[Parent[b]] \in Nat /\ HeightOf[b] = HeightOf[Parent[b]] + 1
          BY <5>1, <3>1, HeightType, ParentHeight
        <5>3. HeightOf[Parent[b]] <= n - 1 /\ HeightOf[Parent[b]] <= n
          BY <5>1, <5>2
        <5>. QED
          BY <3>1, <5>3 DEF UpTo
      <4>2. f[Parent[b]] = g[Parent[b]]
        BY <4>1, <2>2 DEF Totals
      <4>. QED
        BY <4>2, <3>1
    <3>. QED
      BY <3>1
  <2>4. Totals(cm, g, UpTo(n))
    BY <2>3 DEF Totals
  <2>. QED
    BY <2>4, <1>1
<1>. QED
  BY <1>2, <1>3

LEMMA TotalsAgree ==
  ASSUME NEW cm, NEW n \in Nat, NEW m \in Nat, n <= m, NEW f, NEW g,
         Totals(cm, f, UpTo(n)), Totals(cm, g, UpTo(m))
  PROVE  \A b \in UpTo(n) : f[b] = g[b]
<1> DEFINE S == {b \in Block : b \in UpTo(n) => f[b] = g[b]}
<1>1. ASSUME NEW b \in Block, Parent[b] \in Block => Parent[b] \in S
      PROVE  b \in S
  <2>1. CASE b \in UpTo(n) /\ Parent[b] \in Block
    <3>1. Parent[b] \in UpTo(n) /\ b \in UpTo(m)
      BY <2>1, HeightType, ParentHeight, ParentBelow DEF UpTo
    <3>. QED
      BY <3>1, <2>1, <1>1 DEF Totals
  <2>2. CASE b \in UpTo(n) /\ Parent[b] \notin Block
    <3>1. b \in UpTo(m)
      BY <2>2, HeightType DEF UpTo
    <3>. QED
      BY <3>1, <2>2 DEF Totals
  <2>. QED
    BY <2>1, <2>2
<1>2. Block \subseteq S
  <2> HIDE DEF S
  <2>. QED
    BY <1>1, ChainInduction
<1>. QED
  BY <1>2 DEF UpTo

LEMMA TotalOfBlock ==
  ASSUME NEW cm
  PROVE  \A b \in Block :
           TotalOf(cm)[b] = cm[b] + IF Parent[b] \in Block THEN TotalOf(cm)[Parent[b]] ELSE 0
<1> DEFINE F(n) == CHOOSE f : Totals(cm, f, UpTo(n))
           C == [b \in Block |-> F(HeightOf[b])[b]]
<1>1. \A n \in Nat : Totals(cm, F(n), UpTo(n))
  BY TotalsExist
<1> HIDE DEF F
<1>2. ASSUME NEW b \in Block
      PROVE  C[b] = cm[b] + IF Parent[b] \in Block THEN C[Parent[b]] ELSE 0
  <2>1. HeightOf[b] \in Nat /\ b \in UpTo(HeightOf[b])
    BY HeightType DEF UpTo
  <2>2. C[b] = cm[b] + IF Parent[b] \in Block THEN F(HeightOf[b])[Parent[b]] ELSE 0
    BY <2>1, <1>1 DEF Totals
  <2>3. CASE Parent[b] \in Block
    <3> DEFINE p == Parent[b]
    <3>1. HeightOf[p] \in Nat /\ HeightOf[p] <= HeightOf[b] /\ p \in UpTo(HeightOf[p])
      BY <2>3, HeightType, ParentHeight, ParentBelow DEF UpTo
    <3>2. F(HeightOf[p])[p] = F(HeightOf[b])[p]
      BY <3>1, <2>1, <1>1, TotalsAgree
    <3>. QED
      BY <3>2, <2>2, <2>3
  <2>. QED
    BY <2>2, <2>3
<1>3. C = [b \in Block |-> cm[b] + IF Parent[b] \in Block THEN C[Parent[b]] ELSE 0]
  BY <1>2
<1> HIDE DEF C
<1>4. TotalOf(cm) = [b \in Block |->
                       cm[b] + IF Parent[b] \in Block THEN TotalOf(cm)[Parent[b]] ELSE 0]
  BY <1>3 DEF TotalOf
<1>. QED
  BY <1>4

LEMMA TotalOfType ==
  ASSUME NEW cm \in [Block -> Nat], NEW b \in Block
  PROVE  TotalOf(cm)[b] \in Nat /\ TotalOf(cm)[b] - cm[b] \in Nat /\ cm[b] \in Nat
<1> DEFINE S == {y \in Block : TotalOf(cm)[y] \in Nat /\ TotalOf(cm)[y] - cm[y] \in Nat}
<1>1. ASSUME NEW y \in Block, Parent[y] \in Block => Parent[y] \in S
      PROVE  y \in S
  <2>1. cm[y] \in Nat
    OBVIOUS
  <2>2. CASE Parent[y] \in Block
    <3>1. TotalOf(cm)[y] = cm[y] + TotalOf(cm)[Parent[y]] /\ TotalOf(cm)[Parent[y]] \in Nat
      BY <2>2, <1>1, TotalOfBlock
    <3>. QED
      BY <3>1, <2>1
  <2>3. CASE Parent[y] \notin Block
    <3>1. TotalOf(cm)[y] = cm[y] + 0
      BY <2>3, TotalOfBlock
    <3>. QED
      BY <3>1, <2>1
  <2>. QED
    BY <2>2, <2>3
<1>2. Block \subseteq S
  <2> HIDE DEF S
  <2>. QED
    BY <1>1, ChainInduction
<1>. QED
  BY <1>2

(* Nothing below the floor. *)
NoneBelow(cm, floor) ==
  /\ cm \in [Block -> Nat]
  /\ floor \in Nat
  /\ \A b \in Block : HeightOf[b] < floor => cm[b] = 0

LEMMA TotalOfBelow ==
  ASSUME NEW cm, NEW floor, NoneBelow(cm, floor), NEW b \in Block, HeightOf[b] < floor
  PROVE  TotalOf(cm)[b] = 0
<1> DEFINE S == {y \in Block : HeightOf[y] < floor => TotalOf(cm)[y] = 0}
<1>1. ASSUME NEW y \in Block, Parent[y] \in Block => Parent[y] \in S, HeightOf[y] < floor
      PROVE  TotalOf(cm)[y] = 0
  <2>1. cm[y] = 0
    BY <1>1 DEF NoneBelow
  <2>2. CASE Parent[y] \in Block
    <3>1. HeightOf[Parent[y]] < HeightOf[y] /\ HeightOf[y] \in Nat /\ HeightOf[Parent[y]] \in Nat
      BY <2>2, HeightType, ParentBelow
    <3>2. HeightOf[Parent[y]] < floor
      BY <3>1, <1>1 DEF NoneBelow
    <3>3. TotalOf(cm)[Parent[y]] = 0
      BY <3>2, <2>2, <1>1
    <3>. QED
      BY <3>3, <2>1, <2>2, TotalOfBlock
  <2>3. CASE Parent[y] \notin Block
    BY <2>1, <2>3, TotalOfBlock
  <2>. QED
    BY <2>2, <2>3
<1>2. Block \subseteq S
  <2>1. \A y \in Block : (Parent[y] \in Block => Parent[y] \in S) => y \in S
    BY <1>1
  <2> HIDE DEF S
  <2>. QED
    BY <2>1, ChainInduction
<1>. QED
  BY <1>2

(* The size before a block is the size after the one below it. *)
LEMMA TotalOfStep ==
  ASSUME NEW cm \in [Block -> Nat], NEW x \in Block, NEW b \in ChainOf[x], NEW c \in ChainOf[x],
         HeightOf[b] = HeightOf[c] + 1
  PROVE  TotalOf(cm)[b] - cm[b] = TotalOf(cm)[c]
<1>1. Parent[b] = c /\ b \in Block /\ c \in Block
  BY ChainStep, ChainBelowTip
<1>2. TotalOf(cm)[b] = cm[b] + TotalOf(cm)[c]
  BY <1>1, TotalOfBlock
<1>3. cm[b] \in Nat /\ TotalOf(cm)[c] \in Nat
  BY <1>1, TotalOfType
<1>. QED
  BY <1>2, <1>3

LEMMA TotalOfLowest ==
  ASSUME NEW cm, NEW floor, NoneBelow(cm, floor), NEW b \in Block, HeightOf[b] <= floor
  PROVE  TotalOf(cm)[b] - cm[b] = 0
<1>1. cm[b] \in Nat /\ cm \in [Block -> Nat]
  BY DEF NoneBelow
<1>2. CASE Parent[b] \in Block
  <2>1. HeightOf[Parent[b]] < HeightOf[b] /\ HeightOf[b] \in Nat /\ HeightOf[Parent[b]] \in Nat
    BY <1>2, HeightType, ParentBelow
  <2>2. HeightOf[Parent[b]] < floor
    BY <2>1 DEF NoneBelow
  <2>3. TotalOf(cm)[Parent[b]] = 0
    BY <2>2, <1>2, TotalOfBelow
  <2>. QED
    BY <2>3, <1>1, <1>2, TotalOfBlock
<1>3. CASE Parent[b] \notin Block
  BY <1>1, <1>3, TotalOfBlock
<1>. QED
  BY <1>2, <1>3

(* Every leaf of the chain's tree was brought by a block of the branch. *)
LEMMA CompletingBlockOf ==
  ASSUME NEW cm \in [Block -> Nat], NEW x \in Block, NEW leaf \in Nat, 0 < leaf, leaf <= TotalOf(cm)[x]
  PROVE  \E b \in ChainOf[x] : TotalOf(cm)[b] >= leaf /\ TotalOf(cm)[b] - cm[b] < leaf
<1> DEFINE S == {y \in Block :
                   leaf <= TotalOf(cm)[y] =>
                     \E b \in ChainOf[y] : /\ TotalOf(cm)[b] >= leaf
                                           /\ TotalOf(cm)[b] - cm[b] < leaf}
<1>1. ASSUME NEW y \in Block, Parent[y] \in Block => Parent[y] \in S, leaf <= TotalOf(cm)[y]
      PROVE  \E b \in ChainOf[y] : /\ TotalOf(cm)[b] >= leaf
                                   /\ TotalOf(cm)[b] - cm[b] < leaf
  <2>1. TotalOf(cm)[y] \in Nat /\ cm[y] \in Nat /\ y \in ChainOf[y]
    BY TotalOfType, ChainBelowTip
  <2>2. CASE TotalOf(cm)[y] - cm[y] < leaf
    BY <2>1, <2>2, <1>1
  <2>3. CASE ~(TotalOf(cm)[y] - cm[y] < leaf)
    <3>1. Parent[y] \in Block
      <4>1. SUFFICES ASSUME Parent[y] \notin Block PROVE FALSE
        OBVIOUS
      <4>2. TotalOf(cm)[y] = cm[y] + 0
        BY <4>1, TotalOfBlock
      <4>. QED
        BY <4>2, <2>1, <2>3
    <3>2. TotalOf(cm)[y] = cm[y] + TotalOf(cm)[Parent[y]] /\ TotalOf(cm)[Parent[y]] \in Nat
      BY <3>1, TotalOfBlock, TotalOfType
    <3>3. leaf <= TotalOf(cm)[Parent[y]]
      BY <3>2, <2>1, <2>3
    <3>4. ChainOf[Parent[y]] \subseteq ChainOf[y]
      BY <3>1, ChainOfBlock
    <3>. QED
      BY <3>1, <3>3, <3>4, <1>1
  <2>. QED
    BY <2>2, <2>3
<1>2. Block \subseteq S
  <2>1. \A y \in Block : (Parent[y] \in Block => Parent[y] \in S) => y \in S
    BY <1>1
  <2> HIDE DEF S
  <2>. QED
    BY <2>1, ChainInduction
<1>. QED
  BY <1>2

-----------------------------------------------------------------------------
(* The size of a tree: an offset and the block records behind it *)

RecordType == [block : Block, num : Nat]
TreeType == [offset : Nat, records : Seq(RecordType)]

Greatest(s) == CHOOSE x \in s : \A y \in s : x >= y

RecordSums(f, t) ==
  f = [s \in SUBSET DOMAIN t.records |->
         IF s = {} THEN t.offset ELSE f[s \ {Greatest(s)}] + t.records[Greatest(s)].num]

LEMMA TreeFields ==
  ASSUME NEW t \in TreeType
  PROVE  /\ t.offset \in Nat /\ t.records \in Seq(RecordType)
         /\ Len(t.records) \in Nat /\ DOMAIN t.records = 1..Len(t.records)
         /\ \A i \in 1..Len(t.records) : /\ t.records[i] \in RecordType
                                         /\ t.records[i].num \in Nat
                                         /\ t.records[i].block \in Block
<1>1. t.offset \in Nat /\ t.records \in Seq(RecordType)
  BY DEF TreeType
<1>2. \A i \in 1..Len(t.records) : t.records[i] \in RecordType
  BY <1>1
<1>. QED
  BY <1>1, <1>2 DEF RecordType

LEMMA GreatestIn ==
  ASSUME NEW n \in Nat, NEW s \in SUBSET (1..n), s # {}
  PROVE  Greatest(s) \in s
<1>1. s \in SUBSET Nat /\ \A i \in s : i <= n
  OBVIOUS
<1>2. \E i \in s : \A j \in s : j <= i
  BY <1>1, GreatestNat
<1>3. \E i \in s : \A j \in s : i >= j
  BY <1>1, <1>2
<1>. QED
  BY <1>3 DEF Greatest

LEMMA GreatestOfPrefix == ASSUME NEW n \in Nat \ {0} PROVE Greatest(1..n) = n
<1>1. n \in 1..n /\ \A j \in 1..n : n >= j
  OBVIOUS
<1>2. ASSUME NEW i \in 1..n, \A j \in 1..n : i >= j
      PROVE  i = n
  BY <1>1, <1>2
<1>. QED
  BY <1>1, <1>2 DEF Greatest

LEMMA RecordSumsExist ==
  ASSUME NEW t \in TreeType
  PROVE  \E f : RecordSums(f, t)
<1> DEFINE D == DOMAIN t.records
           Small(n) == {s \in SUBSET D : Cardinality(s) <= n}
           Upto(f, n) == f = [s \in Small(n) |->
                                IF s = {} THEN t.offset
                                ELSE f[s \ {Greatest(s)}] + t.records[Greatest(s)].num]
           Bad == {n \in Nat : ~ \E f : Upto(f, n)}
<1>0. /\ D = 1..Len(t.records) /\ Len(t.records) \in Nat
      /\ IsFiniteSet(D) /\ Cardinality(D) \in Nat
      /\ \A s \in SUBSET D : IsFiniteSet(s) /\ Cardinality(s) \in Nat
  <2>1. D = 1..Len(t.records) /\ Len(t.records) \in Nat
    BY TreeFields
  <2>2. IsFiniteSet(1..Len(t.records))
    BY <2>1, FS_Interval
  <2>. QED
    BY <2>1, <2>2, FS_Subset, FS_CardinalityType
<1>1. \E f : Upto(f, 0)
  <2>1. \A s \in Small(0) : s = {}
    BY <1>0, FS_EmptySet
  <2>2. Upto([s \in Small(0) |-> t.offset], 0)
    BY <2>1
  <2>. QED
    BY <2>2
<1>2. ASSUME NEW n \in Nat, n # 0, \E f : Upto(f, n - 1)
      PROVE  \E f : Upto(f, n)
  <2>1. PICK f : Upto(f, n - 1)
    BY <1>2
  <2> DEFINE g == [s \in Small(n) |->
                     IF s = {} THEN t.offset
                     ELSE f[s \ {Greatest(s)}] + t.records[Greatest(s)].num]
  <2>2. ASSUME NEW s \in Small(n), s # {}
        PROVE  g[s] = g[s \ {Greatest(s)}] + t.records[Greatest(s)].num
    <3> DEFINE r == s \ {Greatest(s)}
    <3>1. Greatest(s) \in s
      BY <2>2, <1>0, GreatestIn
    <3>2. Cardinality(r) = Cardinality(s) - 1 /\ r \in SUBSET D
      BY <3>1, <1>0, FS_RemoveElement
    <3>3. r \in Small(n - 1) /\ r \in Small(n)
      BY <3>2, <1>0, <1>2
    <3>4. f[r] = g[r]
      BY <3>3, <2>1
    <3>. QED
      BY <3>4, <2>2
  <2>3. Upto(g, n)
    BY <2>2
  <2>. QED
    BY <2>3
<1>3. Bad = {}
  <2>1. SUFFICES ASSUME Bad # {} PROVE FALSE
    OBVIOUS
  <2>2. Bad \in SUBSET Nat
    OBVIOUS
  <2>3. \E n \in Bad : \A m \in Bad : n <= m
    <3> HIDE DEF Bad
    <3>. QED
      BY <2>1, <2>2, LeastNat
  <2>4. PICK n \in Bad : \A m \in Bad : n <= m
    BY <2>3
  <2>5. n \in Nat /\ n # 0
    BY <1>1
  <2>6. n - 1 \notin Bad /\ n - 1 \in Nat
    <3>1. n - 1 \in Nat /\ ~(n <= n - 1)
      BY <2>5
    <3> HIDE DEF Bad
    <3>. QED
      BY <3>1, <2>4
  <2>7. \E f : Upto(f, n - 1)
    BY <2>6
  <2>. QED
    BY <2>5, <2>7, <1>2
<1>4. Small(Cardinality(D)) = SUBSET D
  <2>1. \A s \in SUBSET D : Cardinality(s) <= Cardinality(D)
    BY <1>0, FS_Subset
  <2>. QED
    BY <2>1
<1>5. PICK f : Upto(f, Cardinality(D))
  BY <1>3, <1>0
<1>. QED
  BY <1>4, <1>5 DEF RecordSums

(* The sum over the first n records. *)
SumOf(t, n) == (CHOOSE f : RecordSums(f, t))[1..n]

LEMMA SumSteps ==
  ASSUME NEW t \in TreeType
  PROVE  /\ SumOf(t, 0) = t.offset
         /\ \A n \in 1..Len(t.records) : SumOf(t, n) = SumOf(t, n - 1) + t.records[n].num
<1> DEFINE f == CHOOSE g : RecordSums(g, t)
           D == DOMAIN t.records
<1>1. RecordSums(f, t)
  BY RecordSumsExist
<1>2. D = 1..Len(t.records) /\ Len(t.records) \in Nat
  BY TreeFields
<1> HIDE DEF f
<1>4. \A s \in SUBSET D :
        f[s] = IF s = {} THEN t.offset ELSE f[s \ {Greatest(s)}] + t.records[Greatest(s)].num
  BY <1>1 DEF RecordSums
<1>5. f[{}] = t.offset
  BY <1>4
<1>6. ASSUME NEW n \in 1..Len(t.records)
      PROVE  f[1..n] = f[1..(n - 1)] + t.records[n].num
  <2>1. 1..n \in SUBSET D /\ n \in Nat \ {0} /\ 1..n # {}
    <3>1. n \in Nat \ {0} /\ n <= Len(t.records) /\ n \in 1..n
      BY <1>2
    <3>2. \A i \in 1..n : i \in 1..Len(t.records)
      BY <3>1, <1>2
    <3>. QED
      BY <3>1, <3>2, <1>2
  <2>2. Greatest(1..n) = n
    BY <2>1, GreatestOfPrefix
  <2>3. (1..n) \ {n} = 1..(n - 1)
    BY <2>1
  <2>. QED
    BY <2>1, <2>2, <2>3, <1>4
<1>7. 1..0 = {}
  OBVIOUS
<1>. QED
  BY <1>2, <1>5, <1>6, <1>7 DEF SumOf, f

(* Trees that begin alike have the same partial sums. *)
LEMMA SumsAgree ==
  ASSUME NEW t \in TreeType, NEW u \in TreeType, t.offset = u.offset,
         NEW k \in Nat, k <= Len(t.records), k <= Len(u.records),
         \A i \in 1..k : t.records[i] = u.records[i]
  PROVE  SumOf(t, k) = SumOf(u, k)
<1> DEFINE Bad == {n \in 0..k : SumOf(t, n) # SumOf(u, n)}
<1>1. Len(t.records) \in Nat /\ Len(u.records) \in Nat
  BY TreeFields
<1>2. Bad = {}
  <2>1. SUFFICES ASSUME Bad # {} PROVE FALSE
    OBVIOUS
  <2>2. Bad \in SUBSET Nat
    OBVIOUS
  <2>3. \E n \in Bad : \A m \in Bad : n <= m
    <3> HIDE DEF Bad
    <3>. QED
      BY <2>1, <2>2, LeastNat
  <2>4. PICK n \in Bad : \A m \in Bad : n <= m
    BY <2>3
  <2>5. n \in 0..k /\ n # 0
    BY SumSteps
  <2>6. n - 1 \notin Bad /\ n - 1 \in 0..k
    <3>1. n - 1 \in 0..k /\ ~(n <= n - 1)
      BY <2>5
    <3> HIDE DEF Bad
    <3>. QED
      BY <3>1, <2>4
  <2>7. SumOf(t, n - 1) = SumOf(u, n - 1)
    BY <2>6
  <2>8. n \in 1..Len(t.records) /\ n \in 1..Len(u.records) /\ t.records[n] = u.records[n]
    BY <2>5, <1>1
  <2>9. SumOf(t, n) = SumOf(t, n - 1) + t.records[n].num
    BY <2>8, SumSteps
  <2>10. SumOf(u, n) = SumOf(u, n - 1) + u.records[n].num
    BY <2>8, SumSteps
  <2>. QED
    BY <2>4, <2>7, <2>8, <2>9, <2>10
<1>. QED
  BY <1>2

LEMMA SumType ==
  ASSUME NEW t \in TreeType, NEW k \in 0..Len(t.records)
  PROVE  SumOf(t, k) \in Nat
<1> DEFINE Bad == {n \in 0..Len(t.records) : SumOf(t, n) \notin Nat}
<1>1. Len(t.records) \in Nat
  BY TreeFields
<1>2. Bad = {}
  <2>1. SUFFICES ASSUME Bad # {} PROVE FALSE
    OBVIOUS
  <2>2. Bad \in SUBSET Nat
    OBVIOUS
  <2>3. \E n \in Bad : \A m \in Bad : n <= m
    <3> HIDE DEF Bad
    <3>. QED
      BY <2>1, <2>2, LeastNat
  <2>4. PICK n \in Bad : \A m \in Bad : n <= m
    BY <2>3
  <2>5. n \in 1..Len(t.records) /\ n \in Nat
    BY SumSteps, TreeFields, <1>1
  <2>6. n - 1 \notin Bad /\ n - 1 \in 0..Len(t.records)
    <3>1. n - 1 \in 0..Len(t.records) /\ ~(n <= n - 1)
      BY <2>5, <1>1
    <3> HIDE DEF Bad
    <3>. QED
      BY <3>1, <2>4
  <2>7. SumOf(t, n - 1) \in Nat /\ t.records[n].num \in Nat
    BY <2>5, <2>6, TreeFields
  <2>8. SumOf(t, n) = SumOf(t, n - 1) + t.records[n].num
    BY <2>5, SumSteps
  <2>. QED
    BY <2>4, <2>7, <2>8
<1>. QED
  BY <1>2

SizeOf(t) == SumOf(t, Len(t.records))

LEMMA SizeOfType == ASSUME NEW t \in TreeType PROVE SizeOf(t) \in Nat
<1>1. Len(t.records) \in 0..Len(t.records)
  BY TreeFields
<1>. QED
  BY <1>1, SumType DEF SizeOf

LEMMA SizeOfBare ==
  ASSUME NEW t \in TreeType, t.records = <<>>
  PROVE  SizeOf(t) = t.offset
<1>1. Len(t.records) = 0
  OBVIOUS
<1>. QED
  BY <1>1, SumSteps DEF SizeOf

(* The tree of the first i records. *)
LEMMA SizeOfPrefix ==
  ASSUME NEW t \in TreeType, NEW i \in 1..Len(t.records)
  PROVE  /\ [t EXCEPT !.records = SubSeq(@, 1, i)] \in TreeType
         /\ SizeOf([t EXCEPT !.records = SubSeq(@, 1, i)]) = SumOf(t, i)
<1> DEFINE u == [t EXCEPT !.records = SubSeq(@, 1, i)]
<1>1. t.records \in Seq(RecordType) /\ Len(t.records) \in Nat /\ i \in Nat /\ i <= Len(t.records)
  BY TreeFields
<1>2. /\ SubSeq(t.records, 1, i) \in Seq(RecordType) /\ Len(SubSeq(t.records, 1, i)) = i
      /\ \A k \in 1..i : SubSeq(t.records, 1, i)[k] = t.records[k]
  BY <1>1
<1>3. u \in TreeType /\ u.offset = t.offset /\ u.records = SubSeq(t.records, 1, i)
  BY <1>2 DEF TreeType
<1> HIDE DEF u
<1>4. SizeOf(u) = SumOf(u, i)
  BY <1>2, <1>3 DEF SizeOf
<1>5. SumOf(u, i) = SumOf(t, i)
  <2>1. i <= Len(u.records) /\ \A k \in 1..i : u.records[k] = t.records[k]
    BY <1>1, <1>2, <1>3
  <2>. QED
    BY <2>1, <1>1, <1>3, SumsAgree
<1>. QED
  BY <1>3, <1>4, <1>5 DEF u

(* A tree with one more record. *)
WithRecord(t, b, n) == [t EXCEPT !.records = Append(@, [block |-> b, num |-> n])]

LEMMA RecordAdded ==
  ASSUME NEW t \in TreeType, NEW b \in Block, NEW n \in Nat
  PROVE  /\ WithRecord(t, b, n) \in TreeType
         /\ WithRecord(t, b, n).offset = t.offset
         /\ Len(WithRecord(t, b, n).records) = Len(t.records) + 1
         /\ WithRecord(t, b, n).records # <<>>
         /\ \A i \in 1..Len(t.records) : WithRecord(t, b, n).records[i] = t.records[i]
         /\ WithRecord(t, b, n).records[Len(t.records) + 1].block = b
         /\ WithRecord(t, b, n).records[Len(t.records) + 1].num = n
<1> DEFINE r == [block |-> b, num |-> n]
<1>1. r \in RecordType /\ r.block = b /\ r.num = n
  BY DEF RecordType
<1>2. t.records \in Seq(RecordType) /\ Len(t.records) \in Nat
  BY TreeFields
<1>3. WithRecord(t, b, n) = [t EXCEPT !.records = Append(@, r)]
  BY DEF WithRecord
<1> HIDE DEF r
<1>4. /\ Append(t.records, r) \in Seq(RecordType)
      /\ Len(Append(t.records, r)) = Len(t.records) + 1
      /\ \A i \in 1..Len(t.records) : Append(t.records, r)[i] = t.records[i]
      /\ Append(t.records, r)[Len(t.records) + 1] = r
  BY <1>1, <1>2
<1>5. /\ WithRecord(t, b, n) \in TreeType
      /\ WithRecord(t, b, n).offset = t.offset
      /\ WithRecord(t, b, n).records = Append(t.records, r)
  BY <1>3, <1>4 DEF TreeType
<1> DEFINE v == Append(t.records, r)
<1>6. v # <<>>
  <2>1. v \in Seq(RecordType) /\ Len(v) # 0
    BY <1>2, <1>4
  <2> HIDE DEF v
  <2>. QED
    BY <2>1
<1>. QED
  BY <1>1, <1>4, <1>5, <1>6

LEMMA RecordAddedSize ==
  ASSUME NEW t \in TreeType, NEW b \in Block, NEW n \in Nat
  PROVE  SizeOf(WithRecord(t, b, n)) = SizeOf(t) + n
<1> DEFINE u == WithRecord(t, b, n)
           m == Len(t.records)
<1>1. /\ u \in TreeType /\ u.offset = t.offset /\ Len(u.records) = m + 1
      /\ \A i \in 1..m : t.records[i] = u.records[i]
      /\ u.records[m + 1].num = n
  BY RecordAdded
<1>2. m \in Nat
  BY TreeFields
<1> HIDE DEF u, m
<1>3. SumOf(t, m) = SumOf(u, m)
  <2>1. m <= Len(t.records) /\ m <= Len(u.records)
    BY <1>1, <1>2 DEF m
  <2>. QED
    BY <2>1, <1>1, <1>2, SumsAgree
<1>4. m + 1 \in 1..Len(u.records) /\ (m + 1) - 1 = m
  BY <1>1, <1>2
<1>5. SumOf(u, m + 1) = SumOf(u, m) + n
  BY <1>1, <1>4, SumSteps
<1>6. SizeOf(t) = SumOf(t, m) /\ SizeOf(u) = SumOf(u, m + 1)
  BY <1>1 DEF m, SizeOf
<1>. QED
  BY <1>3, <1>5, <1>6 DEF u

-----------------------------------------------------------------------------
(* Trees along a branch *)

(* The leaves of every record end where the chain's tree ends after its    *)
(* block, and that block is one of the branch C.                           *)
PlacedAlong(cm, t, C) ==
  \A i \in 1..Len(t.records) :
    t.records[i].block \in C /\ SumOf(t, i) = TotalOf(cm)[t.records[i].block]

(* The tree is the chain's tree after height h. *)
ReachesAlong(cm, floor, t, h, C) ==
  \/ \E b \in C : HeightOf[b] = h /\ SizeOf(t) = TotalOf(cm)[b]
  \/ SizeOf(t) = 0 /\ h < floor

LEMMA BarePlaced ==
  ASSUME NEW cm, NEW t \in TreeType, t.records = <<>>, NEW C
  PROVE  PlacedAlong(cm, t, C)
<1>1. Len(t.records) = 0
  OBVIOUS
<1>. QED
  BY <1>1 DEF PlacedAlong

LEMMA PlacedSize ==
  ASSUME NEW cm, NEW t \in TreeType, NEW C, PlacedAlong(cm, t, C), t.records # <<>>
  PROVE  /\ Len(t.records) \in 1..Len(t.records)
         /\ t.records[Len(t.records)].block \in C
         /\ SizeOf(t) = TotalOf(cm)[t.records[Len(t.records)].block]
<1>1. Len(t.records) \in 1..Len(t.records)
  BY TreeFields
<1>. QED
  BY <1>1 DEF PlacedAlong, SizeOf

(* The next block of the branch continues the tree. *)
LEMMA SizeBeforeNext ==
  ASSUME NEW cm, NEW floor, NoneBelow(cm, floor), NEW t \in TreeType,
         NEW x \in Block, NEW h \in Nat, ReachesAlong(cm, floor, t, h, ChainOf[x]),
         NEW b \in ChainOf[x], HeightOf[b] = h + 1
  PROVE  SizeOf(t) = TotalOf(cm)[b] - cm[b]
<1>1. b \in Block /\ cm \in [Block -> Nat] /\ floor \in Nat
  BY ChainBelowTip DEF NoneBelow
<1>2. CASE \E c \in ChainOf[x] : HeightOf[c] = h /\ SizeOf(t) = TotalOf(cm)[c]
  BY <1>1, <1>2, TotalOfStep
<1>3. CASE SizeOf(t) = 0 /\ h < floor
  <2>1. HeightOf[b] <= floor
    BY <1>1, <1>3
  <2>. QED
    BY <2>1, <1>1, <1>3, TotalOfLowest
<1>. QED
  BY <1>2, <1>3 DEF ReachesAlong

LEMMA NextPlaced ==
  ASSUME NEW cm, NEW floor, NoneBelow(cm, floor), NEW t \in TreeType,
         NEW x \in Block, NEW h \in Nat, ReachesAlong(cm, floor, t, h, ChainOf[x]),
         PlacedAlong(cm, t, ChainOf[x]), NEW b \in ChainOf[x], HeightOf[b] = h + 1
  PROVE  /\ PlacedAlong(cm, WithRecord(t, b, cm[b]), ChainOf[x])
         /\ ReachesAlong(cm, floor, WithRecord(t, b, cm[b]), h + 1, ChainOf[x])
<1> DEFINE u == WithRecord(t, b, cm[b])
           n == Len(t.records)
<1>1. b \in Block /\ TotalOf(cm)[b] \in Nat /\ cm[b] \in Nat
  BY ChainBelowTip, TotalOfType DEF NoneBelow
<1>2. /\ u \in TreeType /\ u.offset = t.offset /\ Len(u.records) = n + 1
      /\ \A i \in 1..n : u.records[i] = t.records[i]
      /\ u.records[n + 1].block = b
      /\ n \in Nat
  BY <1>1, RecordAdded, TreeFields
<1>3. SizeOf(u) = TotalOf(cm)[b]
  <2>1. SizeOf(t) = TotalOf(cm)[b] - cm[b]
    BY SizeBeforeNext
  <2>2. SizeOf(u) = SizeOf(t) + cm[b]
    BY <1>1, RecordAddedSize
  <2>. QED
    BY <2>1, <2>2, <1>1
<1> HIDE DEF u
<1>4. ASSUME NEW i \in 1..Len(u.records)
      PROVE  u.records[i].block \in ChainOf[x] /\ SumOf(u, i) = TotalOf(cm)[u.records[i].block]
  <2>1. CASE i \in 1..n
    <3>1. SumOf(t, i) = TotalOf(cm)[t.records[i].block] /\ t.records[i].block \in ChainOf[x]
      BY <2>1 DEF PlacedAlong
    <3>2. SumOf(t, i) = SumOf(u, i)
      <4>1. i \in Nat /\ i <= Len(t.records) /\ i <= Len(u.records)
            /\ \A k \in 1..i : t.records[k] = u.records[k]
        BY <2>1, <1>2
      <4>. QED
        BY <4>1, <1>2, SumsAgree
    <3>. QED
      BY <3>1, <3>2, <2>1, <1>2
  <2>2. CASE i = n + 1
    BY <2>2, <1>2, <1>3 DEF SizeOf
  <2>. QED
    BY <2>1, <2>2, <1>2
<1>. QED
  BY <1>3, <1>4 DEF PlacedAlong, ReachesAlong, u

(* A window that starts inside a block: the tree with the leaves the block *)
(* brings into it, if there are any, is the chain's tree after that block. *)
LEMMA WindowPlaced ==
  ASSUME NEW cm \in [Block -> Nat], NEW t \in TreeType, t.records = <<>>,
         NEW x \in Block, NEW b \in ChainOf[x], NEW n \in Nat, t.offset + n = TotalOf(cm)[b]
  PROVE  /\ SizeOf(t) = t.offset
         /\ WithRecord(t, b, n) \in TreeType
         /\ PlacedAlong(cm, WithRecord(t, b, n), ChainOf[x])
         /\ SizeOf(WithRecord(t, b, n)) = TotalOf(cm)[b]
<1> DEFINE u == WithRecord(t, b, n)
<1>1. b \in Block /\ t.offset \in Nat
  BY ChainBelowTip, TreeFields
<1>2. SizeOf(t) = t.offset
  BY SizeOfBare
<1>3. /\ u \in TreeType /\ Len(u.records) = Len(t.records) + 1
      /\ u.records[Len(t.records) + 1].block = b
  <2>1. \A s \in TreeType :
          /\ WithRecord(s, b, n) \in TreeType
          /\ Len(WithRecord(s, b, n).records) = Len(s.records) + 1
          /\ WithRecord(s, b, n).records[Len(s.records) + 1].block = b
    BY <1>1, RecordAdded
  <2>. QED
    BY <2>1
<1>4. SizeOf(u) = SizeOf(t) + n
  BY <1>1, RecordAddedSize
<1> HIDE DEF u
<1>5. Len(u.records) = 1 /\ u.records[1].block = b
  <2>1. Len(t.records) = 0
    OBVIOUS
  <2>. QED
    BY <2>1, <1>3
<1>6. SizeOf(u) = TotalOf(cm)[b] /\ SizeOf(u) = SumOf(u, 1)
  BY <1>2, <1>4, <1>5 DEF SizeOf
<1>7. ASSUME NEW i \in 1..Len(u.records)
      PROVE  u.records[i].block \in ChainOf[x] /\ SumOf(u, i) = TotalOf(cm)[u.records[i].block]
  <2>1. i = 1
    BY <1>5
  <2>. QED
    BY <2>1, <1>5, <1>6
<1>. QED
  BY <1>2, <1>3, <1>6, <1>7 DEF PlacedAlong, u

(* A window starts inside the chain's tree. *)
LEMMA WholeShards ==
  ASSUME NEW total \in Nat, NEW shard \in Nat \ {0}, NEW limit \in Nat \ {0},
         total \div shard >= limit
  PROVE  LET start == ((total \div shard) - (limit - 1)) * shard
         IN  start \in Nat /\ 0 < start /\ start <= total
<1> DEFINE q == total \div shard
           k == q - (limit - 1)
<1>1. q \in Nat /\ q * shard <= total
  OBVIOUS
<1> HIDE DEF q
<1>2. k \in Nat /\ 1 <= k /\ k <= q
  BY <1>1 DEF q
<1>3. \A m, n, f \in Nat : 1 <= m /\ m <= n /\ f # 0 =>
        m * f \in Nat /\ 0 < m * f /\ m * f <= n * f
  OBVIOUS
<1> HIDE DEF k
<1>4. k * shard \in Nat /\ 0 < k * shard /\ k * shard <= q * shard /\ q * shard \in Nat
  BY <1>1, <1>2, <1>3
<1>. QED
  BY <1>1, <1>4 DEF k, q
=============================================================================
