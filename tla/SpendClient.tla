----------------------------- MODULE SpendClient -----------------------------
(***************************************************************************)
(* The wallet side of the nullifier system: spend-client, which keeps the  *)
(* metadata of one publication (the heights it covered) and asks whatever  *)
(* database is live for single nullifiers.  The server is SpendServer, and *)
(* what its table holds of a block is what BlockParser reads out of it.    *)
(*                                                                         *)
(* /metadata and /query are two requests: between them the server may      *)
(* insert, evict, crash, resume from an older snapshot and serve again.    *)
(***************************************************************************)
EXTENDS SpendServer, BlockParser

ASSUME ParserAssumption ==
  /\ CountModulus \in Nat \ {0}
  /\ \A b \in Block : TxsOf[b] \in Seq(Seq(ActionsIn(TxsOf[b])))
  /\ \A b \in Block : Weight[b] = Len(ExtractNullifiers(b))

VARIABLE metadata   \* {[earliest, latest] as last fetched}, {} before connect

clientVars == <<vars, metadata>>

(* The commitment tree after a block, and what lightwalletd says of it:    *)
(* blocks may come without their chain metadata.                           *)
TreeOf[b \in Block] ==
  (IF Parent[b] \in Block THEN TreeOf[Parent[b]] ELSE <<>>) \o ExtractCommitments(b)

ASSUME MetadataIsTrue ==
  \A b \in Block : TreeSizeField[b] \in {0, Len(TreeOf[b])}

(* What consensus makes of blocks: every action has a note commitment, no  *)
(* two leaves of a branch's tree are equal (a commitment is made with the  *)
(* nullifier its action spends), and no two transactions of a block spend  *)
(* one nullifier.                                                          *)
ASSUME ConsensusAssumption ==
  \A b \in Block :
    /\ \A action \in ActionsIn(TxsOf[b]) : action.cmx \in Commitment
    /\ IsInjective(TreeOf[b])
    /\ \A t, u \in DOMAIN TxsOf[b] :
         (\E i \in DOMAIN TxsOf[b][t], j \in DOMAIN TxsOf[b][u] :
            TxsOf[b][t][i].nf \in Nullifier /\ TxsOf[b][t][i].nf = TxsOf[b][u][j].nf) => t = u

(* prev_tree_size when a block is parsed: None at the start of a range,    *)
(* else the size of the block of the height before, which may be of        *)
(* another branch.                                                         *)
PriorSizes(b) ==
  {{}} \cup {OrchardTreeSize(c) : c \in {d \in Block : HeightOf[d] + 1 = HeightOf[b]}}

-----------------------------------------------------------------------------
(* The table's entries for a block, whatever size it was parsed with. *)
Entries(b) ==
  UNION {{[nf |-> n.nf, spendHeight |-> HeightOf[b], first |-> n.first, count |-> n.count]
            : n \in NullifiersWithMeta(b, prior)} : prior \in PriorSizes(b)}

(* The entries of the nullifier in a database; none means not spent.  The  *)
(* query returns the nullifier's bucket, the only place it can be.         *)
ScanBucketForNf(entries, nf) == {e \in entries : e.nf = nf}
IsSpent(nf) == ScanBucketForNf(UNION {Entries(b) : b \in live}, nf)

Earliest(t) == IF t = {} THEN 0 ELSE Min(Heights(t))
MetadataOf(t) == [earliest |-> Earliest(t), latest |-> Latest(t)]

ClientInit == Init /\ metadata = {}

ServerStep == Next /\ UNCHANGED metadata

(* Both get 503 unless a database is live. *)
Connect ==
  /\ metadata = {}
  /\ serving
  /\ metadata' = {MetadataOf(live)}
  /\ UNCHANGED vars

RefreshMetadata ==
  /\ metadata # {}
  /\ serving
  /\ metadata' = {MetadataOf(live)}
  /\ UNCHANGED vars

ClientNext == ServerStep \/ Connect \/ RefreshMetadata

ClientSpec == ClientInit /\ [][ClientNext]_clientVars

-----------------------------------------------------------------------------
(* Properties *)

(* A nullifier reported spent comes with its spend height and with         *)
(* positions of outputs of the transaction that spent it, in the tree of   *)
(* the branch of its block: all of them if the transaction has fewer       *)
(* actions than a u8 counts, never one of another transaction.  The        *)
(* position is right whether it was taken from the block's own metadata or *)
(* from its parent's (extract_nullifiers_with_meta, is_spent).             *)
OutputPositions(b, tx) ==
  {p \in 0..(Len(TreeOf[b]) - 1) : \E i \in DOMAIN tx : tx[i].cmx = TreeOf[b][p + 1]}
Located(n) == n.first..(n.first + n.count - 1)

SpendLocatesItsOutputs ==
  \A b \in live : \A prior \in PriorSizes(b) :
    \/ OrchardTreeSize(b) # {}
    \/ prior # {} /\ Parent[b] \in Block /\ prior = OrchardTreeSize(Parent[b])
    =>
      \A n \in NullifiersWithMeta(b, prior) : \A t \in DOMAIN TxsOf[b] :
        LET tx == TxsOf[b][t]
        IN  (\E i \in DOMAIN tx : tx[i].nf = n.nf) =>
              /\ Located(n) \subseteq OutputPositions(b, tx)
              /\ Len(tx) < CountModulus => Located(n) = OutputPositions(b, tx)

(* What the client was once told is covered stays covered: a nullifier     *)
(* spent on the chain between the heights of metadata of any age is found, *)
(* with its height, unless its block has been evicted since; also after a  *)
(* crash and a restart from an older snapshot.  (While no call failed and  *)
(* no branch changed; refresh_metadata, check_nullifiers.)                 *)
HeldCoverageIsSearched ==
  serving /\ failures = 0 /\ switches = 0 =>
    \A m \in metadata : \A b \in ChainOf[best] :
      /\ m.earliest <= HeightOf[b] /\ HeightOf[b] <= m.latest
      /\ Earliest(live) <= HeightOf[b]
      => \A i \in DOMAIN ExtractNullifiers(b) :
           \E e \in IsSpent(ExtractNullifiers(b)[i]) : e.spendHeight = HeightOf[b]
=============================================================================
