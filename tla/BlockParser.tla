----------------------------- MODULE BlockParser -----------------------------
(***************************************************************************)
(* What the two ingestion crates read out of one compact block: the        *)
(* nullifiers of its Orchard actions with the place of their transaction's *)
(* outputs in the commitment tree (nf-ingest), and its note commitments in *)
(* order (commitment-ingest).  Functions of a block; no state.             *)
(*                                                                         *)
(* An Option is a set of at most one element.                              *)
(***************************************************************************)
EXTENDS Integers, SequencesExt

CONSTANTS
  TxsOf,          \* TxsOf[b]: the transactions of b, each a sequence of actions
  TreeSizeField,  \* chain_metadata.orchard_commitment_tree_size, 0 if absent
  Nullifier,      \* the nullifiers of 32 bytes
  Commitment,     \* the commitments of 32 bytes
  CountModulus    \* 2^8: an action count is a u8

ActionsIn(txs) == UNION {{txs[t][i] : i \in DOMAIN txs[t]} : t \in DOMAIN txs}
Actions(b) == FlattenSeq(TxsOf[b])      \* in transaction-then-action order

(* orchard_tree_size: 0 is taken for absent. *)
OrchardTreeSize(b) == {TreeSizeField[b]} \ {0}

(* What is collected of a field that is only taken when it is valid.       *)
Collected(actions, field, valid) ==
  LET upTo[n \in 0..Len(actions)] ==
        IF n = 0 THEN <<>>
        ELSE IF actions[n][field] \in valid THEN Append(upTo[n - 1], actions[n][field])
        ELSE upTo[n - 1]
  IN  upTo[Len(actions)]

(* extract_nullifiers and extract_commitments skip what has another length *)
(* than 32 bytes.                                                          *)
ExtractNullifiers(b) == Collected(Actions(b), "nf", Nullifier)
ExtractCommitments(b) == Collected(Actions(b), "cmx", Commitment)

(* Tree size at the start of a block: its own end size less its actions    *)
(* (checked_sub), else what the block read before it left.                 *)
\* (faulty variant: the end size itself)
OwnEndSize(b, prior) ==
  IF OrchardTreeSize(b) # {} THEN OrchardTreeSize(b) ELSE prior
TreeSizeBeforeBlock(b, prior) ==
  LET own == {size - Len(Actions(b)) : size \in OrchardTreeSize(b)} \cap Nat
  IN  IF own # {} THEN own ELSE prior

(* first_output_position of the transaction numbered t; an unknown size    *)
(* counts as 0.                                                            *)
FirstOutputPosition(b, t, prior) ==
  LET known == TreeSizeBeforeBlock(b, prior)
  IN  IF known = {} THEN 0
      ELSE (CHOOSE size \in known : TRUE) + Len(FlattenSeq(SubSeq(TxsOf[b], 1, t - 1)))

(* extract_nullifiers_with_meta.  The count is cast to u8, the position    *)
(* runs on with the full number of actions.                                *)
NullifiersWithMeta(b, prior) ==
  UNION {LET tx == TxsOf[b][t]
         IN  {[nf |-> tx[i].nf,
               first |-> FirstOutputPosition(b, t, prior),
               count |-> Len(tx) % CountModulus] : i \in {j \in DOMAIN tx : tx[j].nf \in Nullifier}}
         : t \in DOMAIN TxsOf[b]}
=============================================================================
