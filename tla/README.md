# Verification of spendability-pir

TLA+ models of the servers that let a wallet ask, by private information
retrieval (PIR), whether its notes are spent and where they sit in the note
commitment tree; TLC runs that check the models on small instances; and proofs,
checked by TLAPS, that hold for every instance.

* [1 The system](#1-the-system)
* [2 Plan](#2-plan)
* [3 Modules and the code they model](#3-modules-and-the-code-they-model)
* [4 Runs, bounds and fairness](#4-runs-bounds-and-fairness)
* [5 Proofs](#5-proofs)
* [6 Where the code and its documents disagree](#6-where-the-code-and-its-documents-disagree)
* [7 What is not modelled](#7-what-is-not-modelled)

To check a module: `tlc -config MCHashTableDb.cfg MCHashTableDb` in this
directory; to check its proofs: `tlapm HashTableDb_proofs.tla`.

## 1 The system

Two subsystems keep one recent window of the Zcash chain each. Both read compact
blocks from a lightwalletd, both serve a PIR database that is rebuilt after each
event, both write a snapshot now and then and start again from it. They run as two
servers or as one combined server.

| Component (source) | State it keeps | Operations | What makes it correct |
|---|---|---|---|
| Nullifier table (`nullifier/hashtable-pir`) | buckets of slots, block index by height, hash to height map, entry count | `insert_block`, `rollback_block`, `evict_to_target`, `to_snapshot`, `from_snapshot`, `contains` | it is a window of whole blocks: undoing a block undoes exactly it, the indexes agree, lookup of one bucket is exact |
| Chain tracker (`shared/chain-ingest/chain_tracker.rs`) | the last `max_depth` (height, hash) pairs | `push_block`, `truncate_to`, `find_fork_point` | the window is one branch; a reorg with a tracked parent rolls back to it |
| lightwalletd client (`shared/chain-ingest/client.rs`) | a connection | `get_latest_block`, `get_block_range`, `get_tree_state`, `get_subtree_roots` | external service, seen through calls that fail or change branch |
| Nullifier ingestion (`nullifier/nf-ingest`) | current height, tracker | `sync` (range), `follow` (poll for ever) | ranges join without gap or overlap; reorgs are reported with what to undo |
| Spend server (`nullifier/spend-server`) | table, live database, phase, blocks since the last snapshot, snapshot file | `run`: load, forward sync, backfill, save, serve, follow | serves heights without gap, restarts cleanly, catches up |
| Note commitment tree (`witness/commitment-tree-db`) | leaves, block records, sub-shard root cache, window start | `append_commitments`, `rollback_to`, `build_pir_db_and_broadcast`, snapshots | leaves are those of the recorded blocks; cached roots are never stale; rows and broadcast belong together |
| Witness ingestion (`witness/commitment-ingest`) | current height, prior tree size, tracker | `sync`, `follow` | block order, tree size checks |
| Witness server (`witness/witness-server`) | tree, live database, snapshot | `prepare_tree`, spillover of the shard-completing block, `run` | positions in the window are those of the chain |
| Combined server (`combined-server`) | both of the above | catch-up, one follow loop | both subsystems stay at one height |
| Spend client, witness client | metadata or broadcast fetched at connect | `is_spent`, `check_nullifiers`, `get_witness`, refresh | what was said to be covered is searched; a path ends in the root that was broadcast, or it shows that it does not; a spend is located where its outputs are |
| Block parsers (`nf-ingest/parser.rs`, `commitment-ingest/parser.rs`) | none | `extract_nullifiers_with_meta`, `extract_commitments`, `orchard_tree_size` | positions agree with the tree, whether they come from a block's own metadata or the one before |
| HTTP routes, PIR engine, shared types | none of their own | pure functions and reads of the live state | |

How they interact. The ingestion task sends `ChainEvent`s over a bounded channel to
the task that owns the table or the tree; that task applies one event, rebuilds the
PIR database, swaps it in with one atomic store, and now and then saves a snapshot.
The HTTP handlers read what was swapped in last. Table and tree have `&mut self`
methods and one owner, so one call is one step; everything else interleaves: the
chain with every read of it, the ingestion task with the main task, crashes with
all of them.

What is hard:

* the chain may grow, shrink or change branch between two blocks of one stream, and
  between the poll that sets the goal and the read;
* a failed call ends the ingestion task; the main task sees only a closed channel;
* undoing a block needs the same block to be found again, after eviction, restart or
  a refused insertion;
* the same recent chain is held twice (tracker and table or tree);
* cached roots outlive the leaves they were computed from, also on disk;
* a client makes two requests (`/metadata` or `/broadcast`, then `/query`), and the
  server may publish, evict or restart between them;
* arithmetic at the frontier: empty tree, full sub-shard, full shard, full window.

`PROJECT.json` lists the hazards line by line with the properties that cover each.

## 2 Plan

Done, in this order:

1. `NullifierWindow` (abstract) and `HashTableDb` (detailed), the refinement between
   them, and `HashTableDb_proofs`.
2. `ChainTracker` and `ReorgFeed`.
3. `Lightwalletd` and `SpendServer`: two tasks, channel, crashes, fairness.
4. `CommitmentTreeDb`, with its part of `WitnessTree_proofs`.
5. `WitnessServer`: windowed start, size checks, the reorg in two events.
6. `CombinedServer`: composes `SpendServer`, `WitnessServer`, `ChainTracker` and
   `Lightwalletd`; with both features, then in builds with one.
7. `WitnessClient` over `CommitmentTreeDb`; `BlockParser`, and `SpendClient` over it and
   `SpendServer`.

8. Proofs about the chain (`Lightwalletd_proofs`), the tracker (`ReorgFeed_proofs`), the
   nullifier server with its client (`Spend_proofs`), the witness server
   (`WitnessServer_proofs`) and its client (`WitnessTree_proofs`), and the combined
   server (`CombinedServer_proofs`, and `CombinedChain_proofs` for what it serves).

Left:

9. That the table of `SpendServer` steps as `NullifierWindow` does.

## 3 Modules and the code they model

A block is its hash, in every module: hash determines height, parent and contents,
which are therefore constant functions. Faulty variants of a definition, each marked
as such and used by no behaviour, stand before the definition; they are the mutants
listed in `PROJECT.json` that show each property can fail.

**`NullifierWindow`** is what the table promises: `window`, a set of whole blocks at
most one per height; `stray`, nullifiers left by refused insertions; `evicting`;
`disk`. Outside eviction blocks come and go one at a time; inside it only the lowest
block may go.

**`HashTableDb`** is `hashtable-pir/src/lib.rs` and `snapshot.rs`. `cells` is the
buckets, `blockIndex` the `BTreeMap`, `hashToHeight` the `HashMap`, `numEntries` the
counter. `InsertBlock` chooses a cell for each nullifier in turn, each choice seeing
those before it (`Placement`); `InsertOverflow` is the early return with
`BucketOverflow`, which leaves the entries written so far. `EvictToTarget`,
`EvictOldestBlock` and `EvictDone` are the call, a turn and the end of the loop of
`evict_to_target`, so that the refinement sees each turn; nothing else can happen
between them, except the process dying. `RestoreSnapshot` rebuilds the hash map from
the records as the code does; `StartFresh` is a missing or undecodable file.
`overflowed` is a history variable.

**`ChainTracker`** is `chain_tracker.rs` as functions of the window. **`ReorgFeed`**
puts it between a feed of blocks and a consumer that rolls back and appends as told,
over a tree of blocks; the feed may go back to any tracked block (as the tracker's
unit tests do) or deliver the next height of any branch (as the follow loops do).

**`Lightwalletd`** is the environment: a tree of blocks and the tip served now, which
grows or switches, also to a shorter branch, since the servers connect to one of
several endpoints and read block by block.

**`SpendServer`** is `spend-server/src/server.rs` with the `sync` and `follow` of
`nf-ingest`. The main task's `pc` goes `down`, `sync`, `backfill`, `synced`, `saved`,
`follow`, `snapshot`, `exited`; the ingestion task's `task` goes `poll`, `fetch`,
`send`. Each poll, each block of a stream, each send, each event applied and each
save is a step of its own. What the ingestion task leaves in a closed channel is
drained before the main task goes on. `SyncRange` with an empty range is no spawn.
The result of the task is dropped, as in the code. `live` changes in the same step as
`table`: between the two the code runs no other step that reads either, and a
client's view is `live` alone. The table is the set of blocks that `HashTableDb` is
proved to implement; a refused insertion makes `run` return an error and is one of
the crashes. `ChannelClosed` is `run` returning `Ok`: the unit file restarts on
failure only, so it is the end.

**`CommitmentTreeDb`** is `commitment-tree-db/src/lib.rs` and `snapshot.rs`. The root
of a sub-shard is the tuple of its leaves, so a stale root differs from a fresh one;
everything above sub-shards is a function of those roots. `cache[s]` is `{root}` or
`{}`. A snapshot of version 2 is one with an empty cache; since version 3 restores
the cache, it is the harder one and the one modelled. `BuildAndPublish` is
`rebuild_pir` of the servers, the build and the swap.

**`WitnessServer`** is `witness-server/src/server.rs` with the `sync` and `follow` of
`commitment-ingest`, laid out as `SpendServer` is. The tree is the list of its block
records behind an offset; `CommitmentTreeDb` is proved to keep its leaves in step with
those records, so a leaf's position is settled by what stands before its record.
`Start` reads the tip and the snapshot; without one, `ReadRoots` is the first half of
`prepare_tree` (the completed shards are read later than the tip, from a chain that
may have moved) and `ReadCompletingBlock` the second, with the spillover. Every append
outside a reorg passes `Fits`, which is `validate_prior_tree_size`; a mismatch ends the
process. A reorg is two sends, `SendReorg` and `SendReplacement`, and two turns of the
main loop, each with its publication; the replacement carries no size. `unanchored` is
a history variable, see section 6.

**`CombinedServer`** is `run` of `combined-server/src/server.rs`, built with both
features or with one; `features` is the build and never changes, and a subsystem that is
not built stays empty. The module has the variables of both standalone servers and takes
the actions of their syncing from `SpendServer` (as `Nf`) and `WitnessServer` (as `Wit`);
`mode` says which part of `run` is executing. `sync` is the `tokio::join!` of both
`run_sync_only`, whose ends (`NfSynced`, which evicts before it saves, and `WitSynced`)
differ from the standalone servers, or the one `run_sync_only` of a build with one
feature; `failing` is the wait of `join!` for the other subsystem after one has failed;
`catchup` is `catch_up_nullifier` or `catch_up_witness`, which `ServeAlone` skips;
`StartHeight` and `StartHash` are the three `cfg` variants of where the follow loop
starts; the rest is the loop, one action per block (`Extend`, `Reorg`) and one per
publication and save, since a crash or a request can fall between any two. An insertion
refused for a full bucket is only logged; the nullifiers it leaves behind are those
`HashTableDb` models and are ignored here.

**`WitnessClient`** is `witness-client/src/lib.rs` and `reconstruct.rs` over
`CommitmentTreeDb`, whose actions all may fall between two requests of the client.
`Connect` and `RefreshBroadcast` take the broadcast that is live; `GetWitness` joins a
held broadcast and a row of the live database, through `InWindow` and
`PhysicalRowIndex`. Every query is a function of the held broadcast, the live database
and a position and changes nothing, so the properties quantify over positions instead of
the module having an action per query. Here the shape of the tree matters, so roots leave
the server as terms: `HashCombine` is a tuple, `RootAbove` folds a row of nodes level by
level as `complete_subtree_root` does, `ExtractSiblings` and `ComputeRootFromPath` follow
the code. Rows before the window are opaque.

**`BlockParser`** is the two `parser.rs`, functions of one block: which actions count,
where a transaction's outputs begin, what the cast to `u8` leaves of the number of its
actions. **`SpendClient`** is `spend-client/src/lib.rs` over `SpendServer`: `Connect`,
`RefreshMetadata`, and `IsSpent` of the live table, whose entries for a block are what
`BlockParser` reads. `PriorSizes` are the tree sizes the ingestion may hand to the parser:
none at the start of a range, else that of the block of the height before, which after a
reorg is of another branch.

The map of `PROJECT.json` gives the source lines of every definition.

## 4 Runs, bounds and fairness

| Run | Checks | Instance | Size |
|---|---|---|---|
| `hash_table` | types; entry count; slots owned by one record and exactly its nullifiers; hash index inverse of the block index; no leak without overflow; lookup exact; refinement of `NullifierWindow` | 2 buckets of 2 slots, 4 blocks at 3 heights, two of them rivals sharing a nullifier, target 2 | 60 thousand states |
| `reorg_feed` | types and depth; window is one branch; window is the consumer's newest blocks; rollback to exactly the fork | 17 blocks on 4 branches, depth 3 | 171 states |
| `spend_server` | types; fresh heights; no gap; what is served is the chain; tracker follows table; fork search never succeeds; snapshot lag; complete backfill; catching up | 8 blocks on 2 branches, 2 switches, 1 failed call, 1 crash, batches of 1 and 2, channel of 1, backfill to 4 nullifiers, snapshot every 2 | 176 thousand states |
| `spend_client` | held coverage is searched; a spend is located where its outputs are | 5 blocks on 2 branches with 1 to 5 actions, a `u8` of two values, blocks without metadata, 1 switch, 1 failed call, 1 crash | 40 thousand states |
| `commitment_tree` | types; cached roots never stale; leaves are the blocks' (also in a snapshot); rows hash to the roots broadcast; cap is the tree; anchor root tells mixed views; accepted positions are served | tree of depth 4: sub-shards of 2 leaves, 2 per shard, 4 shards, window of 2 behind one earlier shard, 5 blocks of 0 to 4 leaves, a client with a broadcast of any age | 226 thousand states |
| `witness_server` | appends in height order; leaves in place; size check passes; tracker follows tree; catching up | 8 blocks on 2 branches of 0 to 2 commitments, 3 first tips, 1 switch, 1 failed call, 1 crash, shards of 2 leaves, window of 2, channel of 1 | 74 thousand states |
| `combined_server` | fresh heights; one height for table, tree and tracker; what is served is the chain; table holds the tracked window; orphans leave with it; catching up | 4 blocks on 2 branches, 1 switch, 1 fault (failed call, crash or refused insertion), all three builds | 276 thousand states |
| `stale_data`, `window_overrun`, `witness_reorg`, `self_verify`, `witness_only` | one documented statement each, refuted | as above; `stale_data`, `witness_reorg` and `witness_only` without failed calls or crashes, the first two with one change of branch, the last with none | |

Why the bounds are enough. *Table:* a bucket with two slots has a first, a last, a
hole before an occupied slot and an overflow; two buckets make a refused insertion
leave entries behind; eviction to 2 entries takes up to several turns; two blocks of
one height cover every reorg the table can tell apart. *Tracker:* depth 3 with forks
above, at and below the bottom of the window; blocks are finite but pushes are not,
since a reorg lets them come again. *Server:* the tip starts at 3
and may have grown to 5 before a fresh start, which then backfills one or two ranges of
one block and must join them; the tip may move two blocks ahead in one poll or fall; a
channel of one makes both tasks wait; two switches give a reorg and its
return; one crash can fall between any two steps and one failure anywhere. `Weight`
makes one block empty so that an empty block is not lost. *Tree:* block sizes end
inside a sub-shard, at its end, at the end of a shard, and past the window.
*Witness server:* blocks end inside a shard, at its end, with the shard completed inside
or at the end of the completing block, and with none or one commitment; with the first
tip at 2, 3 or 4 the start is a full sync or a windowed one, and the chain may grow
between the tip and the roots. *Combined server:* the two interleaved syncs are what
makes it large; the tip rises by two during them, so that either subsystem can end
behind the other by one or more blocks, and one fault can fall anywhere in either sync,
the catch-up or the loop. *Witness client:* the small tree has one level in each lower
tier and two in the cap, so every tier has a left and a right child, the cap a prefetched,
a full, a frontier and an empty slot; depth 32 only repeats levels. All sixteen positions
are tried in every state. *Spend client:* with a `u8` of two values, a transaction of two
actions has a stored count of 0 and one of three a count of 1, with transactions before
and after it.
Bounds of the environment are constants named as such (`MaxSwitches`, `MaxFailures`,
`MaxCrashes`, `MaxFaults`); nothing in the code is bounded by the model other than by the finite
set of blocks.

Symmetry is not used: blocks differ in height and contents.

The run of `ReorgFeed` does not check for deadlock, since a feed may end. In the
other runs nothing may: the chain stops growing when all blocks are
known, and a server that has taken them in polls for ever (`PollNothingNew`), so
`spend_server` is checked for deadlock, with the exited process stuttering explicitly.

**Fairness.** `SpendServer` assumes weak fairness of `MainStep` and of `TaskStep`,
each as a whole. Both are tokio tasks, which run as long as they are ready, and
`Start` after a crash is systemd's `Restart=on-failure`. No fairness is assumed of
the chain, of failures or of crashes; there are finitely many of each in the
instance, so `CatchesUp` says: once these stop, the server reaches the tip, or its
follow task has died and it has exited. The second case is real (section 6).
`WitnessServer` assumes the same two. In `CombinedServer` everything after the syncs is
one task, and the property needs no fairness between the two syncs: each runs out of
steps of its own, so weak fairness of `ServerStep` as a whole is enough. `CatchesUp` of
the two asks that from some time on the saved tree holds the chain: a misplaced tree
that was saved is what the code never notices or never gets past (section 6).

`OneHeight` and `ServedIsTheChain` of `CombinedServer` are about runs without a failed
call, a refused insertion or a change of branch; crashes, restarts and different tips
are in. `WindowIsInTable`, `OrphansLeave` and `InsertsAreFresh` have no such condition on
reorgs and failures.

`HeldCoverageIsSearched` excludes failed calls and changes of branch, after which the
table itself lacks blocks. `AcceptedPositionsAreServed` excludes leaves beyond the window
only where the cap lacks their shards, the case of `window_overrun`.

`ServedHeightsHaveNoGap` and `ServedIsTheChain` exclude the case `swallowed`, an error
inside a backfill range: the code drops it (`server.rs:142`) and the gap stays. No
document promises otherwise. `ServedIsTheChain` is about a chain that stayed on one
branch; with reorgs it fails, which is the run `stale_data`.

## 5 Proofs

Each proof module holds an inductive invariant in named parts, the lemmas that the
initial states have it and that every action keeps it, and one theorem per property that
follows from it.

**`HashTableDb_proofs`**, from `ConstantsAssumption` alone: `TypeCorrect`,
`CountCorrect`, `SlotsCorrect`, `HashesCorrect`, `NoLeakCorrect`, `LookupCorrect`,
`Refinement`. The properties are not inductive one by one. That a rollback zeroes
only its block's slots needs slots of different records to be disjoint; that
insertion keeps them disjoint needs recorded slots to be occupied; that the counter
goes down by the right amount needs both. So `IInv` is `DataOK` (types, count, owned
slots, every occupied slot in its nullifier's bucket, no leak without overflow) and
`HashesOK`, stated of buckets and index as parameters, because the same must hold of
a snapshot for a restart to preserve it (`DiskOK`). Lookup needs the strengthening
that also entries without a record lie in their own bucket. `Refinement` maps each
action to an action of `NullifierWindow` by set equalities of the blocks and strays
before and after (`InsertMapped`, `OverflowMapped`, `RemoveMapped`).

**`WitnessTree_proofs`** has the tree and its client. Of `CommitmentTreeDb`, from
`TreeAssumption` alone, it proves `TypeCorrect`,
`CacheCorrect`, `LeavesCorrect` (which includes that `from_snapshot` accepts every
snapshot written), `RowsCorrect`, `CapCorrect`.
`StateOK(list, records, cache)` says that the leaves are the blocks' and each cached
root is that of the leaves of its slot and not past the frontier; `IInv` says it of
the state and of the snapshot, and says of a published view that its rows hash to its
roots and its cap is the tree over them. "Not past the frontier" is what makes it
inductive: an append would otherwise turn a cached root of empty leaves into a stale
one. Three arguments carry it: a slot that `append_commitments` leaves alone ends at
or before the old frontier (`AppendKeepsRoots`); a slot that `rollback_to` leaves alone
ends before the cut (`CutKeepsRoots`); counts of commitments split at any record
(`RecordedSplit`), so the leaves cut are those of the records popped (`LeavesAreCut`)
and `saturating_sub` never saturates.
Of `WitnessClient`, from `GeometryAssumption` besides: `ClientChangesNothing`, that the
client's system implements the server's specification, so the theorems above hold beside a
client; and `AcceptedCorrect`, from the shape all broadcasts have (`ViewShape`): as many
rows and cap entries as populated shards in the window. `AnchorRootCorrect` is the
client's main claim: for every depth, window, row and broadcast of any age, the path ends
in the root of the broadcast tree exactly if the row is the one published with it.
Inductive is what a publication says of itself (`ViewsWhole`): the root broadcast for a
slot is its row, a cap root the roots of its sub-shards. The rest is about hashes. The
client climbs three tiers, `TreeRoot` none; in both each level pairs the one below, so a
path that enters a tier at a node and takes its siblings from the tier leaves at the
tier's root (`PathThrough`), a tier of the tree has the root the client computes
(`TierOfTree`), shards after the cap are empty (`NothingAbove`), hence the tree has the
root of the padded cap (`TreeIsCap`). Conversely two paths with the same siblings above a
row and one root meet at the row (`PathsMeet`), and rows with one root are one row
(`RootsDiffer`). Each is an induction over levels (`NumberInduction`, from the same fact
of finite sets as `LeastNat` below), and level `n` has `2^(k-n)` nodes; that `2^(n+1)` is
twice `2^n` comes from the number of subsets of a set (`PowerStep`).

**`Lightwalletd_proofs`**, from `ChainAssumption`: what the servers' proofs say of
branches. `ChainOf` is a recursive function over blocks; heights fall from block to
parent, so what holds of every block whose parent has it holds of every block
(`ChainInduction`), by a block of least height without it. `LeastNat` gets that least
number from the library's fact that strict inclusion of finite sets is well-founded,
the one form of induction the provers can use. From there: branches have one block per
height (`ChainHeightsDiffer`) and no gap (`ChainHasNoGap`).
A branch that ends above a height reaches down to it (`BranchReaches`), every height between
two of its blocks has a block `get_block_range` can return (`AvailableBetween`), and the
block one below another of the branch is its parent (`ChainStep`). The second half is about
trees on a branch: the size of the chain's tree after a block is a sum over its branch
(`TotalOf`), that of a local tree a sum over its records (`SumOf`); where the two agree at
every record of the tree (`PlacedAlong`) they still do when the next block is appended
(`NextPlaced`) and for a window that starts inside a block (`WindowPlaced`). `WitnessServer_proofs` and `CombinedChain_proofs` both stand
on it, each with its own tree.

**`ReorgFeed_proofs`**, from `FeedAssumption`: `TypeCorrect`, `LinkedCorrect`,
`NewestCorrect`, `ForkCorrect`. The invariant is the three properties of the run and that
the consumer's blocks ascend (`KeptAscends`): that the tracker's newest match is the
parent needs heights to ascend in the window.

**`Spend_proofs`**, from `ChainAssumption`, `ServerAssumption`, `FloorAssumption`,
`ParserAssumption`, `MetadataIsTrue` and `ConsensusAssumption`: all eight safety properties
of the server's run, and `HeldCoverageCorrect` and `SpendLocatesCorrect` of the client's. `Base` settles where every
block is: the blocks read, before them those in the channel, before them the table, each
one above the last (`RangesInv`), the table below what is to come or, while the backfill
runs, above it (`TablesInv`), and a fresh table above what is left to backfill
(`FreshInv`). That insertions are fresh follows at once. On top of it come, one by one,
`GapsInv` (no gap unless an error was swallowed), `BranchInv` (on one branch everything
held, in memory, in the channel and on disk, is of that branch), `TrackerInv` (the tip is
what entered the channel last; a block of the next height whose parent is not the tip has
its parent nowhere in the window), `LagInv` and `BackfillInv`.
For the client, that what it was told stays searched needs the server never to be on its
way to serve less (`HeldInv`): while nothing failed and no branch was left, a sync that is
running ends at the tip it read, which is not below any height a client was told; that the
sync gets there needs that no block of the branch is missing, whatever it started from
(`NothingMissingInSync`). Then the block is in the table, and its nullifiers have entries
(`NullifierHasEntry`), by an induction over the recursive functions that collect them:
that such a function exists (`StepsExist`) and keeps what each step keeps (`StepsKeep`).
`SpendLocatesCorrect` is about blocks, whichever of them are served: flattening the
transactions of a block puts each action behind all actions of the transactions before it
(`JoinedGrows`, `FlattenPlaces`), one commitment is collected per action (`CollectedAll`), and
the tree after a block is the tree of its parent and then these (`TreeOfBlock`, for which
`BranchStepsExist` says that a recursion down a branch has a value). So the size before a
block is the same whether it is taken from the block or from its parent (`SizeBefore`), and
the j-th output of a transaction is at the stored position plus j (`OutputPlaced`). That no
other position has one of its commitments needs the leaves of a branch to differ.

**`WitnessServer_proofs`**, from `ChainAssumption` and `WitnessAssumption`: all four
safety properties. `Base` is as above, for a tree that may start at a window and a reorg
announced in two events; `TipInv` relates tracker, channel and tree. `PlacedInv` holds on
one branch: every record of the tree ends where the chain's tree ends after its block, and
the sizes that travel with the blocks in the channel are those of the chain's tree. A window is anchored at the block that
completes its last shard, of which only the part beyond the shard is kept; that this part
is placed right is the lemma about the windowed start.

**`CombinedServer_proofs`**, from `ChainAssumption`, `ServerAssumption` and
`WindowFitsAssumption`: `InsertsAreFreshCorrect`, `WindowCorrect`, `OrphansCorrect`, for
every build. The two syncs run in the variables of the standalone servers, so `NfBase`
restates what the loop needs of `SpendServer`'s `Base`, with the catch-up as one more range
above the table. `TrackerInv` is what the loop maintains: the window ascends and is of one
branch, its tip is at the current height, the table's blocks from the window's bottom on
are in the window (`Covers`), and the window's blocks are in the table unless one was
refused (`Holds`). The step that could break it is eviction, which cuts the table without
the tracker: `EvictedHolds` shows that the blocks of the window fit and are never evicted,
which is where `WindowFitsAssumption` is needed. In a reorg the parent is nowhere in the
window (`ParentIsTip`), so both table and window are cut below the window, and what stays in
the table are ancestors of the new block or lies below.

**`CombinedChain_proofs`**, on top of it and from `FloorAssumption` and `WitnessAssumption`
besides: `OneHeightCorrect` and `ChainCorrect`. Failures, refusals, changes of branch and
windows without a block are counted and never forgotten (`FaultTypes`), so a server that is
undisturbed now always was, and the invariant need only say what holds of such a server
(`Calm`). It has three parts.

* `NfChain`: the table is a stretch of the branch, two stretches while the backfill
  runs, and what was fetched or is in the channel is of the branch and continues it. A
  range never ends early, because no block of the branch is missing, so `BlockMissing`
  is an error no undisturbed server meets.
* `WitChain`: every record of the tree ends where the chain's tree ends after its block;
  blocks and sizes in the channel continue it, so `TreeSizeMismatch` is not met.
* `LoopChain`: a subsystem that catches up is on its way to the height of the other, they
  have met when the loop is entered, and in the loop both stay at its height. A block the
  loop applies is the next of the branch, so it links to the tracker's tip and there is no
  reorg.

`Calm` claims nothing of the tree of a build without a table: that is the case the run
`witness_only` refutes (section 6).

The assumptions are what the code or the chain give. `ChainAssumption`: a block's height is
its parent's plus one. `FloorAssumption`: the lowest blocks of the model are at or below
Orchard activation, where backfill ends, and the chain the server first sees is past it
(stated again in `CombinedServer`, as is `WitnessAssumption`, which adds that blocks below
activation have no commitments).
`ServerAssumption`, `WitnessAssumption`, `FeedAssumption`, `TreeAssumption`,
`GeometryAssumption`: the constants of the code are positive and no block outweighs the
table; sub-shards and shards have as many leaves as their heights say; zero bytes are no
leaf, and so a row of them no row of leaves. `ParserAssumption`: a block is sequences of actions, and weighs what it has in
nullifiers. `MetadataIsTrue`: the tree size lightwalletd gives for a block, if it gives one, is
the size of the chain's tree after it. `ConsensusAssumption`: every action has a commitment of
32 bytes; no two leaves of a branch are equal, since a commitment binds the nullifier its
action spends; and no two transactions of a block spend one nullifier. `WindowFitsAssumption`:
the tracker's 20 blocks weigh no more than the target; a block has at most 2 MB, an action
takes 820 bytes, so 20 blocks have fewer than 50 thousand nullifiers and the target is a
million. TLC evaluates each on every run.

Only model-checked: the three `CatchesUp`, which with fairness and `ENABLED` are beyond the
provers. Every invariant the runs show to hold is a theorem.

## 6 Where the code and its documents disagree

* `stale_data`: `follow` names orphaned blocks by a zero hash, so the table keeps
  them; `nullifier/README.md:180` says it never serves stale data after a reorg. The run
  is about the turn that applies a `Reorg` event and the newest block of the table, which
  every reorg orphans: the tracker knows its hash, the event names zeros, the block stays
  in what is published. The property `ForkIsNeverFound` shows why rollbacks always go below the window: `follow`
  never reads a height twice, so the parent of a block that does not link is never
  tracked, and replacement blocks at orphaned heights are never fetched.
* `window_overrun`: once the local leaves span more shards than the window has, the
  broadcast cap has fewer roots than populated shards; `witness-types` says they are
  equal, `witness/README.md:342` that the window slides. It never does.

* `witness_reorg`: the tree after a reorg lacks the replacement blocks below the new
  tip, for the same reason, and `prior_tree_size: None` switches off the check that
  would notice; `witness/README.md:348` describes a rollback to the fork.
* `self_verify`: `reconstruct_witness` computes the root of the path it built and stores it
  in the witness; `witness-client/src/lib.rs:101`, `reconstruct.rs:19-20` and
  `witness/README.md:149-170` say it is compared with the root broadcast and a witness that
  fails is discarded. `AnchorRootTellsMixedViews` shows the comparison would be exact. The
  retry on differing anchor heights (`witness/README.md:142`) is not there either; the
  answer to a query carries no height.
* `witness_only`: a combined server built with the witness feature alone starts its tracker
  from a zero hash, takes the first new block for a reorg, and drops the newest synced block
  from the tree, on a chain that only grows; every later leaf is misplaced, against
  `commitment-tree-db/src/lib.rs:58-59`. The property asks it of trees whose window starts
  at a block they hold (`~unanchored`, below), so that this is what it finds.

Two more states of the witness server are reached in `witness_server` and left out of
its properties. The first block of each stage is checked against the tree's own size,
so a tree misplaced by a reorg passes the check once it is saved and loaded, or fails
at the second block on every restart. And a windowed start whose sync ends before the
first block of the window (`unanchored`: the range failed and the error was dropped, or
the shards completed after the tip was read) saves a tree with an offset and no block,
from which the next start reads the chain from height 0.

Noted while reading, without a run: the comment on `ChainAction::Reorg`
(`chain_tracker.rs:13`) calls the block at `rollback_to` orphaned, but it is the parent of
the new block and every consumer keeps it (`RollsBackToTheFork`); in the combined server an
error in the catch-up of the table is dropped and the loop starts from the table's height,
below the tree's, so the tree is given blocks it holds a second time, out of the height
order `commitment-tree-db/src/lib.rs:61` speaks of; the count of actions stored with a
nullifier is its remainder modulo 256, where `nullifier/README.md:225` has the wallet read
that many actions; a nullifier parsed without any tree size is stored with position 0;
`/health` of the spend server reports the number of buckets as `num_blocks`; a follow task that ends with an error makes the
process exit with code 0, which `Restart=on-failure` does not restart;
`nullifier/README.md:112` says it serves up to the tip less the confirmation depth,
the code serves to the tip; `evict_to_target` uses the constant `TARGET_SIZE` where
backfill uses `--target-size`.

## 7 What is not modelled

* `combined_health`, which answers a constant, and the batch calls of the clients, which
  are the single calls in a row.
* `extract_decryption_leaves` and `decryption-types`: no server calls them yet.
* `shard_roots`, `subshard_roots` and `tree_root` of the tree, which only tests call.
* Prefetched shard roots: what stands before the window is opaque and never changes.
* Sinsemilla and YPIR: roots are injective by construction and a query returns the row
  asked for.
* HTTP encoding, metrics, logging, command line, unit files (except what they say
  about restarts).
* Snapshot encoding: a file loads as written or not at all (checksum), and is replaced
  by one rename.
* `leaf_offset` beyond the first shard of the window: it never changes after `new` or
  `with_offset`, so it is the constant `WindowStartShard`.
