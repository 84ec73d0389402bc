---------------------------- MODULE WitnessServer ----------------------------
(***************************************************************************)
(* The standalone witness server: witness-server's run with the ingestion  *)
(* task of commitment-ingest, the channel between them, the live database, *)
(* the snapshot on disk, and crashes and restarts.                         *)
(*                                                                         *)
(* The tree is taken as what CommitmentTreeDb is proved to be: the leaves  *)
(* of its block records, one after the other, behind leaf_offset leaves    *)
(* that are not stored.  A leaf's position is then settled by the records  *)
(* before its own, and no leaf needs to be named.  The cache of roots does *)
(* not matter here, so the two snapshots around the first publication are  *)
(* the same one.                                                           *)
(***************************************************************************)
EXTENDS Integers, SequencesExt, FiniteSetsExt, Lightwalletd

CONSTANTS
  ZeroHash,          \* [0u8; 32]
  Commitments,       \* Commitments[b]: the number of commitments of block b
  ShardLeaves,       \* SHARD_LEAVES
  WindowLimit,       \* effective_window_shard_limit
  Floor,             \* min_sync_height
  SyncBatch,         \* SYNC_BATCH_SIZE
  Capacity,          \* capacity of the channels
  SnapshotInterval,  \* config.snapshot_interval
  TrackerDepth,      \* CONFIRMATION_DEPTH * 2
  MaxFailures,       \* bound: errors of a call of the ingestion task
  MaxCrashes         \* bound: crashes of the process

ASSUME WitnessAssumption ==
  /\ ZeroHash \notin Block \cup {Genesis}
  /\ Commitments \in [Block -> Nat]
  /\ \A n \in {ShardLeaves, WindowLimit, Floor, SyncBatch, Capacity,
               SnapshotInterval, TrackerDepth} : n \in Nat \ {0}
  /\ \A b \in Block : HeightOf[b] < Floor => Commitments[b] = 0

VARIABLES
  \* the main task
  pc,            \* where run is
  tree,          \* [offset, records]: leaf_offset and the block records
  since,         \* blocks_since_snapshot
  live,          \* the tree the live database was built from
  serving,       \* phase = Serving
  disk,          \* {the tree of the snapshot on disk}, {} before the first
  \* the ingestion task
  task,          \* what it is doing, "idle" when there is none
  current,       \* the height of the last block it handed on
  goal,          \* end of the range it is reading
  to,            \* end of the range it was asked for (sync)
  fetched,       \* blocks it has read and not handed on
  prior,         \* {prev_tree_size}, {} for None
  tracker,       \* the chain tracker's window (follow)
  queue,         \* the channel
  \* what happened so far
  failures, crashes,
  unanchored     \* a sync ended without a single block behind the offset

mainVars == <<pc, tree, since, live, serving, disk>>
taskVars == <<task, current, goal, to, fetched, prior, tracker>>
faultVars == <<failures, crashes, unanchored>>
vars == <<chainVars, mainVars, taskVars, queue, faultVars>>

Tracker == INSTANCE ChainTracker WITH MaxDepth <- TrackerDepth

-----------------------------------------------------------------------------
(* The tree *)

NoTree == [offset |-> 0, records |-> <<>>]
BlockRecord(b, num) == [block |-> b, num |-> num]

Size(t) == FoldLeft(LAMBDA size, record : size + record.num, t.offset, t.records)

Latest(t) == IF t.records = <<>> THEN 0 ELSE HeightOf[Last(t.records).block]
LatestHash(t) == IF t.records = <<>> THEN ZeroHash ELSE Last(t.records).block

Appended(t, b) == [t EXCEPT !.records = Append(@, BlockRecord(b, Commitments[b]))]

(* rollback_to pops records while they are above the target. *)
RolledBack(t, target) ==
  LET n == CHOOSE k \in 0..Len(t.records) :
             /\ k # 0 => HeightOf[t.records[k].block] <= target
             /\ \A i \in (k + 1)..Len(t.records) : HeightOf[t.records[i].block] > target
  IN  [t EXCEPT !.records = SubSeq(@, 1, n)]

(* orchard_commitment_tree_size of a block, and what the ingestion makes   *)
(* of it: None when it is 0.                                               *)
TotalAt[b \in Block] ==
  Commitments[b] + IF Parent[b] \in Block THEN TotalAt[Parent[b]] ELSE 0
NoSizeIfZero(size) == IF size > 0 THEN {size} ELSE {}
TreeSizeBefore(b) == NoSizeIfZero(TotalAt[b] - Commitments[b])   \* (faulty variant)
TreeSizeAfter(b) == NoSizeIfZero(TotalAt[b])

(* validate_prior_tree_size *)
Fits(t, size) == size \in {{}, {Size(t)}}

(* The events of the channel. *)
NewBlock(b, size) == [type |-> "NewBlock", block |-> b, prior |-> size]
Reorg(target) == [type |-> "Reorg", rollbackTo |-> target]

-----------------------------------------------------------------------------
(* The main task: preparing the tree *)

Syncing == pc = "sync"
Following == pc \in {"follow", "snapshot"}

Idle ==
  /\ task' = "idle" /\ current' = 0 /\ goal' = 0 /\ to' = 0
  /\ fetched' = <<>> /\ prior' = {} /\ tracker' = <<>> /\ queue' = <<>>

Init ==
  /\ ChainInit
  /\ pc = "down" /\ tree = NoTree /\ since = 0
  /\ live = NoTree /\ serving = FALSE /\ disk = {}
  /\ task = "idle" /\ current = 0 /\ goal = 0 /\ to = 0
  /\ fetched = <<>> /\ prior = {} /\ tracker = <<>> /\ queue = <<>>
  /\ failures = 0 /\ crashes = 0 /\ unanchored = FALSE

(* sync_range spawns the ingestion task for first..last, if not empty. *)
SyncRange(first, last, size) ==
  /\ to' = last
  /\ IF first <= last
     THEN pc' = "sync" /\ task' = "poll" /\ current' = first - 1 /\ prior' = size
     ELSE pc' = "synced" /\ UNCHANGED <<task, current, prior>>
  /\ UNCHANGED <<goal, fetched, tracker>>

(* A snapshot without a block resumes at height 0.  The genesis block has  *)
(* no commitments and no tree size; it changes nothing but the latter.     *)
\* (faulty variant: the latest block is read again)
ResumeAtLatest(t) == IF t.records = <<>> THEN 1 ELSE Latest(t)
Resume(t) == IF t.records = <<>> THEN 1 ELSE Latest(t) + 1
ResumeSize(t) == IF t.records = <<>> THEN {} ELSE NoSizeIfZero(Size(t))

Start ==
  /\ pc = "down"
  /\ \/ \E snapshot \in disk :
          /\ tree' = snapshot
          /\ SyncRange(Resume(snapshot), HeightOf[best], ResumeSize(snapshot))
     \/ /\ disk = {}
        /\ pc' = "roots"
        /\ to' = HeightOf[best]
        /\ UNCHANGED <<tree, task, current, goal, fetched, prior, tracker>>
  /\ UNCHANGED <<chainVars, since, live, serving, disk, queue, faultVars>>

(* prepare_tree reads the roots of the completed shards.  With enough of   *)
(* them the tree starts at the last WindowLimit shards, the frontier among *)
(* them; otherwise it is synced from the floor.                            *)
CompletedShards == TotalAt[best] \div ShardLeaves
WindowStart == (CompletedShards - (WindowLimit - 1)) * ShardLeaves
CompletingHeight(offset) ==
  HeightOf[CHOOSE b \in ChainOf[best] :
             TotalAt[b] >= offset /\ TotalAt[b] - Commitments[b] < offset]

ReadRoots ==
  /\ pc = "roots"
  /\ IF CompletedShards >= WindowLimit
     THEN /\ tree' = [offset |-> WindowStart, records |-> <<>>]
          /\ current' = CompletingHeight(WindowStart)
          /\ pc' = "window"
          /\ UNCHANGED <<task, goal, to, fetched, prior, tracker>>
     ELSE SyncRange(Floor, to, {}) /\ UNCHANGED tree
  /\ UNCHANGED <<chainVars, since, live, serving, disk, queue, faultVars>>

(* The commitments of the completing block that lie inside the window. *)
SpilloverForgotten(b, offset) == 0   \* (faulty variant)
Spillover(b, offset) ==
  IF TotalAt[b] <= offset THEN 0
  ELSE IF TotalAt[b] - offset < Commitments[b] THEN TotalAt[b] - offset ELSE Commitments[b]

Seeded(b) ==
  IF Spillover(b, tree.offset) = 0 THEN tree
  ELSE [tree EXCEPT !.records = <<BlockRecord(b, Spillover(b, tree.offset))>>]

ReadCompletingBlock ==
  /\ pc = "window"
  /\ Available(current)
  /\ tree' = Seeded(BlockAt(current))
  /\ SyncRange(current + 1, to, {Size(tree')})
  /\ UNCHANGED <<chainVars, since, live, serving, disk, queue, faultVars>>

(* run returns an error: the process exits and is started again. *)
Fail ==
  /\ pc' = "down" /\ tree' = NoTree /\ since' = 0
  /\ live' = NoTree /\ serving' = FALSE
  /\ Idle
  /\ UNCHANGED <<chainVars, disk>>

CompletingBlockMissing ==
  /\ pc = "window"
  /\ ~Available(current)
  /\ Fail
  /\ UNCHANGED faultVars

-----------------------------------------------------------------------------
(* The main task: syncing and serving *)

AppendSynced ==
  /\ Syncing
  /\ queue # <<>>
  /\ Fits(tree, Head(queue).prior)
  /\ tree' = Appended(tree, Head(queue).block)
  /\ queue' = Tail(queue)
  /\ UNCHANGED <<chainVars, pc, since, live, serving, disk, taskVars, faultVars>>

(* validate_prior_tree_size returns TreeSizeMismatch and run fails. *)
TreeSizeMismatch ==
  /\ Syncing \/ pc = "follow"
  /\ queue # <<>>
  /\ Head(queue).type = "NewBlock"
  /\ ~Fits(tree, Head(queue).prior)
  /\ Fail
  /\ UNCHANGED faultVars

(* The channel is drained and closed.  The task's result is not looked at: *)
(* `sync_handle.await.ok()'.                                               *)
RangeDone ==
  /\ Syncing
  /\ queue = <<>>
  /\ task = "idle"
  /\ pc' = "synced"
  /\ UNCHANGED <<chainVars, tree, since, live, serving, disk, taskVars, queue, faultVars>>

Unanchored(t) == t.records = <<>> /\ t.offset > 0

SaveAfterSync ==
  /\ pc = "synced"
  /\ disk' = {tree}
  /\ pc' = "saved"
  /\ unanchored' = (unanchored \/ Unanchored(tree))
  /\ UNCHANGED <<chainVars, tree, since, live, serving, taskVars, queue, failures, crashes>>

(* Build, publish, save again with the warm cache, spawn follow. *)
StartOfTarget(t) == to   \* (faulty variant: the height the sync aimed at)
StartOfFollow(t) == Latest(t)

StartServing ==
  /\ pc = "saved"
  /\ live' = tree
  /\ serving' = TRUE
  /\ disk' = {tree}
  /\ since' = 0
  /\ pc' = "follow"
  /\ task' = "poll"
  /\ current' = StartOfFollow(tree)
  /\ prior' = NoSizeIfZero(Size(tree))
  /\ tracker' = Tracker!WithTip(StartOfFollow(tree), LatestHash(tree))
  /\ UNCHANGED <<chainVars, tree, goal, to, fetched, queue, faultVars>>

(* The end of a turn of the event loop: rebuild and publish, and save if   *)
(* enough blocks came since the last time.                                 *)
Turn ==
  /\ live' = tree'
  /\ queue' = Tail(queue)
  /\ pc' = IF since' >= SnapshotInterval THEN "snapshot" ELSE "follow"
  /\ UNCHANGED <<chainVars, serving, disk, taskVars, faultVars>>

ApplyNewBlock ==
  /\ pc = "follow"
  /\ queue # <<>>
  /\ Head(queue).type = "NewBlock"
  /\ Fits(tree, Head(queue).prior)
  /\ tree' = Appended(tree, Head(queue).block)
  /\ since' = since + 1
  /\ Turn

ApplyReorg ==
  /\ pc = "follow"
  /\ queue # <<>>
  /\ Head(queue).type = "Reorg"
  /\ tree' = RolledBack(tree, Head(queue).rollbackTo)
  /\ UNCHANGED since
  /\ Turn

PeriodicSave ==
  /\ pc = "snapshot"
  /\ disk' = {tree}
  /\ since' = 0
  /\ pc' = "follow"
  /\ UNCHANGED <<chainVars, tree, live, serving, taskVars, queue, faultVars>>

(* rx.recv() yields None once the follow task is gone: run returns Ok, the *)
(* process exits with code 0 and Restart=on-failure leaves it at that.     *)
ChannelClosed ==
  /\ pc = "follow"
  /\ queue = <<>>
  /\ task = "idle"
  /\ pc' = "exited"
  /\ tree' = NoTree /\ live' = NoTree /\ serving' = FALSE
  /\ UNCHANGED <<chainVars, since, disk, taskVars, queue, faultVars>>

Stopped == pc = "exited" /\ UNCHANGED vars

(* The process dies, or a call of the main task fails. *)
Crash ==
  /\ pc \notin {"down", "exited"}
  /\ crashes < MaxCrashes
  /\ crashes' = crashes + 1
  /\ Fail
  /\ UNCHANGED <<failures, unanchored>>

-----------------------------------------------------------------------------
(* The ingestion task: sync and follow of commitment-ingest *)

(* Top of sync's loop: the next batch, or the end of the range. *)
PollSync ==
  /\ Syncing
  /\ task = "poll"
  /\ IF current < to
     THEN task' = "fetch" /\ goal' = Min({current + SyncBatch, to})
     ELSE task' = "idle" /\ UNCHANGED goal
  /\ UNCHANGED <<chainVars, mainVars, current, to, fetched, prior, tracker, queue, faultVars>>

(* Top of follow's loop: get_latest_block. *)
\* (faulty variant: the newest block is left for the next poll)
TipIsNewerByTwo == HeightOf[best] > current + 1
TipIsNewer == HeightOf[best] > current

PollFollow ==
  /\ Following
  /\ task = "poll"
  /\ TipIsNewer
  /\ task' = "fetch"
  /\ goal' = HeightOf[best]
  /\ UNCHANGED <<chainVars, mainVars, current, to, fetched, prior, tracker, queue, faultVars>>

PollNothingNew ==
  /\ Following
  /\ task = "poll"
  /\ ~TipIsNewer
  /\ UNCHANGED vars

(* get_block_range reads current + 1 .. goal from the stream into memory. *)
NextHeight == current + 1 + Len(fetched)

FetchBlock ==
  /\ task = "fetch"
  /\ Available(NextHeight)
  /\ fetched' = Append(fetched, BlockAt(NextHeight))
  /\ task' = IF NextHeight = goal THEN "send" ELSE "fetch"
  /\ UNCHANGED <<chainVars, mainVars, current, goal, to, prior, tracker, queue, faultVars>>

(* An error of the stream or of get_latest_block returns from sync or      *)
(* follow; what was read of the range is lost.                             *)
EndTask ==
  /\ task' = "idle"
  /\ fetched' = <<>>
  /\ UNCHANGED <<chainVars, mainVars, current, goal, to, prior, tracker, queue,
                 crashes, unanchored>>

BlockMissing ==
  /\ task = "fetch"
  /\ ~Available(NextHeight)
  /\ EndTask
  /\ UNCHANGED failures

CallFails ==
  /\ task = "fetch" \/ (task = "poll" /\ Following)
  /\ failures < MaxFailures
  /\ failures' = failures + 1
  /\ EndTask

(* The task waits while the channel is full. *)
RoomAlways == TRUE   \* (faulty variant)
Room == Len(queue) < Capacity

Send(event) ==
  /\ Room
  /\ queue' = Append(queue, event)
  /\ UNCHANGED <<chainVars, mainVars, goal, to, faultVars>>

(* A block is handed on with the size the block before it in the stream    *)
(* left; sync moves `current' a batch at a time, which only it can see.    *)
HandOn(size) ==
  /\ Send(NewBlock(Head(fetched), size))
  /\ current' = HeightOf[Head(fetched)]
  /\ prior' = TreeSizeAfter(Head(fetched))
  /\ fetched' = Tail(fetched)
  /\ task' = IF Tail(fetched) = <<>> THEN "poll" ELSE "send"

Push(b) == tracker' = Tracker!Pushed(tracker, HeightOf[b], b, Parent[b])
Linked(b) == Tracker!Extends(tracker, HeightOf[b], Parent[b])

SendSync ==
  /\ Syncing
  /\ task = "send"
  /\ HandOn(prior)
  /\ UNCHANGED tracker

SendExtension ==
  /\ Following
  /\ task = "send"
  /\ Linked(Head(fetched))
  /\ HandOn(prior)
  /\ Push(Head(fetched))

(* A reorg is two events, and the block that follows it comes unchecked. *)
SendReorg ==
  /\ Following
  /\ task = "send"
  /\ ~Linked(Head(fetched))
  /\ Send(Reorg(Tracker!FindForkPoint(tracker, Parent[Head(fetched)])))
  /\ Push(Head(fetched))
  /\ task' = "resend"
  /\ UNCHANGED <<current, fetched, prior>>

SendReplacement ==
  /\ task = "resend"
  /\ HandOn({})
  /\ UNCHANGED tracker

-----------------------------------------------------------------------------
Environment ==
  /\ Grow \/ Switch
  /\ UNCHANGED <<mainVars, taskVars, queue, faultVars>>

MainStep ==
  \/ Start \/ ReadRoots \/ ReadCompletingBlock \/ CompletingBlockMissing
  \/ AppendSynced \/ TreeSizeMismatch \/ RangeDone \/ SaveAfterSync \/ StartServing
  \/ ApplyNewBlock \/ ApplyReorg \/ PeriodicSave \/ ChannelClosed

TaskStep ==
  \/ PollSync \/ PollFollow \/ FetchBlock \/ BlockMissing
  \/ SendSync \/ SendExtension \/ SendReorg \/ SendReplacement

Next ==
  \/ Environment
  \/ MainStep \/ Stopped
  \/ TaskStep \/ PollNothingNew
  \/ CallFails \/ Crash

(* Both tasks are scheduled as long as they can run (tokio), and systemd   *)
(* starts the process again after a failure.  Nothing makes the chain      *)
(* grow, a call fail or the process crash.                                 *)
Spec == Init /\ [][Next]_vars /\ WF_vars(MainStep) /\ WF_vars(TaskStep)

-----------------------------------------------------------------------------
(* Properties *)

(* A block is only ever appended above every block of the tree: what       *)
(* append_commitments does not check and CommitmentTreeDb relies on,       *)
(* across windowed starts, restarts, reorgs and shrinking tips.            *)
AppendsInOrder ==
  queue # <<>> /\ Head(queue).type = "NewBlock" =>
    \A i \in DOMAIN tree.records :
      HeightOf[tree.records[i].block] < HeightOf[Head(queue).block]

(* Each record's leaves end where the chain's tree ends after that block,  *)
(* start where the record before them ends, and belong to the chain.       *)
SizeUpTo(t, n) == Size([t EXCEPT !.records = SubSeq(@, 1, n)])
Placed(t) ==
  \A i \in DOMAIN t.records :
    /\ t.records[i].block \in ChainOf[best]
    /\ SizeUpTo(t, i) = TotalAt[t.records[i].block]

(* As long as lightwalletd has stayed on one branch, every leaf is served  *)
(* at its position in the chain's tree, also in a window that starts       *)
(* inside a block and after a crash and a restart from any snapshot.  The  *)
(* exception is a sync that failed before the first block of a window.     *)
LeavesAreInPlace == serving /\ switches = 0 /\ ~unanchored => Placed(live)

(* Under the same conditions the server never stops itself: the size that  *)
(* comes with a block is the size of the tree it is appended to.           *)
SizeCheckPasses ==
  switches = 0 /\ ~unanchored /\ queue # <<>> /\ Head(queue).type = "NewBlock"
    => Fits(tree, Head(queue).prior)

(* The tracker's tip is the last block that entered the channel, hence the *)
(* newest of the tree once the channel is empty, unless a reorg is half    *)
(* announced: comparing prev_hash with the tracker compares it with the    *)
(* tree.                                                                   *)
TrackerFollowsTree ==
  Following /\ queue = <<>> /\ task # "resend" =>
    Tracker!Tip(tracker) = Tracker!Pair(Latest(tree), LatestHash(tree))

(* The server catches up with the tip and stays there, whatever reorgs it  *)
(* met, if from some time on the snapshot on disk holds only blocks of the *)
(* chain in their places.  A misplaced tree that was never saved is found  *)
(* by the size check and mended by the restart.  The exception is a follow *)
(* task that has died.                                                     *)
CatchesUp ==
  <>[](~unanchored /\ \A t \in disk : Placed(t)) =>
    <>[](pc = "exited" \/ (serving /\ Latest(live) >= HeightOf[best]))

(* witness/README.md on reorgs: "rollback_to(height) removes all leaf      *)
(* commitments appended after height, recomputes the frontier shard's      *)
(* sub-shard roots, and triggers a PIR rebuild".  So a server that started *)
(* on blocks every branch shares serves the tree of the new branch once it *)
(* has taken in its tip.                                                   *)
ReorgLeavesTheChain ==
  Following /\ queue = <<>> /\ LatestHash(tree) = best
    /\ ~unanchored /\ (\A t \in disk : Placed(t)) => Placed(live)
=============================================================================
