----------------------------- MODULE SpendServer -----------------------------
(***************************************************************************)
(* The standalone nullifier server: spend-server's run with the ingestion  *)
(* task of nf-ingest it spawns, the channel between them, the live PIR     *)
(* database, the snapshot on disk, and crashes and restarts.               *)
(*                                                                         *)
(* The nullifier table is taken as what HashTableDb is proved to be: a set *)
(* of whole blocks, at most one per height (module NullifierWindow).  A    *)
(* bucket overflow makes run return an error and is one of the crashes.    *)
(*                                                                         *)
(* Two tasks interleave: the main task (pc) and the ingestion task (task). *)
(* Blocks are read from a stream one by one, so lightwalletd may change    *)
(* branch between two of them.                                             *)
(***************************************************************************)
EXTENDS Integers, Sequences, FiniteSetsExt, Lightwalletd

CONSTANTS
  ZeroHash,          \* [0u8; 32]
  Weight,            \* Weight[b]: the number of nullifiers of block b
  Floor,             \* min_sync_height
  BackfillBatch,     \* BACKFILL_BATCH
  SyncBatch,         \* SYNC_BATCH_SIZE
  Capacity,          \* capacity of the channel
  BackfillTarget,    \* config.target_size
  TargetSize,        \* TARGET_SIZE of hashtable-pir
  SnapshotInterval,  \* config.snapshot_interval
  TrackerDepth,      \* CONFIRMATION_DEPTH * 2
  MaxFailures,       \* bound: errors of a lightwalletd call
  MaxCrashes         \* bound: crashes of the process

ASSUME ServerAssumption ==
  /\ ZeroHash \notin Block \cup {Genesis}
  /\ Weight \in [Block -> Nat]
  /\ Floor \in Nat \ {0}
  /\ \A n \in {BackfillBatch, SyncBatch, Capacity, SnapshotInterval, TrackerDepth} :
       n \in Nat \ {0}
  /\ BackfillTarget \in Nat
  /\ TargetSize \in Nat
  /\ \A b \in Block : Weight[b] <= TargetSize

(* Every branch reaches down to min_sync_height, and a first tip is not    *)
(* below it: the floor is an activation height deep in the chain.          *)
ASSUME FloorAssumption ==
  /\ \A b \in Block : Parent[b] \notin Block => HeightOf[b] <= Floor
  /\ \A b \in FirstTip : HeightOf[b] >= Floor

VARIABLES
  \* the main task
  pc,            \* where run is
  fresh,         \* ~from_snapshot
  table,         \* the blocks in the nullifier table
  backfillEnd,   \* backfill_end
  since,         \* blocks_since_snapshot
  live,          \* the blocks in the live PIR database
  serving,       \* phase = Serving
  disk,          \* {the table of the snapshot on disk}, {} before the first
  \* the ingestion task
  task,          \* what it is doing, "idle" when there is none
  current,       \* the height of the last block it handed on
  goal,          \* end of the range it is reading
  to,            \* end of the range it was asked for (sync)
  fetched,       \* blocks it has read and not handed on
  tracker,       \* the chain tracker's window (follow)
  queue,         \* the channel
  \* what happened so far
  failures, crashes,
  swallowed      \* an error ended the reading of a backfill range

mainVars == <<pc, fresh, table, backfillEnd, since, live, serving, disk>>
taskVars == <<task, current, goal, to, fetched, tracker>>
faultVars == <<failures, crashes, swallowed>>
vars == <<chainVars, mainVars, taskVars, queue, faultVars>>

Tracker == INSTANCE ChainTracker WITH MaxDepth <- TrackerDepth

-----------------------------------------------------------------------------
(* The table *)

Heights(t) == {HeightOf[b] : b \in t}
Size(t) == MapThenSumSet(LAMBDA b : Weight[b], t)

(* latest_height().unwrap_or(0) and latest_block_hash().unwrap_or([0; 32]) *)
Latest(t) == IF t = {} THEN 0 ELSE Max(Heights(t))
LatestHash(t) == IF t = {} THEN ZeroHash ELSE CHOOSE b \in t : HeightOf[b] = Latest(t)

(* evict_to_target drops the lowest block until what is left fits. *)
From(t, height) == {b \in t : HeightOf[b] >= height}
Evicted(t) ==
  From(t, Min({h \in Heights(t) \cup {Latest(t) + 1} : Size(From(t, h)) <= TargetSize}))

(* The events of the channel.  A reorg names what to roll back by hash.    *)
NewBlock(b) == [type |-> "NewBlock", orphaned |-> {}, block |-> b]
Reorg(hashes, b) == [type |-> "Reorg", orphaned |-> hashes, block |-> b]

(* follow fills the hashes of the orphaned blocks with zeros.              *)
OrphanedHashes(fork) == {ZeroHash : h \in (fork + 1)..current}

-----------------------------------------------------------------------------
(* The main task *)

Syncing == pc \in {"sync", "backfill"}
Following == pc \in {"follow", "snapshot"}

Init ==
  /\ ChainInit
  /\ pc = "down" /\ fresh = FALSE /\ table = {} /\ backfillEnd = 0 /\ since = 0
  /\ live = {} /\ serving = FALSE /\ disk = {}
  /\ task = "idle" /\ current = 0 /\ goal = 0 /\ to = 0
  /\ fetched = <<>> /\ tracker = <<>> /\ queue = <<>>
  /\ failures = 0 /\ crashes = 0 /\ swallowed = FALSE

(* sync_range spawns the ingestion task for first..last, if not empty. *)
SyncRange(first, last, where) ==
  IF first <= last
  THEN /\ pc' = where
       /\ task' = "poll"
       /\ current' = first - 1
       /\ to' = last
       /\ UNCHANGED <<goal, fetched, tracker>>
  ELSE pc' = "synced" /\ UNCHANGED taskVars

(* run up to the forward sync: read the tip, load the snapshot. *)
\* (faulty variants: one block too early, or too late)
ResumeAtLatest(t, tip) == IF t = {} THEN tip ELSE Latest(t)
ResumeLate(t, tip) == IF t = {} THEN tip ELSE Latest(t) + 2
ForwardStart(t, tip) == IF t = {} THEN tip ELSE Latest(t) + 1
FreshStart(tip) == Max({tip - BackfillBatch, Floor})

(* The last height left to backfill once a range starting at first is in.  *)
EndTwoBefore(first) == first - 2   \* (faulty variant)
EndBefore(first) == first - 1

Start ==
  /\ pc = "down"
  /\ \E tip \in {HeightOf[best]} :   \* read before the snapshot is loaded
       \/ \E snapshot \in disk :
            /\ table' = snapshot
            /\ fresh' = FALSE
            /\ backfillEnd' = 0
            /\ SyncRange(ForwardStart(snapshot, tip), tip, "sync")
       \/ /\ disk = {}
          /\ table' = {}
          /\ fresh' = TRUE
          /\ backfillEnd' = EndBefore(FreshStart(tip))
          /\ SyncRange(FreshStart(tip), tip, "sync")
  /\ UNCHANGED <<chainVars, since, live, serving, disk, queue, faultVars>>

InsertSynced ==
  /\ Syncing
  /\ queue # <<>>
  /\ table' = table \cup {Head(queue).block}
  /\ queue' = Tail(queue)
  /\ UNCHANGED <<chainVars, pc, fresh, backfillEnd, since, live, serving, disk,
                 taskVars, faultVars>>

(* The channel is drained and closed.  The task's result is not looked at: *)
(* `sync_handle.await.ok()'.                                               *)
RangeDone ==
  /\ Syncing
  /\ queue = <<>>
  /\ task = "idle"
  /\ pc' = "synced"
  /\ UNCHANGED <<chainVars, fresh, table, backfillEnd, since, live, serving, disk,
                 taskVars, queue, faultVars>>

(* The condition of the backfill loop.  Its break at the floor needs no    *)
(* case of its own: backfill_end is then below the floor.                  *)
\* (faulty variant: the block at the floor is left out)
BackfillAboveFloor == fresh /\ Size(table) < BackfillTarget /\ backfillEnd > Floor
BackfillNeeded == fresh /\ Size(table) < BackfillTarget /\ backfillEnd >= Floor

BackfillStart(end) == Max({end - (BackfillBatch - 1), Floor})

Backfill ==
  /\ pc = "synced"
  /\ BackfillNeeded
  /\ SyncRange(BackfillStart(backfillEnd), backfillEnd, "backfill")
  /\ backfillEnd' = EndBefore(BackfillStart(backfillEnd))
  /\ UNCHANGED <<chainVars, fresh, table, since, live, serving, disk, queue, faultVars>>

SaveAfterSync ==
  /\ pc = "synced"
  /\ ~BackfillNeeded
  /\ disk' = {table}
  /\ pc' = "saved"
  /\ UNCHANGED <<chainVars, fresh, table, backfillEnd, since, live, serving,
                 taskVars, queue, faultVars>>

(* Evict, build the PIR database, publish it, spawn follow. *)
StartServing ==
  /\ pc = "saved"
  /\ table' = Evicted(table)
  /\ live' = table'
  /\ serving' = TRUE
  /\ pc' = "follow"
  /\ task' = "poll"
  /\ current' = Latest(table')
  /\ tracker' = Tracker!WithTip(Latest(table'), LatestHash(table'))
  /\ since' = 0
  /\ UNCHANGED <<chainVars, fresh, backfillEnd, disk, goal, to, fetched, queue, faultVars>>

(* One turn of the event loop up to the swap of the live database.         *)
(* rollback_block fails for a hash the table does not hold, and the        *)
(* failure is only logged.                                                 *)
AppliedWithoutInsert(event) == Evicted(table \ event.orphaned)   \* (faulty variant)
Applied(event) == Evicted((table \ event.orphaned) \cup {event.block})
CountReset == 0                 \* (faulty variant)
CountedBlocks == since + 1

Apply(type) ==
  /\ pc = "follow"
  /\ queue # <<>>
  /\ Head(queue).type = type
  /\ table' = Applied(Head(queue))
  /\ live' = table'
  /\ queue' = Tail(queue)
  /\ since' = CountedBlocks
  /\ pc' = IF since' >= SnapshotInterval THEN "snapshot" ELSE "follow"
  /\ UNCHANGED <<chainVars, fresh, backfillEnd, serving, disk, taskVars, faultVars>>

ApplyNewBlock == Apply("NewBlock")
ApplyReorg == Apply("Reorg")

PeriodicSave ==
  /\ pc = "snapshot"
  /\ disk' = {table}
  /\ since' = 0
  /\ pc' = "follow"
  /\ UNCHANGED <<chainVars, fresh, table, backfillEnd, live, serving,
                 taskVars, queue, faultVars>>

(* rx.recv() yields None once the follow task is gone: run returns Ok, the *)
(* process exits with code 0 and Restart=on-failure leaves it at that.     *)
ChannelClosed ==
  /\ pc = "follow"
  /\ queue = <<>>
  /\ task = "idle"
  /\ pc' = "exited"
  /\ table' = {} /\ live' = {} /\ serving' = FALSE
  /\ UNCHANGED <<chainVars, fresh, backfillEnd, since, disk, taskVars, queue, faultVars>>

Stopped == pc = "exited" /\ UNCHANGED vars

(* The process dies, or run returns an error; only the disk stays.         *)
Crash ==
  /\ pc \notin {"down", "exited"}
  /\ crashes < MaxCrashes
  /\ crashes' = crashes + 1
  /\ pc' = "down" /\ fresh' = FALSE /\ table' = {} /\ backfillEnd' = 0 /\ since' = 0
  /\ live' = {} /\ serving' = FALSE
  /\ task' = "idle" /\ current' = 0 /\ goal' = 0 /\ to' = 0
  /\ fetched' = <<>> /\ tracker' = <<>> /\ queue' = <<>>
  /\ UNCHANGED <<chainVars, disk, failures, swallowed>>

-----------------------------------------------------------------------------
(* The ingestion task: sync and follow *)

(* Top of sync's loop: the next batch, or the end of the range. *)
PollSync ==
  /\ Syncing
  /\ task = "poll"
  /\ IF current < to
     THEN task' = "fetch" /\ goal' = Min({current + SyncBatch, to})
     ELSE task' = "idle" /\ UNCHANGED goal
  /\ UNCHANGED <<chainVars, mainVars, current, to, fetched, tracker, queue, faultVars>>

(* Top of follow's loop: get_latest_block. *)
\* (faulty variant: the newest block is left for the next poll)
TipIsNewerByTwo == HeightOf[best] > current + 1
TipIsNewer == HeightOf[best] > current

PollFollow ==
  /\ Following
  /\ task = "poll"
  /\ TipIsNewer
  /\ task' = "fetch"
  /\ goal' = HeightOf[best]
  /\ UNCHANGED <<chainVars, mainVars, current, to, fetched, tracker, queue, faultVars>>

(* Nothing new: sleep and poll again. *)
PollNothingNew ==
  /\ Following
  /\ task = "poll"
  /\ ~TipIsNewer
  /\ UNCHANGED vars

(* get_block_range reads current + 1 .. goal from the stream into memory.  *)
\* (faulty variant: the range starts one block too early)
NextHeightEarly == current + Len(fetched)
NextHeight == current + 1 + Len(fetched)

FetchBlock ==
  /\ task = "fetch"
  /\ Available(NextHeight)
  /\ fetched' = Append(fetched, BlockAt(NextHeight))
  /\ task' = IF NextHeight = goal THEN "send" ELSE "fetch"
  /\ UNCHANGED <<chainVars, mainVars, current, goal, to, tracker, queue, faultVars>>

(* An error of the stream or of get_latest_block returns from sync or      *)
(* follow; what was read of the range is lost.                             *)
EndTask ==
  /\ task' = "idle"
  /\ fetched' = <<>>
  /\ swallowed' = (swallowed \/ pc = "backfill")
  /\ UNCHANGED <<chainVars, mainVars, current, goal, to, tracker, queue, crashes>>

BlockMissing ==
  /\ task = "fetch"
  /\ ~Available(NextHeight)
  /\ EndTask
  /\ UNCHANGED failures

CallFails ==
  /\ task = "fetch" \/ (task = "poll" /\ Following)
  /\ failures < MaxFailures
  /\ failures' = failures + 1
  /\ EndTask

(* One block of the range is handed on; the task waits while the channel   *)
(* is full.  sync moves `current' a batch at a time, which only it can see.   *)
RoomAlways == TRUE   \* (faulty variant)
Room == Len(queue) < Capacity

HandOn(event) ==
  /\ task = "send"
  /\ Room
  /\ queue' = Append(queue, event)
  /\ current' = HeightOf[Head(fetched)]
  /\ fetched' = Tail(fetched)
  /\ task' = IF Tail(fetched) = <<>> THEN "poll" ELSE "send"
  /\ UNCHANGED <<chainVars, mainVars, goal, to, faultVars>>

SendSync ==
  /\ Syncing
  /\ fetched # <<>>
  /\ HandOn(NewBlock(Head(fetched)))
  /\ UNCHANGED tracker

SendFollow ==
  /\ Following
  /\ fetched # <<>>
  /\ LET b == Head(fetched)
         fork == Tracker!FindForkPoint(tracker, Parent[b])
     IN  /\ HandOn(IF Tracker!Extends(tracker, HeightOf[b], Parent[b])
                   THEN NewBlock(b) ELSE Reorg(OrphanedHashes(fork), b))
         /\ tracker' = Tracker!Pushed(tracker, HeightOf[b], b, Parent[b])

-----------------------------------------------------------------------------
Environment ==
  /\ Grow \/ Switch
  /\ UNCHANGED <<mainVars, taskVars, queue, faultVars>>

MainStep ==
  \/ Start \/ InsertSynced \/ RangeDone \/ Backfill \/ SaveAfterSync \/ StartServing
  \/ ApplyNewBlock \/ ApplyReorg \/ PeriodicSave \/ ChannelClosed

TaskStep ==
  \/ PollSync \/ PollFollow \/ FetchBlock \/ BlockMissing \/ SendSync \/ SendFollow

Next ==
  \/ Environment
  \/ MainStep \/ Stopped
  \/ TaskStep \/ PollNothingNew
  \/ CallFails \/ Crash

(* Both tasks are scheduled as long as they can run (tokio), and systemd   *)
(* starts the process again after a crash.  Nothing makes the chain grow,  *)
(* a call fail or the process crash.                                       *)
Spec == Init /\ [][Next]_vars /\ WF_vars(MainStep) /\ WF_vars(TaskStep)

-----------------------------------------------------------------------------
(* Properties *)

Event == [type : {"NewBlock", "Reorg"}, orphaned : SUBSET {ZeroHash}, block : Block]

(* Every variable of the server holds a value of its type. *)
TypeOK ==
  /\ best \in Block
  /\ pc \in {"down", "sync", "backfill", "synced", "saved", "follow", "snapshot", "exited"}
  /\ fresh \in BOOLEAN /\ serving \in BOOLEAN /\ swallowed \in BOOLEAN
  /\ table \in SUBSET Block
  /\ live \in SUBSET Block
  /\ disk \in SUBSET SUBSET Block
  /\ task \in {"idle", "poll", "fetch", "send"}
  /\ \A n \in {backfillEnd, since, current, goal, to, failures, crashes} : n \in Nat
  /\ fetched \in Seq(Block)
  /\ tracker \in Seq([height : Nat, hash : Block \cup {ZeroHash}])
  /\ queue \in Seq(Event)
  /\ Len(queue) <= Capacity

(* A block is only ever inserted at a height the table does not hold: what *)
(* insert_block does not check and HashTableDb relies on.  It must hold    *)
(* across backfill, restarts, reorgs and shrinking tips.                   *)
InsertsAreFresh ==
  queue # <<>> => HeightOf[Head(queue).block] \notin Heights(table)

Interval(hs) == \A l, h \in hs : l..h \subseteq hs

(* Unless an error of a backfill range was swallowed, the heights served   *)
(* have no gap, whatever the chain did: the metadata's earliest_height and *)
(* latest_height then describe what was searched.                          *)
ServedHeightsHaveNoGap == serving /\ ~swallowed => Interval(Heights(live))

(* As long as lightwalletd has stayed on one branch, what is served is     *)
(* exactly the part of that branch between the two heights, also after a   *)
(* crash and a restart from any snapshot.                                  *)
ServedIsTheChain ==
  serving /\ ~swallowed /\ switches = 0 =>
    live = {b \in ChainOf[best] :
              \E l, h \in Heights(live) : l <= HeightOf[b] /\ HeightOf[b] <= h}

(* The tracker's tip is the last block that entered the channel, hence the *)
(* newest of the table once the channel is empty: comparing prev_hash with *)
(* the tracker compares it with the table.                                 *)
TrackerFollowsTable ==
  Following =>
    /\ Tracker!Tip(tracker).height = current
    /\ Tracker!Tip(tracker).hash
         = IF queue = <<>> THEN LatestHash(table) ELSE queue[Len(queue)].block

(* The fork search of push_block never finds the parent: a block that does *)
(* not extend the tip always makes it fall back to the height below the    *)
(* window, because follow never reads a height again.                      *)
ForkIsNeverFound ==
  Following /\ task = "send" =>
    LET b == Head(fetched)
    IN  ~Tracker!Links(tracker, HeightOf[b], Parent[b])
          => \A i \in DOMAIN tracker : tracker[i].hash # Parent[b]

(* A crash costs at most snapshot_interval blocks of progress. *)
SnapshotLagBounded ==
  serving => /\ disk # {}
             /\ \A t \in disk : Latest(table) <= Latest(t) + SnapshotInterval

(* A fresh server that met no error serves only once it has collected      *)
(* target_size nullifiers or every block down to the floor, in ranges that *)
(* join: below the newest block none is left out.                          *)
BackfillIsComplete ==
  pc = "saved" /\ fresh /\ failures = 0 /\ switches = 0 =>
    /\ Size(table) >= BackfillTarget \/ Floor \in Heights(table)
    /\ Interval(Heights(table))

(* The server catches up with the tip and stays there, unless its follow   *)
(* task has died.                                                          *)
CatchesUp ==
  <>[](pc = "exited" \/ (serving /\ Latest(live) >= HeightOf[best]))

(* nullifier/README.md on reorgs: "Orphaned nullifiers are removed         *)
(* instantly -- the table never serves stale data after a reorg".  So the  *)
(* turn that applies a Reorg event publishes a database without the block  *)
(* that was the newest, when that is off the branch of the new block.  The *)
(* newest block is orphaned by every reorg, however deep.                  *)
NoStaleDataAfterReorg ==
  [][ApplyReorg /\ table # {} /\ LatestHash(table) \notin ChainOf[Head(queue).block]
       => LatestHash(table) \notin live']_vars
=============================================================================
