---------------------------- MODULE CombinedServer ----------------------------
(***************************************************************************)
(* The combined server: run of combined-server, built with both features   *)
(* or with one of them.  The subsystems sync side by side, the one behind  *)
(* is caught up, and one loop then feeds every new block to the nullifier  *)
(* table and to the tree.  A subsystem that is not built stays empty.      *)
(*                                                                         *)
(* The syncing is that of the two standalone servers, so their actions are *)
(* taken from SpendServer and WitnessServer; the loop is this module's.    *)
(***************************************************************************)
EXTENDS Integers, Sequences, FiniteSetsExt, Lightwalletd

CONSTANTS
  ZeroHash, Weight, Commitments, ShardLeaves, WindowLimit, Floor,
  BackfillBatch, SyncBatch, Capacity, BackfillTarget, TargetSize,
  SnapshotInterval, TrackerDepth,
  MaxFaults,         \* bound: failed calls, crashes and refused insertions
  Builds             \* the sets of features the server is built with

ASSUME BuildsAssumption == Builds \subseteq (SUBSET {"nullifier", "witness"}) \ {{}}

ASSUME ServerAssumption ==
  /\ ZeroHash \notin Block \cup {Genesis}
  /\ Weight \in [Block -> Nat]
  /\ \A n \in {Floor, BackfillBatch, SyncBatch, Capacity, SnapshotInterval} : n \in Nat \ {0}
  /\ TrackerDepth \in Nat \ {0, 1}
  /\ BackfillTarget \in Nat
  /\ TargetSize \in Nat

(* Every branch reaches down to min_sync_height, and a first tip is not    *)
(* below it: the floor is an activation height deep in the chain.          *)
ASSUME FloorAssumption ==
  /\ \A b \in Block : Parent[b] \notin Block => HeightOf[b] <= Floor
  /\ \A b \in FirstTip : HeightOf[b] >= Floor

(* Below it no block has commitments. *)
ASSUME WitnessAssumption ==
  /\ Commitments \in [Block -> Nat]
  /\ ShardLeaves \in Nat \ {0} /\ WindowLimit \in Nat \ {0}
  /\ \A b \in Block : HeightOf[b] < Floor => Commitments[b] = 0

VARIABLES
  \* run_sync_only of the nullifier subsystem, and its ingestion task
  nfPc, nfFresh, table, nfBackfillEnd, nfLive, nfDisk,
  nfTask, nfCurrent, nfGoal, nfTo, nfFetched, nfQueue, swallowed,
  \* run_sync_only of the witness subsystem, and its ingestion task
  witPc, tree, witLive, witDisk,
  witTask, witCurrent, witGoal, witTo, witFetched, witPrior, witQueue, unanchored,
  \* run
  features,      \* the build; never changes
  mode,          \* where run is
  up,            \* the HTTP server is started
  height,        \* current_height
  goal,          \* end of the range being read
  fetched,       \* blocks of the range that are read and not applied
  tracker,       \* the chain tracker's window
  since,         \* blocks_since_snapshot
  \* what happened so far
  failures, crashes, refusals

nfVars == <<nfPc, nfFresh, table, nfBackfillEnd, nfLive, nfDisk,
            nfTask, nfCurrent, nfGoal, nfTo, nfFetched, nfQueue, swallowed>>
witVars == <<witPc, tree, witLive, witDisk,
             witTask, witCurrent, witGoal, witTo, witFetched, witPrior, witQueue,
             unanchored>>
loopVars == <<height, goal, fetched, tracker, since>>
vars == <<chainVars, nfVars, witVars, features, mode, up, loopVars, failures, crashes, refusals>>

Tracker == INSTANCE ChainTracker WITH MaxDepth <- TrackerDepth

Nf == INSTANCE SpendServer WITH
  MaxFailures <- MaxFaults, MaxCrashes <- MaxFaults,
  pc <- nfPc, fresh <- nfFresh, backfillEnd <- nfBackfillEnd, live <- nfLive,
  serving <- up, disk <- nfDisk, task <- nfTask, current <- nfCurrent, goal <- nfGoal,
  to <- nfTo, fetched <- nfFetched, queue <- nfQueue

Wit == INSTANCE WitnessServer WITH
  MaxFailures <- MaxFaults, MaxCrashes <- MaxFaults,
  pc <- witPc, live <- witLive, serving <- up, disk <- witDisk, task <- witTask,
  current <- witCurrent, goal <- witGoal, to <- witTo, fetched <- witFetched,
  prior <- witPrior, queue <- witQueue

(* The table has room for the blocks the tracker knows: 20 blocks of at    *)
(* most 2 MB, of whose actions each takes 820 bytes, and a million entries.*)
ASSUME WindowFitsAssumption ==
  \A t \in SUBSET Block :
    IsFiniteSet(t) /\ Cardinality(t) <= TrackerDepth => Nf!Size(t) <= TargetSize

HasNullifier == "nullifier" \in features
HasWitness == "witness" \in features

-----------------------------------------------------------------------------
Init ==
  /\ features \in Builds
  /\ Nf!Init
  /\ witPc = "down" /\ tree = Wit!NoTree /\ witLive = Wit!NoTree /\ witDisk = {}
  /\ witTask = "idle" /\ witCurrent = 0 /\ witGoal = 0 /\ witTo = 0
  /\ witFetched = <<>> /\ witPrior = {} /\ witQueue = <<>> /\ unanchored = FALSE
  /\ mode = "sync" /\ height = 0 /\ goal = 0 /\ fetched = <<>>
  /\ refusals = 0

(* run returns an error, or the process dies: it is started again.         *)
FailRun ==
  /\ nfPc' = "down" /\ nfFresh' = FALSE /\ table' = {} /\ nfBackfillEnd' = 0 /\ nfLive' = {}
  /\ nfTask' = "idle" /\ nfCurrent' = 0 /\ nfGoal' = 0 /\ nfTo' = 0
  /\ nfFetched' = <<>> /\ nfQueue' = <<>>
  /\ witPc' = "down" /\ tree' = Wit!NoTree /\ witLive' = Wit!NoTree
  /\ witTask' = "idle" /\ witCurrent' = 0 /\ witGoal' = 0 /\ witTo' = 0
  /\ witFetched' = <<>> /\ witPrior' = {} /\ witQueue' = <<>>
  /\ mode' = "sync" /\ up' = FALSE
  /\ height' = 0 /\ goal' = 0 /\ fetched' = <<>> /\ tracker' = <<>> /\ since' = 0
  /\ UNCHANGED <<chainVars, nfDisk, witDisk, swallowed, unanchored, refusals>>

Crash ==
  /\ failures + crashes + refusals < MaxFaults
  /\ crashes' = crashes + 1
  /\ FailRun
  /\ UNCHANGED failures

-----------------------------------------------------------------------------
(* Syncing: run_sync_only of both, in one tokio::join! *)

RangeStep ==
  \/ /\ \/ Nf!InsertSynced \/ Nf!RangeDone
        \/ Nf!PollSync \/ Nf!FetchBlock \/ Nf!BlockMissing \/ Nf!SendSync
     /\ UNCHANGED witVars
  \/ /\ \/ Wit!AppendSynced \/ Wit!RangeDone
        \/ Wit!PollSync \/ Wit!FetchBlock \/ Wit!BlockMissing \/ Wit!SendSync
     /\ UNCHANGED nfVars

NfPrepare ==
  /\ HasNullifier
  /\ mode \in {"sync", "failing"}
  /\ Nf!Start \/ Nf!Backfill
  /\ UNCHANGED <<witVars, mode, height, goal, fetched, refusals>>

WitPrepare ==
  /\ HasWitness
  /\ mode = "sync"
  /\ Wit!Start \/ Wit!ReadRoots \/ Wit!ReadCompletingBlock
  /\ UNCHANGED <<nfVars, mode, height, goal, fetched, refusals>>

(* Messages pass and blocks are read, also while the one behind catches up. *)
SyncStep ==
  /\ mode \in {"sync", "failing", "catchup"}
  /\ RangeStep
  /\ UNCHANGED <<mode, height, goal, fetched, refusals>>

(* An error of an ingestion task ends its range, as in the standalone      *)
(* servers.                                                                *)
CallFailsInSync ==
  /\ mode \in {"sync", "failing", "catchup"}
  /\ failures + crashes + refusals < MaxFaults
  /\ (Nf!CallFails /\ UNCHANGED witVars) \/ (Wit!CallFails /\ UNCHANGED nfVars)
  /\ UNCHANGED <<mode, height, goal, fetched, refusals>>

(* Evict, save, build: run_sync_only of spend-server ends. *)
NfSynced ==
  /\ mode \in {"sync", "failing"}
  /\ nfPc = "synced"
  /\ ~Nf!BackfillNeeded
  /\ table' = Nf!Evicted(table)
  /\ nfDisk' = {table'}
  /\ nfLive' = table'
  /\ nfPc' = "saved"
  /\ UNCHANGED <<chainVars, nfFresh, nfBackfillEnd, nfTask, nfCurrent, nfGoal, nfTo,
                 nfFetched, nfQueue, swallowed, witVars, mode, up, loopVars,
                 failures, crashes, refusals>>

(* Save, build: run_sync_only of witness-server ends. *)
WitSynced ==
  /\ mode = "sync"
  /\ witPc = "synced"
  /\ witDisk' = {tree}
  /\ witLive' = tree
  /\ witPc' = "saved"
  /\ unanchored' = (unanchored \/ Wit!Unanchored(tree))
  /\ UNCHANGED <<chainVars, nfVars, tree, witTask, witCurrent, witGoal, witTo, witFetched,
                 witPrior, witQueue, mode, up, loopVars, failures, crashes, refusals>>

(* The witness subsystem fails; join! waits for the other one, if there is *)
(* one, before run returns the error.                                      *)
WitFails ==
  /\ \/ witPc = "window" /\ ~Available(witCurrent)
     \/ /\ witPc = "sync" /\ witQueue # <<>>
        /\ ~Wit!Fits(tree, Head(witQueue).prior)
  /\ \/ /\ mode = "sync" /\ HasNullifier
        /\ mode' = "failing"
        /\ witPc' = "failed" /\ witTask' = "idle" /\ witQueue' = <<>>
        /\ UNCHANGED <<chainVars, nfVars, tree, witLive, witDisk, witCurrent, witGoal,
                       witTo, witFetched, witPrior, unanchored, up, loopVars, refusals>>
     \/ (mode = "catchup" \/ ~HasNullifier) /\ FailRun
  /\ UNCHANGED <<failures, crashes>>

BothReturned ==
  /\ mode = "failing"
  /\ nfPc = "saved"
  /\ FailRun
  /\ UNCHANGED <<failures, crashes>>

-----------------------------------------------------------------------------
(* Catching up the subsystem that is behind *)

(* Where the one behind resumes, and which one that is. *)
\* (faulty variants: the latest block again; one block behind is not behind)
CatchUpAtLatest(latest) == latest
CatchUpStart(latest) == latest + 1
BehindByTwo(mine, other) == mine + 1 < other
Behind(mine, other) == mine < other

Compare ==
  /\ mode = "sync"
  /\ nfPc = "saved" /\ witPc = "saved"
  /\ up' = TRUE
  /\ \/ /\ Behind(Nf!Latest(table), Wit!Latest(tree))
        /\ Nf!SyncRange(CatchUpStart(Nf!Latest(table)), Wit!Latest(tree), "sync")
        /\ mode' = "catchup"
        /\ UNCHANGED witVars
        /\ UNCHANGED <<nfFresh, table, nfBackfillEnd, nfLive, nfDisk, nfQueue, swallowed>>
     \/ /\ Behind(Wit!Latest(tree), Nf!Latest(table))
        /\ Wit!SyncRange(CatchUpStart(Wit!Latest(tree)), Nf!Latest(table),
                         Wit!NoSizeIfZero(Wit!Size(tree)))
        /\ mode' = "catchup"
        /\ UNCHANGED nfVars
        /\ UNCHANGED <<tree, witLive, witDisk, witQueue, unanchored>>
     \/ /\ ~Behind(Nf!Latest(table), Wit!Latest(tree))
        /\ ~Behind(Wit!Latest(tree), Nf!Latest(table))
        /\ mode' = "enter"
        /\ UNCHANGED <<nfVars, witVars, tracker>>
  /\ UNCHANGED <<chainVars, height, goal, fetched, since, failures, crashes, refusals>>

(* With one feature there is nothing to compare. *)
ServeAlone ==
  /\ mode = "sync"
  /\ nfPc = "saved" \/ ~HasNullifier
  /\ witPc = "saved" \/ ~HasWitness
  /\ ~(HasNullifier /\ HasWitness)
  /\ up' = TRUE
  /\ mode' = "enter"
  /\ UNCHANGED <<chainVars, nfVars, witVars, loopVars, failures, crashes, refusals>>

(* What catch_up_nullifier evicts was too much; catch_up_witness just ends. *)
CaughtUp ==
  /\ mode = "catchup"
  /\ \/ nfPc = "synced" /\ table' = Nf!Evicted(table)
     \/ witPc = "synced" /\ UNCHANGED table
  /\ mode' = "enter"
  /\ nfPc' = "saved" /\ witPc' = "saved"
  /\ UNCHANGED <<chainVars, nfFresh, nfBackfillEnd, nfLive, nfDisk, nfTask, nfCurrent,
                 nfGoal, nfTo, nfFetched, nfQueue, swallowed,
                 tree, witLive, witDisk, witTask, witCurrent, witGoal, witTo, witFetched,
                 witPrior, witQueue, unanchored, up, loopVars, failures, crashes, refusals>>

(* The ingestion tasks are gone, and what they knew with them. *)
Forget ==
  /\ nfFresh' = FALSE /\ nfBackfillEnd' = 0 /\ nfCurrent' = 0 /\ nfGoal' = 0 /\ nfTo' = 0
  /\ witCurrent' = 0 /\ witGoal' = 0 /\ witTo' = 0 /\ witPrior' = {}
  /\ UNCHANGED <<nfPc, table, nfLive, nfDisk, nfTask, nfFetched, nfQueue, swallowed,
                 witPc, tree, witLive, witDisk, witTask, witFetched, witQueue, unanchored>>

(* The loop starts from the table's latest block, also for the tree; and   *)
(* without a table from the tree's height and a hash of zeros.             *)
StartHeight == IF HasNullifier THEN Nf!Latest(table) ELSE Wit!Latest(tree)
StartHash == IF HasNullifier THEN Nf!LatestHash(table) ELSE ZeroHash

EnterFollow ==
  /\ mode = "enter"
  /\ Forget
  /\ height' = StartHeight
  /\ tracker' = Tracker!WithTip(StartHeight, StartHash)
  /\ mode' = "poll"
  /\ UNCHANGED <<chainVars, up, goal, fetched, since, failures, crashes, refusals>>

-----------------------------------------------------------------------------
(* The follow loop *)

\* (faulty variant: the newest block is left for the next poll)
TipIsNewerByTwo == HeightOf[best] > height + 1
TipIsNewer == HeightOf[best] > height

Poll ==
  /\ mode = "poll"
  /\ TipIsNewer
  /\ mode' = "fetch"
  /\ goal' = HeightOf[best]
  /\ UNCHANGED <<chainVars, nfVars, witVars, up, height, fetched, tracker, since,
                 failures, crashes, refusals>>

PollNothingNew ==
  /\ mode = "poll"
  /\ ~TipIsNewer
  /\ UNCHANGED vars

\* (faulty variant: a block is skipped)
NextHeightLate == height + 2 + Len(fetched)
NextHeight == height + 1 + Len(fetched)

FetchBlock ==
  /\ mode = "fetch"
  /\ Available(NextHeight)
  /\ fetched' = Append(fetched, BlockAt(NextHeight))
  /\ mode' = IF NextHeight = goal THEN "apply" ELSE "fetch"
  /\ UNCHANGED <<chainVars, nfVars, witVars, up, height, goal, tracker, since,
                 failures, crashes, refusals>>

(* An error of the loop's own client ends run. *)
BlockMissing ==
  /\ mode = "fetch"
  /\ ~Available(NextHeight)
  /\ FailRun
  /\ UNCHANGED <<failures, crashes>>

CallFails ==
  /\ mode \in {"poll", "fetch"}
  /\ failures + crashes + refusals < MaxFaults
  /\ failures' = failures + 1
  /\ FailRun
  /\ UNCHANGED crashes

(* An insertion refused for a full bucket is only logged. *)
InsertNothing(t, b) == table' = t /\ UNCHANGED refusals   \* (faulty variant)
Insert(t, b) ==
  \/ table' = t \cup {b} /\ UNCHANGED refusals
  \/ /\ failures + crashes + refusals < MaxFaults /\ Weight[b] > 0
     /\ refusals' = refusals + 1
     /\ table' = t

InsertAndEvict(t, b) ==
  \/ table' = Nf!Evicted(t \cup {b}) /\ UNCHANGED refusals
  \/ /\ failures + crashes + refusals < MaxFaults /\ Weight[b] > 0
     /\ refusals' = refusals + 1
     /\ table' = Nf!Evicted(t)

(* One block of the range; the databases are rebuilt after the last.       *)
Applied(b) ==
  /\ mode = "apply"
  /\ fetched # <<>>
  /\ b = Head(fetched)
  /\ fetched' = Tail(fetched)
  /\ tracker' = Tracker!Pushed(tracker, HeightOf[b], b, Parent[b])
  /\ height' = HeightOf[b]
  /\ since' = since + 1
  /\ UNCHANGED <<chainVars, nfPc, nfFresh, nfBackfillEnd, nfLive, nfDisk, nfTask, nfCurrent,
                 nfGoal, nfTo, nfFetched, nfQueue, swallowed,
                 witPc, witLive, witDisk, witTask, witCurrent, witGoal, witTo, witFetched,
                 witPrior, witQueue, unanchored, mode, up, goal, failures, crashes>>

Extend(b) ==
  /\ Applied(b)
  /\ Tracker!Extends(tracker, HeightOf[b], Parent[b])
  /\ IF HasNullifier THEN InsertAndEvict(table, b) ELSE UNCHANGED <<table, refusals>>
  /\ tree' = IF HasWitness THEN Wit!Appended(tree, b) ELSE tree

(* The table drops its latest block while that is above the fork; nothing  *)
(* is evicted on this branch.                                              *)
KeptAboveFork(fork) == table   \* (faulty variant)
Kept(fork) == {b \in table : HeightOf[b] <= fork}

Reorg(b) ==
  LET fork == Tracker!FindForkPoint(tracker, Parent[b])
  IN  /\ Applied(b)
      /\ ~Tracker!Extends(tracker, HeightOf[b], Parent[b])
      /\ IF HasNullifier THEN Insert(Kept(fork), b) ELSE UNCHANGED <<table, refusals>>
      /\ tree' = IF HasWitness THEN Wit!Appended(Wit!RolledBack(tree, fork), b) ELSE tree

ApplyBlock == \E b \in Block : Extend(b) \/ Reorg(b)

PublishNullifiers ==
  /\ mode = "apply"
  /\ fetched = <<>>
  /\ nfLive' = table
  /\ mode' = "publish"
  /\ UNCHANGED <<chainVars, nfPc, nfFresh, table, nfBackfillEnd, nfDisk, nfTask, nfCurrent,
                 nfGoal, nfTo, nfFetched, nfQueue, swallowed, witVars, up, loopVars,
                 failures, crashes, refusals>>

PublishWitnesses ==
  /\ mode = "publish"
  /\ witLive' = tree
  /\ mode' = IF since >= SnapshotInterval THEN "save" ELSE "poll"
  /\ UNCHANGED <<chainVars, nfVars, witPc, tree, witDisk, witTask, witCurrent, witGoal, witTo,
                 witFetched, witPrior, witQueue, unanchored, up, loopVars,
                 failures, crashes, refusals>>

(* Two files: a crash between them leaves snapshots of different heights.  *)
SaveNullifiers ==
  /\ mode = "save"
  /\ nfDisk' = IF HasNullifier THEN {table} ELSE nfDisk
  /\ mode' = "saved"
  /\ UNCHANGED <<chainVars, nfPc, nfFresh, table, nfBackfillEnd, nfLive, nfTask, nfCurrent,
                 nfGoal, nfTo, nfFetched, nfQueue, swallowed, witVars, up, loopVars,
                 failures, crashes, refusals>>

SaveWitnesses ==
  /\ mode = "saved"
  /\ witDisk' = IF HasWitness THEN {tree} ELSE witDisk
  /\ since' = 0
  /\ mode' = "poll"
  /\ UNCHANGED <<chainVars, nfVars, witPc, tree, witLive, witTask, witCurrent, witGoal, witTo,
                 witFetched, witPrior, witQueue, unanchored, up, height, goal, fetched,
                 tracker, failures, crashes, refusals>>

-----------------------------------------------------------------------------
Environment ==
  /\ Grow \/ Switch
  /\ UNCHANGED <<nfVars, witVars, mode, up, loopVars, failures, crashes, refusals>>

NfSync == NfPrepare \/ NfSynced
WitSync == WitPrepare \/ WitSynced \/ WitFails

LoopStep ==
  \/ BothReturned \/ Compare \/ ServeAlone \/ CaughtUp \/ EnterFollow
  \/ Poll \/ FetchBlock \/ BlockMissing \/ ApplyBlock
  \/ PublishNullifiers \/ PublishWitnesses \/ SaveNullifiers \/ SaveWitnesses

ServerStep ==
  /\ NfSync \/ WitSync \/ SyncStep \/ LoopStep
  /\ UNCHANGED features

Disturbance ==
  /\ Environment \/ CallFailsInSync \/ CallFails \/ Crash
  /\ UNCHANGED features

Next == ServerStep \/ PollNothingNew \/ Disturbance

(* The process runs as long as it can, and systemd starts it again when it *)
(* fails.  Nothing makes the chain grow, a call fail or the process crash. *)
Spec == Init /\ [][Next]_vars /\ WF_vars(ServerStep)

-----------------------------------------------------------------------------
(* Properties *)

Following == mode \in {"poll", "fetch", "apply", "publish", "save", "saved"}
Interval(hs) == \A l, h \in hs : l..h \subseteq hs

(* No block of the table is ever inserted a second time or on top of a     *)
(* rival of its height, neither while one subsystem catches up with the    *)
(* other nor in the loop that follows: what insert_block does not check.   *)
InsertsAreFresh ==
  /\ nfQueue # <<>> => HeightOf[Head(nfQueue).block] \notin Nf!Heights(table)
  /\ mode = "apply" /\ fetched # <<>> => HeightOf[Head(fetched)] \notin Nf!Heights(table)

(* No call failed, nothing was refused, the chain stayed on a branch, and  *)
(* no window was left without a block.                                     *)
Undisturbed == failures = 0 /\ refusals = 0 /\ switches = 0 /\ ~unanchored

(* Whenever the loop polls, table, tree and tracker are at one height,     *)
(* although each subsystem synced to the tip it saw and a crash may have   *)
(* left snapshots of two different heights.                                *)
OneHeight ==
  mode = "poll" /\ Undisturbed =>
    /\ HasNullifier =>
         /\ height = Nf!Latest(table)
         /\ Tracker!Tip(tracker) = Tracker!Pair(height, Nf!LatestHash(table))
    /\ HasWitness => height = Wit!Latest(tree)

(* What is served is the chain: a range of blocks without gap, and every   *)
(* leaf at its position, unless the build has no table, whose latest block *)
(* the loop needs to start from.                                           *)
ServedIsTheChain ==
  up /\ Undisturbed =>
    /\ Interval(Nf!Heights(nfLive)) /\ nfLive \subseteq ChainOf[best]
    /\ HasNullifier => Wit!Placed(witLive)

(* Table and tracker never drift apart: what the table holds from the      *)
(* bottom of the tracker's window on is that window, also after reorgs,    *)
(* failures and crashes.                                                   *)
WindowIsInTable ==
  mode = "poll" /\ HasNullifier /\ refusals = 0 =>
    {b \in table : HeightOf[b] >= tracker[1].height}
      = {tracker[i].hash : i \in DOMAIN tracker} \ {ZeroHash}

(* The orphans of a reorg leave the table: after a block is applied, the   *)
(* blocks of the table that are not its ancestors lie below the window the *)
(* tracker had (rollback_block is given the real hashes here, unlike in    *)
(* the standalone server).                                                 *)
OrphansLeave ==
  [][mode = "apply" /\ fetched' # fetched =>
       \A b \in table' :
         HeightOf[b] < tracker[1].height \/ b \in ChainOf[Tracker!Tip(tracker').hash]]_vars

(* The server catches up with the tip and stays there, whatever reorgs and *)
(* failures it met, if from some time on the tree's snapshot holds only    *)
(* blocks of the chain in their places.                                    *)
CatchesUp ==
  <>[](~unanchored /\ \A t \in witDisk : Wit!Placed(t)) =>
    <>[](Following /\ height >= HeightOf[best])

(* What the comment on the tree's leaves says: "`leaves[i]` corresponds to *)
(* global tree position `leaf_offset + i`", asked of a tree whose window   *)
(* starts at a block it holds.                                             *)
LeavesAreAtTheirPositions == ~unanchored => Wit!Placed(tree)
=============================================================================
