---------------------------- MODULE ChainTracker ----------------------------
(***************************************************************************)
(* The bounded window of (height, hash) pairs in which the follow loops    *)
(* look for a fork: ChainTracker of shared/chain-ingest, as functions of   *)
(* the window.  The window is oldest first; prev is the hash a new block   *)
(* names as its parent.                                                    *)
(***************************************************************************)
EXTENDS Integers, Sequences

CONSTANT MaxDepth   \* max_depth

Pair(height, hash) == [height |-> height, hash |-> hash]

WithTip(height, hash) == <<Pair(height, hash)>>

Tip(window) == window[Len(window)]

(* u64::saturating_sub(1) *)
Below(height) == IF height = 0 THEN 0 ELSE height - 1

(* truncate_to pops from the back for as long as it sees a height above    *)
(* the fork.                                                               *)
TruncateNothing(window, fork) == window   \* (faulty variant)
TruncateTo(window, fork) ==
  LET n == CHOOSE m \in 0..Len(window) :
             /\ m # 0 => window[m].height <= fork
             /\ \A i \in (m + 1)..Len(window) : window[i].height > fork
  IN  SubSeq(window, 1, n)

(* find_fork_point: the height of the newest pair with the hash; if there  *)
(* is none, the height below the window, or 0 when there is no window.     *)
\* (faulty variants: the search is skipped; the front itself is the answer)
ForkBelowWindow(window, hash) ==
  IF window = <<>> THEN 0 ELSE Below(window[1].height)
ForkAtFront(window, hash) ==
  LET hits == {i \in DOMAIN window : window[i].hash = hash}
  IN  CASE hits # {}      -> window[CHOOSE i \in hits : \A j \in hits : j <= i].height
        [] window = <<>>  -> 0
        [] OTHER          -> window[1].height
FindForkPoint(window, hash) ==
  LET hits == {i \in DOMAIN window : window[i].hash = hash}
  IN  CASE hits # {}      -> window[CHOOSE i \in hits : \A j \in hits : j <= i].height
        [] window = <<>>  -> 0
        [] OTHER          -> Below(window[1].height)

(* push_block on a window that is not empty extends it on this condition   *)
(* and reports a reorg otherwise.                                          *)
Links(window, height, prev) ==
  /\ prev = Tip(window).hash
  /\ height = Tip(window).height + 1

PopFrontNever(window) == window   \* (faulty variant)
PopFront(window) == IF Len(window) > MaxDepth THEN Tail(window) ELSE window

Extends(window, height, prev) == window = <<>> \/ Links(window, height, prev)

(* The window after push_block. *)
Pushed(window, height, hash, prev) ==
  CASE window = <<>> -> WithTip(height, hash)
    [] window # <<>> /\ Links(window, height, prev) ->
         PopFront(Append(window, Pair(height, hash)))
    [] OTHER ->
         Append(TruncateTo(window, FindForkPoint(window, prev)), Pair(height, hash))
=============================================================================
