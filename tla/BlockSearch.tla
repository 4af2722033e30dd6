---------------------------- MODULE BlockSearch ----------------------------
(***************************************************************************)
(* block_before_date: where a rescan from a date makes the poller roll     *)
(* back to.  A binary search over the chain, one request to the node per   *)
(* step; the times of blocks need not grow with the height.                *)
(***************************************************************************)
EXTENDS Integers

CONSTANTS TipHeight,  \* the height of the chain's tip
          MaxTime     \* bound: the time of a block

ASSUME SearchAssumption == TipHeight \in Nat /\ MaxTime \in Nat

VARIABLES
  times,   \* the times of the blocks, by height
  target,  \* the date
  low,     \* start_height
  high,    \* end_height
  search   \* "searching", "found" or "none"

searchVars == <<times, target, low, high, search>>

Heights == 0..TipHeight

SearchTypeOK ==
  /\ times \in [Heights -> 0..MaxTime]
  /\ target \in 0..MaxTime
  /\ low \in Heights /\ high \in Heights
  /\ search \in {"searching", "found", "none"}

(* A date before the genesis block's or not before the tip's has no block. *)
InRange(ts, date) == ts[0] <= date /\ date < ts[TipHeight]

SearchInit ==
  /\ times \in [Heights -> 0..MaxTime]
  /\ target \in 0..MaxTime
  /\ low = 0 /\ high = TipHeight
  /\ search = IF InRange(times, target) THEN "searching" ELSE "none"

Middle == low + (high - low) \div 2
(* Mutants: the block at the date counts as before it; the middle block is *)
(* compared, not the next.                                                 *)
IsNotAfter(next) == times[next] <= target
IsMiddleBefore(next) == times[next - 1] < target
IsBefore(next) == times[next] < target

(* Mutant: the middle block is ruled out with those above it.              *)
HalveBelow ==
  /\ search = "searching" /\ low < high
  /\ IF IsBefore(Middle + 1)
     THEN low' = Middle + 1 /\ UNCHANGED high
     ELSE high' = Middle - 1 /\ UNCHANGED low
  /\ UNCHANGED <<times, target, search>>

Halve ==
  /\ search = "searching" /\ low < high
  /\ IF IsBefore(Middle + 1)
     THEN low' = Middle + 1 /\ UNCHANGED high
     ELSE high' = Middle /\ UNCHANGED low
  /\ UNCHANGED <<times, target, search>>

Found ==
  /\ search = "searching" /\ ~(low < high)
  /\ search' = "found"
  /\ UNCHANGED <<times, target, low, high>>

(* The node does not know a block: the poll fails and is retried.          *)
Missing ==
  /\ search = "searching"
  /\ search' = "none"
  /\ UNCHANGED <<times, target, low, high>>

SearchNext == Halve \/ Found \/ Missing

SearchSpec == SearchInit /\ [][SearchNext]_searchVars

(* However the times of the blocks are ordered, the block that is found is *)
(* before the date and the next one is not (the genesis block may have     *)
(* exactly this date), and there is a next one, so the search never asks   *)
(* for a block above the tip.                                              *)
SearchCrosses ==
  search = "found" =>
    /\ low < TipHeight
    /\ low = 0 \/ times[low] < target
    /\ target <= times[low + 1]

(* On a chain whose times grow, it is "the last block of the chain before  *)
(* the given date" (bitcoin/d/utils.rs:22).                                *)
Ordered == \A i, j \in Heights : i <= j => times[i] <= times[j]
SearchExact ==
  search = "found" /\ Ordered =>
    0..low = {0} \cup {h \in Heights : times[h] < target}
=============================================================================
