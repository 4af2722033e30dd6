------------------------------- MODULE Poller -------------------------------
(* The Bitcoin poller (src/coincubed/src/bitcoin/poller/looper.rs): one    *)
(* poll, from the read of the rescan state to the last write, with one     *)
(* action per span of backend reads and one per SQLite transaction.  The   *)
(* node moves between any two of them, the start_rescan command runs       *)
(* beside them, a read of the backend may fail, and the daemon may stop.   *)
(*                                                                         *)
(* TipNotRead, ReceivedAgain, StoredTip and the other definitions that     *)
(* nothing uses are mistakes the code might have made in place of the      *)
(* definition that follows them; README.md says which property each breaks.*)
EXTENDS Node, WalletDb

CONSTANTS
  MaxReorgDepth,  \* MAX_REORG_DEPTH
  Rpcs,           \* threads that serve start_rescan
  RpcDuringPoll,  \* whether start_rescan may overlap a poll
  MaxRescans,     \* bound: rescans asked for
  MaxReplays,     \* bound: replays of the wallet's records asked for
  MaxFailures,    \* bound: polls that a backend failure ends
  MaxCrashes,     \* bound: stops of the daemon
  InitialChain    \* what the chain holds when the wallet is created

ASSUME PollerAssumption ==
  /\ MaxReorgDepth \in Nat \ {0}
  /\ RpcDuringPoll \in BOOLEAN
  /\ MaxRescans \in Nat /\ MaxReplays \in Nat
  /\ MaxFailures \in Nat /\ MaxCrashes \in Nat
  /\ InitialChain \in Tip /\ ValidChain(InitialChain)
  /\ \A h \in 1..Len(InitialChain) : InitialChain[h].branch = 0

VARIABLES
  (* the SQLite database: what survives a stop *)
  tip,               \* tip
  coins,             \* coins
  txs,               \* transactions (their ids)
  rescan_timestamp,  \* wallets.rescan_timestamp
  timestamp,         \* wallets.timestamp
  (* the poller's thread *)
  pc,                \* the next step of the poll
  ticket,            \* replay_ticket; 0 for None
  completed,         \* RescanObservation::Completed was observed
  target,            \* the tip of that observation, then latest_tip
  upd,               \* UpdatedCoins, and the transactions to add
  (* shared memory *)
  requested,         \* WalletRecordReplay
  acknowledged,
  alert,             \* ReorgAlertCache: the refused depth, 0 for none
  rpc,               \* where each start_rescan stands
  (* bookkeeping of the model *)
  polled,            \* a poll succeeded since the daemon started
  owed,              \* the node's records when the last replay was requested
  rescans, replays, failures, crashes

dbVars     == <<tip, coins, txs, rescan_timestamp, timestamp>>
pollVars   == <<pc, ticket, completed, target, upd>>
sharedVars == <<requested, acknowledged, alert>>
modelVars  == <<polled, owed>>
bounds     == <<rescans, replays, failures, crashes>>
vars       == <<nodeVars, dbVars, pollVars, sharedVars, rpc, modelVars, bounds>>

Reads  == {"marker", "rollback", "new_tip", "received", "confirmed", "spending", "spent", "recheck"}
Writes == {"new_txs", "new_unspent", "remove", "confirm", "unspend", "spend",
           "confirm_spend", "from_self", "update_tip", "complete_rescan", "finish"}

IsUpdate(u) ==
  /\ DOMAIN u = {"received", "confirmed", "expired", "spending", "expired_spending", "spent", "txs"}
  /\ u.received \in SUBSET Coins /\ u.expired \in SUBSET Coins
  /\ u.expired_spending \in SUBSET Coins /\ u.txs \in SUBSET Txs
  /\ PartialFunction(u.confirmed, Coins, Nat)
  /\ PartialFunction(u.spending, Coins, Txs)
  /\ PartialFunction(u.spent, Coins, SpentAt)

EmptyFunction == [x \in {} |-> x]
NoUpdate ==
  [received |-> {}, confirmed |-> EmptyFunction, expired |-> {}, spending |-> EmptyFunction,
   expired_spending |-> {}, spent |-> EmptyFunction, txs |-> {}]

RpcState == [at : {"idle", "checked", "started"}, ts : Nat]
IdleRpc  == [at |-> "idle", ts |-> 0]

(* The tables and the poll have their types.                               *)
TypeOK ==
  /\ NodeTypeOK
  /\ tip \in Tip /\ IsCoinTable(coins) /\ txs \in SUBSET Txs
  /\ rescan_timestamp \in Nat \cup {Null} /\ timestamp \in Nat
  /\ pc \in {"idle", "panicked"} \cup Reads \cup Writes
  /\ ticket \in Nat /\ completed \in BOOLEAN /\ target \in Tip
  /\ IsUpdate(upd)
  /\ requested \in Nat /\ acknowledged \in Nat
  /\ alert \in Nat
  /\ rpc \in [Rpcs -> RpcState]
  /\ polled \in BOOLEAN /\ owed \in SUBSET Txs
  /\ rescans \in Nat /\ replays \in Nat /\ failures \in Nat /\ crashes \in Nat

(* A new wallet: maybe_initialize_tip stored the genesis block, the node's *)
(* wallet has no record, and the startup replay (ticket 1) is pending.     *)
Init ==
  /\ chain = InitialChain /\ mempool = {} /\ known = {} /\ scanning = Null
  /\ reorgs = 0 /\ rewinds = 0 /\ evictions = 0
  /\ tip = Genesis /\ coins = NoCoins /\ txs = {}
  /\ rescan_timestamp = Null /\ timestamp = Len(InitialChain)
  /\ pc = "idle" /\ ticket = 0 /\ completed = FALSE /\ target = Genesis
  /\ upd = NoUpdate
  /\ requested = 1 /\ acknowledged = 0 /\ alert = 0
  /\ rpc = [r \in Rpcs |-> IdleRpc]
  /\ polled = FALSE /\ owed = {}
  /\ rescans = 0 /\ replays = 0 /\ failures = 0 /\ crashes = 0
(***************************************************************************)
(* How a poll ends.                                                        *)
(***************************************************************************)

LeavePoll ==
  /\ pc' = "idle" /\ ticket' = 0 /\ completed' = FALSE
  /\ target' = Genesis /\ upd' = NoUpdate

(* Any read of the backend may fail: the poll ends, nothing is written.    *)
ReadFails ==
  /\ pc \in Reads \ {"rollback"}
  /\ failures < MaxFailures
  /\ failures' = failures + 1
  /\ LeavePoll
  /\ UNCHANGED <<nodeVars, dbVars, sharedVars, rpc, modelVars, rescans, replays, crashes>>

(***************************************************************************)
(* poll and observe_rescan                                                 *)
(***************************************************************************)

ReplayPending == requested > acknowledged

(* The replay ticket is read before anything else; then the node's rescan  *)
(* progress.  Running and a marker that is not set go on alike.            *)
BeginPoll ==
  /\ pc = "idle"
  /\ RpcDuringPoll \/ \A r \in Rpcs : rpc[r] = IdleRpc
  /\ ticket' = IF ReplayPending THEN requested ELSE 0
  /\ pc' = IF scanning # Null THEN "new_tip" ELSE "marker"
  /\ UNCHANGED <<nodeVars, dbVars, completed, target, upd, sharedVars, rpc, modelVars, bounds>>

(* try_block_before_date: the last block below the time, for a time        *)
(* between those of the genesis block and of the tip.                      *)
BlockAt(ts) == SubSeq(chain, 1, ts)
BlockBefore(ts) == SubSeq(chain, 1, IF ts = 0 THEN 0 ELSE ts - 1)

(* No rescan is running, so a marker says that one has completed.          *)
ReadMarker ==
  /\ pc = "marker"
  /\ \/ /\ rescan_timestamp = Null
        /\ pc' = "new_tip"
        /\ UNCHANGED <<ticket, completed, target, upd>>
     \/ /\ rescan_timestamp # Null /\ rescan_timestamp < Len(chain)
        /\ pc' = "rollback" /\ completed' = TRUE
        /\ target' = BlockBefore(rescan_timestamp)
        /\ UNCHANGED <<ticket, upd>>
     \/ /\ rescan_timestamp # Null /\ rescan_timestamp >= Len(chain)
        /\ LeavePoll
  /\ UNCHANGED <<nodeVars, dbVars, sharedVars, rpc, modelVars, bounds>>

RollbackTip(newTip) ==
  /\ coins' = RollbackCoins(coins, Height(newTip))
  /\ tip' = newTip
  /\ UNCHANGED <<txs, rescan_timestamp, timestamp>>

RollbackToRescan ==
  /\ pc = "rollback"
  /\ RollbackTip(target)
  /\ pc' = "new_tip" /\ target' = Genesis
  /\ UNCHANGED <<nodeVars, ticket, completed, upd, sharedVars, rpc, modelVars, bounds>>

(***************************************************************************)
(* new_tip, and what updates does with its answer                          *)
(***************************************************************************)

StoredTip == tip
CommonAncestor == SubSeq(chain, 1, ForkHeight(tip, chain))
ReorgDepth     == Height(tip) - Height(CommonAncestor)

(* TipUpdate::Same and TipUpdate::Progress                                 *)
TipProgress ==
  /\ pc = "new_tip"
  /\ InChain(tip, chain)
  /\ target' = chain /\ pc' = "received"
  /\ UNCHANGED <<nodeVars, dbVars, ticket, completed, upd, sharedVars, rpc, modelVars, bounds>>

(* TipUpdate::Reorged: roll back, and leave the rest to the next poll.     *)
TipReorged ==
  /\ pc = "new_tip"
  /\ ~InChain(tip, chain) /\ ReorgDepth <= MaxReorgDepth
  /\ RollbackTip(CommonAncestor)
  /\ LeavePoll
  /\ UNCHANGED <<nodeVars, sharedVars, rpc, modelVars, bounds>>

(* TipUpdate::ImplausibleReorg: refuse_deep_reorg publishes the depth at   *)
(* which the walk stopped.                                                 *)
TipRefused ==
  /\ pc = "new_tip"
  /\ ~InChain(tip, chain) /\ ReorgDepth > MaxReorgDepth
  /\ alert' = MaxReorgDepth + 1
  /\ LeavePoll
  /\ UNCHANGED <<nodeVars, dbVars, requested, acknowledged, rpc, modelVars, bounds>>

(***************************************************************************)
(* update_coins and collect_txs: one action for each question to the node  *)
(***************************************************************************)

(* try_received_coins, from the genesis block when a replay is pending.    *)
ReceivedAgain == ReceivedSince(IF ReplayPending THEN Genesis ELSE tip)
NewlyReceived == ReceivedSince(IF ReplayPending THEN Genesis ELSE tip) \ DOMAIN coins

ReadReceived ==
  /\ pc = "received"
  /\ upd' = [upd EXCEPT !.received = NewlyReceived]
  /\ pc' = "confirmed"
  /\ UNCHANGED <<nodeVars, dbVars, ticket, completed, target, sharedVars, rpc, modelVars, bounds>>

(* The rows as the poll sees them: the stored ones and the received ones.  *)
Seen == NewUnspentCoins(coins, upd.received)

(* try_confirmed_coins on the coins without a block.                       *)
ReceivedUnconfirmed == {c \in upd.received : TxOf[c] \in known}
ToBeConfirmed == {c \in DOMAIN Seen : Seen[c].blockheight = Null /\ TxOf[c] \in known}

ReadConfirmed ==
  /\ pc = "confirmed"
  /\ upd' = [upd EXCEPT
       !.confirmed = [c \in {d \in ToBeConfirmed : Confirmed(TxOf[d])} |-> HeightOf(TxOf[c], chain)],
       !.expired = {c \in ToBeConfirmed : ~Confirmed(TxOf[c]) /\ TxOf[c] \notin mempool}]
  /\ pc' = "spending"
  /\ UNCHANGED <<nodeVars, dbVars, ticket, completed, target, sharedVars, rpc, modelVars, bounds>>

(* try_get_spender_txid takes any spender but one with zero confirmations, *)
(* negative ones not being zero, that has a conflict and is not in the     *)
(* mempool.                                                                *)
Spenders(c) ==
  {t \in known : /\ c \in Ins[t]
                 /\ \/ Confirmed(t) \/ Conflicted(t)
                    \/ WalletConflicts(t) = {} \/ t \in mempool}

(* try_spending_coins on the coins whose spend is not confirmed.           *)
ReadSpending ==
  /\ pc = "spending"
  /\ LET toBeSpent == {c \in DOMAIN Seen : Seen[c].spend_block_height = Null /\ c \notin upd.expired}
         spentOnes == {c \in toBeSpent : TxOf[c] \in known /\ IsSpent(c) /\ Spenders(c) # {}}
     IN \E spender \in [spentOnes -> Txs] :
          /\ \A c \in spentOnes : spender[c] \in Spenders(c)
          /\ upd' = [upd EXCEPT !.spending = spender]
  /\ pc' = "spent"
  /\ UNCHANGED <<nodeVars, dbVars, ticket, completed, target, sharedVars, rpc, modelVars, bounds>>

(* try_spent_coins on the spends in the table and the ones just found: a   *)
(* spend is confirmed, or a confirmed conflict spends the coin, or the     *)
(* spend has left the mempool.  Then collect_txs.                          *)
ConfirmedSpender(c, t) ==
  {u \in known : Confirmed(u) /\ c \in Ins[u] /\ (u = t \/ Conflicts(t, u))}

CollectReceivedTxs == {TxOf[c] : c \in upd.received} \ txs
CollectTxs == ({TxOf[c] : c \in upd.received} \cup {upd.spending[c] : c \in DOMAIN upd.spending}) \ txs

ReadSpent ==
  /\ pc = "spent"
  /\ LET pairs == {<<c, coins[c].spend_txid>> : c \in SpendingCoins(coins)}
                    \cup {<<c, upd.spending[c]>> : c \in DOMAIN upd.spending}
         asked == {p \in pairs : p[2] \in known}
         spent == {p[1] : p \in {q \in asked : ConfirmedSpender(q[1], q[2]) # {}}}
         SpenderOf(c) == CHOOSE u \in Txs : \E p \in asked : p[1] = c /\ u \in ConfirmedSpender(c, p[2])
     IN upd' = [upd EXCEPT
          !.spent = [c \in spent |-> [txid |-> SpenderOf(c), height |-> HeightOf(SpenderOf(c), chain)]],
          !.expired_spending =
             {p[1] : p \in {q \in asked : ConfirmedSpender(q[1], q[2]) = {} /\ q[2] \notin mempool}},
          !.txs = CollectTxs]
  /\ pc' = "recheck"
  /\ UNCHANGED <<nodeVars, dbVars, ticket, completed, target, sharedVars, rpc, modelVars, bounds>>

(* The second read of the tip, before the first write.                     *)
TipNotRead == TRUE
TipUnchanged == chain = target

Recheck ==
  /\ pc = "recheck"
  /\ \/ /\ TipUnchanged
        /\ pc' = "new_txs"
        /\ UNCHANGED <<ticket, completed, target, upd>>
     \/ /\ ~TipUnchanged
        /\ LeavePoll
  /\ UNCHANGED <<nodeVars, dbVars, sharedVars, rpc, modelVars, bounds>>
(***************************************************************************)
(* The writes of updates, in their order.  A stop may fall between any two *)
(***************************************************************************)

(* A coin inserted twice, a transaction named that is not stored, a marker *)
(* to clear that is not there.                                             *)
BreaksConstraint ==
  \/ pc = "new_unspent" /\ \E c \in upd.received : c \in DOMAIN coins \/ TxOf[c] \notin txs
  \/ pc = "spend" /\ \E c \in DOMAIN upd.spending \cap DOMAIN coins : upd.spending[c] \notin txs
  \/ pc = "confirm_spend" /\ \E c \in DOMAIN upd.spent \cap DOMAIN coins : upd.spent[c].txid \notin txs
  \/ pc = "complete_rescan" /\ rescan_timestamp = Null

(* The statement is rolled back and its expect ends the daemon.            *)
Panic ==
  /\ BreaksConstraint
  /\ pc' = "panicked" /\ polled' = FALSE
  /\ UNCHANGED <<nodeVars, dbVars, ticket, completed, target, upd, sharedVars, rpc, owed, bounds>>

WriteCoins(at, table, next) ==
  /\ pc = at
  /\ ~BreaksConstraint
  /\ coins' = table
  /\ pc' = next
  /\ UNCHANGED <<nodeVars, tip, txs, rescan_timestamp, timestamp, ticket, completed, target, upd,
                 sharedVars, rpc, modelVars, bounds>>

(* new_txs; then reorg_alert.clear.                                        *)
NewTxs ==
  /\ pc = "new_txs"
  /\ txs' = txs \cup upd.txs
  /\ alert' = 0
  /\ pc' = "new_unspent"
  /\ UNCHANGED <<nodeVars, tip, coins, rescan_timestamp, timestamp, ticket, completed, target, upd,
                 requested, acknowledged, rpc, modelVars, bounds>>

LatestHeight == Height(target)
PrevTipHeight == Height(tip)

WriteNewUnspent   == WriteCoins("new_unspent", NewUnspentCoins(coins, upd.received), "remove")
WriteRemove       == WriteCoins("remove", RemoveCoins(coins, upd.expired), "confirm")
WriteConfirm      == WriteCoins("confirm", ConfirmCoins(coins, upd.confirmed), "unspend")
WriteUnspend      == WriteCoins("unspend", UnspendCoins(coins, upd.expired_spending), "spend")
WriteSpend        == WriteCoins("spend", SpendCoins(coins, upd.spending), "confirm_spend")
WriteConfirmSpend == WriteCoins("confirm_spend", ConfirmSpend(coins, upd.spent), "from_self")
WriteFromSelf     == WriteCoins("from_self", UpdateCoinsFromSelf(coins, txs, PrevTipHeight), "update_tip")

CompletesAlways == "complete_rescan"
CompletesNever == "finish"
AfterUpdateTip == IF completed THEN "complete_rescan" ELSE "finish"

UpdateTip ==
  /\ pc = "update_tip"
  /\ tip' = target
  /\ pc' = AfterUpdateTip
  /\ UNCHANGED <<nodeVars, coins, txs, rescan_timestamp, timestamp, ticket, completed, target, upd,
                 sharedVars, rpc, modelVars, bounds>>

MinOf(a, b) == IF a < b THEN a ELSE b
MaxOf(a, b) == IF a < b THEN b ELSE a

ClearedDate == MinOf(Null, timestamp)
CompletedDate == MinOf(rescan_timestamp, timestamp)

CompleteRescan ==
  /\ pc = "complete_rescan"
  /\ ~BreaksConstraint
  /\ timestamp' = CompletedDate
  /\ rescan_timestamp' = Null
  /\ pc' = "finish"
  /\ UNCHANGED <<nodeVars, tip, coins, txs, ticket, completed, target, upd, sharedVars, rpc, modelVars,
                 bounds>>

(* The poll succeeded: acknowledge the replay that was pending when it     *)
(* began, poll_succeeded, set_last_poll.                                   *)
AcknowledgeLatest == requested
Acknowledge == IF ticket = 0 THEN acknowledged ELSE MaxOf(acknowledged, MinOf(ticket, requested))

FinishPoll ==
  /\ pc = "finish"
  /\ acknowledged' = Acknowledge
  /\ polled' = TRUE
  /\ LeavePoll
  /\ UNCHANGED <<nodeVars, dbVars, requested, alert, rpc, owed, bounds>>

(***************************************************************************)
(* The commands, on threads of their own                                   *)
(***************************************************************************)

MayServe == pc = "idle" \/ (RpcDuringPoll /\ pc # "panicked")

(* start_rescan refuses a time that is not below the tip's, and a rescan   *)
(* beside another.                                                         *)
CheckRescan(r, ts) ==
  /\ MayServe
  /\ rescans < MaxRescans
  /\ rpc[r].at = "idle"
  /\ ts < Len(chain)
  /\ scanning = Null /\ rescan_timestamp = Null
  /\ rpc' = [rpc EXCEPT ![r] = [at |-> "checked", ts |-> ts]]
  /\ rescans' = rescans + 1
  /\ UNCHANGED <<nodeVars, dbVars, pollVars, sharedVars, modelVars, replays, failures, crashes>>

(* The backend imports the descriptors anew and asks whether they have the *)
(* time of the rescan: they have it when the rescan started, or when the   *)
(* one that runs is from the same time.  Otherwise start_rescan fails.     *)
StartRescan(r) ==
  /\ MayServe
  /\ rpc[r].at = "checked"
  /\ \/ /\ scanning \in {Null, rpc[r].ts}
        /\ scanning' = rpc[r].ts
        /\ rpc' = [rpc EXCEPT ![r].at = "started"]
     \/ /\ rpc' = [rpc EXCEPT ![r] = IdleRpc]
        /\ UNCHANGED scanning
  /\ UNCHANGED <<chain, mempool, known, reorgs, rewinds, evictions, dbVars, pollVars, sharedVars, modelVars, bounds>>

SetRescan(r) ==
  /\ MayServe
  /\ rpc[r].at = "started"
  /\ rescan_timestamp' = rpc[r].ts
  /\ rpc' = [rpc EXCEPT ![r] = IdleRpc]
  /\ UNCHANGED <<nodeVars, tip, coins, txs, timestamp, pollVars, sharedVars, modelVars, bounds>>

(* replay_wallet_records takes a new ticket.                               *)
RequestReplay ==
  /\ replays < MaxReplays
  /\ pc # "panicked"
  /\ replays' = replays + 1
  /\ requested' = requested + 1
  /\ owed' = known
  /\ UNCHANGED <<nodeVars, dbVars, pollVars, acknowledged, alert, rpc, polled, rescans, failures,
                 crashes>>

(* The daemon stops and starts again.  The database stays; the replay is   *)
(* requested anew.                                                         *)
Restart ==
  /\ crashes < MaxCrashes
  /\ crashes' = crashes + 1
  /\ LeavePoll
  /\ requested' = 1 /\ acknowledged' = 0 /\ alert' = 0
  /\ rpc' = [r \in Rpcs |-> IdleRpc]
  /\ polled' = FALSE /\ owed' = known
  /\ UNCHANGED <<nodeVars, dbVars, rescans, replays, failures>>

(***************************************************************************)
(* The specification                                                       *)
(***************************************************************************)

PollStep ==
  \/ BeginPoll \/ ReadMarker \/ RollbackToRescan
  \/ TipProgress \/ TipReorged \/ TipRefused
  \/ ReadReceived \/ ReadConfirmed \/ ReadSpending \/ ReadSpent \/ Recheck
  \/ NewTxs \/ WriteNewUnspent \/ WriteRemove \/ WriteConfirm \/ WriteUnspend \/ WriteSpend
  \/ WriteConfirmSpend \/ WriteFromSelf \/ UpdateTip \/ CompleteRescan \/ FinishPoll \/ Panic

RpcStep == \E r \in Rpcs : (\E ts \in 0..MaxHeight : CheckRescan(r, ts)) \/ StartRescan(r) \/ SetRescan(r)

(* The writes of a poll neither read nor change the node, so its steps are *)
(* taken before or after them.                                             *)
EnvStep ==
  /\ pc \notin Writes
  /\ NodeNext
  /\ UNCHANGED <<dbVars, pollVars, sharedVars, rpc, modelVars, bounds>>

Next == PollStep \/ ReadFails \/ RpcStep \/ RequestReplay \/ Restart \/ EnvStep

Spec == Init /\ [][Next]_vars

(* poll_forever polls again and again on a thread of its own, a command    *)
(* that has begun goes on, and the node ends the rescan it does (strongly  *)
(* fair only because EnvStep leaves the writes of a poll alone).  Nothing  *)
(* else is sure to happen.                                                 *)
FairSpec ==
  /\ Spec
  /\ WF_vars(PollStep)
  /\ \A r \in Rpcs : WF_vars(StartRescan(r)) /\ WF_vars(SetRescan(r))
  /\ SF_vars(EnvStep /\ RescanFinished)
(***************************************************************************)
(* Properties                                                              *)
(***************************************************************************)

(* The coins table says of the blocks of a chain what they hold: the coins *)
(* they confirm since the wallet's date and where, their spends and where, *)
(* and nothing of any other block.                                         *)
ConfirmationsAgree(ch) ==
  \A c \in Coins :
    /\ (/\ TxOf[c] \in ChainTxs(ch)
        /\ HeightOf(TxOf[c], ch) > timestamp) => c \in DOMAIN coins
    /\ c \in DOMAIN coins =>
         coins[c].blockheight = IF TxOf[c] \in ChainTxs(ch) THEN HeightOf(TxOf[c], ch) ELSE Null
SpendsAgree(ch) ==
  \A c \in DOMAIN coins :
    LET spender == {t \in ChainTxs(ch) : c \in Ins[t]}
    IN IF spender = {} THEN coins[c].spend_block_height = Null
       ELSE \E t \in spender : /\ coins[c].spend_txid = t
                               /\ coins[c].spend_block_height = HeightOf(t, ch)

(* Once a poll has succeeded, and outside the writes of the next one, the  *)
(* stored tip means that the coins table has the updates of the chain up   *)
(* to that block and not more (looper.rs:595-597): through reorganisations *)
(* in the middle of a poll, rollbacks, refusals and failed reads.          *)
TipMeansUpdated ==
  polled /\ pc \notin Writes => ConfirmationsAgree(tip) /\ SpendsAgree(tip)

(* Between polls, with no rescan to complete, the table has every coin     *)
(* confirmed on the stored chain after the wallet's date (schema.rs:43-44). *)
SeenSinceTimestamp ==
  polled /\ pc = "idle" /\ rescan_timestamp = Null =>
    \A c \in Coins :
      TxOf[c] \in ChainTxs(tip) /\ HeightOf(TxOf[c], tip) > timestamp => c \in DOMAIN coins

(* No write of a poll but the one of confirmed spends breaks a constraint  *)
(* of the schema, or an expect, and so ends the daemon: a coin is inserted *)
(* once and after its transaction, a spend found by the poll names a       *)
(* stored transaction, the marker of a rescan is there to clear            *)
(* (looper.rs:584).                                                        *)
InsertsNeverPanic == BreaksConstraint => pc = "confirm_spend"

(* Nor does that one: try_get_spender_txid does not give a transaction     *)
(* that was replaced (bitcoin/d/mod.rs:1578-1579), so the transaction that *)
(* spends a coin on the chain is stored when its row comes to name it.     *)
WritesNeverPanic == pc # "panicked"

(* update_coins_from_self only looks above the former tip and only ever    *)
(* sets the mark.  Of a confirmed coin it still leaves, when no rescan has *)
(* its rollback before it, what the schema says of the mark                *)
(* (schema.rs:104-106): what a computation over the whole table marks.     *)
FromSelfExact ==
  polled /\ pc \notin Writes /\ rescan_timestamp = Null =>
    LET unmarked == [c \in DOMAIN coins |-> [coins[c] EXCEPT !.is_from_self = FALSE]]
        scratch  == UpdateCoinsFromSelf(unmarked, txs, Null)
    IN \A c \in DOMAIN coins :
         coins[c].blockheight # Null => coins[c].is_from_self = scratch[c].is_from_self

(* The marker of a rescan goes away only when the coins of the blocks from *)
(* its date on are in the table (looper.rs:676-678): not when the poll     *)
(* after the rollback fails, and not across a stop of the daemon.          *)
RescanDelivers ==
  [][rescan_timestamp # Null /\ rescan_timestamp' = Null =>
       \A c \in Coins :
         TxOf[c] \in ChainTxs(tip) /\ HeightOf(TxOf[c], tip) >= rescan_timestamp
           => c \in DOMAIN coins]_vars

(* A replay is acknowledged only when what the node's wallet had on record *)
(* when it was requested, as far as the chain of the stored tip has it, is *)
(* in the table: a poll that began before the request does not answer it   *)
(* (bitcoin/mod.rs:537-538), and one that loses its chain between two      *)
(* reads does not either.                                                  *)
ReplayDelivers ==
  [][ReplayPending /\ ~ReplayPending' =>
       \A c \in Coins : TxOf[c] \in owed \cap ChainTxs(tip) => c \in DOMAIN coins]_vars

(* Whatever the node goes through, the stored tip ends up being the node's *)
(* unless the depth limit makes the poller refuse its chain, for as long   *)
(* as the alert says so, or the date of a rescan to complete is not below  *)
(* the tip any more, which ends every poll (observe_rescan).               *)
CatchesUp ==
  \/ <>[](tip = chain)
  \/ <>[](tip # chain /\ alert # 0)
  \/ <>[](rescan_timestamp >= Len(chain))

(* A rescan completes, unless the chain no longer reaches above its date.  *)
RescanEnds == rescan_timestamp # Null ~> (rescan_timestamp = Null \/ rescan_timestamp >= Len(chain))
=============================================================================
