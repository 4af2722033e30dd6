----------------------------- MODULE TipProofs -----------------------------
(* What the stored tip and the marks of update_coins_from_self mean, for   *)
(* any wallet, chain and number of reorganisations or of stops: the writes *)
(* of a poll, the steps beside it and the theorems.                        *)
EXTENDS UpdateProofs

(* new_unspent_coins                                                       *)
LEMMA NewUnspentTip ==
  ASSUME IInv, TipInv, WriteNewUnspent
  PROVE  TipInv'
<1> DEFINE table == NewUnspentCoins(coins, upd.received)
<1>1. WriteCoins("new_unspent", table, "remove") /\ "new_unspent" \in Stored \ {"update_tip"} /\ "remove" \in Stored
  BY DEF WriteNewUnspent, Stored
<1>2. /\ DOMAIN table = DOMAIN coins \cup upd.received
      /\ \A c \in upd.received : table[c].blockheight = Null /\ table[c].spend_block_height = Null
      /\ \A c \in DOMAIN coins \ upd.received : table[c] = coins[c]
  BY DEF NewUnspentCoins, NewRow
<1> HIDE DEF table
<1>3. /\ pc = "new_unspent" /\ pc' = "remove" /\ coins' = table /\ UNCHANGED <<upd, target, known>>
      /\ ListedInv /\ SpentInv /\ QuietInv /\ chain = target /\ Sound(coins, chain)
      /\ IsCoinTable(coins) /\ IsUpdate(upd)
  BY <1>1, CoinsWritten, Zenon
<1>4. upd.received \cap DOMAIN coins = {}
  BY <1>3, Zenon DEF IInv, Staged
<1>5. Sound(table, chain)
  BY <1>2, <1>3 DEF Sound
<1>6. Rows' = Rows /\ Rows = DOMAIN table
  BY <1>2, <1>3, Zenon DEF Rows, Unstored
<1>7. ListedInv'
  BY <1>2, <1>3, <1>4, <1>6, Zenon DEF ListedInv, HasBlock, Unstored, Unconfirmed, Confirming
<1>8. SpentInv'
  BY <1>2, <1>3, <1>4, <1>6, Zenon DEF SpentInv, HasSpend, Unspent
<1>9. QuietInv'
  BY <1>2, <1>3, <1>4, Zenon DEF QuietInv, HasSpend, Unspent
<1>10. QED
  BY <1>1, <1>2, <1>5, <1>7, <1>8, <1>9, CoinsTip, Zenon

(* remove_coins                                                            *)
LEMMA RemoveTip ==
  ASSUME IInv, TipInv, WriteRemove
  PROVE  TipInv'
<1> DEFINE table == RemoveCoins(coins, upd.expired)
<1>1. WriteCoins("remove", table, "confirm") /\ "remove" \in Stored \ {"update_tip"} /\ "confirm" \in Stored
  BY DEF WriteRemove, Stored
<1>2. DOMAIN table = DOMAIN coins \ upd.expired /\ \A c \in DOMAIN table : table[c] = coins[c]
  BY DEF RemoveCoins
<1> HIDE DEF table
<1>3. /\ pc = "remove" /\ pc' = "confirm" /\ coins' = table /\ UNCHANGED <<upd, target, known>>
      /\ ListedInv /\ SpentInv /\ QuietInv /\ chain = target /\ Sound(coins, chain)
      /\ IsCoinTable(coins) /\ IsUpdate(upd)
  BY <1>1, CoinsWritten, Zenon
<1>4. Sound(table, chain)
  BY <1>2, <1>3 DEF Sound
<1>5. Rows = DOMAIN coins /\ Rows' = DOMAIN table
  BY <1>3, Zenon DEF Rows, Unstored
<1>6. Expected(target) \cap upd.expired = {}
  BY <1>3, Zenon DEF ListedInv, Unconfirmed, Expected
<1>7. ListedInv'
  <2>1. Expected(target) \subseteq Rows'
    BY <1>2, <1>3, <1>5, <1>6, Zenon DEF ListedInv, Unstored, Unconfirmed
  <2>2. QED
    BY <1>2, <1>3, <1>5, <2>1, Zenon DEF ListedInv, HasBlock, Unstored, Unconfirmed, Confirming
<1>8. SpentInv'
  BY <1>2, <1>3, <1>5, Zenon DEF SpentInv, HasSpend, Unspent
<1>9. QuietInv'
  BY <1>2, <1>3, Zenon DEF QuietInv, HasSpend, Unspent
<1>10. QED
  BY <1>1, <1>2, <1>4, <1>7, <1>8, <1>9, CoinsTip, Zenon

(* confirm_coins                                                           *)
LEMMA ConfirmTip ==
  ASSUME IInv, TipInv, WriteConfirm
  PROVE  TipInv'
<1> DEFINE table == ConfirmCoins(coins, upd.confirmed)
<1>1. WriteCoins("confirm", table, "unspend") /\ "confirm" \in Stored \ {"update_tip"} /\ "unspend" \in Stored
  BY DEF WriteConfirm, Stored
<1>2. IsCoinTable(coins) /\ IsUpdate(upd)
  BY Keep, Zenon
<1>3. /\ DOMAIN table = DOMAIN coins
      /\ \A c \in DOMAIN coins :
           /\ table[c].blockheight = IF c \in DOMAIN upd.confirmed THEN upd.confirmed[c] ELSE coins[c].blockheight
           /\ table[c].spend_block_height = coins[c].spend_block_height /\ table[c].spend_txid = coins[c].spend_txid
  BY <1>2, Zenon DEF ConfirmCoins, IsCoinTable, PartialFunction, CoinRow
<1> HIDE DEF table
<1>4. /\ pc = "confirm" /\ pc' = "unspend" /\ coins' = table /\ UNCHANGED <<upd, target, known>>
      /\ ListedInv /\ SpentInv /\ QuietInv /\ chain = target /\ Sound(coins, chain)
  BY <1>1, CoinsWritten, Zenon
<1>5. \A c \in DOMAIN upd.confirmed : /\ upd.confirmed[c] # Null /\ TxOf[c] \in ChainTxs(target)
                                      /\ upd.confirmed[c] = HeightOf(TxOf[c], target)
  BY <1>2, <1>4 DEF ListedInv, Unconfirmed, IsUpdate, PartialFunction, Null
<1>6. Sound(table, chain)
  <2>1. ASSUME NEW c \in DOMAIN table, table[c].blockheight # Null
        PROVE  TxOf[c] \in ChainTxs(chain) /\ table[c].blockheight = HeightOf(TxOf[c], chain)
    BY <1>3, <1>4, <1>5, <2>1, Zenon DEF Sound
  <2>2. ASSUME NEW c \in DOMAIN table, table[c].spend_block_height # Null
        PROVE  \E t \in ChainTxs(chain) :
                 c \in Ins[t] /\ table[c].spend_txid = t /\ table[c].spend_block_height = HeightOf(t, chain)
    <3>1. /\ c \in DOMAIN coins /\ coins[c].spend_block_height # Null
          /\ table[c].spend_block_height = coins[c].spend_block_height
          /\ table[c].spend_txid = coins[c].spend_txid
      BY <1>3, <2>2, Zenon
    <3>2. PICK t \in ChainTxs(chain) :
            c \in Ins[t] /\ coins[c].spend_txid = t /\ coins[c].spend_block_height = HeightOf(t, chain)
      BY <1>4, <3>1, Zenon DEF Sound
    <3>3. QED
      BY <3>1, <3>2, Zenon
  <2>3. QED
    BY <2>1, <2>2, Zenon DEF Sound
<1>7. Rows = DOMAIN coins /\ Rows' = DOMAIN coins
  BY <1>3, <1>4, Zenon DEF Rows, Unstored
<1>8. ListedInv'
  BY <1>3, <1>4, <1>5, <1>7 DEF ListedInv, HasBlock, Unstored, Unconfirmed, Confirming
<1>9. SpentInv'
  BY <1>3, <1>4, <1>7, Zenon DEF SpentInv, HasSpend, Unspent
<1>10. QuietInv'
  BY <1>3, <1>4, Zenon DEF QuietInv, HasSpend, Unspent
<1>11. QED
  BY <1>1, <1>3, <1>6, <1>8, <1>9, <1>10, CoinsTip, Zenon

(* The writes that leave the blocks of the rows alone: unspend_coins and   *)
(* spend_coins only touch rows without a confirmed spend,                  *)
(* update_coins_from_self only the marks.                                  *)
LEMMA UnspendTip ==
  ASSUME IInv, TipInv, WriteUnspend \/ WriteSpend \/ WriteFromSelf
  PROVE  TipInv'
<1>1. IsCoinTable(coins) /\ IsUpdate(upd)
  BY Keep, Zenon
<1>2. CASE WriteUnspend
  <2> DEFINE table == UnspendCoins(coins, upd.expired_spending)
  <2>1. WriteCoins("unspend", table, "spend") /\ "unspend" \in Stored \ {"update_tip"} /\ "spend" \in Stored
    BY <1>2 DEF WriteUnspend, Stored
  <2>2. /\ DOMAIN table = DOMAIN coins
        /\ \A c \in DOMAIN coins : /\ table[c].blockheight = coins[c].blockheight
                                   /\ c \in upd.expired_spending => table[c].spend_block_height = Null
                                   /\ c \notin upd.expired_spending => table[c] = coins[c]
    BY <1>1, Zenon DEF UnspendCoins, IsCoinTable, PartialFunction, CoinRow
  <2> HIDE DEF table
  <2>3. pc = "unspend" /\ QuietInv
    BY <2>1, CoinsWritten, Zenon
  <2>4. \A c \in upd.expired_spending \cap DOMAIN coins : coins[c].spend_block_height = Null
    BY <2>3, Zenon DEF QuietInv, Unspent, HasSpend
  <2>5. \A c \in DOMAIN coins : /\ table[c].blockheight = coins[c].blockheight
                                /\ table[c].spend_block_height = coins[c].spend_block_height
                                /\ coins[c].spend_block_height # Null => table[c].spend_txid = coins[c].spend_txid
    BY <2>2, <2>4, Zenon
  <2>6. QED
    BY <2>1, <2>2, <2>5, SameHeights, Zenon
<1>3. CASE WriteSpend
  <2> DEFINE table == SpendCoins(coins, upd.spending)
  <2>1. WriteCoins("spend", table, "confirm_spend") /\ "spend" \in Stored \ {"update_tip"} /\ "confirm_spend" \in Stored
    BY <1>3, Zenon DEF WriteSpend, Stored
  <2>2. /\ DOMAIN table = DOMAIN coins
        /\ \A c \in DOMAIN coins : /\ table[c].blockheight = coins[c].blockheight
                                   /\ table[c].spend_block_height = coins[c].spend_block_height
                                   /\ c \notin DOMAIN upd.spending => table[c] = coins[c]
    BY <1>1, Zenon DEF SpendCoins, IsCoinTable, PartialFunction, CoinRow
  <2> HIDE DEF table
  <2>3. pc = "spend" /\ QuietInv
    BY <2>1, CoinsWritten, Zenon
  <2>4. \A c \in DOMAIN upd.spending \cap DOMAIN coins : coins[c].spend_block_height = Null
    BY <2>3, Zenon DEF QuietInv, Unspent, HasSpend
  <2>5. \A c \in DOMAIN coins : /\ table[c].blockheight = coins[c].blockheight
                                /\ table[c].spend_block_height = coins[c].spend_block_height
                                /\ coins[c].spend_block_height # Null => table[c].spend_txid = coins[c].spend_txid
    BY <2>2, <2>4, Zenon
  <2>6. QED
    BY <2>1, <2>2, <2>5, SameHeights, Zenon
<1>4. CASE WriteFromSelf
  <2> DEFINE table == UpdateCoinsFromSelf(coins, txs, PrevTipHeight)
  <2>1. WriteCoins("from_self", table, "update_tip") /\ "from_self" \in Stored \ {"update_tip"} /\ "update_tip" \in Stored
    BY <1>4 DEF WriteFromSelf, Stored
  <2>2. /\ DOMAIN table = DOMAIN coins
        /\ \A c \in DOMAIN coins : /\ table[c].blockheight = coins[c].blockheight
                                   /\ table[c].spend_block_height = coins[c].spend_block_height
                                   /\ table[c].spend_txid = coins[c].spend_txid
    BY <1>1, Zenon DEF UpdateCoinsFromSelf, IsCoinTable, PartialFunction, CoinRow
  <2> HIDE DEF table
  <2>3. QED
    BY <2>1, <2>2, SameHeights, Zenon
<1>5. QED
  BY <1>2, <1>3, <1>4, Zenon

(* confirm_spend                                                           *)
LEMMA ConfirmSpendTip ==
  ASSUME IInv, TipInv, WriteConfirmSpend
  PROVE  TipInv'
<1> DEFINE table == ConfirmSpend(coins, upd.spent)
<1>1. WriteCoins("confirm_spend", table, "from_self") /\ "confirm_spend" \in Stored \ {"update_tip"} /\ "from_self" \in Stored
  BY Zenon DEF WriteConfirmSpend, Stored
<1>2. IsCoinTable(coins) /\ IsUpdate(upd)
  BY Keep
<1>3. /\ DOMAIN table = DOMAIN coins
      /\ \A c \in DOMAIN coins : table[c].blockheight = coins[c].blockheight
      /\ \A c \in DOMAIN coins \cap DOMAIN upd.spent :
           table[c].spend_txid = upd.spent[c].txid /\ table[c].spend_block_height = upd.spent[c].height
      /\ \A c \in DOMAIN coins \ DOMAIN upd.spent : table[c] = coins[c]
  BY <1>2, Zenon DEF ConfirmSpend, IsCoinTable, PartialFunction, CoinRow
<1> HIDE DEF table
<1>4. /\ pc = "confirm_spend" /\ pc' = "from_self" /\ coins' = table /\ UNCHANGED <<upd, target, known>>
      /\ ListedInv /\ SpentInv /\ QuietInv /\ chain = target /\ Sound(coins, chain)
  BY <1>1, CoinsWritten, Zenon
<1>5. \A c \in DOMAIN upd.spent : upd.spent[c].height # Null
  BY <1>2 DEF IsUpdate, PartialFunction, SpentAt, Null
<1>6. \A c \in DOMAIN upd.spent :
        \E t \in ChainTxs(target) :
          c \in Ins[t] /\ upd.spent[c].txid = t /\ upd.spent[c].height = HeightOf(t, target)
  <2>1. SUFFICES ASSUME NEW c \in DOMAIN upd.spent
                 PROVE  \E t \in ChainTxs(target) :
                          c \in Ins[t] /\ upd.spent[c].txid = t /\ upd.spent[c].height = HeightOf(t, target)
    BY Zenon
  <2>2. PICK t \in ChainTxs(target) : c \in Ins[t] /\ upd.spent[c] = [txid |-> t, height |-> HeightOf(t, target)]
    BY <1>4, Zenon DEF SpentInv, Unspent
  <2>3. upd.spent[c].txid = t /\ upd.spent[c].height = HeightOf(t, target)
    BY <2>2
  <2>4. QED
    BY <2>2, <2>3, Zenon
<1>7. Sound(table, chain)
  <2>1. ASSUME NEW c \in DOMAIN table, table[c].blockheight # Null
        PROVE  TxOf[c] \in ChainTxs(chain) /\ table[c].blockheight = HeightOf(TxOf[c], chain)
    BY <1>3, <1>4, <2>1, Zenon DEF Sound
  <2>2. ASSUME NEW c \in DOMAIN table, table[c].spend_block_height # Null
        PROVE  \E t \in ChainTxs(chain) :
                 c \in Ins[t] /\ table[c].spend_txid = t /\ table[c].spend_block_height = HeightOf(t, chain)
    <3>1. CASE c \in DOMAIN upd.spent
      BY <1>3, <1>4, <1>6, <3>1, Zenon
    <3>2. CASE c \notin DOMAIN upd.spent
      BY <1>3, <1>4, <2>2, <3>2 DEF Sound
    <3>3. QED
      BY <3>1, <3>2, Zenon
  <2>3. QED
    BY <2>1, <2>2 DEF Sound
<1>8. Rows = DOMAIN coins /\ Rows' = DOMAIN coins
  BY <1>3, <1>4, Zenon DEF Rows, Unstored
<1>9. ListedInv'
  BY <1>3, <1>4, <1>8, Zenon DEF ListedInv, HasBlock, Unstored, Unconfirmed, Confirming
<1>10. SpentInv'
  <2>1. \A c \in Rows \cap SpentIn(target) : HasSpend(c) \/ c \in DOMAIN upd.spent
    BY <1>4, Zenon DEF SpentInv, Unspent
  <2>2. ASSUME NEW c \in DOMAIN coins, HasSpend(c) \/ c \in DOMAIN upd.spent
        PROVE  HasSpend(c)'
    <3>1. table[c].spend_block_height # Null
      BY <1>3, <1>5, <2>2, Zenon DEF HasSpend
    <3>2. QED
      BY <1>3, <1>4, <3>1, Zenon DEF HasSpend
  <2>3. (SpentIn(target))' = SpentIn(target)
    BY <1>4, Zenon DEF SpentIn
  <2>4. QED
    BY <1>4, <1>8, <2>1, <2>2, <2>3, Zenon DEF SpentInv, Unspent
<1>11. QuietInv'
  BY <1>4, Zenon DEF QuietInv, Unspent
<1>12. QED
  BY <1>1, <1>3, <1>7, <1>9, <1>10, <1>11, CoinsTip, Zenon

(* update_tip: the table is the one of the chain it stores.                *)
LEMMA UpdateTipTip ==
  ASSUME IInv, TipInv, UpdateTip
  PROVE  TipInv'
<1>1. /\ pc = "update_tip" /\ tip' = target
      /\ UNCHANGED <<nodeVars, coins, rescan_timestamp, timestamp, completed, target, upd, requested,
                     acknowledged, rpc, modelVars>>
  BY DEF UpdateTip, sharedVars
<1>2. pc' = "finish"
  BY DEF UpdateTip, AfterUpdateTip, TipInv, NoRescan
<1>3. chain = target /\ Sound(coins, chain)
  BY <1>1, WriteBegins, Zenon DEF Writes
<1>4. UNCHANGED <<chain, scanning, known, polled>>
  BY <1>1, Zenon DEF nodeVars, modelVars
<1>5. Exact(coins, target)
  BY <1>1, WrittenIsExact, Zenon
<1>6. InChain(target, target)
  BY Keep, InChainBlocks
<1>7. RecordsInv' /\ NoRescan'
  BY <1>1, <1>2, <1>4, Zenon DEF TipInv, RecordsInv, NoRescan
<1>8. ChainInv'
  BY <1>1, <1>2, <1>3, <1>4, <1>6, Zenon DEF TipInv, ChainInv, Asking, Writes
<1>9. TableInv'
  BY <1>1, <1>2, <1>3, <1>4, <1>5, Zenon DEF TipInv, TableInv, ReplayPending, Writes
<1>10. UpdateInv' /\ QuietInv'
  BY <1>2 DEF UpdateInv, ListedInv, SpentInv, QuietInv, Unstored, Unconfirmed, Confirming, Unspent
<1>11. QED
  BY <1>7, <1>8, <1>9, <1>10, Zenon DEF TipInv

(* The end of a poll that succeeded, and the panic of a write, which ends  *)
(* the daemon.                                                             *)
LEMMA FinishTip ==
  ASSUME IInv, TipInv, FinishPoll \/ Panic
  PROVE  TipInv'
<1>1. CASE FinishPoll
  <2>1. /\ pc = "finish" /\ LeavePoll /\ polled' = TRUE
        /\ UNCHANGED <<chain, scanning, known, rescan_timestamp, timestamp, tip, coins, rpc>>
    BY <1>1, Zenon DEF FinishPoll, nodeVars, dbVars
  <2>2. Exact(coins, tip) /\ ValidChain(tip)
    BY <2>1, Zenon DEF TipInv, TableInv, ChainInv
  <2>3. MaxReorgs = 0 => InChain(tip, chain) /\ Sound(coins, chain)
    BY <2>1, Zenon DEF TipInv, TableInv, ChainInv
  <2>4. \A p \in Rpcs : rpc'[p] = IdleRpc
    BY <2>1, Zenon DEF TipInv, NoRescan
  <2>5. QED
    BY <2>1, <2>2, <2>3, <2>4, LeavingTip, Zenon
<1>2. CASE Panic
  <2>1. /\ pc \in Writes /\ pc' = "panicked" /\ polled' = FALSE
        /\ UNCHANGED <<chain, scanning, known, tip, coins, rescan_timestamp, timestamp, completed, target,
                       upd, rpc>>
    BY <1>2, Zenon DEF Panic, BreaksConstraint, Writes, nodeVars, dbVars
  <2>2. RecordsInv' /\ NoRescan'
    BY <2>1, Zenon DEF TipInv, RecordsInv, NoRescan
  <2>3. ChainInv'
    BY <2>1, Zenon DEF TipInv, ChainInv, Asking, Writes
  <2>4. TableInv'
    BY <2>1, Zenon DEF TipInv, TableInv, Writes
  <2>5. UpdateInv' /\ QuietInv'
    BY <2>1, Zenon DEF UpdateInv, ListedInv, SpentInv, QuietInv, Unstored, Unconfirmed, Confirming, Unspent
  <2>6. QED
    BY <2>2, <2>3, <2>4, <2>5, Zenon DEF TipInv
<1>3. QED
  BY <1>1, <1>2, Zenon

(***************************************************************************)
(* The commands, the node, and the theorem                                 *)
(***************************************************************************)

(* A step that the poller does not see.                                    *)
LEMMA UnseenTip ==
  ASSUME TipInv, UNCHANGED <<chain, scanning, known, tip, coins, rescan_timestamp, timestamp, pc, completed,
                             target, upd, acknowledged, rpc, polled>>,
         ReplayPending => ReplayPending'
  PROVE  TipInv'
<1>1. RecordsInv' /\ NoRescan' /\ ChainInv'
  BY Zenon DEF TipInv, RecordsInv, NoRescan, ChainInv
<1>2. TableInv'
  BY DEF TipInv, TableInv
<1>3. UpdateInv' /\ QuietInv'
  BY Zenon DEF TipInv, UpdateInv, ListedInv, SpentInv, QuietInv, Rows, HasBlock, HasSpend
<1>4. QED
  BY <1>1, <1>2, <1>3, Zenon DEF TipInv

(* A replay is asked for at any time; nobody may ask for a rescan.         *)
LEMMA CommandsTip ==
  ASSUME IInv, TipInv, Instance, RpcStep \/ RequestReplay
  PROVE  TipInv'
<1>1. CASE RpcStep
  <2>1. PICK p \in Rpcs : (\E ts \in 0..MaxHeight : CheckRescan(p, ts)) \/ StartRescan(p) \/ SetRescan(p)
    BY <1>1, Zenon DEF RpcStep
  <2>2. rpc[p].at = "idle"
    BY DEF TipInv, NoRescan, IdleRpc
  <2>3. rescans < MaxRescans
    BY <2>1, <2>2, Zenon DEF CheckRescan, StartRescan, SetRescan
  <2>4. QED
    BY <2>3 DEF Instance, IInv, TypeOK
<1>2. CASE RequestReplay
  <2>1. /\ requested' = requested + 1 /\ requested \in Nat /\ acknowledged \in Nat
        /\ UNCHANGED <<chain, scanning, known, tip, coins, rescan_timestamp, timestamp, pc, completed,
                       target, upd, acknowledged, rpc, polled>>
    BY <1>2, Zenon DEF RequestReplay, IInv, TypeOK, nodeVars, dbVars, pollVars
  <2>2. ReplayPending => ReplayPending'
    BY <2>1 DEF ReplayPending
  <2>3. QED
    BY <2>1, <2>2, UnseenTip, Zenon
<1>3. QED
  BY <1>1, <1>2

(* The node's chain only grows: a poll's chain never comes back.           *)
LEMMA NodeTip ==
  ASSUME IInv, TipInv, Instance, EnvStep
  PROVE  TipInv'
<1>1. /\ pc \notin Writes /\ NodeNext
      /\ UNCHANGED <<tip, coins, rescan_timestamp, timestamp, pc, completed, target, upd, requested,
                     acknowledged, rpc, polled>>
  BY Zenon DEF EnvStep, dbVars, pollVars, sharedVars, modelVars
<1>2. /\ RecordsInv' /\ known \subseteq known' /\ chain' \in Tip
      /\ chain' = chain \/ Len(chain') > Len(chain)
      /\ MaxReorgs = 0 => InChain(chain, chain')
  BY <1>1, NodeRecords, Zenon DEF TipInv
<1>3. /\ chain \in Tip /\ tip \in Tip /\ target \in Tip
      /\ Len(chain) \in Nat /\ Len(tip) \in Nat /\ Len(target) \in Nat /\ Len(chain') \in Nat
  BY <1>2, Keep, LenProperties, Zenon DEF Tip
<1>4. NoRescan'
  BY <1>1, Zenon DEF TipInv, NoRescan
<1>5. MaxReorgs = 0 => InChain(tip, chain') /\ Sound(coins, chain')
  <2>1. SUFFICES ASSUME MaxReorgs = 0 PROVE InChain(tip, chain') /\ Sound(coins, chain')
    BY Zenon
  <2>2. InChain(tip, chain) /\ Sound(coins, chain) /\ ValidChain(chain')
    BY <1>2, <2>1, Zenon DEF TipInv, ChainInv, TableInv, RecordsInv
  <2>3. InChain(tip, chain')
    <3>1. Len(tip) <= Len(chain) /\ \A h \in 1..Len(tip) : chain[h] = tip[h]
      BY <1>3, <2>2, InChainBlocks, Zenon
    <3>2. Len(chain) <= Len(chain') /\ \A h \in 1..Len(chain) : chain'[h] = chain[h]
      BY <1>2, <1>3, <2>1, InChainBlocks, Zenon
    <3>3. Len(tip) <= Len(chain') /\ \A h \in 1..Len(tip) : chain'[h] = tip[h]
      BY <1>3, <3>1, <3>2
    <3>4. QED
      BY <1>2, <1>3, <3>3, InChainBlocks, Zenon
  <2>4. Sound(coins, chain')
    BY <1>2, <1>3, <2>1, <2>2, SoundGrows, Zenon
  <2>5. QED
    BY <2>3, <2>4, Zenon
<1>6. ChainInv'
  BY <1>1, <1>2, <1>3, <1>5 DEF TipInv, ChainInv, Asking
<1>7. TableInv'
  BY <1>1, <1>5, Zenon DEF TipInv, TableInv, ReplayPending
<1>8. UpdateInv'
  <2>1. CASE pc \in Asking
    <3>1. chain' = target => chain = target
      BY <1>2, <1>3, <2>1 DEF TipInv, ChainInv
    <3>2. QED
      BY <1>1, <3>1, Zenon DEF TipInv, UpdateInv, ListedInv, SpentInv, Rows, HasBlock, HasSpend
  <2>2. CASE pc \notin Asking
    BY <1>1, <2>2, Zenon DEF UpdateInv, ListedInv, SpentInv, Asking, Writes, Unstored, Unconfirmed, Confirming, Unspent
  <2>3. QED
    BY <2>1, <2>2, Zenon
<1>9. QuietInv'
  BY <1>1, <1>2, Zenon DEF TipInv, QuietInv, HasSpend
<1>10. QED
  BY <1>2, <1>4, <1>6, <1>7, <1>8, <1>9, Zenon DEF TipInv

(* A new wallet has an exact table of the genesis block.                   *)
LEMMA InitTip ==
  ASSUME Init
  PROVE  TipInv
<1>1. InitialChain \in Tip /\ ValidChain(InitialChain)
  BY PollerAssumption, Zenon
<1>2. Expected(InitialChain) = {}
  <2>1. SUFFICES ASSUME NEW t \in ChainTxs(InitialChain) PROVE ~(HeightOf(t, InitialChain) > Len(InitialChain))
    BY DEF Expected, Dated
  <2>2. PICK h \in 1..Len(InitialChain) : t \in InitialChain[h].txs
    BY DEF ChainTxs
  <2>3. HeightOf(t, InitialChain) = h
    BY <1>1, <2>2, HeightIsUnique, Zenon
  <2>4. Len(InitialChain) \in Nat
    BY <1>1, LenProperties, Zenon DEF Tip
  <2>5. QED
    BY <2>2, <2>3, <2>4
<1>3. RecordsInv
  BY <1>1, <1>2, Zenon DEF Init, RecordsInv, NoCoins, NoUpdate
<1>4. NoRescan
  BY DEF Init, NoRescan
<1>5. ChainInv
  BY <1>1, GenesisIsValid, Zenon DEF Init, ChainInv, Asking, Writes
<1>6. TableInv
  BY <1>1, GenesisIsValid DEF Init, TableInv, ReplayPending, Writes
<1>7. UpdateInv /\ QuietInv
  BY DEF Init, UpdateInv, ListedInv, SpentInv, QuietInv, Unstored, Unconfirmed, Confirming, Unspent
<1>8. QED
  BY <1>3, <1>4, <1>5, <1>6, <1>7, Zenon DEF TipInv

(* Every step of the instances keeps the invariant.                        *)
LEMMA TipInvariant ==
  ASSUME Instance
  PROVE  Spec => []TipInv
<1>1. Init => TipInv
  BY InitTip
<1>2. IInv /\ TipInv /\ [Next]_vars => TipInv'
  <2>1. SUFFICES ASSUME IInv, TipInv, [Next]_vars PROVE TipInv'
    OBVIOUS
  <2>2. CASE PollStep
    <3>1. ~CompleteRescan
      BY <2>1, Zenon DEF TipInv, NoRescan, CompleteRescan
    <3>2. QED
      BY <2>1, <2>2, <3>1, BeginTip, ReorgTip, ReceivedTip, ConfirmedTip, SpendingTip, SpentTip,
         RecheckTip, NewTxsTip, NewUnspentTip, RemoveTip, ConfirmTip, UnspendTip, ConfirmSpendTip,
         UpdateTipTip, FinishTip, Zenon DEF PollStep
  <2>3. CASE ReadFails \/ Restart
    BY <2>1, <2>3, FailuresTip, Zenon
  <2>4. CASE RpcStep \/ RequestReplay
    BY <2>1, <2>4, CommandsTip, Zenon
  <2>5. CASE EnvStep
    BY <2>1, <2>5, NodeTip, Zenon
  <2>6. CASE UNCHANGED vars
    BY <2>1, <2>6, UnseenTip, Zenon DEF vars, nodeVars, dbVars, pollVars, sharedVars, modelVars, ReplayPending
  <2>7. QED
    BY <2>1, <2>2, <2>3, <2>4, <2>5, <2>6, Zenon DEF Next
<1>3. QED
  BY <1>1, <1>2, PollerInvariant, PTL DEF Spec

(* Without rescans and rewinds, and with stops or reorganisations but not  *)
(* both, the stored tip means for any wallet and chain that the table has  *)
(* the updates of the chain up to that block (looper.rs:595-597): a poll   *)
(* whose chain the node leaves between two reads writes nothing, one whose *)
(* chain is still there has asked for all that the table misses.           *)
THEOREM StoredTipMeansUpdated ==
  ASSUME MaxRewinds = 0, MaxRescans = 0, MaxCrashes = 0 \/ MaxReorgs = 0
  PROVE  Spec => []TipMeansUpdated
<1>1. Spec => []TipInv
  BY TipInvariant, Zenon DEF Instance
<1>2. IInv /\ TipInv => TipMeansUpdated
  <2>1. SUFFICES ASSUME IInv, TipInv, polled, pc \notin Writes
                 PROVE  ConfirmationsAgree(tip) /\ SpendsAgree(tip)
    BY Zenon DEF TipMeansUpdated
  <2>2. Exact(coins, tip)
    BY <2>1, Zenon DEF TipInv, TableInv
  <2>3. timestamp = Len(InitialChain)
    BY <2>1 DEF TipInv, NoRescan
  <2>4. QED
    BY <2>1, <2>2, <2>3, Keep, ExactAgrees, Zenon
<1>3. QED
  BY <1>1, <1>2, PollerInvariant, PTL

(***************************************************************************)
(* The marks of update_coins_from_self                                     *)
(***************************************************************************)

(* Nothing on the chain paid to the wallet when it was created.            *)
NewWallet == \A c \in Coins : TxOf[c] \notin ChainTxs(InitialChain)

(* The table has, through every write, what the stored chain pays and its  *)
(* marks; the write before the one of the tip adds those of the new blocks.*)
SelfInv ==
  /\ \A c \in Coins : TxOf[c] \in ChainTxs(tip) => c \in DOMAIN coins
  /\ \A c \in DOMAIN coins : TxOf[c] \in txs
  /\ Marked(coins)
  /\ \A c \in DOMAIN coins : SelfTx(TxOf[c]) /\ TxOf[c] \in ChainTxs(tip) => coins[c].is_from_self
  /\ pc = "update_tip" =>
       \A c \in DOMAIN coins : SelfTx(TxOf[c]) /\ TxOf[c] \in ChainTxs(target) => coins[c].is_from_self

(* In an exact table of a chain, the coins that the chain confirms above   *)
(* the former tip are marked when they should be: the inputs are all in    *)
(* the table, spent above the former tip as well.                          *)
LEMMA ConfirmedIsMarked ==
  ASSUME NewWallet, NEW ch \in Tip, ValidChain(ch), NEW db, IsCoinTable(db), Exact(db, ch), Marked(db),
         NEW S, NEW prev \in Nat \cup {Null}, NEW c \in DOMAIN db, TxOf[c] \in ChainTxs(ch), TxOf[c] \in S,
         HeightOf(TxOf[c], ch) > prev, SelfTx(TxOf[c])
  PROVE  c \in FromSelf(db, S, prev)
<1> DEFINE t == TxOf[c]
<1>1. t \in Txs /\ t # NoTx
  BY ChainTxsType, TxAssumption, Zenon
<1>2. ASSUME NEW x \in Ins[t]
      PROVE  /\ x \in DOMAIN db /\ db[x].blockheight # Null
             /\ db[x].spend_txid = t /\ db[x].spend_block_height = HeightOf(t, ch)
  <2>1. x \in Coins /\ x \in SpentIn(ch)
    BY <1>1, TxAssumption, Zenon DEF SpentIn
  <2>2. TxOf[x] \in ChainTxs(ch)
    BY <2>1, SpentIsConfirmed, Zenon
  <2>3. x \in DOMAIN db
    BY <2>1, <2>2, Zenon DEF NewWallet, Exact, Full, Expected, Dated
  <2>4. db[x].blockheight # Null /\ db[x].spend_block_height # Null
    BY <2>1, <2>2, <2>3, Zenon DEF Exact, Full
  <2>5. PICK u \in ChainTxs(ch) :
          x \in Ins[u] /\ db[x].spend_txid = u /\ db[x].spend_block_height = HeightOf(u, ch)
    BY <2>3, <2>4, Zenon DEF Exact, Sound
  <2>6. u = t
    <3>1. ~Conflicts(t, u)
      BY <2>5, Zenon DEF ValidChain, ConflictsWith
    <3>2. QED
      BY <2>5, <3>1, Zenon DEF Conflicts
  <2>7. QED
    BY <2>3, <2>4, <2>5, <2>6, Zenon
<1>3. db[c].blockheight > prev
  <2>1. db[c].blockheight # Null
    BY Zenon DEF Exact, Full
  <2>2. QED
    BY <2>1, Zenon DEF Exact, Sound
<1>4. ASSUME NEW self PROVE CountedInputs(db, t, self, prev) = Ins[t]
  <2>1. CountedInputs(db, t, self, prev) \subseteq Ins[t]
    BY <1>1, Zenon DEF CountedInputs, Marked
  <2>2. Ins[t] \subseteq CountedInputs(db, t, self, prev)
    BY <1>2 DEF CountedInputs
  <2>3. QED
    BY <2>1, <2>2, Zenon
<1>5. QED
  BY <1>3, <1>4, Zenon DEF FromSelf, SelfTx

(* A step that leaves the coins and the tip alone.                         *)
LEMMA UnseenSelf ==
  ASSUME SelfInv, UNCHANGED <<tip, coins>>, txs \subseteq txs',
         pc' # "update_tip" \/ UNCHANGED <<pc, target>>
  PROVE  SelfInv'
BY Zenon DEF SelfInv

(* A write of the coins that drops none of the stored chain and changes no *)
(* mark.                                                                   *)
LEMMA WrittenSelf ==
  ASSUME SelfInv, NEW at, NEW table, NEW next, WriteCoins(at, table, next), next # "update_tip",
         \A c \in DOMAIN coins : TxOf[c] \in ChainTxs(tip) => c \in DOMAIN table,
         \A c \in DOMAIN table :
           /\ TxOf[c] \in txs
           /\ table[c].spend_txid # NoTx => c \in Ins[table[c].spend_txid]
           /\ IF c \in DOMAIN coins THEN table[c].is_from_self = coins[c].is_from_self
                                    ELSE table[c].is_from_self = FALSE,
         DOMAIN table \subseteq Coins
  PROVE  SelfInv'
<1>1. pc' = next /\ coins' = table /\ UNCHANGED <<tip, txs>>
  BY Zenon DEF WriteCoins
<1>2. Marked(table)
  BY Zenon DEF SelfInv, Marked
<1>3. QED
  BY <1>1, <1>2, Zenon DEF SelfInv

(* The stored chain is a part of the one that the poll writes.             *)
LEMMA StoredIsWritten ==
  ASSUME IInv, TipInv, pc \in Writes
  PROVE  /\ tip \in Tip /\ target \in Tip /\ ValidChain(target)
         /\ \A t \in ChainTxs(tip) : t \in ChainTxs(target)
         /\ \A t \in ChainTxs(target) : t \notin ChainTxs(tip) => HeightOf(t, target) > Len(tip)
<1>1. /\ tip \in Tip /\ target \in Tip /\ ValidChain(target) /\ InChain(tip, target)
      /\ Len(tip) \in Nat /\ Len(target) \in Nat
  BY Keep, LenProperties, Zenon DEF TipInv, ChainInv, Tip
<1>2. SubSeq(target, 1, Len(tip)) = tip /\ Len(tip) \in 0..Len(target)
  BY <1>1 DEF InChain
<1>3. /\ \A t \in ChainTxs(target) : t \in ChainTxs(tip) <=> HeightOf(t, target) <= Len(tip)
      /\ \A t \in ChainTxs(tip) : t \in ChainTxs(target)
  BY <1>1, <1>2, ValidPrefix, Zenon
<1>4. \A t \in ChainTxs(target) : HeightOf(t, target) \in Nat
  BY <1>1, HeightOfType, Zenon
<1>5. QED
  BY <1>1, <1>3, <1>4

(* The writes before update_coins_from_self: a new row is not of a coin of *)
(* the stored chain, a row of one is not removed, and a spend is one of    *)
(* its coin.                                                               *)
LEMMA WritesSelf ==
  ASSUME IInv, TipInv, SelfInv,
         \/ WriteNewUnspent \/ WriteRemove \/ WriteConfirm \/ WriteUnspend \/ WriteSpend \/ WriteConfirmSpend
  PROVE  SelfInv'
<1>1. /\ IsCoinTable(coins) /\ IsUpdate(upd) /\ DOMAIN coins \subseteq Coins
      /\ \A c \in DOMAIN coins : /\ TxOf[c] \in txs
                                 /\ coins[c].spend_txid # NoTx => c \in Ins[coins[c].spend_txid]
  BY Keep, Zenon DEF SelfInv, Marked, IsCoinTable, PartialFunction
<1>2. CASE WriteNewUnspent
  <2> DEFINE table == NewUnspentCoins(coins, upd.received)
  <2>1. WriteCoins("new_unspent", table, "remove")
    BY <1>2, Zenon DEF WriteNewUnspent
  <2>2. /\ DOMAIN table = DOMAIN coins \cup upd.received
        /\ \A c \in upd.received : table[c].spend_txid = NoTx /\ table[c].is_from_self = FALSE
        /\ \A c \in DOMAIN coins \ upd.received : table[c] = coins[c]
    BY Zenon DEF NewUnspentCoins, NewRow
  <2> HIDE DEF table
  <2>3. \A c \in upd.received : c \in Coins /\ c \notin DOMAIN coins /\ TxOf[c] \in txs
    BY <1>1, <2>1, Zenon DEF WriteCoins, BreaksConstraint, IsUpdate
  <2>4. DOMAIN coins \subseteq DOMAIN table /\ DOMAIN table \subseteq Coins
    BY <1>1, <2>2, <2>3, Zenon
  <2>5. \A c \in DOMAIN table :
          /\ TxOf[c] \in txs
          /\ table[c].spend_txid # NoTx => c \in Ins[table[c].spend_txid]
          /\ IF c \in DOMAIN coins THEN table[c].is_from_self = coins[c].is_from_self
                                   ELSE table[c].is_from_self = FALSE
    BY <1>1, <2>2, <2>3, Zenon
  <2>6. QED
    BY <2>1, <2>4, <2>5, WrittenSelf, Zenon
<1>3. CASE WriteRemove
  <2> DEFINE table == RemoveCoins(coins, upd.expired)
  <2>1. WriteCoins("remove", table, "confirm") /\ pc = "remove"
    BY <1>3, Zenon DEF WriteRemove, WriteCoins
  <2>2. DOMAIN table = DOMAIN coins \ upd.expired /\ \A c \in DOMAIN table : table[c] = coins[c]
    BY Zenon DEF RemoveCoins
  <2> HIDE DEF table
  <2>3. \A c \in upd.expired : TxOf[c] \notin ChainTxs(target)
    BY <2>1, WriteBegins, Zenon DEF ListedInv, Unconfirmed, Writes
  <2>4. \A t \in ChainTxs(tip) : t \in ChainTxs(target)
    BY <2>1, StoredIsWritten DEF Writes
  <2>5. QED
    BY <1>1, <2>1, <2>2, <2>3, <2>4, WrittenSelf, Zenon
<1>4. CASE WriteConfirm
  <2> DEFINE table == ConfirmCoins(coins, upd.confirmed)
  <2>1. WriteCoins("confirm", table, "unspend")
    BY <1>4, Zenon DEF WriteConfirm
  <2>2. /\ DOMAIN table = DOMAIN coins
        /\ \A c \in DOMAIN coins : /\ table[c].spend_txid = coins[c].spend_txid
                                   /\ table[c].is_from_self = coins[c].is_from_self
    BY <1>1, Zenon DEF ConfirmCoins, IsCoinTable, PartialFunction, CoinRow
  <2> HIDE DEF table
  <2>3. QED
    BY <1>1, <2>1, <2>2, WrittenSelf, Zenon
<1>5. CASE WriteUnspend
  <2> DEFINE table == UnspendCoins(coins, upd.expired_spending)
  <2>1. WriteCoins("unspend", table, "spend")
    BY <1>5 DEF WriteUnspend
  <2>2. /\ DOMAIN table = DOMAIN coins
        /\ \A c \in DOMAIN coins : /\ table[c].spend_txid \in {coins[c].spend_txid, NoTx}
                                   /\ table[c].is_from_self = coins[c].is_from_self
    BY <1>1 DEF UnspendCoins, IsCoinTable, PartialFunction, CoinRow
  <2> HIDE DEF table
  <2>3. QED
    BY <1>1, <2>1, <2>2, WrittenSelf, Zenon
<1>6. CASE WriteSpend
  <2> DEFINE table == SpendCoins(coins, upd.spending)
  <2>1. WriteCoins("spend", table, "confirm_spend") /\ pc = "spend"
    BY <1>6 DEF WriteSpend, WriteCoins
  <2>2. /\ DOMAIN table = DOMAIN coins
        /\ \A c \in DOMAIN coins :
             /\ table[c].spend_txid = IF c \in DOMAIN upd.spending THEN upd.spending[c] ELSE coins[c].spend_txid
             /\ table[c].is_from_self = coins[c].is_from_self
    BY <1>1, Zenon DEF SpendCoins, IsCoinTable, PartialFunction, CoinRow
  <2> HIDE DEF table
  <2>3. \A c \in DOMAIN upd.spending : c \in Ins[upd.spending[c]]
    BY <2>1, WriteBegins, Zenon DEF QuietInv, Unspent, Writes
  <2>4. QED
    BY <1>1, <2>1, <2>2, <2>3, WrittenSelf, Zenon
<1>7. CASE WriteConfirmSpend
  <2> DEFINE table == ConfirmSpend(coins, upd.spent)
  <2>1. WriteCoins("confirm_spend", table, "from_self") /\ pc = "confirm_spend"
    BY <1>7 DEF WriteConfirmSpend, WriteCoins
  <2>2. /\ DOMAIN table = DOMAIN coins
        /\ \A c \in DOMAIN coins :
             /\ table[c].spend_txid = IF c \in DOMAIN upd.spent THEN upd.spent[c].txid ELSE coins[c].spend_txid
             /\ table[c].is_from_self = coins[c].is_from_self
    BY <1>1, Zenon DEF ConfirmSpend, IsCoinTable, PartialFunction, CoinRow
  <2> HIDE DEF table
  <2>3. ASSUME NEW c \in DOMAIN upd.spent PROVE c \in Ins[upd.spent[c].txid]
    <3>1. PICK t \in ChainTxs(target) : c \in Ins[t] /\ upd.spent[c] = [txid |-> t, height |-> HeightOf(t, target)]
      BY <2>1, WriteBegins, Zenon DEF SpentInv, Unspent, Writes
    <3>2. upd.spent[c].txid = t
      BY <3>1
    <3>3. QED
      BY <3>1, <3>2, Zenon
  <2>4. QED
    BY <1>1, <2>1, <2>2, <2>3, WrittenSelf, Zenon
<1>8. QED
  BY <1>2, <1>3, <1>4, <1>5, <1>6, <1>7, Zenon

(* update_coins_from_self marks what the blocks above the stored tip       *)
(* confirm; what the stored chain confirms is marked already.              *)
LEMMA FromSelfSelf ==
  ASSUME IInv, TipInv, NewWallet, SelfInv, WriteFromSelf
  PROVE  SelfInv'
<1> DEFINE table == UpdateCoinsFromSelf(coins, txs, PrevTipHeight)
           self  == FromSelf(coins, txs, PrevTipHeight)
<1>1. pc = "from_self" /\ pc' = "update_tip" /\ coins' = table /\ UNCHANGED <<tip, txs, target>>
  BY Zenon DEF WriteFromSelf, WriteCoins
<1>2. IsCoinTable(coins) /\ Marked(coins) /\ PrevTipHeight = Len(tip) /\ Len(tip) \in Nat
  BY Keep, Zenon DEF SelfInv, PrevTipHeight, Height
<1>3. /\ DOMAIN table = DOMAIN coins
      /\ \A c \in DOMAIN coins : /\ table[c].spend_txid = coins[c].spend_txid
                                 /\ table[c].is_from_self = (c \in self)
  BY <1>2, Zenon DEF UpdateCoinsFromSelf, IsCoinTable, PartialFunction, CoinRow
<1>4. /\ tip \in Tip /\ target \in Tip /\ ValidChain(target) /\ Exact(coins, target)
      /\ \A t \in ChainTxs(target) : t \notin ChainTxs(tip) => HeightOf(t, target) > Len(tip)
  BY <1>1, StoredIsWritten, WrittenIsExact, Zenon DEF Writes
<1>5. \A c \in DOMAIN coins : c \in self => SelfTx(TxOf[c])
  BY <1>2, MarksAreSelf, Zenon
<1>6. \A c \in DOMAIN coins : coins[c].is_from_self => c \in self
  BY MarksStay, Zenon
<1>7. ASSUME NEW c \in DOMAIN coins, SelfTx(TxOf[c]), TxOf[c] \in ChainTxs(target) PROVE c \in self
  <2>1. CASE TxOf[c] \in ChainTxs(tip)
    BY <1>6, <1>7, <2>1, Zenon DEF SelfInv
  <2>2. CASE TxOf[c] \notin ChainTxs(tip)
    <3>1. HeightOf(TxOf[c], target) > Len(tip) /\ TxOf[c] \in txs /\ Len(tip) \in Nat \cup {Null}
      BY <1>2, <1>4, <1>7, <2>2, Zenon DEF SelfInv
    <3>2. c \in FromSelf(coins, txs, Len(tip))
      BY <1>2, <1>4, <1>7, <3>1, ConfirmedIsMarked, Zenon
    <3>3. QED
      BY <1>2, <3>2, Zenon
  <2>3. QED
    BY <2>1, <2>2, Zenon
<1> HIDE DEF table, self
<1>8. Marked(table)
  BY <1>2, <1>3, <1>5, Zenon DEF Marked
<1>9. QED
  BY <1>1, <1>3, <1>6, <1>7, <1>8, Zenon DEF SelfInv

(* update_tip: the new chain takes the place of the stored one.            *)
LEMMA UpdateTipSelf ==
  ASSUME IInv, TipInv, NewWallet, SelfInv, UpdateTip
  PROVE  SelfInv'
<1>1. pc = "update_tip" /\ tip' = target /\ UNCHANGED <<coins, txs>>
  BY DEF UpdateTip
<1>2. pc' # "update_tip"
  BY Zenon DEF UpdateTip, AfterUpdateTip
<1>3. \A c \in Coins : TxOf[c] \in ChainTxs(target) => c \in DOMAIN coins
  BY <1>1, WrittenIsExact DEF NewWallet, Exact, Full, Expected, Dated
<1>4. QED
  BY <1>1, <1>2, <1>3, Zenon DEF SelfInv

(* rollback_tip to the fork takes the marks away that are above it.        *)
LEMMA ReorgSelf ==
  ASSUME IInv, TipInv, TipInv', Instance, NewWallet, SelfInv, TipReorged
  PROVE  SelfInv'
<1>1. /\ pc' = "idle" /\ tip' = CommonAncestor /\ UNCHANGED txs
      /\ coins' = RollbackCoins(coins, Height(CommonAncestor))
  BY Zenon DEF TipReorged, RollbackTip, LeavePoll
<1>2. MaxCrashes = 0
  BY Zenon DEF TipReorged, Instance, TipInv, ChainInv
<1>3. Exact(coins', tip')
  BY <1>1, <1>2, Zenon DEF TipInv, TableInv, Writes
<1>4. IsCoinTable(coins) /\ tip \in Tip /\ chain \in Tip /\ ValidChain(tip)
  BY Keep DEF TipInv, ChainInv
<1>5. /\ DOMAIN coins' = DOMAIN coins
      /\ \A c \in DOMAIN coins :
           /\ coins'[c].spend_txid = coins[c].spend_txid
           /\ coins'[c].is_from_self = (coins[c].is_from_self /\ coins'[c].blockheight # Null)
  BY <1>1, Zenon DEF RollbackCoins
<1>6. \A t \in ChainTxs(tip') : t \in ChainTxs(tip)
  <2>1. ForkHeight(tip, chain) \in 0..Len(tip) /\ tip' = SubSeq(tip, 1, ForkHeight(tip, chain))
    BY <1>1, <1>4, ForkIsShared, Zenon DEF CommonAncestor
  <2>2. QED
    BY <1>4, <2>1, ValidPrefix, Zenon
<1>7. \A c \in Coins : TxOf[c] \in ChainTxs(tip') => c \in DOMAIN coins'
  BY <1>3, Zenon DEF NewWallet, Exact, Full, Expected, Dated
<1>8. \A c \in DOMAIN coins' : TxOf[c] \in ChainTxs(tip') => coins'[c].blockheight # Null
  BY <1>3 DEF Exact, Full
<1>9. Marked(coins')
  BY <1>5, Zenon DEF SelfInv, Marked
<1>10. QED
  BY <1>1, <1>5, <1>6, <1>7, <1>8, <1>9, Zenon DEF SelfInv

(* The table of a new wallet is empty.                                     *)
LEMMA InitSelf ==
  ASSUME Init
  PROVE  SelfInv
<1>1. tip = Genesis /\ DOMAIN coins = {} /\ pc = "idle"
  BY DEF Init, NoCoins
<1>2. ChainTxs(Genesis) = {}
  BY NoUpdateType DEF Genesis, ChainTxs
<1>3. QED
  BY <1>1, <1>2, Zenon DEF SelfInv, Marked

(* Every step keeps the marks.                                             *)
LEMMA StepSelf ==
  ASSUME IInv, TipInv, TipInv', Instance, NewWallet, SelfInv, [Next]_vars
  PROVE  SelfInv'
<1>1. CASE TipReorged
  BY <1>1, ReorgSelf, Zenon
<1>2. CASE \/ WriteNewUnspent \/ WriteRemove \/ WriteConfirm \/ WriteUnspend \/ WriteSpend \/ WriteConfirmSpend
  BY <1>2, WritesSelf, Zenon
<1>3. CASE WriteFromSelf
  BY <1>3, FromSelfSelf, Zenon
<1>4. CASE UpdateTip
  BY <1>4, UpdateTipSelf, Zenon
<1>5. CASE \/ BeginPoll \/ ReadMarker \/ TipProgress \/ TipRefused \/ ReadReceived \/ ReadConfirmed
           \/ ReadSpending \/ ReadSpent \/ Recheck \/ FinishPoll \/ Panic \/ ReadFails \/ Restart
  <2>1. UNCHANGED <<tip, coins, txs>> /\ pc' # "update_tip"
    BY <1>5, Zenon DEF BeginPoll, ReadMarker, TipProgress, TipRefused, ReadReceived, ReadConfirmed, ReadSpending,
                ReadSpent, Recheck, FinishPoll, Panic, ReadFails, Restart, LeavePoll, dbVars
  <2>2. QED
    BY <2>1, UnseenSelf, Zenon
<1>6. CASE NewTxs
  <2>1. UNCHANGED <<tip, coins>> /\ txs \subseteq txs' /\ pc' # "update_tip"
    BY <1>6, Zenon DEF NewTxs
  <2>2. QED
    BY <2>1, UnseenSelf, Zenon
<1>7. CASE RpcStep \/ RequestReplay \/ EnvStep \/ UNCHANGED vars
  <2>1. UNCHANGED <<tip, coins, txs, pc, target>>
    BY <1>7, Zenon DEF RpcStep, CheckRescan, StartRescan, SetRescan, RequestReplay, EnvStep, vars, dbVars, pollVars
  <2>2. QED
    BY <2>1, UnseenSelf, Zenon
<1>8. ~RollbackToRescan /\ ~CompleteRescan
  BY DEF RollbackToRescan, CompleteRescan, TipInv, NoRescan
<1>9. QED
  BY <1>1, <1>2, <1>3, <1>4, <1>5, <1>6, <1>7, <1>8, Zenon DEF Next, PollStep

(* A new wallet without rescans and rewinds, with stops or reorganisations *)
(* but not both: the marks that update_coins_from_self leaves, poll after  *)
(* poll, are those that a computation over the whole table gives           *)
(* (schema.rs:104-106), for any wallet, chain and number of polls.         *)
THEOREM MarksAreExact ==
  ASSUME MaxRewinds = 0, MaxRescans = 0, MaxCrashes = 0 \/ MaxReorgs = 0, NewWallet
  PROVE  Spec => []FromSelfExact
<1>1. Instance
  BY DEF Instance
<1>2. Init => SelfInv
  BY InitSelf, Zenon
<1>3. IInv /\ TipInv /\ TipInv' /\ SelfInv /\ [Next]_vars => SelfInv'
  BY <1>1, StepSelf, Zenon
<1>4. IInv /\ TipInv /\ SelfInv => FromSelfExact
  <2> DEFINE unmarked == [c \in DOMAIN coins |-> [coins[c] EXCEPT !.is_from_self = FALSE]]
             scratch  == UpdateCoinsFromSelf(unmarked, txs, Null)
  <2>1. SUFFICES ASSUME IInv, TipInv, SelfInv, polled, pc \notin Writes,
                        NEW c \in DOMAIN coins, coins[c].blockheight # Null
                 PROVE  coins[c].is_from_self = scratch[c].is_from_self
    BY Zenon DEF FromSelfExact
  <2>2. tip \in Tip /\ ValidChain(tip) /\ Exact(coins, tip) /\ IsCoinTable(coins)
    BY <2>1, Keep, Zenon DEF TipInv, TableInv, ChainInv
  <2>3. /\ DOMAIN unmarked = DOMAIN coins
        /\ \A x \in DOMAIN coins :
             /\ unmarked[x] \in CoinRow
             /\ unmarked[x].blockheight = coins[x].blockheight /\ unmarked[x].spend_txid = coins[x].spend_txid
             /\ unmarked[x].spend_block_height = coins[x].spend_block_height
             /\ unmarked[x].is_from_self = FALSE
    BY <2>2, Zenon DEF IsCoinTable, PartialFunction, CoinRow
  <2>4. scratch[c].is_from_self = (c \in FromSelf(unmarked, txs, Null))
    <3>1. unmarked[c] \in CoinRow /\ c \in DOMAIN unmarked
      BY <2>1, <2>3, Zenon
    <3> HIDE DEF unmarked
    <3>2. QED
      BY <3>1, Zenon DEF UpdateCoinsFromSelf, CoinRow
  <2>5. IsCoinTable(unmarked)
    BY <2>2, <2>3, Zenon DEF IsCoinTable, PartialFunction
  <2> HIDE DEF unmarked
  <2>6. Exact(unmarked, tip)
    <3>1. Sound(unmarked, tip)
      BY <2>2, <2>3, Zenon DEF Exact, Sound
    <3>2. Full(unmarked, tip)
      BY <2>2, <2>3, Zenon DEF Exact, Full
    <3>3. QED
      BY <3>1, <3>2, Zenon DEF Exact
  <2>7. Marked(unmarked)
    BY <2>1, <2>3, Zenon DEF SelfInv, Marked
  <2>8. TxOf[c] \in ChainTxs(tip) /\ TxOf[c] \in txs /\ HeightOf(TxOf[c], tip) > Null
    <3>1. TxOf[c] \in ChainTxs(tip) /\ TxOf[c] \in txs
      BY <2>1, <2>2, Zenon DEF SelfInv, Exact, Sound
    <3>2. HeightOf(TxOf[c], tip) \in Nat
      BY <2>2, <3>1, HeightOfType, Zenon
    <3>3. QED
      BY <3>1, <3>2 DEF Null
  <2>9. c \in FromSelf(unmarked, txs, Null) <=> SelfTx(TxOf[c])
    <3>1. c \in FromSelf(unmarked, txs, Null) => SelfTx(TxOf[c])
      BY <2>5, <2>7, MarksAreSelf, Zenon
    <3>2. SelfTx(TxOf[c]) => c \in FromSelf(unmarked, txs, Null)
      BY <2>1, <2>2, <2>3, <2>5, <2>6, <2>7, <2>8, ConfirmedIsMarked, Zenon
    <3>3. QED
      BY <3>1, <3>2, Zenon
  <2>10. coins[c].is_from_self <=> SelfTx(TxOf[c])
    BY <2>1, <2>8, Zenon DEF SelfInv, Marked
  <2>11. coins[c].is_from_self \in BOOLEAN
    BY <2>1, <2>2, Zenon DEF IsCoinTable, PartialFunction, CoinRow
  <2>12. QED
    BY <2>4, <2>9, <2>10, <2>11
<1>5. Spec => []TipInv
  BY <1>1, TipInvariant, Zenon
<1>6. QED
  BY <1>2, <1>3, <1>4, <1>5, PollerInvariant, PTL DEF Spec
=============================================================================
