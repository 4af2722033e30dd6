---------------------------- MODULE PollerProofs ----------------------------
(* What the poller guarantees for any set of transactions and coins, any   *)
(* height, any number of reorganisations, rewinds, failures and stops.     *)
EXTENDS Poller, WalletDbProofs, SequenceTheorems, TLAPS

(***************************************************************************)
(* The inductive invariant                                                 *)
(***************************************************************************)

(* The transactions that the rows to write name.                           *)
Named == {TxOf[c] : c \in upd.received} \cup {upd.spending[c] : c \in DOMAIN upd.spending}

(* No coin is inserted between the read of the received ones and their     *)
(* INSERT, the transactions that rows will name are collected before the   *)
(* recheck and stored before the rows, and nobody clears the marker of a   *)
(* rescan but the poll that found it completed.                            *)
Staged ==
  /\ pc \in {"confirmed", "spending", "spent", "recheck", "new_txs", "new_unspent"}
       => upd.received \cap DOMAIN coins = {}
  /\ pc \in {"recheck", "new_txs"} => Named \subseteq txs \cup upd.txs
  /\ pc \in {"new_unspent", "remove", "confirm", "unspend", "spend"} => Named \subseteq txs
  /\ completed /\ pc # "finish" => rescan_timestamp # Null
  /\ pc = "complete_rescan" => completed

IInv == TypeOK /\ Staged

(* What is staged at each point makes the inserts safe.                    *)
LEMMA InvariantIsEnough == IInv => InsertsNeverPanic
<1>1. SUFFICES ASSUME IInv PROVE InsertsNeverPanic
  OBVIOUS
<1>2. \A c \in upd.received : TxOf[c] \in Named
  BY DEF Named
<1>3. \A c \in DOMAIN upd.spending : upd.spending[c] \in Named
  BY DEF Named
<1>4. QED
  BY <1>1, <1>2, <1>3 DEF IInv, Staged, InsertsNeverPanic, BreaksConstraint

(***************************************************************************)
(* What poll steps leave alone                                             *)
(***************************************************************************)

(* The empty update and the genesis tip have their types.                  *)
LEMMA NoUpdateType == IsUpdate(NoUpdate) /\ Genesis \in Tip
<1>1. PartialFunction(EmptyFunction, Coins, Nat) /\ PartialFunction(EmptyFunction, Coins, Txs)
      /\ PartialFunction(EmptyFunction, Coins, SpentAt)
  BY SMTT(30) DEF PartialFunction, EmptyFunction
<1>2. IsUpdate(NoUpdate)
  BY <1>1 DEF IsUpdate, NoUpdate
<1>3. QED
  BY <1>2, EmptySeq DEF Genesis, Tip

(* A step that leaves the poll keeps the invariant when the rest has its   *)
(* types.                                                                  *)
LEMMA LeavingStep ==
  ASSUME IInv, LeavePoll,
         NodeTypeOK', tip' \in Tip, IsCoinTable(coins'), txs' \in SUBSET Txs,
         rescan_timestamp' \in Nat \cup {Null}, timestamp' \in Nat,
         requested' \in Nat, acknowledged' \in Nat, alert' \in Nat,
         rpc' \in [Rpcs -> RpcState], polled' \in BOOLEAN, owed' \in SUBSET Txs,
         rescans' \in Nat, replays' \in Nat, failures' \in Nat, crashes' \in Nat
  PROVE  IInv'
<1>1. pc' = "idle" /\ ticket' = 0 /\ completed' = FALSE /\ target' = Genesis /\ upd' = NoUpdate
  BY DEF LeavePoll
<1>2. IsUpdate(upd') /\ target' \in Tip
  BY <1>1, NoUpdateType
<1>3. TypeOK'
  BY <1>1, <1>2, Zenon DEF TypeOK
<1>4. Staged'
  BY <1>1 DEF Staged
<1>5. QED
  BY <1>3, <1>4 DEF IInv

(* A step of the poll that only reads, or reads and rolls back.            *)
LEMMA ReadingStep ==
  ASSUME IInv, UNCHANGED <<nodeVars, txs, rescan_timestamp, timestamp, sharedVars, rpc, modelVars, bounds>>,
         tip' \in Tip, IsCoinTable(coins'),
         pc' \in {"idle", "panicked"} \cup Reads \cup Writes, ticket' \in Nat, completed' \in BOOLEAN,
         target' \in Tip, IsUpdate(upd'), Staged'
  PROVE  IInv'
<1>1. NodeTypeOK'
  BY DEF IInv, TypeOK, NodeTypeOK, nodeVars
<1>2. TypeOK'
  BY <1>1, Zenon DEF IInv, TypeOK, sharedVars, modelVars, bounds
<1>3. QED
  BY <1>2 DEF IInv

(* A step of the poll that writes the coins table.                         *)
LEMMA WritingStep ==
  ASSUME IInv, NEW at \in Writes, NEW table, NEW next \in Writes, WriteCoins(at, table, next),
         IsCoinTable(table), Staged'
  PROVE  IInv'
<1>1. /\ coins' = table /\ pc' = next
      /\ UNCHANGED <<nodeVars, tip, txs, rescan_timestamp, timestamp, ticket, completed, target, upd,
                     sharedVars, rpc, modelVars, bounds>>
  BY DEF WriteCoins
<1>2. QED
  BY <1>1, ReadingStep DEF IInv, TypeOK

(* The types that most steps rely on.                                      *)
LEMMA Keep ==
  ASSUME IInv
  PROVE  /\ chain \in Tip /\ tip \in Tip /\ target \in Tip
         /\ Len(chain) \in Nat /\ Len(tip) \in Nat
         /\ mempool \in SUBSET Txs /\ known \in SUBSET Txs
         /\ IsCoinTable(coins) /\ IsUpdate(upd) /\ txs \in SUBSET Txs
BY LenProperties DEF IInv, TypeOK, NodeTypeOK, Tip

(* The beginning of a poll and the rollback for a rescan.                  *)
LEMMA BeginAndRollback ==
  ASSUME IInv, BeginPoll \/ ReadMarker \/ RollbackToRescan
  PROVE  IInv'
<1>1. CASE BeginPoll
  <2>1. /\ pc' \in {"new_tip", "marker"} /\ ticket' \in Nat
        /\ UNCHANGED <<nodeVars, dbVars, completed, target, upd, sharedVars, rpc, modelVars, bounds>>
    BY <1>1 DEF BeginPoll, IInv, TypeOK
  <2>2. Staged'
    BY <1>1, <2>1 DEF IInv, Staged, BeginPoll, dbVars
  <2>3. QED
    BY <2>1, <2>2, ReadingStep DEF IInv, TypeOK, Reads, dbVars
<1>2. CASE ReadMarker
  <2>1. UNCHANGED <<nodeVars, dbVars, sharedVars, rpc, modelVars, bounds>>
    BY <1>2 DEF ReadMarker
  <2>2. CASE rescan_timestamp = Null /\ pc' = "new_tip" /\ UNCHANGED <<ticket, completed, target, upd>>
    <3>1. Staged'
      BY <1>2, <2>1, <2>2, Zenon DEF ReadMarker, IInv, Staged, dbVars
    <3>2. QED
      BY <2>1, <2>2, <3>1, ReadingStep, SMTT(30) DEF IInv, TypeOK, Reads, dbVars
  <2>3. CASE /\ rescan_timestamp # Null /\ rescan_timestamp < Len(chain)
             /\ pc' = "rollback" /\ completed' = TRUE
             /\ target' = BlockBefore(rescan_timestamp)
             /\ UNCHANGED <<ticket, upd>>
    <3>1. target' \in Tip
      <4>1. rescan_timestamp \in Nat
        BY <2>3 DEF IInv, TypeOK
      <4> DEFINE n == IF rescan_timestamp = 0 THEN 0 ELSE rescan_timestamp - 1
      <4>2. n \in 0..Len(chain)
        BY <2>3, <4>1, Keep
      <4>3. QED
        BY <2>3, <4>2, Keep, PrefixIsTip DEF BlockBefore
    <3>2. Staged'
      BY <2>1, <2>3, Zenon DEF Staged, dbVars
    <3>3. QED
      BY <2>1, <2>3, <3>1, <3>2, ReadingStep DEF IInv, TypeOK, Reads, dbVars
  <2>4. CASE LeavePoll
    <3>1. NodeTypeOK'
      BY <2>1 DEF IInv, TypeOK, NodeTypeOK, nodeVars
    <3>2. QED
      BY <2>1, <2>4, <3>1, LeavingStep, Zenon DEF IInv, TypeOK, dbVars, sharedVars, modelVars, bounds
  <2>5. QED
    BY <1>2, <2>2, <2>3, <2>4, ZenonT(30) DEF ReadMarker
<1>3. CASE RollbackToRescan
  <2>1. /\ pc = "rollback" /\ coins' = RollbackCoins(coins, Len(target)) /\ tip' = target
        /\ pc' = "new_tip" /\ target' = Genesis
        /\ UNCHANGED <<txs, rescan_timestamp, timestamp>>
        /\ UNCHANGED <<nodeVars, ticket, completed, upd, sharedVars, rpc, modelVars, bounds>>
    BY <1>3 DEF RollbackToRescan, RollbackTip, Height
  <2>2. IsCoinTable(coins') /\ tip' \in Tip /\ target' \in Tip
    BY <2>1, Keep, RollbackTable, NoUpdateType, LenProperties, Zenon DEF Tip
  <2>3. Staged'
    BY <2>1, SMTT(30) DEF IInv, Staged
  <2>4. QED
    BY <2>1, <2>2, <2>3, ReadingStep DEF IInv, TypeOK, Reads
<1>4. QED
  BY <1>1, <1>2, <1>3

(* The three answers of new_tip.                                           *)
LEMMA TipSteps ==
  ASSUME IInv, TipProgress \/ TipReorged \/ TipRefused
  PROVE  IInv'
<1>1. CASE TipProgress
  <2>1. /\ pc' = "received" /\ target' = chain
        /\ UNCHANGED <<nodeVars, dbVars, ticket, completed, upd, sharedVars, rpc, modelVars, bounds>>
    BY <1>1, SMTT(30) DEF TipProgress
  <2>2. completed => rescan_timestamp # Null
    BY <1>1 DEF TipProgress, IInv, Staged
  <2>3. UNCHANGED <<completed, rescan_timestamp>>
    BY <2>1 DEF dbVars
  <2>4. Staged'
    BY <2>1, <2>2, <2>3, SMTT(30) DEF Staged
  <2>5. QED
    BY <2>1, <2>4, Keep, ReadingStep, Zenon DEF IInv, TypeOK, Reads, dbVars
<1>2. CASE TipReorged
  <2>1. /\ LeavePoll /\ tip' = CommonAncestor /\ coins' = RollbackCoins(coins, Len(CommonAncestor))
        /\ UNCHANGED <<txs, rescan_timestamp, timestamp>>
        /\ UNCHANGED <<nodeVars, sharedVars, rpc, modelVars, bounds>>
    BY <1>2 DEF TipReorged, RollbackTip, Height
  <2>2. CommonAncestor \in Tip
    BY Keep, ForkHeightBounds, PrefixIsTip, Zenon DEF CommonAncestor
  <2>3. Len(CommonAncestor) \in Nat
    BY <2>2, LenProperties DEF Tip
  <2>4. IsCoinTable(coins') /\ tip' \in Tip
    BY <2>1, <2>2, <2>3, Keep, RollbackTable, Zenon
  <2>5. NodeTypeOK'
    BY <2>1, SMTT(30) DEF IInv, TypeOK, NodeTypeOK, nodeVars
  <2>6. QED
    BY <2>1, <2>4, <2>5, LeavingStep, Zenon DEF IInv, TypeOK, sharedVars, modelVars, bounds
<1>3. CASE TipRefused
  <2>1. /\ LeavePoll /\ alert' = MaxReorgDepth + 1
        /\ UNCHANGED <<nodeVars, dbVars, requested, acknowledged, rpc, modelVars, bounds>>
    BY <1>3, Zenon DEF TipRefused
  <2>2. NodeTypeOK' /\ alert' \in Nat
    BY <2>1, PollerAssumption DEF IInv, TypeOK, NodeTypeOK, nodeVars
  <2>3. QED
    BY <2>1, <2>2, LeavingStep DEF IInv, TypeOK, dbVars, modelVars, bounds
<1>4. QED
  BY <1>1, <1>2, <1>3

(* What was received is not stored, and stays so.                          *)
LEMMA ReceivedAndConfirmed ==
  ASSUME IInv, ReadReceived \/ ReadConfirmed
  PROVE  IInv'
<1>1. CASE ReadReceived
  <2>1. /\ upd' = [upd EXCEPT !.received = NewlyReceived] /\ pc' = "confirmed"
        /\ UNCHANGED <<nodeVars, dbVars, ticket, completed, target, sharedVars, rpc, modelVars, bounds>>
    BY <1>1, SMTT(30) DEF ReadReceived
  <2>2. NewlyReceived \in SUBSET Coins /\ NewlyReceived \cap DOMAIN coins = {}
    BY DEF NewlyReceived, ReceivedSince
  <2>3. IsUpdate(upd') /\ upd'.received = NewlyReceived
    BY <2>1, <2>2, Keep, Zenon DEF IsUpdate
  <2>4. Staged'
    BY <1>1, <2>1, <2>2, <2>3 DEF ReadReceived, IInv, Staged, dbVars
  <2>5. QED
    BY <2>1, <2>3, <2>4, ReadingStep DEF IInv, TypeOK, Reads, dbVars
<1>2. CASE ReadConfirmed
  <2> DEFINE f == [c \in {d \in ToBeConfirmed : Confirmed(TxOf[d])} |-> HeightOf(TxOf[c], chain)]
             e == {c \in ToBeConfirmed : ~Confirmed(TxOf[c]) /\ TxOf[c] \notin mempool}
  <2>1. /\ upd' = [upd EXCEPT !.confirmed = f, !.expired = e] /\ pc' = "spending"
        /\ UNCHANGED <<nodeVars, dbVars, ticket, completed, target, sharedVars, rpc, modelVars, bounds>>
    BY <1>2 DEF ReadConfirmed
  <2>2. ToBeConfirmed \in SUBSET Coins
    <3>1. DOMAIN Seen = DOMAIN coins \cup upd.received
      BY DEF Seen, NewUnspentCoins
    <3>2. QED
      BY <3>1, Keep, Zenon DEF ToBeConfirmed, IsCoinTable, PartialFunction, IsUpdate
  <2>3. PartialFunction(f, Coins, Nat)
    <3>1. \A c \in DOMAIN f : HeightOf(TxOf[c], chain) \in Nat
      BY Keep, HeightOfType DEF Confirmed
    <3>2. QED
      BY <2>2, <3>1 DEF PartialFunction
  <2>4. e \in SUBSET Coins
    BY <2>2
  <2> HIDE DEF e, f
  <2>5. IsUpdate(upd') /\ upd'.received = upd.received
    BY <2>1, <2>3, <2>4, Keep, Zenon DEF IsUpdate
  <2>6. Staged'
    BY <1>2, <2>1, <2>5, SMTT(30) DEF ReadConfirmed, IInv, Staged, dbVars
  <2>7. QED
    BY <2>1, <2>5, <2>6, ReadingStep, Zenon DEF IInv, TypeOK, Reads, dbVars
<1>3. QED
  BY <1>1, <1>2

(* The spenders found are recorded by the node's wallet.                   *)
LEMMA Spending ==
  ASSUME IInv, ReadSpending
  PROVE  IInv'
<1> DEFINE toBeSpent == {c \in DOMAIN Seen : Seen[c].spend_block_height = Null /\ c \notin upd.expired}
           spentOnes == {c \in toBeSpent : TxOf[c] \in known /\ IsSpent(c) /\ Spenders(c) # {}}
<1>1. PICK spender \in [spentOnes -> Txs] : upd' = [upd EXCEPT !.spending = spender]
  BY Zenon DEF ReadSpending
<1>2. /\ pc = "spending" /\ pc' = "spent"
      /\ UNCHANGED <<nodeVars, dbVars, ticket, completed, target, sharedVars, rpc, modelVars, bounds>>
  BY DEF ReadSpending
<1>3. spentOnes \in SUBSET Coins
  <2>1. DOMAIN Seen = DOMAIN coins \cup upd.received
    BY DEF Seen, NewUnspentCoins
  <2>2. QED
    BY <2>1, Keep, Zenon DEF IsCoinTable, PartialFunction, IsUpdate
<1> HIDE DEF spentOnes
<1>4. PartialFunction(spender, Coins, Txs)
  BY <1>3 DEF PartialFunction
<1>5. IsUpdate(upd') /\ upd'.received = upd.received
  BY <1>1, <1>4, Keep, Zenon DEF IsUpdate
<1>6. Staged'
  BY <1>2, <1>5, Zenon DEF IInv, Staged, dbVars
<1>7. QED
  BY <1>2, <1>5, <1>6, ReadingStep, Zenon DEF IInv, TypeOK, Reads, dbVars

(* collect_txs has every transaction the update names.                     *)
LEMMA Spent ==
  ASSUME IInv, ReadSpent
  PROVE  IInv'
<1> DEFINE pairs == {<<c, coins[c].spend_txid>> : c \in SpendingCoins(coins)}
                      \cup {<<c, upd.spending[c]>> : c \in DOMAIN upd.spending}
           asked == {p \in pairs : p[2] \in known}
           spent == {p[1] : p \in {q \in asked : ConfirmedSpender(q[1], q[2]) # {}}}
           SpenderOf(c) == CHOOSE u \in Txs : \E p \in asked : p[1] = c /\ u \in ConfirmedSpender(c, p[2])
           f == [c \in spent |-> [txid |-> SpenderOf(c), height |-> HeightOf(SpenderOf(c), chain)]]
           e == {p[1] : p \in {q \in asked : ConfirmedSpender(q[1], q[2]) = {} /\ q[2] \notin mempool}}
<1>1. /\ pc = "spent" /\ pc' = "recheck"
      /\ upd' = [upd EXCEPT !.spent = f, !.expired_spending = e, !.txs = CollectTxs]
      /\ UNCHANGED <<nodeVars, dbVars, ticket, completed, target, sharedVars, rpc, modelVars, bounds>>
  BY DEF ReadSpent
<1>2. \A p \in pairs : p[1] \in Coins
  <2>1. SpendingCoins(coins) \in SUBSET Coins
    BY Keep DEF SpendingCoins, IsCoinTable, PartialFunction
  <2>2. DOMAIN upd.spending \in SUBSET Coins
    BY Keep DEF IsUpdate, PartialFunction
  <2>3. QED
    BY <2>1, <2>2
<1> HIDE DEF pairs
<1>3. spent \in SUBSET Coins /\ e \in SUBSET Coins
  BY <1>2, Zenon
<1>4. \A c \in spent : SpenderOf(c) \in Txs /\ SpenderOf(c) \in ChainTxs(chain)
  <2>1. TAKE c \in spent
  <2>2. PICK p \in asked : p[1] = c /\ ConfirmedSpender(c, p[2]) # {}
    OBVIOUS
  <2>3. PICK u \in ConfirmedSpender(c, p[2]) : TRUE
    BY <2>2
  <2>4. u \in Txs
    BY <2>3, Keep DEF ConfirmedSpender
  <2>5. SpenderOf(c) \in Txs /\ \E q \in asked : q[1] = c /\ SpenderOf(c) \in ConfirmedSpender(c, q[2])
    BY <2>2, <2>3, <2>4, Zenon
  <2>6. QED
    BY <2>5, SMTT(30) DEF ConfirmedSpender, Confirmed
<1> HIDE DEF SpenderOf, spent
<1>5. PartialFunction(f, Coins, SpentAt)
  <2>1. \A c \in spent : HeightOf(SpenderOf(c), chain) \in Nat
    BY <1>4, Keep, HeightOfType
  <2>2. \A c \in spent : [txid |-> SpenderOf(c), height |-> HeightOf(SpenderOf(c), chain)] \in SpentAt
    BY <1>4, <2>1 DEF SpentAt
  <2>3. QED
    BY <1>3, <2>2 DEF PartialFunction
<1>6. CollectTxs \in SUBSET Txs /\ Named \subseteq txs \cup CollectTxs
  <2>1. Named \in SUBSET Txs
    BY Keep, TxAssumption DEF Named, IsUpdate, PartialFunction
  <2>2. QED
    BY <2>1 DEF CollectTxs, Named
<1> HIDE DEF f, e
<1>7. /\ IsUpdate(upd') /\ upd'.received = upd.received /\ upd'.spending = upd.spending
      /\ upd'.txs = CollectTxs
  BY <1>1, <1>3, <1>5, <1>6, Keep, Zenon DEF IsUpdate
<1>8. Named' = Named
  BY <1>7 DEF Named
<1>9. Staged'
  BY <1>1, <1>6, <1>7, <1>8, Zenon DEF IInv, Staged, dbVars
<1>10. QED
  BY <1>1, <1>7, <1>9, ReadingStep, Zenon DEF IInv, TypeOK, Reads, dbVars

(* The recheck of the tip changes nothing that is staged.                  *)
LEMMA Rechecked ==
  ASSUME IInv, Recheck
  PROVE  IInv'
<1>1. pc = "recheck" /\ UNCHANGED <<nodeVars, dbVars, sharedVars, rpc, modelVars, bounds>>
  BY SMTT(30) DEF Recheck
<1>2. CASE pc' = "new_txs" /\ UNCHANGED <<ticket, completed, target, upd>>
  <2>1. Named' = Named
    BY <1>2 DEF Named
  <2>2. Staged'
    BY <1>1, <1>2, <2>1, ZenonT(30) DEF IInv, Staged, dbVars
  <2>3. QED
    BY <1>1, <1>2, <2>2, ReadingStep, Zenon DEF IInv, TypeOK, Writes, dbVars
<1>3. CASE LeavePoll
  <2>1. NodeTypeOK'
    BY <1>1 DEF IInv, TypeOK, NodeTypeOK, nodeVars
  <2>2. QED
    BY <1>1, <1>3, <2>1, LeavingStep, Zenon DEF IInv, TypeOK, dbVars, sharedVars, modelVars, bounds
<1>4. QED
  BY <1>2, <1>3 DEF Recheck

(* The writes: what they change of the tables is typed by the table lemmas *)
(* and what is staged for the later ones stays.                            *)
LEMMA StoredTxs ==
  ASSUME IInv, NewTxs
  PROVE  IInv'
<1>1. /\ pc = "new_txs" /\ pc' = "new_unspent" /\ txs' = txs \cup upd.txs /\ alert' = 0
      /\ UNCHANGED <<nodeVars, tip, coins, rescan_timestamp, timestamp, ticket, completed, target, upd,
                     requested, acknowledged, rpc, modelVars, bounds>>
  BY DEF NewTxs
<1>2. Named' = Named
  BY <1>1, Zenon DEF Named
<1>3. Staged'
  BY <1>1, <1>2 DEF IInv, Staged
<1>4. NodeTypeOK' /\ txs' \in SUBSET Txs /\ IsUpdate(upd')
  BY <1>1, Keep, ZenonT(30) DEF IInv, TypeOK, NodeTypeOK, nodeVars, IsUpdate
<1>5. TypeOK'
  BY <1>1, <1>4 DEF IInv, TypeOK, Writes, modelVars, bounds
<1>6. QED
  BY <1>3, <1>5, Zenon DEF IInv

(* The writes to the coins table.                                          *)
LEMMA CoinWrites ==
  ASSUME IInv,
         \/ WriteNewUnspent \/ WriteRemove \/ WriteConfirm \/ WriteUnspend \/ WriteSpend
         \/ WriteConfirmSpend \/ WriteFromSelf
  PROVE  IInv'
<1>1. /\ IsCoinTable(coins)
      /\ upd.received \in SUBSET Coins /\ PartialFunction(upd.confirmed, Coins, Nat)
      /\ PartialFunction(upd.spending, Coins, Txs) /\ PartialFunction(upd.spent, Coins, SpentAt)
  BY Keep DEF IsUpdate
<1>2. ASSUME NEW at \in Writes, NEW table, NEW next \in Writes,
             WriteCoins(at, table, next), IsCoinTable(table),
             at \notin {"update_tip", "complete_rescan", "finish"},
             next \notin {"new_txs", "new_unspent", "complete_rescan", "finish"},
             next \in {"remove", "confirm", "unspend", "spend"}
               => at \in {"new_unspent", "remove", "confirm", "unspend"}
      PROVE  IInv'
  <2>1. /\ pc = at /\ pc' = next
        /\ UNCHANGED <<txs, rescan_timestamp, completed, upd>>
    BY <1>2, Zenon DEF WriteCoins
  <2>2. Named' = Named
    BY <2>1, Zenon DEF Named
  <2>3. Staged'
    BY <1>2, <2>1, <2>2, Zenon DEF IInv, Staged, Writes
  <2>4. QED
    BY <1>2, <2>3, WritingStep, Zenon
<1>3. CASE WriteNewUnspent
  <2>1. IsCoinTable(NewUnspentCoins(coins, upd.received))
    BY <1>1, NewUnspentTable, Zenon
  <2>2. WriteCoins("new_unspent", NewUnspentCoins(coins, upd.received), "remove")
    BY <1>3, Zenon DEF WriteNewUnspent
  <2>3. QED
    BY <1>2, <2>1, <2>2, Zenon DEF Writes
<1>4. CASE WriteRemove
  <2>1. IsCoinTable(RemoveCoins(coins, upd.expired))
    BY <1>1, RemoveTable, Zenon
  <2>2. WriteCoins("remove", RemoveCoins(coins, upd.expired), "confirm")
    BY <1>4, Zenon DEF WriteRemove
  <2>3. QED
    BY <1>2, <2>1, <2>2, Zenon DEF Writes
<1>5. CASE WriteConfirm
  <2>1. IsCoinTable(ConfirmCoins(coins, upd.confirmed))
    BY <1>1, ConfirmTable, Zenon
  <2>2. WriteCoins("confirm", ConfirmCoins(coins, upd.confirmed), "unspend")
    BY <1>5, Zenon DEF WriteConfirm
  <2>3. QED
    BY <1>2, <2>1, <2>2, Zenon DEF Writes
<1>6. CASE WriteUnspend
  <2>1. IsCoinTable(UnspendCoins(coins, upd.expired_spending))
    BY <1>1, UnspendTable, Zenon
  <2>2. WriteCoins("unspend", UnspendCoins(coins, upd.expired_spending), "spend")
    BY <1>6, Zenon DEF WriteUnspend
  <2>3. QED
    BY <1>2, <2>1, <2>2, Zenon DEF Writes
<1>7. CASE WriteSpend
  <2>1. IsCoinTable(SpendCoins(coins, upd.spending))
    BY <1>1, SpendTable, Zenon
  <2>2. WriteCoins("spend", SpendCoins(coins, upd.spending), "confirm_spend")
    BY <1>7, Zenon DEF WriteSpend
  <2>3. QED
    BY <1>2, <2>1, <2>2, Zenon DEF Writes
<1>8. CASE WriteConfirmSpend
  <2>1. IsCoinTable(ConfirmSpend(coins, upd.spent))
    BY <1>1, ConfirmSpendTable, Zenon
  <2>2. WriteCoins("confirm_spend", ConfirmSpend(coins, upd.spent), "from_self")
    BY <1>8, Zenon DEF WriteConfirmSpend
  <2>3. QED
    BY <1>2, <2>1, <2>2, Zenon DEF Writes
<1>9. CASE WriteFromSelf
  <2>1. IsCoinTable(UpdateCoinsFromSelf(coins, txs, PrevTipHeight))
    BY <1>1, FromSelfTable, Zenon
  <2>2. WriteCoins("from_self", UpdateCoinsFromSelf(coins, txs, PrevTipHeight), "update_tip")
    BY <1>9, Zenon DEF WriteFromSelf
  <2>3. QED
    BY <1>2, <2>1, <2>2, Zenon DEF Writes
<1>10. QED
  BY <1>3, <1>4, <1>5, <1>6, <1>7, <1>8, <1>9

(* update_tip, complete_rescan and the end of the poll.                    *)
LEMMA LastWrites ==
  ASSUME IInv, UpdateTip \/ CompleteRescan \/ FinishPoll
  PROVE  IInv'
<1>1. CASE UpdateTip
  <2>1. /\ pc = "update_tip" /\ tip' = target
        /\ pc' = IF completed THEN "complete_rescan" ELSE "finish"
        /\ UNCHANGED <<nodeVars, coins, txs, rescan_timestamp, timestamp, ticket, completed, target, upd,
                       sharedVars, rpc, modelVars, bounds>>
    BY <1>1 DEF UpdateTip, AfterUpdateTip
  <2>2. Staged'
    BY <2>1, Zenon DEF IInv, Staged
  <2>3. QED
    BY <2>1, <2>2, ReadingStep, Zenon DEF IInv, TypeOK, Writes
<1>2. CASE CompleteRescan
  <2>1. /\ pc = "complete_rescan" /\ pc' = "finish" /\ rescan_timestamp' = Null
        /\ timestamp' = IF rescan_timestamp < timestamp THEN rescan_timestamp ELSE timestamp
        /\ UNCHANGED <<nodeVars, tip, coins, txs, ticket, completed, target, upd, sharedVars, rpc,
                       modelVars, bounds>>
    BY <1>2 DEF CompleteRescan, CompletedDate, MinOf
  <2>2. rescan_timestamp \in Nat /\ timestamp \in Nat
    BY <2>1, Zenon DEF IInv, TypeOK, Staged
  <2>3. NodeTypeOK' /\ timestamp' \in Nat /\ IsUpdate(upd')
    BY <2>1, <2>2, Keep, Zenon DEF IInv, TypeOK, NodeTypeOK, nodeVars, IsUpdate
  <2>4. TypeOK'
    BY <2>1, <2>3, Zenon DEF IInv, TypeOK, Writes, sharedVars, modelVars, bounds
  <2>5. Staged'
    BY <2>1, ZenonT(30) DEF Staged
  <2>6. QED
    BY <2>4, <2>5, Zenon DEF IInv
<1>3. CASE FinishPoll
  <2>1. /\ LeavePoll /\ acknowledged' = Acknowledge /\ polled' = TRUE
        /\ UNCHANGED <<nodeVars, dbVars, requested, alert, rpc, owed, bounds>>
    BY <1>3, Zenon DEF FinishPoll
  <2>2. NodeTypeOK' /\ acknowledged' \in Nat
    BY <2>1, Zenon DEF IInv, TypeOK, NodeTypeOK, nodeVars, Acknowledge, MinOf, MaxOf
  <2>3. QED
    BY <2>1, <2>2, LeavingStep, Zenon DEF IInv, TypeOK, dbVars, bounds
<1>4. QED
  BY <1>1, <1>2, <1>3

(* A broken constraint leaves the database as it is.                       *)
LEMMA Panicked ==
  ASSUME IInv, Panic
  PROVE  IInv'
<1>1. /\ BreaksConstraint /\ pc' = "panicked" /\ polled' = FALSE
      /\ UNCHANGED <<nodeVars, dbVars, ticket, completed, target, upd, sharedVars, rpc, owed, bounds>>
  BY Zenon DEF Panic
<1>2. pc # "finish"
  BY <1>1, Zenon DEF BreaksConstraint
<1>3. Staged'
  BY <1>1, <1>2 DEF IInv, Staged, dbVars
<1>4. NodeTypeOK' /\ IsUpdate(upd')
  BY <1>1, Keep, Zenon DEF IInv, TypeOK, NodeTypeOK, nodeVars, IsUpdate
<1>5. polled' \in BOOLEAN
  BY <1>1, Zenon
<1>6. TypeOK'
  BY <1>1, <1>4, <1>5, Zenon DEF IInv, TypeOK, dbVars, sharedVars, bounds
<1>7. QED
  BY <1>3, <1>6 DEF IInv

(* A failed read and a stop forget what was staged.                        *)
LEMMA Failures ==
  ASSUME IInv, ReadFails \/ Restart
  PROVE  IInv'
<1>1. CASE ReadFails
  <2>1. /\ LeavePoll /\ failures' = failures + 1
        /\ UNCHANGED <<nodeVars, dbVars, sharedVars, rpc, modelVars, rescans, replays, crashes>>
    BY <1>1, Zenon DEF ReadFails
  <2>2. NodeTypeOK'
    BY <2>1, Zenon DEF IInv, TypeOK, NodeTypeOK, nodeVars
  <2>3. failures' \in Nat
    BY <2>1 DEF IInv, TypeOK
  <2>4. QED
    BY <2>1, <2>2, <2>3, LeavingStep, Zenon DEF IInv, TypeOK, dbVars, sharedVars, modelVars
<1>2. CASE Restart
  <2>1. /\ LeavePoll /\ crashes' = crashes + 1 /\ requested' = 1 /\ acknowledged' = 0 /\ alert' = 0
        /\ rpc' = [r \in Rpcs |-> IdleRpc] /\ polled' = FALSE /\ owed' = known
        /\ UNCHANGED <<nodeVars, dbVars, rescans, replays, failures>>
    BY <1>2, SMTT(30) DEF Restart
  <2>2. NodeTypeOK'
    BY <2>1, Zenon DEF IInv, TypeOK, NodeTypeOK, nodeVars
  <2>3. rpc' \in [Rpcs -> RpcState]
    BY <2>1, Zenon DEF IdleRpc, RpcState
  <2>4. UNCHANGED <<tip, coins, txs, rescan_timestamp, timestamp>> /\ owed' \in SUBSET Txs
    BY <2>1, Keep, Zenon DEF dbVars
  <2>5. /\ tip' \in Tip /\ IsCoinTable(coins') /\ txs' \in SUBSET Txs
        /\ rescan_timestamp' \in Nat \cup {Null} /\ timestamp' \in Nat
    BY <2>4, Zenon DEF IInv, TypeOK
  <2>6. /\ requested' \in Nat /\ acknowledged' \in Nat /\ alert' \in Nat
        /\ rescans' \in Nat /\ replays' \in Nat /\ failures' \in Nat /\ crashes' \in Nat
    BY <2>1 DEF IInv, TypeOK
  <2>7. polled' \in BOOLEAN
    BY <2>1, Zenon
  <2>8. QED
    BY <2>1, <2>2, <2>3, <2>4, <2>5, <2>6, <2>7, LeavingStep, Zenon
<1>3. QED
  BY <1>1, <1>2

(* A step beside the poll: it inserts no coin and clears no marker.        *)
LEMMA StepBeside ==
  ASSUME IInv, NodeTypeOK', UNCHANGED <<tip, coins, txs, timestamp, pollVars, acknowledged, alert, polled>>,
         rescan_timestamp' \in Nat \cup {Null}, rescan_timestamp # Null => rescan_timestamp' # Null,
         requested' \in Nat, rpc' \in [Rpcs -> RpcState], owed' \in SUBSET Txs,
         rescans' \in Nat, replays' \in Nat, failures' \in Nat, crashes' \in Nat
  PROVE  IInv'
<1>1. UNCHANGED <<pc, ticket, completed, target, upd>>
  BY SMTT(30) DEF pollVars
<1>2. Named' = Named
  BY <1>1 DEF Named
<1>3. Staged'
  BY <1>1, <1>2, ZenonT(30) DEF IInv, Staged
<1>4. TypeOK'
  BY <1>1, Zenon DEF IInv, TypeOK
<1>5. QED
  BY <1>3, <1>4, Zenon DEF IInv

(* The commands never take the marker of a rescan away.                    *)
LEMMA Commands ==
  ASSUME IInv, RpcStep \/ RequestReplay
  PROVE  IInv'
<1>1. /\ NodeTypeOK /\ rpc \in [Rpcs -> RpcState]
      /\ rescan_timestamp \in Nat \cup {Null} /\ requested \in Nat /\ owed \in SUBSET Txs
      /\ rescans \in Nat /\ replays \in Nat /\ failures \in Nat /\ crashes \in Nat
  BY Zenon DEF IInv, TypeOK
<1>2. ASSUME NEW r \in Rpcs, NEW ts \in 0..MaxHeight, CheckRescan(r, ts) PROVE IInv'
  <2>1. /\ rpc' = [rpc EXCEPT ![r] = [at |-> "checked", ts |-> ts]] /\ rescans' = rescans + 1
        /\ UNCHANGED <<nodeVars, dbVars, pollVars, sharedVars, modelVars, replays, failures, crashes>>
    BY <1>2, SMTT(30) DEF CheckRescan
  <2>2. NodeTypeOK'
    BY <1>1, <2>1, Zenon DEF NodeTypeOK, nodeVars
  <2>3. rpc' \in [Rpcs -> RpcState]
    BY <1>1, <2>1, NodeAssumption DEF RpcState
  <2>4. UNCHANGED <<tip, coins, txs, timestamp, pollVars, acknowledged, alert, polled>>
    BY <2>1, SMTT(30) DEF dbVars, sharedVars, modelVars
  <2>5. /\ rescan_timestamp' \in Nat \cup {Null}
        /\ rescan_timestamp # Null => rescan_timestamp' # Null
        /\ requested' \in Nat /\ owed' \in SUBSET Txs
        /\ rescans' \in Nat /\ replays' \in Nat /\ failures' \in Nat /\ crashes' \in Nat
    BY <1>1, <2>1 DEF dbVars, sharedVars, modelVars
  <2>6. QED
    BY <2>2, <2>3, <2>4, <2>5, StepBeside, Zenon
<1>3. ASSUME NEW r \in Rpcs, StartRescan(r) PROVE IInv'
  <2>1. rpc[r] \in RpcState
    BY <1>1
  <2>2. /\ scanning' \in {rpc[r].ts, scanning}
        /\ rpc' \in {[rpc EXCEPT ![r].at = "started"], [rpc EXCEPT ![r] = IdleRpc]}
        /\ UNCHANGED <<chain, mempool, known, reorgs, rewinds, evictions, dbVars, pollVars, sharedVars,
                       modelVars, bounds>>
    BY <1>3 DEF StartRescan
  <2>3. NodeTypeOK'
    BY <1>1, <2>1, <2>2, Zenon DEF NodeTypeOK, RpcState
  <2>4. rpc' \in [Rpcs -> RpcState]
    BY <1>1, <2>1, <2>2 DEF RpcState, IdleRpc
  <2>5. UNCHANGED <<tip, coins, txs, timestamp, pollVars, acknowledged, alert, polled>>
    BY <2>2, Zenon DEF dbVars, sharedVars, modelVars
  <2>6. /\ rescan_timestamp' \in Nat \cup {Null}
        /\ rescan_timestamp # Null => rescan_timestamp' # Null
        /\ requested' \in Nat /\ owed' \in SUBSET Txs
        /\ rescans' \in Nat /\ replays' \in Nat /\ failures' \in Nat /\ crashes' \in Nat
    BY <1>1, <2>2, Zenon DEF dbVars, sharedVars, modelVars, bounds
  <2>7. QED
    BY <2>3, <2>4, <2>5, <2>6, StepBeside, Zenon
<1>4. ASSUME NEW r \in Rpcs, SetRescan(r) PROVE IInv'
  <2>1. rpc[r].ts \in Nat
    BY <1>1, Zenon DEF RpcState
  <2>2. /\ rescan_timestamp' = rpc[r].ts /\ rpc' = [rpc EXCEPT ![r] = IdleRpc]
        /\ UNCHANGED <<nodeVars, tip, coins, txs, timestamp, pollVars, sharedVars, modelVars, bounds>>
    BY <1>4, Zenon DEF SetRescan
  <2>3. NodeTypeOK'
    BY <1>1, <2>2, Zenon DEF NodeTypeOK, nodeVars
  <2>4. rpc' \in [Rpcs -> RpcState]
    BY <1>1, <2>2, Zenon DEF RpcState, IdleRpc
  <2>5. UNCHANGED <<tip, coins, txs, timestamp, pollVars, acknowledged, alert, polled>>
    BY <2>2, Zenon DEF sharedVars, modelVars
  <2>6. /\ rescan_timestamp' \in Nat \cup {Null}
        /\ rescan_timestamp # Null => rescan_timestamp' # Null
        /\ requested' \in Nat /\ owed' \in SUBSET Txs
        /\ rescans' \in Nat /\ replays' \in Nat /\ failures' \in Nat /\ crashes' \in Nat
    BY <1>1, <2>1, <2>2, SMTT(30) DEF Null, sharedVars, modelVars, bounds
  <2>7. QED
    BY <2>3, <2>4, <2>5, <2>6, StepBeside
<1>5. CASE RequestReplay
  <2>1. /\ replays' = replays + 1 /\ requested' = requested + 1 /\ owed' = known
        /\ UNCHANGED <<nodeVars, dbVars, pollVars, acknowledged, alert, rpc, polled, rescans, failures,
                       crashes>>
    BY <1>5, Zenon DEF RequestReplay
  <2>2. NodeTypeOK'
    BY <1>1, <2>1, Zenon DEF NodeTypeOK, nodeVars
  <2>3. UNCHANGED <<tip, coins, txs, timestamp, pollVars, acknowledged, alert, polled>>
    BY <2>1, Zenon DEF dbVars
  <2>4. /\ rescan_timestamp' \in Nat \cup {Null}
        /\ rescan_timestamp # Null => rescan_timestamp' # Null
        /\ requested' \in Nat /\ owed' \in SUBSET Txs
        /\ rescans' \in Nat /\ replays' \in Nat /\ failures' \in Nat /\ crashes' \in Nat
    BY <1>1, <2>1 DEF NodeTypeOK, dbVars
  <2>5. QED
    BY <1>1, <2>1, <2>2, <2>3, <2>4, StepBeside, Zenon
<1>6. QED
  BY <1>2, <1>3, <1>4, <1>5, Zenon DEF RpcStep

(* The node does not touch the daemon's state.                             *)
LEMMA NodeSteps ==
  ASSUME IInv, EnvStep
  PROVE  IInv'
<1>1. NodeTypeOK /\ NodeNext /\ UNCHANGED <<dbVars, pollVars, sharedVars, rpc, modelVars, bounds>>
  BY DEF EnvStep, IInv, TypeOK
<1>2. NodeTypeOK'
  BY <1>1, NodeTypes, Zenon
<1>3. UNCHANGED <<tip, coins, txs, timestamp, pollVars, acknowledged, alert, polled>>
  BY <1>1, Zenon DEF dbVars, sharedVars, modelVars
<1>4. /\ rescan_timestamp' \in Nat \cup {Null}
      /\ rescan_timestamp # Null => rescan_timestamp' # Null
      /\ requested' \in Nat /\ owed' \in SUBSET Txs
      /\ rescans' \in Nat /\ replays' \in Nat /\ failures' \in Nat /\ crashes' \in Nat
  BY <1>1, Zenon DEF IInv, TypeOK, dbVars, sharedVars, modelVars, bounds
<1>5. rpc' \in [Rpcs -> RpcState]
  BY <1>1 DEF IInv, TypeOK
<1>6. QED
  BY <1>2, <1>3, <1>4, <1>5, StepBeside, Zenon

(***************************************************************************)
(* The theorems                                                            *)
(***************************************************************************)

(* The invariant holds of every run of the poller beside the node and the  *)
(* commands.                                                               *)
THEOREM PollerInvariant == Spec => []IInv
<1>1. Init => IInv
  <2>1. SUFFICES ASSUME Init PROVE IInv
    BY Zenon
  <2>2. IsUpdate(upd) /\ tip \in Tip /\ target \in Tip
    BY <2>1, NoUpdateType, Zenon DEF Init
  <2>3. NodeTypeOK /\ timestamp \in Nat
    BY <2>1, PollerAssumption, LenProperties, SMTT(30) DEF Init, NodeTypeOK, Tip, Null
  <2>4. IsCoinTable(coins) /\ rpc \in [Rpcs -> RpcState]
    BY <2>1 DEF Init, NoCoins, IsCoinTable, PartialFunction, IdleRpc, RpcState
  <2>5. TypeOK
    BY <2>1, <2>2, <2>3, <2>4, Zenon DEF Init, TypeOK
  <2>6. Staged
    BY <2>1, Zenon DEF Init, Staged
  <2>7. QED
    BY <2>5, <2>6, Zenon DEF IInv
<1>2. IInv /\ [Next]_vars => IInv'
  <2>1. SUFFICES ASSUME IInv, [Next]_vars PROVE IInv'
    BY Zenon
  <2>2. CASE PollStep
    BY <2>1, <2>2, BeginAndRollback, TipSteps, ReceivedAndConfirmed, Spending, Spent, Rechecked,
       StoredTxs, CoinWrites, LastWrites, Panicked, Zenon DEF PollStep
  <2>3. CASE ReadFails \/ Restart
    BY <2>1, <2>3, Failures, Zenon
  <2>4. CASE RpcStep \/ RequestReplay
    BY <2>1, <2>4, Commands, Zenon
  <2>5. CASE EnvStep
    BY <2>1, <2>5, NodeSteps, Zenon
  <2>6. CASE UNCHANGED vars
    <3>1. NodeTypeOK'
      BY <2>1, <2>6, Zenon DEF IInv, TypeOK, NodeTypeOK, vars, nodeVars
    <3>2. UNCHANGED <<tip, coins, txs, timestamp, pollVars, acknowledged, alert, polled>>
      BY <2>6, SMTT(30) DEF vars, dbVars, sharedVars, modelVars
    <3>3. /\ rescan_timestamp' \in Nat \cup {Null}
          /\ rescan_timestamp # Null => rescan_timestamp' # Null
          /\ requested' \in Nat /\ owed' \in SUBSET Txs
          /\ rescans' \in Nat /\ replays' \in Nat /\ failures' \in Nat /\ crashes' \in Nat
      BY <2>1, <2>6, SMTT(30) DEF IInv, TypeOK, vars, dbVars, sharedVars, modelVars, bounds
    <3>4. rpc' \in [Rpcs -> RpcState]
      BY <2>1, <2>6, Zenon DEF IInv, TypeOK, vars
    <3>5. QED
      BY <2>1, <3>1, <3>2, <3>3, <3>4, StepBeside, SMTT(30)
  <2>7. QED
    BY <2>1, <2>2, <2>3, <2>4, <2>5, <2>6, Zenon DEF Next
<1>3. QED
  BY <1>1, <1>2, PTL DEF Spec

(* The tables, the state of the poll and of the commands have their types  *)
(* in every run: the CHOOSEs and look-ups of the reads (looper.rs:65-308)  *)
(* never fall outside their domains.                                       *)
THEOREM TypeCorrect == Spec => []TypeOK
<1>1. IInv => TypeOK
  BY DEF IInv
<1>2. QED
  BY <1>1, PollerInvariant, PTL

(* No poll inserts a coin twice, or before its transaction, or names a     *)
(* transaction that is not stored as a spend, or completes a rescan that   *)
(* has no marker (looper.rs:584-602, 682): whatever the node and the       *)
(* commands do between its reads and its writes, wherever it is stopped.   *)
THEOREM InsertsAreSafe == Spec => []InsertsNeverPanic
<1>1. QED
  BY InvariantIsEnough, PollerInvariant, PTL
=============================================================================
