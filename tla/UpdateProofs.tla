---------------------------- MODULE UpdateProofs ----------------------------
(* What a poll asks of the node, and its first writes: for any wallet and  *)
(* chain, what it stages is what the table misses.  TipProofs goes on from *)
(* here.                                                                   *)
EXTENDS PollerProofs

(* The instances of the runs reorg and crash, with any wallet and bounds:  *)
(* no rewind and no rescan, and stops or reorganisations but not both.     *)
Instance == MaxRewinds = 0 /\ MaxRescans = 0 /\ (MaxCrashes = 0 \/ MaxReorgs = 0)

(***************************************************************************)
(* What a table says of a chain                                            *)
(***************************************************************************)

(* The coins that a table of the chain must have: all but those that are   *)
(* older than the wallet's date.                                           *)
Dated(c, ch) == HeightOf(TxOf[c], ch) > Len(InitialChain) \/ TxOf[c] \notin ChainTxs(InitialChain)
Expected(ch) == {c \in Coins : TxOf[c] \in ChainTxs(ch) /\ Dated(c, ch)}

(* The table has them, and a block for all that the chain confirms.        *)
Full(db, ch) ==
  /\ Expected(ch) \subseteq DOMAIN db
  /\ \A c \in DOMAIN db : /\ TxOf[c] \in ChainTxs(ch) => db[c].blockheight # Null
                          /\ c \in SpentIn(ch) => db[c].spend_block_height # Null
Exact(db, ch) == Sound(db, ch) /\ Full(db, ch)

(***************************************************************************)
(* The inductive invariant                                                 *)
(***************************************************************************)

(* The node's wallet has recorded what blocks after the wallet's date pay  *)
(* to it, and the spends of every coin it has recorded.                    *)
RecordsInv ==
  /\ ValidChain(chain) /\ scanning = Null
  /\ Expected(chain) \subseteq {c \in Coins : TxOf[c] \in known}
  /\ \A t \in ChainTxs(chain) : \A c \in Ins[t] : TxOf[c] \in known => t \in known
  /\ \A c \in DOMAIN coins \cup upd.received : TxOf[c] \in known

(* Nobody asks for a rescan.                                               *)
NoRescan ==
  /\ (\A p \in Rpcs : rpc[p] = IdleRpc) /\ rescan_timestamp = Null /\ timestamp = Len(InitialChain)
  /\ completed = FALSE /\ pc \notin {"rollback", "complete_rescan"}

Asking == {"received", "confirmed", "spending", "spent", "recheck"}

(* The node's chain is the one this poll looks at, or a longer one.        *)
ChainInv ==
  /\ ValidChain(tip) /\ ValidChain(target)
  /\ pc \in Asking => InChain(tip, target) /\ (chain = target \/ Len(chain) > Len(target))
  /\ pc \in Writes => chain = target /\ InChain(tip, target)
  /\ MaxReorgs = 0 => InChain(tip, chain)

(* What the table is between the writes, and what it has in between.       *)
TableInv ==
  /\ ~polled /\ pc # "panicked" => ReplayPending
  /\ (polled \/ MaxCrashes = 0) /\ pc \notin Writes \cup {"panicked"} => Exact(coins, tip)
  /\ pc = "panicked" => ~polled
  /\ pc = "finish" => Exact(coins, tip)
  /\ pc \in Writes \/ MaxReorgs = 0 => Sound(coins, chain)

(* The rows that the poll has stored or is going to.                       *)
Unstored == {"confirmed", "spending", "spent", "recheck", "new_txs", "new_unspent"}
Rows == DOMAIN coins \cup (IF pc \in Unstored THEN upd.received ELSE {})
HasBlock(c) == c \in DOMAIN coins /\ coins[c].blockheight # Null
HasSpend(c) == c \in DOMAIN coins /\ coins[c].spend_block_height # Null

Unconfirmed == {"spending", "spent", "recheck", "new_txs", "new_unspent", "remove", "confirm"}
Confirming  == {"unspend", "spend", "confirm_spend", "from_self", "update_tip"}
Unspent     == {"recheck", "new_txs", "new_unspent", "remove", "confirm", "unspend", "spend", "confirm_spend"}

(* What the update has when the chain is the one it was asked of: the rows *)
(* that are missing, the blocks that are missing, the spends.              *)
ListedInv ==
  /\ pc \in Unstored \cup Unconfirmed \cup Confirming => Expected(target) \subseteq Rows
  /\ pc \in Unconfirmed =>
       /\ \A c \in Rows : TxOf[c] \in ChainTxs(target) => HasBlock(c) \/ c \in DOMAIN upd.confirmed
       /\ \A c \in DOMAIN upd.confirmed :
            TxOf[c] \in ChainTxs(target) /\ upd.confirmed[c] = HeightOf(TxOf[c], target)
  /\ pc \in Unconfirmed \ {"confirm"} => \A c \in upd.expired : TxOf[c] \notin ChainTxs(target)
  /\ pc \in Confirming => \A c \in Rows : TxOf[c] \in ChainTxs(target) => HasBlock(c)
SpentInv ==
  /\ pc = "spent" =>
       \A c \in Rows \cap SpentIn(target) : HasSpend(c) \/ c \in DOMAIN upd.spending
  /\ pc \in Unspent =>
       /\ \A c \in Rows \cap SpentIn(target) : HasSpend(c) \/ c \in DOMAIN upd.spent
       /\ \A c \in DOMAIN upd.spent :
            \E t \in ChainTxs(target) :
              c \in Ins[t] /\ upd.spent[c] = [txid |-> t, height |-> HeightOf(t, target)]
  /\ pc \in {"from_self", "update_tip"} => \A c \in Rows \cap SpentIn(target) : HasSpend(c)
UpdateInv == chain = target => ListedInv /\ SpentInv

(* A row that has its spend confirmed is not touched.                      *)
QuietInv ==
  /\ pc \in {"spent"} \cup (Unspent \ {"confirm_spend"}) =>
       \A c \in DOMAIN upd.spending : ~HasSpend(c) /\ c \in Ins[upd.spending[c]] /\ upd.spending[c] \in known
  /\ pc \in Unspent \ {"spend", "confirm_spend"} => \A c \in upd.expired_spending : ~HasSpend(c)

TipInv == RecordsInv /\ NoRescan /\ ChainInv /\ TableInv /\ UpdateInv /\ QuietInv

(***************************************************************************)
(* Tables                                                                  *)
(***************************************************************************)

(* An exact table is what TipMeansUpdated asks for.                        *)
LEMMA ExactAgrees ==
  ASSUME NEW ch \in Tip, timestamp = Len(InitialChain), IsCoinTable(coins), Exact(coins, ch)
  PROVE  ConfirmationsAgree(ch) /\ SpendsAgree(ch)
<1>1. ConfirmationsAgree(ch)
  BY DEF ConfirmationsAgree, Exact, Sound, Full, Expected, Dated
<1>2. SpendsAgree(ch)
  BY DEF SpendsAgree, Exact, Sound, Full, SpentIn, IsCoinTable, PartialFunction
<1>3. QED
  BY <1>1, <1>2

(* rollback_tip makes an exact table of a chain one of its prefix.         *)
LEMMA ExactRollsBack ==
  ASSUME NEW ch \in Tip, ValidChain(ch), NEW n \in 0..Len(ch),
         NEW db, IsCoinTable(db), Exact(db, ch)
  PROVE  Exact(RollbackCoins(db, n), SubSeq(ch, 1, n))
<1> DEFINE p == SubSeq(ch, 1, n)
           new == RollbackCoins(db, n)
<1>1. /\ \A t \in ChainTxs(ch) : t \in ChainTxs(p) <=> HeightOf(t, ch) <= n
      /\ \A t \in ChainTxs(p) : /\ t \in ChainTxs(ch) /\ HeightOf(t, p) = HeightOf(t, ch)
                                /\ Parents(t) \subseteq ChainTxs(p)
  BY ValidPrefix
<1>2. DOMAIN new = DOMAIN db /\ n \in Nat
  BY LenProperties DEF RollbackCoins, Tip
<1>3. ASSUME NEW c \in DOMAIN db
      PROVE  /\ new[c].blockheight = IF db[c].blockheight > n THEN Null ELSE db[c].blockheight
             /\ new[c].spend_txid = db[c].spend_txid
             /\ new[c].spend_block_height =
                  IF db[c].blockheight > n \/ db[c].spend_block_height > n
                    THEN Null ELSE db[c].spend_block_height
             /\ c \in Coins
             /\ db[c].blockheight \in Nat \cup {Null} /\ db[c].spend_block_height \in Nat \cup {Null}
  <2>1. c \in Coins /\ db[c] \in CoinRow
    BY DEF IsCoinTable, PartialFunction
  <2>2. QED
    BY <2>1 DEF RollbackCoins, CoinRow
<1> HIDE DEF p, new
<1>4. \A t \in ChainTxs(ch) : HeightOf(t, ch) \in Nat
  BY HeightOfType
<1>5. Expected(p) \subseteq DOMAIN new
  BY <1>1, <1>2, Zenon DEF Exact, Full, Expected, Dated
<1>6. ASSUME NEW c \in DOMAIN new
      PROVE  /\ new[c].blockheight # Null =>
                  TxOf[c] \in ChainTxs(p) /\ new[c].blockheight = HeightOf(TxOf[c], p)
             /\ TxOf[c] \in ChainTxs(p) => new[c].blockheight # Null
             /\ TxOf[c] \in ChainTxs(p) => ~(db[c].blockheight > n)
  BY <1>1, <1>2, <1>3, <1>4 DEF Exact, Sound, Full, Null
<1>7. ASSUME NEW c \in DOMAIN new, new[c].spend_block_height # Null
      PROVE  \E t \in ChainTxs(p) :
               c \in Ins[t] /\ new[c].spend_txid = t /\ new[c].spend_block_height = HeightOf(t, p)
  <2>1. db[c].spend_block_height # Null /\ ~(db[c].spend_block_height > n)
        /\ new[c].spend_block_height = db[c].spend_block_height
        /\ new[c].spend_txid = db[c].spend_txid
    BY <1>2, <1>3, <1>7, Zenon
  <2>2. PICK t \in ChainTxs(ch) :
          c \in Ins[t] /\ db[c].spend_txid = t /\ db[c].spend_block_height = HeightOf(t, ch)
    BY <1>2, <2>1, Zenon DEF Exact, Sound
  <2>3. t \in ChainTxs(p)
    BY <1>1, <1>2, <1>4, <2>1, <2>2
  <2>4. QED
    BY <1>1, <2>1, <2>2, <2>3, Zenon
<1>8. ASSUME NEW c \in DOMAIN new, c \in SpentIn(p)
      PROVE  new[c].spend_block_height # Null
  <2>1. PICK t \in ChainTxs(p) : c \in Ins[t]
    BY <1>8 DEF SpentIn
  <2>2. t \in ChainTxs(ch) /\ HeightOf(t, ch) <= n /\ TxOf[c] \in ChainTxs(p)
    BY <1>1, <2>1, Zenon DEF Parents
  <2>3. db[c].spend_block_height # Null
    BY <1>2, <1>3, <2>1, <2>2, Zenon DEF Exact, Full, SpentIn
  <2>4. PICK u \in ChainTxs(ch) :
          c \in Ins[u] /\ db[c].spend_txid = u /\ db[c].spend_block_height = HeightOf(u, ch)
    BY <1>2, <2>3, Zenon DEF Exact, Sound
  <2>5. u = t
    <3>1. t \in Txs /\ u \in Txs
      BY <2>2, <2>4, ChainTxsType, Zenon
    <3>2. ~Conflicts(t, u)
      BY <2>2, <2>4, Zenon DEF ValidChain, ConflictsWith
    <3>3. QED
      BY <2>1, <2>4, <3>2, Zenon DEF Conflicts
  <2>6. ~(db[c].spend_block_height > n) /\ ~(db[c].blockheight > n)
    BY <1>2, <1>4, <1>6, <2>2, <2>4, <2>5
  <2>7. QED
    BY <1>2, <1>3, <2>3, <2>6, Zenon
<1>9. Exact(new, p)
  BY <1>5, <1>6, <1>7, <1>8, Zenon DEF Exact, Sound, Full
<1>10. QED
  BY <1>9 DEF new, p

(***************************************************************************)
(* The node                                                                *)
(***************************************************************************)

(* What the node's wallet records of new blocks keeps its records whole.   *)
LEMMA BlocksAreRecorded ==
  ASSUME chain \in Tip, chain' \in Tip, RecordsInv, ValidChain(chain)',
         NEW n \in 0..Len(chain), NEW S \in SUBSET Txs, n <= Len(chain'),
         \A h \in 1..n : chain'[h] = chain[h],
         \A h \in (n + 1)..Len(chain') : chain'[h].txs \subseteq S,
         \A t \in S : \E h \in (n + 1)..Len(chain') : t \in chain'[h].txs,
         known' = known \cup Recorded(S)
  PROVE  /\ Expected(chain') \subseteq {c \in Coins : TxOf[c] \in known'}
         /\ \A t \in ChainTxs(chain') : \A c \in Ins[t] : TxOf[c] \in known' => t \in known'
<1>1. /\ Len(chain) \in Nat /\ Len(chain') \in Nat /\ n \in Nat
      /\ \A h \in 1..Len(chain') : h \in 1..n \/ h \in (n + 1)..Len(chain')
      /\ 1..n \subseteq 1..Len(chain) /\ 1..n \subseteq 1..Len(chain')
      /\ \A h \in 1..n : h \notin (n + 1)..Len(chain')
      /\ (n + 1)..Len(chain') \subseteq 1..Len(chain')
  BY LenProperties DEF Tip
<1>2. ASSUME NEW c \in Expected(chain') PROVE TxOf[c] \in known'
  <2> DEFINE h == HeightOf(TxOf[c], chain')
  <2>1. c \in Coins /\ Dated(c, chain') /\ h \in 1..Len(chain') /\ TxOf[c] \in chain'[h].txs
    BY HeightIsUnique DEF Expected
  <2> HIDE DEF h
  <2>2. CASE h \in 1..n
    <3>1. h \in 1..Len(chain) /\ TxOf[c] \in chain[h].txs
      BY <1>1, <2>1, <2>2, Zenon
    <3>2. TxOf[c] \in ChainTxs(chain)
      BY <3>1, Zenon DEF ChainTxs
    <3>3. HeightOf(TxOf[c], chain) = h
      BY <3>1, <3>2, HeightIsUnique, Zenon DEF RecordsInv
    <3>4. c \in Expected(chain)
      BY <2>1, <3>2, <3>3, Zenon DEF Expected, Dated, h
    <3>5. QED
      BY <3>4, Zenon DEF RecordsInv
  <2>3. CASE h \in (n + 1)..Len(chain')
    BY <2>1, <2>3, Zenon DEF Recorded
  <2>4. QED
    BY <1>1, <2>1, <2>2, <2>3, Zenon
<1>3. ASSUME NEW t \in ChainTxs(chain'), NEW c \in Ins[t], TxOf[c] \in known'
      PROVE  t \in known'
  <2>1. PICK h \in 1..Len(chain') : t \in chain'[h].txs
    BY DEF ChainTxs
  <2>2. TxOf[c] \in known \cup S /\ TxOf[c] \in Parents(t)
    BY <1>3, Zenon DEF Recorded, Parents
  <2>3. CASE h \in (n + 1)..Len(chain')
    BY <2>1, <2>2, <2>3, Zenon DEF Recorded
  <2>4. CASE h \in 1..n
    <3>1. t \in ChainTxs(chain)
      BY <1>1, <2>1, <2>4, Zenon DEF ChainTxs
    <3>2. TxOf[c] \notin S
      <4>1. Parents(t) \subseteq ChainTxs(SubSeq(chain', 1, h))
        BY <2>1, Zenon DEF ValidChain
      <4>2. h \in 0..Len(chain') /\ 1..h \subseteq 1..n
        BY <1>1, <2>4
      <4>3. PICK k \in 1..h : TxOf[c] \in chain'[k].txs
        BY <2>2, <4>1, <4>2, PrefixTxs, Zenon
      <4>4. \A j \in (n + 1)..Len(chain') : TxOf[c] \notin chain'[j].txs
        <5>1. ASSUME NEW j \in (n + 1)..Len(chain') PROVE TxOf[c] \notin chain'[j].txs
          <6>1. j # k /\ j \in 1..Len(chain') /\ k \in 1..Len(chain')
            BY <1>1, <4>2, <4>3, <5>1
          <6>2. QED
            BY <1>1, <4>3, <6>1, Zenon DEF ValidChain
        <5>2. QED
          BY <5>1, Zenon
      <4>5. QED
        BY <4>4, Zenon
    <3>3. QED
      BY <2>2, <3>1, <3>2, Zenon DEF RecordsInv
  <2>5. QED
    BY <1>1, <2>1, <2>3, <2>4, Zenon
<1>4. QED
  BY <1>2, <1>3, Zenon DEF Expected

(* Without rescans and rewinds, every step of the node keeps the records   *)
(* whole and the chain, or replaces it by a longer one.                    *)
LEMMA NodeRecords ==
  ASSUME IInv, RecordsInv, Instance, NodeNext, UNCHANGED <<coins, upd>>
  PROVE  /\ RecordsInv' /\ known \subseteq known' /\ chain' \in Tip
         /\ chain' = chain \/ Len(chain') > Len(chain)
         /\ MaxReorgs = 0 => InChain(chain, chain')
<1>1. /\ chain \in Tip /\ Len(chain) \in Nat /\ reorgs \in Nat /\ rewinds \in Nat /\ NodeTypeOK
      /\ chain' \in Tip /\ Len(chain') \in Nat
  <2>1. chain \in Tip /\ reorgs \in Nat /\ rewinds \in Nat /\ NodeTypeOK
    BY DEF IInv, TypeOK, NodeTypeOK
  <2>2. chain' \in Tip
    BY <2>1, NodeTypes, Zenon DEF NodeTypeOK
  <2>3. QED
    BY <2>1, <2>2, LenProperties, Zenon DEF Tip
<1>2. InChain(chain, chain)
  BY <1>1, InChainBlocks
<1>3. CASE \E t \in Txs : Broadcast(t)
  <2>1. PICK u \in Txs : Broadcast(u)
    BY <1>3
  <2>2. /\ u \notin ChainTxs(chain) /\ known' = known \cup Recorded({u})
        /\ UNCHANGED <<chain, scanning>>
    BY <2>1 DEF Broadcast
  <2>3. known' \subseteq known \cup {u}
    BY <2>2 DEF Recorded
  <2>4. ASSUME NEW t \in ChainTxs(chain) PROVE u \notin Parents(t)
    <3>1. PICK h \in 1..Len(chain) : t \in chain[h].txs
      BY Zenon DEF ChainTxs
    <3>2. Parents(t) \subseteq ChainTxs(SubSeq(chain, 1, h))
      BY <3>1 DEF RecordsInv, ValidChain
    <3>3. h \in 0..Len(chain) /\ 1..h \subseteq 1..Len(chain)
      BY <1>1
    <3>4. \A p \in Parents(t) : p \in ChainTxs(chain)
      BY <3>2, <3>3, <1>1, PrefixTxs DEF ChainTxs
    <3>5. QED
      BY <2>2, <3>4, Zenon
  <2>5. \A t \in ChainTxs(chain) : \A c \in Ins[t] : TxOf[c] \in known' => t \in known'
    BY <2>2, <2>3, <2>4, Zenon DEF RecordsInv, Parents
  <2>6. QED
    BY <1>1, <1>2, <2>2, <2>5, Zenon DEF RecordsInv
<1>4. CASE \E t \in Txs : Evict(t)
  <2>1. UNCHANGED <<chain, scanning, known>>
    BY <1>4, Zenon DEF Evict
  <2>2. QED
    BY <1>1, <1>2, <2>1 DEF RecordsInv
<1>5. CASE \/ \E S \in SUBSET Txs : Mine(S)
           \/ \E d \in 1..MaxHeight : Reorg(d)
  <2>1. ValidChain(chain)' /\ Len(chain') > Len(chain) /\ scanning' = scanning
    BY <1>1, <1>5, NewBlocks
  <2>2. PICK n \in 0..Len(chain), S \in SUBSET Txs :
          /\ \A h \in 1..n : chain'[h] = chain[h]
          /\ n < Len(chain) => reorgs < MaxReorgs
          /\ \A h \in (n + 1)..Len(chain') : chain'[h].txs \subseteq S
          /\ \A t \in S : \E h \in (n + 1)..Len(chain') : t \in chain'[h].txs
          /\ known' = known \cup Recorded(S)
    BY <1>1, <1>5, NewBlocks, Zenon
  <2>3. n <= Len(chain')
    BY <1>1, <2>1
  <2>4. /\ Expected(chain') \subseteq {c \in Coins : TxOf[c] \in known'}
        /\ \A t \in ChainTxs(chain') : \A c \in Ins[t] : TxOf[c] \in known' => t \in known'
    BY <1>1, <2>1, <2>2, <2>3, BlocksAreRecorded, Zenon
  <2>5. ASSUME MaxReorgs = 0 PROVE InChain(chain, chain')
    <3>1. n = Len(chain)
      BY <1>1, <2>2, <2>5
    <3>2. QED
      BY <1>1, <2>1, <2>2, <3>1, InChainBlocks
  <2>6. QED
    BY <1>1, <2>1, <2>2, <2>4, <2>5, Zenon DEF RecordsInv
<1>6. ~RescanFinished /\ \A d \in 1..MaxHeight : ~Rewind(d)
  BY <1>1 DEF RecordsInv, RescanFinished, Rewind, Instance
<1>7. QED
  BY <1>3, <1>4, <1>5, <1>6, Zenon DEF NodeNext

(***************************************************************************)
(* The steps of a poll before its writes                                   *)
(***************************************************************************)

(* The genesis tip is valid.                                               *)
LEMMA GenesisIsValid ==
  /\ Genesis \in Tip /\ ValidChain(Genesis)
  /\ \A ch \in Tip : InChain(Genesis, ch)
  /\ Exact(NoCoins, Genesis) /\ \A ch \in Tip : Sound(NoCoins, ch)
<1>1. Genesis \in Tip /\ Len(Genesis) = 0 /\ 1..Len(Genesis) = {}
  BY NoUpdateType DEF Genesis
<1>2. ChainTxs(Genesis) = {}
  BY <1>1, Zenon DEF ChainTxs
<1>3. ValidChain(Genesis)
  BY <1>1, <1>2, Zenon DEF ValidChain
<1>4. ASSUME NEW ch \in Tip PROVE InChain(Genesis, ch)
  <2>1. Len(Genesis) <= Len(ch) /\ \A h \in 1..Len(Genesis) : ch[h] = Genesis[h]
    BY <1>1, LenProperties DEF Tip
  <2>2. QED
    BY <1>1, <2>1, InChainBlocks, Zenon
<1>5. DOMAIN NoCoins = {}
  BY Zenon DEF NoCoins
<1>6. Exact(NoCoins, Genesis) /\ \A ch \in Tip : Sound(NoCoins, ch)
  BY <1>2, <1>5, Zenon DEF Exact, Sound, Full, Expected
<1>7. QED
  BY <1>1, <1>3, <1>4, <1>6, Zenon

(* The poll ends: what is stored is what the invariant says of the tables  *)
(* between polls.                                                          *)
LEMMA LeavingTip ==
  ASSUME IInv, TipInv, LeavePoll, UNCHANGED <<chain, scanning, known, rescan_timestamp, timestamp>>,
         \A p \in Rpcs : rpc'[p] = IdleRpc,
         DOMAIN coins' \subseteq DOMAIN coins, ValidChain(tip)',
         ~polled' => ReplayPending',
         MaxReorgs = 0 => InChain(tip, chain)' /\ Sound(coins, chain)',
         polled' \/ MaxCrashes = 0 => Exact(coins, tip)'
  PROVE  TipInv'
<1>1. pc' = "idle" /\ completed' = FALSE /\ target' = Genesis /\ upd'.received = {}
  BY Zenon DEF LeavePoll, NoUpdate
<1>2. RecordsInv'
  BY <1>1, Zenon DEF TipInv, RecordsInv
<1>3. NoRescan'
  BY <1>1, Zenon DEF TipInv, NoRescan
<1>4. ChainInv'
  BY <1>1, GenesisIsValid, Zenon DEF TipInv, ChainInv, Asking, Writes
<1>5. TableInv'
  BY <1>1 DEF TipInv, TableInv, Writes
<1>6. UpdateInv' /\ QuietInv'
  BY <1>1, Zenon DEF UpdateInv, ListedInv, SpentInv, QuietInv, Unstored, Unconfirmed, Confirming, Unspent
<1>7. QED
  BY <1>2, <1>3, <1>4, <1>5, <1>6, Zenon DEF TipInv

(* A poll that ends without a write: a failed read, a refusal, another     *)
(* chain at the recheck.                                                   *)
LEMMA QuietEnd ==
  ASSUME IInv, TipInv, pc \in Reads, LeavePoll,
         UNCHANGED <<nodeVars, dbVars, requested, acknowledged, rpc, polled>>
  PROVE  TipInv'
<1>1. UNCHANGED <<chain, scanning, known, rescan_timestamp, timestamp, tip, coins>>
  BY DEF nodeVars, dbVars
<1>2. pc \notin Writes \cup {"panicked"}
  BY DEF Reads, Writes
<1>3. /\ \A p \in Rpcs : rpc'[p] = IdleRpc
      /\ DOMAIN coins' \subseteq DOMAIN coins /\ ValidChain(tip)'
      /\ ~polled' => ReplayPending'
      /\ MaxReorgs = 0 => InChain(tip, chain)' /\ Sound(coins, chain)'
      /\ polled' \/ MaxCrashes = 0 => Exact(coins, tip)'
  BY <1>1, <1>2 DEF TipInv, NoRescan, ChainInv, TableInv, ReplayPending
<1>4. QED
  BY <1>1, <1>3, LeavingTip, Zenon

(* A failed read, and a stop, after which the replay is pending again.     *)
LEMMA FailuresTip ==
  ASSUME IInv, TipInv, Instance, ReadFails \/ Restart
  PROVE  TipInv'
<1>1. CASE ReadFails
  <2>1. pc \in Reads /\ LeavePoll /\ UNCHANGED <<nodeVars, dbVars, requested, acknowledged, rpc, polled>>
    BY <1>1, Zenon DEF ReadFails, sharedVars, modelVars
  <2>2. QED
    BY <2>1, QuietEnd, Zenon
<1>2. CASE Restart
  <2>1. /\ LeavePoll /\ UNCHANGED <<chain, scanning, known, rescan_timestamp, timestamp, tip, coins>>
        /\ requested' = 1 /\ acknowledged' = 0 /\ polled' = FALSE
        /\ rpc' = [r \in Rpcs |-> IdleRpc] /\ crashes < MaxCrashes
    BY <1>2, Zenon DEF Restart, nodeVars, dbVars
  <2>2. MaxCrashes # 0 /\ ReplayPending'
    BY <2>1 DEF IInv, TypeOK, ReplayPending
  <2>3. /\ \A p \in Rpcs : rpc'[p] = IdleRpc
        /\ DOMAIN coins' \subseteq DOMAIN coins /\ ValidChain(tip)'
        /\ MaxReorgs = 0 => InChain(tip, chain)' /\ Sound(coins, chain)'
    BY <2>1, Zenon DEF TipInv, ChainInv, TableInv
  <2>4. QED
    BY <2>1, <2>2, <2>3, LeavingTip, Zenon
<1>3. QED
  BY <1>1, <1>2

(* From the beginning of a poll to the answer of new_tip.                  *)
LEMMA BeginTip ==
  ASSUME IInv, TipInv, BeginPoll \/ ReadMarker \/ RollbackToRescan \/ TipProgress
  PROVE  TipInv'
<1>1. ~RollbackToRescan /\ rescan_timestamp = Null
  BY DEF RollbackToRescan, TipInv, NoRescan
<1>2. /\ UNCHANGED <<chain, scanning, known, tip, coins, rescan_timestamp, timestamp, completed, upd,
                     requested, acknowledged, rpc, polled>>
      /\ pc \in {"idle", "marker", "new_tip"} /\ pc' \in {"marker", "new_tip", "received"}
      /\ \/ target' = target /\ pc' # "received"
         \/ target' = chain /\ InChain(tip, chain)
  BY <1>1, Zenon DEF BeginPoll, ReadMarker, TipProgress, nodeVars, dbVars, sharedVars, modelVars
<1>3. RecordsInv' /\ NoRescan'
  BY <1>2, Zenon DEF TipInv, RecordsInv, NoRescan
<1>4. ChainInv'
  BY <1>2, Zenon DEF TipInv, ChainInv, RecordsInv, Asking, Writes
<1>5. TableInv'
  BY <1>2, Zenon DEF TipInv, TableInv, ReplayPending, Writes
<1>6. UpdateInv' /\ QuietInv'
  BY <1>2, Zenon DEF UpdateInv, ListedInv, SpentInv, QuietInv, Unstored, Unconfirmed, Confirming, Unspent
<1>7. QED
  BY <1>3, <1>4, <1>5, <1>6, Zenon DEF TipInv

(* The rollback to the fork point, and the refusal of a deep one.          *)
LEMMA ReorgTip ==
  ASSUME IInv, TipInv, Instance, TipReorged \/ TipRefused
  PROVE  TipInv'
<1>1. CASE TipRefused
  <2>1. pc \in Reads /\ LeavePoll /\ UNCHANGED <<nodeVars, dbVars, requested, acknowledged, rpc, polled>>
    BY <1>1, Zenon DEF TipRefused, Reads, modelVars
  <2>2. QED
    BY <2>1, QuietEnd
<1>2. CASE TipReorged
  <2> DEFINE f == ForkHeight(tip, chain)
  <2>1. /\ LeavePoll /\ pc = "new_tip" /\ ~InChain(tip, chain)
        /\ coins' = RollbackCoins(coins, Height(CommonAncestor)) /\ tip' = SubSeq(chain, 1, f)
        /\ UNCHANGED <<chain, scanning, known, rescan_timestamp, timestamp, requested, acknowledged, rpc, polled>>
    BY <1>2, Zenon DEF TipReorged, RollbackTip, CommonAncestor, nodeVars, sharedVars, modelVars
  <2>2. tip \in Tip /\ chain \in Tip /\ IsCoinTable(coins)
    BY Keep, Zenon
  <2>3. f \in 0..Len(tip) /\ f \in 0..Len(chain) /\ SubSeq(tip, 1, f) = SubSeq(chain, 1, f)
    BY <2>2, ForkIsShared, Zenon
  <2> HIDE DEF f
  <2>4. Height(CommonAncestor) = f
    BY <2>2, <2>3, PrefixBlocks DEF Height, CommonAncestor, f
  <2>5. MaxReorgs # 0 /\ MaxCrashes = 0
    BY <2>1, Zenon DEF TipInv, ChainInv, Instance
  <2>6. Exact(coins, tip) /\ ValidChain(tip)
    BY <2>1, <2>5, Zenon DEF TipInv, TableInv, ChainInv, Writes
  <2>7. ValidChain(tip)' /\ Exact(coins, tip)'
    BY <2>1, <2>2, <2>3, <2>4, <2>6, ValidPrefix, ExactRollsBack, Zenon
  <2>8. DOMAIN coins' = DOMAIN coins
    BY <2>1, Zenon DEF RollbackCoins
  <2>9. (\A p \in Rpcs : rpc'[p] = IdleRpc) /\ (~polled' => ReplayPending')
    BY <2>1, Zenon DEF TipInv, NoRescan, TableInv, ReplayPending
  <2>10. QED
    BY <2>1, <2>5, <2>7, <2>8, <2>9, LeavingTip, Zenon
<1>3. QED
  BY <1>1, <1>2

(***************************************************************************)
(* The questions to the node                                               *)
(***************************************************************************)

(* A read changes the update only.                                         *)
LEMMA ReadingTip ==
  ASSUME IInv, TipInv, pc \in Asking, pc' \in Asking, \A c \in upd'.received : TxOf[c] \in known,
         UNCHANGED <<nodeVars, dbVars, ticket, completed, target, sharedVars, rpc, modelVars>>,
         chain = target => ListedInv' /\ SpentInv', QuietInv'
  PROVE  TipInv'
<1>1. UNCHANGED <<chain, scanning, known, tip, coins, rescan_timestamp, timestamp, completed, target,
                  requested, acknowledged, rpc, polled>>
  BY Zenon DEF nodeVars, dbVars, sharedVars, modelVars
<1>2. RecordsInv' /\ NoRescan'
  BY <1>1, Zenon DEF TipInv, RecordsInv, NoRescan, Asking
<1>3. ChainInv'
  BY <1>1, Zenon DEF TipInv, ChainInv, Asking, Writes
<1>4. TableInv'
  BY <1>1, Zenon DEF TipInv, TableInv, ReplayPending, Asking, Writes
<1>5. UpdateInv'
  BY <1>1, Zenon DEF UpdateInv
<1>6. QED
  BY <1>2, <1>3, <1>4, <1>5, Zenon DEF TipInv

(* try_received_coins lists what the table misses: above the stored tip    *)
(* when the table is exact, everything when a replay is pending.           *)
LEMMA ReceivedIsListed ==
  ASSUME IInv, TipInv, pc = "received", chain = target
  PROVE  Expected(target) \subseteq DOMAIN coins \cup NewlyReceived
<1>1. /\ chain \in Tip /\ tip \in Tip /\ Genesis \in Tip /\ ValidChain(chain)
      /\ InChain(tip, chain) /\ Len(tip) \in Nat /\ Len(tip) \in 0..Len(chain)
  BY Keep, NoUpdateType DEF TipInv, ChainInv, Asking, InChain
<1>2. SUFFICES ASSUME NEW c \in Expected(chain), c \notin DOMAIN coins PROVE c \in NewlyReceived
  BY Zenon
<1>3. c \in Coins /\ TxOf[c] \in known /\ TxOf[c] \in ChainTxs(chain)
  BY <1>2, Zenon DEF TipInv, RecordsInv, Expected
<1>4. HeightOf(TxOf[c], chain) \in 1..Len(chain) /\ Dated(c, chain)
  BY <1>1, <1>2, <1>3, HeightIsUnique, Zenon DEF Expected
<1>5. CASE ReplayPending
  <2>1. ForkHeight(Genesis, chain) = 0
    BY <1>1, ForkHeightBounds DEF Genesis
  <2>2. c \in ReceivedSince(Genesis)
    BY <1>3, <1>4, <2>1 DEF ReceivedSince
  <2>3. QED
    BY <1>2, <1>5, <2>2, Zenon DEF NewlyReceived
<1>6. CASE ~ReplayPending
  <2>1. Exact(coins, tip)
    BY <1>6, Zenon DEF TipInv, TableInv, Writes
  <2>2. tip = SubSeq(chain, 1, Len(tip))
    BY <1>1, Zenon DEF InChain
  <2>3. /\ TxOf[c] \in ChainTxs(tip) <=> HeightOf(TxOf[c], chain) <= Len(tip)
        /\ TxOf[c] \in ChainTxs(tip) => HeightOf(TxOf[c], tip) = HeightOf(TxOf[c], chain)
    <3> DEFINE p == SubSeq(chain, 1, Len(tip))
    <3>1. /\ \A t \in ChainTxs(chain) : t \in ChainTxs(p) <=> HeightOf(t, chain) <= Len(tip)
          /\ \A t \in ChainTxs(p) : HeightOf(t, p) = HeightOf(t, chain)
      BY <1>1, ValidPrefix, Zenon
    <3>2. p = tip
      BY <2>2, Zenon
    <3> HIDE DEF p
    <3>3. QED
      BY <1>3, <3>1, <3>2, Zenon
  <2>4. TxOf[c] \notin ChainTxs(tip)
    BY <1>2, <1>3, <1>4, <2>1, <2>3, Zenon DEF Exact, Full, Expected, Dated
  <2>5. HeightOf(TxOf[c], chain) > ForkHeight(tip, chain)
    <3>1. ForkHeight(tip, chain) \in 0..Len(tip)
      BY <1>1, ForkHeightBounds, Zenon
    <3>2. ~(HeightOf(TxOf[c], chain) <= Len(tip))
      BY <2>3, <2>4, Zenon
    <3> QED BY <1>1, <1>4, <3>1, <3>2
  <2>6. c \in ReceivedSince(tip)
    BY <1>3, <2>5, Zenon DEF ReceivedSince
  <2>7. QED
    BY <1>2, <1>6, <2>6, Zenon DEF NewlyReceived
<1>7. QED
  BY <1>5, <1>6, Zenon

(* The received coins.                                                     *)
LEMMA ReceivedTip ==
  ASSUME IInv, TipInv, ReadReceived
  PROVE  TipInv'
<1>1. /\ pc = "received" /\ pc' = "confirmed" /\ upd'.received = NewlyReceived
      /\ UNCHANGED <<nodeVars, dbVars, ticket, completed, target, sharedVars, rpc, modelVars>>
      /\ UNCHANGED <<coins, target>>
  BY Zenon DEF ReadReceived, IInv, TypeOK, IsUpdate, dbVars
<1>2. \A c \in upd'.received : TxOf[c] \in known
  BY <1>1, Zenon DEF NewlyReceived, ReceivedSince
<1>3. ASSUME chain = target PROVE ListedInv' /\ SpentInv'
  <2>1. Expected(target) \subseteq DOMAIN coins \cup NewlyReceived
    BY <1>1, <1>3, ReceivedIsListed, Zenon
  <2>2. QED
    BY <1>1, <2>1, Zenon DEF ListedInv, SpentInv, Rows, Unstored, Unconfirmed, Confirming, Unspent
<1>4. QuietInv'
  BY <1>1, Zenon DEF QuietInv, Unspent
<1>5. QED
  BY <1>1, <1>2, <1>3, <1>4, ReadingTip, Zenon DEF Asking

(* The confirmed and the expired ones.                                     *)
LEMMA ConfirmedTip ==
  ASSUME IInv, TipInv, ReadConfirmed
  PROVE  TipInv'
<1> DEFINE there == {d \in ToBeConfirmed : Confirmed(TxOf[d])}
<1>1. /\ pc = "confirmed" /\ pc' = "spending" /\ upd'.received = upd.received
      /\ upd'.confirmed = [c \in there |-> HeightOf(TxOf[c], chain)]
      /\ upd'.expired = {c \in ToBeConfirmed : ~Confirmed(TxOf[c]) /\ TxOf[c] \notin mempool}
      /\ UNCHANGED <<nodeVars, dbVars, ticket, completed, target, sharedVars, rpc, modelVars>>
      /\ UNCHANGED <<coins, target>>
  BY Zenon DEF ReadConfirmed, IInv, TypeOK, IsUpdate, dbVars
<1>2. \A c \in DOMAIN coins \cup upd.received : TxOf[c] \in known
  BY Zenon DEF TipInv, RecordsInv
<1>3. \A c \in DOMAIN coins \cup upd.received : HasBlock(c) \/ c \in ToBeConfirmed
  BY <1>2, Zenon DEF HasBlock, ToBeConfirmed, Seen, NewUnspentCoins, NewRow
<1>4. ASSUME chain = target PROVE ListedInv' /\ SpentInv'
  <2>1. Expected(target) \subseteq DOMAIN coins \cup upd.received
    BY <1>1, <1>4, Zenon DEF TipInv, UpdateInv, ListedInv, Rows, Unstored
  <2>2. Rows' = DOMAIN coins \cup upd.received
    BY <1>1, Zenon DEF Rows, Unstored
  <2>3. \A c \in DOMAIN coins \cup upd.received : TxOf[c] \in ChainTxs(target) => HasBlock(c) \/ c \in there
    BY <1>3, <1>4, Zenon DEF Confirmed
  <2>4. \A c \in DOMAIN upd'.confirmed :
          TxOf[c] \in ChainTxs(target) /\ upd'.confirmed[c] = HeightOf(TxOf[c], target)
    BY <1>1, <1>4, Zenon DEF Confirmed
  <2>5. \A c \in upd'.expired : TxOf[c] \notin ChainTxs(target)
    BY <1>1, <1>4, Zenon DEF Confirmed
  <2>6. DOMAIN upd'.confirmed = there
    BY <1>1, Zenon
  <2> HIDE DEF there
  <2>7. QED
    BY <1>1, <2>1, <2>2, <2>3, <2>4, <2>5, <2>6, Zenon
       DEF ListedInv, SpentInv, HasBlock, Unstored, Unconfirmed, Confirming, Unspent
<1>5. QuietInv'
  BY <1>1, Zenon DEF QuietInv, Unspent
<1>6. QED
  BY <1>1, <1>2, <1>4, <1>5, ReadingTip, Zenon DEF Asking

(* The spenders: every coin whose spend the chain has is asked about.      *)
LEMMA SpendingTip ==
  ASSUME IInv, TipInv, ReadSpending
  PROVE  TipInv'
<1> DEFINE toBeSpent == {c \in DOMAIN Seen : Seen[c].spend_block_height = Null /\ c \notin upd.expired}
           spentOnes == {c \in toBeSpent : TxOf[c] \in known /\ IsSpent(c) /\ Spenders(c) # {}}
<1>1. PICK spender \in [spentOnes -> Txs] :
        (\A c \in spentOnes : spender[c] \in Spenders(c)) /\ upd' = [upd EXCEPT !.spending = spender]
  BY Zenon DEF ReadSpending
<1>2. /\ pc = "spending" /\ pc' = "spent"
      /\ UNCHANGED <<nodeVars, dbVars, ticket, completed, target, sharedVars, rpc, modelVars>>
      /\ UNCHANGED <<coins, target, known>>
  BY DEF ReadSpending, dbVars, nodeVars
<1>3. /\ upd'.received = upd.received /\ upd'.expired = upd.expired /\ upd'.confirmed = upd.confirmed
      /\ upd'.spending = spender /\ DOMAIN upd'.spending = spentOnes
  <2>1. IsUpdate(upd)
    BY Zenon DEF IInv, TypeOK
  <2>2. QED
    BY <1>1, <2>1, Zenon DEF IsUpdate
<1>4. \A c \in DOMAIN coins \cup upd.received : TxOf[c] \in known
  BY Zenon DEF TipInv, RecordsInv
<1>5. /\ \A c \in DOMAIN coins \cup upd.received : HasSpend(c) \/ c \in upd.expired \/ c \in toBeSpent
      /\ \A c \in toBeSpent : ~HasSpend(c)
  <2>1. upd.received \cap DOMAIN coins = {}
    BY <1>2, Zenon DEF IInv, Staged
  <2>2. QED
    BY <2>1, Zenon DEF HasSpend, Seen, NewUnspentCoins, NewRow
<1>6. QuietInv'
  <2>1. \A c \in spentOnes : ~HasSpend(c) /\ c \in Ins[spender[c]] /\ spender[c] \in known
    BY <1>1, <1>5, Zenon DEF Spenders
  <2> HIDE DEF spentOnes, toBeSpent
  <2>2. QED
    BY <1>2, <1>3, <2>1, Zenon DEF QuietInv, Unspent, HasSpend
<1>7. ASSUME chain = target PROVE ListedInv' /\ SpentInv'
  <2>1. Rows' = DOMAIN coins \cup upd.received /\ Rows = DOMAIN coins \cup upd.received
    BY <1>2, <1>3, Zenon DEF Rows, Unstored
  <2>2. ASSUME NEW c \in Rows, c \in SpentIn(target), ~HasSpend(c) PROVE c \in spentOnes
    <3>1. PICK t \in ChainTxs(chain) : c \in Ins[t]
      BY <1>7, <2>2, Zenon DEF SpentIn
    <3>2. TxOf[c] \in ChainTxs(target)
      BY <2>2, SpentIsConfirmed, Keep, Zenon DEF TipInv, ChainInv
    <3>3. c \notin upd.expired
      BY <1>2, <1>7, <3>2, Zenon DEF TipInv, UpdateInv, ListedInv, Unconfirmed
    <3>4. c \in toBeSpent
      BY <1>5, <2>1, <2>2, <3>3, Zenon
    <3>5. TxOf[c] \in known /\ t \in known
      BY <1>4, <2>1, <3>1, Zenon DEF TipInv, RecordsInv
    <3>6. IsSpent(c) /\ t \in Spenders(c)
      BY <3>1, <3>5, Zenon DEF IsSpent, Spenders, Confirmed
    <3> HIDE DEF toBeSpent
    <3>7. QED
      BY <3>4, <3>5, <3>6, Zenon
  <2> HIDE DEF spentOnes, toBeSpent
  <2>3. ListedInv'
    BY <1>2, <1>3, <1>7, <2>1, Zenon
       DEF TipInv, UpdateInv, ListedInv, HasBlock, Unstored, Unconfirmed, Confirming
  <2>4. SpentInv'
    BY <1>2, <1>3, <2>1, <2>2, Zenon DEF SpentInv, HasSpend, Unspent
  <2>5. QED
    BY <2>3, <2>4, Zenon
<1>8. \A c \in upd'.received : TxOf[c] \in known
  BY <1>3, <1>4, Zenon
<1>9. QED
  BY <1>2, <1>6, <1>7, <1>8, ReadingTip, Zenon DEF Asking

(* The confirmed spends: a spend that is asked about has the chain's       *)
(* spender of its coin among its confirmed conflicts.                      *)
LEMMA SpentTip ==
  ASSUME IInv, TipInv, ReadSpent
  PROVE  TipInv'
<1> DEFINE pairs == {<<c, coins[c].spend_txid>> : c \in SpendingCoins(coins)}
                      \cup {<<c, upd.spending[c]>> : c \in DOMAIN upd.spending}
           asked == {p \in pairs : p[2] \in known}
           spent == {p[1] : p \in {q \in asked : ConfirmedSpender(q[1], q[2]) # {}}}
           SpenderOf(c) == CHOOSE u \in Txs : \E p \in asked : p[1] = c /\ u \in ConfirmedSpender(c, p[2])
           expired == {p[1] : p \in {q \in asked : ConfirmedSpender(q[1], q[2]) = {} /\ q[2] \notin mempool}}
<1>1. upd' = [upd EXCEPT
        !.spent = [c \in spent |-> [txid |-> SpenderOf(c), height |-> HeightOf(SpenderOf(c), chain)]],
        !.expired_spending = expired,
        !.txs = CollectTxs]
  BY DEF ReadSpent
<1>2. /\ pc = "spent" /\ pc' = "recheck"
      /\ UNCHANGED <<nodeVars, dbVars, ticket, completed, target, sharedVars, rpc, modelVars>>
      /\ UNCHANGED <<coins, target, known>>
  BY DEF ReadSpent, dbVars, nodeVars
<1>3. /\ upd'.received = upd.received /\ upd'.expired = upd.expired /\ upd'.confirmed = upd.confirmed
      /\ upd'.spending = upd.spending /\ upd'.expired_spending = expired
      /\ upd'.spent = [c \in spent |-> [txid |-> SpenderOf(c), height |-> HeightOf(SpenderOf(c), chain)]]
  <2>1. IsUpdate(upd)
    BY Zenon DEF IInv, TypeOK
  <2> HIDE DEF spent, SpenderOf, expired
  <2>2. QED
    BY <1>1, <2>1, Zenon DEF IsUpdate
<1>4. \A c \in DOMAIN upd.spending : ~HasSpend(c) /\ c \in Ins[upd.spending[c]] /\ upd.spending[c] \in known
  BY <1>2, Zenon DEF TipInv, QuietInv
<1>5. \A q \in pairs : ~HasSpend(q[1])
  BY <1>4 DEF SpendingCoins, HasSpend
<1>6. QuietInv'
  <2>1. \A c \in expired : ~HasSpend(c)
    BY <1>5
  <2> HIDE DEF expired
  <2>2. QED
    BY <1>2, <1>3, <1>4, <2>1, Zenon DEF QuietInv, Unspent, HasSpend
<1>7. ASSUME chain = target PROVE ListedInv' /\ SpentInv'
  <2>1. Rows' = DOMAIN coins \cup upd.received /\ Rows = DOMAIN coins \cup upd.received
    BY <1>2, <1>3, Zenon DEF Rows, Unstored
  <2>2. ASSUME NEW c \in Rows, c \in SpentIn(target), ~HasSpend(c) PROVE c \in spent
    <3>1. PICK t \in ChainTxs(chain) : c \in Ins[t]
      BY <1>7, <2>2, Zenon DEF SpentIn
    <3>2. c \in DOMAIN upd.spending
      BY <1>2, <1>7, <2>2, Zenon DEF TipInv, UpdateInv, SpentInv
    <3>3. TxOf[c] \in known /\ t \in known
      BY <2>1, <2>2, <3>1, Zenon DEF TipInv, RecordsInv
    <3>4. t \in ConfirmedSpender(c, upd.spending[c])
      BY <1>4, <3>1, <3>2, <3>3, Zenon DEF ConfirmedSpender, Confirmed, Conflicts
    <3>5. <<c, upd.spending[c]>> \in asked
      BY <1>4, <3>2, Zenon
    <3> HIDE DEF asked
    <3>6. QED
      BY <3>4, <3>5
  <2>3. ASSUME NEW c \in spent
        PROVE  SpenderOf(c) \in ChainTxs(target) /\ c \in Ins[SpenderOf(c)]
    <3>1. PICK p \in asked : p[1] = c /\ ConfirmedSpender(c, p[2]) # {}
      <4> HIDE DEF asked
      <4>1. QED
        BY Zenon
    <3>2. PICK u \in ConfirmedSpender(c, p[2]) : TRUE
      BY <3>1, Zenon
    <3>3. u \in Txs
      BY Keep, Zenon DEF ConfirmedSpender
    <3>4. \E v \in Txs : \E q \in asked : q[1] = c /\ v \in ConfirmedSpender(c, q[2])
      <4> HIDE DEF asked
      <4>1. QED
        BY <3>1, <3>2, <3>3, Zenon
    <3>5. \E q \in asked : SpenderOf(c) \in ConfirmedSpender(c, q[2])
      <4> HIDE DEF asked
      <4>1. QED
        BY <3>4, Zenon
    <3> HIDE DEF SpenderOf, asked
    <3>6. QED
      BY <1>7, <3>5, Zenon DEF ConfirmedSpender, Confirmed
  <2> HIDE DEF spent, SpenderOf, expired, asked, pairs
  <2>4. ListedInv'
    BY <1>2, <1>3, <1>7, <2>1, Zenon
       DEF TipInv, UpdateInv, ListedInv, HasBlock, Unstored, Unconfirmed, Confirming
  <2>5. SpentInv'
    <3>1. DOMAIN upd'.spent = spent
      BY <1>3, Zenon
    <3>2. \A c \in spent : upd'.spent[c] = [txid |-> SpenderOf(c), height |-> HeightOf(SpenderOf(c), target)]
      BY <1>3, <1>7, Zenon
    <3>3. QED
      BY <1>2, <2>1, <2>2, <2>3, <3>1, <3>2, Zenon DEF SpentInv, HasSpend, Unspent
  <2>6. QED
    BY <2>4, <2>5, Zenon
<1>8. \A c \in upd'.received : TxOf[c] \in known
  BY <1>3, Zenon DEF TipInv, RecordsInv
<1>9. QED
  BY <1>2, <1>6, <1>7, <1>8, ReadingTip, Zenon DEF Asking

(* The second read of the tip: the poll goes on to its writes only when    *)
(* the chain is the one that it asked about.                               *)
LEMMA RecheckTip ==
  ASSUME IInv, TipInv, Instance, Recheck
  PROVE  TipInv'
<1>1. pc = "recheck" /\ UNCHANGED <<nodeVars, dbVars, sharedVars, rpc, modelVars>>
  BY DEF Recheck
<1>2. CASE LeavePoll
  <2>1. pc \in Reads /\ UNCHANGED <<nodeVars, dbVars, requested, acknowledged, rpc, polled>>
    BY <1>1 DEF Reads, sharedVars, modelVars
  <2>2. QED
    BY <1>2, <2>1, QuietEnd, Zenon
<1>3. CASE chain = target /\ pc' = "new_txs" /\ UNCHANGED <<ticket, completed, target, upd>>
  <2>1. UNCHANGED <<chain, scanning, known, tip, coins, rescan_timestamp, timestamp, completed, target,
                    upd, requested, acknowledged, rpc, polled>>
    BY <1>1, <1>3, Zenon DEF nodeVars, dbVars, sharedVars, modelVars
  <2>2. RecordsInv' /\ NoRescan'
    BY <1>3, <2>1, Zenon DEF TipInv, RecordsInv, NoRescan
  <2>3. ChainInv'
    BY <1>1, <1>3, <2>1, Zenon DEF TipInv, ChainInv, Asking, Writes
  <2>4. Sound(coins, chain)
    <3>1. CASE MaxReorgs = 0
      BY <3>1, Zenon DEF TipInv, TableInv
    <3>2. CASE MaxCrashes = 0
      <4>1. Sound(coins, tip)
        BY <1>1, <3>2, Zenon DEF TipInv, TableInv, Exact, Writes
      <4>2. InChain(tip, chain) /\ ValidChain(chain)
        BY <1>1, <1>3, Zenon DEF TipInv, ChainInv, Asking
      <4>3. QED
        BY <4>1, <4>2, Keep, SoundGrows, Zenon
    <3>3. QED
      BY <3>1, <3>2, Zenon DEF Instance
  <2>5. TableInv'
    BY <1>1, <1>3, <2>1, <2>4, Zenon DEF TipInv, TableInv, ReplayPending, Writes
  <2>6. UpdateInv'
    BY <1>1, <1>3, <2>1, Zenon DEF TipInv, UpdateInv, ListedInv, SpentInv, HasBlock, HasSpend, Rows,
                            Unstored, Unconfirmed, Confirming, Unspent
  <2>7. QuietInv'
    BY <1>1, <1>3, <2>1, Zenon DEF TipInv, QuietInv, HasSpend, Unspent
  <2>8. QED
    BY <2>2, <2>3, <2>5, <2>6, <2>7, Zenon DEF TipInv
<1>4. QED
  BY <1>2, <1>3, Zenon DEF Recheck, TipUnchanged

(***************************************************************************)
(* The writes                                                              *)
(***************************************************************************)

(* A write before the one of the tip changes the coins only.               *)
Stored == {"new_unspent", "remove", "confirm", "unspend", "spend", "confirm_spend", "from_self", "update_tip"}

LEMMA WritingTip ==
  ASSUME IInv, TipInv, pc \in Writes, pc' \in Stored,
         UNCHANGED <<nodeVars, tip, rescan_timestamp, timestamp, completed, target, upd, requested,
                     acknowledged, rpc, modelVars>>,
         DOMAIN coins' \subseteq DOMAIN coins \cup upd.received, Sound(coins', chain),
         ListedInv', SpentInv', QuietInv'
  PROVE  TipInv'
<1>1. UNCHANGED <<chain, scanning, known, polled>>
  BY Zenon DEF nodeVars, modelVars
<1>2. RecordsInv' /\ NoRescan'
  BY <1>1, Zenon DEF TipInv, RecordsInv, NoRescan, Stored
<1>3. ChainInv'
  BY <1>1, Zenon DEF TipInv, ChainInv, Asking, Stored, Writes
<1>4. TableInv'
  BY <1>1, Zenon DEF TipInv, TableInv, ReplayPending, Stored, Writes
<1>5. QED
  BY <1>2, <1>3, <1>4, Zenon DEF TipInv, UpdateInv

(* What the invariant says of a write.                                     *)
LEMMA WriteBegins ==
  ASSUME IInv, TipInv, pc \in Writes
  PROVE  ListedInv /\ SpentInv /\ QuietInv /\ chain = target /\ Sound(coins, chain) /\ IsCoinTable(coins)
BY Keep, Zenon DEF TipInv, UpdateInv, ChainInv, TableInv

(* When the update is written the table is exact for the target.           *)
LEMMA WrittenIsExact ==
  ASSUME IInv, TipInv, pc \in {"from_self", "update_tip"}
  PROVE  chain = target /\ Exact(coins, target)
<1>1. ListedInv /\ SpentInv /\ chain = target /\ Sound(coins, chain)
  BY WriteBegins, Zenon DEF Writes
<1>2. Rows = DOMAIN coins
  BY Zenon DEF Rows, Unstored
<1>3. Expected(target) \subseteq DOMAIN coins
  BY <1>1, <1>2, Zenon DEF ListedInv, Confirming
<1>4. \A c \in DOMAIN coins : TxOf[c] \in ChainTxs(target) => coins[c].blockheight # Null
  BY <1>1, <1>2, Zenon DEF ListedInv, Confirming, HasBlock
<1>5. \A c \in DOMAIN coins : c \in SpentIn(target) => coins[c].spend_block_height # Null
  BY <1>1, <1>2, Zenon DEF SpentInv, HasSpend
<1>6. QED
  BY <1>1, <1>3, <1>4, <1>5, Zenon DEF Exact, Full

(* new_txs leaves the coins alone.                                         *)
LEMMA NewTxsTip ==
  ASSUME IInv, TipInv, NewTxs
  PROVE  TipInv'
<1>1. /\ pc = "new_txs" /\ pc' = "new_unspent"
      /\ UNCHANGED <<nodeVars, tip, coins, rescan_timestamp, timestamp, completed, target, upd, requested,
                     acknowledged, rpc, modelVars>>
  BY Zenon DEF NewTxs
<1>2. ListedInv /\ SpentInv /\ QuietInv /\ Sound(coins, chain)
  BY <1>1, WriteBegins, Zenon DEF Writes
<1>3. ListedInv' /\ SpentInv'
  BY <1>1, <1>2, Zenon DEF ListedInv, SpentInv, HasBlock, HasSpend, Rows, Unstored, Unconfirmed, Confirming, Unspent
<1>4. QuietInv'
  BY <1>1, <1>2, Zenon DEF QuietInv, HasSpend, Unspent, nodeVars
<1>5. QED
  BY <1>1, <1>2, <1>3, <1>4, WritingTip, Zenon DEF Stored, Writes

(* A write of the coins, and the tables before and after it.               *)
LEMMA CoinsTip ==
  ASSUME IInv, TipInv, NEW at \in Stored \ {"update_tip"}, NEW table, NEW next \in Stored,
         WriteCoins(at, table, next), DOMAIN table \subseteq DOMAIN coins \cup upd.received,
         Sound(table, chain), ListedInv', SpentInv', QuietInv'
  PROVE  TipInv'
<1>1. /\ pc = at /\ pc' = next /\ coins' = table
      /\ UNCHANGED <<nodeVars, tip, rescan_timestamp, timestamp, completed, target, upd, requested,
                     acknowledged, rpc, modelVars>>
  BY Zenon DEF WriteCoins, sharedVars
<1>2. pc \in Writes
  BY <1>1, Zenon DEF Stored, Writes
<1>3. QED
  BY <1>1, <1>2, WritingTip, Zenon

(* What a write of the coins leaves to the next one.                       *)
LEMMA CoinsWritten ==
  ASSUME IInv, TipInv, NEW at \in Stored \ {"update_tip"}, NEW table, NEW next, WriteCoins(at, table, next)
  PROVE  /\ pc = at /\ pc' = next /\ coins' = table /\ UNCHANGED <<upd, target, known>>
         /\ ListedInv /\ SpentInv /\ QuietInv /\ chain = target /\ Sound(coins, chain)
         /\ IsCoinTable(coins) /\ IsUpdate(upd)
<1>1. pc = at /\ pc' = next /\ coins' = table /\ UNCHANGED <<upd, target, known>>
  BY DEF WriteCoins, nodeVars
<1>2. pc \in Writes
  BY <1>1, Zenon DEF Stored, Writes
<1>3. QED
  BY <1>1, <1>2, WriteBegins, Keep, Zenon

(* A write that keeps the rows and the blocks they name keeps what the     *)
(* update lists, as far as the next write needs it.                        *)
LEMMA SameHeights ==
  ASSUME IInv, TipInv, NEW at \in Stored \ {"update_tip"}, NEW table, NEW next \in Stored,
         WriteCoins(at, table, next), DOMAIN table = DOMAIN coins,
         \A c \in DOMAIN coins : /\ table[c].blockheight = coins[c].blockheight
                                 /\ table[c].spend_block_height = coins[c].spend_block_height
                                 /\ coins[c].spend_block_height # Null => table[c].spend_txid = coins[c].spend_txid,
         <<at, next>> \in {<<"unspend", "spend">>, <<"spend", "confirm_spend">>, <<"from_self", "update_tip">>}
  PROVE  TipInv'
<1>1. /\ pc = at /\ pc' = next /\ coins' = table /\ UNCHANGED <<upd, target, known>>
      /\ ListedInv /\ SpentInv /\ QuietInv /\ chain = target /\ Sound(coins, chain)
      /\ IsCoinTable(coins) /\ IsUpdate(upd)
  BY CoinsWritten, Zenon
<1>2. Sound(table, chain)
  <2>1. ASSUME NEW c \in DOMAIN table, table[c].blockheight # Null
        PROVE  TxOf[c] \in ChainTxs(chain) /\ table[c].blockheight = HeightOf(TxOf[c], chain)
    BY <1>1, <2>1, Zenon DEF Sound
  <2>2. ASSUME NEW c \in DOMAIN table, table[c].spend_block_height # Null
        PROVE  \E t \in ChainTxs(chain) :
                 c \in Ins[t] /\ table[c].spend_txid = t /\ table[c].spend_block_height = HeightOf(t, chain)
    <3>1. /\ c \in DOMAIN coins /\ coins[c].spend_block_height # Null
          /\ table[c].spend_block_height = coins[c].spend_block_height
          /\ table[c].spend_txid = coins[c].spend_txid
      BY <1>1, <2>2, Zenon
    <3>2. PICK t \in ChainTxs(chain) :
            c \in Ins[t] /\ coins[c].spend_txid = t /\ coins[c].spend_block_height = HeightOf(t, chain)
      BY <1>1, <3>1, Zenon DEF Sound
    <3>3. QED
      BY <3>1, <3>2, Zenon
  <2>3. QED
    BY <2>1, <2>2, Zenon DEF Sound
<1>3. Rows' = Rows /\ \A c \in Rows : (HasBlock(c)' <=> HasBlock(c)) /\ (HasSpend(c)' <=> HasSpend(c))
  BY <1>1, Zenon DEF Rows, HasBlock, HasSpend, Unstored
<1>4. ListedInv'
  BY <1>1, <1>3, Zenon DEF ListedInv, HasBlock, Unstored, Unconfirmed, Confirming
<1>5. SpentInv'
  BY <1>1, <1>3, Zenon DEF SpentInv, HasSpend, Unspent
<1>6. QuietInv'
  BY <1>1 DEF QuietInv, HasSpend, Unspent
<1>7. QED
  BY <1>2, <1>4, <1>5, <1>6, CoinsTip, Zenon
=============================================================================
