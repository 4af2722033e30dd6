------------------------------ MODULE WalletDb ------------------------------
(* The wallet's coins table and the statements the daemon runs on it, each *)
(* a function from the table to the table.  Every one is one SQLite        *)
(* IMMEDIATE transaction in src/coincubed/src/database/sqlite/mod.rs.      *)
(*                                                                         *)
(* A table is a function from the stored coins to their rows.              *)
EXTENDS Chain

CoinRow == [blockheight : Nat \cup {Null}, spend_txid : Txs \cup {NoTx},
            spend_block_height : Nat \cup {Null}, is_from_self : BOOLEAN]
PartialFunction(f, S, T) == DOMAIN f \subseteq S /\ f \in [DOMAIN f -> T]
IsCoinTable(db) == PartialFunction(db, Coins, CoinRow)
NoCoins == [c \in {} |-> [blockheight |-> Null]]

(* A row as INSERT makes it: unconfirmed, unspent.                         *)
NewRow == [blockheight |-> Null, spend_txid |-> NoTx,
           spend_block_height |-> Null, is_from_self |-> FALSE]

(* CoinStatus::Spending                                                    *)
SpendingCoins(db) ==
  {c \in DOMAIN db : db[c].spend_txid # NoTx /\ db[c].spend_block_height = Null}

(* new_unspent_coins: its caller never passes a stored coin.               *)
NewUnspentCoins(db, received) ==
  [c \in DOMAIN db \cup received |-> IF c \in received THEN NewRow ELSE db[c]]

RemoveCoins(db, expired) == [c \in DOMAIN db \ expired |-> db[c]]

(* confirmed: a function from coins to heights                             *)
ConfirmCoins(db, confirmed) ==
  [c \in DOMAIN db |->
     IF c \in DOMAIN confirmed THEN [db[c] EXCEPT !.blockheight = confirmed[c]] ELSE db[c]]

UnspendCoins(db, expired) ==
  [c \in DOMAIN db |->
     IF c \in expired
       THEN [db[c] EXCEPT !.spend_txid = NoTx, !.spend_block_height = Null] ELSE db[c]]

(* spending: a function from coins to transactions                         *)
SpendCoins(db, spending) ==
  [c \in DOMAIN db |->
     IF c \in DOMAIN spending THEN [db[c] EXCEPT !.spend_txid = spending[c]] ELSE db[c]]

(* spent: a function from coins to a transaction and its height            *)
SpentAt == [txid : Txs, height : Nat]
ConfirmSpend(db, spent) ==
  [c \in DOMAIN db |->
     IF c \in DOMAIN spent
       THEN [db[c] EXCEPT !.spend_txid = spent[c].txid,
                          !.spend_block_height = spent[c].height]
       ELSE db[c]]

(* The inputs of t that are wallet coins, confirmed or in self, as the     *)
(* subquery of update_coins_from_self counts them.                         *)
CountedInputs(db, t, self, prevHeight) ==
  {c \in DOMAIN db :
     /\ db[c].spend_txid = t
     /\ db[c].spend_block_height = Null \/ db[c].spend_block_height > prevHeight
     /\ db[c].blockheight # Null \/ c \in self}

(* update_coins_from_self iterates its UPDATE until no row changes: the    *)
(* least set that holds the rows already marked and that one more UPDATE   *)
(* leaves alone.                                                           *)
FromSelf(db, txs, prevHeight) ==
  LET Marks(self) ==
        {c \in DOMAIN db :
           /\ TxOf[c] \in txs
           /\ db[c].blockheight = Null \/ db[c].blockheight > prevHeight
           /\ Cardinality(CountedInputs(db, TxOf[c], self, prevHeight)) = NumInputs[TxOf[c]]}
      Closed(self) == /\ {c \in DOMAIN db : db[c].is_from_self} \subseteq self
                      /\ Marks(self) \subseteq self
  IN  {c \in DOMAIN db : \A self \in SUBSET DOMAIN db : Closed(self) => c \in self}

UpdateCoinsFromSelf(db, txs, prevHeight) ==
  LET self == FromSelf(db, txs, prevHeight)
  IN  [c \in DOMAIN db |-> [db[c] EXCEPT !.is_from_self = c \in self]]

(* rollback_tip, its statements on the coins in their order.               *)
RollbackCoins(db, newHeight) ==
  [c \in DOMAIN db |->
     LET unconfirmed == db[c].blockheight > newHeight
         unspent     == unconfirmed \/ db[c].spend_block_height > newHeight
         block       == IF unconfirmed THEN Null ELSE db[c].blockheight
     IN [blockheight        |-> block,
         spend_txid         |-> db[c].spend_txid,
         spend_block_height |-> IF unspent THEN Null ELSE db[c].spend_block_height,
         is_from_self       |-> db[c].is_from_self /\ block # Null]]
=============================================================================
