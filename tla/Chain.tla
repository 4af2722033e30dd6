------------------------------- MODULE Chain -------------------------------
(* Block chains, and the wallet's transactions in them.                    *)
(*                                                                         *)
(* A tip is represented by the whole chain below it: a sequence of blocks  *)
(* above the genesis block.  Its height is its length, the genesis tip is  *)
(* the empty sequence, and two tips are equal exactly when their block     *)
(* hashes are.  Blocks mined after the n-th reorganisation carry branch n, *)
(* so that blocks with the same transactions on two branches differ.       *)
EXTENDS Integers, Sequences, FiniteSets

CONSTANTS
  Txs,          \* transactions that pay to or spend from the wallet
  Coins,        \* the wallet's outputs (outpoints)
  TxOf,         \* the transaction that creates a coin
  Ins,          \* the wallet's coins that a transaction spends
  NumInputs,    \* how many inputs a transaction has, the wallet's or not
  NoTx          \* the SQL NULL of a transaction id

ASSUME TxAssumption ==
  /\ IsFiniteSet(Txs) /\ IsFiniteSet(Coins)
  /\ NoTx \notin Txs
  /\ TxOf \in [Coins -> Txs]
  /\ Ins \in [Txs -> SUBSET Coins]
  /\ NumInputs \in [Txs -> Nat]
  /\ \A t \in Txs : /\ NumInputs[t] > 0
                    /\ Cardinality(Ins[t]) <= NumInputs[t]
                    /\ \A c \in Ins[t] : TxOf[c] # t

(* The SQL NULL of a height or a timestamp; below all of them, so that a   *)
(* comparison h > x is false of it as it is in SQL.                        *)
Null == -1

Block == [branch : Nat, txs : SUBSET Txs]
Tip   == Seq(Block)
Genesis == << >>

(* BlockChainTip: a height and a hash.                                     *)
Height(tip) == Len(tip)

(* The block a former tip names is on the chain of the tip ch.             *)
InChain(tip, ch) == /\ Len(tip) <= Len(ch)
                    /\ SubSeq(ch, 1, Len(tip)) = tip

(* The height of the last block that two chains share: how many they share. *)
ForkHeight(a, b) ==
  Cardinality({h \in 1..Len(a) : h <= Len(b) /\ SubSeq(a, 1, h) = SubSeq(b, 1, h)})

ChainTxs(ch) == UNION {ch[h].txs : h \in 1..Len(ch)}

(* Where a transaction of the chain is confirmed.                          *)
HeightOf(t, ch) == CHOOSE h \in 1..Len(ch) : t \in ch[h].txs

Conflicts(t, u) == t # u /\ Ins[t] \cap Ins[u] # {}
ConflictsWith(t, S) == \E u \in S : Conflicts(t, u)
Parents(t) == {TxOf[c] : c \in Ins[t]}

(* A chain a node accepts: no transaction twice, no output spent twice, no *)
(* transaction before the ones it spends from.                             *)
ValidChain(ch) ==
  /\ \A h, k \in 1..Len(ch) : h # k => ch[h].txs \cap ch[k].txs = {}
  /\ \A t \in ChainTxs(ch) : ~ConflictsWith(t, ChainTxs(ch))
  /\ \A h \in 1..Len(ch) : \A t \in ch[h].txs :
       Parents(t) \subseteq ChainTxs(SubSeq(ch, 1, h))

(* The transactions of S that a node with the chain ch keeps unconfirmed.  *)
ValidMempool(S, ch) ==
  /\ S \cap ChainTxs(ch) = {}
  /\ \A t \in S : ~ConflictsWith(t, ChainTxs(ch) \cup S)
  /\ \A t \in S : Parents(t) \subseteq ChainTxs(ch) \cup S
Acceptable(S, ch) == UNION {M \in SUBSET S : ValidMempool(M, ch)}
=============================================================================
