-------------------------------- MODULE Node --------------------------------
(* The Bitcoin node behind the daemon (bitcoind with its watch-only        *)
(* wallet), as src/coincubed/src/bitcoin uses it.  The node is external:   *)
(* its actions are the environment of the poller, its operators are what   *)
(* the calls of the bitcoind backend answer in the present state.          *)
(*                                                                         *)
(* The time of a block is abstracted to its height.                        *)
EXTENDS Chain

CONSTANTS
  MaxHeight,    \* bound: height of the chain
  MaxReorgs,    \* bound: reorganisations
  MaxRewinds,   \* bound: reorganisations that only disconnect blocks
  MaxEvictions  \* bound: transactions that leave the mempool by themselves

ASSUME NodeAssumption == 
  /\ MaxHeight \in Nat /\ MaxReorgs \in Nat
  /\ MaxRewinds \in Nat /\ MaxEvictions \in Nat

VARIABLES
  chain,        \* the node's best chain
  mempool,      \* its unconfirmed transactions
  known,        \* the transactions in the records of its watch-only wallet
  scanning,     \* where the rescan in progress started, or Null
  reorgs,       \* reorganisations so far
  rewinds,      \* of which only disconnected blocks
  evictions     \* transactions that left the mempool by themselves

nodeVars == <<chain, mempool, known, scanning, reorgs, rewinds, evictions>>

NodeTypeOK ==
  /\ chain \in Tip
  /\ mempool \in SUBSET Txs
  /\ known \in SUBSET Txs
  /\ scanning \in Nat \cup {Null}
  /\ reorgs \in Nat /\ rewinds \in Nat /\ evictions \in Nat

(* What the wallet records of the transactions it sees: the ones that pay  *)
(* to it, and the ones that spend an output it knows.                      *)
Recorded(S) == {t \in S : \/ \E c \in Coins : TxOf[c] = t
                          \/ Parents(t) \cap (known \cup S) # {}}

NewBlock(txs) == [branch |-> reorgs, txs |-> txs]

(***************************************************************************)
(* What the node does by itself.                                           *)
(***************************************************************************)

(* A transaction is relayed; it replaces the ones it conflicts with.       *)
Broadcast(t) ==
  /\ t \notin ChainTxs(chain) \cup mempool
  /\ ~ConflictsWith(t, ChainTxs(chain))
  /\ Parents(t) \subseteq ChainTxs(chain) \cup mempool
  /\ mempool' = Acceptable({u \in mempool : ~Conflicts(t, u)} \cup {t}, chain)
  /\ known' = known \cup Recorded({t})
  /\ UNCHANGED <<chain, scanning, reorgs, rewinds, evictions>>

(* A transaction leaves the mempool unconfirmed, with its descendants.     *)
Evict(t) ==
  /\ evictions < MaxEvictions
  /\ t \in mempool
  /\ mempool' = Acceptable(mempool \ {t}, chain)
  /\ evictions' = evictions + 1
  /\ UNCHANGED <<chain, known, scanning, reorgs, rewinds>>

Mine(txs) ==
  /\ Len(chain) < MaxHeight
  /\ LET ch == Append(chain, NewBlock(txs))
     IN /\ ValidChain(ch)
        /\ chain' = ch
        /\ mempool' = Acceptable(mempool, ch)
  /\ known' = known \cup Recorded(txs)
  /\ UNCHANGED <<scanning, reorgs, rewinds, evictions>>

(* The best chain changes to one that leaves depth blocks out and is       *)
(* longer than the former by one; what it does not confirm any more        *)
(* returns to the mempool where it is still valid.                         *)
Reorg(depth) ==
  /\ reorgs < MaxReorgs
  /\ depth \in 1..Len(chain)
  /\ Len(chain) < MaxHeight
  /\ \E fresh \in [1..(depth + 1) -> SUBSET Txs] :
       LET ch == SubSeq(chain, 1, Len(chain) - depth)
                   \o [i \in 1..(depth + 1) |-> [branch |-> reorgs + 1, txs |-> fresh[i]]]
       IN /\ ValidChain(ch)
          /\ chain' = ch
          /\ mempool' = Acceptable(mempool \cup ChainTxs(chain), ch)
          /\ known' = known \cup Recorded(UNION {fresh[i] : i \in 1..(depth + 1)})
  /\ reorgs' = reorgs + 1
  /\ UNCHANGED <<scanning, rewinds, evictions>>

(* Blocks are disconnected and nothing replaces them yet (the managed node *)
(* is being rewound).                                                      *)
Rewind(depth) ==
  /\ rewinds < MaxRewinds
  /\ depth \in 1..Len(chain)
  /\ chain' = SubSeq(chain, 1, Len(chain) - depth)
  /\ mempool' = Acceptable(mempool \cup ChainTxs(chain), chain')
  /\ rewinds' = rewinds + 1
  /\ reorgs' = reorgs + 1
  /\ UNCHANGED <<known, scanning, evictions>>

(* The node ends the rescan it was asked for: the wallet's records now     *)
(* hold every transaction in the blocks from that time on.                 *)
RescanFinished ==
  /\ scanning # Null
  /\ known' = known \cup Recorded(UNION {chain[h].txs : h \in {k \in 1..Len(chain) : k >= scanning}})
  /\ scanning' = Null
  /\ UNCHANGED <<chain, mempool, reorgs, rewinds, evictions>>

NodeNext ==
  \/ \E t \in Txs : Broadcast(t) \/ Evict(t)
  \/ \E txs \in SUBSET Txs : Mine(txs)
  \/ \E d \in 1..MaxHeight : Reorg(d) \/ Rewind(d)
  \/ RescanFinished

(***************************************************************************)
(* What the backend's reads answer.                                        *)
(***************************************************************************)

Confirmed(t) == t \in ChainTxs(chain)

(* listsinceblock: what the wallet received above the block, or above its  *)
(* fork point when it is not on the chain, and all that is unconfirmed.    *)
ReceivedSince(tip) ==
  {c \in Coins : /\ TxOf[c] \in known
                 /\ Confirmed(TxOf[c]) => HeightOf(TxOf[c], chain) > ForkHeight(tip, chain)}

(* gettxout says null: the output does not exist or is spent, the mempool  *)
(* counting.                                                               *)
IsSpent(c) ==
  \/ TxOf[c] \notin ChainTxs(chain) \cup mempool
  \/ \E t \in ChainTxs(chain) \cup mempool : c \in Ins[t]

(* gettransaction: confirmations is negative when a block conflicts with   *)
(* the transaction, or with one that it descends from; walletconflicts.    *)
Conflicted(t) == t \notin ChainTxs(chain) \cup Acceptable(Txs, chain)
WalletConflicts(t) == {u \in known : Conflicts(t, u)}
=============================================================================
