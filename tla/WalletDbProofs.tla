--------------------------- MODULE WalletDbProofs ---------------------------
(* What the statements on the coins table, the steps of the node and the   *)
(* operators on chains keep: the lemmas that the proofs of the poller cite. *)
EXTENDS Node, WalletDb, SequenceTheorems, FiniteSetTheorems, TLAPS

(***************************************************************************)
(* Chains                                                                  *)
(***************************************************************************)

(* A prefix of a chain is a chain.                                         *)
LEMMA PrefixIsTip ==
  ASSUME NEW ch \in Tip, NEW n \in 0..Len(ch)
  PROVE  SubSeq(ch, 1, n) \in Tip
<1>1. Len(ch) \in Nat /\ \A i \in 1..Len(ch) : ch[i] \in Block
  BY LenProperties, ElementOfSeq DEF Tip
<1>2. \A i \in 1..n : ch[i] \in Block
  BY <1>1
<1>3. QED
  BY <1>1, <1>2, SubSeqProperties DEF Tip

(* There are n numbers from 1 to n.                                        *)
LEMMA IntervalSize ==
  ASSUME NEW n \in Nat
  PROVE  IsFiniteSet(1..n) /\ Cardinality(1..n) = n
<1>1. IsFiniteSet(1..n) /\ Cardinality(1..n) = IF 1 > n THEN 0 ELSE n - 1 + 1
  BY FS_Interval
<1>2. QED
  BY <1>1

(* The fork point of two chains is on both of them.                        *)
LEMMA ForkHeightBounds ==
  ASSUME NEW a \in Tip, NEW b \in Tip
  PROVE  ForkHeight(a, b) \in 0..Len(a) /\ ForkHeight(a, b) \in 0..Len(b)
<1> DEFINE shared == {h \in 1..Len(a) : h <= Len(b) /\ SubSeq(a, 1, h) = SubSeq(b, 1, h)}
<1>1. Len(a) \in Nat /\ Len(b) \in Nat
  BY LenProperties DEF Tip
<1>2. shared \in SUBSET (1..Len(a)) /\ shared \in SUBSET (1..Len(b))
  BY <1>1
<1>3. /\ IsFiniteSet(1..Len(a)) /\ Cardinality(1..Len(a)) = Len(a)
      /\ IsFiniteSet(1..Len(b)) /\ Cardinality(1..Len(b)) = Len(b)
  BY <1>1, IntervalSize
<1>4. /\ IsFiniteSet(shared)
      /\ Cardinality(shared) <= Len(a) /\ Cardinality(shared) <= Len(b)
  BY <1>2, <1>3, FS_Subset
<1>5. Cardinality(shared) \in Nat
  BY <1>4, FS_CardinalityType
<1>6. QED
  BY <1>1, <1>4, <1>5 DEF ForkHeight

(* The blocks of a chain have branches.                                    *)
LEMMA BranchTypes ==
  ASSUME NEW ch \in Tip
  PROVE  Len(ch) \in Nat /\ \A h \in 1..Len(ch) : ch[h].branch \in Nat
<1>1. Len(ch) \in Nat /\ \A h \in 1..Len(ch) : ch[h] \in Block
  BY LenProperties, ElementOfSeq DEF Tip
<1>2. QED
  BY <1>1 DEF Block

(* The blocks of a prefix.                                                 *)
LEMMA PrefixBlocks ==
  ASSUME NEW ch \in Tip, NEW n \in 0..Len(ch)
  PROVE  /\ Len(ch) \in Nat /\ Len(SubSeq(ch, 1, n)) = n
         /\ \A h \in 1..n : SubSeq(ch, 1, n)[h] = ch[h]
<1>1. Len(ch) \in Nat
  BY LenProperties DEF Tip
<1>2. \A i \in 1..n : ch[i] \in Block
  BY <1>1, ElementOfSeq DEF Tip
<1>3. QED
  BY <1>1, <1>2, SubSeqProperties

(* One chain goes through the tip of another when it has its blocks.       *)
LEMMA InChainBlocks ==
  ASSUME NEW a \in Tip, NEW b \in Tip
  PROVE  InChain(a, b) <=> Len(a) <= Len(b) /\ \A h \in 1..Len(a) : b[h] = a[h]
<1>1. Len(a) \in Nat /\ Len(b) \in Nat
  BY LenProperties DEF Tip
<1>2. ASSUME Len(a) <= Len(b) PROVE SubSeq(b, 1, Len(a)) = a <=> \A h \in 1..Len(a) : b[h] = a[h]
  <2>1. SubSeq(b, 1, Len(a)) \in Tip
    BY <1>1, <1>2, PrefixIsTip
  <2>2. Len(SubSeq(b, 1, Len(a))) = Len(a) /\ \A h \in 1..Len(a) : SubSeq(b, 1, Len(a))[h] = b[h]
    BY <1>1, <1>2, PrefixBlocks
  <2>3. QED
    BY <2>1, <2>2, SeqEqual DEF Tip
<1>3. QED
  BY <1>2 DEF InChain

(* No transaction is twice on the chain, as ValidChain says.              *)
OnceEach(ch) == \A h, k \in 1..Len(ch) : h # k => ch[h].txs \cap ch[k].txs = {}

(* A transaction has one height on a chain, and keeps it as the chain      *)
(* grows.                                                                  *)
LEMMA HeightStays ==
  ASSUME NEW a \in Tip, NEW b \in Tip, InChain(a, b), OnceEach(b), NEW t \in ChainTxs(a)
  PROVE  /\ t \in ChainTxs(b) /\ HeightOf(t, b) = HeightOf(t, a)
         /\ HeightOf(t, a) \in 1..Len(a) /\ t \in b[HeightOf(t, a)].txs
         /\ Len(a) \in Nat /\ Len(b) \in Nat /\ Len(a) <= Len(b)
<1>1. Len(a) \in Nat /\ Len(b) \in Nat /\ Len(a) <= Len(b) /\ \A h \in 1..Len(a) : b[h] = a[h]
  BY InChainBlocks, LenProperties DEF Tip
<1>2. HeightOf(t, a) \in 1..Len(a) /\ t \in a[HeightOf(t, a)].txs
  <2>1. \E h \in 1..Len(a) : t \in a[h].txs
    BY DEF ChainTxs
  <2>2. QED
    BY <2>1 DEF HeightOf
<1>3. HeightOf(t, a) \in 1..Len(b) /\ t \in b[HeightOf(t, a)].txs
  BY <1>1, <1>2
<1>4. HeightOf(t, b) \in 1..Len(b) /\ t \in b[HeightOf(t, b)].txs
  <2>1. \E h \in 1..Len(b) : t \in b[h].txs
    BY <1>3
  <2>2. QED
    BY <2>1 DEF HeightOf
<1>5. HeightOf(t, b) = HeightOf(t, a)
  BY <1>3, <1>4 DEF OnceEach
<1>6. t \in ChainTxs(b)
  BY <1>3 DEF ChainTxs
<1>7. QED
  BY <1>1, <1>2, <1>3, <1>5, <1>6

(* A chain confirms transactions of the wallet only.                       *)
LEMMA ChainTxsType ==
  ASSUME NEW ch \in Tip
  PROVE  ChainTxs(ch) \in SUBSET Txs
<1>1. \A h \in 1..Len(ch) : ch[h] \in Block
  BY ElementOfSeq DEF Tip
<1>2. QED
  BY <1>1 DEF ChainTxs, Block

(* A confirmed transaction has a height.                                   *)
LEMMA HeightOfType ==
  ASSUME NEW ch \in Tip, NEW t \in ChainTxs(ch)
  PROVE  HeightOf(t, ch) \in Nat
<1>1. Len(ch) \in Nat
  BY LenProperties DEF Tip
<1>2. \E h \in 1..Len(ch) : t \in ch[h].txs
  BY DEF ChainTxs
<1>3. HeightOf(t, ch) \in 1..Len(ch)
  BY <1>2 DEF HeightOf
<1>4. QED
  BY <1>1, <1>3

(* What a node keeps unconfirmed is among what it is given.                *)
LEMMA AcceptableType ==
  ASSUME NEW S \in SUBSET Txs, NEW ch
  PROVE  Acceptable(S, ch) \in SUBSET Txs
BY DEF Acceptable

(***************************************************************************)
(* The node                                                                *)
(***************************************************************************)

(* Every step of the node keeps its types.                                 *)
LEMMA NodeTypes ==
  ASSUME NodeTypeOK, NodeNext
  PROVE  NodeTypeOK'
<1>1. chain \in Tip /\ Len(chain) \in Nat /\ ChainTxs(chain) \in SUBSET Txs
  BY ChainTxsType, LenProperties DEF NodeTypeOK, Tip
<1>2. ASSUME NEW t \in Txs, Broadcast(t) PROVE NodeTypeOK'
  <2>1. mempool' \in SUBSET Txs
    <3>1. ({u \in mempool : ~Conflicts(t, u)} \cup {t}) \in SUBSET Txs
      BY DEF NodeTypeOK
    <3>2. QED
      BY <1>2, <3>1, AcceptableType DEF Broadcast
  <2>2. QED
    BY <1>2, <2>1 DEF NodeTypeOK, Broadcast, Recorded
<1>3. ASSUME NEW t \in Txs, Evict(t) PROVE NodeTypeOK'
  <2>1. mempool' \in SUBSET Txs
    BY <1>3, AcceptableType DEF Evict, NodeTypeOK
  <2>2. QED
    BY <1>3, <2>1 DEF NodeTypeOK, Evict
<1>4. ASSUME NEW S \in SUBSET Txs, Mine(S) PROVE NodeTypeOK'
  <2>1. NewBlock(S) \in Block
    BY DEF NewBlock, Block, NodeTypeOK
  <2>2. chain' \in Tip
    BY <1>1, <1>4, <2>1, AppendProperties DEF Mine, Tip
  <2>3. mempool' \in SUBSET Txs
    BY <1>4, AcceptableType DEF Mine, NodeTypeOK
  <2>4. QED
    BY <1>4, <2>2, <2>3 DEF NodeTypeOK, Mine, Recorded
<1>5. ASSUME NEW depth \in 1..MaxHeight, Reorg(depth) PROVE NodeTypeOK'
  <2>1. depth \in 1..Len(chain) /\ depth + 1 \in Nat /\ Len(chain) - depth \in 0..Len(chain)
    <3>1. depth \in 1..Len(chain)
      BY <1>5, Zenon DEF Reorg
    <3>2. QED
      BY <1>1, <3>1
  <2>2. PICK fresh \in [1..(depth + 1) -> SUBSET Txs] :
          /\ chain' = SubSeq(chain, 1, Len(chain) - depth)
                        \o [i \in 1..(depth + 1) |-> [branch |-> reorgs + 1, txs |-> fresh[i]]]
          /\ mempool' = Acceptable(mempool \cup ChainTxs(chain), chain')
          /\ known' = known \cup Recorded(UNION {fresh[i] : i \in 1..(depth + 1)})
    BY <1>5, Zenon DEF Reorg
  <2> DEFINE blocks == [i \in 1..(depth + 1) |-> [branch |-> reorgs + 1, txs |-> fresh[i]]]
  <2>3. blocks \in [1..(depth + 1) -> Block]
    BY DEF Block, NodeTypeOK
  <2>4. blocks \in Tip
    BY <2>1, <2>3, SeqDef DEF Tip
  <2>5. SubSeq(chain, 1, Len(chain) - depth) \in Tip
    BY <1>1, <2>1, PrefixIsTip
  <2>6. chain' \in Tip
    BY <2>2, <2>4, <2>5, ConcatProperties DEF Tip
  <2>7. mempool' \in SUBSET Txs
    BY <1>1, <2>2, AcceptableType DEF NodeTypeOK
  <2>8. known' \in SUBSET Txs
    BY <2>2 DEF Recorded, NodeTypeOK
  <2>9. reorgs' = reorgs + 1 /\ UNCHANGED <<scanning, rewinds, evictions>>
    BY <1>5 DEF Reorg
  <2>10. QED
    BY <2>6, <2>7, <2>8, <2>9 DEF NodeTypeOK
<1>6. ASSUME NEW depth \in 1..MaxHeight, Rewind(depth) PROVE NodeTypeOK'
  <2>1. Len(chain) - depth \in 0..Len(chain)
    BY <1>1, <1>6, NodeAssumption DEF Rewind
  <2>2. chain' \in Tip
    BY <1>1, <1>6, <2>1, PrefixIsTip DEF Rewind
  <2>3. mempool' \in SUBSET Txs
    <3>1. mempool \cup ChainTxs(chain) \in SUBSET Txs
      BY <1>1 DEF NodeTypeOK
    <3>2. mempool' = Acceptable(mempool \cup ChainTxs(chain), chain')
      BY <1>6 DEF Rewind
    <3>3. QED
      BY <3>1, <3>2, AcceptableType
  <2>4. reorgs' = reorgs + 1 /\ rewinds' = rewinds + 1 /\ UNCHANGED <<known, scanning, evictions>>
    BY <1>6 DEF Rewind
  <2>5. QED
    BY <2>2, <2>3, <2>4 DEF NodeTypeOK
<1>7. ASSUME RescanFinished PROVE NodeTypeOK'
  <2>1. known' \in SUBSET Txs
    <3>1. \A h \in 1..Len(chain) : chain[h] \in Block
      BY <1>1, ElementOfSeq DEF Tip
    <3>2. QED
      BY <1>7, <3>1 DEF RescanFinished, Recorded, NodeTypeOK, Block
  <2>2. QED
    BY <1>7, <2>1 DEF NodeTypeOK, RescanFinished
<1>8. QED
  BY <1>2, <1>3, <1>4, <1>5, <1>6, <1>7 DEF NodeNext

(* A new block, or a reorganisation, keeps a prefix of the chain and puts  *)
(* blocks of the present branch on it; the wallet records what it sees of  *)
(* them.                                                                   *)
LEMMA NewBlocks ==
  ASSUME NodeTypeOK,
         \/ \E txs \in SUBSET Txs : Mine(txs)
         \/ \E d \in 1..MaxHeight : Reorg(d)
  PROVE  /\ ValidChain(chain)' /\ Len(chain') > Len(chain) /\ scanning' = scanning
         /\ \E n \in 0..Len(chain), S \in SUBSET Txs :
              /\ \A h \in 1..n : chain'[h] = chain[h]
              /\ reorgs' = IF n < Len(chain) THEN reorgs + 1 ELSE reorgs
              /\ n < Len(chain) => reorgs < MaxReorgs
              /\ \A h \in (n + 1)..Len(chain') : chain'[h].branch = reorgs' /\ chain'[h].txs \subseteq S
              /\ \A t \in S : \E h \in (n + 1)..Len(chain') : t \in chain'[h].txs
              /\ known' = known \cup Recorded(S)
<1>1. chain \in Tip /\ Len(chain) \in Nat /\ reorgs \in Nat
  BY LenProperties DEF NodeTypeOK, Tip
<1>2. CASE \E S \in SUBSET Txs : Mine(S)
  <2>1. PICK S \in SUBSET Txs : Mine(S)
    BY <1>2
  <2>2. /\ chain' = Append(chain, NewBlock(S)) /\ ValidChain(chain')
        /\ known' = known \cup Recorded(S) /\ reorgs' = reorgs /\ scanning' = scanning
    BY <2>1 DEF Mine
  <2>3. NewBlock(S) \in Block /\ NewBlock(S).branch = reorgs /\ NewBlock(S).txs = S
    BY <1>1 DEF NewBlock, Block
  <2>4. /\ Len(chain') = Len(chain) + 1 /\ \A h \in 1..Len(chain) : chain'[h] = chain[h]
        /\ chain'[Len(chain) + 1] = NewBlock(S)
    BY <1>1, <2>2, <2>3, AppendProperties DEF Tip
  <2>5. /\ Len(chain) + 1 \in (Len(chain) + 1)..Len(chain')
        /\ \A h \in (Len(chain) + 1)..Len(chain') : h = Len(chain) + 1
    BY <1>1, <2>4
  <2>6. /\ \A h \in (Len(chain) + 1)..Len(chain') : chain'[h].branch = reorgs' /\ chain'[h].txs \subseteq S
        /\ \A t \in S : \E h \in (Len(chain) + 1)..Len(chain') : t \in chain'[h].txs
    BY <2>2, <2>3, <2>4, <2>5
  <2>7. Len(chain) \in 0..Len(chain) /\ ~(Len(chain) < Len(chain)) /\ Len(chain') > Len(chain)
    BY <1>1, <2>4
  <2>8. \E n \in 0..Len(chain) :
          /\ \A h \in 1..n : chain'[h] = chain[h]
          /\ reorgs' = IF n < Len(chain) THEN reorgs + 1 ELSE reorgs
          /\ n < Len(chain) => reorgs < MaxReorgs
          /\ \A h \in (n + 1)..Len(chain') : chain'[h].branch = reorgs' /\ chain'[h].txs \subseteq S
          /\ \A t \in S : \E h \in (n + 1)..Len(chain') : t \in chain'[h].txs
    <3>1. WITNESS Len(chain) \in 0..Len(chain)
    <3>2. QED
      BY <2>2, <2>4, <2>6, <2>7
  <2>9. QED
    BY <2>2, <2>7, <2>8, Zenon
<1>3. CASE \E d \in 1..MaxHeight : Reorg(d)
  <2>1. PICK d \in 1..MaxHeight : Reorg(d)
    BY <1>3
  <2>2. d \in 1..Len(chain) /\ d + 1 \in Nat /\ Len(chain) - d \in 0..Len(chain)
    <3>1. d \in 1..Len(chain)
      BY <2>1, Zenon DEF Reorg
    <3>2. QED
      BY <1>1, <3>1
  <2>3. PICK fresh \in [1..(d + 1) -> SUBSET Txs] :
          /\ chain' = SubSeq(chain, 1, Len(chain) - d)
                        \o [i \in 1..(d + 1) |-> [branch |-> reorgs + 1, txs |-> fresh[i]]]
          /\ ValidChain(chain')
          /\ known' = known \cup Recorded(UNION {fresh[i] : i \in 1..(d + 1)})
    BY <2>1, Zenon DEF Reorg
  <2>4. reorgs' = reorgs + 1 /\ reorgs < MaxReorgs /\ scanning' = scanning
    BY <2>1 DEF Reorg
  <2> DEFINE n == Len(chain) - d
             kept == SubSeq(chain, 1, n)
             blocks == [i \in 1..(d + 1) |-> [branch |-> reorgs + 1, txs |-> fresh[i]]]
             S == UNION {fresh[i] : i \in 1..(d + 1)}
  <2>5. blocks \in Tip /\ Len(blocks) = d + 1
    <3>1. blocks \in [1..(d + 1) -> Block]
      BY <1>1 DEF Block
    <3>2. QED
      BY <2>2, <3>1, SeqDef, LenProperties DEF Tip
  <2>6. kept \in Tip /\ Len(kept) = n /\ \A h \in 1..n : kept[h] = chain[h]
    BY <1>1, <2>2, PrefixIsTip, PrefixBlocks
  <2>7. /\ Len(chain') = n + d + 1
        /\ \A h \in 1..(n + d + 1) : chain'[h] = IF h <= n THEN kept[h] ELSE blocks[h - n]
    <3>1. chain' = kept \o blocks
      BY <2>3
    <3>2. kept \in Seq(Block) /\ blocks \in Seq(Block)
      BY <2>5, <2>6 DEF Tip
    <3> HIDE DEF kept, blocks
    <3>3. /\ Len(chain') = Len(kept) + Len(blocks)
          /\ \A h \in 1..(Len(kept) + Len(blocks)) :
               chain'[h] = IF h <= Len(kept) THEN kept[h] ELSE blocks[h - Len(kept)]
      BY <3>1, <3>2, ConcatProperties
    <3> HIDE DEF n
    <3>4. n + (d + 1) = n + d + 1
      BY <2>2 DEF n
    <3>5. QED
      BY <2>5, <2>6, <3>3, <3>4
  <2>8. n \in 0..Len(chain) /\ n < Len(chain) /\ Len(chain') > Len(chain) /\ S \in SUBSET Txs
    BY <1>1, <2>2, <2>7
  <2>9. \A h \in 1..n : chain'[h] = chain[h]
    <3>1. n \in Nat /\ d \in Nat /\ 1..n \subseteq 1..(n + d + 1)
      BY <1>1, <2>2
    <3> HIDE DEF n, kept, blocks
    <3>2. \A h \in 1..n : h <= n
      BY <3>1
    <3>3. \A h \in 1..n : chain'[h] = kept[h]
      BY <2>7, <3>1, <3>2
    <3>4. QED
      BY <2>6, <3>3
  <2>10. \A h \in (n + 1)..Len(chain') : h - n \in 1..(d + 1) /\ chain'[h] = blocks[h - n]
    <3>1. n \in Nat /\ d \in Nat
      BY <1>1, <2>2
    <3> HIDE DEF n, kept, blocks
    <3>2. ASSUME NEW h \in (n + 1)..(n + d + 1)
          PROVE  h \in 1..(n + d + 1) /\ ~(h <= n) /\ h - n \in 1..(d + 1)
      BY <3>1
    <3>3. QED
      BY <2>7, <3>2, Zenon
  <2>11. \A h \in (n + 1)..Len(chain') : chain'[h].branch = reorgs' /\ chain'[h].txs \subseteq S
    <3>1. \A i \in 1..(d + 1) : blocks[i].branch = reorgs + 1 /\ blocks[i].txs = fresh[i] /\ fresh[i] \subseteq S
      OBVIOUS
    <3> HIDE DEF n, blocks, S
    <3>2. QED
      BY <2>4, <2>10, <3>1
  <2>12. ASSUME NEW t \in S PROVE \E h \in (n + 1)..Len(chain') : t \in chain'[h].txs
    <3>1. PICK i \in 1..(d + 1) : t \in fresh[i]
      OBVIOUS
    <3>2. blocks[i].txs = fresh[i]
      OBVIOUS
    <3> HIDE DEF kept, blocks, S
    <3>3. n \in Nat /\ d \in Nat /\ Len(chain') = n + d + 1
      BY <1>1, <2>2, <2>7
    <3> HIDE DEF n
    <3>4. n + i \in (n + 1)..Len(chain') /\ (n + i) - n = i
      BY <3>3
    <3>5. chain'[n + i] = blocks[i]
      BY <2>10, <3>4
    <3>6. QED
      BY <3>1, <3>2, <3>4, <3>5
  <2>13. QED
    <3> HIDE DEF n, S
    <3>1. known' = known \cup Recorded(S)
      BY <2>3 DEF S
    <3>2. QED
      BY <2>3, <2>4, <2>8, <2>9, <2>11, <2>12, <3>1, Zenon
<1>4. QED
  BY <1>2, <1>3, Zenon

(* Every step of the node keeps a prefix of its chain and puts new blocks  *)
(* of the present branch on it; it never leaves a block but with a new     *)
(* branch, and its wallet has what the new blocks pay to it.               *)
LEMMA ChainMoves ==
  ASSUME NodeTypeOK, OnceEach(chain), NodeNext
  PROVE  /\ OnceEach(chain)' /\ known \subseteq known'
         /\ \E n \in 0..Len(chain) :
              /\ n <= Len(chain') /\ \A h \in 1..n : chain'[h] = chain[h]
              /\ reorgs' = IF n < Len(chain) THEN reorgs + 1 ELSE reorgs
              /\ \A h \in (n + 1)..Len(chain') :
                   /\ chain'[h].branch = reorgs'
                   /\ \A c \in Coins : TxOf[c] \in chain'[h].txs => TxOf[c] \in known'
<1>1. chain \in Tip /\ Len(chain) \in Nat /\ reorgs \in Nat
  BY LenProperties DEF NodeTypeOK, Tip
<1>2. ASSUME UNCHANGED <<chain, reorgs>>, known \subseteq known'
      PROVE  /\ OnceEach(chain)'
             /\ \E n \in 0..Len(chain) :
                  /\ n <= Len(chain') /\ \A h \in 1..n : chain'[h] = chain[h]
                  /\ reorgs' = IF n < Len(chain) THEN reorgs + 1 ELSE reorgs
                  /\ \A h \in (n + 1)..Len(chain') :
                       /\ chain'[h].branch = reorgs'
                       /\ \A c \in Coins : TxOf[c] \in chain'[h].txs => TxOf[c] \in known'
  <2>1. OnceEach(chain)'
    BY <1>2 DEF OnceEach
  <2>2. (Len(chain) + 1)..Len(chain') = {}
    BY <1>1, <1>2
  <2>3. QED
    BY <1>1, <1>2, <2>1, <2>2
<1>3. CASE \E t \in Txs : Broadcast(t) \/ Evict(t)
  <2>1. UNCHANGED <<chain, reorgs>> /\ known \subseteq known'
    BY <1>3 DEF Broadcast, Evict
  <2>2. QED
    BY <1>2, <2>1
<1>4. CASE RescanFinished
  <2>1. UNCHANGED <<chain, reorgs>> /\ known \subseteq known'
    BY <1>4 DEF RescanFinished
  <2>2. QED
    BY <1>2, <2>1
<1>5. CASE \/ \E S \in SUBSET Txs : Mine(S)
           \/ \E d \in 1..MaxHeight : Reorg(d)
  <2>1. ValidChain(chain)' /\ Len(chain') > Len(chain)
    BY <1>5, NewBlocks
  <2>2. PICK n \in 0..Len(chain), S \in SUBSET Txs :
          /\ \A h \in 1..n : chain'[h] = chain[h]
          /\ reorgs' = IF n < Len(chain) THEN reorgs + 1 ELSE reorgs
          /\ \A h \in (n + 1)..Len(chain') : chain'[h].branch = reorgs' /\ chain'[h].txs \subseteq S
          /\ known' = known \cup Recorded(S)
    BY <1>5, NewBlocks, Zenon
  <2>3. \A c \in Coins : TxOf[c] \in S => TxOf[c] \in known'
    BY <2>2 DEF Recorded
  <2>4. OnceEach(chain)' /\ known \subseteq known'
    BY <2>1, <2>2 DEF OnceEach, ValidChain
  <2>5. n <= Len(chain')
    <3>1. Len(chain') \in Nat
      BY NodeTypes, LenProperties DEF NodeTypeOK, Tip
    <3>2. QED
      BY <1>1, <2>1, <3>1
  <2>6. QED
    BY <2>2, <2>3, <2>4, <2>5
<1>6. CASE \E d \in 1..MaxHeight : Rewind(d)
  <2>1. PICK d \in 1..MaxHeight : Rewind(d)
    BY <1>6
  <2> DEFINE n == Len(chain) - d
  <2>2. n \in 0..Len(chain) /\ n < Len(chain) /\ chain' = SubSeq(chain, 1, n)
        /\ reorgs' = reorgs + 1 /\ known' = known
    BY <1>1, <2>1, NodeAssumption DEF Rewind
  <2>3. Len(chain') = n /\ \A h \in 1..n : chain'[h] = chain[h]
    BY <1>1, <2>2, PrefixBlocks
  <2>4. OnceEach(chain)'
    <3>1. 1..n \subseteq 1..Len(chain)
      BY <1>1, <2>2
    <3> HIDE DEF n
    <3>2. QED
      BY <2>3, <3>1 DEF OnceEach
  <2>5. (n + 1)..Len(chain') = {}
    BY <2>2, <2>3
  <2>6. QED
    BY <2>2, <2>3, <2>4, <2>5
<1>7. QED
  BY <1>3, <1>4, <1>5, <1>6 DEF NodeNext

(***************************************************************************)
(* The coins table                                                         *)
(***************************************************************************)

(* new_unspent_coins keeps the type of the table and adds the coins.       *)
LEMMA NewUnspentTable ==
  ASSUME NEW db, IsCoinTable(db), NEW S \in SUBSET Coins
  PROVE  IsCoinTable(NewUnspentCoins(db, S)) /\ DOMAIN NewUnspentCoins(db, S) = DOMAIN db \cup S
<1>1. NewRow \in CoinRow
  BY DEF NewRow, CoinRow, Null
<1>2. QED
  BY <1>1 DEF NewUnspentCoins, IsCoinTable, PartialFunction

(* remove_coins keeps the type of the table.                               *)
LEMMA RemoveTable ==
  ASSUME NEW db, IsCoinTable(db), NEW S
  PROVE  IsCoinTable(RemoveCoins(db, S))
BY DEF RemoveCoins, IsCoinTable, PartialFunction

(* confirm_coins keeps the type of the table.                              *)
LEMMA ConfirmTable ==
  ASSUME NEW db, IsCoinTable(db), NEW f, PartialFunction(f, Coins, Nat)
  PROVE  IsCoinTable(ConfirmCoins(db, f))
<1>1. \A c \in DOMAIN db : c \in DOMAIN f => [db[c] EXCEPT !.blockheight = f[c]] \in CoinRow
  BY DEF IsCoinTable, PartialFunction, CoinRow
<1>2. QED
  BY <1>1 DEF ConfirmCoins, IsCoinTable, PartialFunction

(* unspend_coins keeps the type of the table.                              *)
LEMMA UnspendTable ==
  ASSUME NEW db, IsCoinTable(db), NEW S
  PROVE  IsCoinTable(UnspendCoins(db, S))
<1>1. \A c \in DOMAIN db :
        [db[c] EXCEPT !.spend_txid = NoTx, !.spend_block_height = Null] \in CoinRow
  BY Zenon DEF IsCoinTable, PartialFunction, CoinRow
<1>2. QED
  BY <1>1, Zenon DEF UnspendCoins, IsCoinTable, PartialFunction

(* spend_coins keeps the type of the table.                                *)
LEMMA SpendTable ==
  ASSUME NEW db, IsCoinTable(db), NEW f, PartialFunction(f, Coins, Txs)
  PROVE  IsCoinTable(SpendCoins(db, f))
<1>1. \A c \in DOMAIN db : c \in DOMAIN f => [db[c] EXCEPT !.spend_txid = f[c]] \in CoinRow
  BY DEF IsCoinTable, PartialFunction, CoinRow
<1>2. QED
  BY <1>1 DEF SpendCoins, IsCoinTable, PartialFunction

(* confirm_spend keeps the type of the table.                              *)
LEMMA ConfirmSpendTable ==
  ASSUME NEW db, IsCoinTable(db), NEW f, PartialFunction(f, Coins, SpentAt)
  PROVE  IsCoinTable(ConfirmSpend(db, f))
<1>1. \A c \in DOMAIN db : c \in DOMAIN f =>
        [db[c] EXCEPT !.spend_txid = f[c].txid, !.spend_block_height = f[c].height] \in CoinRow
  BY Zenon DEF IsCoinTable, PartialFunction, CoinRow, SpentAt
<1>2. QED
  BY <1>1, Zenon DEF ConfirmSpend, IsCoinTable, PartialFunction

(* update_coins_from_self keeps the type of the table.                     *)
LEMMA FromSelfTable ==
  ASSUME NEW db, IsCoinTable(db), NEW S, NEW h
  PROVE  IsCoinTable(UpdateCoinsFromSelf(db, S, h))
<1>1. \A c \in DOMAIN db : \A b \in BOOLEAN : [db[c] EXCEPT !.is_from_self = b] \in CoinRow
  BY DEF IsCoinTable, PartialFunction, CoinRow
<1>2. \A c \in DOMAIN db :
        [db[c] EXCEPT !.is_from_self = c \in FromSelf(db, S, h)] \in CoinRow
  <2>1. TAKE c \in DOMAIN db
  <2>2. (c \in FromSelf(db, S, h)) \in BOOLEAN
    OBVIOUS
  <2>3. QED
    BY <1>1, <2>2, Zenon
<1>3. DOMAIN UpdateCoinsFromSelf(db, S, h) = DOMAIN db
  BY DEF UpdateCoinsFromSelf
<1>4. UpdateCoinsFromSelf(db, S, h) \in [DOMAIN db -> CoinRow]
  BY <1>2, Zenon DEF UpdateCoinsFromSelf
<1>5. QED
  BY <1>3, <1>4 DEF IsCoinTable, PartialFunction

(* rollback_tip keeps the type and the rows of the table.                  *)
LEMMA RollbackTable ==
  ASSUME NEW db, IsCoinTable(db), NEW h \in Nat
  PROVE  IsCoinTable(RollbackCoins(db, h)) /\ DOMAIN RollbackCoins(db, h) = DOMAIN db
<1>1. \A c \in DOMAIN db : RollbackCoins(db, h)[c] \in CoinRow
  BY DEF RollbackCoins, IsCoinTable, PartialFunction, CoinRow, Null
<1>2. QED
  BY <1>1 DEF RollbackCoins, IsCoinTable, PartialFunction

(***************************************************************************)
(* What a valid chain confirms                                             *)
(***************************************************************************)

(* What a prefix of a chain confirms.                                      *)
LEMMA PrefixTxs ==
  ASSUME NEW ch \in Tip, NEW n \in 0..Len(ch), NEW t
  PROVE  t \in ChainTxs(SubSeq(ch, 1, n)) <=> \E h \in 1..n : t \in ch[h].txs
BY PrefixBlocks DEF ChainTxs

(* A transaction of a valid chain is in the block of its height only.      *)
LEMMA HeightIsUnique ==
  ASSUME NEW ch \in Tip, ValidChain(ch), NEW t \in ChainTxs(ch)
  PROVE  /\ Len(ch) \in Nat /\ HeightOf(t, ch) \in 1..Len(ch) /\ t \in ch[HeightOf(t, ch)].txs
         /\ \A h \in 1..Len(ch) : t \in ch[h].txs => h = HeightOf(t, ch)
<1>1. \E h \in 1..Len(ch) : t \in ch[h].txs
  BY DEF ChainTxs
<1>2. HeightOf(t, ch) \in 1..Len(ch) /\ t \in ch[HeightOf(t, ch)].txs
  BY <1>1 DEF HeightOf
<1>3. \A h \in 1..Len(ch) : t \in ch[h].txs => h = HeightOf(t, ch)
  BY <1>2 DEF ValidChain
<1>4. QED
  BY <1>2, <1>3, LenProperties DEF Tip

(* A prefix of a valid chain is valid, and confirms what has its height at *)
(* most that of the prefix, with the transactions that it spends from.     *)
LEMMA ValidPrefix ==
  ASSUME NEW ch \in Tip, ValidChain(ch), NEW n \in 0..Len(ch)
  PROVE  LET p == SubSeq(ch, 1, n)
         IN /\ p \in Tip /\ Len(p) = n /\ InChain(p, ch) /\ ValidChain(p)
            /\ \A t \in ChainTxs(ch) : t \in ChainTxs(p) <=> HeightOf(t, ch) <= n
            /\ \A t \in ChainTxs(p) : /\ t \in ChainTxs(ch) /\ HeightOf(t, p) = HeightOf(t, ch)
                                      /\ Parents(t) \subseteq ChainTxs(p)
<1> DEFINE p == SubSeq(ch, 1, n)
<1>1. /\ Len(ch) \in Nat /\ Len(p) = n /\ p \in Tip /\ \A h \in 1..n : p[h] = ch[h]
      /\ 1..n \subseteq 1..Len(ch)
  BY PrefixBlocks, PrefixIsTip
<1> HIDE DEF p
<1>2. InChain(p, ch)
  BY <1>1, InChainBlocks
<1>3. \A t : t \in ChainTxs(p) <=> \E h \in 1..n : t \in ch[h].txs
  BY PrefixTxs DEF p
<1>4. \A t \in ChainTxs(p) : t \in ChainTxs(ch)
  BY <1>1, <1>3 DEF ChainTxs
<1>5. ASSUME NEW t \in ChainTxs(ch)
      PROVE  t \in ChainTxs(p) <=> HeightOf(t, ch) <= n
  BY <1>1, <1>3, HeightIsUnique
<1>6. ASSUME NEW h \in 1..n, NEW t \in ch[h].txs
      PROVE  Parents(t) \subseteq ChainTxs(SubSeq(p, 1, h)) /\ Parents(t) \subseteq ChainTxs(p)
  <2>1. Parents(t) \subseteq ChainTxs(SubSeq(ch, 1, h))
    BY <1>1 DEF ValidChain
  <2>2. \A u : u \in ChainTxs(SubSeq(ch, 1, h)) <=> \E k \in 1..h : u \in ch[k].txs
    BY <1>1, PrefixTxs
  <2>3. \A u : u \in ChainTxs(SubSeq(p, 1, h)) <=> \E k \in 1..h : u \in p[k].txs
    BY <1>1, PrefixTxs
  <2>4. 1..h \subseteq 1..n
    BY <1>1
  <2>5. QED
    BY <1>1, <1>3, <2>1, <2>2, <2>3, <2>4, Zenon
<1>7. ValidChain(p)
  <2>1. \A h, k \in 1..Len(p) : h # k => p[h].txs \cap p[k].txs = {}
    BY <1>1 DEF ValidChain
  <2>2. \A t \in ChainTxs(p) : ~ConflictsWith(t, ChainTxs(p))
    BY <1>4 DEF ValidChain, ConflictsWith
  <2>3. QED
    BY <1>1, <1>6, <2>1, <2>2 DEF ValidChain
<1>8. \A t \in ChainTxs(p) : HeightOf(t, p) = HeightOf(t, ch)
  BY <1>1, <1>2, HeightStays DEF ValidChain, OnceEach
<1>9. QED
  BY <1>1, <1>2, <1>3, <1>4, <1>5, <1>6, <1>7, <1>8, Zenon DEF p

(* The fork point is the same prefix of both chains.                       *)
LEMMA ForkIsShared ==
  ASSUME NEW a \in Tip, NEW b \in Tip
  PROVE  LET f == ForkHeight(a, b)
         IN f \in 0..Len(a) /\ f \in 0..Len(b) /\ SubSeq(a, 1, f) = SubSeq(b, 1, f)
<1> DEFINE f == ForkHeight(a, b)
           S == {h \in 1..Len(a) : h <= Len(b) /\ SubSeq(a, 1, h) = SubSeq(b, 1, h)}
<1>1. f \in 0..Len(a) /\ f \in 0..Len(b) /\ Len(a) \in Nat /\ Len(b) \in Nat
  BY ForkHeightBounds, LenProperties DEF Tip
<1>2. f = Cardinality(S)
  BY DEF ForkHeight
<1>3. CASE f = 0
  <2>1. /\ SubSeq(a, 1, 0) \in Seq(Block) /\ Len(SubSeq(a, 1, 0)) = 0
        /\ SubSeq(b, 1, 0) \in Seq(Block) /\ Len(SubSeq(b, 1, 0)) = 0
    BY <1>1, PrefixBlocks, PrefixIsTip DEF Tip
  <2>2. SubSeq(a, 1, 0) = SubSeq(b, 1, 0)
    BY <2>1, SeqEqual
  <2>3. QED
    BY <1>1, <1>3, <2>2
<1>4. CASE f # 0
  <2>1. f \in Nat \ {0} /\ f \in 1..Len(a) /\ f <= Len(b)
    BY <1>1, <1>4
  <2>2. SUFFICES ASSUME f \notin S PROVE FALSE
    BY <1>1, <2>1
  <2>3. ASSUME NEW h \in S PROVE h \in 1..(f - 1)
    <3>1. SUFFICES ASSUME h >= f PROVE FALSE
      BY <1>1, <2>1
    <3>2. \A k \in 1..h : a[k] = b[k]
      <4>1. h \in 0..Len(a) /\ h \in 0..Len(b) /\ SubSeq(a, 1, h) = SubSeq(b, 1, h)
        BY <1>1
      <4>2. QED
        BY <4>1, PrefixBlocks
    <3>3. SubSeq(a, 1, f) = SubSeq(b, 1, f)
      <4>1. f \in 0..Len(a) /\ f \in 0..Len(b) /\ 1..f \subseteq 1..h
        BY <1>1, <3>1
      <4>2. /\ SubSeq(a, 1, f) \in Seq(Block) /\ SubSeq(b, 1, f) \in Seq(Block)
            /\ Len(SubSeq(a, 1, f)) = f /\ Len(SubSeq(b, 1, f)) = f
            /\ \A k \in 1..f : SubSeq(a, 1, f)[k] = a[k] /\ SubSeq(b, 1, f)[k] = b[k]
        BY <4>1, PrefixBlocks, PrefixIsTip DEF Tip
      <4> HIDE DEF f
      <4>3. \A k \in 1..f : SubSeq(a, 1, f)[k] = SubSeq(b, 1, f)[k]
        BY <3>2, <4>1, <4>2
      <4>4. QED
        BY <4>2, <4>3, SeqEqual, Zenon
    <3>4. QED
      BY <2>1, <2>2, <3>3
  <2>4. S \subseteq 1..(f - 1) /\ f - 1 \in Nat
    BY <2>1, <2>3
  <2>5. IsFiniteSet(1..(f - 1)) /\ Cardinality(1..(f - 1)) = f - 1
    BY <2>4, IntervalSize
  <2>6. Cardinality(S) <= f - 1
    BY <2>4, <2>5, FS_Subset
  <2>7. QED
    BY <1>2, <2>1, <2>6
<1>5. QED
  BY <1>1, <1>3, <1>4

(* The coins that a chain spends.                                          *)
SpentIn(ch) == {c \in Coins : \E t \in ChainTxs(ch) : c \in Ins[t]}

(* What spends from a transaction is confirmed after it.                   *)
LEMMA SpentIsConfirmed ==
  ASSUME NEW ch \in Tip, ValidChain(ch), NEW c \in SpentIn(ch)
  PROVE  TxOf[c] \in ChainTxs(ch)
<1>1. PICK t \in ChainTxs(ch) : c \in Ins[t]
  BY DEF SpentIn
<1>2. PICK h \in 1..Len(ch) : t \in ch[h].txs
  BY DEF ChainTxs
<1>3. TxOf[c] \in ChainTxs(SubSeq(ch, 1, h))
  BY <1>1, <1>2 DEF ValidChain, Parents
<1>4. h \in 0..Len(ch) /\ 1..h \subseteq 1..Len(ch)
  BY LenProperties DEF Tip
<1>5. QED
  BY <1>3, <1>4, PrefixTxs DEF ChainTxs

(***************************************************************************)
(* What a table says of a chain                                            *)
(***************************************************************************)

(* A block that the table names is the one where the chain has it.         *)
Sound(db, ch) ==
  \A c \in DOMAIN db :
    /\ db[c].blockheight # Null =>
         TxOf[c] \in ChainTxs(ch) /\ db[c].blockheight = HeightOf(TxOf[c], ch)
    /\ db[c].spend_block_height # Null =>
         \E t \in ChainTxs(ch) :
           c \in Ins[t] /\ db[c].spend_txid = t /\ db[c].spend_block_height = HeightOf(t, ch)

(* What a table says of a chain stays true when the chain grows.           *)
LEMMA SoundGrows ==
  ASSUME NEW a \in Tip, NEW b \in Tip, InChain(a, b), ValidChain(b), NEW db, Sound(db, a)
  PROVE  Sound(db, b)
<1>1. \A t \in ChainTxs(a) : t \in ChainTxs(b) /\ HeightOf(t, b) = HeightOf(t, a)
  BY HeightStays, Zenon DEF ValidChain, OnceEach
<1>2. QED
  BY <1>1, Zenon DEF Sound

(***************************************************************************)
(* The marks of update_coins_from_self                                     *)
(***************************************************************************)

(* A transaction that spends nothing but coins of the wallet.              *)
SelfTx(t) == Cardinality(Ins[t]) = NumInputs[t]

(* A row names a spend of its coin, and is marked only when it should be.  *)
Marked(db) ==
  \A c \in DOMAIN db : /\ db[c].spend_txid # NoTx => c \in Ins[db[c].spend_txid]
                       /\ db[c].is_from_self => SelfTx(TxOf[c])

(* A mark is sound whatever the table holds: no input that is not the      *)
(* wallet's is ever counted.                                               *)
LEMMA MarksAreSelf ==
  ASSUME NEW db, IsCoinTable(db), Marked(db), NEW S, NEW prev, NEW c \in FromSelf(db, S, prev)
  PROVE  c \in DOMAIN db /\ SelfTx(TxOf[c])
<1> DEFINE self == {x \in DOMAIN db : SelfTx(TxOf[x])}
<1>1. ASSUME NEW x \in DOMAIN db, Cardinality(CountedInputs(db, TxOf[x], self, prev)) = NumInputs[TxOf[x]]
      PROVE  x \in self
  <2> DEFINE t == TxOf[x]
             counted == CountedInputs(db, t, self, prev)
  <2>1. t \in Txs /\ t # NoTx
    BY TxAssumption DEF IsCoinTable, PartialFunction
  <2>2. counted \subseteq Ins[t]
    BY <2>1, Zenon DEF CountedInputs, Marked
  <2>3. IsFiniteSet(Ins[t])
    BY <2>1, TxAssumption, FS_Subset, Zenon
  <2>4. Cardinality(Ins[t]) \in Nat /\ Cardinality(counted) \in Nat /\ Cardinality(counted) <= Cardinality(Ins[t])
    BY <2>2, <2>3, FS_Subset, FS_CardinalityType, Zenon
  <2>5. NumInputs[t] \in Nat /\ Cardinality(Ins[t]) <= NumInputs[t]
    BY <2>1, TxAssumption, Zenon
  <2>6. QED
    BY <1>1, <2>4, <2>5 DEF SelfTx
<1>2. {x \in DOMAIN db : db[x].is_from_self} \subseteq self
  BY DEF Marked
<1>3. self \in SUBSET DOMAIN db
  OBVIOUS
<1>4. c \in self
  BY <1>1, <1>2, <1>3, Zenon DEF FromSelf
<1>5. QED
  BY <1>4, Zenon

(* A mark stays.                                                           *)
LEMMA MarksStay ==
  ASSUME NEW db, NEW S, NEW prev, NEW c \in DOMAIN db, db[c].is_from_self
  PROVE  c \in FromSelf(db, S, prev)
BY DEF FromSelf
=============================================================================
