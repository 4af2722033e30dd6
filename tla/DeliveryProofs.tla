--------------------------- MODULE DeliveryProofs ---------------------------
(* What a completed rescan and an acknowledged replay have delivered, for  *)
(* any wallet, chain and number of reorganisations, rewinds, failed polls  *)
(* and stops: the part of the poller's proofs that needs what the node     *)
(* does between two reads.                                                 *)
EXTENDS PollerProofs

(***************************************************************************)
(* The inductive invariant                                                 *)
(***************************************************************************)

(* target was the chain of the node, and never will be again.              *)
Lost ==
  \E k \in 1..Len(target) :
    /\ target[k].branch < reorgs
    /\ k > Len(chain) \/ chain[k].branch > target[k].branch

Numbered(ch) == \A h \in 1..Len(ch) : ch[h].branch <= reorgs

(* The wallet's records have what the blocks from a date on pay to it.     *)
Scanned(ts) ==
  \A h \in 1..Len(chain) : h >= ts =>
    \A c \in Coins : TxOf[c] \in chain[h].txs => TxOf[c] \in known

(* A date that start_rescan has given to the node, or to the database, is  *)
(* the one of the scan that runs or of one that ended.                     *)
NodeInv ==
  /\ Numbered(chain) /\ OnceEach(chain)
  /\ owed \subseteq known
  /\ \A r \in Rpcs : rpc[r].at = "started" => scanning = rpc[r].ts \/ Scanned(rpc[r].ts)
  /\ rescan_timestamp # Null => scanning = rescan_timestamp \/ Scanned(rescan_timestamp)

(* While a poll reads, its target is below the node's tip or lost.         *)
TargetInv ==
  /\ Numbered(target) /\ OnceEach(target)
  /\ pc \in {"received", "confirmed", "spending", "spent", "recheck"} =>
       InChain(target, chain) \/ Lost
  /\ pc \in {"complete_rescan", "finish"} => tip = target

(* A poll that completes a rescan, with no command beside it, looks from   *)
(* below the rescan's date on.                                             *)
Below(t) == Len(t) = 0 \/ Len(t) < rescan_timestamp
RescanInv ==
  /\ pc \in {"idle", "marker"} => completed = FALSE
  /\ ~RpcDuringPoll =>
       /\ pc # "idle" => \A r \in Rpcs : rpc[r] = IdleRpc
       /\ pc = "marker" \/ completed => scanning = Null
       /\ completed /\ pc = "rollback" => Below(target)
       /\ completed /\ pc \in {"new_tip", "received"} => Below(tip)

TicketInv == ticket <= requested /\ (ticket # 0 => acknowledged < ticket)

(* The coins that this poll has to have stored when it ends.               *)
Due ==
  {c \in Coins :
     /\ TxOf[c] \in ChainTxs(target)
     /\ \/ ticket # 0 /\ ticket = requested /\ TxOf[c] \in owed
        \/ /\ ~RpcDuringPoll /\ completed /\ rescan_timestamp # Null
           /\ HeightOf(TxOf[c], target) >= rescan_timestamp}
NoneExpired == \A c \in upd.expired : TxOf[c] \notin ChainTxs(target)

(* They are stored or listed, and not to be removed, once they have been   *)
(* asked for; while the poll reads, unless its target is lost.             *)
DueInv ==
  /\ pc \in {"confirmed", "spending", "spent", "recheck"} =>
       Lost \/ Due \subseteq DOMAIN coins \cup upd.received
  /\ pc \in {"new_txs", "new_unspent"} => Due \subseteq DOMAIN coins \cup upd.received
  /\ pc \in Writes \ {"new_txs", "new_unspent"} => Due \subseteq DOMAIN coins
  /\ pc \in {"spending", "spent", "recheck"} => Lost \/ NoneExpired
  /\ pc \in {"new_txs", "new_unspent", "remove"} => NoneExpired

PollInv == TargetInv /\ RescanInv /\ TicketInv /\ DueInv

(* The invariant holds at the start.                                       *)
LEMMA StartsDelivered == Init => NodeInv /\ PollInv
<1>1. SUFFICES ASSUME Init PROVE NodeInv /\ PollInv
  OBVIOUS
<1>2. 1..Len(target) = {}
  BY <1>1 DEF Init, Genesis
<1>3. Numbered(chain) /\ OnceEach(chain)
  BY <1>1, PollerAssumption DEF Init, Numbered, OnceEach, ValidChain
<1>4. NodeInv
  BY <1>1, <1>3 DEF Init, NodeInv, IdleRpc
<1>5. TargetInv
  BY <1>1, <1>2 DEF Init, TargetInv, Numbered, OnceEach
<1>6. RescanInv
  BY <1>1 DEF Init, RescanInv
<1>7. TicketInv /\ DueInv
  BY <1>1 DEF Init, TicketInv, DueInv, Writes
<1>8. QED
  BY <1>4, <1>5, <1>6, <1>7, Zenon DEF PollInv

(* start_rescan never stores a NULL for the date.                          *)
LEMMA DatesAreSet ==
  ASSUME IInv, NEW r \in Rpcs, SetRescan(r)
  PROVE  rescan_timestamp' # Null
BY DEF SetRescan, IInv, TypeOK, RpcState, Null

(***************************************************************************)
(* What the node's steps keep                                              *)
(***************************************************************************)

(* A target that the node has left stays lost.                             *)
LEMMA LostStays ==
  ASSUME IInv, NodeInv, Numbered(target), NodeNext, UNCHANGED target
  PROVE  /\ Lost => Lost'
         /\ InChain(target, chain) => InChain(target, chain)' \/ Lost'
         /\ Numbered(target)'
<1>1. /\ chain \in Tip /\ target \in Tip /\ Len(chain) \in Nat /\ Len(target) \in Nat
      /\ NodeTypeOK /\ reorgs \in Nat /\ \A h \in 1..Len(target) : target[h].branch \in Nat
  <2>1. chain \in Tip /\ target \in Tip /\ NodeTypeOK /\ reorgs \in Nat
    BY DEF IInv, TypeOK, NodeTypeOK
  <2>2. QED
    BY <2>1, BranchTypes
<1>2. chain' \in Tip /\ Len(chain') \in Nat
  BY <1>1, NodeTypes, LenProperties, Zenon DEF NodeTypeOK, Tip
<1>3. PICK n \in 0..Len(chain) :
        /\ n <= Len(chain') /\ \A h \in 1..n : chain'[h] = chain[h]
        /\ reorgs' = IF n < Len(chain) THEN reorgs + 1 ELSE reorgs
        /\ \A h \in (n + 1)..Len(chain') : chain'[h].branch = reorgs'
  BY <1>1, ChainMoves DEF NodeInv
<1>4. reorgs' \in Nat /\ reorgs <= reorgs'
  BY <1>1, <1>3
<1>5. ASSUME NEW k \in 1..Len(target), n < k, target[k].branch < reorgs'
      PROVE  k > Len(chain') \/ chain'[k].branch > target[k].branch
  <2>1. k > Len(chain') \/ k \in (n + 1)..Len(chain')
    BY <1>1, <1>2, <1>5
  <2>2. k \in (n + 1)..Len(chain') => chain'[k].branch = reorgs'
    BY <1>3
  <2>3. chain'[k].branch = reorgs' => chain'[k].branch > target[k].branch
    BY <1>1, <1>4, <1>5, Zenon
  <2>4. QED
    BY <2>1, <2>2, <2>3, Zenon
<1>6. ASSUME Lost PROVE Lost'
  <2>1. PICK k \in 1..Len(target) : /\ target[k].branch < reorgs
                                    /\ k > Len(chain) \/ chain[k].branch > target[k].branch
    BY <1>6 DEF Lost
  <2>2. target[k].branch < reorgs'
    BY <1>1, <1>4, <2>1
  <2>3. k > Len(chain') \/ chain'[k].branch > target[k].branch
    <3>1. CASE k <= n
      BY <1>1, <1>3, <2>1, <3>1
    <3>2. CASE n < k
      BY <1>5, <2>2, <3>2, Zenon
    <3>3. QED
      BY <1>1, <1>3, <3>1, <3>2
  <2>4. QED
    BY <2>2, <2>3, Zenon DEF Lost
<1>7. ASSUME InChain(target, chain) PROVE InChain(target, chain)' \/ Lost'
  <2>1. Len(target) <= Len(chain) /\ \A h \in 1..Len(target) : chain[h] = target[h]
    BY <1>1, <1>7, InChainBlocks, Zenon
  <2>2. CASE Len(target) <= n
    <3>1. Len(target) <= Len(chain') /\ \A h \in 1..Len(target) : chain'[h] = target[h]
      BY <1>1, <1>2, <1>3, <2>1, <2>2
    <3>2. QED
      BY <1>1, <1>2, <3>1, InChainBlocks, Zenon
  <2>3. CASE n < Len(target)
    <3>1. n + 1 \in 1..Len(target) /\ n < n + 1 /\ reorgs' = reorgs + 1
      BY <1>1, <1>3, <2>1, <2>3
    <3>2. target[n + 1].branch < reorgs'
      BY <1>1, <3>1 DEF Numbered
    <3>3. QED
      BY <1>5, <3>1, <3>2, Zenon DEF Lost
  <2>4. QED
    BY <1>1, <2>2, <2>3
<1>8. Numbered(target)'
  BY <1>1, <1>4 DEF Numbered
<1>9. QED
  BY <1>6, <1>7, <1>8, Zenon

(* Every step of the node keeps what is scanned, and the end of a scan     *)
(* makes it so.                                                            *)
LEMMA NodeKeepsScanned ==
  ASSUME IInv, NodeInv, NodeNext, NEW ts \in Nat, scanning = ts \/ Scanned(ts)
  PROVE  (scanning = ts \/ Scanned(ts))'
<1>1. /\ chain \in Tip /\ Len(chain) \in Nat /\ NodeTypeOK /\ OnceEach(chain)
  BY LenProperties DEF IInv, TypeOK, NodeTypeOK, Tip, NodeInv
<1>2. Len(chain') \in Nat
  BY <1>1, NodeTypes, LenProperties, Zenon DEF NodeTypeOK, Tip
<1>3. PICK n \in 0..Len(chain) :
        /\ \A h \in 1..n : chain'[h] = chain[h]
        /\ \A h \in (n + 1)..Len(chain') :
             \A c \in Coins : TxOf[c] \in chain'[h].txs => TxOf[c] \in known'
  BY <1>1, ChainMoves, Zenon
<1>4. known \subseteq known'
  BY <1>1, ChainMoves
<1>5. CASE Scanned(ts)
  <2>1. \A h \in 1..Len(chain') : h <= n \/ h \in (n + 1)..Len(chain')
    BY <1>1, <1>2
  <2>2. \A h \in 1..Len(chain') : h <= n => h \in 1..n /\ h \in 1..Len(chain)
    BY <1>1, <1>2
  <2>3. Scanned(ts)'
    BY <1>3, <1>4, <1>5, <2>1, <2>2, Zenon DEF Scanned
  <2>4. QED
    BY <2>3
<1>6. CASE scanning = ts /\ RescanFinished
  <2>1. chain' = chain
    BY <1>6 DEF RescanFinished
  <2>2. ASSUME NEW h \in 1..Len(chain), h >= ts, NEW c \in Coins, TxOf[c] \in chain[h].txs
        PROVE  TxOf[c] \in known'
    BY <1>6, <2>2 DEF RescanFinished, Recorded
  <2>3. QED
    BY <2>1, <2>2 DEF Scanned
<1>7. CASE scanning = ts /\ ~RescanFinished
  BY <1>7, Zenon DEF NodeNext, Broadcast, Evict, Mine, Reorg, Rewind
<1>8. QED
  BY <1>5, <1>6, <1>7, Zenon

(* What no step of a poll touches.                                         *)
LEMMA PollFrame ==
  ASSUME PollStep \/ ReadFails \/ RequestReplay \/ UNCHANGED vars
  PROVE  /\ UNCHANGED <<nodeVars, rpc>> /\ owed' \in {owed, known}
         /\ rescan_timestamp' \in {rescan_timestamp, Null}
<1>1. CASE ReadFails \/ RequestReplay \/ UNCHANGED vars
  BY <1>1, Zenon DEF ReadFails, RequestReplay, vars, dbVars, modelVars
<1>2. CASE BeginPoll \/ ReadMarker \/ RollbackToRescan \/ TipProgress \/ TipReorged \/ TipRefused
  BY <1>2, Zenon DEF BeginPoll, ReadMarker, RollbackToRescan, TipProgress, TipReorged, TipRefused,
     RollbackTip, dbVars, modelVars
<1>3. CASE ReadReceived \/ ReadConfirmed \/ ReadSpending \/ ReadSpent \/ Recheck \/ Panic
  BY <1>3, Zenon DEF ReadReceived, ReadConfirmed, ReadSpending, ReadSpent, Recheck, Panic, dbVars, modelVars
<1>4. CASE NewTxs \/ UpdateTip \/ CompleteRescan \/ FinishPoll
  BY <1>4, Zenon DEF NewTxs, UpdateTip, CompleteRescan, FinishPoll, dbVars, modelVars
<1>5. CASE \/ WriteNewUnspent \/ WriteRemove \/ WriteConfirm \/ WriteUnspend \/ WriteSpend
           \/ WriteConfirmSpend \/ WriteFromSelf
  BY <1>5 DEF WriteNewUnspent, WriteRemove, WriteConfirm, WriteUnspend, WriteSpend, WriteConfirmSpend,
     WriteFromSelf, WriteCoins, modelVars
<1>6. QED
  BY <1>1, <1>2, <1>3, <1>4, <1>5, Zenon DEF PollStep

(* The steps of the poll, of the commands and of the node keep NodeInv.    *)
LEMMA NodeInvKeeps ==
  ASSUME IInv, NodeInv, [Next]_vars
  PROVE  NodeInv'
<1>1. rpc \in [Rpcs -> RpcState] /\ rescan_timestamp \in Nat \cup {Null}
  BY DEF IInv, TypeOK
<1>2. ASSUME UNCHANGED <<chain, known, reorgs, scanning, rpc>>, owed' \in {owed, known},
             rescan_timestamp' \in {rescan_timestamp, Null}
      PROVE  NodeInv'
  <2>1. \A ts : Scanned(ts)' <=> Scanned(ts)
    BY <1>2 DEF Scanned
  <2>2. Numbered(chain)' /\ OnceEach(chain)' /\ owed' \subseteq known'
    BY <1>2 DEF NodeInv, Numbered, OnceEach
  <2>3. QED
    BY <1>2, <2>1, <2>2 DEF NodeInv
<1>3. CASE PollStep \/ ReadFails \/ RequestReplay \/ UNCHANGED vars
  <2>1. /\ UNCHANGED <<nodeVars, rpc>> /\ owed' \in {owed, known}
        /\ rescan_timestamp' \in {rescan_timestamp, Null}
    BY <1>3, PollFrame
  <2>2. QED
    BY <1>2, <2>1 DEF nodeVars
<1>4. CASE Restart
  <2>1. /\ UNCHANGED <<chain, known, reorgs, scanning, rescan_timestamp>> /\ owed' = known
        /\ rpc' = [r \in Rpcs |-> IdleRpc]
    BY <1>4 DEF Restart, nodeVars, dbVars
  <2>2. \A ts : Scanned(ts)' <=> Scanned(ts)
    BY <2>1 DEF Scanned
  <2>3. Numbered(chain)' /\ OnceEach(chain)' /\ owed' \subseteq known'
    BY <2>1 DEF NodeInv, Numbered, OnceEach
  <2>4. \A r \in Rpcs : rpc'[r].at # "started"
    BY <2>1 DEF IdleRpc
  <2>5. QED
    BY <2>1, <2>2, <2>3, <2>4, Zenon DEF NodeInv
<1>5. ASSUME NEW r \in Rpcs, NEW ts \in 0..MaxHeight, CheckRescan(r, ts) PROVE NodeInv'
  <2>1. /\ UNCHANGED <<chain, known, reorgs, scanning, rescan_timestamp, owed>>
        /\ rpc' = [rpc EXCEPT ![r] = [at |-> "checked", ts |-> ts]]
    BY <1>5 DEF CheckRescan, nodeVars, dbVars, modelVars
  <2>2. \A x : Scanned(x)' <=> Scanned(x)
    BY <2>1, Zenon DEF Scanned
  <2>3. Numbered(chain)' /\ OnceEach(chain)' /\ owed' \subseteq known'
    BY <2>1 DEF NodeInv, Numbered, OnceEach
  <2>4. \A q \in Rpcs : rpc'[q].at = "started" => rpc'[q] = rpc[q]
    BY <1>1, <2>1, Zenon
  <2>5. QED
    BY <2>1, <2>2, <2>3, <2>4, Zenon DEF NodeInv
<1>6. ASSUME NEW r \in Rpcs, StartRescan(r) PROVE NodeInv'
  <2>1. UNCHANGED <<chain, known, reorgs, rescan_timestamp, owed>>
    BY <1>6 DEF StartRescan, dbVars, modelVars
  <2>2. \A x : Scanned(x)' <=> Scanned(x)
    BY <2>1 DEF Scanned
  <2>3. Numbered(chain)' /\ OnceEach(chain)' /\ owed' \subseteq known'
    BY <2>1 DEF NodeInv, Numbered, OnceEach
  <2>4. \A x \in Nat : scanning = x \/ Scanned(x) => scanning' = x \/ Scanned(x)
    BY <1>6 DEF StartRescan, Null
  <2>5. \A q \in Rpcs : rpc'[q].at = "started" =>
          /\ rpc'[q].ts \in Nat
          /\ scanning' = rpc'[q].ts \/ (rpc'[q] = rpc[q])
    BY <1>1, <1>6 DEF StartRescan, RpcState, IdleRpc
  <2>6. QED
    BY <1>1, <2>1, <2>2, <2>3, <2>4, <2>5, Zenon DEF NodeInv
<1>7. ASSUME NEW r \in Rpcs, SetRescan(r) PROVE NodeInv'
  <2>1. /\ UNCHANGED <<chain, known, reorgs, scanning, owed>> /\ rescan_timestamp' = rpc[r].ts
        /\ rpc[r].at = "started" /\ rpc' = [rpc EXCEPT ![r] = IdleRpc]
    BY <1>7 DEF SetRescan, nodeVars, modelVars
  <2>2. \A x : Scanned(x)' <=> Scanned(x)
    BY <2>1 DEF Scanned
  <2>3. Numbered(chain)' /\ OnceEach(chain)' /\ owed' \subseteq known'
    BY <2>1, Zenon DEF NodeInv, Numbered, OnceEach
  <2>4. \A q \in Rpcs : rpc'[q].at = "started" => rpc'[q] = rpc[q]
    BY <1>1, <2>1, Zenon DEF IdleRpc
  <2>5. QED
    BY <2>1, <2>2, <2>3, <2>4, Zenon DEF NodeInv
<1>8. CASE EnvStep
  <2>1. /\ NodeNext /\ UNCHANGED <<rpc, rescan_timestamp, owed>>
    BY <1>8 DEF EnvStep, dbVars, modelVars
  <2>2. NodeTypeOK /\ Len(chain) \in Nat /\ reorgs \in Nat
    BY LenProperties DEF IInv, TypeOK, NodeTypeOK, Tip
  <2>3. OnceEach(chain)' /\ known \subseteq known'
    BY <2>1, <2>2, ChainMoves DEF NodeInv
  <2>4. Numbered(chain)'
    <3>1. PICK n \in 0..Len(chain) :
            /\ \A h \in 1..n : chain'[h] = chain[h]
            /\ reorgs' = IF n < Len(chain) THEN reorgs + 1 ELSE reorgs
            /\ \A h \in (n + 1)..Len(chain') : chain'[h].branch = reorgs'
      BY <2>1, <2>2, ChainMoves, Zenon DEF NodeInv
    <3>2. /\ reorgs' \in Nat /\ reorgs <= reorgs' /\ Len(chain') \in Nat
          /\ \A h \in 1..Len(chain) : chain[h].branch \in Nat
      <4>1. NodeTypeOK'
        BY <2>1, <2>2, NodeTypes, Zenon
      <4>2. QED
        BY <2>2, <3>1, <4>1, BranchTypes DEF NodeTypeOK
    <3>3. ASSUME NEW h \in 1..Len(chain') PROVE chain'[h].branch <= reorgs'
      <4>1. CASE h <= n
        <5>1. h \in 1..n /\ h \in 1..Len(chain)
          BY <2>2, <3>2, <4>1
        <5>2. chain'[h].branch = chain[h].branch /\ chain[h].branch <= reorgs
          BY <3>1, <5>1, Zenon DEF NodeInv, Numbered
        <5>3. QED
          BY <2>2, <3>2, <5>1, <5>2
      <4>2. CASE h > n
        BY <2>2, <3>1, <3>2, <4>2
      <4>3. QED
        BY <2>2, <3>2, <4>1, <4>2
    <3>4. QED
      BY <3>3, Zenon DEF Numbered
  <2>5. \A r \in Rpcs : rpc[r].at = "started" => (scanning = rpc[r].ts \/ Scanned(rpc[r].ts))'
    <3>1. ASSUME NEW r \in Rpcs, rpc[r].at = "started" PROVE (scanning = rpc[r].ts \/ Scanned(rpc[r].ts))'
      <4>1. rpc[r].ts \in Nat /\ (scanning = rpc[r].ts \/ Scanned(rpc[r].ts))
        BY <1>1, <3>1, Zenon DEF NodeInv, RpcState
      <4> DEFINE x == rpc[r].ts
      <4>2. x' = x
        BY <2>1
      <4>3. scanning' = x \/ \A h \in 1..Len(chain') : h >= x =>
                 \A c \in Coins : TxOf[c] \in chain'[h].txs => TxOf[c] \in known'
        BY <2>1, <4>1, NodeKeepsScanned, Zenon DEF Scanned
      <4>4. QED
        BY <4>2, <4>3, Zenon DEF Scanned
    <3>2. QED
      BY <3>1, Zenon
  <2>6. rescan_timestamp # Null =>
          (scanning = rescan_timestamp \/ Scanned(rescan_timestamp))'
    BY <1>1, <2>1, NodeKeepsScanned, Zenon DEF NodeInv, Scanned
  <2>7. QED
    BY <2>1, <2>3, <2>4, <2>5, <2>6, Zenon DEF NodeInv
<1>9. QED
  BY <1>3, <1>4, <1>5, <1>6, <1>7, <1>8, Zenon DEF Next, RpcStep

(* A poll that ends owes nothing.                                          *)
LEMMA LeavingKeeps ==
  ASSUME LeavePoll, requested' \in Nat
  PROVE  PollInv'
<1>1. pc' = "idle" /\ ticket' = 0 /\ completed' = FALSE /\ target' = Genesis
  BY DEF LeavePoll
<1>2. 1..Len(target') = {}
  BY <1>1 DEF Genesis
<1>3. TargetInv'
  BY <1>1, <1>2, Zenon DEF TargetInv, Numbered, OnceEach
<1>4. RescanInv'
  BY <1>1 DEF RescanInv
<1>5. TicketInv'
  BY <1>1 DEF TicketInv
<1>6. DueInv'
  BY <1>1 DEF DueInv, Writes
<1>7. QED
  BY <1>3, <1>4, <1>5, <1>6, Zenon DEF PollInv

(* A read or a write of a poll leaves alone what the poll aims at.         *)
LEMMA OnwardKeeps ==
  ASSUME PollInv,
         UNCHANGED <<chain, reorgs, scanning, rpc, ticket, requested, acknowledged, owed, target,
                     completed, rescan_timestamp>>,
         pc \notin {"idle", "marker"},
         pc' \in {"confirmed", "spending", "spent", "recheck", "panicked"} \cup Writes,
         pc' \in {"confirmed", "spending", "spent", "recheck"} =>
           pc \in {"received", "confirmed", "spending", "spent"},
         pc' \in {"complete_rescan", "finish"} => tip' = target
  PROVE  TargetInv' /\ RescanInv' /\ TicketInv' /\ (Lost' <=> Lost) /\ Due' = Due
<1>1. (Lost' <=> Lost) /\ Due' = Due
  BY DEF Lost, Due
<1>2. InChain(target, chain)' <=> InChain(target, chain)
  BY Zenon
<1>3. Numbered(target)' /\ OnceEach(target)'
  BY DEF PollInv, TargetInv, Numbered, OnceEach
<1>4. TargetInv'
  BY <1>1, <1>2, <1>3, Zenon DEF PollInv, TargetInv, Writes
<1>5. RescanInv'
  BY DEF PollInv, RescanInv, Writes
<1>6. TicketInv'
  BY DEF PollInv, TicketInv
<1>7. QED
  BY <1>1, <1>4, <1>5, <1>6, Zenon

(* The beginning of a poll.                                                *)
LEMMA BeginKeeps ==
  ASSUME IInv, PollInv, BeginPoll
  PROVE  PollInv'
<1>1. /\ pc = "idle" /\ pc' = IF scanning # Null THEN "new_tip" ELSE "marker"
      /\ RpcDuringPoll \/ \A r \in Rpcs : rpc[r] = IdleRpc
      /\ ticket' = IF requested > acknowledged THEN requested ELSE 0
      /\ UNCHANGED <<chain, reorgs, scanning, rpc, requested, acknowledged, target, completed>>
  BY Zenon DEF BeginPoll, ReplayPending, nodeVars, sharedVars
<1>2. completed = FALSE /\ requested \in Nat /\ acknowledged \in Nat
  BY <1>1, Zenon DEF IInv, TypeOK, PollInv, RescanInv
<1>3. TargetInv'
  BY <1>1, Zenon DEF PollInv, TargetInv, Numbered, OnceEach
<1>4. RescanInv'
  BY <1>1, <1>2, Zenon DEF RescanInv
<1>5. TicketInv'
  BY <1>1, <1>2 DEF TicketInv
<1>6. DueInv'
  BY <1>1 DEF DueInv, Writes
<1>7. QED
  BY <1>3, <1>4, <1>5, <1>6, Zenon DEF PollInv

(* observe_rescan takes a block below the rescan's date.                   *)
LEMMA MarkerKeeps ==
  ASSUME IInv, NodeInv, PollInv, ReadMarker
  PROVE  PollInv'
<1>1. /\ pc = "marker" /\ chain \in Tip /\ Len(chain) \in Nat /\ completed = FALSE
      /\ UNCHANGED <<nodeVars, dbVars, sharedVars, rpc, modelVars, bounds>>
      /\ rescan_timestamp \in Nat \cup {Null} /\ requested \in Nat
  BY LenProperties, Zenon DEF ReadMarker, IInv, TypeOK, NodeTypeOK, Tip, PollInv, RescanInv
<1>2. CASE rescan_timestamp = Null /\ pc' = "new_tip" /\ UNCHANGED <<ticket, completed, target, upd>>
  <2>1. TargetInv'
    BY <1>1, <1>2, Zenon DEF PollInv, TargetInv, Numbered, OnceEach, nodeVars
  <2>2. RescanInv'
    BY <1>1, <1>2, Zenon DEF PollInv, RescanInv
  <2>3. TicketInv'
    BY <1>1, <1>2, Zenon DEF PollInv, TicketInv, sharedVars
  <2>4. DueInv'
    BY <1>2, Zenon DEF DueInv, Writes
  <2>5. QED
    BY <2>1, <2>2, <2>3, <2>4, Zenon DEF PollInv
<1>3. CASE /\ rescan_timestamp # Null /\ rescan_timestamp < Len(chain)
           /\ pc' = "rollback" /\ completed' = TRUE
           /\ target' = BlockBefore(rescan_timestamp) /\ UNCHANGED <<ticket, upd>>
  <2> DEFINE n == IF rescan_timestamp = 0 THEN 0 ELSE rescan_timestamp - 1
  <2>1. n \in 0..Len(chain) /\ target' = SubSeq(chain, 1, n) /\ (n = 0 \/ n < rescan_timestamp)
    BY <1>1, <1>3 DEF BlockBefore
  <2>2. Len(target') = n /\ (\A h \in 1..n : target'[h] = chain[h]) /\ 1..n \subseteq 1..Len(chain)
    BY <1>1, <2>1, PrefixBlocks
  <2> HIDE DEF n
  <2>3. TargetInv'
    BY <1>1, <1>3, <2>2, Zenon DEF TargetInv, NodeInv, Numbered, OnceEach, nodeVars
  <2>4. RescanInv'
    <3>1. Below(target)'
      BY <1>1, <2>1, <2>2, Zenon DEF Below, dbVars
    <3>2. QED
      BY <1>1, <1>3, <3>1, Zenon DEF PollInv, RescanInv, nodeVars
  <2>5. TicketInv'
    BY <1>1, <1>3, Zenon DEF PollInv, TicketInv, sharedVars
  <2>6. DueInv'
    BY <1>3, Zenon DEF DueInv, Writes
  <2>7. QED
    BY <2>3, <2>4, <2>5, <2>6 DEF PollInv
<1>4. CASE LeavePoll
  BY <1>1, <1>4, LeavingKeeps, Zenon DEF sharedVars
<1>5. QED
  BY <1>2, <1>3, <1>4, Zenon DEF ReadMarker

(* The rollback for a rescan, and a target read from the node.             *)
LEMMA TargetKeeps ==
  ASSUME IInv, NodeInv, PollInv, RollbackToRescan \/ TipProgress
  PROVE  PollInv'
<1>1. /\ UNCHANGED <<nodeVars, ticket, completed, sharedVars, rpc>> /\ rescan_timestamp' = rescan_timestamp
      /\ chain \in Tip /\ Len(chain) \in Nat
  BY LenProperties, Zenon DEF RollbackToRescan, TipProgress, RollbackTip, dbVars, IInv, TypeOK, NodeTypeOK, Tip
<1>2. TicketInv'
  BY <1>1, Zenon DEF PollInv, TicketInv, sharedVars
<1>3. CASE RollbackToRescan
  <2>1. pc = "rollback" /\ pc' = "new_tip" /\ tip' = target /\ target' = Genesis
    BY <1>3 DEF RollbackToRescan, RollbackTip
  <2>2. 1..Len(target') = {}
    BY <2>1 DEF Genesis
  <2>3. TargetInv'
    BY <2>1, <2>2, Zenon DEF TargetInv, Numbered, OnceEach
  <2>4. RescanInv'
    BY <1>1, <2>1, Zenon DEF PollInv, RescanInv, Below, nodeVars
  <2>5. DueInv'
    BY <2>1, Zenon DEF DueInv, Writes
  <2>6. QED
    BY <1>2, <2>3, <2>4, <2>5, Zenon DEF PollInv
<1>4. CASE TipProgress
  <2>1. pc = "new_tip" /\ pc' = "received" /\ tip' = tip /\ target' = chain
    BY <1>4, Zenon DEF TipProgress, dbVars
  <2>2. InChain(chain, chain)
    BY <1>1, InChainBlocks
  <2>3. TargetInv'
    BY <1>1, <2>1, <2>2, Zenon DEF TargetInv, NodeInv, Numbered, OnceEach, nodeVars
  <2>4. RescanInv'
    BY <1>1, <2>1, Zenon DEF PollInv, RescanInv, Below, nodeVars
  <2>5. DueInv'
    BY <2>1, Zenon DEF DueInv, Writes
  <2>6. QED
    BY <1>2, <2>3, <2>4, <2>5 DEF PollInv
<1>5. QED
  BY <1>3, <1>4, Zenon

(* Where the records are read, they list what is due: a replay reads them  *)
(* from the genesis block, and a poll that completes a rescan from a tip   *)
(* below the rescan's date, which the node has scanned.                    *)
LEMMA DueIsListed ==
  ASSUME IInv, NodeInv, PollInv, pc = "received", InChain(target, chain), NEW c \in Due
  PROVE  c \in DOMAIN coins \cup NewlyReceived
<1> DEFINE t == TxOf[c]
           h == HeightOf(t, target)
           from == IF ReplayPending THEN Genesis ELSE tip
<1>1. /\ chain \in Tip /\ target \in Tip /\ tip \in Tip /\ OnceEach(chain)
      /\ requested \in Nat /\ acknowledged \in Nat /\ rescan_timestamp \in Nat \cup {Null}
  BY DEF IInv, TypeOK, NodeTypeOK, NodeInv
<1>2. c \in Coins /\ t \in ChainTxs(target)
  BY Zenon DEF Due
<1>3. /\ t \in ChainTxs(chain) /\ HeightOf(t, chain) = h /\ h \in 1..Len(target)
      /\ t \in chain[h].txs /\ Len(target) \in Nat /\ Len(chain) \in Nat /\ Len(target) <= Len(chain)
  BY <1>1, <1>2, HeightStays, Zenon
<1>4. /\ Genesis \in Tip /\ Len(Genesis) = 0
  BY NoUpdateType DEF Genesis
<1>5. ForkHeight(from, chain) \in 0..Len(from) /\ Len(from) \in Nat
  BY <1>1, <1>4, ForkHeightBounds, LenProperties, Zenon DEF Tip
<1>6. SUFFICES t \in known /\ Len(from) < h
  BY <1>2, <1>3, <1>5 DEF NewlyReceived, ReceivedSince
<1>7. CASE ticket # 0 /\ ticket = requested /\ t \in owed
  <2>1. t \in known /\ ReplayPending
    BY <1>1, <1>7, Zenon DEF NodeInv, PollInv, TicketInv, ReplayPending
  <2>2. QED
    BY <1>3, <1>4, <2>1
<1>8. CASE ~RpcDuringPoll /\ completed /\ rescan_timestamp # Null /\ h >= rescan_timestamp
  <2>1. scanning = Null /\ Below(tip) /\ rescan_timestamp \in Nat
    BY <1>1, <1>8, Zenon DEF PollInv, RescanInv
  <2>2. Scanned(rescan_timestamp)
    BY <2>1, <1>8, Zenon DEF NodeInv, Null
  <2>3. h \in 1..Len(chain)
    BY <1>3
  <2>4. t \in known
    BY <1>2, <1>3, <1>8, <2>2, <2>3, Zenon DEF Scanned
  <2>5. Len(from) < h
    BY <1>1, <1>3, <1>4, <1>5, <1>8, <2>1 DEF Below
  <2>6. QED
    BY <2>4, <2>5, Zenon
<1>9. QED
  BY <1>7, <1>8, Zenon DEF Due

(* The reads of the coins.                                                 *)
LEMMA ReadsKeep ==
  ASSUME IInv, NodeInv, PollInv, ReadReceived \/ ReadConfirmed \/ ReadSpending \/ ReadSpent
  PROVE  PollInv'
<1>1. /\ UNCHANGED <<nodeVars, dbVars, ticket, completed, target, sharedVars, rpc, modelVars>>
      /\ <<pc, pc'>> \in {<<"received", "confirmed">>, <<"confirmed", "spending">>,
                          <<"spending", "spent">>, <<"spent", "recheck">>}
  BY Zenon DEF ReadReceived, ReadConfirmed, ReadSpending, ReadSpent
<1>2. /\ UNCHANGED <<chain, reorgs, scanning, rpc, ticket, requested, acknowledged, owed, target,
                     completed, rescan_timestamp, coins, tip>>
      /\ pc \in {"received", "confirmed", "spending", "spent"}
      /\ pc' \in {"confirmed", "spending", "spent", "recheck"}
  BY <1>1, Zenon DEF nodeVars, dbVars, sharedVars, modelVars
<1>3. TargetInv' /\ RescanInv' /\ TicketInv' /\ (Lost' <=> Lost) /\ Due' = Due
  BY <1>2, OnwardKeeps, Zenon
<1>4. InChain(target, chain) \/ Lost
  BY <1>2 DEF PollInv, TargetInv
<1>5. IsUpdate(upd)
  BY Keep, Zenon
<1>6. CASE ReadReceived
  <2>1. pc = "received" /\ pc' = "confirmed" /\ upd'.received = NewlyReceived
    BY <1>5, <1>6, Zenon DEF ReadReceived, IsUpdate
  <2>2. Lost \/ Due \subseteq DOMAIN coins \cup NewlyReceived
    BY <1>4, <2>1, DueIsListed, Zenon
  <2>3. DueInv'
    BY <1>2, <1>3, <2>1, <2>2, Zenon DEF DueInv, Writes
  <2>4. QED
    BY <1>3, <2>3, Zenon DEF PollInv
<1>7. CASE ReadConfirmed
  <2>1. /\ pc = "confirmed" /\ pc' = "spending" /\ upd'.received = upd.received
        /\ upd'.expired = {c \in ToBeConfirmed : ~Confirmed(TxOf[c]) /\ TxOf[c] \notin mempool}
    BY <1>5, <1>7, Zenon DEF ReadConfirmed, IsUpdate
  <2>2. Lost \/ \A c \in upd'.expired : TxOf[c] \notin ChainTxs(target)
    <3>1. ASSUME InChain(target, chain), NEW c \in upd'.expired, TxOf[c] \in ChainTxs(target)
          PROVE  FALSE
      <4>1. TxOf[c] \in ChainTxs(chain)
        BY <3>1, Keep, HeightStays, Zenon DEF NodeInv
      <4>2. QED
        BY <2>1, <4>1, Zenon DEF Confirmed
    <3>2. QED
      BY <1>4, <3>1, Zenon
  <2>3. Lost \/ Due \subseteq DOMAIN coins \cup upd.received
    BY <2>1 DEF PollInv, DueInv
  <2>4. DueInv'
    BY <1>2, <1>3, <2>1, <2>2, <2>3, Zenon DEF DueInv, NoneExpired, Writes
  <2>5. QED
    BY <1>3, <2>4 DEF PollInv
<1>8. CASE ReadSpending \/ ReadSpent
  <2>1. /\ upd'.received = upd.received /\ upd'.expired = upd.expired
        /\ pc \in {"spending", "spent"} /\ pc' \in {"spent", "recheck"}
    BY <1>5, <1>8, Zenon DEF ReadSpending, ReadSpent, IsUpdate
  <2>2. DueInv'
    BY <1>2, <1>3, <2>1, Zenon DEF PollInv, DueInv, NoneExpired, Writes
  <2>3. QED
    BY <1>3, <2>2 DEF PollInv
<1>9. QED
  BY <1>6, <1>7, <1>8, Zenon

(* The recheck of the tip: the chain is the target, so it is not lost.     *)
LEMMA RecheckKeeps ==
  ASSUME IInv, NodeInv, PollInv, Recheck
  PROVE  PollInv'
<1>1. /\ pc = "recheck" /\ UNCHANGED <<nodeVars, dbVars, sharedVars, rpc, modelVars>>
      /\ target \in Tip /\ requested \in Nat
  BY DEF Recheck, IInv, TypeOK
<1>2. CASE LeavePoll
  BY <1>1, <1>2, LeavingKeeps, Zenon DEF sharedVars
<1>3. CASE chain = target /\ pc' = "new_txs" /\ UNCHANGED <<ticket, completed, target, upd>>
  <2>1. UNCHANGED <<chain, reorgs, scanning, rpc, ticket, requested, acknowledged, owed, target,
                     completed, rescan_timestamp, coins, tip>>
    BY <1>1, <1>3, Zenon DEF nodeVars, dbVars, sharedVars, modelVars
  <2>2. TargetInv' /\ RescanInv' /\ TicketInv' /\ Due' = Due
    BY <1>1, <1>3, <2>1, OnwardKeeps, Zenon DEF Writes
  <2>3. ~Lost
    BY <1>1, <1>3, BranchTypes DEF Lost
  <2>4. Due \subseteq DOMAIN coins \cup upd.received /\ NoneExpired
    BY <1>1, <2>3, Zenon DEF PollInv, DueInv
  <2>5. DueInv'
    BY <1>3, <2>1, <2>2, <2>4, Zenon DEF DueInv, NoneExpired, Writes
  <2>6. QED
    BY <2>2, <2>5, Zenon DEF PollInv
<1>4. QED
  BY <1>2, <1>3, Zenon DEF Recheck, TipUnchanged

(* The writes store what is listed and remove nothing that is due.         *)
LEMMA WritesKeep ==
  ASSUME IInv, PollInv,
         \/ NewTxs \/ WriteNewUnspent \/ WriteRemove \/ WriteConfirm \/ WriteUnspend \/ WriteSpend
         \/ WriteConfirmSpend \/ WriteFromSelf \/ UpdateTip
  PROVE  PollInv'
<1>1. /\ pc \in Writes \ {"complete_rescan", "finish"} /\ pc' \in Writes \ {"new_txs"}
      /\ pc' = "new_unspent" => pc = "new_txs" /\ coins' = coins
      /\ pc' = "remove" => pc = "new_unspent" /\ coins' = NewUnspentCoins(coins, upd.received)
      /\ pc' = "confirm" => pc = "remove" /\ coins' = RemoveCoins(coins, upd.expired)
      /\ pc' \in {"complete_rescan", "finish"} => tip' = target
      /\ UNCHANGED <<nodeVars, rpc, ticket, requested, acknowledged, owed, target, completed,
                     rescan_timestamp, upd>>
  BY Zenon DEF NewTxs, WriteNewUnspent, WriteRemove, WriteConfirm, WriteUnspend, WriteSpend,
     WriteConfirmSpend, WriteFromSelf, WriteCoins, UpdateTip, AfterUpdateTip, Writes, sharedVars, modelVars
<1>2. pc' \notin {"new_unspent", "remove", "confirm"} =>
        pc \notin {"new_txs", "new_unspent", "remove"} /\ DOMAIN coins' = DOMAIN coins
  BY Zenon DEF NewTxs, WriteNewUnspent, WriteRemove, WriteConfirm, WriteUnspend, WriteSpend,
     WriteConfirmSpend, WriteFromSelf, WriteCoins, UpdateTip, ConfirmCoins, UnspendCoins, SpendCoins,
     ConfirmSpend, UpdateCoinsFromSelf
<1>3. TargetInv' /\ RescanInv' /\ TicketInv' /\ Due' = Due
  BY <1>1, OnwardKeeps, Zenon DEF nodeVars, Writes
<1>4. NoneExpired' <=> NoneExpired
  BY <1>1, Zenon DEF NoneExpired
<1>5. CASE pc' = "new_unspent"
  BY <1>1, <1>3, <1>4, <1>5, Zenon DEF PollInv, DueInv, Writes
<1>6. CASE pc' = "remove"
  <2>1. DOMAIN coins' = DOMAIN coins \cup upd.received
    BY <1>1, <1>6, Zenon DEF NewUnspentCoins
  <2>2. QED
    BY <1>1, <1>3, <1>4, <1>6, <2>1, Zenon DEF PollInv, DueInv, Writes
<1>7. CASE pc' = "confirm"
  <2>1. DOMAIN coins' = DOMAIN coins \ upd.expired
    BY <1>1, <1>7, Zenon DEF RemoveCoins
  <2>2. Due \subseteq DOMAIN coins /\ NoneExpired
    BY <1>1, <1>7, Zenon DEF PollInv, DueInv, Writes
  <2>3. Due \cap upd.expired = {}
    BY <2>2, Zenon DEF Due, NoneExpired
  <2>4. QED
    BY <1>1, <1>3, <1>7, <2>1, <2>2, <2>3, Zenon DEF PollInv, DueInv, Writes
<1>8. CASE pc' \notin {"new_unspent", "remove", "confirm"}
  BY <1>1, <1>2, <1>3, <1>8, Zenon DEF PollInv, DueInv, Writes
<1>9. QED
  BY <1>5, <1>6, <1>7, <1>8, Zenon

(* complete_rescan takes the date of the rescan, and what was due for it,  *)
(* away; a panic forgets it all.                                           *)
LEMMA EndsKeep ==
  ASSUME IInv, PollInv, CompleteRescan \/ Panic
  PROVE  PollInv'
<1>1. UNCHANGED <<nodeVars, tip, coins, ticket, completed, target, upd, requested, acknowledged, rpc, owed>>
  BY Zenon DEF CompleteRescan, Panic, dbVars, sharedVars, modelVars
<1>2. pc \notin {"idle", "marker"} /\ pc' \in {"finish", "panicked"}
      /\ (pc' = "finish" => pc = "complete_rescan" /\ rescan_timestamp' = Null)
  BY Zenon DEF CompleteRescan, Panic, BreaksConstraint
<1>3. TargetInv'
  BY <1>1, <1>2, Zenon DEF PollInv, TargetInv, Numbered, OnceEach, nodeVars
<1>4. RescanInv'
  BY <1>1, <1>2, Zenon DEF PollInv, RescanInv, nodeVars
<1>5. TicketInv'
  BY <1>1, Zenon DEF PollInv, TicketInv
<1>6. DueInv'
  <2>1. CASE pc' = "finish"
    <3>1. Due \subseteq DOMAIN coins
      BY <1>2, <2>1, Zenon DEF PollInv, DueInv, Writes
    <3>2. Due' \subseteq Due
      BY <1>1, <1>2, <2>1, Zenon DEF Due
    <3>3. QED
      BY <1>1, <2>1, <3>1, <3>2, Zenon DEF DueInv
  <2>2. CASE pc' = "panicked"
    BY <2>2, Zenon DEF DueInv, Writes
  <2>3. QED
    BY <1>2, <2>1, <2>2, Zenon
<1>7. QED
  BY <1>3, <1>4, <1>5, <1>6, Zenon DEF PollInv

(* The ends of a poll, and a stop of the daemon.                           *)
LEMMA AllLeavesKeep ==
  ASSUME IInv, TipReorged \/ TipRefused \/ FinishPoll \/ ReadFails \/ Restart
  PROVE  PollInv'
<1>1. LeavePoll
  BY Zenon DEF TipReorged, TipRefused, FinishPoll, ReadFails, Restart
<1>2. requested' \in Nat
  BY DEF TipReorged, TipRefused, FinishPoll, ReadFails, Restart, sharedVars, IInv, TypeOK
<1>3. QED
  BY <1>1, <1>2, LeavingKeeps, Zenon

(* A command makes no coin due: a new request outdates the ticket of the   *)
(* poll, and a date is only set beside a poll when RpcDuringPoll.          *)
LEMMA CommandsKeep ==
  ASSUME IInv, PollInv, RpcStep \/ RequestReplay
  PROVE  PollInv'
<1>1. /\ UNCHANGED <<chain, reorgs, tip, coins, pc, ticket, completed, target, upd, acknowledged>>
      /\ requested' \in {requested, requested + 1} /\ requested \in Nat /\ ticket \in Nat
      /\ requested' = requested => owed' = owed
  BY DEF RpcStep, CheckRescan, StartRescan, SetRescan, RequestReplay, nodeVars, dbVars, pollVars,
     sharedVars, modelVars, IInv, TypeOK
<1>2. ~RpcDuringPoll => pc = "idle" \/ UNCHANGED <<scanning, rpc, rescan_timestamp>>
  BY Zenon DEF RpcStep, CheckRescan, StartRescan, SetRescan, MayServe, RequestReplay, nodeVars, dbVars
<1>3. TargetInv'
  BY <1>1, Zenon DEF PollInv, TargetInv, Numbered, OnceEach, Lost
<1>4. RescanInv'
  BY <1>1, <1>2, Zenon DEF PollInv, RescanInv, Below
<1>5. TicketInv'
  BY <1>1, SMTT(30) DEF PollInv, TicketInv
<1>6. DueInv'
  <2>1. pc = "idle" \/ Due' \subseteq Due
    BY <1>1, <1>2, <1>5 DEF Due, PollInv, TicketInv
  <2>2. Lost' <=> Lost
    BY <1>1, Zenon DEF Lost
  <2>3. QED
    BY <1>1, <2>1, <2>2, Zenon DEF PollInv, DueInv, NoneExpired, Writes
<1>7. QED
  BY <1>3, <1>4, <1>5, <1>6 DEF PollInv

(* A step of the node beside the reads may lose the target, no more.       *)
LEMMA NodeKeeps ==
  ASSUME IInv, NodeInv, PollInv, EnvStep
  PROVE  PollInv'
<1>1. /\ NodeNext /\ pc \notin Writes
      /\ UNCHANGED <<tip, coins, rescan_timestamp, pc, ticket, completed, target, upd, requested,
                     acknowledged, rpc, owed>>
  BY DEF EnvStep, dbVars, pollVars, sharedVars, modelVars
<1>2. scanning' \in {scanning, Null}
  BY <1>1, Zenon DEF NodeNext, Broadcast, Evict, Mine, Reorg, Rewind, RescanFinished
<1>3. /\ Numbered(target)' /\ (Lost => Lost')
      /\ InChain(target, chain) => InChain(target, chain)' \/ Lost'
  BY <1>1, LostStays, Zenon DEF PollInv, TargetInv
<1>4. TargetInv'
  <2>1. OnceEach(target)'
    BY <1>1, Zenon DEF PollInv, TargetInv, OnceEach
  <2>2. QED
    BY <1>1, <1>3, <2>1, Zenon DEF PollInv, TargetInv, Writes
<1>5. RescanInv'
  BY <1>1, <1>2, Zenon DEF PollInv, RescanInv, Below
<1>6. TicketInv'
  BY <1>1, Zenon DEF PollInv, TicketInv
<1>7. DueInv'
  <2>1. Due' = Due
    BY <1>1 DEF Due
  <2>2. QED
    BY <1>1, <1>3, <2>1, Zenon DEF PollInv, DueInv, NoneExpired, Writes
<1>8. QED
  BY <1>4, <1>5, <1>6, <1>7 DEF PollInv

(* The invariant about deliveries holds of every run.                      *)
LEMMA DeliveryInvariant == Spec => [](IInv /\ NodeInv /\ PollInv)
<1>1. Init => NodeInv /\ PollInv
  BY StartsDelivered
<1>2. IInv /\ NodeInv /\ PollInv /\ [Next]_vars => NodeInv' /\ PollInv'
  <2>1. SUFFICES ASSUME IInv, NodeInv, PollInv, [Next]_vars PROVE PollInv'
    BY NodeInvKeeps, Zenon
  <2>2. CASE PollStep
    BY <2>1, <2>2, BeginKeeps, MarkerKeeps, TargetKeeps, AllLeavesKeep, ReadsKeep, RecheckKeeps,
       WritesKeep, EndsKeep, Zenon DEF PollStep
  <2>3. CASE ReadFails \/ Restart
    BY <2>1, <2>3, AllLeavesKeep, Zenon
  <2>4. CASE RpcStep \/ RequestReplay
    BY <2>1, <2>4, CommandsKeep, Zenon
  <2>5. CASE EnvStep
    BY <2>1, <2>5, NodeKeeps, Zenon
  <2>6. CASE UNCHANGED vars
    <3>1. UNCHANGED <<chain, reorgs, scanning, tip, coins, rescan_timestamp, pc, ticket, completed, target,
                      upd, requested, acknowledged, rpc, owed>>
      BY <2>6, Zenon DEF vars, nodeVars, dbVars, pollVars, sharedVars, modelVars
    <3>2. (Lost' <=> Lost) /\ Due' = Due /\ (NoneExpired' <=> NoneExpired)
      BY <3>1, Zenon DEF Lost, Due, NoneExpired
    <3>3. TargetInv'
      BY <2>1, <3>1, <3>2, Zenon DEF PollInv, TargetInv, Numbered, OnceEach
    <3>4. RescanInv' /\ TicketInv'
      BY <2>1, <3>1, Zenon DEF PollInv, RescanInv, TicketInv, Below
    <3>5. DueInv'
      BY <2>1, <3>1, <3>2, Zenon DEF PollInv, DueInv
    <3>6. QED
      BY <3>3, <3>4, <3>5, Zenon DEF PollInv
  <2>7. QED
    BY <2>1, <2>2, <2>3, <2>4, <2>5, <2>6, Zenon DEF Next
<1>3. QED
  BY <1>1, <1>2, PollerInvariant, PTL DEF Spec

(* A replay is acknowledged only by the end of a poll whose ticket is the  *)
(* last one.                                                               *)
LEMMA AcknowledgedByPoll ==
  ASSUME IInv, PollInv, [Next]_vars, ReplayPending, ~ReplayPending'
  PROVE  pc = "finish" /\ ticket # 0 /\ ticket = requested
<1>1. requested \in Nat /\ acknowledged \in Nat /\ ticket \in Nat /\ requested > acknowledged
  BY Zenon DEF IInv, TypeOK, ReplayPending
<1>2. CASE FinishPoll
  BY <1>1, <1>2 DEF FinishPoll, Acknowledge, MaxOf, MinOf, ReplayPending, PollInv, TicketInv
<1>3. CASE RequestReplay \/ Restart
  BY <1>1, <1>3 DEF RequestReplay, Restart, ReplayPending
<1>4. CASE RpcStep \/ EnvStep \/ ReadFails \/ UNCHANGED vars
  <2>1. UNCHANGED <<requested, acknowledged>>
    BY <1>4, Zenon DEF RpcStep, CheckRescan, StartRescan, SetRescan, EnvStep, ReadFails, vars, sharedVars
  <2>2. QED
    BY <2>1, Zenon DEF ReplayPending
<1>5. CASE PollStep /\ ~FinishPoll
  <2>1. UNCHANGED <<requested, acknowledged>>
    <3>1. CASE BeginPoll \/ ReadMarker \/ RollbackToRescan \/ TipProgress \/ TipReorged \/ TipRefused
      BY <3>1, Zenon DEF BeginPoll, ReadMarker, RollbackToRescan, TipProgress, TipReorged, TipRefused, sharedVars
    <3>2. CASE \/ ReadReceived \/ ReadConfirmed \/ ReadSpending \/ ReadSpent \/ Recheck \/ Panic
               \/ NewTxs \/ UpdateTip \/ CompleteRescan
      BY <3>2, Zenon DEF ReadReceived, ReadConfirmed, ReadSpending, ReadSpent, Recheck, Panic, NewTxs,
         UpdateTip, CompleteRescan, sharedVars
    <3>3. CASE \/ WriteNewUnspent \/ WriteRemove \/ WriteConfirm \/ WriteUnspend \/ WriteSpend
               \/ WriteConfirmSpend \/ WriteFromSelf
      BY <3>3 DEF WriteNewUnspent, WriteRemove, WriteConfirm, WriteUnspend, WriteSpend,
         WriteConfirmSpend, WriteFromSelf, WriteCoins, sharedVars
    <3>4. QED
      BY <1>5, <3>1, <3>2, <3>3, Zenon DEF PollStep
  <2>2. QED
    BY <2>1 DEF ReplayPending
<1>6. QED
  BY <1>2, <1>3, <1>4, <1>5, Zenon DEF Next

(* Whatever the node does between the reads of the poll and whenever       *)
(* commands run or the daemon stops, a replay of the wallet's records is   *)
(* acknowledged (bitcoin/mod.rs:531-541) only by a poll that has stored    *)
(* every coin that they had when it was requested and that the chain of    *)
(* the stored tip confirms.                                                *)
THEOREM ReplayIsDelivered == Spec => ReplayDelivers
<1>1. ASSUME IInv, NodeInv, PollInv, [Next]_vars, ReplayPending, ~ReplayPending',
             NEW c \in Coins, TxOf[c] \in owed \cap ChainTxs(tip)
      PROVE  c \in DOMAIN coins
  <2>1. pc = "finish" /\ ticket # 0 /\ ticket = requested
    BY <1>1, AcknowledgedByPoll
  <2>2. tip = target /\ Due \subseteq DOMAIN coins
    BY <1>1, <2>1, Zenon DEF PollInv, TargetInv, DueInv, Writes
  <2>3. QED
    BY <1>1, <2>1, <2>2, Zenon DEF Due
<1>2. IInv /\ NodeInv /\ PollInv /\ [Next]_vars =>
        [ReplayPending /\ ~ReplayPending' =>
           \A c \in Coins : TxOf[c] \in owed \cap ChainTxs(tip) => c \in DOMAIN coins]_vars
  BY <1>1, Zenon
<1>3. QED
  BY <1>2, DeliveryInvariant, PTL DEF Spec, ReplayDelivers

(* Where no start_rescan overlaps a poll, the marker of a rescan goes away *)
(* (looper.rs:676-684) only when every coin that the blocks of the stored  *)
(* chain from the rescan's date on confirm is stored: across failed polls, *)
(* reorganisations, rewinds and stops of the daemon.  (Where one does, the *)
(* run rescan_race shows the opposite.)                                    *)
THEOREM RescanIsDelivered ==
  ASSUME RpcDuringPoll = FALSE
  PROVE  Spec => RescanDelivers
<1>1. ASSUME IInv, NodeInv, PollInv, [Next]_vars, rescan_timestamp # Null, rescan_timestamp' = Null,
             NEW c \in Coins, TxOf[c] \in ChainTxs(tip), HeightOf(TxOf[c], tip) >= rescan_timestamp
      PROVE  c \in DOMAIN coins
  <2>1. CompleteRescan
    <3>1. ~UNCHANGED rescan_timestamp
      BY <1>1
    <3>2. ~(RpcStep \/ RequestReplay \/ Restart \/ EnvStep \/ ReadFails \/ UNCHANGED vars)
      <4>1. ASSUME NEW r \in Rpcs PROVE ~SetRescan(r)
        BY <1>1, DatesAreSet, Zenon
      <4>2. QED
        BY <3>1, <4>1, Zenon DEF RpcStep, CheckRescan, StartRescan, RequestReplay, Restart, EnvStep, ReadFails,
           vars, dbVars
    <3>3. ~(BeginPoll \/ ReadMarker \/ RollbackToRescan \/ TipProgress \/ TipReorged \/ TipRefused)
      BY <3>1 DEF BeginPoll, ReadMarker, RollbackToRescan, TipProgress, TipReorged, TipRefused,
         RollbackTip, dbVars
    <3>4. ~(\/ ReadReceived \/ ReadConfirmed \/ ReadSpending \/ ReadSpent \/ Recheck \/ Panic
            \/ NewTxs \/ UpdateTip \/ FinishPoll)
      BY <3>1, Zenon DEF ReadReceived, ReadConfirmed, ReadSpending, ReadSpent, Recheck, Panic, NewTxs,
         UpdateTip, FinishPoll, dbVars
    <3>5. ~(\/ WriteNewUnspent \/ WriteRemove \/ WriteConfirm \/ WriteUnspend \/ WriteSpend
            \/ WriteConfirmSpend \/ WriteFromSelf)
      BY <3>1 DEF WriteNewUnspent, WriteRemove, WriteConfirm, WriteUnspend, WriteSpend,
         WriteConfirmSpend, WriteFromSelf, WriteCoins
    <3>6. QED
      BY <1>1, <3>2, <3>3, <3>4, <3>5, Zenon DEF Next, PollStep
  <2>2. pc = "complete_rescan" /\ completed
    BY <1>1, <2>1, Zenon DEF CompleteRescan, IInv, Staged
  <2>3. tip = target /\ Due \subseteq DOMAIN coins
    BY <1>1, <2>2, Zenon DEF PollInv, TargetInv, DueInv, Writes
  <2>4. QED
    BY <1>1, <2>2, <2>3, Zenon DEF Due
<1>2. IInv /\ NodeInv /\ PollInv /\ [Next]_vars =>
        [rescan_timestamp # Null /\ rescan_timestamp' = Null =>
           \A c \in Coins :
             TxOf[c] \in ChainTxs(tip) /\ HeightOf(TxOf[c], tip) >= rescan_timestamp
               => c \in DOMAIN coins]_vars
  BY <1>1
<1>3. QED
  BY <1>2, DeliveryInvariant, PTL DEF Spec, RescanDelivers
=============================================================================
