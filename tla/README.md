# Coincube, specified in TLA+

Coincube is a Bitcoin wallet: a daemon (`coincubed`) that watches a node and keeps the wallet in
SQLite, a library for descriptors and spends (`coincube-core`), and a desktop application
(`coincube-gui`). This directory holds TLA+ models of the daemon's core and of the application's
services that keep something durable, the TLC configurations that check them and proofs that TLAPS
checks. Paths below are relative to `src/`; `PROJECT.json` maps
every definition to the lines it models.

## The system

| Part | Where | What it holds | Talks to |
|---|---|---|---|
| Poller, one poll | `coincubed/src/bitcoin/poller/looper.rs` | nothing between polls | backend (reads), database (writes) |
| Poll loop | `coincubed/src/bitcoin/poller/mod.rs` | last poll, synced flag, message channel | poller, commands |
| Backends | `coincubed/src/bitcoin/{d,electrum,esplora}`, `bitcoin/mod.rs` | connection, replay tickets, caches | bitcoind, servers |
| Wallet database | `coincubed/src/database/sqlite` | tip, coins, transactions, wallets, addresses, drafts, labels | poller, commands |
| Commands | `coincubed/src/commands` | nothing; one thread per connection | database, backend, poll loop |
| JSON-RPC server | `coincubed/src/jsonrpc` | connections | commands |
| Lifecycle, configuration | `coincubed/src/lib.rs`, `config.rs`, `datadir.rs` | files | everything at startup |
| Broadcast gates | `coincubed/src/poison_broadcast.rs` | one atomic per submission | Claim workflow |
| Descriptors, spends, claims, signing | `coincube-core/src` | nothing (pure) | called by all |
| Claim workflow | `coincube-gui/src/services/claim_*` | plans and journals on disk | daemon, two chains |
| Phone pairing | `coincube-gui/src/phone_signer` | settings row and journal files | phone, backend service |
| Duress | `coincube-gui/src/services/duress` | journal, queue, wipe state | backend service |
| Application, installer, loader | `coincube-gui/src` | screens | daemon client |
| Spark/Liquid, UI kit, vendored crates | `coincube-spark-*`, `coincube-ui`, `vendor` | external SDK state | application |

The daemon's hard part is that four kinds of actor share two things. The poller's thread, the
command threads, the node, and the operator who stops the daemon, all act on the node's state (chain,
mempool, the records of its watch-only wallet) and on the database. A poll reads the node many times
and writes the database in a dozen separate SQLite transactions; the backend mutex is taken per call
(`bitcoin/mod.rs:1783`), so that the node and the commands get in between any two of its steps.

The application's services have the other hard part: they promise something across files, tasks and
crashes. A claim's two transactions leave at most once each, in order, although the journal's write,
the request and its answer may each be lost. A paired phone's row changes in one step, although it is
kept in two files. A duress activation ends with the Cubes gone, although the program may be killed
at any point of it.

## Modules

| Module | Models | Lines |
|---|---|---|
| `Chain` | chains, transactions, conflicts, forks | data |
| `Node` | bitcoind and its watch-only wallet, **external**: environment actions, and the answers to the backend's reads | `bitcoin/mod.rs`, `bitcoin/d/` |
| `WalletDb` | the statements on the coins table, as functions of the table | `database/sqlite/mod.rs` |
| `Poller` | one poll from `observe_rescan` to the acknowledgement, `start_rescan`, replays, failed reads, stops; composes the three above | `poller/looper.rs`, `commands/mod.rs`, `bitcoin/mod.rs` |
| `DerivationIndex` | the two derivation counters and the address table, under concurrent commands and the poller | `database/sqlite/{mod,reservation}.rs`, `commands/mod.rs` |
| `PollLoop` | the poller's thread, its channel and the commands that wait for it, maintenance and stop | `poller/mod.rs`, `commands/mod.rs`, `bitcoin/mod.rs`, `lib.rs` |
| `BlockSearch` | the binary search for the block before a date | `bitcoin/d/utils.rs` |
| `PairedClaim` | the submission of a claim's two transactions: journal, tasks, gate, worker, network, crashes | `services/claim_workflow/`, `poison_broadcast.rs` |
| `PairOnce` | abstract: each side leaves at most once, in order, after it is durable | what `PairedClaim` promises |
| `Pairing` | the pairing of phones: two files, runs, edits, removals, sync passes, crashes | `phone_signer/` |
| `TrustStore` | abstract: a phone's row changes in one step, by those who may | what `Pairing` promises |
| `DuressMode` | activation, wipe, launch, locked screen, remote lock, crashes | `services/duress/`, `gui/tab.rs` |
| `PollerProofs`, `DeliveryProofs`, `TipProofs` (of `Poller`), `ServiceProofs` (of `PairedClaim`, `DuressMode`, `DerivationIndex`), `StoresProofs` (of `BlockSearch`, `PollLoop`, and of the five components of `MCStores` together), `PairingProofs` | the theorems | |
| `WalletDbProofs`, `UpdateProofs` | lemmas: on chains, the node and the coins table, for `PollerProofs` and what extends it; on what a poll reads and first writes, for `TipProofs` | |
| `MCPoller`, `MCDerivationIndex`, `MCStores`, `MCLive` | instances for TLC | |

### Poller

State. `tip`, `coins`, `txs`, `rescan_timestamp` and `timestamp` are the columns of the database and
survive `Restart`. `pc`, `ticket`, `completed`, `target` and `upd` are the local variables of `poll`
and `updates` (`upd` is `UpdatedCoins` with the transactions of `collect_txs`). `requested` and
`acknowledged` are `WalletRecordReplay`, `alert` is `ReorgAlertCache`. `rpc` says where each
`start_rescan` stands. `polled` and `owed` are history variables of the model.

Actions, in the order of the code:

| Actions | Code |
|---|---|
| `BeginPoll`, `ReadMarker` | `poll` takes the replay ticket; `observe_rescan` reads the node, **then** the marker |
| `RollbackToRescan` | `rollback_tip` to the block before the rescan's date |
| `TipProgress`, `TipReorged`, `TipRefused` | `new_tip`, and what `updates` does with `Same`/`Progress`, `Reorged`, `ImplausibleReorg` |
| `ReadReceived`, `ReadConfirmed`, `ReadSpending`, `ReadSpent` | `update_coins`: its four questions to the backend; `collect_txs` |
| `Recheck` | the second read of the tip before the first write |
| `NewTxs`, `WriteNewUnspent` … `WriteFromSelf`, `UpdateTip` | the writes of `updates`, one SQLite transaction each |
| `CompleteRescan`, `FinishPoll` | `complete_rescan`; the acknowledgement, `poll_succeeded` |
| `Panic` | a write that breaks a constraint: it is rolled back, and its `expect` ends the daemon |
| `ReadFails` | any read of the backend that returns an error |
| `CheckRescan`, `StartRescan`, `SetRescan` | `start_rescan`: its checks, the backend call, the marker |
| `RequestReplay` | `replay_wallet_records` takes a ticket |
| `Restart` | a stop at any point, and a start: the startup replay is requested anew |
| `EnvStep` | the node: `Broadcast` (with replacement), `Evict`, `Mine`, `Reorg`, `Rewind`, `RescanFinished` |

Abstractions:

- A tip is the whole chain below it, so that equal tips are equal block hashes. Blocks of different
  branches differ even if they hold the same transactions.
- The time of a block is its height. `block_before_date` is then exact; its binary search over times
  that are not ordered is `BlockSearch`.
- One span of reads is one action: the tip read, the in-chain check and the ancestor walk of
  `new_tip`, and the reads per coin of one `try_*` call. A chain that moves inside `new_tip` is seen
  by the recheck, unless it moves back to the very same tip; a mempool that moves within one `try_*`
  call is not modelled, one that moves between two calls is.
- The node does not move during the writes: they neither read nor change it, so such a move commutes
  to before or after them.
- Not in the model: coinbase maturity, assumed confirmations, the resolution of addresses to
  derivation indexes (the raise of the counters is in `DerivationIndex`), the `Diverged` answer and
  the ancestor of `sync_wallet` (Electrum and Esplora), the completion of an imported history.

### DerivationIndex

State. `index` is `deposit_derivation_index` and `change_derivation_index`, `addresses` the indexes
of the addresses table, `kind` the kind of wallet, `call` where each request stands. There is one
action for each SQLite transaction or read: `ReserveChange` (`reserve_change`), `PeekChange`,
`CommitChange`, `NoChange`, `GivenChange`, `RaiseOutput`, `ReturnSpend` (`create_spend`, `rbf_psbt`),
`ReserveReceive`, `ReadReceive`, `SetReceive` (`get_new_address`, of an imported wallet and of a
vault), `ReadIndexes`, `UpdateReceive`, `UpdateChange` (`update_deriv_indexes`), `PollerRaises`. An
index past the last normal one fails the transaction, which leaves the database as it was.
`PollerRaises` takes any index that fits, which is more than the poller can resolve.

### PollLoop

State. `channel` is the `sync_channel(1)`; a `PollNow` in it is the client that waits for its answer.
`loop`, `serving`, `chain_synced` and `begun_with` are the locals of `poll_forever` and of the poll it
is in; `req` and `ack` are `WalletRecordReplay`, `eager` is the flag of `HistorySyncCache`,
`maintenance` is `MANAGED_NODE_MAINTENANCE`. `asked`, `before` and `covered` are history variables.

| Actions | Code |
|---|---|
| `Receive`, `Tick`, `ReceiveShutdown`, `DropReceiver` | `recv_timeout` of `poll_forever` and its end |
| `SkipPoll`, `StartPoll`, `PollSucceeds`, `PollFails`, `Reply` | `run_immediate_poll` and the tick's poll; the completion signal |
| `RaiseEager`, `TryWake` | `request_sync`: the flag, then `try_send` |
| `FinishBroadcast`, `SendPollNow`, `SignalLost` | the end of `broadcast_spend`: `send`, then a wait without a limit |
| `RequestTicket`, `TryReplay`, `ReplayTimesOut`, `ReplayReturns` | `replay_wallet_records` |
| `Stop`, `SendShutdown`, `Join` | `DaemonHandle::stop` |
| `TryAcquire`, `DropGuard` | `MaintenanceGuard` |

Each replay has an answer channel of its own, which is dropped when the wait ends: `ReplayTimesOut`
leaves a message in the poller's channel, or a poll under way, that nobody listens to (`HangUp`), and
the poller's send to it fails at once instead of waiting.
A poll succeeds or fails here; what it does is `Poller`. Intervals are left open. A panic of the
poller's thread is not in the model.

### BlockSearch

`times` and `target` are the chain's block times and the date, `low` and `high` the bounds of the
search; `Halve` is one turn of its loop, `Found` its end, `Missing` a block the node does not have.
Times need not grow with the height, as the consensus rules do not ask for it.

### PairedClaim, and PairOnce

State. The journal's content only grows, so it is a stage: no intent, unsigned, signed, Bitcoin
attempt on record, fork attempt on record. `disk` is what the file system shows, `synced` what a power
loss leaves. A task has a program counter, the stage it read, the session it captured, and whether its
proof, review and confirmation are recent. `gate` and `worker` are the one-use gate and the blocking
transport worker of a side, `wire` counts what left, `bitcoin` is the network's view of the first
transaction.

| Actions | Code |
|---|---|
| `CreateIntent`, `RecordSignedPair` | the first two records of the journal |
| `Reopen`, `PrepareInitialReview`, `PreparePostBitcoinReview`, `PrepareFails` | a controller opened under `claim.lock`; the two reviews |
| `Confirm`, `Preflight`, `RecordAttempt`, `Spawn`, `Answer` | `confirm_and_submit`, cut at its awaits |
| `Enter`, `SendRequest` | the worker: the gate's compare-and-swap, the one request |
| `Age`, `ChangeSession`, `Network`, `WriteBack`, `Crash` | time, the Connect session, the chain (external), the file system, a crash or a power loss |

A task that finds the lock held gives up, which changes nothing. `Spawn` starts the worker, or ends
uncertain without one: the session has changed, or the gate cannot be built. A failed `store` may have
replaced the file and not synced the directory. `PairOnce` has two actions, `Attempt` and `Send`; the
mapping takes the attempts that survive a power loss and `wire`.

### Pairing, and TrustStore

State. `store` is the two files: rows and removal notices in one, the journal's entries in the other.
An operation is the sequence of its durable writes (`PrepareWrites`, `RevokeWrites`, `EditWrites`, …)
under the `WRITER` mutex, and may stop after any of them. `run` is a pairing task, `replied` and
`held` are its phone (external), `sync` the sync pass with its snapshot.

| Actions | Code |
|---|---|
| `Prepare`, `WriteCandidate`, `Decide`, `Finish`, `Abort`, `Cancel` | the pairing transaction and the handshake around it |
| `UpdateUserFields`, `Unpair` | the user's edit and removal |
| `SyncStart`, `Notify`, `ClearNotices`, `Probe`, `RemoveUnpairedByPeer`, `SyncEnd` | the sync pass |
| `PhoneReplies`, `PhoneRemoves`, `PairingCrash` | the phone, a crash |

Readers see `Visible(store)`: of a staged pairing, the row it found. `TrustStore` is what they may
rely on, and the mapping takes `rows` to `Visible(store)`. `overwritten` is a history variable.

Runs of two tabs go on side by side. A panel's own new run, or an unpairing on it, cancels the one it
had; a run of another tab it leaves alone. The sync pass stands for that of a panel and for the refresh
of the hardware list (`hw.rs`), which dials the phones at any time; one pass is under way at once. The
code tells the pairings of a phone apart by `paired_at_unix`, in seconds; `Dialled` takes them to differ.

### DuressMode

`DuressDetected`, `MarkPending`, `Obliterate` (one target), `WipeEnds` and `PersistActive` are a local
activation; `Launch` is `State::new` with `complete_pending_wipe`; `SignInPressed`, `ServerAnswers`
and `StateChecked` the locked screen; `RemoteActivated` and `RemoteCleared` the lock from another
device, which wipes nothing. Every file operation may fail, reads included, and `DuressCrash` falls
anywhere: an unreadable lock counts as locked, but an unreadable marker as absent (`IsPending`, which is
`path.exists()`), wherever it is looked at. Three history variables: `due` are the Cubes that the last
local activation found; `excused`, its marker could not be written, or its targets could not be listed;
`misread`, the normal flow opened over a marker that was read as absent and is still on disk.

## Runs

`tlc -config X.cfg M`, from this directory. Instances of `MCPoller` have a deposit `d` that pays coin
`c1`, a spend `s` of `c1` with the change `c2`, and a replacement `r` of `s` that pays nothing back:
the smallest wallet with a chain of two transactions, change of its own, and a conflict.

### Runs that pass

| Run | Question | Properties | States |
|---|---|---|---|
| `reorg` | a chain of 3 blocks, reorganised once, at depth 1 or 2, at any point of a poll | `TipMeansUpdated`, `InsertsNeverPanic`, `FromSelfExact` | 496,390 |
| `crash` | a stop between any two database transactions, and an eviction | the same | 1,475,275 |
| `rescan` | rescans, replays, two command threads, a reorganisation, a failed read, a stop | `TypeOK`, `InsertsNeverPanic`, `ReplayDelivers`, `RescanDelivers` | 301,968 |
| `live` | polls with a reorganisation, a rewind, a failed read and a rescan; apart from them the loop with two clients, a maintenance and a stop; under fairness | `PollerCatchesUp`, `RescanEnds`, `NobodyWaitsForever` | 85,669 |
| `stores` | five components, run apart: the submission of a claim, pairing, duress, the block search, the poll loop | those from `ReplayOkIsFresh` on below | 555,799, up to symmetry |
| `derivation` | three concurrent requests of any kind and the poller, up to the last index | `TypeOK`, `ChangeNeverReused`, `ImportedReceiveNeverReused`, `LookAheadMapped` | 631,916, up to symmetry |

- `TipMeansUpdated`: outside the writes of a poll, and once one has succeeded, the coins table says
  of the chain of the stored tip what it holds, and nothing of another block: which coins it
  confirms since the wallet's date, where, and which of them it spends, where and by what.
- `InsertsNeverPanic`: no write but `confirm_spend` breaks a constraint or an `expect`.
- `FromSelfExact`: the incremental `update_coins_from_self`, which looks above the former tip only,
  leaves of the confirmed coins the marks that a computation over the whole table gives.
- `RescanDelivers`, `ReplayDelivers`: the marker of a rescan, or a pending replay, goes away only
  when the coins are stored.
- `PollerCatchesUp`: the stored tip ends up being the node's, except where the code gives up: a
  reorganisation deeper than `MAX_REORG_DEPTH` (for as long as the alert says so), and a rescan whose
  date is not below the tip any more, which ends every poll in `observe_rescan`.
- `RescanEnds`: a rescan completes, with the same second exception.
- `NobodyWaitsForever`: again and again no command waits for the poller, no eager request is
  unserved and the stop is not stuck. A broadcast blocks on a full channel and then on its answer
  without a limit, and the stop blocks on the same channel and on the thread.
- `ReplayOkIsFresh`: a replay reports success only after a poll that began after its request.
- `WaitsAreOwed`: a command that waits for the poller has its message in the channel or being served,
  one that does not wait has none there, and the shutdown of a stop that joins the thread is in the
  channel or taken; unless the poller is gone. The poller meets each answer channel with its client at
  the other end or with nobody, never with a client that has gone on to another call.
- `SubmitsAtMostOnce`: `PairedClaim` implements `PairOnce`. `ForkAfterSixConfirmations`: what is said
  of the Bitcoin side when the fork side leaves was true. `NoSendStartsAfterAnswer`: a submission that
  has answered, by timeout or otherwise, does not start afterwards. `AnswersAreTrue`: what was
  reported accepted has left.
- `ImplementsTrustStore`: `Pairing` implements `TrustStore`. `FinishedIsVisible`: a run that reports
  success has made its binding visible. `PeerRemovesOnlyDropped`: an answer of a phone that is applied
  late does not remove the pairing the phone has made since.
- `NoCubeAfterActivation`: wherever the wipe failed or the program died, the normal flow does not open
  on a Cube that the last local activation found. `WipesOnlyWhatIsDue`: nothing else is wiped, neither
  by a remote lock nor by a marker of earlier. Both except what the code does let happen, by name:
  see `excused` and `misread` under *Deviations without a run*.
- `SearchCrosses`, `SearchExact`: the search ends where the times cross the date; if they are ordered,
  at the last block before it.
- `StoresTypeOK`: the variables of the five have their types.
- `ChangeNeverReused`, `ImportedReceiveNeverReused`, `LookAheadMapped`: no index is handed out twice;
  the address table is exactly the indexes up to the look-ahead, so that no payment within the gap
  is missed and no `INSERT` meets a row that is there.

Bounds. `MaxReorgDepth` is 1, so that a reorganisation of depth 2 is refused and one of depth 1 is
followed. Height 3 lets the deposit, its spend and the spend's confirmation be in different blocks
with one of them above the fork. One reorganisation, stop, failure or eviction per run is enough for
each to fall at every point of a poll; a second poll always follows, and the table is compared with
the chain after it. `rescan` and `live` have the deposit alone, on a chain that holds it before the
wallet is made, which is the coin that only a rescan finds. Two command threads are what two
rescans need to pass their checks together. In `derivation` a counter reaches the last index (4) with
a look-ahead of 2 after few steps, and two conflicts reach the retry limit.

In `stores` and `live` a behaviour is of one component: `part` says which, and the others stay as they
began, so that each is explored as if it were alone. Two tasks, two crashes and a session change let a
second task meet whatever a crash of the first left behind, for both sides of a claim. Two phones, two
runs and two further operations let a run of each phone, or two runs of one, meet an edit, a removal
or a sync pass at every write. Two activations and two targets let a wipe stop half-way and a Cube be
set up again. Five blocks with times from 0 to 3 have every order of times that a search of three
halvings can tell apart. Phones and runs are interchangeable, and `stores` checks no liveness, so their
symmetry is sound; `live` uses none. Deadlock is not checked: a search ends, and the others stop when
their bounded operations are used up.

`RpcDuringPoll` is `FALSE` in `rescan` and `live`: `start_rescan` does not overlap a poll there. The
overlap is what the run `rescan_race` is about, and with it `RescanDelivers` fails; `InsertsAreSafe` and
`ReplayIsDelivered` are proved for both values. `CHECK_DEADLOCK FALSE` is set in `reorg` and `crash` because a daemon that
`Panic` ended stays down once its restarts are used up, and in `derivation` because every request
ends.

Fairness (`LiveSpec`; for the polls that of `FairSpec`). Weak fairness of `PollStep`: `poll_forever` polls again and again on its own
thread, whatever the outcome of the last poll. Weak fairness of `StartRescan` and `SetRescan` of each
thread: a command that has begun goes on. Strong fairness of the node ending the rescan it does: bitcoind's
scan goes on beside the polls; strong because the model disables the node during the writes of a
poll. Nothing makes the node mine, the user ask, or a thread begin.

For the loop, `LiveSpec` has weak fairness of its thread, of each command that has begun, of the stop
and of the end of a maintenance: they are threads that the code does not hold up, and the guard is
dropped on every path. It has strong fairness of `StartPoll`: the chain is, once in a while, synced
when the loop looks. A replay's wait may time out, as in the code; that of a broadcast may not.

### Runs that find a violation

Each checks one property that a comment of the repository states, and TLC shows a behaviour of the
code that contradicts it. `PROJECT.json` quotes the comments.

| Run | Property | What happens |
|---|---|---|
| `crash_reorg` | `TipMeansUpdated` | The daemon stops after `confirm_coins` and before `update_tip`; the blocks above the stored tip are reorganised away. The tip is still on the chain, so nothing is rolled back, and a coin with a height is not asked about again. |
| `rescan_race` | `RescanDelivers` | `start_rescan` runs between the two reads of `observe_rescan`: the poll takes the rescan that has just begun for a completed one. |
| `rescan_forward` | `SeenSinceTimestamp` | The wallet's tip lags behind the date of the rescan: `rollback_tip` moves it forward, and the coins in between are not listed. |
| `replay_self` | `FromSelfExact` | A poll stores the change of a spend whose input, older than the wallet, is not in the table. The daemon stops between the node's rescan and `set_rescan`; the replay of the next start stores the input, below the stored tip, where `update_coins_from_self` does not look. The change stays unmarked until a rollback below its block. |
| `replaced_spend` | `WritesNeverPanic` | A spend whose replacement is confirmed has negative confirmations, not zero, and is taken for the spender; the confirmed one is not stored and `confirm_spend` breaks the foreign key. |
| `new_address` | `ReceiveNeverReused` | Two `get_new_address` requests of a vault read the same index before either sets it. |

The passing runs of the same properties say where they do hold: `TipMeansUpdated` without a stop
together with a reorganisation, `RescanDelivers` without the overlap, `FromSelfExact` without a
replay that finds an older coin below the tip.

### Deviations without a run

Met while modelling; the models have the behaviour, and the properties except it by name or do not
speak of it.

- An edit of one phone writes back what readers see of all: a pairing of another phone that has
  written its row loses it, goes on, and reports success with the old row in place
  (`phone_signer/pairing_store.rs:335`). `FinishedIsVisible` excepts it, and the runs whose row an
  operation on the same phone wrote and then failed.
- A sync pass that began before a phone was paired again delivers the old removal notice, and the
  phone forgets the new pairing; `prepare` drops a queued notice even if the pairing then fails.
- The Cubes cannot be listed when a pending wipe is taken up: nothing of them is wiped and the marker
  is cleared, while the comment at `gui/tab.rs:163` counts on the next launch. The same if every try
  to write the marker and the wipe itself fail. `NoCubeAfterActivation` excepts both (`excused`).
- The marker's metadata cannot be read: `is_pending` says that no wipe is pending, and a launch without
  a lock, or the check of the locked screen, opens the normal flow on what was to be wiped. The comment
  at `gui/tab.rs:3387` says: "A server clear must NEVER drop us into the normal app with un-wiped Cube
  data." The marker is still there, so that a later launch that can read it wipes whatever it finds,
  Cubes set up in the meantime included. `NoCubeAfterActivation` and `WipesOnlyWhatIsDue` except it
  (`misread`) until the marker is gone or another activation takes over.
- `stop` panics if the poller's thread has ended before; the loop's model has no such end.

### Mistakes that the properties notice

The modules define, next to some definitions, a plausible mistake in their place. Nothing uses it; put
in its place, TLC finds the property violated.

| Definition | Mistake | Property (run) |
|---|---|---|
| `TipUnchanged` | `TipNotRead`: the tip is not read again before the writes | `TipMeansUpdated` (reorg) |
| `ToBeConfirmed` | `ReceivedUnconfirmed`: only new coins are asked about | `TipMeansUpdated` (crash) |
| `CollectTxs` | `CollectReceivedTxs`: the spending transactions are not stored | `InsertsNeverPanic` (reorg) |
| `NewlyReceived` | `ReceivedAgain`: coins that are stored are not left out | `InsertsNeverPanic` (crash) |
| `PrevTipHeight` | `LatestHeight`: the marks are computed from the new tip | `FromSelfExact` (reorg, crash) |
| `CompletedDate` | `ClearedDate`: the marker is cleared before its date is read | `TypeOK` (rescan) |
| `AfterUpdateTip` | `CompletesAlways`, `CompletesNever` | `InsertsNeverPanic` (rescan), `RescanEnds` (live) |
| `Acknowledge` | `AcknowledgeLatest`: a poll answers a request made while it ran | `ReplayDelivers` (rescan) |
| `BlockBefore` | `BlockAt`: the rollback keeps the block of the date | `RescanDelivers` (rescan) |
| `CommonAncestor` | `StoredTip`: the rollback goes nowhere | `PollerCatchesUp` (live) |
| `DropReceiver` | `KeepReceiver`: the receiver outlives the loop | `NobodyWaitsForever` (live) |
| `Halve` | `HalveBelow`: the upper bound goes below the middle | `StoresTypeOK` (stores) |
| `Receive` | `ReceiveUnanswered`: a message is taken for a wake-up that nobody waits for | `WaitsAreOwed` (stores) |
| `AckTicket` | `AckLatest`: a poll acknowledges the latest ticket | `ReplayOkIsFresh` (stores) |
| `IsBefore` | `IsMiddleBefore`, `IsNotAfter`: the wrong block, or the wrong comparison | `SearchCrosses`, `SearchExact` (stores) |
| `Store` | `StoreNoSync`: the directory is not synced | `SubmitsAtMostOnce` (stores) |
| `PreparePostBitcoinReview` | `PrepareOnConfirmation`: one confirmation will do | `ForkAfterSixConfirmations` (stores) |
| `Revoke` | `RevokeNothing`: the gate stays open | `NoSendStartsAfterAnswer` (stores) |
| `Answer` | `AnswerWhenDone`: the worker's end is taken for success | `AnswersAreTrue` (stores) |
| `RevokeWrites` | `RevokeEntryFirst`: the entry goes before the row is restored | `ImplementsTrustStore` (stores) |
| `RollbackWrites` | `RollbackAny`: whoever's entry it is | `FinishedIsVisible` (stores) |
| `Dialled` | `AnyRow`: whichever row the phone has now | `PeerRemovesOnlyDropped` (stores) |
| `WipeEnds` | `WipeEndsAnyway`: the marker goes with a failed wipe | `NoCubeAfterActivation` (stores) |
| `Launch` | `LaunchByLock`: the launch does not look at the marker | `WipesOnlyWhatIsDue` (stores) |
| `Fits` | `IsNormal`: the look-ahead is not counted | `TypeOK` (derivation) |
| `StillNext` | `AnyIndex`: the commit does not compare | `ChangeNeverReused` (derivation) |
| `NextIndex` | `LastIndex`: the counter itself is handed out | `ImportedReceiveNeverReused` (derivation) |
| `NewRows` | `LastRow`: one row for a jump of several indexes | `LookAheadMapped` (derivation) |

## Proofs

`tlapm M.tla` for the eight modules of proofs. They hold for every value of the
constants that meets the named assumptions: `TxAssumption` (finitely many transactions and coins, a
transaction has inputs and does not spend its own outputs), `NodeAssumption` and `PollerAssumption`
(bounds are natural numbers, `MaxReorgDepth` is not 0, the chain at the start is one a node accepts and
of the first branch), `IndexAssumption` (the first look-ahead fits
below the last index), `ClaimAssumption`, `PairingAssumption`, `LoopAssumption`, `DuressAssumption`
and `SearchAssumption` (bounds are natural numbers, and the values that stand for nothing are not
values of something).

**Poller.** `IInv == TypeOK /\ Staged`. `InsertsNeverPanic` is not inductive: what `new_unspent`
inserts was read several steps before, and `txs` was written one step before. `Staged` says what the
poll has prepared at each of its steps:

- the coins received are not in the table until they are inserted;
- the transactions that the update names as received from or spent by are in `txs` or about to be
  stored (`recheck`, `new_txs`), and in `txs` from `new_unspent` to `spend`;
- a poll that observed a completed rescan has a marker to clear, and only such a poll gets to clear it.

`TypeCorrect` (`Spec => []TypeOK`) and `InsertsAreSafe` (`Spec => []InsertsNeverPanic`) follow from
`PollerInvariant` (`Spec => []IInv`), whose proof has one step per group of actions and one lemma for
the type of each SQL statement (`WalletDbProofs`). The second is for every wallet, every behaviour of the node, any
number of command threads that overlap the poll or do not, failed reads and stops. It leaves
`confirm_spend` out because the run `replaced_spend` shows that one can fail.

**Deliveries.** `ReplayIsDelivered` (`Spec => ReplayDelivers`) and, where no `start_rescan` overlaps a
poll (`RpcDuringPoll = FALSE`), `RescanIsDelivered` (`Spec => RescanDelivers`). A poll reads the node in
several calls, and the node may leave the chain that the poll aims at and come back to its height in
between. The invariant has four parts on top of `IInv`:

- `TargetInv`: while the poll reads, its target is on the node's chain or `Lost`. A lost target stays
  lost (`LostStays`), because a block that the node leaves is replaced by one of a later branch
  (`ChainMoves`); so the recheck, which finds the target to be the chain, shows that it was there at
  every read.
- `NodeInv`: the date of a rescan that was started, or is stored, is that of the scan in progress or the
  wallet's records have what the blocks from it on pay.
- `RescanInv`, `TicketInv`: a poll that observed a completed rescan reads from a tip below its date; a
  ticket is at most the last request, and above the last acknowledgement.
- `DueInv`: the coins the poll has to have stored when it ends (`Due`) are listed or stored from the read
  of the received coins on, and none of them is to be removed, unless the target is lost.

The last two writes find `tip = target`, and what is due in the table.

**Stored tip.** `StoredTipMeansUpdated` is `TipMeansUpdated` for every wallet and chain, any number of
replays, failed reads and commands, and any number of reorganisations or of stops: it assumes that
nothing rewinds the node or rescans, and that stops and reorganisations do not come together
(`MaxCrashes = 0 \/ MaxReorgs = 0`). The run `crash_reorg` shows that the last one is needed. `TipInv`
(`UpdateProofs`) says why it holds:

- `Exact(db, ch)`, the table is what the chain says, has two halves: `Sound`, every block that the table
  names is where the chain has it, and `Full`, nothing that the chain confirms is missing. Outside the
  writes the table is exact for the stored tip. In the middle of the writes, and after a stop there, it
  is only sound, and only for the node's chain; until the first poll after a start a replay is pending,
  which reads from the genesis block and makes it full again (`TableInv`).
- `ChainInv`: without rewinds the node's chain only grows in length, so a chain that a poll lost never
  comes back; what the update lists is said of the case that the target is still the chain
  (`UpdateInv`), which the recheck makes sure of before the first write.
- `RecordsInv`: the node's wallet has recorded what blocks after the wallet's date pay to it, and the
  spends of every coin it has recorded.
- `ListedInv`, `SpentInv`: each row, block and spend that the target has is in the table or staged, step by
  step of the poll; `QuietInv`: no staged change touches a spend that is confirmed.

**Marks.** `MarksAreExact` is `FromSelfExact` under the same assumptions, for a wallet that nothing on the
chain has paid to when it is created (`NewWallet`; the run `replay_self` shows what an older coin does).
Which rows `update_coins_from_self` marks is a least fixed point, and the proof needs no induction
over it: that a marked coin's transaction spends only the wallet's coins (`SelfTx`) follows because the
rows with that are a closed set (`MarksAreSelf`), and in an exact table all inputs of a confirmed
transaction are counted in the first round (`ConfirmedIsMarked`). `SelfInv` adds to `TipInv` what looking
above the former tip only relies on: through every write the table has the coins that the stored chain
pays, so that a coin which is new to the table is above the tip; and those of them that should be are
marked already.

**DerivationIndex.** `IInv == TypeOK /\ Places /\ LookAheadMapped /\ ChangeNeverReused /\
ImportedReceiveNeverReused`. `Places` says which branch and which index a request may have where it
stands. The argument: both counters only rise, an index is handed out in the transaction that raises
its counter to it, and an index handed out earlier is at most the counter (part of
`LookAheadMapped`), so that the new one differs from all. `TypeCorrect`, `ChangeIndexesAreFresh`,
`ImportedReceiveIndexesAreFresh` and `TableHasNoHole` are `Spec => []P` for the four invariants of
the run `derivation`.

**PairedClaim.** `SubmissionImplementsOnce` is the refinement of `PairOnce`, for any number of tasks,
crashes and session changes. `ClaimInv` has the argument: a task that is under way holds the lock, so
there is one (`TaskInv`); a gate is made after its attempt is on disk for good (`JournalInv`), an
attempt is never taken back from there, and so a side has one gate in all time; a gate is entered
once, and everything that leaves does so behind it (`SendInv`); a worker that may still enter has a task that waits
for it (`WaitInv`), which is why an answer closes the gate. `ForkWaitsForBitcoin`, `AcceptedMeansSent`
and `AnswerClosesTheGate` are the other three properties.

**Pairing.** `PairingImplementsTrust` is the refinement of `TrustStore`, for any set of phones, runs and
names. `PairingInv` says that the files are consistent: behind a staged entry the row is the one it
found or the one it proposes, and the proposal has the name readers see (`Good`); and that a run is
where its phone's answers let it be (`RunInv`). Each operation has a lemma on its writes, one after the
other: `RestoreQuiet`, `DropQuiet` and `RevokeQuiet` show that every write of a clean-up is invisible.
`SuccessIsVisible` needs `WrittenInv`: from the commit on the row of a run's staged entry is its
candidate, unless another operation wrote it. `PeerWordIsNotStale` needs `PeerInv`: a binding that is visible was finished by its
phone, which finishes it once, so that a phone found unpaired never holds the dialled row's again.

**PollLoop.** `ReplayWaitsForItsPoll`: `ReplayInv` orders the tickets. A client whose ticket the poll
has begun with, or whose ticket is acknowledged, is among those who asked before it began.
`LoopTypesAreCorrect` adds that the channel never holds more than one message, whoever sends and however.
`EveryWaitIsOwed` (`LoopSpec => []WaitsAreOwed`) is the safety half of `NobodyWaitsForever`, for any number
of clients. `OwedInv == MailInv /\ WaitsAreOwed` is inductive: a client is owed in one place at a time,
since a message leaves the channel only to be served and what is served leaves with its answer
(`ReceiveOwes`, `ReplyOwes`); a client begins to wait in the step that fills the channel (`SendingOwes`);
and one that gives up takes its message's receiver along (`LeftOwes`). `MailInv` has what
this needs beside: the channel holds one message or none, a client's message is not in the channel and
served at once, and the loop serves nobody while it waits or once it is told to stop.

**The five together.** `StoresTypesAreCorrect` (`StoresSpec => []StoresTypeOK`), where `StoresSpec` runs one
of the five components of `MCStores` and leaves the others at their start. `StoresInv` is the conjunction
of the five invariants, each preserved by its own component's steps and by the steps that leave its
variables alone. The types of `Pairing` have lemmas of their own (`StepPairing`): that a plan of writes,
cut short at any place by a failure or a crash, leaves files of the right shape (`RowWritten` and
those after it), and that runs, edits, removals and sync passes stay within their bounds.

**DuressMode.** `DuressNeverShowsACube` and `DuressWipesOnlyWhatIsDue` are the two properties, with their
exceptions, for any set of Cubes and number of activations. Neither is inductive: both need to know
whose marker is on disk. `DuressInv` says that the normal flow shows over a marker only if that was
misread (`ScreenInv`); that a marker which was not misread, or a wipe under way, is of an activation that
found every Cube there is; and that a Cube it found is gone or still has the marker, unless excused
(`WipeInv`). `PendingWipe` is what taking up a wipe may do, for the launch and the locked screen alike
(`ReconcileSteps`).

**BlockSearch.** `SearchFindsACrossing` and `SearchIsExact`: `Bracketed` says that what is excluded on
the left ends with a block before the date and what is excluded on the right begins with one that is
not, whatever the order of times within.

**Model-checked only.** `PollerCatchesUp`, `RescanEnds` and `NobodyWaitsForever`: liveness under fairness is
out of the prover's reach, as is induction over data. `TipMeansUpdated` and `FromSelfExact` outside of
the assumptions above: they do not hold for every value of the constants (`crash_reorg`, `replay_self`).
Every invariant and action property that a passing run checks is stated by a theorem, under the
assumptions named there.

## Not modelled

- Electrum and Esplora (`sync_wallet`): in place of one node's answers there is a whole local copy of
  the wallet's history, kept by an external library; a model would be mostly of that library.
- The durable queue of duress activations with its drainer, enrolment and disarming; two windows on
  one data directory. In `DuressMode` the delivery is a change of the server, so that nothing is said
  of an activation that the server never hears of.
- The single-chain records of the Claim workflow, and how its evidence is collected.
- Descriptors, coin selection, signing, encryption: pure functions over scripts, weights and bytes;
  nothing interleaves, and a small instance says little about them.
- The drafts of spends (`update_spend`, `delete_spend`, `broadcast_spend`). Each is a read, a check and
  a write in separate statements, so that of two updates that overlap the second can take the first
  one's signatures away ("best effort", `commands/mod.rs:1584`), and an update that overlaps a deletion
  stores the draft again. What is left to state under these is what a single `WHERE` clause says.
- JSON-RPC parsing, the process supervision of the node, the Spark bridge: transport around
  something that has the state elsewhere.
- The desktop application, the installer and the UI kit, the largest part of the repository: their
  state is their screens. Together with the vendored crates they are why the map covers a small part
  of the repository's lines.

`PROJECT.json` lists every component with its status, and every hazard known, with the properties
that cover it or the reason why none does.
