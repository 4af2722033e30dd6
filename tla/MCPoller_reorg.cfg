SPECIFICATION Spec
CONSTANTS
  d = d
  s = s
  r = r
  c1 = c1
  c2 = c2
  NoTx = NoTx
  Txs <- MCTxs
  Coins <- MCCoins
  TxOf <- MCTxOf
  Ins <- MCIns
  NumInputs <- MCNumInputs
  InitialChain <- MCEmptyChain
  MaxHeight = 3
  MaxReorgs = 1
  MaxRewinds = 0
  MaxEvictions = 0
  MaxReorgDepth = 1
  Rpcs = {}
  RpcDuringPoll = FALSE
  MaxRescans = 0
  MaxReplays = 0
  MaxFailures = 0
  MaxCrashes = 0
INVARIANTS TipMeansUpdated InsertsNeverPanic FromSelfExact
CHECK_DEADLOCK FALSE
