SPECIFICATION Spec
CONSTANTS
  d = d
  s = s
  r = r
  c1 = c1
  c2 = c2
  NoTx = NoTx
  Txs <- MCTxs
  Coins <- MCCoins
  TxOf <- MCTxOf
  Ins <- MCIns
  NumInputs <- MCNumInputs
  InitialChain <- MCFundedChain
  MaxHeight = 2
  MaxReorgs = 0
  MaxRewinds = 0
  MaxEvictions = 0
  MaxReorgDepth = 1
  Rpcs = {w}
  RpcDuringPoll = TRUE
  MaxRescans = 1
  MaxReplays = 0
  MaxFailures = 0
  MaxCrashes = 0
PROPERTIES RescanDelivers
CHECK_DEADLOCK FALSE
