SPECIFICATION Spec
CONSTANTS
  d = d
  s = s
  r = r
  c1 = c1
  c2 = c2
  NoTx = NoTx
  Txs <- MCDeposit
  Coins <- MCDepositCoin
  TxOf <- MCTxOf
  Ins <- MCIns
  NumInputs <- MCNumInputs
  InitialChain <- MCFundedChain
  MaxHeight = 2
  MaxReorgs = 1
  MaxRewinds = 0
  MaxEvictions = 0
  MaxReorgDepth = 1
  Rpcs = {w, v}
  RpcDuringPoll = FALSE
  MaxRescans = 2
  MaxReplays = 1
  MaxFailures = 1
  MaxCrashes = 1
INVARIANTS TypeOK InsertsNeverPanic
PROPERTIES RescanDelivers ReplayDelivers
