SPECIFICATION LiveSpec
CONSTANTS
  d = d
  s = s
  r = r
  c1 = c1
  c2 = c2
  NoTx = NoTx
  Txs <- MCDeposit
  Coins <- MCDepositCoin
  TxOf <- MCTxOf
  Ins <- MCIns
  NumInputs <- MCNumInputs
  InitialChain <- MCFundedChain
  MaxHeight = 2
  MaxReorgs = 1
  MaxRewinds = 1
  MaxEvictions = 0
  MaxReorgDepth = 1
  Rpcs = {w}
  RpcDuringPoll = FALSE
  MaxRescans = 1
  MaxReplays = 0
  MaxFailures = 1
  MaxCrashes = 0
  Clients = {gui, socket}
  NoClient = NoClient
  MaxCalls = 2
  MaxTickets = 1
  MaxMaintenance = 1
PROPERTIES PollerCatchesUp RescanEnds NobodyWaitsForever
CHECK_DEADLOCK FALSE
