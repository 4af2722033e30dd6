SPECIFICATION StoresSpec
CONSTANTS
  Tasks = {t1, t2}
  NoTask = NoTask
  MaxSessions = 1
  MaxCrashes = 2
  Phones = {p1, p2}
  Runs = {r1, r2}
  NewNames = {n1}
  DefaultName = n0
  OldBinding = old
  NoRow = NoRow
  NoEntry = NoEntry
  NoPhone = NoPhone
  NoSync = NoSync
  MaxActs = 2
  Targets = {seeds, settings}
  MaxTriggers = 2
  TipHeight = 4
  MaxTime = 3
  Clients = {gui, socket}
  NoClient = NoClient
  MaxCalls = 2
  MaxTickets = 2
  MaxMaintenance = 1
INVARIANTS
  StoresTypeOK
  ForkAfterSixConfirmations AnswersAreTrue NoCubeAfterActivation SearchCrosses SearchExact
  ReplayOkIsFresh WaitsAreOwed
PROPERTIES
  SubmitsAtMostOnce NoSendStartsAfterAnswer
  ImplementsTrustStore FinishedIsVisible PeerRemovesOnlyDropped
  WipesOnlyWhatIsDue
SYMMETRY Alike
CHECK_DEADLOCK FALSE
