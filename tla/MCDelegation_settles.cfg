CONSTANTS
  Session = {main}
  Agent = {codex}
  Home = main
  Codex = codex
  EventStatus = {"idle", "running", "waiting", "done"}
  NoThread = NoThread
  NoPane = NoPane
  NoPid = NoPid
  NoRow = NoRow
  NoFold = NoFold
  NoProc = NoProc
  NoRoute = NoRoute
  NoScan = NoScan
  NoFollowup = NoFollowup
  MissThreshold = 2
  StaleAge = 0
  StuckAge = 0
  CeilingAge = 0
  Thread = {t1}
  Pane = {p1}
  Pid = {i1, i2}
  MaxHooks = 1
  MaxMoves = 2
SPECIFICATION DelegationSpec
CHECK_DEADLOCK FALSE
INVARIANTS
  FinishedMeansFinished
PROPERTIES
  EventuallyBound
  RowTellsRollout
