CONSTANTS
  Session = {main}
  Agent = {codex}
  Home = main
  Codex = codex
  EventStatus = {"idle", "running", "waiting", "done"}
  NoThread = NoThread
  NoPane = NoPane
  NoPid = NoPid
  NoRow = NoRow
  NoFold = NoFold
  NoProc = NoProc
  NoRoute = NoRoute
  NoScan = NoScan
  NoFollowup = NoFollowup
  MissThreshold = 2
  StaleAge = 0
  StuckAge = 0
  CeilingAge = 0
  Thread = {t1, t2}
  Pane = {p1, p2}
  Pid = {i1, i2}
  MaxHooks = 1
  MaxMoves = 1
SPECIFICATION DelegationSafety
SYMMETRY Symmetry
ACTION_CONSTRAINT NamesAtOnce
CHECK_DEADLOCK FALSE
INVARIANT
  BoundWhereItRan
PROPERTY
  BoundForGood
