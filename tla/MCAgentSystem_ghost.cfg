CONSTANTS
  Session = {main}
  Agent = {claude, amp}
  Watched = {claude}
  Thread = {t1}
  Pane = {p1}
  Pid = {i1, i2}
  EventStatus = {"idle", "running", "done"}
  SessionOf <- OneSession
  NoThread = NoThread
  NoPane = NoPane
  NoPid = NoPid
  NoRow = NoRow
  NoFold = NoFold
  NoProc = NoProc
  NoScan = NoScan
  NoStatus = NoStatus
  MissThreshold = 2
  StaleAge = 0
  StuckAge = 0
  CeilingAge = 0
  MaxHooks = 2
  MaxMoves = 4
SPECIFICATION SystemSpec
CHECK_DEADLOCK FALSE
PROPERTY
  NoRowWithoutAgent
