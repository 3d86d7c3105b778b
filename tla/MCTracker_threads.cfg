CONSTANTS
  Session = {main}
  Agent = {claude}
  Thread = {t1, t2}
  Pane = {p1}
  Pid = {i1, i2}
  EventStatus = {"running", "waiting"}
  NoThread = NoThread
  NoPane = NoPane
  NoPid = NoPid
  NoRow = NoRow
  NoFold = NoFold
  MissThreshold = 2
  StaleAge = 0
  StuckAge = 0
  CeilingAge = 0
SPECIFICATION Spec
SYMMETRY Symmetry
INVARIANTS
  TypeOK
  FlagsBelongToRows
  OneRowPerProcess

  
  
