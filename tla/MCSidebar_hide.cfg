CONSTANTS
  Window = {w1}
  SessionOf <- OneSession
  SidebarPane = {s1, s2}
  CompanionPane = {c1}
  ShellPane = {x1, x2}
  Companions = FALSE
  Job = {j1}
  MaxMoves = 6
  Stash = Stash
  Gone = Gone
  NoPane = NoPane
  NoWindow = NoWindow
SPECIFICATION Spec
CHECK_DEADLOCK FALSE
INVARIANT
  HiddenMeansHidden
