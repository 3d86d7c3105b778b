CONSTANTS
  Window = {w1, w2}
  SessionOf <- OneSession
  SidebarPane = {s1, s2, s3}
  CompanionPane = {c1}
  ShellPane = {x1, x2}
  Companions = TRUE
  Job = {j1, j2}
  MaxMoves = 3
  Stash = Stash
  Gone = Gone
  NoPane = NoPane
  NoWindow = NoWindow
SPECIFICATION FairSpec
CHECK_DEADLOCK FALSE
ACTION_CONSTRAINT FirstStart
INVARIANT
  TypeOK
PROPERTIES
  OrphansSwept
  VisitedWindowsHaveSidebars
