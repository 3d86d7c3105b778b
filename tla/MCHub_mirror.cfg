CONSTANTS
  Client = {c1, c2}
  Poller = {q1}
  State = {old, new}
  NoState = NoState
  MaxAge = 1
  MaxChanges = 2
SPECIFICATION Spec
CONSTRAINT StartsOld
INVARIANTS
  AgreeOrGreeted
PROPERTIES
  SidebarsCatchUp
  ClosedClientsLeave
