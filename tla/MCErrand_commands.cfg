SPECIFICATION Spec
CONSTANTS
  Waiter = {w}
  Watcher = {v}
  Follower = {f, g}
  Tidier = {t}
  Nobody = Nobody
  MaxTurns = 2
  MaxPolls = 4
  MaxCommands = 2
INVARIANTS TypeOK UnboundNeverDead RefusedLeftThePane 
CHECK_DEADLOCK FALSE
PROPERTY EveryCommandEnds
