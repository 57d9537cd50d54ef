SPECIFICATION Spec
CONSTANTS
  Tasks = {1, 2}
  Base <- Chain
  Primary = 1
  Handlers = {h1, h2}
  MaxSuffix = 2
  MaxChanges = 3
  MaxCalls = 2
  MaxHuman = 1
CHECK_DEADLOCK FALSE
INVARIANTS TypeOK ChangesAreKept
PROPERTIES DoneIsDelivered StartsFromDependency
