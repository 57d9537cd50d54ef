SPECIFICATION FairSpec
CONSTANTS
  Daemon = d
  Requests = {q1}
  Modes = {"plan_only", "plan_execute", "full_auto", "execute_only"}
  Plans <- SmallPlans
  MaxChildTasks = 2
  MaxDepth = 2
  RepairLimit = 1
  MaxItems = 9
  MaxPlans = 2
  MaxMoves = 1
  MaxDisturbances = 1
CHECK_DEADLOCK FALSE
INVARIANTS TypeOK CreatedOnce RepairsBounded ClosedOnlyWithWork
PROPERTIES OrderIsKept RequestEnds
