SPECIFICATION FairSpec
CONSTANTS
  Callers = {p1, p2}
  Crons = {{1, 2}}
  Horizon = 1
  MaxMinute = 2
  MaxCalls = 3
  MaxFaults = 1
INVARIANT
  RunsKeepToSchedule
PROPERTY
  ScheduleGoesOn
CHECK_DEADLOCK FALSE
