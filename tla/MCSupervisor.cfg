\* The limits in their order, a few samples long, and a clock that soon wraps.
SPECIFICATION SupervisorSpec
CONSTANTS
  TaskStages = {"poll"}
  LaterStages = {"web"}
  Stall = 2
  RetryAfter = 2
  RebootAfter = 5
  LowStreak = 2
  Wrap = 14
INVARIANTS
  SupervisorTypeOK
  StallIsCaught
  StallReportedOnce
  OutageIsActedOn
PROPERTIES
  ResetsOnlyStalls
  RebootIsEarned
