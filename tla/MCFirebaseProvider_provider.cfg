CONSTANTS
  Calls = {c1, c2}
  Targets = {t1, t2}
  NoTarget = NoTarget
  MaxEvents = 2
SPECIFICATION FairSpec
INVARIANTS ResumedOnce TargetCurrent QuarantineHolds
PROPERTY WaitEnds
CHECK_DEADLOCK FALSE
