\* Three threads record four events; the broker crashes twice and writes of one event fail.
CONSTANTS
  Thread = {t1, t2, t3}
  RecentCap = 2
  MaxEvents = 4
  MaxCrashes = 2
  MaxFailed = 1
SPECIFICATION Spec
SYMMETRY ThreadSymmetry
INVARIANTS TypeOK LossIsBounded RingFollowsFile
