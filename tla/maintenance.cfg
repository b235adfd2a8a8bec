SPECIFICATION MaintenanceSpec
CONSTANTS
  Never = Never
  Jobs <- RegisteredJobs
  Interval = 10
  SleepTicks = 1
  MaxLate = 0
  MaxPass = 2
  MaxRestarts = 1
  MaxDown = 1
  Day = 10
  Retention = 2
  Resend = 2
  MaxFailed = 1
INVARIANTS MaintenanceTypeOK NoTwoDaysSkipped AppliedOnceForGood
PROPERTY EveryJobRuns
CHECK_DEADLOCK FALSE
