SPECIFICATION RunSpec
CONSTANTS
  CoreCounts = {1}
  Jobs <- DatasetJobs
INVARIANTS ResultVerified
CHECK_DEADLOCK FALSE
