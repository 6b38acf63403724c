SPECIFICATION RunSpec
CONSTANTS
  CoreCounts = {1, 2, 4}
  Jobs <- MCJobs
INVARIANTS BarrierTypeOk BarrierSeparates NoRace ResultVerified StaysInside
PROPERTY EveryThreadExits
CHECK_DEADLOCK FALSE
