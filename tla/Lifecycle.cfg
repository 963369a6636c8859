CONSTANTS
  Instances = {p1, p2}
  NoPid = NoPid
  Deaths = {"kill", "command", "force"}
  MaxRuns = 2
  MaxHashes = 1
  MaxShares = 1
SPECIFICATION Spec
INVARIANTS SavedBalance SavedWorkWasDone CpuAccounted HistoryKept StopFindsRun
CHECK_DEADLOCK FALSE
SYMMETRY Symmetry
