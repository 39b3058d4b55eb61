\* Two processes, one fault, one removal, with and without a legacy file.
SPECIFICATION Spec
CONSTANTS
  Processes = {p1, p2}
  SnapshotEveryN = 3
  MaxChanges = 2
  MaxSaves = 3
  MaxFaults = 1
  MaxRemovals = 1
  None = None
SYMMETRY Symmetry
CHECK_DEADLOCK FALSE
INVARIANTS NumbersGrow Recovered
PROPERTIES LoadsStored
