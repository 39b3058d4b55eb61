\* Two agents, a user who undoes, two files, two contents; one upset at any point.
SPECIFICATION Spec
CONSTANTS
  Editors = {e1, e2}
  Undoers = {u1}
  Paths = {f, g}
  Contents = {a, b}
  Absent = Absent
  Torn = Torn
  Calls <- EditsAndMoves
  MaxOps = 2
  MaxUpsets = 1
  None = None
SYMMETRY Symmetry
CHECK_DEADLOCK FALSE
INVARIANTS LosesOnlyItsOwn AllOrNothing UndoChain
