\* Two prompts, with compaction, a note, and two faults.
SPECIFICATION Spec
CONSTANTS
  read = read
  write = write
  Tools = {read, write}
  Parallelizable = {read}
  Requests <- MixedRequests
  MaxParallel = 2
  MaxIterations = 2
  MaxReactive = 1
  MaxRateLimit = 1
  Threshold = 2
  NoProgressLimit = 2
  MaxPrompts = 2
  MaxNotes = 1
  MaxFaults = 2
INVARIANTS ConversationSound SideEffectsAlone
PROPERTIES RunEnds
