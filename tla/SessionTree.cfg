SPECIFICATION Spec
CONSTANTS
  Files = {f1, f2}
  NoFile = NoFile
  MaxEntries = 4
  MaxSetbacks = 2
INVARIANTS
  MemoryIsFile
  ConversationKept
SYMMETRY FilePaths
CHECK_DEADLOCK FALSE
