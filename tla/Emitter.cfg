SPECIFICATION Spec
CONSTANTS
  h1 = h1
  h2 = h2
  Events = {"data", "end"}
  Handlers = {h1, h2}
  Counts <- CountsUsed
  Reentrant = {"on", "off", "allOff", "emit", "emitFastAndSchedule"}
  MaxListeners = 3
  MaxEmits = 3
  MaxDepth = 2
SYMMETRY Symmetry
CHECK_DEADLOCK FALSE
INVARIANTS Budget InOrder
PROPERTY PersistentStays
