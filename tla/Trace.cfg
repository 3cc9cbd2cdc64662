SPECIFICATION Spec
CONSTANTS
  Emitter = {e1, e2, e3}
  Size = 2
  MaxEvents = 2
  MaxSessions = 2
INVARIANTS SlotsApart CountSettles
PROPERTY DumpsWhole
CHECK_DEADLOCK FALSE
