CONSTANTS
  Callers = {}
  Registrars = {r1}
  NoEntry = NoEntry
SPECIFICATION Spec
INVARIANTS AcceptedRegistered
CHECK_DEADLOCK FALSE
