CONSTANTS
  Callers = {c1}
  Registrars = {}
  NoEntry = NoEntry
SPECIFICATION Spec
INVARIANTS NoFreedContext
