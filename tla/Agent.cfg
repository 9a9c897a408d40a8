CONSTANTS
  Callers = {c1,c2}
  Registrars = {r1,r2}
  NoEntry = NoEntry
SPECIFICATION FairSpec
INVARIANTS TypeOK UndeployHasContext ServedContextReady EarlyRegistered FlushIntact RetFaithful TearsDownHeld
PROPERTIES LadderImplemented ShutdownBounded ShutdownReturns
