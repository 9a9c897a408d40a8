CONSTANTS
  Updaters = {u1}
  Cron = TRUE
  MaxVersion = 2
  MaxEvents = 2
SPECIFICATION FairSpec
INVARIANTS TypeOK ActiveComplete LinksAgree
PROPERTIES RollbackKept ActiveUntouched NeverSwitchedBack BlueGreenImplemented RunDelivers RunsBounded EventuallyLatest ServiceRecovers
