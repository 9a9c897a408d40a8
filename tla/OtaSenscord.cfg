CONSTANTS
  Updaters = {u1}
  Cron = TRUE
  MaxVersion = 2
  MaxEvents = 1
SPECIFICATION FairSpec
PROPERTIES SenscordRecovers
