CONSTANTS
  Updaters = {u1}
  Cron = TRUE
  MaxVersion = 3
  MaxEvents = 0
SPECIFICATION Spec
PROPERTIES RunningUntouched
