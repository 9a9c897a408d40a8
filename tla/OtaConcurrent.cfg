CONSTANTS
  Updaters = {u1, u2}
  Cron = TRUE
  MaxVersion = 2
  MaxEvents = 0
SPECIFICATION Spec
PROPERTIES ActiveUntouched
