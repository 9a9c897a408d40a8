SPECIFICATION Spec
CONSTANTS
  Threads = {t1}
  Statuses = {404}
  Errnos = {"ECONNRESET"}
  MaxFails = 2
PROPERTY LostEventResent
