SPECIFICATION Spec
CONSTANTS
  Threads = {t1}
  Statuses = {404}
  Errnos = {"ECONNRESET"}
  MaxFails = 17
INVARIANTS TypeOK NoSentinel OutageCountClear
PROPERTIES OutageReported LowBitsKept
