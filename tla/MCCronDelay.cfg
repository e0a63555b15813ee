CONSTANTS
  Jobs = {j1, j2}
  Delays = {1, 2, 3}
  Intervals = {1, 3}
  Tags = {t1}
  TimeoutMax = 2
  Horizon = 5
SPECIFICATION CronSpec
PROPERTIES NotBeforeItsTime
CHECK_DEADLOCK FALSE
