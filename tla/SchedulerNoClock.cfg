CONSTANTS
  None = None
  Schedulable = {cpu, action, signal}
  Periodic = {}
  OneShot = {action, signal}
  Unscheduled = 9
  Delays = {1, 2}
  Horizon = 3
SPECIFICATION Spec
INVARIANT NeverRunsUnscheduled
CHECK_DEADLOCK FALSE
