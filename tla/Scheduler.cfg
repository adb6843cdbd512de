\* The clock, the CPU and two one-shots; dates 0..3 are run, later ones wait.
CONSTANTS
  None = None
  Schedulable = {clock, cpu, action, signal}
  Periodic = {clock}
  OneShot = {action, signal}
  Unscheduled = 9
  Delays = {0, 1, 2}
  Horizon = 4
SPECIFICATION MCSpec
INVARIANTS TypeOK PoolMirrorsDevices PrefixIsScheduled FrontPinned NothingOverdue
PROPERTIES ImplementsEventLoop DueIsRun
\* The bound Horizon stops the model.
CHECK_DEADLOCK FALSE
