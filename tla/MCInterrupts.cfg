CONSTANTS
  TIMER_HZ = 2
  SECOND = 4
  TICK_WORD = 16
  MaxSpurious = 1
  Lines <- MCLines
  Faults <- MCFaults
  Durations <- MCDurations
SPECIFICATION Spec
CHECK_DEADLOCK FALSE
INVARIANTS
  TypeOK
  NoFalsePanic
  ControllersFree
  SleepLength
PROPERTIES
  RequestIsHandled
  SleepEnds
