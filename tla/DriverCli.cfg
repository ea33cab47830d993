SPECIFICATION DriverSpec
CONSTANTS
  d1 = d1
  d2 = d2
  d3 = d3
  NoDriver = NoDriver
  Drivers <- MCDrivers
  MaxDrivers = 2
  Backlog = 2
  Timers <- MCTimers
  MaxTime = 2
CHECK_DEADLOCK FALSE
PROPERTY
  TaskDelivered
