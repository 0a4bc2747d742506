\* The calls of the lifecycle test on a device that never faults.
SPECIFICATION TestSpec
CONSTANTS
  Period = 2
  DeviceFaults = FALSE
INVARIANTS HealthyDeviceNoError
CHECK_DEADLOCK FALSE
