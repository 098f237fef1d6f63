CONSTANTS
  Ports <- TwoPorts
  Statuses <- OnOff
  DeviceStatuses <- IdleOrNot
  Targets <- SecondPort
SPECIFICATION Spec
INVARIANTS IdleClearsSessions
