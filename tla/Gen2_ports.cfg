CONSTANTS
  Ports <- TwoPorts
  Statuses <- AllStatuses
  DeviceStatuses <- IdleOrNot
  Targets <- SecondPort
SPECIFICATION Spec
INVARIANTS TypeOK SwitchMatchesSensor NewestSessionWins ShownOnlyIfReported
