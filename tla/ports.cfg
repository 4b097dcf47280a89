SPECIFICATION FairSpec
CONSTANTS
  Ports <- MCPorts
  Hyst = 1
  Volts <- MCVolts
  Masks <- MCMasks
  LowVals <- MCLow
  BattVals <- MCBatt
  AuxVals <- MCAux
  NumSockets = 1
INVARIANTS
  UnderVoltageSheds
  FullPowerWhenNormal
  ReportMatchesPins
  IntentKept
PROPERTIES
  SteadyVoltageSteadyStatus
  RestoreNeedsHysteresis
  ShedEventually
  RestoredEventually
