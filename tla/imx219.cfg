SPECIFICATION Spec
CONSTANTS
  Formats <- MCFormats
  ControlsSet = {"exposure", "pedestal"}
  Values = {7}
  InputClock = 24
  RangeChecked = FALSE
  MaxFailures = 2
INVARIANTS TypeOK ReportedIsTold BayerPhase WindowSound ReadyIsSetUp
CHECK_DEADLOCK FALSE
