SPECIFICATION Spec
CONSTANTS
  NvsCommitInterval = 2
  SaveOutcomes = {"saved"}
  MaxCommitFailures = 1
  Firmware <- MCFirmware
  NoCopy = NoCopy
PROPERTIES
  ConfirmedOnlyHealthy
