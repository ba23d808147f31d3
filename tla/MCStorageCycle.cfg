SPECIFICATION Spec
CONSTANTS
  NvsCommitInterval = 4
  SaveOutcomes = {"saved", "nvs_failed", "not_saved"}
  MaxCommitFailures = 2
  Firmware <- MCFirmware
  NoCopy = NoCopy
INVARIANTS
  TypeOK
  LossIsBounded
  CoreEventsAreDurable
