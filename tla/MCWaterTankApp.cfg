SPECIFICATION Spec
CONSTANTS
  NvsCommitInterval = 2
  SaveOutcomes = {"saved", "nvs_failed"}
  MaxCommitFailures = 1
  Firmware <- MCFirmware
  NoCopy = NoCopy
INVARIANTS
  TypeOK
  NothingLostOnTheWay
  EarlyPressIsServed
PROPERTIES
  ConfirmedOnlyInitialised
  ImplementsStorageCycle
