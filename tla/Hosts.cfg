SPECIFICATION SuiteSpec
CONSTANT
  Scenarios <- ControlScenes
INVARIANTS
  CallsAnswered
  ManagersSound
  FilesSound
PROPERTIES
  AdmissionSound
CHECK_DEADLOCK FALSE
