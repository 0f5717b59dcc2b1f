\* From the command line to the exit code: two modules, passes that report
\* anything, a back end that may fail at every call.
CONSTANTS
  MaxArgs = 3
  MaxFiles = 2
  MaxReports = 3
  MaxAnnots = 2
  Limits = {0, 1}
SPECIFICATION Spec
INVARIANTS
  EveryReportCounted
  FailureIsExplained
  ErrorsWriteNothing
  SuccessMeansDone
  GatePerFile
  PassMeansAnnotated
PROPERTIES
  Exits
\* The compiler stops.
CHECK_DEADLOCK FALSE
