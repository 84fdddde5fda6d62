\* Command lines, answers of hooks and reports of Git of a few words each; two
\* bytes written, a pipe that holds both, and a query that keeps one.
SPECIFICATION MCSpec
CONSTANTS
  MaxWords = 4
  Bytes <- MCBytes
  PipeSize = 2
  Tick = 1
  MaxBytes = 1
  MaxItems = 2
  MaxRevision = 2
  Calls <- PlanCalls
  Logs <- PlanLogs
INVARIANTS ReadingsSound ProcessSound PlanSound
PROPERTY ProcessReturns
