CONSTANTS
  MaxRuns = 3
  ChunkSizes = {3}
  MaxBytes = 9
  MinStart = 2
  MaxSource = 2
  StartLead = 1
  LateLead = 1
  MaxTime = 5
  None = None

SPECIFICATION Spec

CHECK_DEADLOCK FALSE

INVARIANTS
  TypeOK
  HearsTheStream
  EndReportedOnce
  OneRunPerReset

PROPERTIES
  StopSilences
  NeverIntoThePast
