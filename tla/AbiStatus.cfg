CONSTANTS
  Threads = {1, 2}
  MaxCalls = 3

SPECIFICATION Spec

INVARIANTS
  TypeOK
  RetryOnlyWhenExhausted
  DiagnosticsStayOnTheirThread
  ActionableErrorIsExplained
  SuccessIsNotStale
