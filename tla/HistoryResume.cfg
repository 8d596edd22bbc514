CONSTANTS
  Listed <- MCListed
  Windows <- MCWindows
  PageLimit = 2
  SpanCapped = FALSE
  MaxRetries = 2
  DayLength = 3
  MaxCrashes = 2
SPECIFICATION Spec
INVARIANT ResumeCovers
