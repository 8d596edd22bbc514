CONSTANTS
  Scores <- MCScores
  CalmScore <- MCCalmScore
  EscalationThreshold <- MCEscalationThreshold
  RecoveryThreshold <- MCRecoveryThreshold
  EscalationsNeeded = 2
  RecoveriesNeeded = 2
  MinDimensions = 2
  HardHaltOnSingle = FALSE
  FallbackState = 3
  FallbackAction = "REJECT"
  MaxExposure <- MCMaxExposure
  Exposures <- MCExposures
  Overrides = {}
SPECIFICATION Spec
INVARIANT EscalationConfirmed
