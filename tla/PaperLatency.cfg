CONSTANTS
  Instrument <- MCInstrument
  Capital = 40
  Prices <- MCOnePrice
  Targets <- MCTargets
  MaxBars = 5
  Latencies = {2}
  Fee = 0
  Spread = 0
  MaxPosition = 60
  MaxGross = 50
  MaxTurnover = 75
  MaxDrawdown = 25
  MaxDailyLoss = 20
  StaleThreshold = 2
  HaltOnBadCandle = TRUE
SPECIFICATION Spec
INVARIANT PositionWithinLimit
CHECK_DEADLOCK FALSE
