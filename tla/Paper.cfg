CONSTANTS
  Instrument <- MCInstrument
  Capital = 40
  Prices <- MCPrices
  Targets <- MCTargets
  MaxBars = 5
  Latencies = {0, 1, 2}
  Fee = 1
  Spread = 1
  MaxPosition = 60
  MaxGross = 50
  MaxTurnover = 75
  MaxDrawdown = 25
  MaxDailyLoss = 20
  StaleThreshold = 2
  HaltOnBadCandle = TRUE
SPECIFICATION Spec
INVARIANTS PaperTypeOK BooksBalance LossesHalt OrdersWithinLimit
PROPERTY HaltIsQuiet
CHECK_DEADLOCK FALSE
