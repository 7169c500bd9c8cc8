SPECIFICATION WatchSafe
CONSTRAINT DrainOrDose
INVARIANTS TypeOK DosingPaidFor
PROPERTIES ReopenedAfterDry
CONSTANTS
  Readings <- FloodOnly
  ERROR_PRESS <- NoErrorPress
  Slice = 1
  TickMod = 2
  MinWaterBoostOnTime = 2
  MinWaterBoostOffTime = 3
  PWATER_Min = 3
  PWATER_Max = 7
  PWATER_RegMin = 2
  LTANK_Empty = 1
  LTANK_Min = 3
  LTANK_Max = 9
  FILL_TANK_REGEN_DELTA = 2
  FILLING_TANK_STEP = 1
  FillingTankTimeout = 0
  FloodingDebounceTime = 1
  FloodingTimeout = 3
  CriticalErrorsTimeout = 0
  FloodCap = 4
  MinPumpOnTime = 2
  Doses = {0, 1, 2}
  FeedCap = 3
  PWM_StartingTime = 1
  PowerReadings = {"normal"}
  PowerReadOk = {TRUE}
  WeightReadings = {"empty", "ok"}
  DrainTime = 1
  DrainingWaterAfterRegen = 2
  IdleDrain = TRUE
  NewDay = FALSE
  Due = {}
  SaveOk = {TRUE}
  Clears = TRUE
  Switchable = {"RFEEDPUMP"}
  DebugToJournalOn = TRUE
  Resets = TRUE
