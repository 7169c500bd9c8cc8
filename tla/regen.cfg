SPECIFICATION Safe
INVARIANTS OneRegenRequest
CONSTANTS
  Readings <- BackwashReadings
  ERROR_PRESS <- NoErrorPress
  Slice = 1
  TickMod = 2
  MinWaterBoostOnTime = 2
  MinWaterBoostOffTime = 3
  PWATER_Min = 3
  PWATER_Max = 7
  PWATER_RegMin = 2
  LTANK_Empty = 1
  LTANK_Min = 3
  LTANK_Max = 9
  FILL_TANK_REGEN_DELTA = 2
  FILLING_TANK_STEP = 1
  FillingTankTimeout = 0
  FloodingDebounceTime = 1
  FloodingTimeout = 3
  CriticalErrorsTimeout = 2
  FloodCap = 5
  MinPumpOnTime = 2
  Doses = {}
  FeedCap = 4
  PWM_StartingTime = 1
  PowerReadings = {}
  PowerReadOk = {TRUE}
  WeightReadings = {}
  DrainTime = 5
  DrainingWaterAfterRegen = 0
  IdleDrain = FALSE
  NewDay = TRUE
  Due = {"F1", "F2"}
  SaveOk = {TRUE, FALSE}
  Clears = FALSE
  Switchable = {}
  DebugToJournalOn = TRUE
  Resets = FALSE
