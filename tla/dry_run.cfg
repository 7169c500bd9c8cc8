SPECIFICATION Spec
PROPERTIES DryRunStops
CONSTANTS
  Readings <- PressureReadings
  ERROR_PRESS <- NoErrorPress
  Slice = 1
  TickMod = 6
  MinWaterBoostOnTime = 2
  MinWaterBoostOffTime = 3
  PWATER_Min = 3
  PWATER_Max = 7
  PWATER_RegMin = 2
  LTANK_Empty = 1
  LTANK_Min = 3
  LTANK_Max = 9
  FILL_TANK_REGEN_DELTA = 2
  FILLING_TANK_STEP = 1
  FillingTankTimeout = 0
  FloodingDebounceTime = 1
  FloodingTimeout = 3
  CriticalErrorsTimeout = 2
  FloodCap = 5
  MinPumpOnTime = 2
  Doses = {0}
  FeedCap = 4
  PWM_StartingTime = 1
  PowerReadings = {"normal", "dry"}
  PowerReadOk = {TRUE}
  WeightReadings = {}
  DrainTime = 5
  DrainingWaterAfterRegen = 2
  IdleDrain = FALSE
  NewDay = FALSE
  Due = {}
  SaveOk = {TRUE}
  Clears = FALSE
  Switchable = {}
  DebugToJournalOn = TRUE
  Resets = FALSE
