SPECIFICATION Spec
PROPERTIES FillingEnds FaultStopsBooster
CONSTANTS
  Readings <- TankReadings
  ERROR_PRESS <- NoErrorPress
  Slice = 1
  TickMod = 6
  MinWaterBoostOnTime = 2
  MinWaterBoostOffTime = 3
  PWATER_Min = 3
  PWATER_Max = 7
  PWATER_RegMin = 2
  LTANK_Empty = 1
  LTANK_Min = 3
  LTANK_Max = 9
  FILL_TANK_REGEN_DELTA = 2
  FILLING_TANK_STEP = 1
  FillingTankTimeout = 2
  FloodingDebounceTime = 1
  FloodingTimeout = 3
  CriticalErrorsTimeout = 2
  FloodCap = 5
  MinPumpOnTime = 2
  Doses = {}
  FeedCap = 4
  PWM_StartingTime = 1
  PowerReadings = {}
  PowerReadOk = {TRUE}
  WeightReadings = {"low"}
  DrainTime = 5
  DrainingWaterAfterRegen = 2
  IdleDrain = FALSE
  NewDay = FALSE
  Due = {"F1"}
  SaveOk = {TRUE}
  Clears = FALSE
  Switchable = {"RFEEDPUMP"}
  DebugToJournalOn = TRUE
  Resets = FALSE
