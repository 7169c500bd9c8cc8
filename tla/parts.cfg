SPECIFICATION PartsSpec
INVARIANTS
  QuietRelayIsTrue
  ReadsBack
  MarksFound
  OneInsideBeforeLapse
  NothingSkipped
  ReportIsTrue
  CountedOnce
  RegensCounted
  ListIsWhole
  ErrorIsShown
  NoticeIsSent
  EndIsFound
  DaysKept
  LaterDayOnce
  MinutesKept
  ListInOrder
  AverageIsTrue
  BoosterNoted
  SettingsWhole
  ServedAlone
PROPERTIES FreeAgain
CONSTRAINT Undisturbed
CONSTANTS
  Task = {"vPumps", "vKeysLCD", "vWeb"}
  Priority <- MCPriority
  Orders <- MCOrders
  Size = 6
  Page = 2
  Packet = 3
  Writer = {"vPumps", "vService"}
  Length = {1, 3}
  ServiceLength = 2
  Numbers = 3
  Web = {vWeb0, vWeb1, vWeb2}
  Other = {vService}
  Watcher = vWeb0
  Width = 4
  Gap = 1
  ChipPage = 2
  ByteMod = 3
  Saver = {"vService", "web"}
  Resetter = {"web"}
  Erased = FALSE
  MaxPoured = 2
  MaxRegens = 2
  MaxDays = 2
  WritesFail = TRUE
  Places = 3
  Codes <- MCCodes
  Clearer = {"vKeysLCD", "vWeb"}
  Transient = {"flood"}
  Urgency <- MCUrgency
  Notifier = {"vReadSensor", "vService", "web"}
  Text = {"weight", "flood"}
  NoText = "none"
  BlockSize = 4
  LastBlock = 3
  Lengths = {2, 3, 4}
  CardFails = TRUE
  MaxDay = 5
  MaxMinute = 5
  CHART_POINT = 4
  MaxPoint = 8
  FilterSize = 3
  Raw = {0, 4, 9}
  kfValue = 150
  MinDrainLiters = 20
  MaxPulses = 6
  Structs = 2
  Values = {"a", "b"}
  Default = "a"
  Thread = {"vWeb0", "vWeb1"}
  Service = "vWeb0"
  WebSockets = 2
