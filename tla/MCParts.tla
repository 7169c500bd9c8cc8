------------------------------ MODULE MCParts ------------------------------
(***************************************************************************)
(* The parts around the control loop, checked in one run: their disjoint   *)
(* sum.  Init chooses one part, which then takes its steps; the others     *)
(* stay where they began.  A property speaks of the variables of its part  *)
(* alone, so the sum has it exactly when the part's own specification has. *)
(* The flow meter is taken twice, with one of its two users each time:     *)
(* neither writes what the other reads.                                    *)
(***************************************************************************)
EXTENDS Relay, Journal, WebMutex, SavedBytes, UsedWater, ErrorList, Notices,
        DayFile, MinuteFile, Chart, AdcFilter, FlowMeter, Settings, Sockets, TLC

VARIABLE part   \* the part that takes steps

MCPriority == "vPumps" :> 4 @@ "vKeysLCD" :> 4 @@ "vWeb" :> 1
MCOrders == "vPumps" :> {"on", "stop"} @@ "vKeysLCD" :> {"toggle"} @@
            "vWeb" :> {"manual", "alloff"}
MCCodes == "vReadSensor" :> {"weight", "dry"} @@ "vService" :> {"flood", "start"} @@ "vWeb" :> {"save"}
MCUrgency == "vKeysLCD" :> 4 @@ "vReadSensor" :> 3 @@ "vService" :> 2 @@ "vWeb" :> 1

AllParts == {"relay", "journal", "mutex", "bytes", "water", "errors", "notices", "days",
             "minutes", "chart", "adc", "pauses", "drains", "settings", "sockets"}

partsVars == <<part, relayVars, journalVars, mutexVars, bytesVars, waterVars, errorVars,
               noticeVars, fileVars, minuteVars, chartVars, adcVars, flowVars, settingsVars,
               socketVars>>

PartsInit ==
  /\ part \in AllParts
  /\ RelayInit /\ JournalInit /\ MutexInit /\ BytesInit /\ WaterInit /\ ErrorsInit
  /\ NoticesInit /\ FileInit /\ MinutesInit /\ ChartInit /\ AdcInit /\ FlowInit /\ SettingsInit
  /\ SocketsInit

Turn(p) == part = p /\ UNCHANGED part

\* The variables of all parts but one stay.
OthersStay(p) ==
  /\ p # "relay" => UNCHANGED relayVars
  /\ p # "journal" => UNCHANGED journalVars
  /\ p # "mutex" => UNCHANGED mutexVars
  /\ p # "bytes" => UNCHANGED bytesVars
  /\ p # "water" => UNCHANGED waterVars
  /\ p # "errors" => UNCHANGED errorVars
  /\ p # "notices" => UNCHANGED noticeVars
  /\ p # "days" => UNCHANGED fileVars
  /\ p # "minutes" => UNCHANGED minuteVars
  /\ p # "chart" => UNCHANGED chartVars
  /\ p # "adc" => UNCHANGED adcVars
  /\ p \notin {"pauses", "drains"} => UNCHANGED flowVars
  /\ p # "settings" => UNCHANGED settingsVars
  /\ p # "sockets" => UNCHANGED socketVars

PartsNext ==
  \/ Turn("relay") /\ RelayNext /\ OthersStay("relay")
  \/ Turn("journal") /\ JournalNext /\ OthersStay("journal")
  \/ Turn("mutex") /\ MutexNext /\ OthersStay("mutex")
  \/ Turn("bytes") /\ BytesNext /\ OthersStay("bytes")
  \/ Turn("water") /\ WaterNext /\ OthersStay("water")
  \/ Turn("errors") /\ ErrorsNext /\ OthersStay("errors")
  \/ Turn("notices") /\ NoticesNext /\ OthersStay("notices")
  \/ Turn("days") /\ FileNext /\ OthersStay("days")
  \/ Turn("minutes") /\ MinutesNext /\ OthersStay("minutes")
  \/ Turn("chart") /\ ChartNext /\ OthersStay("chart")
  \/ Turn("adc") /\ AdcNext /\ OthersStay("adc")
  \/ Turn("pauses") /\ (MeterStep \/ BoosterStep) /\ OthersStay("pauses")
  \/ Turn("drains") /\ (MeterStep \/ DrainStep) /\ OthersStay("drains")
  \/ Turn("settings") /\ SettingsNext /\ OthersStay("settings")
  \/ Turn("sockets") /\ SocketsNext /\ OthersStay("sockets")

\* Fairness is WebMutex's, of vWeb0 alone.
PartsSpec == /\ PartsInit /\ [][PartsNext]_partsVars
             /\ WF_partsVars(Turn("mutex") /\ WatcherStep /\ OthersStay("mutex"))

\* A part goes no further where what its properties exclude has happened.
Undisturbed ==
  /\ spoiled = {} /\ doubt = {} /\ crossed = {} /\ ~tornList
  /\ marred = {} /\ harm = {} /\ ~upset /\ ~torn_read /\ muddle = {}
=============================================================================
