# WaterTreat in TLA+

WaterTreat is the firmware of a controller (Arduino Due, FreeRTOS) for the water
of a house: a tank, a two-stage pressure booster, a dosing pump, two filters that
regenerate, a drain, a shut-off valve and sensors of leaks. This directory holds
TLA+ modules that model the program in `src/WaterTreatment/`, configurations that
check them with TLC, and proofs that TLAPS checks. `PROJECT.json` lists components,
runs, mutants, findings, hazards, theorems, and the source lines of every
definition.

Contents: 1 the system, 2 the modules, 3 how the code was cut into actions,
4 runs, 5 fairness, 6 proofs, 7 what the checks found, 8 what is not modelled,
9 plan. Line numbers without a file are those of
`src/WaterTreatment/WaterTreatment.ino`.

## 1. The system

### 1.1 Components

| component | where | state it keeps | operations |
|---|---|---|---|
| `vPumps`, control loop, priority 4 | 1287-1474 | `WaterBoosterStatus`, `WaterBoosterTimeout`, `FloodingTime`, `FillingTankTimer` and level, `CriticalErrors_timeout` | one pass every 20 ms (`TIME_SLICE_PUMPS`): sensors, empty tank, flooding, booster, dosing, tank, regeneration |
| `vReadSensor`, priority 3 | 1022-1250 | power, flow, weight | power trips, dosing time, weight of the reagent, counters |
| `vService`, priority 2 | 1478-1669 | timers, due work | mailbox of `vPumps`, drain timers, requests of regeneration, saves, a day's end |
| keys and LCD, priority 4 | 780-850 | menu | clear all errors, switch relays |
| web server, priority 1 | `WebServer.ino` | connections | the same commands, options, pages |
| relays (`devRelay`) | `Hardware.ino` 510-560 | flags of each relay, `Relay`, pin | `set_ON`, `set_OFF`, manual and all-off |
| errors | `MainClass.ino` 20-125 | `MC.error`, `Errors[16]`, `CriticalErrors` | `set_Error`, `clear_error`, `clear_all_errors` |
| clock memory | `Util.ino` 880-921 | `MC.RTC_store`, `NeedSaveRTC` | `update_RTC_store_memory` |
| `WorkStats` | `MainClass.ino` | counters in the EEPROM | save, load |
| journal | `Information.ino` | ring in the EEPROM | write, read by the web server |
| settings | `MainClass.ino` | options in the EEPROM with a CRC | save, load |
| statistics, history | `Statistics.ino` | files on the SD card, cached blocks | update, save, a new year |
| charts | `Information.ino` | rings of points | add, read |
| semaphores | `WaterTreatment.ino` 100-170 | a flag each | take with a time-out, give |
| ADC, contacts, flow, scale | `Hardware.ino` | averages | read |
| power meter, Modbus | `Hardware.ino` | last readings, error counts | read with retries |
| temperature sensors, OneWire | `DigitalTemp.ino`, `OneWire.cpp` | last temperatures | conversion, read |
| notifications | `Message.ino` | one slot | set, send |
| sockets and the network chip | `WebServer.ino` 69-238, `Network.ino` | eight sockets of the chip, a mark of each web thread | serve, send by packets, close what hangs, restart the chip |
| flow meter | `Hardware.ino` 400-440, `WaterTreatment.ino` 1076-1107, 1358-1387, 1508-1561 | pulses, litres and their rest | interrupt, read, notes of the booster and of a drain |
| time | `DateTime.ino` | clock | time server, a new day |

### 1.2 How they interact

The tasks share global variables without locks. `vPumps` has the highest priority
(with the keys) and preempts all others, so between two of its sleeps it is atomic
to them. They are not atomic to it: `CriticalErrors |= ...` of `vReadSensor`,
`TimeFeedPump += ...`, `--TimerDrainingWater` and `RTC_store.Work &= ...` are a load
and a store with `vPumps` possible in between.

`vPumps` itself sleeps in two kinds of places. One is the end of a pass (1471). The
other is easily missed: `devRelay::set_Relay` writes a line to the journal when a
relay other than the booster's and the dosing pump's switches and the option
`DebugToJournal` is set, which it is by default (`MainClass.ino` 579); a journal line
goes to an EEPROM over I2C and the task waits for it. A pass is then cut in the
middle of a flooding, after the water's body and in the notes of a regeneration, and every
task of lower priority runs there.

The parts around the control share just as freely. `set_Relay`, `Errors[]`, the place of a
notice, a chart, the flow meter's counters and the ADC's sums have no lock. The two
semaphores that there are protect a bus and not the data: `xI2CSemaphore` (EEPROM and
clock) and `xWebThreadSemaphore` (network chip and SD card, on one SPI bus). Both are
taken with a time-out, and the tasks go on without when it runs out, each in its own
way. `SemaphoreTake` grants without a look while the scheduler is suspended, and `vWeb0` gives
a semaphore that was busy for long, whoever has it.

`vPumps` reports its errors to `vService` through a mailbox with a single place,
`vPumpsNewError`, for the reporting itself is slow. Only the clock's memory survives a
restart with anything the control needs: `Work`, the filters that regenerate. Beyond the control
four places survive: the clock's memory, the EEPROM with counters, settings and
journal, and the files on the card. None has a second copy, and each is written in several
pieces between which the power may fail.

### 1.3 What is hard

1. Read-modify-writes of `CriticalErrors`, `TimeFeedPump`, `Work`, drain timers.
2. `vService` tests a condition and acts on it several statements later.
3. One time stamp, `FloodingTime`, with two meanings (debounce; dry time).
4. A save that clears requests which came after it had taken its copy.
5. An error that reloads the timer that would end it.
6. The booster's status word against its two relays, over errors, operator and reset.
7. A counter of milliseconds that wraps, and must not.
8. Writes in pieces, with sleeps between them, from memory that others change: counters,
   journal, lines of statistics.
9. Marks and ends that are searched for after a power failure: head and tail of the journal,
   the end of a text among zeroed blocks.
10. One fact in two memories, the clock's and the EEPROM's, written one after the other.
11. Semaphores that are lost, forgotten, or given by somebody else.
12. Threads that look at a thing and mark it later: sockets, free places in a list.

### 1.4 What makes each component correct

| component | properties |
|---|---|
| `vPumps`, booster | relays follow the status; stages start and stop in order, rest between runs, never start in a fault (`BoosterReleased`, `KeepsPromise`, `FaultStopsBooster`, `DryRunStops`) |
| `vPumps`, flooding | wet inputs end in a valve that is shut and stays so, dry ones in an open one, never too soon; reported (`FloodValveShuts`, `FloodValveReleases`, `ReopenedAfterDry`, `FloodStopsFilling`, `TripReported`) |
| `vPumps`, tank | filling ends; the error of an empty tank ends (`FillingEnds`, `TankRecovers`) |
| dosing | the pump runs on time that was asked for (`DosingPaidFor`) |
| drain | an open drain is timed and gets shut (`DrainHasTimer`, `DrainEnds`) |
| regeneration, clock memory | one filter asked at a time; the end is noted and saved (`OneRegenRequest`, `RegenNoted`) |
| relays | flags, belief and output agree once the calls are over (`QuietRelayIsTrue`) |
| journal | what is served is the last that was written, in order and without marks; a restart finds head and tail (`ReadsBack`, `MarksFound`) |
| `WorkStats` | no changed byte is skipped for good, a save that reports success has all (`NothingSkipped`, `ReportIsTrue`) |
| clock memory and `WorkStats` | no litre twice, no regeneration uncounted, over power failures (`CountedOnce`, `RegensCounted`) |
| settings | a start loads what was saved as a whole (`SettingsWhole`) |
| errors, notifications | every error listed once, none hidden from the display; a notice that was taken is sent (`ListIsWhole`, `ErrorIsShown`, `NoticeIsSent`) |
| statistics, history | the end is found, lines stay whole, no day has two behind the first line (`EndIsFound`, `DaysKept`, `LaterDayOnce`, `MinutesKept`) |
| charts, ADC | points in order, averages of the newest values (`ListInOrder`, `AverageIsTrue`) |
| flow meter | the water of a pause is noted, a drain of too little is reported (`BoosterNoted`, `FewLitresReported`) |
| semaphores | one user of the SPI devices, and always again free (`OneInsideBeforeLapse`, `FreeAgain`) |
| sockets | a connection is served by one thread, which serves no other in its place (`ServedAlone`) |

## 2. The modules

| module | contents |
|---|---|
| `WaterControl` | the controller: state and actions of `vPumps`, `vReadSensor`, `vService`, the operator, restarts; `Init`, `Next`, `Safe`, `Spec`; type invariant and properties |
| `BoosterPromise` | abstract specification of the booster, with no pressures, passes or status |
| `FloodWatch` | `WaterControl` composed with an observer: a clock `dryFor` of how long the inputs have been dry, which the code does not have |
| `MCWaterControl`, `MCFloodWatch` | the sets of readings the `.cfg` files choose from |
| `WaterControlProofs` | type correctness; extends `WaterControl` and TLAPS |
| `PlantProofs` | the booster's relays follow the status, the controller implements `BoosterPromise`; dosing, drains, the filling of the tank, the requests of regeneration |
| `FloodWatchProofs` | the water returns only after a dry time |
| `Relay` | inside `set_Relay`: tasks of several priorities on one relay |
| `Journal` | the ring in the EEPROM: `Init`, `jprintf`, `_write`, `send_Data`, power cuts |
| `SavedBytes` | `save_WorkStats`, `load_WorkStats`, `resetCount` as bytes |
| `UsedWater` | litres and regenerations in the clock's memory and the EEPROM |
| `Settings` | `MC.save` and `MC.load` with CRC, size and reading back |
| `ErrorList` | `set_Error` and `clear_all_errors` with the places of `Errors[]` |
| `Notices` | the one place of class `Message` |
| `CardFile` | files on the card: lines, blocks, the search for the end; extended by the next two |
| `DayFile`, `MinuteFile` | a line for each day; lines of minutes, a file created block by block |
| `Chart` | ring of points |
| `AdcFilter` | ring, sum and average of the ADC |
| `FlowMeter` | pulses, litres and rest, with the booster's and the drain's notes |
| `WebMutex` | `xWebThreadSemaphore` and its users |
| `Sockets` | threads of the web server on the sockets of the chip |
| `MCParts` | the modules from `Relay` on, as one specification to check: their disjoint sum |
| `SharedDataProofs` | proofs about data that tasks share without a lock: `Relay`, `ErrorList`, `Chart`, `FlowMeter`, `AdcFilter` |
| `NetworkProofs` | about `WebMutex`, `Sockets`, `Notices` |
| `MemoryProofs` | about the EEPROM and the clock's memory: `Settings`, `UsedWater`, `SavedBytes` |
| `JournalProofs` | about `Journal` |
| `CardFileProofs` | about the files on the card: `CardFile`, `DayFile`, `MinuteFile` |

`WaterControl` is one specification because its three tasks share almost all of their variables.
The parts share none that matters to both: the control calls the journal, but all it feels of it is
that it sleeps. So each is a specification of its own, with the tasks that use it, and
one that uses another takes of it what it relies on: `UsedWater` takes a save of the EEPROM as one
step that succeeds or fails, whose inside is `SavedBytes`; `DayFile` has a semaphore that is
free or not, whose story is in `WebMutex`.

The operators named `Broken...` are slips of the pen of the definitions behind them;
nothing uses them. `PROJECT.json` says which property each one breaks when it
replaces the right one, so that every property is known to depend on the code.

### State and code

| variables of `WaterControl` | in the code |
|---|---|
| `sens` | what `vPumps` last read of contacts and ADC: regeneration of F1, its backwash, F2; flooding, leak; pressure, level |
| `critical`, `critTimer` | `CriticalErrors`, `CriticalErrors_timeout` of `vPumps` |
| `status`, `wbTimer` | `WaterBoosterStatus`, `WaterBoosterTimeout` |
| `floodAge` | now minus `FloodingTime`; `NoFlood` when it is 0 |
| `feedTime` | `TimeFeedPump` |
| `fillAge`, `fillLevel` | `FillingTankTimer`, `FillingTankLastLevel` |
| `drainTimer`, `drainAfter` | `TimerDrainingWater`, `TimerDrainingWaterAfterRegen` |
| `relay` | flags of each `devRelay`: held by the algorithm ("Main") or by hand ("Manual"); on when any is set |
| `work`, `rtcWork` | regeneration bits of `RTC_store.Work` in memory and in the clock's memory |
| `needRtc`, `needStats` | `NeedSaveRTC`, `NeedSaveWorkStats` |
| `due` | the counters that ask for a regeneration, as the set of filters they ask for |
| `newErr`, `errs`, `lastErr` | `vPumpsNewError`, `Errors[]` as a set, `MC.error` |
| `power` | power of the booster against `PWM_DryRun` and `PWM_Max` |
| `ppc`, `asleep` | where `vPumps` is in its pass, and whether it sleeps there |
| `rpc`, `rpre`, `rcrit`, `rfeed` | where `vReadSensor` is, whether `vPumps` has run since it loaded, what it loaded |
| `spc`, `sval`, `sreg`, `swork`, `ticked`, `opc` | the same for `vService` and for `clear_all_errors()` |

| module | variables | in the code |
|---|---|---|
| `Relay` | `flags`, `on`, `pin` | `flags`, `Relay` of a `devRelay`, its output |
| | `at`, `cmd`, `mine` | per task its place in `set_Relay`, its argument, the register with `flags` |
| `Journal` | `cells`, `pbuf`, `head`, `tail`, `full` | EEPROM, line buffer, members of the class |
| | `holder`, `job` | `xI2CSemaphore`; per task how far its `jprintf` is |
| `SavedBytes` | `ram`, `copy`, `chip`, `saving`, `bus` | `WorkStats`, `WorkStats_saved`, EEPROM, `ptr` and `ptre` per task, `xI2CSemaphore` |
| `UsedWater` | `store`, `stats`, `need`, `needSave` | `RTC_store`, `WorkStats`, `NeedSaveRTC`, `NeedSaveWorkStats` |
| | `update`, `clock`, `eeprom` | per task the copy and mask of `update_RTC_store_memory`; the two chips |
| `Settings` | `settings`, `stored`, `item` | structures in RAM; structures, CRC and size in the EEPROM; what `MC.save` is at |
| `ErrorList` | `Errors`, `error`, `stepOf`, `code`, `found` | `Errors[]`, `MC.error`; per task its place and locals |
| `Notices` | `notice`, `waitSend`, `withinRepeat`, `young`, `sender` | `messageData`, `waitSend`, `sendTime` against `REPEAT_TIME`, the time since the start, place of `sendMessage` |
| `DayFile` | `disk`, `stats_buffer`, `CurrentBlock`, `CurrentPos`, `save` | the same; per task its place in `SaveStats` |
| `MinuteFile` | `minuteDisk`, `history_buffer`, `HistoryCurrent...`, `opened`, `zeroed`, `split`, `sending` | the same; state of the file, a line over two blocks, the browser's save |
| `Chart` | `data`, `pos`, `num`, `flagFULL`, `clearing`, `list` | the same; place of `clear()`, the list that is being made |
| `AdcFilter` | `adc_...`, `ADC_has_been_read`, `reads`, `lastADC` | the same; place of `Read` |
| `FlowMeter` | `count`, `Passed`, `PassedRest`, `CountL`, `CountLrest`, `UsedDrain...` | counters of `sensorFrequency`, `WaterBoosterCountL`, its rest, `WorkStats.UsedDrain` |
| `WebMutex` | `free`, `place` | the semaphore, who is inside or gave it for a while |
| `Sockets` | `status`, `web`, `looked`, `mark`, `abort`, `client` | the chip's status; per thread its place, `sock`, `Socket[].sock`, `fABORT_SOCK`, `.client` |

All other variables of these modules are histories. Some record what the code has no word for
(`recent`: the last bytes written; `closed`, `kept`: lines that a save was to write). The others name a
disturbance after which a property is no longer claimed: `torn`, `spoiled`, `doubt`, `crossed`,
`tornList`, `late`, `marred`, `harm`, `upset`, `torn_read`, `cut`, `lapsed`, `muddle`. Each is set by the one
step at which the code goes wrong, never by a whole kind of event, and section 8 lists them:
they are the known limits of the program.

## 3. From code to actions

**A step ends where another task may run and see or spoil what was done.** For
`vPumps` (and the keys, of equal priority) this is a sleep. So one pass is
`PumpsSense` (timers, ADC, empty tank, head of the flooding branch), the steps of the
flooding branch (`PumpsFloodDrain`, `PumpsFloodTimers`, `PumpsFloodValve`,
`PumpsFloodMark`, or `PumpsUnflood`), `PumpsWater` (booster, dosing, tank) and
`PumpsRegen`, `PumpsRegenMark`, `PumpsRegenSave`. `SleepsInJournal` computes from the
relays that switch whether the task sleeps behind them. While `asleep` is false no
other task has an enabled step.

For `vReadSensor` and `vService` a step ends between a load and the store that
depends on it, and between a test and its consequence. `SensorTrip`, `SensorDose`,
`SensorWeightEmpty`, `SensorWeightOk` store what was computed from an earlier load;
`ServiceCountDrain` and `ServiceCountAfter` store a decremented timer;
`ServiceFinish` stores `Work`.

The parts are cut by the same rule, by what may come between: a task of higher
priority between any two accesses to shared memory (`Relay`, `ErrorList`, `Chart`,
`Notices`, `FlowMeter`), an interrupt (`AdcFilter`, `FlowMeter`), other tasks and a power cut behind each
page (`Journal`, `SavedBytes`), block (`DayFile`, `MinuteFile`), structure (`Settings`) or chip (`UsedWater`), and another web
thread where the semaphore is given (`WebMutex`, `Sockets`). `vPumps` and the keys have one
priority and take turns at any point (`Relay`). In `Sockets` looking at the marks and setting one's own are
two steps, for a thread that could not get the semaphore back goes on without it.

**Real time keeps part of the interleavings out**, and the model keeps them out too:

- a read-modify-write takes microseconds and `vPumps` wakes every 20 ms, so at most
  one wake of `vPumps` falls into it (`rpre`, `PumpsRun`). `PumpsRun` counts a wake in
  the journal as one;
- `vService` begins at most one second between two passes of `vPumps` (`ticked`). It
  may begin far fewer, so no property relies on 50 passes in a second;
- the mailbox is looked at before the second is (1486, 1491).

**Time.** Milliseconds are counted in slices of a pass. `floodAge` saturates at
`FloodCap`, which is larger than both times it is compared with; `wbTimer` is kept in
`TickMod` values with the code's own test for the wrap (1301); `feedTime` is not
raised above `FeedCap` in a run. A journal sleep is not counted as time. The drain
timers are in seconds of `vService`.

**Abstractions.** The day and litre counters that make a regeneration due are the
choice of a set `Due`; the hour of regeneration and the time without consumption are
choices of their own. A drain after no consumption falls due only when no drain timer
runs. `FillingTank...` assignments behind the journal line of a fill valve are part of
the step before it. A save succeeds or fails as `SaveOk` allows. `set_Relay` is one
step. The key task is in the model only while `vPumps` sleeps, as the two have one
priority. Power is one of "normal", "dry", "over", for only its place against
two limits matters.

**Environment.** Inputs are read anew by every pass; analog values only when the ADC
has converted since (`adc`), and not before its first conversion, so the first readings
are `ERROR_PRESS`. A reading is a choice from `Readings` with no relation to relays: the
model does not assume that filling raises the level.

**Data of the parts.** A line of text is its number, repeated to its length; bytes of counters are counted modulo
a small number; settings are one value per structure; the CRC is ideal (it equals the contents
it was computed from), for no property is about collisions; a client's connection is even or
odd. The arithmetic of the flow meter is the code's own: hundredths of a pulse, the
division, the rest with its sign, and the sixteen bits of `UsedDrain`. A failed write leaves
what was written before; a spoiled one (`Settings`) leaves garbage and no error.

**Restart** (`Reset`) may come at any step: all memory is zero, relays off, and
`work` is what the clock remembers. The counters behind `due` are kept.

## 4. The runs

Each run opens the part of the environment its question needs and keeps the rest
still. Bounds common to all: one slice per pass (`Slice = 1`), times of one to
three slices, so that each comparison is met below, at and above its limit within a
few passes; one value below, between and above each pressure and level limit.

| run | checks | environment |
|---|---|---|
| `booster` | `BoosterReleased`, `KeepsPromise` | pressures around the limits, empty tank; power readings that fail, dry, over; weight empty and good, whose stores may bring back a fault that is over; clearing, restarts; a clock of 5 values, so that it reaches its end |
| `flood_dosing` | `TypeOK`, `DosingPaidFor`, `ReopenedAfterDry` | flooding; weight empty and good, hence stale copies of `CriticalErrors`; doses of 0, 1, 2 slices up to 3; operator on the dosing pump; idle drain of 1 s; clearing, restarts; `DrainOrDose` |
| `tank` | `FillingEnds`, `FaultStopsBooster` | empty, half, full; a regeneration that is due fills too; watch on filling of 2 slices; a scale that says the reagent is low; operator on the dosing pump |
| `drain` | `DrainHasTimer`, `DrainEnds`, `RegenNoted` | filters that start and stop at will, one at a time; idle drain of 2 s, drain after regeneration of 1 s |
| `regen` | `OneRegenRequest` | both filters due, answers late, in time or never, with a backwash; new days, saves that fail |
| `flood` | `FloodStopsFilling`, `FloodValveReleases`, `FloodValveShuts`, `TripReported` | flooding, leak, low tank; an idle drain of 1 s that a trip cuts short |
| `tank_recovers` | `TankRecovers` is violated | levels |
| `dry_run` | `DryRunStops` is violated | pressure, power readings that succeed |
| `flood_lost` | `FloodValveReleases` is violated | flooding, weight readings |
| `few_litres` | `FewLitresReported` is violated | up to 8 pulses at 2.5 pulses a litre, a limit of 2 litres |
| `day_twice` | `DayOnce` is violated | lines of 2 in blocks of 5, a card without failures |
| `parts` | the properties of the parts, `Relay` to `Sockets`, and `FreeAgain` | below |

**The run `flood_dosing`** is about the two late stores of `vReadSensor` that the flooding's branch meets, of
`CriticalErrors` and of `TimeFeedPump`, in one instance: a trip stops the pump and shuts the valve at once. Its
constraint `DrainOrDose` lets a behaviour go no further when the drain after no consumption and the dosing pump are both at
work. That drain falls due when no water was used for long, and the pump doses water that is used; what is cut off is behaviours,
never a step of one that is checked. An empty tank is in no reading of this run, so `critTimer` has nothing to time (`CriticalErrorsTimeout = 0`).

**The run `parts`.** `MCParts` is the disjoint sum of the fifteen parts: `Init` chooses one, which takes its
steps, while the others stay as they began. A property speaks of one part's variables, and all parts are
initially in a state that has the property, so the sum has it exactly if the part's own specification
has. One run thus asks all questions about the parts, and each of its properties has a mutant of its own part.
`FlowMeter` is two of the parts, with one of its two readers in each, since neither writes what the other reads.
The constraint `Undisturbed` stops a behaviour at a disturbance (section 2) that never heals: behind it the properties claim nothing.
It does not touch the liveness property, whose part `WebMutex` has no disturbance in the constraint.

| part | bounds | why they are enough |
|---|---|---|
| relay | `vPumps`, keys, web; every order they can give | two of one priority and one below, so each kind of meeting |
| journal | ring of 6, pages of 2, packets of 3, lines of 1 and 3, two printers | lines within a page, over pages, over the end; any number of wraps and restarts |
| mutex | three web tasks, one other | one inside, one that waits and the watch |
| bytes | 4 bytes in pages of 2, gap of 1, two savers, one resets | runs that are joined and that are apart, over a page; two saves together |
| water | 2 litres, 2 regenerations, 2 days | a day with and one without water, before and after each write |
| errors | 3 places, two reporters of two codes each and the web's saves with one, two clearers | a list that fills; a meeting of any two, of one priority or two |
| notices | three tasks, two texts | one waiting, one that comes, one that is late |
| days | blocks of 4, 4 blocks, 4 days, lines of 2 to 4 | lines that end with the block, before and behind it |
| minutes | the same, 4 minutes | |
| chart | 4 places, 8 points | the ring full and overwritten once over |
| adc | 3 places, 3 results | filling, full, wrapped |
| flow | 6 pulses at 1.5 a litre | the rest positive and negative |
| settings | 2 structures, 2 contents | a mixture is possible |
| sockets | two threads, two sockets | a thread that serves, another that looks; also checked with three of either |

Why the bounds are enough for the questions asked: the hazards are orders of two or three
tasks' steps around one trip, one regeneration or one drain. Each needs one
wake of a task inside another's step, one passage over each limit and the way back,
and the runs have no bound on how often these happen. What the bounds
leave out is arithmetic of large numbers, which the proofs cover for the properties
they are about.

The passing runs together take every action, and every disjunct of `Next`.

**One property appears twice.** `FloodValveReleases` holds for what `vPumps` does (`flood`) and fails when
`vReadSensor` is allowed its part (`flood_lost`): the pair says what breaks it.

**Conditions of passing runs** that a reader should know:

- `OneRegenRequest` needs that no other error takes the place of `MC.error` between
  1568 and 1577. With `WeightReadings = {"low"}` TLC finds both requests on: the
  weight's warning hides the error that the first request went unanswered. No
  document of the repository forbids it, so it is a hazard in the list and no finding.
- `TripReported` needs that no other error of `vPumps` comes before `vService` has
  looked at the mailbox: with an empty tank, or one that does not fill, the flooding's
  code is overwritten. The trip itself does not depend on the report.
- `FloodStopsFilling` needs that `vService` requests no filling (`Due = {}`). It tests `CriticalErrors`
  (1574) and opens the fill valve later (1599); a flooding that `vPumps` trips in between leaves the
  tank being filled. TLC finds it with `Readings <- FloodFillReadings`, `Due = {"F1"}`, `Clears = FALSE`,
  `DrainTime = 5`, `IdleDrain = FALSE`.
- `FloodValveShuts` needs that nobody clears the errors and that no regeneration ends in the flooding: `clear_all_errors()` lets the water in,
  and so does the end of F1's (1629). The inputs shut it again when they have been wet for another debounce.
- `DrainHasTimer` needs dry inputs when both drains are in use. A flooding between `vService`'s setting of the
  timer (1560) and its opening the valve (1563) zeroes the timer (1338-1342); the drain then stays
  open. TLC finds it with `Readings <- FloodRegenReadings`, `DrainTime = 3`,
  `DrainingWaterAfterRegen = 2`, `IdleDrain = TRUE`, `Due = {}`. No document forbids either, so they are
  hazards in the list and no findings.
- `RegenNoted` assumes that saves succeed and that the day ends rarely enough
  (`SaveOk = {TRUE}`, `NewDay = FALSE`; with days as frequent as seconds there would always be
  something to save): while the EEPROM fails, `vService` does not get to looking
  whether a regeneration has finished (1606-1616).

## 5. Fairness

`Spec` is `Safe` with these, all about scheduling and none about the inputs:

| condition | why the code justifies it |
|---|---|
| `SF(Pumps)` | `vPumps` has the highest priority and its sleeps have a time-out; a store of `vReadSensor` only delays it |
| `SF(PumpsSense(TRUE))` | the ADC converts 10 times a second (`ADC_FREQ`), so passes that find new values come again and again |
| `SF(SensorPower \/ SensorFlow \/ SensorStore)` | `vReadSensor` gets the processor in the sleeps of `vPumps`, which come again and again (hence strong: it is not enabled in between); weighing is left out, for a scale need not ever report |
| `SF(Service)` | the same for `vService`, below both |
| `SF(ServiceSaveStats \/ ServiceSaveRtc \/ ServiceLook)` | 59 of 60 seconds begin no minute |
| `SF(OperatorValve)` | `clear_all_errors()`, once begun, is finished; nothing obliges the operator to begin |

`PartsSpec` has one fairness condition, `WF(WatcherStep)` of `WebMutex`: `vWeb0` goes round its loop, ends its
own work in the chip, and every ten seconds asks for the semaphore. The
code justifies it: all waits of `vWeb0` have time-outs. Nothing is assumed of the other users, who may
keep the semaphore for ever.

Nothing is assumed of the environment but in the properties themselves (`<>[]` dry
inputs, a tank that stays full). `Safe` has no fairness; the runs of safety properties
use it.

## 6. Proofs

TLAPS proves these for all values of the constants that meet the modules' assumptions: for
`WaterControl` (`OptionsAssumption`) all options, any clock size, any set of readings, with or without restarts. Further
assumptions are in the theorems.

| theorem | assumption | shows |
|---|---|---|
| `WaterControlProofs!TypeCorrect` | none | `Safe => []TypeOK` |
| `PlantProofs!BoosterIsReleased` | none | `Safe => []BoosterReleased` |
| `PlantProofs!BoosterKeepsPromise` | nobody switches the booster's relays by hand | `Safe => KeepsPromise`: refinement of `BoosterPromise` |
| `PlantProofs!DosingIsPaidFor` | `MinPumpOnTime >= Slice` | `Safe => []DosingPaidFor` |
| `PlantProofs!DrainIsTimed` | inputs never report a leak; `DrainTime > 0` | `Safe => []DrainHasTimer` |
| `FloodWatchProofs!WaterReturnsAfterDry` | none | `WatchSafe => ReopenedAfterDry` |
| `PlantProofs!FloodingStopsFilling` | `Due = {}`; `vReadSensor` has no errors of its own (`SensorsFindNothing`) | `Safe => []FloodStopsFilling` |
| `PlantProofs!OneFilterIsAsked` | `SensorsFindNothing`, a scale that reads well, nobody clears errors | `Safe => []OneRegenRequest` |
| `SharedDataProofs!RelayIsTrueWhenQuiet` | none | `RelaySpec => []QuietRelayIsTrue`, for any tasks, priorities, orders |
| `SharedDataProofs!ErrorListIsWhole`, `DisplayShowsErrors` | none | `ErrorsSpec => []ListIsWhole`, `[]ErrorIsShown`, for any reporters, codes, priorities, places |
| `SharedDataProofs!ChartIsInOrder` | none | `ChartSpec => []ListInOrder`, for a ring of any size |
| `SharedDataProofs!PauseIsNoted` | none | `FlowSpec => []BoosterNoted`, for any resolution and pulses |
| `SharedDataProofs!AverageOfNewest` | none | `AdcSpec => []AverageIsTrue`, for a filter of any size and any results |
| `NetworkProofs!OneInsideUntilLapse` | none | `MutexSpec => []OneInsideBeforeLapse`, for any number of users |
| `NetworkProofs!SocketsAreServedAlone` | none | `SocketsSpec => []ServedAlone`, for any threads and sockets |
| `NetworkProofs!NoticesAreSent` | none | `NoticesSpec => []NoticeIsSent`, for any tasks and texts |
| `MemoryProofs!NothingIsSkipped`, `ReportsAreTrue` | none | `BytesSpec => []NothingSkipped`, `[]ReportIsTrue`, for any width, page, gap, savers |
| `MemoryProofs!SettingsAreWhole` | none | `SettingsSpec => []SettingsWhole`, for any structures and contents |
| `MemoryProofs!LitresAreCountedOnce`, `EndsAreCounted` | none | `WaterSpec => []CountedOnce`, `[]RegensCounted`, for any litres, days, regenerations |
| `JournalProofs!JournalIsFound`, `JournalReadsBack` | none | `JournalSpec => []MarksFound`, `[]ReadsBack`, for any ring, page, packet, lines and writers |
| `CardFileProofs!EndOfDaysIsFound`, `DaysAreKept`, `LaterDayHasOneLine` | none | `FileSpec => []EndIsFound`, `[]DaysKept`, `[]LaterDayOnce`, for any blocks, files, lengths of lines, days |
| `CardFileProofs!MinutesAreKept` | none | `MinutesSpec => []MinutesKept`, for any blocks, files, lengths of lines, minutes |

"None" is: none but the assumptions that the modules themselves state about their constants, each of which
the code's own numbers meet. Two of them were found by a proof. `LinesFitPacket` (`Journal`): a line is no longer than the packet
by which the journal is read, 256 and 2048 bytes here; without it a restart may take a stray TAIL for the right
one, see below. `CodesAreErrors` (`ErrorList`): what a task reports is an error and not `OK`.

**Type.** `TypeOK` is inductive. The one conjunct that needs care is that a task inside
a countdown holds a positive value (`spc \in {"countDrain", "countAfter"} => sval > 0`):
without it a timer could be stored as -1. The clock of the booster stays below
`TickMod` since `Advanced` recognises the wrap.

**Booster.** `BoosterReleased` is inductive with `TypeOK`: only `PumpsWater`, a hand on a
relay and a restart touch the booster (`OnlyWaterSwitchesBooster`), and
`WaterSwitchesBooster` says what the first does. For the refinement the implication
becomes an equality (`BoosterFollows`: the status says exactly which stages are held on),
which hands on the relays would break, hence the assumption. `ClockStops` shows that the
code's arithmetic modulo `TickMod`, with its test for a small sum, is the saturating
clock of the promise. `StepKeepsPromise` maps each step to an action of
`BoosterPromise` or to a stutter.

**Dosing.** `DosingPaidFor` alone is not inductive: a late store of `vReadSensor` might
lower the time. `SumIsFresh` strengthens it: the sum that is to be stored was taken from
no less than what is left, since in between `vPumps` only spends.

**Drain.** `DrainInv` adds that no flooding branch is ever entered (`NoFlooding`), that
`vService` sets a timer before it opens the valve, and that a running
`TimerDrainingWaterAfterRegen` implies the option is above zero (`TimerFirst`): setting
the option to zero while the drain runs would overwrite the timer with zero at the next end of
a regeneration. The options are constants here.

**Filling.** `FillIsOff` says that with the flooding's bit set, and in the flooding's branch, the algorithm does not
hold the fill valve. Three can break it. `PumpsWater` fills only without critical errors, as `OnlyWaterFills` and `FloodingBegins` say. `vService` fills
for a regeneration with no second look at `CriticalErrors` (1574, 1599), hence `Due = {}`, which keeps it from
those places (`ServiceFillsNot`). And `vReadSensor`'s late store can bring back the bit of a flooding that is over, when
the tank is being filled again; it stores only when it has found an error, hence `SensorsFindNothing`.

**Requests.** `vService` knows of an unheard request by `MC.error` only (1568), so the proof is about how long that
memory lasts. `AskedIsKnown`: past that test a filter whose request is on is told of by `MC.error` or
regenerates by now. `AskedOnlyNow`: past both tests no request is on. Any other error takes the place of `MC.error`, and
a clearing empties it, while the request stays on; the three assumptions keep these out. `ServiceAsksOne` is the
proof of `vService`'s own steps, `OthersDoNotAsk` of all others.

**Flooding.** `ReopenedAfterDry` relates a valve to a history, so the observer's clock
`dryFor` is in the invariant `WatchInv`. Its parts: the stamp lags behind the dry time by no more than the
debounce (`StampIsRecent`); a flooding that is known with no stamp has been dry long enough
(`NoStampMeansDry`); a flooding that only `vReadSensor`'s loaded copy still
knows of has been dry long enough, or `vPumps` has run since and stamped a new one (`CopyIsOld`),
which is where the bound of one wake inside a read-modify-write is needed;
`UnfloodIsDry`, `TripIsStamped` and `DelaySleeps` tie the places in the pass to these.
TLC checked `WatchInv` on a small instance before it was proved.

**Relay.** Quiet is not inductive: what matters is which verdict reaches the pin last. `RelayInv` says (`Untorn`) that
every verdict on its way is the one the flags stand for, that `Relay` agrees with the flags or somebody is still to
compare and set it, and that the pin agrees or somebody is at the pin. A lost update of the flags is then
harmless: who stored last also compares last. `FreshAlone` is for the way back: a verdict that is alone
with a torn relay mends it.

**Errors.** A report looks for its code and for the first free place and stores later; others may report as a whole, or clear,
in between. `FoundIsFirst`: who is about to store has found the first free place and its code is not listed, or the
place is taken by now, and then the store records `tornList`. The list has no gaps (`NoGaps`), nothing twice (`NoneTwice`) and all that was
reported (`AllListed`). The display needs more, for clearing is a loop of its own: `ShownIsListed`
says that `MC.error` is listed, or its report is still on its way, or it is about to be forgotten, or the
list is full; `NothingForgotten` that who forgets it has seen only errors that are over, while nobody reports.

**Chart.** `RingHasNewest` says which point is at which place, before the ring is full and after, when it has one more
than `num` counts; so `get_Point(x)` is the oldest point but x (`PointsFollow`), and a new point overwrites only the oldest
(`PointIsAdded`). `ListIsBehind` says that a list which is being made never ran ahead, whatever points are added meanwhile. The theorem is about the order of a list. It does not say that the
list has the newest points, and once the ring is full it does not (section 7).

**Flow meter.** It is a matter of conservation. `NoneIsLost`: pulses that were counted are in `count`, in what a read has taken and
not yet divided, or in the litres and their rest; at each step the sum is the same. `SinceStop` says
that the rest that the booster noted at its stop is the one from which the
difference at its start is meant to be taken. `Dividing` and `Truncating` are the facts about C's
division, which rounds to zero, so that the rest carries a sign.

**ADC.** `AdcInv` says that the ring has the newest results, the oldest where the next one goes (`RingHasResults`;
`RingFills` and `RingTurns` keep it), that the running sum is their sum, and how far a `Read` still
knows the results that it began with (`ReadKnows`). The sum over a sequence is a recursive function: that it exists (`SumsExist`) is
shown from the well-founded order of the naturals; `SumAppends` and `SumOfTail` are all that the rest needs of it.

**Semaphore.** `OneInsideBeforeLapse` is inductive with the type: whoever comes in finds the semaphore free, hence
nobody inside. The two steps that break this say so in `lapsed`.

**Sockets.** `ServedAlone` is not inductive, for a thread looks at the others' marks first and sets its own later.
`SocketsInv` adds that a socket which a thread is about to take has no other thread's mark, and no second thread is about
to take it (`ChosenAlone`); that who serves has its mark on the client's socket, where the visit is still the one it
accepted (`ServedMarked`); and, `muddle`d or not, that a thread which has to do with a socket looks at
one (`LooksAtSocket`).

**Notices.** `NoticeIsSent` needs one more conjunct: at the end of a sending nothing is owed but what came `late`.

**Counters.** `BytesInv` says, as long as nothing is in doubt, that the bytes behind a running save are in the EEPROM as
they are in memory (`BehindIsStored`), that a byte equal to the copy is in the EEPROM with that
value (`SkippedIsStored`), and that a save which takes its copy has everything behind it
(`CopyIsLast`). The first carries the second over the taking of a copy, and the second the first over
a scan, which passes a byte only when it equals the copy. The header needs a part of its own, for it
is right or erased, never anything else.

**Settings.** `SettingsInv` adds to the property that a CRC in the EEPROM is one that a save computed (`CrcOfASave`), what
is written when a save is at an item (`WhileSaving`), and that a reported success stays
in the EEPROM until the next save begins (`ToldIsStored`). With an ideal CRC a mixture fits none.

**Litres and ends.** `LitresInv` follows the day: the clock is behind the program in days and, within one, in
litres (`ClockIsBehind`); no litre is in the EEPROM's total and in the clock (`LitresOnce`), nor in the total and in a copy that is about
to be written (`CopiesAreOld`), of which the bus allows one (`OneUpdates`); and the
clock gets to know of a new day only together with its litres (`DayWithLitres`). `EndsAreKept` says that an end of a
regeneration that the EEPROM lacks is still known to the clock, waits to be saved, and no copy without it is under way.

**Journal.** `MarksFound` holds between lines, and a line is written in pages with a power cut possible
behind each. `JournalInv` has the two halves. Between lines (`MarksAt`) the ring has its TAIL at `tail` and its HEAD, if it has one, at
`head`, which is `tail + 1` from the first wrap on. In a line (`Writing`) what is written is the line, and what is
not has no mark but the two old ones, which the line is about to cover. When the line is whole, its own marks are the only
ones. The proof met one exception: the first wrap may put a *second* TAIL behind the right one, for `_write` sends one byte
more than it set (`num + 2` with `full` still false), and that byte of `pbuf` may hold
the TAIL of an earlier, longer line. `Init` takes the first of a packet's marks, so it does no harm as
long as both are in one packet, the first of the ring, which is what `LinesFitPacket` is for. `FindsMark` and `FindsNone` say what
`Init`'s search by packets finds in a ring with one mark and with none.

`ReadsBack` is built on that. `TextInv` adds that the cells before the tail have the last bytes that were written
(`TextBefore`): as many as there are until the ring has wrapped, and all of it but two from then on (`Kept`),
a restart that finds no HEAD included. While a line is written, fewer are sure (`KeptBehind`), and no page touches those
(`PageSparesText`); with the last page the line itself follows them (`LineFollowsText`). What `send_Data` makes of it is
a recursive function of the packets; `PacketIsServed` is its step: after p packets the bytes from the head
up to some place are served, all packets were full but one at the ring's end, and the sending is over only at the
tail. Hence the one packet more than the ring has is enough (`ServesAll`).

**The search by halves.** `FindEndPosition` guesses a block, and where it goes on depends on what it finds there. That it
comes to an end has to be shown, for behind a full block it may move both bounds of its window up. The weight of the window, twice
the number of blocks from its lower bound on plus its upper bound, gets less with every turn (`Middle`). A function of windows that is defined by itself
is thus defined by those of less weight: `HalvesExist` builds it for the windows of a weight up to n, with the least
weight for which it could not be built in place of an induction, and `HalvesAre` lets one unfold it. `BlockOfEndIs` is what the search is
for: if every block behind the end of the text begins with a NUL (`Searchable`), it finds the block and the offset of the
first NUL, or nothing if the file is full. `AfterLineIs` does the same for the way back to the end of the last line, over
blocks that have none, and `EndPositionIs` joins the two.

**Days.** `DayText` says what a file of days is like at any step of any save, with block and offset the place where the
program goes on. Below it there are whole lines, each of a later day than those before (`DayLines`); only the second may be of the first one's day
(`Earlier`). Behind it
there is at most one line, of the newest day (`NewestLine`), which may be cut, but only between two blocks (`CutAtEnd`). Behind the
text there are zeros and, in the block of the text's end, what an earlier and longer save left (`CleanBehind`), so a search can work
(`DayTextSearchable`). `SavesKnow` says what the buffer and the save in it have of a line:
all of it behind the first bytes of the block, or the rest when the first block is written. `SavesInTurn` that the semaphore keeps the
saves apart. One lemma for each write shows that the file remains such a file. `RestartPlace` is the way back: a start finds
the end behind the newest line or before it if it was cut, and takes that line up again if it is today's and not the first of the file (`TodayIs`). Then `DaysKept` needs only that
nothing below the place is written with anything new, and `LaterDayOnce` follows from the order of the days.

**Minutes.** The file holds only whole blocks and one that the browser saved, so its text ends in the current block or,
when a line ends with the block and a start finds it so, before the next one, which is blank (`MinuteText`). The file
may be shorter than it will be: all statements are about the blocks that are zeroed. A line that is cut is the last one of a
block, and blocks are written in order, so every block that has text begins behind the end of a line or has the end of
one (`BlocksLined`); this is why a start never walks back over more than one block (`MinutesEnd`), and why what it reads
back is what the buffer was (`OpenedText`). A save of the browser takes its bytes from a buffer into which `vService` writes
meanwhile. What the card gets is the buffer of before up to some byte and the one of after from there on. `HasPart` says that the lines which
the save has set out with end before an offset below which the two agree (`PartStays`), and `WebWrites` that any
mixture of such two therefore has the lines whole.

Like the properties, the two invariants (`DaysInv`, `MinutesInv`) are claimed as long as nothing is in `marred` or `harm`, and even their types are claimed
only there: in a spoilt file what a start takes for its place need not be one, for a search of blocks that were never zeroed finds anything.
TLC checked both on small instances before they were proved.

In `CardFile` the search is written for this: `Halves` and `BackFrom` are recursive functions of windows and of blocks, not recursive
operators, with the tests of the code in its order.

**With TLC only:** all liveness (`FillingEnds`, `FaultStopsBooster`, `DrainEnds`,
`RegenNoted`, `FloodValveReleases`, `FloodValveShuts`, `TripReported`, `FreeAgain`), which is out of
this prover's reach, and the properties that the code violates. Every safety property of a passing run has a theorem.

## 7. What the checks found

Each is a run with `expect: violation`; `PROJECT.json`, "findings", quotes the line of
the repository that says otherwise.

1. `tank_recovers`. `CriticalErrorsTimeout` is the time to recover from critical errors,
   but the timer is reloaded while any critical error is set (1294) and the empty
   tank's error is cleared only when the timer has run out (1314). The error waits for
   itself; only clearing all errors by hand ends it.
2. `dry_run`. The power of the booster is judged when `get_readState()` has failed
   (1063: it returns 0 for success). A dry run is not noticed while the meter answers.
3. `flood_lost`. `vReadSensor`'s `CriticalErrors |= ...` is preempted by a trip and stores
   over its bit. The valve is shut and nothing will open it, for `vPumps` opens it
   only if the bit is set.
4. `few_litres`. `MinDrainLiters` is to raise an alarm when a drain let out less. The rest of the flow meter at
   the end of a drain is subtracted (1513) where the water since its start has to be added, as it is for
   the booster (1364); `UsedDrain` has sixteen bits and no sign, so after less than a litre it is
   65532 or so, and no alarm comes. With more water the sum is wrong by up to twice the rest.
5. `day_twice`. `Statistics::Init` is to read the last record and to go back to it if its date is today's. It looks for the
   record backwards, and each byte that it reads moves the file on (`Statistics.ino` 190). Behind an end of a line this is right. At place 0, where the
   first line begins, nothing seeks back and the record is read from place 1, so its date is
   never today's. After a restart on the first day of a file that day's sums are lost to it, and the next save
   writes a second line of the day. Behind the first line no day has two, which `LaterDayOnce` says and TLAPS proves.

Seen while modelling, and no run of their own:

- **Nobody restarts the network chip when it is asked for.** `fNetworkReset` ("send the command of a reset") is set by
  the timer (655), by a lost link (669), which also counts the restart and journals "resetting", and after the return of
  the mains (1266). No statement of the repository reads it. Only a failed ping and the browser's command
  restart the chip. There is no behaviour to model, hence no run.
- A full chart lists one point less than it has, without the newest: `num` stays at `CHART_POINT - 1` (`Information.ino` 434-443),
  and `get_Point(0)` is the oldest of `CHART_POINT` points.
- In the pass that trips a flooding the dosing pump is switched off (1343) and, if `TimeFeedPump` is above `MinPumpOnTime`,
  on again (1400), for that test does not look at `CriticalErrors`. The end of F1's regeneration lets water in
  during a flooding (1629).
- All errors are one kind of notice, so the notice of a second error is refused within three hours of the first
  (`Message.ino` 455). A notice whose sending fails is not sent again.
- `MC.save` overwrites the only copy: a power cut or a failed save loses the old settings with the new. A start that cannot read
  the EEPROM takes the defaults, and a later save writes them over good settings. Its
  `error = ERR_...` (`MainClass.ino` 298, 300, 302) leaves the text of an earlier error for the notice.
- The weight is computed in 32 bits (1240-1241): `(adc_val - WeightZero) * 10000` overflows above 214748 counts, and
  `Weight_value * 10000` above 21.47 kg.
- The watch on filling (1419-1432) is not renewed while the level is above its minimum, so a later dip may be
  compared with an old level.
- A thread's mark stays on the last socket it looked at, so idle threads keep up to three sockets out of
  `checkSockStatus`. Their time stamps (`connectTime`) grow old meanwhile: when the mark moves, a connection
  that has just been made there may be closed as one that hangs. `checkSockStatus` also closes the
  service's socket, which nobody marks; but `vWeb0` is the one who uses it and who calls it.

## 8. Known limits, and what is not modelled

### What the properties of the parts except

Each is a state that the modules reach and at which the code really goes wrong; a property names it and
claims nothing behind it.

| history | what happens in the code |
|---|---|
| `torn` (`Relay`) | two tasks store opposite flags before the first has written the pin (`Hardware.ino` 516); the relay disagrees with its flags until it is switched undisturbed |
| `spoiled` (`Journal`) | "cut": a power cut behind a page of a line loses the TAIL mark, the next start begins at -1 and spoils the READY mark; "overlap": a line is formatted into the buffer while another waits or is written; "slip": a line that ends one byte before the end of the ring; "failed": a bus error in a line |
| (`ReadsBack`) | with the head on the ring's last byte nothing is served; after the first wrap there is no HEAD mark, so a restart finds the head at -1 |
| `doubt` (`SavedBytes`) | "late": a counter that counts behind a running save is taken for saved; "back": one that comes back to its old value after a failed save; "unread", "erased": a start with an EEPROM that does not answer, or is new |
| `crossed` (`UsedWater`) | "day": the total with the day in it is saved before the clock knows the new day, and a power failure counts the day twice; "regen": the clock forgets a regeneration before it is counted; "unnoted": its start was never saved |
| `tornList` (`ErrorList`) | two tasks take one place of `Errors[]`, or a report comes into the clearing; with all places taken an error is dropped |
| `late` (`Notices`) | a notice that is set while the one before is being sent is dropped with it |
| `marred` (`DayFile`) | "shorter": a line gets shorter than what the next block has of it; "mixed": `vReadSensor` writes into the buffer of another's save; "buffer": the second of two writes fails and the buffer is that of the next block |
| `harm` (`MinuteFile`) | "full": the last block is written over; "unmade": a file whose creation was cut is opened, and old bytes are taken for text |
| `upset` (`Chart`) | a `clear()` that meets another call leaves holes |
| `torn_read` (`AdcFilter`) | a conversion in a `Read` while the ring fills; after a start once a division by zero, which is 0 on this processor |
| `cut` (`FlowMeter`) | the booster stops between the load and the store of `WaterBoosterCountL`, and the stop is undone |
| `lapsed` (`WebMutex`) | a user goes on without the semaphore, or it is given over his head |
| `muddle` (`Sockets`) | two threads without the semaphore look at one socket together; the chip is restarted under a thread that serves, whose late `client.stop()` then closes a stranger's connection |

### Left out, and why

- Inside modelled parts: the text of lines, pages and notices; sums, averages and frequency; the LCD timer of a relay; the
  scale's filter; the kinds of notice that options forbid; mail and SMS protocols; the clearing of errors
  by `set_testMode` and by settings that are loaded; `UsedRegen`, which is zeroed and added like `UsedToday`.
- `MinuteFile`: the change of the year, and the reader that sends a file, for which only what its text is matters.
- `FlowMeter`: the modes of test; a regeneration during a drain, where the two use one counter; the threshold at
  `Hardware.ino` 437, whose overflow needs 4295 pulses a second.
- `Settings`: what an older version of the program saved; an upload is one step, though tasks run in it.
- `xModbusSemaphore`, and `vWeb0`'s forced give of `xI2CSemaphore` (634-639), which waits longer than any transfer takes.
- Retries of the power meter on the bus: a reading succeeds or fails.
- Temperatures, OneWire, LCD, menus, web pages, requests, DHCP, the time server: no part in the control of water and no state that
  another part reads.
- Failing reads of the clock's memory at start-up; the initialisation of hardware.
- Options changed at run time: options are constants of `WaterControl`.
- Vendored libraries and FreeRTOS, most of the lines of the repository: they are third-party code, taken for what
  their use relies on (priorities, sleeps, a binary semaphore that anybody may give). Of them only the
  parts that the firmware's own logic was built into are modelled: the pages of `extEEPROM` and
  `EthernetServer::available_`.

## 9. Plan

Done: the controller with its observer and its promise; all parts of section 1.1 that keep state over
a restart or share it between tasks; theorems about every safety property of the controller and of all parts.

| next | module | worth |
|---|---|---|
| 1 | `WaterControl` | options that change at run time |
| 2 | `SavedBytes` with `UsedWater` | the save of one refined by the bytes of the other: which counters a torn save leaves old |
| 3 | `Modbus` | retries and the switch of the power meter, with `xModbusSemaphore` |
| 4 | temperatures, time | conversions against reference definitions over bounded inputs |
