# Torpor: a TLA+ verification project

Torpor manages fleets of small devices that are mostly asleep. A Kubernetes
controller plans and stages firmware rollouts over `Device` objects, judges
maintenance windows and device liveness, and a KubeEdge mapper on each edge
node talks MQTT to the devices themselves. This directory models the parts of
that system whose correctness depends on the order of events: what a rollout
does between reading and writing, what the mapper does between stopping one
device connection and starting the next, what becomes of a device's message on
its way to an opinion about the device, through which door a write goes out,
whether the tools that judge the same fleet agree, and what a serial board and
its bridge do to each other's lines.

## The system

| Component | State it keeps | Operations | Talks to | What is hard |
|---|---|---|---|---|
| Rollout controller (`controller/internal/rollout_controller.go`) | `FirmwareRollout` status; nothing in memory between reconciles | Reconcile: plan, window, observe, stop, advance, dispatch, finish | API server (cached typed objects, live Devices), devices through `firmware_url` | not atomic; cache lag; refused or lost writes; crash between dispatch and status; fleet changes underneath |
| Planner and capability (`planner.go`, `capability_types.go`) | none | PlanRollout, StepSize, CanAcceptOTA, OTAAffordable | called by every reconcile | rounding, "unknown" values, order of reasons |
| Window composition (`compose.go`) | WindowOpenedAt, DispatchedThisWindow, BlockedBy in the status | EvaluateWindowsFor, ApplyWindow | MaintenanceWindows | overlapping windows; when the budget is renewed |
| Window schedule (`window.go`) | none | EvaluateWindow: inPeriod, periodEnd, nextOpening over cron lines | compose.go, cmd/plan | how far back and ahead the cron line is searched |
| Liveness controller (`liveness_controller.go`, `transports.go`) | `DeviceLiveness` status | Reconcile, assess, deriveCapability | DeviceStatus twins | silence against a declared interval; stale reports |
| Drift, credentials, queries (`drift.go`, `query.go`) | none | AssessDrift, AssessCredentials, EvaluateQuery | cmd/plan | three judgements of one device that must agree |
| `torpor plan` (`cmd/plan`) | a fleet loaded from manifests and observed state | buildLiveness, the decommission filter, reports | operators | a dry run by other code than the real thing |
| Enrollment, decommission, templates, contact windows | objects of their own | decide, expire, build; block, filter; render | cmd/plan (the filter only) | conflicts, forgotten filters |
| Mapper device table (`mapper/esphome/device/device.go`) | devices, deviceMuxs, models under serviceMutex; one goroutine per device | UpdateDev, RemoveDevice, UpdateDevTwins, reads, WriteDevice, DevStart | gRPC/HTTP servers of mapper-framework, driver | concurrent calls against goroutines that do not hold the mutex; nil clients; restarts |
| Driver and transport ladder (`driver/driver.go`, `transport.go`) | MQTT connection, value cache, last-seen per transport | InitDevice, StopDevice, GetDeviceData, DeviceDataWrite, selectTransport | broker | connect timeouts and late answers; stale doors |
| Twin and status reporting (`devicetwin.go`, `devicestatus.go`) | ticker per property | Run, PushToEdgeCore | edgecore | cached values with fresh timestamps |
| Vivarium (`controller/internal/vivarium`, `cmd/vivarium`) | simulated devices, gateways with outages, a broker connection each | tick, onCommand, flash, Close | broker | overlapping flashes; outages nobody asks about |
| `torpor verify` (`cmd/verify`) | what it has heard of one device | subscribe, five checks, a probe, a verdict | broker | a verdict about a device that is commanded meanwhile |
| nRF9160 firmware (`firmware/nrf9160`) | UART line buffer, last token | main, rx_thread, handle_line, on_firmware_url, pub | bridge, over a cable | two writers on one UART; buffers at their limit |
| Serial bridge (`cmd/bridge`) | nothing but its connections | readLoop, onCommand, will, signals | board, broker | dying inside a line; a goodbye that races a report |

What makes each correct, and where this project stands on it:

- a rollout never exposes more devices than the step in force permits, never
  touches a device that cannot take the image, never acts in a freeze, says
  Complete only of devices that run the hash, and ends (modelled, checked, the
  safety part proved); it keeps to its window's budget (proved per hour, refuted
  per window), bounds the transfers in progress and lets the canary go first
  (both refuted);
- the mapper never runs a second instance of a device that was not told to stop,
  and answers every call (modelled, checked, the safety part proved; refuted for
  UpdateDevTwins, and what was told to stop may still write);
- liveness must find a device that speaks, say nothing that is out of date, and
  not call a dead device alive (modelled; the first two are checked, timeliness
  is proved, the third is refuted);
- a write goes through a door that is open and can carry it, and what is refused
  for good is never carried (modelled, checked, the safety part proved); one that
  is deferred is made later (refuted);
- the planner, drift, queries and the plan tool say the same of one device, a
  period is in force for its whole duration, and a closed gate opens no earlier
  than it says (modelled, checked, proved; the duration refuted for long periods);
- a simulated device never runs what its cohort cannot, and the verifier reports
  only gaps that are there (modelled, checked, the safety part proved);
- a serial board never prints past a buffer or loses its identity, and reads
  offline when it, its cable or its bridge is gone (modelled, checked, the
  safety part proved).

## Modules

| Module | Models | Role |
|---|---|---|
| `Planner` | `planner.go`, `capability_types.go` | operators only |
| `Rollout` | `rollout_controller.go`, `compose.go` | the controller, its cache, the API server and the devices |
| `StagedUpdate` | — | what a rollout promises to an observer: tell once, run only what was told, end once |
| `RolloutHistory` | `compose.go` | `Rollout` with a history variable: the windows a reconcile found open |
| `RolloutBudget` | `compose.go` | `Rollout` with history variables: when each device was told, and in which opening of the windows |
| `RolloutProofs` | — | theorems about `Rollout`, `RolloutHistory` and `RolloutBudget` |
| `DevPanel` | `device.go`, `driver.go`, `cmd/main.go` | the device table, its instances, its callers |
| `DevPanelProofs` | — | theorems about `DevPanel` |
| `Reporting` | `driver.go`, `devicetwin.go`, `devicestatus.go`, `liveness_controller.go` | from a device's message through cache, tickers and twin to DeviceLiveness |
| `ReportingProofs` | — | theorems about `Reporting` |
| `NaturalFacts` | — | lemmas about sets of naturals |
| `Ladder` | `transport.go`, `driver.go`, `device.go` | one device with several doors, its handler and a caller that write through them |
| `LadderProofs` | — | theorems about `Ladder` |
| `Schedule` | `window.go`, `compose.go` | operators: cron lines, periods and windows, with a reference definition (`Covers`) |
| `FleetReports` | `liveness_controller.go`, `transports.go`, `drift.go`, `query.go` | operators: capability, drift, credentials, queries |
| `TorporPlan` | `cmd/plan`, `liveness_controller.go`, `compose.go` | a fleet seen by the controllers and by the tool; composes `Planner`, `FleetReports` and `Schedule` |
| `TorporPlanProofs` | — | theorems about `Schedule`, `FleetReports` and `TorporPlan` |
| `Vivarium` | `internal/vivarium`, `cmd/vivarium` | the simulated fleet and its broker |
| `Verify` | `cmd/verify` | the verifier, composed with `Vivarium` |
| `VerifyProofs` | — | theorems about `Vivarium` and `Verify` |
| `SerialBridge` | `firmware/nrf9160/src/main.c`, `cmd/bridge` | the board, the cable, the bridge and the broker's last payloads |
| `SerialBridgeProofs` | — | theorems about `SerialBridge` |
| `MCRollout`, `MCRolloutHistory`, `MCRolloutBudget`, `MCDevPanel`, `MCReporting`, `MCLadder`, `MCTorporPlan`, `MCVerify`, `MCSerialBridge` | — | instances for TLC |

### Rollout

The variables are in three groups. `ro`, `desired`, `running`, `boots`,
`stamp`, `liveness` and `open` are what the API server holds and the devices
report. `cached` and `fresh` are the informer cache: the rollout as the
controller sees it and whether that is the latest version. `pc`, `loc`, `held`,
`plan`, `budget` and `queue` are the locals of a reconcile in progress; `held`
says that the copy was read at the version that is still the latest, which is
what the API server tests on a status write.

| Action | Code |
|---|---|
| `Reconcile` | Get, matchingLivenesses, PlanRollout, the test of spec.paused |
| `CheckWindow` | DeviceLabelsFor, EvaluateWindowsFor, ApplyWindow |
| `Observe` | observe, the stop conditions, currentStep, the budget, nextDevices |
| `Dispatch` | one call of dispatch: read the Device, set `firmware_url`, update |
| `Finish` | Status().Update with its version test |
| `Abort` | a List or Get that fails: the error is returned, nothing is written |
| `Crash`, `CacheSync` | the manager restarts; the watch delivers |
| `EditPaused`, `LivenessChange`, `MoveWindow`, `Tick` | operator, liveness controller, clock |
| `Install`, `Reboot`, `StampTwin` | the device and the mapper, as the controller can see them |

`Observe` includes reads that fail: `property` and `dispatchedAt` turn an error
into an empty value, so a device passes for not told, not running, never booted
or not overdue (`Misreadings`). Time is kept as the ages of the two timestamps
that are compared with a limit, saturating one past it. Status fields that are
written and never read back (Conditions, Step, Target, Updated, Healthy, the
outcome lists) are left out. `MoveWindow` and `LivenessChange` are the world the
controller looks at, not code of it: window.go is modelled in `Schedule`, the
liveness controller in `Reporting`.

### DevPanel

Every start of a device makes a new `CustomizedDev` and a goroutine: an
instance. `devices` and `muxs` are the two maps of `DevPanel`, `inst` the
instances with their client (`nil`, `made`, `dialing`, `open`, `failed`,
`closed`) and where their goroutine is (`run`). `call` and `mutex` are the
handlers and serviceMutex. UpdateDev is `UpdateStop` then `UpdateStart`,
RemoveDevice `RemoveStop` then `RemoveCancel`: Disconnect takes up to 250 ms
before cancelFunc is called. `NewClient`, `Dial`, `Connected`, `DialFails`,
`Apply` and `Exit` are start, InitDevice and dataHandler; `BadConfig` is a
configuration start cannot parse, which leaves the client nil for good. A nil
client or a second removal is a panic that ends the process (`Die`), but for a
read over HTTP, where net/http recovers; over gRPC nothing does. `Boot` is the
restart by systemd, with the devices edgecore has (`store`). `told` is the last
value a device received.

A device has one writable property and the models map is left out. Calls
arrive when DevStart has finished its loop; the unlocked loop itself races with
early calls (a fatal map error, or a device started twice), which is listed as a
hazard at `device.go:64` and not modelled.

### Reporting

One device and four clocks that know nothing of each other. `Publish`, `Frame`,
`Birth` and `Will` are the device and its broker as onMessage and
onLoRaFrameFrom hear them; `cache`, `status` and `frame` are the client's value
cache, status and lastFrame. `PushToEdgeCore` and `PushStatesToEdgeCore` are
the tickers; `twin` is the age of the timestamp KubeEdge keeps, which is the
time of reporting. `Reconcile` is the liveness controller (thresholds,
lastReport, assess, the status write) on a watch event or a requeue. The
failures are a lost broker (`LoseBroker`), a subscription that fails on
`Reconnect`, a mapper that restarts with an empty cache (`Restart`), an edge
without its cloud (`CutLink`), a DeviceStatus that cannot be read and a status
write that fails. `Tick` waits for timers that are due, which is what a Go
ticker and RequeueAfter guarantee up to scheduling. A failed judgement is
retried by controller-runtime's work queue after a delay that grows with every
failure up to a limit: any delay up to `MaxBackoff` (`failed`, `retry`), while
time goes on.
`quiet`, the device's true silence, is known to no program. Values are reduced
to whether one is cached that converts to the property's type. A deployment
(`cfg`) is one of `Config`: legacy gateway, kinds of transport, and the
thresholds of the Device and of the DeviceLiveness spec.

### Ladder

`dev` is the configuration: declared transports, legacy fields and visitors.
`near`, `session` and `kept` are the device and the broker: in reach by a type
of transport, with a will to publish, with a retained message. `heard` is
lastSeenPer as ages, `subs` the doors the client listens at. `Start` is
InitDevice with its validation and subscriptions, `Handle` one turn of
dataHandler's loop, `Call` WriteDevice; both go through `Select`
(selectTransport and the head of writeVia) to `Publish`. Each write has the size
of its own value: the handler that of the desired one, a caller any of `Size`; a
caller may also come before the client is started, which WriteDevice does not
ask. Between the choice and the publication anything may happen: the two are
separated by deviceMutex and the network. A write that finds its doors shut has
the fate "deferred". `written`, `unavailable` and `carried` are history, the last
two per property and size.

### Schedule, FleetReports and TorporPlan

`Schedule` keeps window.go's search limits as constants (`LookBack`,
`LookAhead`) and time in hours; a cron line is an hour and a day of the week.
`FleetReports` has one operator per judgement, on the records of `Planner`.
`TorporPlan` has time, twins, liveness objects and decommissions as state:
`Report`, `Reconcile` and `Decommission` are the mapper, the liveness controller
and an operator. The tool writes nothing, so what it would print (`Built`,
`Planned`, `ToolPlan`, `PlannedGate`) is a function of the state and is compared
with the controllers' (`Found`, `ControllerPlan`, `Gate`) in every one.

### Vivarium and Verify

A simulated device is an organism (running and reported hash, bricked, silent),
a connection, a queue of commands and the flashes it has begun. `OnCommand`
echoes, decides and begins a flash; `FlashDone` is the goroutine that ends it,
in any order with others and with reports (`Tick`, `TickPublish`). The gateway's
outage (`IsDown`) moves only when a report or `Snapshot` asks. `Verify`
subscribes to one device, records what the broker delivers, checks, probes and
prints a verdict. Values of sensors, batteries and random numbers are choices.
The broker outlives the simulator: that cmd/vivarium's embedded broker, its
default, ends with the process is left out. The verifier's two subscriptions are
one step, and so are a tick's reading of its hash and its question to the
gateway; in both cases the parts commute with everything a property looks at.

### SerialBridge

A line is a topic and a value with the lengths that meet a buffer. main writes
`script`; rx_thread handles the lines in `inq` and may be preempted inside its
echo (`half`, `open`), never the other way round. The bridge publishes what
parses (`Hears`); `BridgeEnds`, `BridgeStops`, `BridgeKilled` and
`ConnectionLost` are its ends, with the will where MQTT publishes one.
bufio.Scanner hands on an unfinished line with whatever error ends the read, so a
cable that falls out and a board that hangs inside a line (its empty reads end the
loop) both publish the half of it. A stopped bridge goes on reading until it has
disconnected. `Noise` is what rx_thread's polling loses: one line or two become
none or a shorter one.

## Runs

| Run | Checks | Shows |
|---|---|---|
| `rollout_safety` | TypeOK, StagedExposure, CompleteMeansRunning, RefusedNeverTold, ClosedWindowWins, ImplementsStagedUpdate | holds |
| `rollout_progress` | RolloutEnds, FailuresPause | holds |
| `panel_serve` | PanelTypeOK, OneRunner, CallsReturn, RemovedFallsSilent | holds |
| `reporting_found` | ReportingTypeOK, PublishedIsTimely, SpeakingIsFound | holds |
| `ladder` | LadderTypeOK, UnavailableIsForever, ReportsFollowWrites, DoorsDecay, HandlerFinishes | holds |
| `plan_fleet` | PlanTypeOK, DryRunMatches, RowsAgree, QueriesAgree, AtRiskIsRefused, DurationHonoured, ClosedUntilPromised | holds |
| `verify_fleet` | VerifyTypeOK, IncompatibleNeverRuns, GapsAreReal, OutageEnds, VerifyEnds | holds |
| `serial_bridge` | SerialTypeOK, NoOverread, GoneReadsOffline, IdentityIntact, OnlineAgain, SilentIsOffline | holds |
| `rollout_second` | RolloutEnds | refuted where devices carry an earlier rollout's `firmware_url` |
| `rollout_window` | WindowLimitHolds | refuted: the budget is renewed every hour inside a window that stays open |
| `reporting_silent` | SilenceIsUnreachable | refuted: the cached value is reported again with a new timestamp, so a dead device stays Online |
| `window_freeze` | DurationHonoured | refuted: a freeze of 63 hours is over after 48, where lastCronFire stops looking |

The refuted properties state what a comment of the code says; `PROJECT.json`
quotes the lines under "findings".

Further configurations, for questions that are settled by one short run or, the
first, by a proof; they are kept to be run by hand and are not among the runs of
`PROJECT.json`:

| Configuration | Module | Checks | Shows |
|---|---|---|---|
| `RolloutBudget.cfg` | `MCRolloutBudget` | HourlyExposure | holds: over renewals of the budget, at most twice MaxDevicesPerWindow devices within any hour |
| `RolloutTransfers.cfg` | `MCRolloutBudget` | TransfersBounded | refuted: MaxConcurrent caps one reconcile, not the transfers in progress |
| `RolloutCanary.cfg` | `MCRollout` | CanaryGoesFirst | refuted: a canary that falls asleep is no longer counted, and another is told |
| `PanelTwins.cfg` | `MCDevPanel` | TwinsReturn | refuted: UpdateDevTwins locks a mutex it holds |
| `PanelStopped.cfg` | `MCDevPanel` | StoppedWritesNothing | refuted: an instance stopped inside InitDevice connects later and writes its old value |
| `LadderDeferred.cfg` | `MCLadder` | DeferredIsWritten | refuted: a desired value that finds its doors shut is never tried again |
| `SerialTokens.cfg` | `MCSerialBridge` | RepeatsReturnEarly | refuted: a firmware command of 64 characters is acted on at every repetition |
| `SerialSignal.cfg` | `MCSerialBridge` | StoppedReadsOffline | refuted: a signalled bridge may publish "online" after its goodbye |

What they contradict: "MaxConcurrent bounds simultaneous transfers"
(`firmwarerollout_types.go:111`), "Canary is how many devices go first"
(`firmwarerollout_types.go:95`), "UpdateDevTwins update device's twins"
(`device.go:357`), "UpdateDev stop old device, then update and start new device"
(`device.go:335`), "deferring until next in range" (`transport.go:154`), "Keep the
last token and return early if it repeats" (`docs/device-contract.md:107`) and "If
the bridge dies, the device is unreachable, and saying so is correct"
(`bridge/main.go:86`).

**Bounds.** `rollout_safety` has three devices (two
OTA-capable ones, the first of which falls asleep and wakes, and one LoRa node
that must be refused), steps of 50 and 100 percent with a
canary, one unlimited window and one of a single device, one liveness change,
one edit of spec.paused and one fault (crash, failed read or write, lost answer,
stale read) at any point, at most two of the three in one behaviour
(`MaxDisturbances`). Three devices are the least that separate canary, half and all; one
fault suffices for each lost or doubled step, and a second one only repeats it.
With `Hour` and `MustReportWithin` at 0 an age of 1 is "too old", so both sides
of each comparison occur. `rollout_progress` has two devices, one that may
boot-loop (a boot count of 2 against a threshold of 1) and one that may fall
asleep, a window that opens and closes for ever with a budget of one, and one
disturbance (`MaxDisturbances`): an edit of spec.paused, a liveness change, or
a crash, failed call or stale read. `RolloutBudget.cfg` has three devices and one
window with a budget of one, so that a third device within an hour would exceed
twice the limit; the window opens and closes at will and one edit of spec.paused
falls anywhere, refused status writes included. With `Hour` at 1 an age of 2 is
"too old", so a renewal and the dispatches before and after it fall within one
hour. `panel_serve` has one device,
because devices share only the mutex and the process; two callers and three
calls, which is the least that lets an update overlap a removal and be followed
by another call; one failed connect or kill. Deadlock is not checked in the
panel's runs: a mapper nobody calls rests. CallsReturn is claimed unless a call
waits for the mutex it holds, which is what `PanelTwins.cfg` is about.
`reporting_found` has three deployments whose thresholds come from the Device,
from the DeviceLiveness spec and from the defaults, one property, cycles of one
unit, ages up to `Horizon` (past every limit and requeue), a retry delay of up to
one unit (`MaxBackoff`) and two faults, so that a cut edge can coincide with a
restart or a failed write, and two writes can fail in a row.

`ladder` has six devices: WiFi before LoRa and the reverse, the legacy LoRa
node (with a visitor that does not parse) and WiFi board, a small door with a pin
that no type matches, and declared transports without the legacy fields; values of
two sizes, one that LoRa takes and one that it does not; limits of one and two ticks
against ages up to three, and two faults or arrivals, enough for a door that is
heard, left, revived by its will and left again. `plan_fleet` has days of four
hours and weeks of three days, so that eleven hours pass through every kind of
overlap of its windows, and a LookBack of two days, as in the code; intervals of
two hours let a device become Sleeping and Unreachable; one device at a time
reports, because the judgements are per device. Nothing in it depends on more
than the matched set and one device. `window_freeze` uses the real calendar and
search limits. `verify_fleet` has one device, since devices share only a
gateway's outage; one command beside the verifier's own is what makes two
flashes overlap, and one fault at any point. `serial_bridge` uses the source's
buffer sizes and commands at their limits, two commands in any order and two
faults.

DurationHonoured is claimed in `plan_fleet` for periods within LookBack; DryRunMatches
for fleets nobody was decommissioned from and devices that report neither a
battery capacity nor reachable_via. GoneReadsOffline leaves out a bridge
stopped by a signal: its goodbye races its own read loop and the code loses that
race, which is what `SerialSignal.cfg` shows. OneRunner speaks of instances that were
not told to stop; `PanelStopped.cfg` shows what one that was may still do. GapsAreReal is claimed for a device that was up from the subscription to
the verdict.

StagedExposure is claimed while no liveness changed (`churn = 0`): a told device
that falls asleep leaves the counts and frees its slot, which `RolloutCanary.cfg`
shows. HourlyExposure is claimed until the
first fault and until the first status the API server refuses (`counted`): a
crash after a dispatch loses the count, and so does an edit of the rollout while
a reconcile runs, because the status write that carries DispatchedThisWindow is
then refused and nothing else remembers what was dispatched. It allows twice the
limit because a batch told just before the renewal and one told just after it are
both within the hour. SpeakingIsFound is claimed while the device keeps to its
interval and the mapper has a value of a property that is watched; what becomes of
a silent device is `reporting_silent`'s. ClosedUntilPromised says what the time
announced is worth; the controller itself looks again every half hour at the latest.
IncompatibleNeverRuns
leaves out the devices FailChance applies to and those that were made with a hash
their cohort cannot run.

**Fairness.** For the rollout: weak fairness of the controller's own steps
(every reconcile ends in RequeueAfter or in a retried error), of the watch, of
the clock and of each device's installation; strong fairness of a reconcile
that finds the windows open, because requeues are spaced by the announced
opening and a window that opens again and again is not missed every time.
Reboots, liveness changes, twin stamps, window moves and operator edits are not
fair. For the mapper: strong fairness of Lock (Go's mutex hands over to a
starving waiter), weak fairness of handlers and goroutines, of the end of a
connection attempt (it has a timeout), and of the restart (`Restart=always`).
For reporting: weak fairness of time, the tickers, the requeues and edgecore's
reconnection; the device and the broker owe nothing. For the ladder: weak
fairness of time and of the handler's goroutine, whose publications have a
timeout; nothing makes a device come back or a broker reconnect. For verify: weak
fairness of its own loops, of the broker's deliveries, of callbacks, of time and
of the periodic print of the truth (cmd/vivarium prints it on a ticker); no fairness of commands, flashes or
reports. For the serial board: weak fairness of main, strong fairness of
rx_thread (it runs whenever main sleeps, which it does again and again), weak
fairness of the bridge's read loop, its exits and the client's reconnection;
nobody owes a cable or a restart.

## Proofs

`RolloutProofs` proves for every fleet, strategy, set of windows and bound:

- `TypeCorrect`: `Spec => []TypeOK`;
- `CompleteIsTrue`: `Spec => []CompleteMeansRunning`;
- `RefusedStayUntold`: `Spec => []RefusedNeverTold`;
- `Implements`: `Spec => ImplementsStagedUpdate`, the refinement;
- `ExposureIsStaged`: `Spec => []StagedExposure`;
- `HourlyBudget`: `BSpec => []HourlyExposure`;
- `ClosedWins`: `HSpec => ClosedWindowWins`, an action property.

The inductive invariant `RolloutInv` adds to the type invariant what ties the
three copies of the rollout together: a copy in memory that says Complete was
backed by enough running devices when it was judged, and devices never stop
running it (`MemoryInv`); a held copy and a fresh cache agree with the API
server on what is final, so a write that is accepted cannot undo Complete
(`VersionInv`); what runs was told (`RanWereTold`); and the queue and the plan
of a reconcile hold only devices with a fitting transport (`DoorInv`).
None of the properties is inductive alone: Complete is decided in `Observe`,
becomes visible in `Finish` one or more steps later, and in between the cache,
the version and the devices move. The proof goes action by action; the
refinement proof maps Dispatch to Tell, Install to Report, Finish to Complete
and everything else to a stutter.

StagedExposure needs an invariant of its own. Counting the told devices is not
inductive: a device whose `firmware_url` could not be read passes for not told
and makes room for one more. `ExposureInv` counts instead every eligible device
up to the last one told or queued (`UpTo`): nextDevices takes devices in the
order of their names, so the misread device lies before the one it makes room
for. What the step in force permits only grows with the devices that run the
hash (`AllowedGrows`, over the least step that is not reached, `FirstOpenStep`).

The windows' promises are about `HSpec` and `BSpec`, which implement `Spec`
(`HistoryRefines`, `BudgetRefines`). `ConsentInv` says that a reconcile that got
past CheckWindow found every selecting window open. HourlyExposure speaks of the
devices told within the last hour, whatever the controller counted, and its
invariant (`BudgetInv`) has to connect the two. `CountInv` says where the count
lives: in the reconcile's copy while one runs, in the API server otherwise; it
covers the devices told since the last renewal, and with the queue it fits the
limit. This needs the version invariant, by which a reconcile that starts from a
fresh cache starts from the count the API server holds. `AgeInv` says of the
devices told before that renewal that they were told no later than it, and that
those of them within the hour are at most one limit. At a renewal the present
batch becomes the earlier one, and the older ones have left the hour, because a
renewal needs an openedAt more than an hour old (`AgeStep`); so the last hour
holds at most two batches.

`DevPanelProofs` proves for all devices, callers and bounds:

- `PanelTypeCorrect`: `Spec => []PanelTypeOK`;
- `OneRunnerAlways`: `Spec => []OneRunner`.

The type invariant includes that the mutex is free or held by a call in progress,
which every early return and panic has to keep. `PanelInv` strengthens OneRunner by: who is past Lock holds the mutex; the
cancelFunc kept is that of the youngest instance, and only that one can be in
the table; a call in the middle of a stop works on an existing instance; a dead
process has no calls; an update carries a value. The step that needs all of it
is UpdateStart for a device that is not in the table: nothing of that device
may still run uncancelled, which follows because only a call past Lock could be
in the middle of removing it.

`ReportingProofs` proves for all deployments, properties, cycles and
thresholds:

- `ReportingTypeCorrect`: `Spec => []ReportingTypeOK`;
- `TimelyAlways`: `Spec => []PublishedIsTimely`.

PublishedIsTimely bounds the age of a published state by the requeue and, for
every judgement that failed in a row, one retry delay (`Delay`); nothing is assumed
of how often they fail. It is not inductive: `VerdictAge` bounds the age by the
time since the last judgement instead, and `BackoffInv` that time, together with
what is left of the delay, by Delay, which grows by one MaxBackoff with every
failure while time goes on (`DelayGrows`). A tick ages the reports and that time alike, a push only
makes reports younger, and a judgement is right for the freshest report, which
exists because ages are naturals (`LeastNatural`).

`LadderProofs` proves for all devices, doors, properties and bounds:

- `LadderTypeCorrect`: `Spec => []LadderTypeOK`;
- `UnavailableForever`: `Spec => []UnavailableIsForever`;
- `ReportsFollow`: `Spec => []ReportsFollowWrites`.

The properties relate histories; `LadderInv` ties each of them to what the
doors can carry in principle, which no step changes (`SameDoors`): a value that was
found unavailable fits no door at its size, one that was carried fits one, and a
door that takes a value takes every shorter one of the property (`ShorterFits`), so
that nothing as long as what was refused is ever carried; a write under way has a
door that fits and is direct, and only what is read-only or written is reported.
That the door selected is one of the device's rests on the least element of a
set of positions (`LeastNatural`).

`SerialBridgeProofs` proves for all commands and buffer sizes:

- `SerialTypeCorrect`: `Spec => []SerialTypeOK`;
- `GoneIsOffline`: `Spec => []GoneReadsOffline`;
- `IdentityStaysIntact`: `Spec => IdentityIntact`, an action property;
- `PrintsWithinBuffer`: `Spec => []NoOverread` wherever `SizesFit`: pub's buffer
  is no smaller than rx_thread's and takes the announcement.

The broker's payloads are followed through one notion: a line is `Honest` if it
puts nothing garbled under an identity. All lines of both threads are, merged
ones included, because only rx_thread is cut by the other thread and it writes
echoes. What is left are the three ways in which main's own line ends early: a
reset, the cable, and a board that hangs inside the line until the bridge gives up;
IdentityIntact names them, and the theorem says that there is no fourth.

`TorporPlanProofs` proves for every fleet, rollout, calendar and set of windows:

- `PlanTypeCorrect`: `Spec => []PlanTypeOK`;
- `RowsAlwaysAgree`, `QueriesAlwaysAgree`, `AtRiskIsNeverEligible`: RowsAgree,
  QueriesAgree and AtRiskIsRefused;
- `DryRunAlwaysMatches`: `Spec => []DryRunMatches`;
- `DurationsHonoured`: DurationHonoured where no period is longer than
  lastCronFire looks back (`Reachable`), which is the line between the run that
  passes and the one that refutes it;
- `ClosedUntilThen`: ClosedUntilPromised where every deny period is `Reachable`
  and ends by its cron line or by Until, not by both (`EndsOnce`), and the model
  looks no further ahead than nextCronFire. With both, periodEnd returns Until
  although the period ends earlier, and the gate may open before NextOpen.

The agreements hold in every state, reachable or not: they are facts about the
operators of planner.go, drift.go and query.go (`Verdicts`). DryRunMatches needs
the type invariant, because buildLiveness and assess agree only on reports that
are not from the future. For the windows the work is in the search loops: what
lastCronFire finds within LookBack is the latest firing, a period that covers an
hour has fired within its duration, and the last firing's period covers whatever
an earlier one covered (`ReachableIsHonoured`); a denied window stays denied until
periodEnd (`DenyStays`), a closed one until its first opening
(`WindowStaysClosed`), and the gate until the last of its windows. LookBack is
assumed to be no longer than a week, as it is in the code.

`VerifyProofs` proves for every fleet file, schedule of outages and bound:

- `VerifyTypeCorrect`: `Spec => []VerifyTypeOK`;
- `IncompatibleHashesNeverRun`: `Spec => []IncompatibleNeverRuns`;
- `ReportedGapsAreReal`: `Spec => []GapsAreReal`.

The type invariant is inductive only because messages are typed by their topic:
the probe is sent with the last payload recorded under the hash topic. For
IncompatibleNeverRuns, `SparedInv` adds that every flash under way with a bad
hash carries the cohort's failure mode; flashes end in any order, so the claim is
about each of them and survives `RemoveAt`. GapsAreReal relates a verdict to
everything since the subscription. `WatchInv` follows it: a device that is up has
its birth and announcement retained (`BornInv`); while the watch is calm, the
subject is up and nothing but good news is on the wire (`CalmInv`); the two
retained messages are at the head of the wire or recorded, in this order, so that
a sensor reading can only have been recorded after both (`BirthInv`); and the
probe is queued at the device, or its echo is on the wire, or was recorded
(`EchoInv`). All actions of the fleet are covered by one lemma
(`FleetDelivers`): what a step delivers while the subject stays up is no bad news
and holds the echo of every command it takes from the queue.

Assumptions are the named ASSUMEs on the constants (`RolloutAssumption`,
`PanelAssumption`, `ReportingAssumption`, `LadderAssumption`,
`SerialAssumption`, `NoneAssumption`, `CalendarAssumption` and the two
`FleetAssumption`s of `TorporPlan` and `Vivarium`); TLC evaluates them in every run.

Every invariant and every action property of a passing run is a theorem. Only
model-checked is what is temporal beyond them: RolloutEnds, FailuresPause,
CallsReturn, RemovedFallsSilent, SpeakingIsFound, DoorsDecay, HandlerFinishes,
OutageEnds, VerifyEnds, OnlineAgain and SilentIsOffline, since the proof system
does not treat fairness and ENABLED.

## Plan

1. Done: planner, rollout, window composition and schedule; device table;
   reporting and liveness; transport ladder; plan tool, drift, credentials and
   queries; vivarium and verifier; serial board and bridge.
2. Done: theorems for every invariant and action property the passing runs check.
3. A composition in which `Reporting` drives `Rollout`'s liveness and stamps: is a
   rollout told of a device's silence before the device is overdue.
4. Enrollment, once something calls it.

## Behaviour without a property

Met while modelling, in the models where noted, and promised by nothing that
could be checked:

- a connect that fails at startup is never retried (`DevPanel`, `Ladder`), and
  DevStart ranges over the table without the mutex (not modelled);
- a subscription that fails on reconnect is not repeated (`Reporting`, `Ladder`);
- a two-door device without a legacy gateway never reads what arrives over LoRa
  (`Reporting`); one without legacy fields is refused altogether, a relayed door
  that comes first refuses although a direct one is open, a pin on "ota" matches
  no door, and a door never heard counts as up for ever (`Ladder`);
- MustReportWithin counts from a timestamp the mapper renews; a device without a
  firmware_url property blocks the canary; of several open windows the last one
  listed sets MaxDevices; an invalid selector fails open; an edit after Complete
  is ignored (`Rollout`, the last two left out);
- only transports declared "always" are ever reachable for the controller, the
  tool ignores the Selector of drift, query and credential objects, and the
  decommission filter is not used by the rollout controller (`TorporPlan`);
- a period with both Until and a cron line names Until as its end although it ends
  earlier, so NextOpen may be too late (`Schedule`);
- an edit of a rollout while it is reconciled loses the window's count of that
  reconcile (`RolloutBudget`);
- the verifier's probe of a device without a hash is a firmware command like any
  other (`Verify`); the tail of an overlong line is a line of its own (`SerialBridge`).

## Not modelled

Enrollment, contact window learning and most of decommissioning are pure
functions that nothing in this commit calls. Templates are text substitution.
The manager's main is wiring. Data push and databases are a ticker around an
external service. ESPHome configurations and components are board support,
deep copies are generated. Kubernetes, KubeEdge, mapper-framework, net/http and
the MQTT broker appear only as the code uses them: versioned status writes and a
lagging cache, calls and restarts, messages that arrive, are retained or are
lost. In the modelled parts: labels and selectors other than a role, time zones
and minutes of cron lines, the grace period of drift (no caller passes its
start), sorted and truncated result lists, and all formatting.
