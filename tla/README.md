# TLA+ models of the V2X node

The node is one process on a vehicle. It reads the vehicle's own position from
an RTOS over a CAN device, publishes it over MQTT, collects the status of the
other vehicles and of the traffic lights, and tells the RTOS, while the vehicle
turns right or makes an unprotected left turn, which other vehicle conflicts
with it (the *candidate*). All paths below are relative to `src/v2x_mqtt/`.

## 1. The system

### Components

| Component | State | Operations |
|---|---|---|
| CAN RX thread, `core/can_rx_thread.c` | none of its own | `on_ego_frame` for each frame: decide the turn state, store it, store the VehicleInfo, queue it, update the candidate flag; around it the loop that opens, polls and closes the device |
| Own vehicle, `manager/self_vehicle_manager.c` | turn state, VehicleInfo, `valid`, time of the last update | `get/set_turn_state`, `update_from_can`, `get_info` (false when older than the freshness limit) |
| Publish queue, `manager/vehicle_publish_queue.c` | one sample and `pending` | `push` overwrites, `try_pop` takes |
| CAN TX thread, `core/can_tx_thread.c` | three locals about what was reported, three elapsed times | one pass of the loop every 10 ms |
| Candidate selection, `core/can_tx_thread.c` | none | pure functions and one scan loop |
| Other vehicles, `manager/other_vehicle_manager.c` | table of VehicleInfo with `valid` and time stamp; the candidate | `update`, `copy_valid`, `cleanup_stale`, `set_candidate` |
| Traffic lights, `manager/traffic_light_manager.c` | table with `valid`; the candidate light | `update`, `select_candidate`, `get_candidate` |
| MQTT thread, `core/mqtt_thread.c` | time since the last sweep | publish the queued sample, sweep, sleep; around it the session retry loop |
| MQTT handler, `handler/mqtt_handler.c` | `connected`, `initialized` | callbacks `on_connect`, `on_disconnect`, `on_message` on mosquitto's own thread; publish |
| Map service and map, `service/map_service.c`, `map/IntersectionMap.c` | the loaded map, constant after start-up | lane, direction, zones and light of a position |
| CAN handler, `handler/can_handler.c`, `common/ipc_frame.c` | device descriptor, receive buffer | frame encoding and sending, frame parsing with resynchronisation |
| NTP time, `common/ntp_time.c` | offset and sync state | epoch time, reconstruction of truncated time stamps |
| Codec, `common/vehicle_codec.c` | none | VehicleInfo and TrafficLight to and from JSON |
| Start-up and shutdown, `core/main.c` | `running` | initialise, start three threads, join, clean up; a signal clears `running` |

### How they interact

Four threads share `AppContext`: CAN RX, CAN TX, the MQTT thread and
mosquitto's network thread. Each manager has a mutex that is held for one call
at a time, so **every call is atomic and nothing longer is**: where two calls are one
step of a model, section 2 says why nothing that comes between them can tell. Two atomics are
outside the mutexes: `candidate_vehicle_tx_enabled` (written by CAN RX, read by
CAN TX) and `MqttHandler.connected` (written by the callbacks, read by CAN TX
and the MQTT thread).

    RTOS --frames--> CAN RX --set/update--> own vehicle --get_info--> CAN TX --frames--> RTOS
                       |  \--flag-----------------------------------> CAN TX
                       \--push--> queue --try_pop--> MQTT thread --publish--> broker
    broker --on_message--> other vehicles / traffic lights --copy/select--> CAN TX
                                   ^--cleanup_stale-- MQTT thread

### What is hard, and what makes each component correct

- **Reads that belong together are taken apart.** A pass of the CAN TX loop reads
  the flag, the own VehicleInfo, the connection and the table of vehicles one
  after another and sets the candidate at the end, from a copy. Correct: what
  the RTOS is told at the end of the pass is what the pass decided, and when the
  inputs come to rest the RTOS knows the truth.
- **A protocol with memory on both sides.** The RTOS knows the conflict of a
  candidate only from an introduction frame, which is sent once per candidate.
  Correct: no status about a vehicle without its introduction, whatever was in
  between.
- **A flag that is written as a difference.** Correct: it never parts from the
  turn state.
- **Expiry by sweeping.** Correct: a silent vehicle is gone after the timeout and
  one sweep period, whatever the connection does; a vehicle that is heard stays.
- **Retained messages, last wills, reconnects.** Correct: we are never one of the
  other vehicles, and vehicles that left are forgotten.
- **Periods kept in counters that branches reset.** Correct: no gap between two
  statuses is longer than the period.
- **A byte stream without boundaries.** Correct: whatever the pieces it is read in and
  the noise in it, the intact frames are taken, each once, and the buffer never
  fills up.
- **Shutdown while threads block.** Correct: nothing is destroyed that is still in
  use, no descriptor is leaked or mistaken, and the process ends.
- **Frames that get lost.** Correct: what the RTOS believes heals as soon as the device
  takes frames again, and a notice that is sent once is the only one whose loss counts.
- **Values that are old when they are used.** Correct: what is published or shown is
  the latest there was, and old only if a lost connection or a hold-up between the
  freshness test and the push explains it.
- **Numbers that are cut and put together again.** Correct: the sensing time, the place and
  the ids that one RTOS sends are those that the other one gets.
- **A map from a file of any form.** Correct: what the queries answer is what the file
  declares, though tables overflow, ids repeat and references lead nowhere.

`PROJECT.json` lists the hazards at their lines, with the properties aimed at
each.

## 2. The modules

| Module | Models | State and steps |
|---|---|---|
| `MapService` | `service/map_service.c` and the lookups of `map/IntersectionMap.c` | no state: the map is a set of constants with assumptions on their ranges |
| `SelfVehicle` | `on_ego_frame` and the own-vehicle manager, the queue, the flag | one action per locked call of the handler (`ReceiveFrame`, `SetTurnState`, `UpdateFromCan`, `ReadInfo`, `PushLatest`, `UpdateFlag`), `TryPop` of the MQTT thread, `GoStale` for the clock |
| `CandidateSelection` | the pure functions of `can_tx_thread.c` | no state: `SelectCandidate` defines the candidate |
| `CandidateScan` | the loop of `select_candidate_vehicle` | one entry of the copied table per step (`Skip`, `Take`, `Keep`) |
| `CandidateTx` | `can_tx_thread_main` | one action per branch of the loop, split where shared state is read; `EnvStep` lets the other threads change what they own in any way |
| `MqttThread` | `mqtt_thread_main`, the callbacks, `cleanup_stale`; broker and other vehicles external | the passes of the thread (`PublishLatest`, `ReadClock`, `Sweep`, `EndPass`), the callbacks, the peers |
| `IpcRx` | `can_handler_poll`, `process_ipc_rx_buffer`, `ipc_frame_parse` | the buffer as a piece of the stream; `Read`, and one pass of the parse loop per step (`NoHeader`, `Await`, `Resynchronize`, `TakeEgo`, `DropOther`) |
| `Lifecycle` | `main`, the outer loops of the three threads, `can_handler_init/cleanup`, `ipc_frame_send`, `mqtt_handler_init/cleanup`; descriptors and network loop external | a program counter for each thread, the running flag, `fd` and `initialized` of the handlers, what each descriptor stands for |
| `LatestValue` | what publishing the own status promises | abstract: numbered samples are taken, published in order, received in order |
| `SelfPublish` | the own status from `update_from_can` to another vehicle's table; broker external | the calls of CAN RX (`UpdateFromCan`, `ReadInfo`, `PushLatest`), the pass of the MQTT thread (`SeeConnected`, `TakeLatest`, `Publish`, `EndPass`), connections, last will, the reader's `on_message`; implements `LatestValue` |
| `CandidateLink` | `CandidateTx` with a device that refuses frames | each step of `CandidateTx` with `Carry`: which of its frames arrive; what the RTOS heard and knows |
| `V2xNode` | the CAN RX and CAN TX threads of one node | the actions of `SelfVehicle` and `CandidateTx` over the shared variables |
| `TrafficLights` | from a light's retained message over `on_message` and the table to the frame | `OnMessage`; the period of the frame in the CAN TX loop with its re-arming (`TxBegin`, `TxCopy`) and the three calls of `send_candidate_traffic_light` (`TxCheck`, `TxSelect`, `TxSend`); connections, the lane, candidate mode (`SwitchMode`) |
| `Timestamps` | `ntp_time.c`, the NTP frames and the time stamp in the codec; RTOS external | the Linux clock, the RTOS clock, an NTP frame and an ego frame under way, the stamp |
| `MapLoading` | `intersection_map_load_xml` and the queries | one element, participant or `applies_to` of the file per step |
| `MapPolygon` | point references, `point_in_polygon`, zone centres | one reference per step; the geometry as operators |
| `Frames` | encoding and decoding in `can_handler.c`, the fields in the codec | a state on its way from RTOS to RTOS, and each other frame |
| `Statuses` | the two kinds of status a node handles | `SelfPublish` and `TrafficLights` side by side, with their constants, assumptions and properties |
| `Algorithms` | the computations that are not protocols | `CandidateScan`, `MapLoading`, `MapPolygon`, `Frames` and `Timestamps` side by side, with their constants, assumptions and properties |
| `*_proofs` | theorems about the module they are named after; `CandidateTx_proofs` also about `CandidateLink` and `V2xNode`, which are built from `CandidateTx` | |
| `MC*` | instances for TLC | `MCMap` is a piece of `map/intersection_lanelet_v1.xml`; `MCStatuses` extends `Statuses`; `MCAlgorithms` extends `Algorithms` and keeps its map files to two kinds (about conflicts; about areas, lanelets and lights) |

### Abstractions

- A *pose* stands for position and heading. What the code computes from it with
  polygons and projections (lane, zones behind the vehicle, distance to another
  vehicle) is given by constant functions, about which the assumptions say only
  their ranges. So every result holds for every map.
- A conflict zone is the number of its relation in the map, so that "the first
  zone of our list that the other vehicle lists" is the least common number.
- A VehicleInfo keeps pose, lane, turn and zones. Time stamps, speed and the
  texts of ids are left out; the linked traffic light is a function of the lane.
- `info = NoInfo` is `valid = false`; `fresh` is the outcome of the freshness
  test in `get_info`, which the clock may turn false at any time.
- What was sent to the RTOS is kept in history variables (`reported`,
  `introduced`, `lightReport`) and the ticks since then in `sinceStatus`,
  `sinceLight` and `sinceStart`. No action of the code reads them.
- Time is counted in ticks of the loop in question. Elapsed times saturate at
  their period (they are only compared with it, and re-armed before they are
  used again); ages saturate beyond the bound that is checked. The real ticks
  are 10 ms and a little more, so every bound in ticks is a bound in passes of
  the loop, not in wall-clock time.
- In `CandidateTx` calls that touch only this thread's data are joined with
  the read that precedes them. Setting the candidate and sending the frames is
  one step: the other threads do not read the frames.
- `CandidateScan` scans the table itself and not the compacted copy. The places
  that are not valid are skipped, which leaves the same entries in the same order.
- In `MqttThread` a pass tests the connection, pops and sends in one step (`PublishLatest`):
  what it publishes never gets into our own table, so nothing that comes between the
  three calls can tell. `SelfPublish` has them apart.
- In `SelfPublish` the age of a sample is counted in passes of the MQTT thread, so what
  that thread itself is held up does not count. The reader
  is another vehicle with the same program; nothing that it does comes back.
- In `TrafficLights` the rest of the CAN TX loop is left out, but not what decides when the
  light's frame is due: the flag, `last_active` and the elapsed time. The ticks that wait are
  steps of `TxBegin`.
- `CandidateLink` leaves out the frames that the RTOS forgets nothing by (NTP, traffic
  light): only those about the candidate may be refused. In `V2xNode` the queue is filled and not
  emptied, as nobody there looks at it.
- The runs of `CandidateLink`, `V2xNode` and `Statuses` use a VIEW. What it leaves out (ages of
  the statuses; in `V2xNode` the light, the NTP period and the queue; in `Statuses` the
  CAN TX thread's copy of the lane between its passes, which it takes anew before it reads it) is
  written by the steps but read by no guard and by no assignment to a
  variable that is kept, nor by a property of the run, so states that agree on
  the rest have the same futures.
- `MCStatuses` and `MCAlgorithms` hold parts that do not touch each other. A
  behaviour exercises one, chosen in the initial state, and the others rest in
  their initial state; so the states of the parts add up and do not multiply.
- In `MapLoading` the file is chosen element by element as it is read. An id is a
  short string that is only compared, an attribute is a field of its element
  (how it is found in the text of the tag is left out), and a polygon the set
  of positions it holds. The table of traffic light polygons is not read by
  anything and is left out.
- `MapPolygon` computes with integers and without the tolerances of the code (1e-9 and
  1e-12), which decide nothing on a grid; quotients are multiplied out.
- In `Frames` a number is the set of its bits, so that masks, shifts and `|` are
  sets and nothing is left to arithmetic; a field is given its end values, single bits, and
  values with more bits than it has.
- In `Timestamps` the period of 4096, the 64 bits and the 53 of a double are constants. The
  upper half of `uint64_t`, where doubles are 2048 apart, is kept: a double there is a
  multiple of half the period.
- In `IpcRx` the receive buffer is a pair of positions in the stream, so consuming
  bytes moves a position and copies nothing. The numbers of the frame layout, the
  byte values and the checksum are constants: the results hold for any checksum,
  a bad one included. CMD1, CMD2 and the values in an ego frame are not looked at.
- In `Lifecycle` a descriptor stands for the device, the broker's socket or nothing,
  and `open` and `socket` take the lowest free one. Mock mode, in which no device
  is opened, is left out. `initialized` is read and written without a lock; there
  are calls between any two reads, so each read is taken to see the current
  value. `can_handler_init` clears the handler and sets `fd` to -1 before the
  open; as nobody uses a handler that is not initialized, and a handler that was
  cleaned up is not initialized again, this is not a step of its own.
  `mosquitto_loop_stop` with force cancels the network thread and joins it; that it
  is not cancelled in a locked section of a manager is assumed (the managers call
  nothing there that is a cancellation point).
- `pthread_join` of a handle that was never set is undefined; the model lets it
  return or crash the process.
- `IsOverdue`, `ForgetReport` and the other definitions marked *Mutant* are not
  used by any specification. Each is a plausible mistake in the definition that
  follows it, and substituting it makes TLC find the property violated that
  `PROJECT.json` names with it.

### Fairness

- `SelfVehicle`: weak fairness of the rest of the handler once it was entered
  (`HandlerStep`). The locks are held for short calls, so the RX thread is not
  blocked for ever. No fairness of `ReceiveFrame`: nothing makes the RTOS send.
- `CandidateTx`: weak fairness of `TxStep`; the loop waits for its sleep only.
  None of `EnvStep`.
- `MqttThread`: weak fairness of the thread's pass and of `OnMessage`, as the
  network loop takes what has arrived. None of connections or peers.
- `IpcRx`: weak fairness of the parse loop, which waits for nothing. None of reads.
- `CandidateLink`: weak fairness of the loop's steps, whatever the device does with its frames.
  `RefusalsHeal` has as a premise that the device takes them from some time on.
- `V2xNode`: weak fairness of a handler that was entered and of the CAN TX thread, as in
  the components. None of frames, of the other vehicles or of the connection.
- `SelfPublish`: weak fairness of the MQTT thread's pass. None of the broker or the reader.
- `TrafficLights`: weak fairness of `OnMessage` (the network thread takes what has arrived) and
  of the CAN TX thread. None of connections, lights, the road or candidate mode. That the loop
  goes on does not make the frame due: each start of candidate mode sets its counter back to half
  the period, so a mode that restarts within half a period each time puts it off for
  ever. `LightStatusSettles` therefore has as a premise that the mode settles
  (`ModeSettles`); without it TLC finds just that behaviour.
- `LatestValue`, `MapLoading`, `MapPolygon`, `Frames`, `Timestamps`: none; only safety is stated.
- `Lifecycle`: weak fairness of `main`, CAN RX and MQTT, whose calls all return
  (`open` is non-blocking, `select` and `connect` have timeouts), and of CAN TX
  *except* the writes: a device that stays full makes `ipc_frame_send` repeat its
  write for ever, so neither success nor failure of a write on an open descriptor
  is fair.

## 3. What TLC checks

| Run | Instance | Shows |
|---|---|---|
| `self_vehicle` | 6 poses on 3 lanes, in the centre and past the zones; all 4 signals | the flag equals the mode of the turn state between frames (`FlagFollowsMode`); samples agree with the map at every moment (`SamplesCoherent`); turns end in "straight" (`TurnsEndStraight`) |
| `candidate_tx` | 2 vehicles, periods 2, 4 and 1 ticks | `IntroducedBeforeReported`, `ReportMatchesSelection`, `IdleReportsNobody`, `StatusNeverLate`, `LightLateOnlyAfterStart` and the types |
| `candidate_link` | 1 vehicle that may be in either of two conflicts, periods 2, 2 and 1, every frame about the candidate may be refused | idle, the RTOS believes in a vehicle only if just the notice of the end was refused (`IdleBeliefOnlyByRefusedStop`); it knows the conflict of the present candidacy unless just its introduction was refused (`KnowsThisCandidacy`); refusals heal (`RefusalsHeal`); once the inputs rest the RTOS is told the truth for good (`SettlesOnTruth`); a candidate set from an old copy of the table does not stay (`DanglingCandidateRepaired`) |
| `v2x_node` | one lane, the centre past its first zone, one other vehicle in either zone | the CAN RX thread is an environment that `CandidateTx` allows (`TxAsSpecified`); nobody is reported for a zone that is behind (`ReportedZoneIsAhead`); the end of a turn is told (`TurnOverIsTold`), and so is a vehicle that stays in the way (`BlockerIsTold`) |
| `mqtt_thread` | this vehicle and one other, timeout 2 and sweep period 3 passes, 2 messages under way | `StaleBounded`, `OwnStatusIgnored`, `GoneIsForgotten`; a vehicle that is dropped is taken back as the candidate under the same lock (`DroppedIsNotCandidate`) |
| `statuses` | the own status: 3 samples, freshness limit 1 pass, ages up to 4 passes, 2 messages under way; the lights: 3, of which one is past the table, a period of 3 ticks, 2 publications, one without a field | `SelfPublish` implements `LatestValue` (`ImplementsLatestValue`); a sample is published old only after an outage or by what CAN RX was late to push it (`StaleOnlyIfHeldUp`); a queued sample gets to the broker (`LatestReachesBroker`); a frame with a light is about the light of the lane, from one message of it (`LightFramesAreTrue`); once candidate mode has settled the last status arrives, and an outage is told (`LightStatusSettles`) |
| `ipc_rx` | streams of three pieces out of 12 (whole, nested and cut-off frames, bad lengths and checksums, noise), read in pieces of every size up to a packet; 4 byte values, 5-byte header | the frames taken are those of the stream, whatever the reads (`IntactFramesTaken`); less than a packet is held back, so the overflow branch never discards data (`HoldBackBounded`); the parse loop ends (`ParserReturns`) |
| `lifecycle` | 2 descriptors | nothing in use is destroyed (`DestroyedUnused`), the device is open exactly while the handler has it (`DeviceHeld`), the process ends after a signal or a failed thread start, even if the device stays full (`ShutdownCompletes`) |
| `algorithms` | the scan: all tables of 5 places, 3 kinds of vehicle, a zone without a centre; files of one lanelet and 3 conflict elements with 3 references, and of 3 areas, 3 lanelets and 2 elements, with room for fewer; polygons of up to 5 references over a grid of 3 x 3, asked at 25 positions; fields; time stamps with a period of 4, 6 bits and a double of 5 | the loop computes `SelectCandidate` (`ScanSelects`); the zones answered are those declared (`ConflictsFollowTheFile`); so are centre, lane, direction and light (`ContextFollowsTheFile`); polygons hold what geometry says (`LanesHoldTheirGround`), also with a corner lost (`ShapesStayInside`); state and fields arrive (`StateArrivesUnchanged`), and so does the sensing time (`StampsKeepSensingTime`) |

The properties of `algorithms` and the two about lights are conjunctions: one
conjunct per question, each defined and explained in the module it is about, and
`PROJECT.json` has a mutant for nearly every one.

Why the bounds are enough: two vehicles are what a *change* of candidate needs,
and the choice among more is covered by the scan. The status period of two
ticks is the code's (20 ms of 10 ms ticks). The traffic light period of 4 has a
half that differs from zero, one and the whole, which is all the re-arming
distinguishes; the proofs remove the bound. The NTP period shares nothing with
the rest but the tick. The timeout and the sweep period are kept different so
that neither can stand for the other; two messages under way allow a live one
behind a retained one. `candidate_link` needs only one vehicle, as what must
settle is the report and not the choice; its two conflicts are what an introduction
can be out of date about. `v2x_node` has one lane with two zones, of which one can
be passed: the least in which a kept zone may be wrong. Three samples let one be queued,
one popped and one at the broker; two lights with a place and one without are
what a change of lane and the edge of the table need. A light period of three ticks has a half
below it, so that restarts of candidate mode can starve the frame. The files of `algorithms` are
larger than the tables, so that every table overflows in some of them, and
long enough that an element can repeat one that is not the one before it. Polygons
of four corners have all the ways of a corner to lie on the height of a
position, and two of them share a side. A period of 4 in 6 bits makes the low bits wrap
within the clock's range, and the stamps below zero and past what a double holds exactly.
In `ipc_rx` the header without CMD fields and
the four byte values leave every kind of overlap of a frame with what precedes it
possible, including a false header whose length reaches over whole frames; a
packet of 16 bytes and a buffer of 32 keep the ratio that matters (two packets
fit, as 2 x 1024 do in 4096). The third piece is always a good frame, which is
what noise before it could make get lost. The process has two files, so two descriptors
let each take the number the other has left, and the third case, that none is
free, is a failed open.

`ShutdownCompletes` begins after `app_init` has set `running`: a signal that arrives
earlier is overwritten, and nothing in the repository says otherwise.

### Where the code departs from what it says

| Run | Statement | What the code does |
|---|---|---|
| `mqtt_last_will` | `mqtt_handler.c:135-143`: the others detect a departure by the empty retained status, faster than by the timeout | `on_message` returns on an empty payload; only the sweep removes the vehicle |
| `mqtt_fresh_kept` | `mqtt_thread.c:8`: vehicles time out after 500 ms | the sweep reads its clock before taking the lock; a vehicle updated in between has a later stamp, the unsigned age wraps and the vehicle is dropped |
| `lifecycle_frames` | `can_handler.c:408`: the frame is sent to the descriptor of the device | at shutdown CAN RX closes the device while CAN TX is about to write or to repeat a write; a reconnecting network loop can get the same number, and the frame is written to the broker |

Other departures were met while modelling. No run is spent on them, as each can be seen in
the lines named, and the models have the behaviour as it is:

- `can_tx_thread.c:260` says "traffic-light status at t=10 ms". The period is armed to its
  half, so the first status leaves 150 ms after a start (`LightLateOnlyAfterStart` bounds it).
- `types.h:7-8` gives ids 1 to 63. Id 0 is accepted, selected and reported, and its
  introduction is skipped because 0 also means "nobody". `IntroducedBeforeReported`,
  `ReportMatchesSelection`, `KnowsThisCandidacy` and `BlockerIsTold` except vehicle id 0.
- `can_handler.c:90` gives the id 0 to "no traffic light". A light 0 is accepted, stored and sent.
- `mqtt_topics.h:14` documents a light's payload without `timestamp_ms`;
  `traffic_light_from_json` refuses it without.
- `mqtt_handler.c:187` says that the sensing time is used in MQTT as it is. With a clock
  before, or within 4096 ms after, the reference epoch the reconstruction wraps below zero, and
  the double in the message rounds it; `StampsKeepSensingTime` excepts that period.

## 4. What is proved

The theorems hold for every value of the constants that meets the named
assumptions of the modules. `MapAssumption`, `NoInfoAssumption`, `IdsAssumption`,
`ScanAssumption`, `PeriodAssumption`, `InfosAssumption`, `OwnInfosAssumption`,
`MqttAssumption`, `LightsAssumption`: the map's functions have their ranges, ids are natural
numbers, periods are positive, and what vehicles and lights send is of the right form.
`SizeAssumption`, `StreamAssumption`, `FdAssumption`, `BoundsAssumption`: a smallest frame fits
into a packet and two packets into the buffer; bounds are natural numbers. `ClockAssumption`: the period is
positive, and the clock stays below what a double holds exactly. `FieldsAssumption`: a
value of a field is a set of bits below its width, that of another message any set of bits.
`FileAssumption`: the arrays of the map have sizes, of any value, also none.
`ShapeAssumption`: the same for the arrays of points, and coordinates are integers of any size.

- `SelfVehicle_proofs`. `FlagFollowsMode` says nothing about the steps inside a
  handler, so it is not inductive. `ModeInv` follows the two locals through the
  handler: `next` is the stored turn state from `UpdateFromCan` on, and the flag
  is the mode of `current` until it is written. `FlagFollowsMode` and
  `FlagMatchesInfo` (that between frames the flag agrees with the turn in the VehicleInfo, which is
  only proved) follow. `SamplesCoherent` is inductive with the types;
  `TurnsEndStraight` needs that a decision that is about to be stored never
  pairs two turns.
- `CandidateSelection_proofs`. Among vehicles that conflict a nearest one exists
  (distances are natural numbers, ids break ties) and only one has this place,
  so `SelectCandidate`, which is defined by CHOOSE, is well defined.
- `CandidateTx_proofs`, the loop alone. `ReportInv` says how the locals remember the history:
  `last_had_candidate` holds whenever a vehicle was reported last, and
  `last_intro_vehicle_id`, unless it is 0, is the vehicle reported and introduced
  last. `IntroducedBeforeReported`, `ReportMatchesSelection` and
  `IdleReportsNobody` follow. `TimingInv` bounds the ticks since each status by
  the elapsed time the loop keeps, except after a start, where the traffic light
  counter is instead ahead of `sinceStart` by half a period. `StatusNeverLate`
  and `LightLateOnlyAfterStart` follow, for all periods. The other threads are
  `EnvStep` throughout, so the results do not depend on what they do.
- `CandidateTx_proofs`, `CandidateLink`. `LinkInv` adds to the loop's invariant that the present
  candidacy is the one `last_intro_vehicle_id` names and is what the RTOS knows unless
  its introduction was refused (`CandidacyMemory`), that conflicts under way are ones the map
  locates (`ConflictMemory`), and when a status can go out at all (`FrameTiming`).
  `IdleBeliefOnlyByRefusedStop` and `KnowsThisCandidacy` follow, for
  every pattern of refusals. `LinkKeepsTx`: with refusals the loop keeps all that it keeps without.
- `CandidateTx_proofs`, `V2xNode`. `NodeInv` joins the invariants of the two threads, with the turns
  the map allows (`TurnsPossible`) and the coherence of the copy the CAN TX thread works on
  (`CopyCoherent`). With it each step of the CAN RX thread is an `EnvStep`, and each of the
  CAN TX thread one that leaves the CAN RX thread's data alone: `TxRefinement` and
  `RxRefinement`, so all that is proved of each thread alone holds of the two together, and the
  environment of `CandidateTx` is shown wide enough for the program's own thread.
  `ZoneAheadCorrect` follows from the coherence of the copy.
- `MqttThread_proofs`. `StaleBounded` is not inductive: between two sweeps ages grow.
  `SweepSchedule` says that an entry is older than the timeout by no more than the
  passes that `cleanup_elapsed` has counted since the last sweep, and that these are
  fewer than a period. `OwnStatusIgnored` and `DroppedIsNotCandidate` follow from the
  single actions that fill the table and clear it, and so do the types (`TypeCorrect`),
  which also say what messages are on their way.
- `Statuses_proofs`, the own status. `Refinement`: every behaviour of `SelfPublish` is one of
  `LatestValue`, with the newest sample read off `info` and the last published one off the history. A
  step of `LatestValue` may not go back, which needs the order in which a
  sample moves: what is published is no later than what is popped, queued and
  sampled (`NodeOrder`), and a reader, the messages on their way to it and the retained
  one are in the order of publication (`BrokerOrder`). `StaleCorrect`: a sample that
  CAN RX holds is as old as it was at the freshness test and the hold-up since, and one that
  saw no lost connection is at most a pass older than it was when it was pushed
  (`AgeBound`), since it is popped in the next pass.
- `Statuses_proofs`, the lights. `LightFramesCorrect`: a status is the last one of its light exactly if it has the number
  of the message that the broker retains, and `LightInv` says of every status on its way - in
  the inbox, the table, the selection and the frame - that it is one whole status of its
  light; the selection that `TxSend` reads is that of the lane `TxCopy` has read. The counter of the
  frame's period stays between one and the period (`TimingInv`).
- `IpcRx_proofs`. `IntactFramesTaken` does not say that the frames taken lie behind
  the buffer, which is what keeps the next one from overlapping them
  (`TakenBehind`); and while the buffer is parsed it holds a read more than
  `HoldBackBounded` allows between polls (`Backlog`). With both, each step only
  moves `start` over positions where no intact frame begins (`SkipKeeps`), or over
  a whole frame.
- `Lifecycle_proofs`. `DestroyedUnused` needs the order of joins (`JoinOrder`), the
  order of starts (`StartOrder`: a thread that is not running when it is joined
  will not be started later) and that the network loop lives inside the loop of the MQTT
  thread (`LoopOwned`). `DeviceHeld` needs that the socket's descriptor is the
  socket's (`Descriptors`), so that the one thread never frees the other's.
- `Algorithms_proofs`, the scan. The loop invariant: `best` is what `NearestOf` chooses
  from the entries below `i`. At the end of the table it is the definition
  (`ScanCorrect`), for every table size.
- `Algorithms_proofs`, time stamps. `StampInv`: the RTOS's clock, the epoch on its way to it and the time in a
  frame are not ahead of the Linux clock as long as they are in step with it. The rest is arithmetic of residues: a
  number below the period that agrees with another one modulo the period is that
  number, and adding the high bits of a later time less than a period away, or one
  period less, restores the whole (`StampsCorrect`).
- `Algorithms_proofs`, fields. A layout in which fields do not overlap and fit the frame
  (`WellLaidOut`) reads back what was packed, whatever the widths of the values; each of the
  program's layouts is one. `FieldsInv` follows a state through frame, message and frame
  (`FieldsCorrect`).
- `Algorithms_proofs`, the map file. `ContextFollowsTheFile` compares a finished map with
  the whole file. `FileInv` says what the map has of the part already read: of areas and lanelets the first
  ones that fit (`AreasKept`, `LaneletsKept`), of the centre the last id (`CenterKept`), and of a
  lane's light that of the element under way if it names the lane, and else that of
  the last one that does (`LightsKept`), which holds only of the first lanelet of an
  id. The centre is then the first stored area with that id, which need not be the last one that
  was declared. `TablesInv` says that nothing is written past a table. Searches return the least or the
  greatest of a set of positions, which exists as numbers are well founded (`MinimumOf`).
  `ContextCorrect` follows, for every file and every size of the tables, with the types.
  The proof asks that the alternatives of a CASE exclude each other.
- `Algorithms_proofs`, the conflicts of a map file. `ConflictsFollowTheFile` compares the answers about a
  finished map with its conflict elements. `ConflictInv` says what the map has of the elements
  read so far: each relation is that of one element, in the order of the file and with the
  participants that are named and fit, none is missing while there is room
  (`KeptGrows`, `ParticipantStored`), and a lane's own list has the zones of the participants
  that name the lane. `BeginElement`, `ParseParticipant` and `ParseAppliesTo` each keep that, also when
  one table is full and the next is not. The query for the zones of a movement is a
  recursive function. What it answers is not shown by induction but by a least
  counterexample: a relation at which the answer is first wrong (`MinimumOf`) has a
  predecessor at which it is right, and one step from there is right too (`FoundSteps`,
  `AnswerGrows`). That a full list has all the zones
  declared for it, when these are no more than fit, is a matter of cardinalities. `ConflictsCorrect` follows, for every file and every
  size of the tables.
- `Algorithms_proofs`, the shape of a lane. `ShapeInv` is the type invariant; the rest is geometry, over all integers.
  `Cross` is twice the area of a triangle, and the ray of `point_in_polygon` crosses a side
  as the signs of one area and two heights say (`Heights`), whichever way the side is walked
  (`SidesTurned`). The three areas that a position spans with the sides of a triangle weigh
  the heights of its corners to zero (`Barycentric`), so where one corner is alone above the
  ray, or alone not above it, exactly one of its two sides is crossed if the position is inside
  (`TriangleHolds`). A convex quadrangle is two triangles along a cut; the ray crosses the cut for
  both or for neither (`FourHolds`). That gives the half-planes, and with them the lost corner
  (`LostCornerShrinks`) and the centre (`CenterInside`). For any number of corners, convex or not, a polygon
  holds a position if it is on a side or the number of crossed sides is odd; turning or reversing the
  order of the corners pairs the sides of one with those of the other
  (`SameSides`), and a cut splits them into two sets, of which one is odd if the
  whole is (`CutHolds`). `LanesCorrect` and `ShapesCorrect` follow, for every file and every position.

Only model-checked:

- Everything temporal beyond invariants, action properties and refinements
  (`SettlesOnTruth`, `DanglingCandidateRepaired`, `RefusalsHeal`, `TurnOverIsTold`,
  `BlockerIsTold`, `GoneIsForgotten`, `LatestReachesBroker`, `LightStatusSettles`,
  `ParserReturns`, `ShutdownCompletes`), as liveness under fairness is out of the prover's
  reach.

## 5. What is not modelled, and the plan

Not modelled, for good:

- JSON as text, the UTC string in a message, which nothing reads back, and the array
  functions of the codec, which have no caller.
- Tracing (`temporal_qos`) and the ISO 8601 functions that only it uses: debug output.
- Mock mode, which prints and simulates a vehicle.
- How an attribute is found in the text of an XML tag, and floating point tolerances.
- The IPC header around a frame that is sent (constant bytes and a checksum).
- The farthest zone that `can_tx_thread.c` puts into the traffic light frame: payload.
- The tools and the test stub, which are not part of the node.
- Functions without a caller: `get_ego`, `traffic_light_manager_get`, the `lane_allows` functions,
  `parse_lane_num`.

The plan has left: the MQTT thread as a third one in `V2xNode`, and convex polygons of more
than four corners, of which only the order of the corners and the cut are stated.
