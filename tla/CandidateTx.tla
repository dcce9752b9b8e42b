---------------------------- MODULE CandidateTx -----------------------------
(***************************************************************************)
(* The CAN TX thread: every tick it looks at the flag, at this vehicle, at *)
(* the connection and at the vehicles around, and decides what to tell the *)
(* RTOS about the candidate vehicle and about the traffic light.           *)
(*                                                                         *)
(* Everything it looks at belongs to other threads.  One tick reads those  *)
(* parts one after the other, each under its own lock, so each read is a   *)
(* step and the others may run in between.  On its own this module lets    *)
(* them change in any way (EnvStep).                                       *)
(***************************************************************************)
EXTENDS CandidateSelection

CONSTANTS
  StatusPeriod,  \* CANDIDATE_STATUS_TX_PERIOD_MS, in ticks of CAN_TX_TICK_MS
  LightPeriod,   \* TRAFFIC_LIGHT_TX_PERIOD_MS, in ticks
  NtpPeriod,     \* NTP_SYNC_TX_PERIOD_MS, in ticks
  SelfInfos,     \* bounds EnvStep: what this vehicle may be
  PeerInfos      \* bounds EnvStep: what another vehicle may announce

ASSUME PeriodAssumption ==
  /\ StatusPeriod \in Nat \ {0}
  /\ LightPeriod \in Nat \ {0, 1}
  /\ NtpPeriod \in Nat \ {0}

ASSUME InfosAssumption == SelfInfos \subseteq VehicleInfos /\ PeerInfos \subseteq VehicleInfos

VARIABLES
  \* read here, written by other threads
  txEnabled,      \* AppContext.candidate_vehicle_tx_enabled
  info, fresh,    \* SelfVehicleManager, as in SelfVehicle
  others,         \* OtherVehicleManager.table, NoInfo where not valid
  connected,      \* MqttHandler.connected
  lights,         \* TrafficLightManager: the ids that are valid
  \* written here
  candidate,      \* OtherVehicleManager.candidate: its id, or NoOne
  lightCandidate, \* TrafficLightManager.candidate_id
  \* locals of can_tx_thread_main
  txPc, active, self, selection, statusDue, lightDue,
  lastActive, lastHad, lastIntro, statusElapsed, lightElapsed, ntpElapsed,
  \* history: what went out, and when
  reported,       \* the last candidate status sent
  introduced,     \* the vehicle introduced since the last status without one
  lightReport,    \* the last traffic light status sent
  sinceStatus,    \* ticks since that candidate status (saturating)
  sinceLight,     \* ticks since that traffic light status (saturating)
  sinceStart      \* ticks since candidate transmission last started (saturating)

inputs == <<txEnabled, info, fresh, others, connected, lights>>
flags == <<active, statusDue, lightDue>>
memory == <<lastActive, lastHad, lastIntro>>
timers == <<statusElapsed, lightElapsed, ntpElapsed>>
history == <<reported, introduced, lightReport>>
quiet == <<sinceStatus, sinceLight, sinceStart>>
vars == <<inputs, candidate, lightCandidate, txPc, flags, self, selection,
          memory, timers, history, quiet>>

Report(kind, id) == [kind |-> kind, id |-> id]
Nothing == Report("nothing", NoVehicle)           \* before the first status
NoCandidate == Report("none", NoVehicle)          \* CANDIDATE_STATUS_TYPE_NONE
Unavailable == Report("unavailable", NoVehicle)   \* CANDIDATE_STATUS_TYPE_COMM_ERROR

Reports == {Nothing, NoCandidate, Unavailable} \cup {Report("vehicle", id) : id \in VehicleIds}
LightReports == {"nothing", "unavailable", "none", "light"}

(***************************************************************************)
(* Elapsed times are only compared with their period and are re-armed when *)
(* a mode starts, so they may saturate there; the code's uint32 counters   *)
(* run on while nothing is sent.                                           *)
(***************************************************************************)
Advance(elapsed, bound) == IF elapsed < bound THEN elapsed + 1 ELSE bound

GetInfo == IF fresh THEN info ELSE NoInfo

\* Mutants: a period that is over is due only a tick later; and a start restarts
\* the traffic light period from its beginning, or past its end.
IsOverdue(elapsed, period) == elapsed > period
LightFromZero == 0
LightPastEnd == LightPeriod + LightPeriod \div 2

IsDue(elapsed, period) == elapsed >= period

\* lightElapsed when candidate transmission starts.
LightRearmed == LightPeriod \div 2

Init ==
  /\ txEnabled = FALSE /\ info = NoInfo /\ fresh = FALSE
  /\ others = [id \in VehicleIds |-> NoInfo]
  /\ connected = FALSE /\ lights = {}
  /\ candidate = NoOne /\ lightCandidate = NoLight
  /\ txPc = "tick"
  /\ active = FALSE /\ statusDue = FALSE /\ lightDue = FALSE
  /\ self = NoInfo /\ selection = NoSelection
  /\ lastActive = FALSE /\ lastHad = FALSE /\ lastIntro = NoVehicle
  /\ statusElapsed = StatusPeriod
  /\ lightElapsed = LightRearmed
  /\ ntpElapsed = NtpPeriod
  /\ reported = Nothing /\ introduced = NoVehicle /\ lightReport = "nothing"
  /\ sinceStatus = 0 /\ sinceLight = 0 /\ sinceStart = 0

-----------------------------------------------------------------------------
(***************************************************************************)
(* Messages.  Every status restarts its period; a status without a vehicle *)
(* withdraws the introduction made before it.                              *)
(***************************************************************************)
SendStatus(report) ==
  /\ reported' = report
  /\ statusElapsed' = 0
  /\ sinceStatus' = 0

SendNone(report) ==
  /\ SendStatus(report)
  /\ introduced' = NoVehicle

SendNothing == UNCHANGED <<reported, introduced, statusElapsed, sinceStatus>>

\* Mutants: OtherVehicleManager keeps the candidate; and the last vehicle
\* introduced is remembered.
ForgetReport ==
  lastIntro' = NoVehicle /\ lastHad' = FALSE /\ UNCHANGED candidate
ForgetUnlessIntroduced ==
  candidate' = NoOne /\ lastHad' = FALSE /\ UNCHANGED lastIntro

ForgetCandidate ==
  candidate' = NoOne /\ lastIntro' = NoVehicle /\ lastHad' = FALSE

(***************************************************************************)
(* The top of a tick: NTP when due, then the flag and what is due.         *)
(***************************************************************************)
BeginTick ==
  /\ txPc = "tick"
  /\ ntpElapsed' = IF IsDue(ntpElapsed, NtpPeriod) THEN 0 ELSE ntpElapsed
  /\ active' = txEnabled
  /\ statusDue' = IsDue(statusElapsed, StatusPeriod)
  /\ lightDue' = IsDue(lightElapsed, LightPeriod)
  /\ txPc' = "snapshot"
  /\ UNCHANGED <<inputs, candidate, lightCandidate, self, selection, memory,
                 statusElapsed, lightElapsed, history, quiet>>

\* Candidate mode is off, or was already on in the last tick.
TakeSnapshot ==
  /\ txPc = "snapshot"
  /\ active => lastActive
  /\ self' = GetInfo
  /\ txPc' = IF active THEN "report" ELSE IF lastActive THEN "stop" ELSE "light"
  /\ UNCHANGED <<inputs, candidate, lightCandidate, flags, selection, memory,
                 timers, history, quiet>>

\* Candidate mode has just been switched on: both periods are re-armed.
StartReporting ==
  /\ txPc = "snapshot"
  /\ active /\ ~lastActive
  /\ self' = GetInfo
  /\ lastActive' = TRUE /\ lastHad' = FALSE /\ lastIntro' = NoVehicle
  /\ statusElapsed' = StatusPeriod
  /\ lightElapsed' = LightRearmed
  /\ statusDue' = TRUE /\ lightDue' = FALSE
  /\ sinceStart' = 0
  /\ txPc' = "report"
  /\ UNCHANGED <<inputs, candidate, lightCandidate, active, selection, ntpElapsed,
                 history, sinceStatus, sinceLight>>

\* Mutant: the end of the mode is told only if a vehicle was reported last.
StopIfReported ==
  /\ txPc = "stop"
  /\ IF lastHad THEN SendNone(NoCandidate) ELSE SendNothing
  /\ ForgetCandidate
  /\ lastActive' = FALSE
  /\ txPc' = "light"
  /\ UNCHANGED <<inputs, lightCandidate, flags, self, selection, lightElapsed,
                 ntpElapsed, lightReport, sinceLight, sinceStart>>

\* Candidate mode has just been switched off: the RTOS is told once.
StopReporting ==
  /\ txPc = "stop"
  /\ SendNone(NoCandidate)
  /\ ForgetCandidate
  /\ lastActive' = FALSE
  /\ txPc' = "light"
  /\ UNCHANGED <<inputs, lightCandidate, flags, self, selection, lightElapsed,
                 ntpElapsed, lightReport, sinceLight, sinceStart>>

(***************************************************************************)
(* No vehicle to report, for one of three reasons.  The status goes out    *)
(* when it is due, or at once if a vehicle was reported before.            *)
(***************************************************************************)

\* Mutant: only a vehicle that was reported is withdrawn, nothing is repeated.
WithdrawOnce == lastHad
Withdraw == statusDue \/ lastHad

ReportNone(report) ==
  /\ IF Withdraw THEN SendNone(report) ELSE SendNothing
  /\ ForgetCandidate
  /\ txPc' = "light"
  /\ UNCHANGED <<inputs, lightCandidate, flags, self, selection, lastActive,
                 lightElapsed, ntpElapsed, lightReport, sinceLight, sinceStart>>

ReportUnavailable == txPc = "report" /\ ~connected /\ ReportNone(Unavailable)

ReportNoSelf == txPc = "report" /\ connected /\ self = NoInfo /\ ReportNone(NoCandidate)

\* Connected, and this vehicle is known: the connection is not looked at again.
SeeConnected ==
  /\ txPc = "report" /\ connected /\ self # NoInfo
  /\ txPc' = "scan"
  /\ UNCHANGED <<inputs, candidate, lightCandidate, flags, self, selection, memory, timers,
                 history, quiet>>

\* select_candidate_vehicle works on a copy of the table made at one moment.
ScanOthers ==
  /\ txPc = "scan"
  /\ selection' = SelectCandidate(self, others)
  /\ txPc' = "scanned"
  /\ UNCHANGED <<inputs, candidate, lightCandidate, flags, self, memory, timers,
                 history, quiet>>

ReportNotFound == txPc = "scanned" /\ ~selection.found /\ ReportNone(NoCandidate)

\* Mutant: a vehicle is new only if nobody was introduced before.
IsFirst(id) == lastIntro = NoVehicle
IsNew(id) == id # lastIntro

ReportCandidate ==
  /\ txPc = "scanned" /\ selection.found
  /\ candidate' = selection.id
  /\ introduced' = IF IsNew(selection.id) THEN selection.id ELSE introduced
  /\ lastIntro' = selection.id
  /\ IF IsNew(selection.id) \/ statusDue
     THEN SendStatus(Report("vehicle", selection.id))
     ELSE UNCHANGED <<reported, statusElapsed, sinceStatus>>
  /\ lastHad' = TRUE
  /\ txPc' = "light"
  /\ UNCHANGED <<inputs, lightCandidate, flags, self, selection, lastActive,
                 lightElapsed, ntpElapsed, lightReport, sinceLight, sinceStart>>

(***************************************************************************)
(* The traffic light status.  Selecting the light and reading it back are  *)
(* two locked calls; only this thread selects, so they are one step.       *)
(***************************************************************************)
SendLight(report) ==
  /\ lightReport' = report
  /\ lightElapsed' = 0
  /\ sinceLight' = 0

SelectedLight ==
  LET light == LinkedLight(self.lane)
  IN  IF light \in lights THEN light ELSE NoLight

ReportLight ==
  /\ txPc = "light"
  /\ txPc' = "sleep"
  /\ \/ /\ ~lightDue
        /\ UNCHANGED <<lightCandidate, lightReport, lightElapsed, sinceLight>>
     \/ /\ lightDue /\ ~connected
        /\ SendLight("unavailable")
        /\ UNCHANGED lightCandidate
     \/ /\ lightDue /\ connected /\ self = NoInfo
        /\ SendLight("none")
        /\ UNCHANGED lightCandidate
     \/ /\ lightDue /\ connected /\ self # NoInfo
        /\ lightCandidate' = SelectedLight
        /\ SendLight(IF SelectedLight = NoLight THEN "none" ELSE "light")
  /\ UNCHANGED <<inputs, candidate, flags, self, selection, memory, statusElapsed,
                 ntpElapsed, reported, introduced, sinceStatus, sinceStart>>

\* One tick passes; the locals of the loop body go out of scope.
Sleep ==
  /\ txPc = "sleep"
  /\ txPc' = "tick"
  /\ statusElapsed' = Advance(statusElapsed, StatusPeriod)
  /\ lightElapsed' = Advance(lightElapsed, LightPeriod)
  /\ ntpElapsed' = Advance(ntpElapsed, NtpPeriod)
  /\ sinceStatus' = Advance(sinceStatus, StatusPeriod + 1)
  /\ sinceLight' = Advance(sinceLight, LightPeriod + 1)
  /\ sinceStart' = Advance(sinceStart, LightPeriod + 1)
  /\ active' = FALSE /\ statusDue' = FALSE /\ lightDue' = FALSE
  /\ self' = NoInfo /\ selection' = NoSelection
  /\ UNCHANGED <<inputs, candidate, lightCandidate, memory, history>>

TxStep ==
  \/ BeginTick \/ TakeSnapshot \/ StartReporting \/ StopReporting
  \/ ReportUnavailable \/ ReportNoSelf \/ SeeConnected
  \/ ScanOthers \/ ReportNotFound \/ ReportCandidate
  \/ ReportLight \/ Sleep

-----------------------------------------------------------------------------
(***************************************************************************)
(* The other threads, as far as this one can see.                          *)
(***************************************************************************)
SwitchMode == txEnabled' = ~txEnabled /\ UNCHANGED <<info, fresh, others, connected, lights>>

UpdateSelf ==
  /\ info' \in SelfInfos /\ fresh' = TRUE
  /\ UNCHANGED <<txEnabled, others, connected, lights>>

LoseSelf == fresh /\ fresh' = FALSE /\ UNCHANGED <<txEnabled, info, others, connected, lights>>

UpdateOther ==
  /\ \E id \in VehicleIds, v \in PeerInfos \cup {NoInfo} : others' = [others EXCEPT ![id] = v]
  /\ UNCHANGED <<txEnabled, info, fresh, connected, lights>>

SwitchConnection == connected' = ~connected /\ UNCHANGED <<txEnabled, info, fresh, others, lights>>

UpdateLight ==
  /\ \E light \in Lights : lights' = lights \cup {light}
  /\ UNCHANGED <<txEnabled, info, fresh, others, connected>>

\* cleanup_stale also forgets the candidate, when it is the vehicle it drops.
ForgetDropped ==
  candidate' = IF candidate \in VehicleIds /\ others'[candidate] = NoInfo
                  /\ others[candidate] # NoInfo
               THEN NoOne ELSE candidate

EnvStep ==
  /\ SwitchMode \/ UpdateSelf \/ LoseSelf \/ UpdateOther \/ SwitchConnection \/ UpdateLight
  /\ ForgetDropped
  /\ UNCHANGED <<lightCandidate, txPc, flags, self, selection, memory, timers, history, quiet>>

Next == TxStep \/ EnvStep

\* The TX thread never waits for anything but its own sleep.
Spec == Init /\ [][Next]_vars /\ WF_vars(TxStep)

-----------------------------------------------------------------------------
(***************************************************************************)
(* Properties.                                                             *)
(***************************************************************************)

\* Every variable keeps to the values its C counterpart can hold.
TypeOK ==
  /\ txEnabled \in BOOLEAN /\ fresh \in BOOLEAN /\ connected \in BOOLEAN
  /\ info \in VehicleInfos \cup {NoInfo}
  /\ others \in Tables
  /\ lights \in SUBSET Lights
  /\ candidate \in VehicleIds \cup {NoOne}
  /\ lightCandidate \in Lights \cup {NoLight}
  /\ txPc \in {"tick", "snapshot", "stop", "report", "scan", "scanned", "light", "sleep"}
  /\ active \in BOOLEAN /\ statusDue \in BOOLEAN /\ lightDue \in BOOLEAN
  /\ self \in VehicleInfos \cup {NoInfo}
  /\ txPc \in {"scan", "scanned"} => self # NoInfo
  /\ selection \in Selections
  /\ lastActive \in BOOLEAN /\ lastHad \in BOOLEAN
  /\ lastIntro \in VehicleIds \cup {NoVehicle}
  /\ statusElapsed \in 0..StatusPeriod
  /\ lightElapsed \in 0..LightPeriod
  /\ ntpElapsed \in 0..NtpPeriod
  /\ reported \in Reports
  /\ introduced \in VehicleIds \cup {NoVehicle}
  /\ lightReport \in LightReports
  /\ sinceStatus \in 0..StatusPeriod + 1
  /\ sinceLight \in 0..LightPeriod + 1
  /\ sinceStart \in 0..LightPeriod + 1

\* A status about a vehicle follows an introduction of that vehicle, with no
\* "none" or "unavailable" in between: across vehicle changes, lost
\* connections, expired data and mode changes the RTOS always knows which
\* conflict the positions belong to.  Vehicle id 0 is excepted: it is the value
\* last_intro_vehicle_id uses for "nobody".
IntroducedBeforeReported ==
  (reported.kind = "vehicle" /\ reported.id # NoVehicle) => introduced = reported.id

\* At the end of each tick the last status sent names a vehicle exactly when
\* this tick selected one, and then that one: a new, changed or vanished
\* candidate never waits for the status period.  A selected vehicle with id 0 is
\* excepted: it does wait, as it does not look new to last_intro_vehicle_id.
ReportMatchesSelection ==
  txPc = "sleep" =>
    IF selection.found THEN selection.id # NoVehicle => reported = Report("vehicle", selection.id)
                       ELSE reported.kind # "vehicle"

\* While candidate transmission is off the RTOS is not left believing in a
\* vehicle, and OtherVehicleManager keeps no candidate.
IdleReportsNobody ==
  ~lastActive => (reported.kind # "vehicle" /\ candidate = NoOne)

\* While candidate transmission is on, no two candidate statuses are more than
\* one period apart, counted in ticks, however the branches of the loop and
\* the mode alternate.
StatusNeverLate ==
  (lastActive /\ txPc \in {"light", "sleep", "tick"}) => sinceStatus <= StatusPeriod

\* A traffic light status is late only while candidate transmission has started
\* recently: starting re-arms the period to its half, so it can put off the
\* next status, but only for half a period after the last start.
LightLateOnlyAfterStart ==
  txPc = "tick" =>
    \/ sinceLight <= LightPeriod
    \/ sinceStart <= LightPeriod - LightPeriod \div 2

\* What the RTOS should be told, given what the threads know now.
Wanted ==
  IF ~connected THEN Unavailable
  ELSE IF GetInfo = NoInfo THEN NoCandidate
  ELSE LET chosen == SelectCandidate(GetInfo, others)
       IN  IF chosen.found THEN Report("vehicle", chosen.id) ELSE NoCandidate

WantedLight ==
  IF ~connected THEN "unavailable"
  ELSE IF GetInfo = NoInfo \/ LinkedLight(GetInfo.lane) \notin lights THEN "none" ELSE "light"

Settled ==
  /\ IF txEnabled THEN reported = Wanted ELSE reported.kind # "vehicle"
  /\ lightReport = WantedLight

\* Whatever happened before, once the world stops changing the RTOS is told the
\* truth about the candidate and the traffic light and keeps being told so.
SettlesOnTruth == <>[][FALSE]_inputs => <>[]Settled

\* select_candidate_vehicle copies the table and sets the candidate later, so a
\* vehicle dropped in between comes back as the candidate; it does not stay.
DanglingCandidateRepaired ==
  \A id \in VehicleIds :
    (candidate = id /\ others[id] = NoInfo) ~> ~(candidate = id /\ others[id] = NoInfo)
=============================================================================
