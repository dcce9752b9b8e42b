------------------------ MODULE CandidateTx_proofs --------------------------
(***************************************************************************)
(* What the CAN TX thread reports, and when, for every map, every set of   *)
(* vehicle ids, all periods and every behaviour of the other threads.      *)
(***************************************************************************)
EXTENDS CandidateLink, V2xNode, CandidateSelection_proofs

\* Elapsed times stay below their bound and move by at most one.
LEMMA AdvanceType ==
  ASSUME NEW bound \in Nat, NEW elapsed \in 0..bound
  PROVE  /\ Advance(elapsed, bound) \in 0..bound
         /\ Advance(elapsed, bound) <= elapsed + 1
         /\ elapsed < bound => Advance(elapsed, bound) = elapsed + 1
BY DEF Advance

\* Half a traffic light period is shorter than the whole.
LEMMA HalfPeriod == LightPeriod \div 2 \in 0..LightPeriod /\ LightPeriod \div 2 < LightPeriod
BY PeriodAssumption

\* A counter that is bounded by an elapsed time stays bounded when both advance.
LEMMA StaysBounded ==
  ASSUME NEW h \in Nat, NEW a \in Nat, NEW b \in Nat, NEW c \in Nat, b <= a + 1, h + a <= c
  PROVE  h + b <= c + 1
OBVIOUS

\* What the assumptions on the periods give the arithmetic below.
LEMMA PeriodTypes ==
  /\ StatusPeriod \in Nat /\ LightPeriod \in Nat /\ NtpPeriod \in Nat
  /\ 0 < StatusPeriod /\ 0 < LightPeriod /\ 0 < NtpPeriod
  /\ StatusPeriod + 1 \in Nat /\ LightPeriod + 1 \in Nat
BY PeriodAssumption

\* The three ways to have nobody to report keep to the types.
LEMMA ReportNoneType ==
  ASSUME TypeOK, NEW report \in {NoCandidate, Unavailable}, ReportNone(report)
  PROVE  TypeOK'
<1>1. /\ statusElapsed' \in 0..StatusPeriod /\ sinceStatus' \in 0..StatusPeriod + 1
      /\ reported' \in Reports /\ introduced' \in VehicleIds \cup {NoVehicle}
  <2>1. CASE statusDue \/ lastHad
    BY <2>1, PeriodTypes DEF ReportNone, Withdraw, SendNone, SendStatus, Reports, TypeOK
  <2>2. CASE ~(statusDue \/ lastHad)
    BY <2>2 DEF ReportNone, Withdraw, SendNothing, TypeOK
  <2> QED
    BY <2>1, <2>2
<1>2. /\ candidate' = NoOne /\ lastIntro' = NoVehicle /\ lastHad' = FALSE /\ txPc' = "light"
      /\ UNCHANGED <<inputs, lightCandidate, flags, self, selection, lastActive,
                     lightElapsed, ntpElapsed, lightReport, sinceLight, sinceStart>>
  BY DEF ReportNone, ForgetCandidate
<1> QED
  BY <1>1, <1>2 DEF TypeOK, inputs, flags

\* What the other threads do keeps to the types.
LEMMA EnvStepType ==
  ASSUME TypeOK, EnvStep
  PROVE  TypeOK'
<1>1. /\ txEnabled' \in BOOLEAN /\ fresh' \in BOOLEAN /\ connected' \in BOOLEAN
      /\ info' \in VehicleInfos \cup {NoInfo} /\ others' \in Tables /\ lights' \in SUBSET Lights
  <2>1. CASE SwitchMode
    BY <2>1 DEF SwitchMode, TypeOK
  <2>2. CASE UpdateSelf
    BY <2>2, InfosAssumption DEF UpdateSelf, TypeOK
  <2>3. CASE LoseSelf
    BY <2>3 DEF LoseSelf, TypeOK
  <2>4. CASE UpdateOther
    <3>1. PICK id \in VehicleIds, v \in PeerInfos \cup {NoInfo} :
            others' = [others EXCEPT ![id] = v]
      BY <2>4 DEF UpdateOther
    <3>2. others' \in Tables
      BY <3>1, InfosAssumption DEF Tables, TypeOK
    <3> QED
      BY <2>4, <3>2 DEF UpdateOther, TypeOK
  <2>5. CASE SwitchConnection
    BY <2>5 DEF SwitchConnection, TypeOK
  <2>6. CASE UpdateLight
    BY <2>6 DEF UpdateLight, TypeOK
  <2> QED
    BY <2>1, <2>2, <2>3, <2>4, <2>5, <2>6 DEF EnvStep
<1>2. candidate' \in VehicleIds \cup {NoOne}
  BY DEF EnvStep, ForgetDropped, TypeOK
<1>3. UNCHANGED <<lightCandidate, txPc, flags, self, selection, memory, timers, history, quiet>>
  BY DEF EnvStep
<1> QED
  BY <1>1, <1>2, <1>3 DEF TypeOK, flags, memory, timers, history, quiet

\* Every variable has its type when the threads start.
LEMMA InitType == Init => TypeOK
<1> SUFFICES ASSUME Init PROVE TypeOK
  OBVIOUS
<1>1. others \in Tables
  BY DEF Init, Tables
<1>2. reported \in Reports /\ lightReport \in LightReports /\ selection \in Selections
  BY DEF Init, Reports, LightReports, NoSelection, Selections
<1>3. /\ statusElapsed \in 0..StatusPeriod /\ lightElapsed \in 0..LightPeriod
      /\ ntpElapsed \in 0..NtpPeriod /\ sinceStatus \in 0..StatusPeriod + 1
      /\ sinceLight \in 0..LightPeriod + 1 /\ sinceStart \in 0..LightPeriod + 1
  BY PeriodTypes, HalfPeriod DEF Init, LightRearmed
<1> QED
  BY <1>1, <1>2, <1>3 DEF Init, TypeOK

\* Every step of the TX thread and of the others keeps the types.
LEMMA StepType == TypeOK /\ [Next]_vars => TypeOK'
<1> SUFFICES ASSUME TypeOK, [Next]_vars PROVE TypeOK'
  OBVIOUS
<1> USE DEF inputs, flags, memory, timers, history, quiet
<1>1. CASE BeginTick
  <2>1. /\ (statusElapsed >= StatusPeriod) \in BOOLEAN
        /\ (lightElapsed >= LightPeriod) \in BOOLEAN
    OBVIOUS
  <2>2. statusDue' \in BOOLEAN /\ lightDue' \in BOOLEAN
    BY <1>1, <2>1, Zenon DEF BeginTick, IsDue
  <2>3. ntpElapsed' \in 0..NtpPeriod
    BY <1>1, PeriodTypes DEF BeginTick, TypeOK
  <2>4. /\ active' = txEnabled /\ txPc' = "snapshot"
        /\ UNCHANGED <<inputs, candidate, lightCandidate, self, selection, memory,
                       statusElapsed, lightElapsed, history, quiet>>
    BY <1>1 DEF BeginTick
  <2> QED
    BY <2>2, <2>3, <2>4 DEF TypeOK
<1>2. CASE TakeSnapshot
  BY <1>2 DEF TakeSnapshot, TypeOK, GetInfo
<1>3. CASE StartReporting
  <2>1. /\ statusElapsed' \in 0..StatusPeriod /\ lightElapsed' \in 0..LightPeriod
        /\ sinceStart' \in 0..LightPeriod + 1
    BY <1>3, PeriodTypes, HalfPeriod DEF StartReporting, LightRearmed
  <2> QED
    BY <1>3, <2>1 DEF StartReporting, TypeOK, GetInfo
<1>4. CASE StopReporting
  <2>1. /\ statusElapsed' \in 0..StatusPeriod /\ sinceStatus' \in 0..StatusPeriod + 1
        /\ reported' \in Reports
    BY <1>4, PeriodTypes DEF StopReporting, SendNone, SendStatus, Reports
  <2> QED
    BY <1>4, <2>1 DEF StopReporting, ForgetCandidate, SendNone, TypeOK
<1>5. CASE ReportUnavailable \/ ReportNoSelf \/ ReportNotFound
  BY <1>5, ReportNoneType DEF ReportUnavailable, ReportNoSelf, ReportNotFound
<1>6. CASE SeeConnected
  BY <1>6 DEF SeeConnected, TypeOK
<1>7. CASE ScanOthers
  <2>1. selection' \in Selections
    BY <1>7, SelectionType DEF ScanOthers, TypeOK
  <2> QED
    BY <1>7, <2>1 DEF ScanOthers, TypeOK
<1>8. CASE ReportCandidate
  <2>1. selection.id \in VehicleIds
    BY <1>8, FoundId DEF ReportCandidate, TypeOK
  <2>2. /\ statusElapsed' \in 0..StatusPeriod /\ sinceStatus' \in 0..StatusPeriod + 1
        /\ reported' \in Reports
    BY <1>8, <2>1, PeriodTypes DEF ReportCandidate, SendStatus, Reports, TypeOK
  <2>3. introduced' \in VehicleIds \cup {NoVehicle}
    BY <1>8, <2>1 DEF ReportCandidate, TypeOK
  <2> QED
    BY <1>8, <2>1, <2>2, <2>3 DEF ReportCandidate, TypeOK
<1>9. CASE ReportLight
  <2>1. lightCandidate' \in Lights \cup {NoLight} /\ lightReport' \in LightReports
    BY <1>9 DEF ReportLight, SendLight, SelectedLight, LightReports, TypeOK
  <2>2. lightElapsed' \in 0..LightPeriod /\ sinceLight' \in 0..LightPeriod + 1
    BY <1>9, PeriodTypes DEF ReportLight, SendLight, TypeOK
  <2> QED
    BY <1>9, <2>1, <2>2 DEF ReportLight, TypeOK
<1>10. CASE Sleep
  <2>1. /\ statusElapsed' \in 0..StatusPeriod /\ lightElapsed' \in 0..LightPeriod
        /\ ntpElapsed' \in 0..NtpPeriod /\ sinceStatus' \in 0..StatusPeriod + 1
        /\ sinceLight' \in 0..LightPeriod + 1 /\ sinceStart' \in 0..LightPeriod + 1
    BY <1>10, AdvanceType, PeriodTypes DEF Sleep, TypeOK
  <2>2. selection' \in Selections
    BY <1>10 DEF Sleep, NoSelection, Selections
  <2> QED
    BY <1>10, <2>1, <2>2 DEF Sleep, TypeOK
<1>11. CASE EnvStep
  BY <1>11, EnvStepType
<1>12. CASE UNCHANGED vars
  BY <1>12 DEF vars, TypeOK
<1> QED
  BY <1>1, <1>2, <1>3, <1>4, <1>5, <1>7, <1>8, <1>9, <1>10, <1>11, <1>12, <1>6
  DEF Next, TxStep

\* Every variable keeps to its type (can_tx_thread_main and what it shares).
THEOREM TypeCorrect == Spec => []TypeOK
BY InitType, StepType, PTL DEF Spec

-----------------------------------------------------------------------------
(***************************************************************************)
(* What is reported.  The safety properties compare the history of what    *)
(* was sent with the state at certain points of the tick.  The loop knows  *)
(* that history only through last_had_candidate and last_intro_vehicle_id, *)
(* so the invariant ties those two to it at every point.                   *)
(***************************************************************************)
ModeMemory ==
  /\ lastHad => lastActive
  /\ txPc \in {"stop", "report", "scan", "scanned"} => lastActive
  /\ candidate # NoOne => lastHad

ReportMemory ==
  /\ reported.kind = "vehicle" => lastHad
  /\ lastIntro # NoVehicle =>
       lastHad /\ reported = Report("vehicle", lastIntro) /\ introduced = lastIntro
  /\ (reported.kind = "vehicle" /\ reported.id # NoVehicle) => lastIntro = reported.id

SelectionMemory ==
  /\ txPc \in {"light", "sleep"} =>
       (lastHad <=> selection.found) /\ (selection.found => lastIntro = selection.id)
  /\ txPc \in {"tick", "snapshot", "stop", "report", "scan"} => selection = NoSelection

ReportInv == TypeOK /\ ModeMemory /\ ReportMemory /\ SelectionMemory

\* Having nobody to report keeps the invariant, whether or not a status is due.
LEMMA ReportNoneKeeps ==
  ASSUME ReportInv, NEW report \in {NoCandidate, Unavailable}, ReportNone(report),
         lastActive, ~selection.found
  PROVE  ModeMemory' /\ ReportMemory' /\ SelectionMemory'
<1>1. /\ candidate' = NoOne /\ lastIntro' = NoVehicle /\ lastHad' = FALSE /\ txPc' = "light"
      /\ lastActive' = lastActive /\ selection' = selection
  BY DEF ReportNone, ForgetCandidate
<1>2. reported'.kind # "vehicle"
  <2>1. CASE statusDue \/ lastHad
    BY <2>1 DEF ReportNone, Withdraw, SendNone, SendStatus, NoCandidate, Unavailable, Report
  <2>2. CASE ~(statusDue \/ lastHad)
    BY <2>2 DEF ReportNone, Withdraw, SendNothing, ReportInv, ReportMemory
  <2> QED
    BY <2>1, <2>2
<1> QED
  BY <1>1, <1>2 DEF ModeMemory, ReportMemory, SelectionMemory

\* The invariant holds when the threads start.
LEMMA InitReport == Init => ReportInv
BY InitType
DEF ReportInv, Init, ModeMemory, ReportMemory, SelectionMemory, Nothing, Report

\* Every step keeps it.
LEMMA StepReport == ReportInv /\ [Next]_vars => ReportInv'
<1> SUFFICES ASSUME ReportInv, [Next]_vars
             PROVE  ModeMemory' /\ ReportMemory' /\ SelectionMemory'
  BY StepType DEF ReportInv
<1> USE DEF ReportInv
<1>0. NoSelection.found = FALSE
  BY DEF NoSelection
<1>1. CASE BeginTick
  BY <1>1 DEF BeginTick, memory, history, ModeMemory, ReportMemory, SelectionMemory
<1>2. CASE TakeSnapshot
  BY <1>0, <1>2 DEF TakeSnapshot, memory, history, ModeMemory, ReportMemory, SelectionMemory
<1>3. CASE StartReporting
  BY <1>3 DEF StartReporting, history, ModeMemory, ReportMemory, SelectionMemory
<1>4. CASE StopReporting
  <2>1. reported'.kind # "vehicle"
    BY <1>4 DEF StopReporting, SendNone, SendStatus, NoCandidate, Report
  <2> QED
    BY <1>0, <1>4, <2>1
    DEF StopReporting, ForgetCandidate, ModeMemory, ReportMemory, SelectionMemory
<1>5. CASE ReportUnavailable \/ ReportNoSelf \/ ReportNotFound
  <2>1. lastActive /\ ~selection.found
    BY <1>0, <1>5
    DEF ReportUnavailable, ReportNoSelf, ReportNotFound, ModeMemory, SelectionMemory
  <2> QED
    BY <1>5, <2>1, ReportNoneKeeps DEF ReportUnavailable, ReportNoSelf, ReportNotFound
<1>6. CASE SeeConnected
  BY <1>6 DEF SeeConnected, memory, history, ModeMemory, ReportMemory, SelectionMemory
<1>7. CASE ScanOthers
  BY <1>7 DEF ScanOthers, memory, history, ModeMemory, ReportMemory, SelectionMemory
<1>8. CASE ReportCandidate
  <2> DEFINE id == selection.id
  <2>1. /\ selection.found /\ lastHad' = TRUE /\ lastIntro' = id /\ txPc' = "light"
        /\ lastActive' = lastActive /\ selection' = selection
    BY <1>8 DEF ReportCandidate
  <2>2. ModeMemory' /\ SelectionMemory'
    BY <1>8, <2>1 DEF ReportCandidate, ModeMemory, SelectionMemory
  <2>3. ReportMemory'
    <3>1. CASE id # lastIntro
      BY <1>8, <2>1, <3>1 DEF ReportCandidate, IsNew, SendStatus, ReportMemory, Report
    <3>2. CASE id = lastIntro /\ statusDue
      BY <1>8, <2>1, <3>2 DEF ReportCandidate, SendStatus, ReportMemory, Report
    <3>3. CASE id = lastIntro /\ ~statusDue
      BY <1>8, <2>1, <3>3 DEF ReportCandidate, IsNew, ReportMemory
    <3> QED
      BY <3>1, <3>2, <3>3
  <2> QED
    BY <2>2, <2>3
<1>9. CASE ReportLight
  BY <1>9 DEF ReportLight, memory, ModeMemory, ReportMemory, SelectionMemory
<1>10. CASE Sleep
  BY <1>10 DEF Sleep, memory, history, ModeMemory, ReportMemory, SelectionMemory
<1>11. CASE EnvStep
  BY <1>11 DEF EnvStep, ForgetDropped, memory, history, ModeMemory, ReportMemory, SelectionMemory
<1>12. CASE UNCHANGED vars
  BY <1>12 DEF vars, memory, history, ModeMemory, ReportMemory, SelectionMemory
<1> QED
  BY <1>1, <1>2, <1>3, <1>4, <1>5, <1>7, <1>8, <1>9, <1>10, <1>11, <1>12, <1>6
  DEF Next, TxStep

-----------------------------------------------------------------------------
(***************************************************************************)
(* When it is reported.  The counters since the last statuses are bounded  *)
(* by the elapsed times the loop keeps, except after a start has re-armed  *)
(* those; what is due was computed from the elapsed times of this tick.    *)
(***************************************************************************)
StatusTiming ==
  /\ txPc \in {"snapshot", "report", "scan", "scanned"} =>
       (statusDue <=> statusElapsed >= StatusPeriod)
  /\ (lastActive /\ txPc \in {"light", "sleep"}) => statusElapsed < StatusPeriod
  /\ (lastActive /\ ~(txPc \in {"report", "scan", "scanned"} /\ statusDue)) =>
       sinceStatus <= statusElapsed

LightTiming ==
  /\ txPc \in {"snapshot", "stop", "report", "scan", "scanned", "light"} =>
       (lightDue <=> lightElapsed >= LightPeriod)
  /\ txPc = "sleep" => lightElapsed < LightPeriod
  /\ \/ sinceLight <= lightElapsed
     \/ (LightPeriod \div 2) + sinceStart <= lightElapsed

\* What was due and how long ago the last candidate status went out stays in step
\* with the elapsed time.
LEMMA StatusTimingStep == TypeOK /\ ModeMemory /\ StatusTiming /\ TypeOK' /\ [Next]_vars => StatusTiming'
<1> SUFFICES ASSUME TypeOK, ModeMemory, StatusTiming, TypeOK', [Next]_vars
             PROVE  StatusTiming'
  OBVIOUS
<1> USE DEF StatusTiming
<1>0. /\ statusElapsed \in Nat /\ sinceStatus \in Nat
      /\ StatusPeriod \in Nat /\ 0 < StatusPeriod
  BY PeriodTypes DEF TypeOK
<1>1. CASE BeginTick
  BY <1>0, <1>1 DEF BeginTick, IsDue, memory, quiet
<1>2. CASE TakeSnapshot
  BY <1>2 DEF TakeSnapshot, flags, memory, timers, quiet
<1>3. CASE StartReporting
  BY <1>0, <1>3 DEF StartReporting
<1>4. CASE StopReporting
  BY <1>4 DEF StopReporting
<1>5. CASE ReportUnavailable \/ ReportNoSelf \/ ReportNotFound
  <2>1. PICK report : ReportNone(report)
    BY <1>5 DEF ReportUnavailable, ReportNoSelf, ReportNotFound
  <2>2. txPc \in {"report", "scanned"} /\ txPc' = "light"
    BY <1>5, <2>1 DEF ReportUnavailable, ReportNoSelf, ReportNotFound, ReportNone
  <2>3. CASE statusDue \/ lastHad
    BY <1>0, <2>1, <2>2, <2>3 DEF ReportNone, Withdraw, SendNone, SendStatus
  <2>4. CASE ~(statusDue \/ lastHad)
    BY <1>0, <2>1, <2>2, <2>4 DEF ReportNone, Withdraw, SendNothing, ModeMemory
  <2> QED
    BY <2>3, <2>4
<1>6. CASE SeeConnected
  BY <1>6 DEF SeeConnected, flags, memory, timers, quiet
<1>7. CASE ScanOthers
  BY <1>7 DEF ScanOthers, flags, memory, timers, quiet
<1>8. CASE ReportCandidate
  BY <1>0, <1>8 DEF ReportCandidate, SendStatus, ModeMemory
<1>9. CASE ReportLight
  BY <1>9 DEF ReportLight, memory
<1>10. CASE Sleep
  <2>1. CASE lastActive
    <3>1. statusElapsed' = statusElapsed + 1 /\ sinceStatus' <= sinceStatus + 1
      BY <1>10, <2>1, AdvanceType, PeriodTypes DEF Sleep, TypeOK
    <3> QED
      BY <1>0, <1>10, <2>1, <3>1 DEF Sleep, memory, TypeOK
  <2>2. CASE ~lastActive
    BY <1>10, <2>2 DEF Sleep, memory
  <2> QED
    BY <2>1, <2>2
<1>11. CASE EnvStep
  BY <1>11 DEF EnvStep, flags, memory, timers, quiet
<1>12. CASE UNCHANGED vars
  BY <1>12 DEF vars, flags, memory, timers, quiet
<1> QED
  BY <1>1, <1>2, <1>3, <1>4, <1>5, <1>7, <1>8, <1>9, <1>10, <1>11, <1>12, <1>6
  DEF Next, TxStep

\* So does the traffic light, also across a start.
LEMMA LightTimingStep == TypeOK /\ LightTiming /\ TypeOK' /\ [Next]_vars => LightTiming'
<1> DEFINE half == LightPeriod \div 2
<1> SUFFICES ASSUME TypeOK, LightTiming, TypeOK', [Next]_vars
             PROVE  LightTiming'
  OBVIOUS
<1>0. /\ lightElapsed \in Nat /\ sinceLight \in Nat /\ sinceStart \in Nat
      /\ LightPeriod \in Nat /\ 0 < LightPeriod
      /\ half \in Nat /\ half < LightPeriod
  BY PeriodTypes, HalfPeriod DEF TypeOK
<1> HIDE DEF half
<1> USE DEF LightTiming
<1>1. CASE BeginTick
  BY <1>1 DEF BeginTick, IsDue, quiet
<1>2. CASE TakeSnapshot
  BY <1>2 DEF TakeSnapshot, flags, timers, quiet
<1>3. CASE StartReporting
  BY <1>0, <1>3 DEF StartReporting, LightRearmed, half
<1>4. CASE StopReporting
  BY <1>4 DEF StopReporting, flags
<1>5. CASE ReportUnavailable \/ ReportNoSelf \/ ReportNotFound
  BY <1>5 DEF ReportUnavailable, ReportNoSelf, ReportNotFound, ReportNone, flags
<1>6. CASE SeeConnected
  BY <1>6 DEF SeeConnected, flags, timers, quiet
<1>7. CASE ScanOthers
  BY <1>7 DEF ScanOthers, flags, timers, quiet
<1>8. CASE ReportCandidate
  BY <1>8 DEF ReportCandidate, flags
<1>9. CASE ReportLight
  BY <1>0, <1>9 DEF ReportLight, SendLight
<1>10. CASE Sleep
  <2>1. /\ lightElapsed' = lightElapsed + 1
        /\ sinceLight' <= sinceLight + 1 /\ sinceStart' <= sinceStart + 1
        /\ txPc' = "tick"
    BY <1>10, AdvanceType, PeriodTypes DEF Sleep, TypeOK
  <2>2. sinceLight' \in Nat /\ sinceStart' \in Nat
    BY DEF TypeOK
  <2>3. sinceLight <= lightElapsed \/ half + sinceStart <= lightElapsed
    BY DEF half
  <2>4. sinceLight' <= lightElapsed' \/ half + sinceStart' <= lightElapsed'
    <3>1. CASE sinceLight <= lightElapsed
      <4>1. sinceLight' <= lightElapsed + 1
        BY <1>0, <2>1, <2>2, <3>1
      <4> QED
        BY <2>1, <4>1
    <3>2. CASE half + sinceStart <= lightElapsed
      <4>1. half + sinceStart' <= lightElapsed + 1
        BY <1>0, <2>1, <2>2, <3>2, StaysBounded
      <4> QED
        BY <2>1, <4>1
    <3> QED
      BY <2>3, <3>1, <3>2
  <2> QED
    BY <2>1, <2>4 DEF half
<1>11. CASE EnvStep
  BY <1>11 DEF EnvStep, flags, timers, quiet
<1>12. CASE UNCHANGED vars
  BY <1>12 DEF vars, flags, timers, quiet
<1> QED
  BY <1>1, <1>2, <1>3, <1>4, <1>5, <1>7, <1>8, <1>9, <1>10, <1>11, <1>12, <1>6
  DEF Next, TxStep

\* Both together, of which nothing but the steps of Next is asked, so that they hold in
\* every composition whose steps are steps of Next.
TxInv == ReportInv /\ StatusTiming /\ LightTiming

\* The joint invariant holds when the threads start.
LEMMA InitTx == Init => TxInv
<1>1. Init => StatusTiming /\ LightTiming
  BY HalfPeriod, PeriodTypes DEF Init, LightRearmed, StatusTiming, LightTiming
<1> QED
  BY <1>1, InitReport DEF TxInv

\* Every step keeps it.
LEMMA StepTx == TxInv /\ [Next]_vars => TxInv'
<1>1. TxInv => TypeOK /\ ModeMemory /\ ReportInv
  BY DEF TxInv, ReportInv
<1>2. TxInv /\ [Next]_vars => ReportInv' /\ TypeOK'
  BY StepReport, StepType, <1>1
<1> QED
  BY <1>1, <1>2, StatusTimingStep, LightTimingStep DEF TxInv

\* The joint invariant holds of every behaviour.
THEOREM TxInvariant == Spec => []TxInv
BY InitTx, StepTx, PTL DEF Spec

\* What the invariant says at the moments the properties are about.
LEMMA TxProperties ==
  TxInv => /\ IntroducedBeforeReported /\ ReportMatchesSelection /\ IdleReportsNobody
           /\ StatusNeverLate /\ LightLateOnlyAfterStart
<1> SUFFICES ASSUME TxInv
             PROVE  /\ IntroducedBeforeReported /\ ReportMatchesSelection /\ IdleReportsNobody
                    /\ StatusNeverLate /\ LightLateOnlyAfterStart
  OBVIOUS
<1> USE DEF TxInv, ReportInv
<1>1. IntroducedBeforeReported
  BY DEF ReportMemory, IntroducedBeforeReported
<1>2. ReportMatchesSelection
  BY DEF ReportMemory, SelectionMemory, ReportMatchesSelection
<1>3. IdleReportsNobody
  BY DEF ModeMemory, ReportMemory, IdleReportsNobody
<1>4. StatusNeverLate
  BY PeriodTypes DEF StatusTiming, StatusNeverLate, TypeOK
<1>5. LightLateOnlyAfterStart
  <2> DEFINE half == LightPeriod \div 2
  <2> SUFFICES ASSUME txPc = "tick"
               PROVE  sinceLight <= LightPeriod \/ sinceStart <= LightPeriod - half
    BY DEF LightLateOnlyAfterStart
  <2>1. /\ lightElapsed \in Nat /\ lightElapsed <= LightPeriod
        /\ sinceLight \in Nat /\ sinceStart \in Nat
        /\ LightPeriod \in Nat /\ half \in Nat
    BY PeriodTypes, HalfPeriod DEF TypeOK
  <2>2. sinceLight <= lightElapsed \/ half + sinceStart <= lightElapsed
    BY DEF LightTiming
  <2> HIDE DEF half
  <2> QED
    BY <2>1, <2>2
<1> QED
  BY <1>1, <1>2, <1>3, <1>4, <1>5

\* No status about a vehicle without its introduction (can_tx_thread.c:340-348).
THEOREM IntroducedCorrect == Spec => []IntroducedBeforeReported
BY TxInvariant, TxProperties, PTL

\* Each tick ends with the RTOS told of this tick's candidate, or of nobody.
THEOREM ReportMatchesCorrect == Spec => []ReportMatchesSelection
BY TxInvariant, TxProperties, PTL

\* Nobody is reported or kept as the candidate while transmission is off.
THEOREM IdleCorrect == Spec => []IdleReportsNobody
BY TxInvariant, TxProperties, PTL

\* While transmission is on a candidate status is never later than its period
\* (can_tx_thread.c:271, 301-373), for every period and order of branches.
THEOREM StatusCorrect == Spec => []StatusNeverLate
BY TxInvariant, TxProperties, PTL

\* The traffic light status is late only within half a period of a start.
THEOREM LightCorrect == Spec => []LightLateOnlyAfterStart
BY TxInvariant, TxProperties, PTL

-----------------------------------------------------------------------------
(***************************************************************************)
(* With a device that refuses frames (CandidateLink).  Its steps are steps *)
(* of Next, so TxInv holds there too.  To know what a refused frame leaves *)
(* behind, the invariant says when a status can go out at all (the time    *)
(* since the last one is not zero), that the present candidacy is the one  *)
(* that last_intro_vehicle_id names, and that every conflict under way is  *)
(* one that the map locates.                                               *)
(***************************************************************************)
FrameTiming == txPc \notin {"light", "sleep"} => statusElapsed # 0

CandidacyMemory ==
  /\ candidacy.id = lastIntro
  /\ (candidacy.id # NoVehicle /\ ~introRefused) => known = candidacy

IsConflict(c) == c.zone \in LocatedZones /\ c.mask \in {1, 2, 4, 8}

ConflictMemory ==
  /\ selection.found => IsConflict(conflict)
  /\ candidacy.id # NoVehicle => IsConflict(candidacy.conflict)
  /\ known.id # NoVehicle => IsConflict(known.conflict)

LinkInv ==
  TxInv /\ FrameTiming /\ IdleBeliefOnlyByRefusedStop /\ CandidacyMemory /\ ConflictMemory

\* A step with the device is a step of the TX thread alone.
LEMMA LinkIsTx == [LinkNext]_linkVars => [Next]_vars
BY DEF LinkNext, LinkTxStep, LinkEnvStep, linkVars, Next

\* No status can be mistaken for an earlier one: whatever sends one does so when
\* some time has passed since the last.
LEMMA FrameTimingStep == TypeOK /\ FrameTiming /\ [Next]_vars => FrameTiming'
<1> SUFFICES ASSUME TypeOK, FrameTiming, [Next]_vars
             PROVE  FrameTiming'
  OBVIOUS
<1> USE DEF FrameTiming
<1>0. StatusPeriod \in Nat /\ 0 < StatusPeriod /\ statusElapsed \in Nat /\ statusElapsed <= StatusPeriod
  BY PeriodTypes DEF TypeOK
<1>1. CASE StartReporting
  BY <1>0, <1>1 DEF StartReporting
<1>2. CASE Sleep
  BY <1>0, <1>2 DEF Sleep, Advance
<1>3. CASE BeginTick \/ TakeSnapshot \/ SeeConnected \/ ScanOthers
  BY <1>3 DEF BeginTick, TakeSnapshot, SeeConnected, ScanOthers, timers
<1>4. CASE StopReporting \/ ReportUnavailable \/ ReportNoSelf \/ ReportNotFound \/ ReportCandidate
           \/ ReportLight
  BY <1>4 DEF StopReporting, ReportUnavailable, ReportNoSelf, ReportNotFound, ReportNone,
     ReportCandidate, ReportLight
<1>5. CASE EnvStep
  BY <1>5 DEF EnvStep, timers
<1>6. CASE UNCHANGED vars
  BY <1>6 DEF vars, timers
<1> QED
  BY <1>1, <1>2, <1>3, <1>4, <1>5, <1>6 DEF Next, TxStep

\* A step that sends no candidate status leaves alone what the RTOS has heard; only a
\* selected vehicle is introduced, and only the end of a report ends a candidacy.
LEMMA QuietStep ==
  ASSUME TypeOK, LinkTxStep,
         BeginTick \/ TakeSnapshot \/ StartReporting \/ SeeConnected \/ ScanOthers \/ ReportLight
         \/ Sleep
  PROVE  UNCHANGED <<heard, known, stopRefused, candidacy>> /\ (introRefused' <=> introRefused)
<1>1. ~StatusSent
  <2>0. StatusPeriod \in Nat /\ 0 < StatusPeriod /\ statusElapsed \in Nat
    BY PeriodTypes DEF TypeOK
  <2>1. CASE StartReporting
    BY <2>0, <2>1 DEF StartReporting, StatusSent
  <2>2. CASE Sleep
    BY <2>0, <2>2 DEF Sleep, Advance, StatusSent
  <2>3. CASE BeginTick \/ TakeSnapshot \/ SeeConnected \/ ScanOthers \/ ReportLight
    BY <2>3 DEF BeginTick, TakeSnapshot, SeeConnected, ScanOthers, ReportLight, timers, StatusSent
  <2> QED
    BY <2>1, <2>2, <2>3
<1>2. txPc # "stop" /\ (txPc' = "light" => txPc \notin {"report", "scanned", "stop"})
  BY DEF BeginTick, TakeSnapshot, StartReporting, SeeConnected, ScanOthers, ReportLight, Sleep
<1>3. /\ heard' = heard /\ stopRefused' = stopRefused
      /\ candidacy' = candidacy /\ ~IntroSent
  BY <1>1, <1>2
  DEF LinkTxStep, Carry, CarryStatus, FollowCandidacy, CandidateReported, IntroSent
<1> QED
  BY <1>3 DEF LinkTxStep, Carry, CarryIntro

\* Only the notice that the mode ended, if it is refused, leaves the RTOS believing
\* in a vehicle.
LEMMA IdleBeliefStep ==
  ASSUME TxInv, FrameTiming, IdleBeliefOnlyByRefusedStop, [LinkNext]_linkVars
  PROVE  IdleBeliefOnlyByRefusedStop'
<1> USE DEF IdleBeliefOnlyByRefusedStop
<1>0. TypeOK /\ ModeMemory
  BY DEF TxInv, ReportInv
<1>1. CASE LinkTxStep /\ StopReporting
  <2>1. StatusSent /\ txPc = "stop" /\ txPc' # "stop" /\ reported'.kind # "vehicle"
    BY <1>1 DEF StopReporting, SendNone, SendStatus, StatusSent, FrameTiming, NoCandidate, Report
  <2>2. stopRefused' <=> heard' # reported'
    BY <1>1, <2>1 DEF LinkTxStep, Carry, CarryStatus
  <2> QED
    BY <2>1, <2>2
<1>2. CASE LinkTxStep /\ (ReportUnavailable \/ ReportNoSelf \/ ReportNotFound \/ ReportCandidate)
  BY <1>0, <1>2
  DEF ModeMemory, ReportUnavailable, ReportNoSelf, ReportNotFound, ReportNone, ReportCandidate
<1>3. CASE LinkTxStep /\ StartReporting
  BY <1>3 DEF StartReporting
<1>4. CASE LinkTxStep /\ (BeginTick \/ TakeSnapshot \/ SeeConnected \/ ScanOthers \/ ReportLight
                          \/ Sleep)
  <2>1. lastActive' = lastActive
    BY <1>4 DEF BeginTick, TakeSnapshot, SeeConnected, ScanOthers, ReportLight, Sleep, memory
  <2>2. heard' = heard /\ stopRefused' = stopRefused
    BY <1>0, <1>4, QuietStep
  <2> QED
    BY <2>1, <2>2
<1>5. CASE LinkEnvStep
  BY <1>5 DEF LinkEnvStep, EnvStep, memory, rtos, linkHistory
<1>6. CASE UNCHANGED linkVars
  BY <1>6 DEF linkVars, vars, memory, rtos, linkHistory
<1> QED
  BY <1>1, <1>2, <1>3, <1>4, <1>5, <1>6 DEF LinkNext, LinkTxStep, TxStep

\* The candidacy of the history is the one the loop remembers, and an introduction
\* that got through is what the RTOS knows of it.
LEMMA CandidacyStep ==
  ASSUME TxInv, CandidacyMemory, [LinkNext]_linkVars
  PROVE  CandidacyMemory'
<1> USE DEF CandidacyMemory
<1>0. TypeOK /\ ModeMemory /\ ReportMemory /\ SelectionMemory
  BY DEF TxInv, ReportInv
<1>1. CASE LinkTxStep /\ ReportCandidate
  <2> DEFINE id == selection.id
  <2>1. CandidateReported /\ lastIntro' = id /\ (IntroSent <=> id # lastIntro)
    BY <1>1 DEF ReportCandidate, CandidateReported, IntroSent, IsNew
  <2>2. candidacy' = IF candidacy.id = id THEN candidacy ELSE Introduction(id, conflict)
    BY <1>1, <2>1 DEF LinkTxStep, Carry, FollowCandidacy
  <2>3. candidacy'.id = id
    BY <2>2 DEF Introduction
  <2>4. CASE id # lastIntro
    BY <1>1, <2>1, <2>2, <2>3, <2>4 DEF LinkTxStep, Carry, CarryIntro
  <2>5. CASE id = lastIntro
    BY <1>1, <2>1, <2>2, <2>3, <2>5 DEF LinkTxStep, Carry, CarryIntro
  <2> QED
    BY <2>1, <2>3, <2>4, <2>5
<1>2. CASE LinkTxStep /\ (StopReporting \/ ReportUnavailable \/ ReportNoSelf \/ ReportNotFound)
  <2>1. /\ txPc \in {"report", "scanned", "stop"} /\ txPc' = "light" /\ ~CandidateReported
        /\ lastIntro' = NoVehicle
    BY <1>0, <1>2
    DEF StopReporting, ReportUnavailable, ReportNoSelf, ReportNotFound, ReportNone, ForgetCandidate,
        CandidateReported
  <2>2. candidacy' = NoIntroduction
    BY <1>2, <2>1 DEF LinkTxStep, Carry, FollowCandidacy
  <2> QED
    BY <2>1, <2>2 DEF NoIntroduction, Introduction
<1>3. CASE LinkTxStep /\ StartReporting
  <2>1. lastIntro = NoVehicle /\ lastIntro' = NoVehicle
    BY <1>0, <1>3 DEF StartReporting, ModeMemory, ReportMemory
  <2>2. candidacy' = candidacy
    BY <1>0, <1>3, QuietStep
  <2> QED
    BY <2>1, <2>2
<1>4. CASE LinkTxStep /\ (BeginTick \/ TakeSnapshot \/ SeeConnected \/ ScanOthers \/ ReportLight
                          \/ Sleep)
  <2>1. lastIntro' = lastIntro
    BY <1>4 DEF BeginTick, TakeSnapshot, SeeConnected, ScanOthers, ReportLight, Sleep, memory
  <2>2. candidacy' = candidacy /\ known' = known /\ (introRefused' <=> introRefused)
    BY <1>0, <1>4, QuietStep
  <2> QED
    BY <2>1, <2>2
<1>5. CASE LinkEnvStep
  BY <1>5 DEF LinkEnvStep, EnvStep, memory, rtos, linkHistory
<1>6. CASE UNCHANGED linkVars
  BY <1>6 DEF linkVars, vars, memory, rtos, linkHistory
<1> QED
  BY <1>1, <1>2, <1>3, <1>4, <1>5, <1>6 DEF LinkNext, LinkTxStep, TxStep

\* A vehicle that select_candidate_vehicle finds conflicts in a zone with a place on the
\* map, in one of the four ways that the RTOS distinguishes.
LEMMA FoundConflict ==
  ASSUME NEW s \in VehicleInfos, NEW o \in Tables, SelectCandidate(s, o).found
  PROVE  /\ SharedZone(s, o[SelectCandidate(s, o).id]) \in LocatedZones
         /\ TypeMask(s, o[SelectCandidate(s, o).id]) \in {1, 2, 4, 8}
<1>1. Eligible(s, o, SelectCandidate(s, o).id)
  BY SelectedIsNearest DEF EligibleIds
<1> QED
  BY <1>1 DEF Eligible, TypeMask

\* Conflicts under way are conflicts on the map, from the scan to the RTOS.
LEMMA ConflictStep ==
  ASSUME TxInv, CandidacyMemory, ConflictMemory, [LinkNext]_linkVars
  PROVE  ConflictMemory'
<1> USE DEF ConflictMemory
<1>0. TypeOK /\ NoSelection.found = FALSE
  BY DEF TxInv, ReportInv, NoSelection
<1>1. CASE LinkTxStep /\ ReportCandidate
  <2>1. CandidateReported /\ selection' = selection /\ selection.found /\ conflict' = conflict
    BY <1>1 DEF LinkTxStep, Select, ReportCandidate, CandidateReported
  <2>2. \/ candidacy' = candidacy
        \/ candidacy' = Introduction(selection.id, conflict)
    BY <1>1, <2>1 DEF LinkTxStep, Carry, FollowCandidacy
  <2>3. known' = known \/ known' = Introduction(selection.id, conflict)
    BY <1>1 DEF LinkTxStep, Carry, CarryIntro
  <2>4. Introduction(selection.id, conflict).conflict = conflict
    BY DEF Introduction
  <2> QED
    BY <2>1, <2>2, <2>3, <2>4
<1>2. CASE LinkTxStep /\ (StopReporting \/ ReportUnavailable \/ ReportNoSelf \/ ReportNotFound)
  <2>1. /\ txPc \in {"report", "scanned", "stop"} /\ txPc' = "light" /\ ~CandidateReported
        /\ selection' = selection
    BY <1>2
    DEF StopReporting, ReportUnavailable, ReportNoSelf, ReportNotFound, ReportNone,
        CandidateReported
  <2>2. candidacy' = NoIntroduction /\ known' = known /\ conflict' = conflict
    BY <1>2, <2>1 DEF LinkTxStep, Carry, FollowCandidacy, CarryIntro, IntroSent, Select
  <2> QED
    BY <2>1, <2>2 DEF NoIntroduction, Introduction
<1>3. CASE LinkTxStep /\ ScanOthers
  <2>1. self \in VehicleInfos /\ others \in Tables
    BY <1>0, <1>3 DEF ScanOthers, TypeOK
  <2>2. selection' = SelectCandidate(self, others) /\ conflict' = ConflictOf(selection')
    BY <1>3 DEF LinkTxStep, ScanOthers, Select
  <2>3. selection'.found => IsConflict(conflict')
    BY <2>1, <2>2, FoundConflict DEF ConflictOf, IsConflict
  <2>4. candidacy' = candidacy /\ known' = known
    BY <1>0, <1>3, QuietStep
  <2> QED
    BY <2>3, <2>4
<1>4. CASE LinkTxStep /\ Sleep
  <2>1. selection' = NoSelection
    BY <1>4 DEF Sleep
  <2>2. candidacy' = candidacy /\ known' = known
    BY <1>0, <1>4, QuietStep
  <2> QED
    BY <1>0, <2>1, <2>2
<1>5. CASE LinkTxStep /\ (BeginTick \/ TakeSnapshot \/ StartReporting \/ SeeConnected \/ ReportLight)
  <2>1. selection' = selection /\ conflict' = conflict
    BY <1>5
    DEF BeginTick, TakeSnapshot, StartReporting, SeeConnected, ReportLight, LinkTxStep, Select
  <2>2. candidacy' = candidacy /\ known' = known
    BY <1>0, <1>5, QuietStep
  <2> QED
    BY <2>1, <2>2
<1>6. CASE LinkEnvStep
  BY <1>6 DEF LinkEnvStep, EnvStep, rtos, linkHistory
<1>7. CASE UNCHANGED linkVars
  BY <1>7 DEF linkVars, vars, rtos, linkHistory
<1> QED
  BY <1>1, <1>2, <1>3, <1>4, <1>5, <1>6, <1>7 DEF LinkNext, LinkTxStep, TxStep

\* The invariant holds of every behaviour with such a device.
THEOREM LinkInvariant == LinkSpec => []LinkInv
<1>1. LinkInit => LinkInv
  <2> SUFFICES ASSUME LinkInit PROVE LinkInv
    OBVIOUS
  <2>1. TxInv
    BY InitTx DEF LinkInit
  <2>2. FrameTiming
    BY PeriodTypes DEF LinkInit, Init, FrameTiming
  <2>3. IdleBeliefOnlyByRefusedStop
    BY DEF LinkInit, IdleBeliefOnlyByRefusedStop, Nothing, Report
  <2>4. CandidacyMemory /\ ConflictMemory
    BY DEF LinkInit, Init, CandidacyMemory, ConflictMemory, NoIntroduction, Introduction, NoSelection
  <2> QED
    BY <2>1, <2>2, <2>3, <2>4 DEF LinkInv
<1>2. LinkInv /\ [LinkNext]_linkVars => LinkInv'
  <2> SUFFICES ASSUME LinkInv, [LinkNext]_linkVars PROVE LinkInv'
    OBVIOUS
  <2> USE DEF LinkInv
  <2>1. TxInv'
    BY LinkIsTx, StepTx
  <2>2. FrameTiming'
    BY LinkIsTx, FrameTimingStep DEF TxInv, ReportInv
  <2> QED
    BY <2>1, <2>2, IdleBeliefStep, CandidacyStep, ConflictStep
<1> QED
  BY <1>1, <1>2, PTL DEF LinkSpec

\* Whatever frames the device refuses, the RTOS believes in a vehicle after the mode
\* only if the notice of its end was refused (can_tx_thread.c:284-285).
THEOREM IdleBeliefCorrect == LinkSpec => []IdleBeliefOnlyByRefusedStop
<1>1. LinkInv => IdleBeliefOnlyByRefusedStop
  BY DEF LinkInv
<1> QED
  BY <1>1, LinkInvariant, PTL

\* Whatever frames the device refuses, an introduction that got through is that of the
\* present candidacy (can_tx_thread.c:340-348).
THEOREM KnowsCorrect == LinkSpec => []KnowsThisCandidacy
<1>1. LinkInv => KnowsThisCandidacy
  BY DEF LinkInv, CandidacyMemory, KnowsThisCandidacy
<1> QED
  BY <1>1, LinkInvariant, PTL

\* The RTOS is only ever introduced to a vehicle with a conflict zone that has a place
\* on the map and one of the four kinds of conflict, never with the zeros that
\* stand for "none": what select_candidate_vehicle checks (can_tx_thread.c:139-152)
\* still holds when the introduction is sent and remembered.
THEOREM KnownConflictCorrect ==
  LinkSpec => [](known.id # NoVehicle => known.conflict.zone \in LocatedZones
                                         /\ known.conflict.mask \in {1, 2, 4, 8})
<1>1. LinkInv => (known.id # NoVehicle => known.conflict.zone \in LocatedZones
                                          /\ known.conflict.mask \in {1, 2, 4, 8})
  BY DEF LinkInv, ConflictMemory, IsConflict
<1> QED
  BY <1>1, LinkInvariant, PTL

\* What the TX thread sends is right and in time with such a device as without.
THEOREM LinkKeepsTx ==
  LinkSpec => []IntroducedBeforeReported /\ []ReportMatchesSelection /\ []IdleReportsNobody
              /\ []StatusNeverLate /\ []LightLateOnlyAfterStart
<1>1. LinkInv => TxInv
  BY DEF LinkInv
<1> QED
  BY <1>1, LinkInvariant, TxProperties, PTL

-----------------------------------------------------------------------------
(***************************************************************************)
(* With the CAN RX thread (V2xNode).  The composition refines both of its  *)
(* parts: what the RX thread does is a step of CandidateTx's environment,  *)
(* and what the TX thread does changes nothing that SelfVehicle writes.    *)
(* So each part keeps its invariant, SelfVehicle's being taken from the    *)
(* proofs about that module; only that the turn is one that the map allows *)
(* and that the TX thread's copy is as coherent as the original is new.    *)
(***************************************************************************)
RxP == INSTANCE SelfVehicle_proofs

TurnsPossible ==
  /\ turnState \in PossibleTurns /\ next \in PossibleTurns
  /\ info # NoInfo => info.turn \in PossibleTurns

CopyCoherent == self # NoInfo => self.lane = LaneOf[self.pose] /\ Rx!ZonesMatchPose(self)

NodeInv ==
  TxInv /\ RxP!ModeInv /\ RxP!SamplesCoherent /\ TurnsPossible /\ CopyCoherent

\* The map is the same in both parts.
LEMMA SameMap ==
  /\ RxP!MapAssumption /\ RxP!NoInfoAssumption
  /\ Rx!VehicleInfos = VehicleInfos /\ RxP!VehicleInfos = VehicleInfos
  /\ Rx!TurnStates = TurnStates /\ RxP!TurnStates = TurnStates
  /\ RxP!EgoVehicles = Rx!EgoVehicles
BY MapAssumption, NoInfoAssumption
DEF RxP!MapAssumption, RxP!NoInfoAssumption, RxP!VehicleInfos, Rx!VehicleInfos, VehicleInfos,
    RxP!TurnStates, Rx!TurnStates, TurnStates, RxP!Directions, Directions, RxP!Movements, Movements,
    RxP!EgoVehicles, Rx!EgoVehicles, RxP!Signals, Rx!Signals

\* The steps of the instance in V2xNode are those that the proofs are about.
LEMMA SameRx ==
  /\ Rx!Init => RxP!Init
  /\ [Rx!Next]_(Rx!vars) => [RxP!Next]_(RxP!vars)
<1>1. Rx!Init => RxP!Init
  BY SameMap DEF Rx!Init, RxP!Init
<1>2. Rx!ReceiveFrame => RxP!ReceiveFrame
  BY SameMap
  DEF Rx!ReceiveFrame, RxP!ReceiveFrame, Rx!DecideTurnState, RxP!DecideTurnState,
      Rx!TurnFor, RxP!TurnFor
<1>3. Rx!SetTurnState => RxP!SetTurnState
  BY DEF Rx!SetTurnState, RxP!SetTurnState
<1>4. Rx!UpdateFromCan => RxP!UpdateFromCan
  BY DEF Rx!UpdateFromCan, RxP!UpdateFromCan, Rx!UpdatedInfo, RxP!UpdatedInfo, Rx!InfoFor, RxP!InfoFor,
     Rx!UpdatedZones, RxP!UpdatedZones, Rx!KnownZones, RxP!KnownZones,
     Rx!ZonesForMovement, RxP!ZonesForMovement,
     Rx!MovementFromTurnState, RxP!MovementFromTurnState
<1>5. (Rx!ReadInfo => RxP!ReadInfo) /\ (Rx!PushLatest => RxP!PushLatest)
  BY DEF Rx!ReadInfo, RxP!ReadInfo, Rx!PushLatest, RxP!PushLatest, Rx!GetInfo, RxP!GetInfo
<1>6. Rx!UpdateFlag => RxP!UpdateFlag
  BY Zenon DEF Rx!UpdateFlag, RxP!UpdateFlag, Rx!FlagAfter, RxP!FlagAfter,
     Rx!CandidateModes, RxP!CandidateModes
<1>7. Rx!GoStale => RxP!GoStale
  BY DEF Rx!GoStale, RxP!GoStale, Rx!rxLocals, RxP!rxLocals
<1>8. Rx!TryPop => RxP!TryPop
  BY DEF Rx!TryPop, RxP!TryPop, Rx!rxLocals, RxP!rxLocals
<1>9. UNCHANGED Rx!vars => UNCHANGED RxP!vars
  BY DEF Rx!vars, RxP!vars, Rx!rxLocals, RxP!rxLocals
<1> QED
  BY <1>1, <1>2, <1>3, <1>4, <1>5, <1>6, <1>7, <1>8, <1>9
  DEF Rx!Next, RxP!Next, Rx!RxStep, RxP!RxStep

\* The composition is one of SelfVehicle: the TX thread and the surroundings leave alone
\* what the RX thread writes.
LEMMA NodeIsRx == [NodeNext]_nodeVars => [Rx!Next]_(Rx!vars)
<1>1. RxThread \/ SelfExpires => Rx!Next
  BY DEF RxThread, SelfExpires, Rx!Next
<1>2. TxThread => UNCHANGED Rx!vars
  <2> SUFFICES ASSUME TxStep, UNCHANGED rxOnly PROVE UNCHANGED Rx!vars
    BY DEF TxThread
  <2>1. UNCHANGED inputs
    BY DEF TxStep, BeginTick, TakeSnapshot, StartReporting, StopReporting, ReportUnavailable,
       ReportNoSelf, SeeConnected, ScanOthers, ReportNotFound, ReportNone, ReportCandidate,
       ReportLight, Sleep
  <2> QED
    BY <2>1 DEF inputs, rxOnly, Rx!vars, Rx!rxLocals
<1>3. Surroundings => UNCHANGED Rx!vars
  BY DEF Surroundings, UpdateOther, SwitchConnection, rxOnly, Rx!vars, Rx!rxLocals
<1>4. UNCHANGED nodeVars => UNCHANGED Rx!vars
  BY DEF nodeVars, vars, inputs, rxOnly, Rx!vars, Rx!rxLocals
<1> QED
  BY <1>1, <1>2, <1>3, <1>4 DEF NodeNext

\* The least zone of a set that is not empty is one of the set.
LEMMA FirstOfType ==
  ASSUME NEW zones \in SUBSET Zones, zones # {}
  PROVE  FirstOf(zones) \in zones
<1>1. zones \in SUBSET Nat
  BY MapAssumption
<1>2. \E z \in zones : \A y \in zones : z <= y
  BY <1>1, LeastNat
<1> QED
  BY <1>2 DEF FirstOf

\* Only the turns that the map allows are ever decided on and stored.
LEMMA TurnsStep ==
  ASSUME RxP!TypeOK, TurnsPossible, [Rx!Next]_(Rx!vars)
  PROVE  TurnsPossible'
<1> USE DEF TurnsPossible
<1>1. CASE Rx!ReceiveFrame
  <2>1. PICK ego \in Rx!EgoVehicles : next' = Rx!DecideTurnState(turnState, ego)
    BY <1>1 DEF Rx!ReceiveFrame
  <2>2. ego.signal \in Rx!Signals /\ LaneOf[ego.pose] \in Lanes \cup {NoLane}
    BY MapAssumption DEF Rx!EgoVehicles
  <2>3. LaneOf[ego.pose] # NoLane =>
          Rx!TurnFor(ego.signal, LaneDirection[LaneOf[ego.pose]]) \in PossibleTurns
    BY <2>2 DEF PossibleTurns
  <2>4. "straight" \in PossibleTurns
    BY DEF PossibleTurns
  <2>5. next' \in PossibleTurns
    BY <2>1, <2>3, <2>4 DEF Rx!DecideTurnState
  <2> QED
    BY <1>1, <2>5 DEF Rx!ReceiveFrame
<1>2. CASE Rx!UpdateFromCan
  BY <1>2 DEF Rx!UpdateFromCan, Rx!UpdatedInfo, Rx!InfoFor
<1>3. CASE \/ Rx!SetTurnState \/ Rx!ReadInfo \/ Rx!PushLatest \/ Rx!UpdateFlag
            \/ Rx!GoStale \/ Rx!TryPop
  BY <1>3 DEF Rx!SetTurnState, Rx!ReadInfo, Rx!PushLatest, Rx!UpdateFlag, Rx!GoStale, Rx!TryPop,
              Rx!rxLocals
<1>4. CASE UNCHANGED Rx!vars
  BY <1>4 DEF Rx!vars, Rx!rxLocals
<1> QED
  BY <1>1, <1>2, <1>3, <1>4 DEF Rx!Next, Rx!RxStep

\* A state of this vehicle that is coherent and has a possible turn is one that EnvStep
\* allows for.
LEMMA InfoPossible ==
  ASSUME NEW v \in VehicleInfos, v.turn \in PossibleTurns,
         v.lane = LaneOf[v.pose], RxP!ZonesMatchPose(v)
  PROVE  Rx!ZonesMatchPose(v) /\ v \in SelfInfos
<1>1. Rx!ZonesMatchPose(v)
  BY DEF RxP!ZonesMatchPose, Rx!ZonesMatchPose, RxP!ZonesForMovement, Rx!ZonesForMovement,
     RxP!MovementFromTurnState, Rx!MovementFromTurnState
<1>2. v \in OwnInfos
  BY <1>1 DEF OwnInfos
<1> QED
  BY <1>1, <1>2, OwnInfosAssumption

\* Nothing drops a vehicle from a table that stays as it is.
LEMMA NothingDropped ==
  ASSUME UNCHANGED others, UNCHANGED candidate
  PROVE  ForgetDropped
BY DEF ForgetDropped

\* Every step of the composition is one of CandidateTx, or changes nothing of it.
LEMMA NodeIsTx ==
  ASSUME RxP!TypeOK, RxP!TypeOK', RxP!SamplesCoherent', TurnsPossible', [NodeNext]_nodeVars
  PROVE  [Next]_vars
<1>1. CASE RxThread
  <2>1. /\ UNCHANGED <<others, connected, lights, candidate>>
        /\ UNCHANGED <<lightCandidate, txPc, flags, self, selection, memory, timers, history, quiet>>
    BY <1>1 DEF RxThread, txOnly
  <2>2. ForgetDropped
    BY <2>1, NothingDropped
  <2>3. CASE Rx!UpdateFromCan
    <3>1. info' = Rx!UpdatedInfo /\ fresh' = TRUE /\ txEnabled' = txEnabled
      BY <2>3 DEF Rx!UpdateFromCan
    <3>2. info' # NoInfo
      <4>1. Rx!UpdatedInfo \in VehicleInfos
        <5>1. frame.pose \in Poses /\ turnState \in TurnStates
          BY SameMap DEF RxP!TypeOK, Rx!EgoVehicles
        <5>2. RxP!UpdatedZones(frame.pose, turnState) \in SUBSET Zones
          BY <5>1, SameMap, RxP!UpdatedZonesType
        <5>3. Rx!UpdatedZones(frame.pose, turnState) = RxP!UpdatedZones(frame.pose, turnState)
          BY DEF Rx!UpdatedZones, RxP!UpdatedZones, Rx!KnownZones, RxP!KnownZones,
             Rx!ZonesForMovement, RxP!ZonesForMovement,
             Rx!MovementFromTurnState, RxP!MovementFromTurnState
        <5>4. LaneOf[frame.pose] \in Lanes \cup {NoLane}
          BY <5>1, MapAssumption
        <5> QED
          BY <5>1, <5>2, <5>3, <5>4 DEF Rx!UpdatedInfo, Rx!InfoFor, VehicleInfos
      <4> QED
        BY <3>1, <4>1, NoInfoAssumption
    <3>3. info' \in SelfInfos
      <4>1. info' \in VehicleInfos
        BY <3>2, SameMap DEF RxP!TypeOK
      <4>2. info'.turn \in PossibleTurns
        BY <3>2 DEF TurnsPossible
      <4>3. info'.lane = LaneOf[info'.pose] /\ RxP!ZonesMatchPose(info')
        BY <3>2 DEF RxP!SamplesCoherent
      <4> QED
        BY <4>1, <4>2, <4>3, InfoPossible
    <3>4. UpdateSelf
      BY <2>1, <3>1, <3>3 DEF UpdateSelf
    <3> QED
      BY <2>1, <2>2, <3>4 DEF Next, EnvStep
  <2>4. CASE Rx!UpdateFlag
    <3>1. txEnabled \in BOOLEAN /\ txEnabled' \in BOOLEAN /\ info' = info /\ fresh' = fresh
      BY <2>4 DEF RxP!TypeOK, Rx!UpdateFlag
    <3>2. CASE txEnabled' = txEnabled
      BY <2>1, <3>1, <3>2 DEF vars, inputs
    <3>3. CASE txEnabled' # txEnabled
      <4>1. SwitchMode
        BY <2>1, <3>1, <3>3 DEF SwitchMode
      <4> QED
        BY <2>1, <2>2, <4>1 DEF Next, EnvStep
    <3> QED
      BY <3>2, <3>3
  <2>5. CASE Rx!ReceiveFrame \/ Rx!SetTurnState \/ Rx!ReadInfo \/ Rx!PushLatest
    BY <2>1, <2>5
    DEF Rx!ReceiveFrame, Rx!SetTurnState, Rx!ReadInfo, Rx!PushLatest, vars, inputs
  <2> QED
    BY <1>1, <2>3, <2>4, <2>5 DEF RxThread, Rx!RxStep
<1>2. CASE SelfExpires
  <2>1. LoseSelf
    BY <1>2 DEF SelfExpires, Rx!GoStale, LoseSelf
  <2>2. ForgetDropped
    BY <1>2, NothingDropped DEF SelfExpires, txOnly
  <2> QED
    BY <1>2, <2>1, <2>2 DEF SelfExpires, txOnly, Next, EnvStep
<1>3. CASE TxThread
  BY <1>3 DEF TxThread, Next
<1>4. CASE Surroundings
  BY <1>4 DEF Surroundings, Next, EnvStep
<1>5. CASE UNCHANGED nodeVars
  BY <1>5 DEF nodeVars
<1> QED
  BY <1>1, <1>2, <1>3, <1>4, <1>5 DEF NodeNext

\* The TX thread's copy stays coherent, however long it is kept and whatever the RX
\* thread stores meanwhile.
LEMMA CopyStep ==
  ASSUME RxP!TypeOK, RxP!SamplesCoherent, TurnsPossible, CopyCoherent, [NodeNext]_nodeVars
  PROVE  CopyCoherent'
<1>1. CASE TxThread /\ (TakeSnapshot \/ StartReporting)
  <2>1. self' = NoInfo \/ (self' = info /\ info # NoInfo)
    BY <1>1 DEF TakeSnapshot, StartReporting, GetInfo
  <2>2. info # NoInfo => info.lane = LaneOf[info.pose] /\ Rx!ZonesMatchPose(info)
    <3>1. info # NoInfo => info \in VehicleInfos
      BY SameMap DEF RxP!TypeOK
    <3>2. info # NoInfo => info.lane = LaneOf[info.pose] /\ RxP!ZonesMatchPose(info)
      BY DEF RxP!SamplesCoherent
    <3> QED
      BY <3>1, <3>2, InfoPossible DEF TurnsPossible
  <2> QED
    BY <2>1, <2>2 DEF CopyCoherent
<1>2. CASE TxThread /\ Sleep
  BY <1>2 DEF Sleep, CopyCoherent
<1>3. CASE TxThread /\ ~TakeSnapshot /\ ~StartReporting /\ ~Sleep
  <2>1. self' = self
    BY <1>3 DEF TxThread, TxStep, BeginTick, StopReporting, ReportUnavailable, ReportNoSelf,
       SeeConnected, ScanOthers, ReportNotFound, ReportNone, ReportCandidate, ReportLight
  <2> QED
    BY <2>1 DEF CopyCoherent
<1>4. CASE RxThread \/ SelfExpires \/ Surroundings \/ UNCHANGED nodeVars
  <2>1. self' = self
    BY <1>4 DEF RxThread, SelfExpires, Surroundings, nodeVars, vars, txOnly
  <2> QED
    BY <2>1 DEF CopyCoherent
<1> QED
  BY <1>1, <1>2, <1>3, <1>4 DEF NodeNext

\* One step of the composition: a step of each part, and the invariant stays.
LEMMA StepNode ==
  NodeInv /\ [NodeNext]_nodeVars => NodeInv' /\ [Next]_vars /\ [RxP!Next]_(RxP!vars)
<1> SUFFICES ASSUME NodeInv, [NodeNext]_nodeVars
             PROVE  NodeInv' /\ [Next]_vars /\ [RxP!Next]_(RxP!vars)
  OBVIOUS
<1>0. TxInv /\ RxP!ModeInv /\ RxP!SamplesCoherent /\ TurnsPossible /\ CopyCoherent
  BY DEF NodeInv
<1>1. [Rx!Next]_(Rx!vars) /\ [RxP!Next]_(RxP!vars)
  BY NodeIsRx, SameRx
<1>2. RxP!TypeOK
  BY <1>0 DEF RxP!ModeInv
<1>3. RxP!ModeInv' /\ RxP!SamplesCoherent'
  BY <1>0, <1>1, <1>2, SameMap, RxP!StepMode, RxP!StepSamples
<1>4. RxP!TypeOK'
  BY <1>3 DEF RxP!ModeInv
<1>5. TurnsPossible'
  BY <1>0, <1>1, <1>2, TurnsStep
<1>6. [Next]_vars
  BY <1>2, <1>3, <1>4, <1>5, NodeIsTx
<1>7. TxInv'
  BY <1>0, <1>6, StepTx
<1>8. CopyCoherent'
  BY <1>0, <1>2, CopyStep
<1> QED
  BY <1>1, <1>3, <1>5, <1>6, <1>7, <1>8 DEF NodeInv

\* Everything is in its place when the threads start.
LEMMA InitNode == NodeInit => NodeInv /\ Init /\ RxP!Init
<1> SUFFICES ASSUME NodeInit PROVE NodeInv /\ Init /\ RxP!Init
  OBVIOUS
<1>1. Init /\ RxP!Init
  BY SameRx DEF NodeInit
<1>2. TxInv /\ RxP!ModeInv /\ RxP!SamplesCoherent
  BY <1>1, InitTx, SameMap, RxP!InitMode, RxP!InitSamples
<1>3. TurnsPossible /\ CopyCoherent
  BY <1>1 DEF RxP!Init, Init, TurnsPossible, CopyCoherent, PossibleTurns
<1> QED
  BY <1>1, <1>2, <1>3 DEF NodeInv

\* The invariant of the composition holds of every behaviour.
THEOREM NodeInvariant == NodeSpec => []NodeInv
BY InitNode, StepNode, PTL DEF NodeSpec

\* The composition implements CandidateTx: the RX thread is one of the environments
\* that module allows, on every map (can_rx_thread.c:60-90 under can_tx_thread.c:253-385).
THEOREM TxRefinement == NodeSpec => TxAsSpecified
BY InitNode, StepNode, NodeInvariant, PTL DEF NodeSpec, TxAsSpecified

\* It implements SelfVehicle too.
THEOREM RxRefinement == NodeSpec => RxP!Init /\ [][RxP!Next]_(RxP!vars)
BY InitNode, StepNode, NodeInvariant, PTL DEF NodeSpec

\* What each thread guarantees by itself it guarantees in the composition, for every
\* map: the TX thread's statuses, the RX thread's flag and its samples.
THEOREM NodeKeepsParts ==
  NodeSpec => /\ []IntroducedBeforeReported /\ []ReportMatchesSelection /\ []IdleReportsNobody
              /\ []StatusNeverLate /\ []LightLateOnlyAfterStart
              /\ []RxP!FlagFollowsMode /\ []RxP!SamplesCoherent
<1>1. NodeInv => /\ TxInv /\ RxP!FlagFollowsMode /\ RxP!SamplesCoherent
  BY DEF NodeInv, RxP!ModeInv, RxP!FlagInv, RxP!FlagFollowsMode
<1> QED
  BY <1>1, NodeInvariant, TxProperties, PTL

\* The zone for which a vehicle is chosen is not behind this vehicle, as the TX thread
\* saw it (on_ego_frame's filter, can_rx_thread.c, for select_candidate_vehicle).
THEOREM ZoneAheadCorrect == NodeSpec => ReportedZoneIsAhead
<1> DEFINE Ahead == (selection' # selection /\ selection'.found /\ self.lane = NoLane)
                      => SharedZone(self, others[selection'.id]) \notin Behind[self.pose]
<1>1. NodeInv /\ [NodeNext]_nodeVars => [Ahead]_nodeVars
  <2> SUFFICES ASSUME NodeInv, [NodeNext]_nodeVars,
                      selection' # selection, selection'.found, self.lane = NoLane
               PROVE  SharedZone(self, others[selection'.id]) \notin Behind[self.pose]
    OBVIOUS
  <2>1. TypeOK /\ CopyCoherent /\ NoSelection.found = FALSE
    BY DEF NodeInv, TxInv, ReportInv, NoSelection
  <2>2. ScanOthers
    <3>1. [Next]_vars
      BY StepNode
    <3> QED
      BY <2>1, <3>1
      DEF Next, TxStep, EnvStep, vars, BeginTick, TakeSnapshot, StartReporting, StopReporting,
          ReportUnavailable, ReportNoSelf, SeeConnected, ReportNotFound, ReportNone,
          ReportCandidate, ReportLight, Sleep
  <2>3. /\ self # NoInfo /\ self \in VehicleInfos /\ others \in Tables
        /\ selection' = SelectCandidate(self, others)
    BY <2>1, <2>2 DEF ScanOthers, TypeOK
  <2> DEFINE other == others[selection'.id]
  <2>4. selection'.id \in VehicleIds /\ SharedZones(self, other) # {}
    BY <2>3, SelectedIsNearest DEF EligibleIds, Eligible
  <2>5. SharedZones(self, other) \in SUBSET Zones
    BY <2>3 DEF SharedZones, VehicleInfos
  <2>6. SharedZone(self, other) \in self.zones
    <3>1. FirstOf(SharedZones(self, other)) \in SharedZones(self, other)
      BY <2>4, <2>5, FirstOfType
    <3> QED
      BY <3>1 DEF SharedZone, SharedZones
  <2>7. self.zones \cap Behind[self.pose] = {}
    BY <2>1, <2>3 DEF CopyCoherent, Rx!ZonesMatchPose
  <2> QED
    BY <2>6, <2>7
<1> QED
  BY <1>1, NodeInvariant, PTL DEF NodeSpec, ReportedZoneIsAhead
=============================================================================
