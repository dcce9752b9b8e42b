------------------------- MODULE SelfVehicle_proofs -------------------------
(***************************************************************************)
(* Proofs about SelfVehicle, for every map and every sequence of frames.   *)
(***************************************************************************)
EXTENDS SelfVehicle, TLAPS

\* The turn state machine stays in its states (decide_turn_state).
LEMMA DecideType ==
  ASSUME NEW cur \in TurnStates, NEW ego \in EgoVehicles
  PROVE  DecideTurnState(cur, ego) \in TurnStates
BY DEF DecideTurnState, TurnFor, TurnStates

\* A turn ends only in "straight" (decide_turn_state).
LEMMA DecideEndsStraight ==
  ASSUME NEW cur \in TurnStates, NEW ego \in EgoVehicles,
         DecideTurnState(cur, ego) # cur
  PROVE  "straight" \in {cur, DecideTurnState(cur, ego)}
BY DEF DecideTurnState

\* The zones put into a VehicleInfo are zones of the map.
LEMMA UpdatedZonesType ==
  ASSUME TypeOK, NEW pose \in Poses, NEW turn \in TurnStates
  PROVE  UpdatedZones(pose, turn) \in SUBSET Zones
<1>1. CASE LaneOf[pose] # NoLane
  <2>1. LaneOf[pose] \in Lanes
    BY <1>1, MapAssumption
  <2>2. MovementFromTurnState(turn) \in Movements
    BY DEF MovementFromTurnState, TurnStates, Movements
  <2>3. LaneZones[LaneOf[pose]] \in [Movements -> SUBSET Zones]
    BY <2>1, MapAssumption
  <2> QED
    BY <1>1, <2>2, <2>3 DEF UpdatedZones, ZonesForMovement
<1>2. CASE LaneOf[pose] = NoLane
  <2>1. info # NoInfo => info.zones \in SUBSET Zones
    BY DEF TypeOK, VehicleInfos
  <2> QED
    BY <1>2, <2>1 DEF UpdatedZones, KnownZones
<1> QED
  BY <1>1, <1>2

-----------------------------------------------------------------------------
\* Every variable has its type before the first frame.
LEMMA InitType == Init => TypeOK
BY DEF Init, TypeOK, TurnStates

\* Every step keeps the types.
LEMMA StepType == TypeOK /\ [Next]_vars => TypeOK'
<1> SUFFICES ASSUME TypeOK, [Next]_vars PROVE TypeOK'
  OBVIOUS
<1>1. CASE ReceiveFrame
  <2>1. PICK ego \in EgoVehicles :
          frame' = ego /\ current' = turnState /\ next' = DecideTurnState(turnState, ego)
    BY <1>1 DEF ReceiveFrame
  <2>2. next' \in TurnStates
    BY <2>1, DecideType DEF TypeOK
  <2> QED
    BY <1>1, <2>1, <2>2 DEF ReceiveFrame, TypeOK
<1>2. CASE SetTurnState
  BY <1>2 DEF SetTurnState, TypeOK
<1>3. CASE UpdateFromCan
  <2>1. frame.pose \in Poses
    BY DEF TypeOK, EgoVehicles
  <2>2. UpdatedZones(frame.pose, turnState) \in SUBSET Zones
    BY <2>1, UpdatedZonesType DEF TypeOK
  <2>3. LaneOf[frame.pose] \in Lanes \cup {NoLane}
    BY <2>1, MapAssumption
  <2>4. info' \in VehicleInfos
    BY <1>3, <2>1, <2>2, <2>3 DEF UpdateFromCan, UpdatedInfo, InfoFor, VehicleInfos, TypeOK
  <2> QED
    BY <1>3, <2>4 DEF UpdateFromCan, TypeOK
<1>4. CASE ReadInfo \/ PushLatest
  BY <1>4 DEF ReadInfo, PushLatest, TypeOK, GetInfo
<1>5. CASE UpdateFlag
  <2>1. txEnabled' \in BOOLEAN
    <3>1. txEnabled' = (IF (current \in CandidateModes) # (next \in CandidateModes)
                        THEN next \in CandidateModes ELSE txEnabled)
      BY <1>5 DEF UpdateFlag, FlagAfter
    <3>2. CASE (current \in CandidateModes) # (next \in CandidateModes)
      <4>1. txEnabled' = (next \in CandidateModes)
        BY <3>1, <3>2, Zenon
      <4>2. (next \in CandidateModes) \in BOOLEAN
        OBVIOUS
      <4> QED
        BY <4>1, <4>2, Zenon
    <3>3. CASE ~((current \in CandidateModes) # (next \in CandidateModes))
      <4>1. txEnabled' = txEnabled
        BY <3>1, <3>3, Zenon
      <4> QED
        BY <4>1, Zenon DEF TypeOK
    <3> QED
      BY <3>2, <3>3
  <2>2. UNCHANGED <<frame, current, next, copied, turnState, info, fresh, queue>> /\ rxPc' = "poll"
    BY <1>5 DEF UpdateFlag
  <2> QED
    BY <2>1, <2>2 DEF TypeOK
<1>6. CASE GoStale
  BY <1>6 DEF GoStale, TypeOK, rxLocals
<1>7. CASE TryPop
  BY <1>7 DEF TryPop, TypeOK, rxLocals
<1>8. CASE UNCHANGED vars
  BY <1>8 DEF vars, rxLocals, TypeOK
<1> QED
  BY <1>1, <1>2, <1>3, <1>4, <1>5, <1>6, <1>7, <1>8 DEF Next, RxStep

\* Every variable of the RX thread and the self manager keeps its type, for
\* every map.
THEOREM TypeCorrect == Spec => []TypeOK
BY InitType, StepType, PTL DEF Spec

-----------------------------------------------------------------------------
(***************************************************************************)
(* FlagFollowsMode is not inductive: it says nothing of the steps inside a *)
(* handler.  The locals of on_ego_frame and the stored VehicleInfo have to *)
(* be followed through them.                                               *)
(***************************************************************************)
LocalsFollow ==
  /\ rxPc = "set" => current = turnState
  /\ rxPc \in {"update", "read", "push", "flag"} => next = turnState

FlagInv == txEnabled <=> (IF rxPc = "poll" THEN turnState ELSE current) \in CandidateModes

InfoFollows == (info # NoInfo /\ rxPc # "update") => info.turn = turnState

ModeInv == TypeOK /\ LocalsFollow /\ FlagInv /\ InfoFollows

\* The invariant holds before the first frame.
LEMMA InitMode == Init => ModeInv
BY DEF Init, ModeInv, TypeOK, LocalsFollow, FlagInv, InfoFollows, TurnStates, CandidateModes

\* Every step keeps it.
LEMMA StepMode == ModeInv /\ [Next]_vars => ModeInv'
<1> SUFFICES ASSUME ModeInv, [Next]_vars
             PROVE  LocalsFollow' /\ FlagInv' /\ InfoFollows'
  BY StepType DEF ModeInv
<1> USE DEF ModeInv, LocalsFollow, FlagInv, InfoFollows
<1>1. CASE ReceiveFrame
  BY <1>1 DEF ReceiveFrame
<1>2. CASE SetTurnState
  BY <1>2 DEF SetTurnState
<1>3. CASE UpdateFromCan
  BY <1>3 DEF UpdateFromCan, UpdatedInfo, InfoFor
<1>4. CASE ReadInfo \/ PushLatest
  BY <1>4 DEF ReadInfo, PushLatest
<1>5. CASE UpdateFlag
  <2>1. rxPc = "flag" /\ next = turnState /\ turnState' = turnState
    BY <1>5 DEF UpdateFlag
  <2>2. txEnabled' <=> turnState' \in CandidateModes
    BY <1>5, <2>1 DEF UpdateFlag, FlagAfter, TypeOK
  <2> QED
    BY <1>5, <2>1, <2>2 DEF UpdateFlag
<1>6. CASE GoStale
  BY <1>6 DEF GoStale, rxLocals
<1>7. CASE TryPop
  BY <1>7 DEF TryPop, rxLocals
<1>8. CASE UNCHANGED vars
  BY <1>8 DEF vars, rxLocals
<1> QED
  BY <1>1, <1>2, <1>3, <1>4, <1>5, <1>6, <1>7, <1>8 DEF Next, RxStep

\* The strengthened invariant holds of every behaviour.
THEOREM ModeInvariant == Spec => []ModeInv
BY InitMode, StepMode, PTL DEF Spec

\* Between frames the candidate transmission flag equals the mode of the turn
\* state machine (can_rx_thread.c:80-89), for every map and frame sequence.
THEOREM FlagCorrect == Spec => []FlagFollowsMode
<1>1. ModeInv => FlagFollowsMode
  BY DEF ModeInv, FlagInv, FlagFollowsMode
<1> QED
  BY <1>1, ModeInvariant, PTL

\* Between frames the flag and the published turn state agree, so the CAN TX
\* thread sees a mismatch only during one call of on_ego_frame.
THEOREM FlagInfoCorrect == Spec => []FlagMatchesInfo
<1>1. ModeInv => FlagMatchesInfo
  BY DEF ModeInv, FlagInv, InfoFollows, FlagMatchesInfo
<1> QED
  BY <1>1, ModeInvariant, PTL

-----------------------------------------------------------------------------
\* There is no sample before the first frame.
LEMMA InitSamples == Init => SamplesCoherent
BY DEF Init, SamplesCoherent

\* Every step keeps the samples coherent.
LEMMA StepSamples == TypeOK /\ SamplesCoherent /\ [Next]_vars => SamplesCoherent'
<1> SUFFICES ASSUME TypeOK, SamplesCoherent, [Next]_vars
             PROVE  SamplesCoherent'
  OBVIOUS
<1>1. CASE UpdateFromCan
  <2>1. frame.pose \in Poses /\ UNCHANGED <<copied, queue>>
    BY <1>1 DEF TypeOK, EgoVehicles, UpdateFromCan
  <2>2. /\ info'.pose = frame.pose
        /\ info'.lane = LaneOf[frame.pose]
        /\ info'.turn = turnState
        /\ info'.zones = UpdatedZones(frame.pose, turnState)
    BY <1>1 DEF UpdateFromCan, UpdatedInfo, InfoFor
  <2>3. info'.lane = LaneOf[info'.pose] /\ ZonesMatchPose(info')
    BY <2>1, <2>2 DEF ZonesMatchPose, UpdatedZones
  <2> QED
    BY <2>1, <2>3 DEF SamplesCoherent
<1>2. CASE ReadInfo \/ PushLatest
  BY <1>2 DEF ReadInfo, PushLatest, GetInfo, SamplesCoherent
<1>3. CASE TryPop
  BY <1>3 DEF TryPop, rxLocals, SamplesCoherent
<1>4. CASE UNCHANGED <<info, copied, queue>>
  BY <1>4 DEF SamplesCoherent
<1> QED
  BY <1>1, <1>2, <1>3, <1>4
  DEF Next, RxStep, ReceiveFrame, SetTurnState, UpdateFlag, GoStale, vars, rxLocals

\* Stored and queued samples are coherent with the map at every moment.
THEOREM SamplesCorrect == Spec => []SamplesCoherent
BY InitType, StepType, InitSamples, StepSamples, PTL DEF Spec

\* No step takes the turn state machine from one turn to another.
THEOREM TurnsEndStraightCorrect == Spec => TurnsEndStraight
<1> DEFINE DecisionOK ==
      rxPc = "set" => (next # current => "straight" \in {current, next})
<1>1. Init => DecisionOK
  BY DEF Init
<1>2. TypeOK /\ DecisionOK /\ [Next]_vars => DecisionOK'
  <2> SUFFICES ASSUME TypeOK, DecisionOK, [Next]_vars PROVE DecisionOK'
    OBVIOUS
  <2>1. CASE ReceiveFrame
    <3>1. PICK ego \in EgoVehicles :
            current' = turnState /\ next' = DecideTurnState(turnState, ego)
      BY <2>1 DEF ReceiveFrame
    <3> QED
      BY <3>1, DecideEndsStraight DEF TypeOK
  <2>2. CASE ~ReceiveFrame
    BY <2>2 DEF Next, RxStep, SetTurnState, UpdateFromCan, ReadInfo, PushLatest, UpdateFlag,
       GoStale, TryPop, vars, rxLocals
  <2> QED
    BY <2>1, <2>2
<1>3. ModeInv /\ DecisionOK /\ [Next]_vars =>
        [turnState' # turnState => "straight" \in {turnState, turnState'}]_vars
  BY DEF ModeInv, LocalsFollow, Next, RxStep, ReceiveFrame, SetTurnState, UpdateFromCan,
     ReadInfo, PushLatest, UpdateFlag, GoStale, TryPop, vars, rxLocals
<1> QED
  BY <1>1, <1>2, <1>3, TypeCorrect, ModeInvariant, PTL DEF Spec, TurnsEndStraight
=============================================================================
