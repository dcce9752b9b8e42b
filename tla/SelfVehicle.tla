---------------------------- MODULE SelfVehicle -----------------------------
(***************************************************************************)
(* The CAN RX thread's handler on_ego_frame and the state it keeps: the    *)
(* turn state machine, the VehicleInfo of this vehicle, the flag that      *)
(* turns candidate transmission on and off, and the one-place publish      *)
(* queue.  The handler takes and releases the manager's lock at each call, *)
(* so every locked section is a step of its own, and the CAN TX and MQTT   *)
(* threads may read between any two of them.                               *)
(***************************************************************************)
EXTENDS MapService

VARIABLES
  rxPc,       \* where the RX thread is in on_ego_frame
  frame,      \* the EgoVehicle being handled
  current,    \* local: turn state read at the start of the handler
  next,       \* local: turn state decided for this frame
  copied,     \* local: the info read back to be pushed, NoInfo without one
  turnState,  \* SelfVehicleManager.turn_state
  info,       \* SelfVehicleManager.info, NoInfo until .valid is set
  fresh,      \* the last update is at most SELF_VEHICLE_FRESHNESS_MS old
  txEnabled,  \* AppContext.candidate_vehicle_tx_enabled
  queue       \* VehiclePublishQueue: .latest while .pending, else NoInfo

rxLocals == <<rxPc, frame, current, next, copied>>
vars == <<rxLocals, turnState, info, fresh, txEnabled, queue>>

Signals == {"none", "right", "left", "both"}   \* the two bits of turn_signal
EgoVehicles == [pose : Poses, signal : Signals]

CandidateModes == {"right_turn", "unprotected_left"}

(***************************************************************************)
(* Leaving a turn takes a frame with the signal off; entering one takes a  *)
(* lane that allows it.  A turning vehicle never goes from one turn to     *)
(* another.                                                                *)
(***************************************************************************)
TurnFor(signal, direction) ==
  CASE signal = "right" /\ direction = "right" -> "right_turn"
    [] signal = "left" /\ direction = "left" -> "left_turn"
    [] signal = "left" /\ direction = "unprotected_left" -> "unprotected_left"
    [] OTHER -> "straight"

\* Mutant: the state is decided from each frame alone.
DecideFromFrame(cur, ego) ==
  IF LaneOf[ego.pose] = NoLane THEN cur ELSE TurnFor(ego.signal, LaneDirection[LaneOf[ego.pose]])

DecideTurnState(cur, ego) ==
  IF cur # "straight"
  THEN IF ego.signal = "none" THEN "straight" ELSE cur
  ELSE IF LaneOf[ego.pose] = NoLane THEN "straight"
       ELSE TurnFor(ego.signal, LaneDirection[LaneOf[ego.pose]])

(***************************************************************************)
(* On a lane the list of conflict zones is rebuilt from the map; off every *)
(* lane the old list is kept, less the zones the vehicle has passed.       *)
(***************************************************************************)
KnownZones == IF info = NoInfo THEN {} ELSE info.zones

\* Mutant: the zones behind the vehicle are not taken out.
UpdatedZonesUnfiltered(pose, turn) ==
  IF LaneOf[pose] # NoLane
  THEN ZonesForMovement(LaneOf[pose], MovementFromTurnState(turn))
  ELSE KnownZones

UpdatedZones(pose, turn) ==
  IF LaneOf[pose] # NoLane
  THEN ZonesForMovement(LaneOf[pose], MovementFromTurnState(turn))
  ELSE KnownZones \ Behind[pose]

GetInfo == IF fresh THEN info ELSE NoInfo

Init ==
  /\ rxPc = "poll"
  /\ frame \in EgoVehicles    \* no frame yet: the local is not read before it is written
  /\ current = "straight"
  /\ next = "straight"
  /\ copied = NoInfo
  /\ turnState = "straight"
  /\ info = NoInfo
  /\ fresh = FALSE
  /\ txEnabled = FALSE
  /\ queue = NoInfo

(***************************************************************************)
(* Steps of the RX thread.                                                 *)
(***************************************************************************)
ReceiveFrame ==
  /\ rxPc = "poll"
  /\ \E ego \in EgoVehicles :
       /\ frame' = ego
       /\ current' = turnState
       /\ next' = DecideTurnState(turnState, ego)
  /\ rxPc' = "set"
  /\ UNCHANGED <<copied, turnState, info, fresh, txEnabled, queue>>

SetTurnState ==
  /\ rxPc = "set"
  /\ turnState' = next
  /\ rxPc' = "update"
  /\ UNCHANGED <<frame, current, next, copied, info, fresh, txEnabled, queue>>

InfoFor(turn) ==
  [pose |-> frame.pose, lane |-> LaneOf[frame.pose], turn |-> turn,
   zones |-> UpdatedZones(frame.pose, turn)]

UpdatedInfo == InfoFor(turnState)

UpdateFromCan ==
  /\ rxPc = "update"
  /\ info' = UpdatedInfo
  /\ fresh' = TRUE
  /\ rxPc' = "read"
  /\ UNCHANGED <<frame, current, next, copied, turnState, txEnabled, queue>>

\* The info is tested and copied in one locked call and pushed in another: it may
\* have gone stale by then.
ReadInfo ==
  /\ rxPc = "read"
  /\ copied' = GetInfo
  /\ rxPc' = IF GetInfo = NoInfo THEN "flag" ELSE "push"
  /\ UNCHANGED <<frame, current, next, turnState, info, fresh, txEnabled, queue>>

PushLatest ==
  /\ rxPc = "push"
  /\ queue' = copied
  /\ copied' = NoInfo
  /\ rxPc' = "flag"
  /\ UNCHANGED <<frame, current, next, turnState, info, fresh, txEnabled>>

\* Mutants: the flag is only ever raised; and the mode before the frame is taken
\* from the turn state that this frame has already replaced.
RaiseFlag(was, is) == IF ~was /\ is THEN is ELSE txEnabled
CompareWithStored(was, is) ==
  IF (turnState \in CandidateModes) # is THEN is ELSE txEnabled

FlagAfter(was, is) == IF was # is THEN is ELSE txEnabled

UpdateFlag ==
  /\ rxPc = "flag"
  /\ txEnabled' = FlagAfter(current \in CandidateModes, next \in CandidateModes)
  /\ rxPc' = "poll"
  /\ UNCHANGED <<frame, current, next, copied, turnState, info, fresh, queue>>

(***************************************************************************)
(* Steps of others: the clock passes the freshness limit, and the MQTT     *)
(* thread takes the queued sample.                                         *)
(***************************************************************************)
GoStale ==
  /\ fresh
  /\ fresh' = FALSE
  /\ UNCHANGED <<rxLocals, turnState, info, txEnabled, queue>>

TryPop ==
  /\ queue # NoInfo
  /\ queue' = NoInfo
  /\ UNCHANGED <<rxLocals, turnState, info, fresh, txEnabled>>

RxStep == ReceiveFrame \/ SetTurnState \/ UpdateFromCan \/ ReadInfo \/ PushLatest \/ UpdateFlag
Next == RxStep \/ GoStale \/ TryPop

(***************************************************************************)
(* A handler that was entered runs to its end: the RX thread is never      *)
(* blocked inside it.  Nothing promises that another frame arrives.        *)
(***************************************************************************)
HandlerStep == SetTurnState \/ UpdateFromCan \/ ReadInfo \/ PushLatest \/ UpdateFlag
Spec == Init /\ [][Next]_vars /\ WF_vars(HandlerStep)

-----------------------------------------------------------------------------
(***************************************************************************)
(* Properties.                                                             *)
(***************************************************************************)

\* Every variable keeps to the values its C counterpart can hold.
TypeOK ==
  /\ rxPc \in {"poll", "set", "update", "read", "push", "flag"}
  /\ frame \in EgoVehicles
  /\ current \in TurnStates
  /\ next \in TurnStates
  /\ turnState \in TurnStates
  /\ info \in VehicleInfos \cup {NoInfo}
  /\ fresh \in BOOLEAN
  /\ txEnabled \in BOOLEAN
  /\ {copied, queue} \subseteq VehicleInfos \cup {NoInfo}

\* The flag is only ever written as a difference between two frames
\* (was_candidate_mode # is_candidate_mode).  It still equals the mode of the
\* turn state machine whenever the RX thread is between frames: no sequence of
\* frames makes candidate transmission stick on, or off.
FlagFollowsMode ==
  rxPc = "poll" => (txEnabled <=> turnState \in CandidateModes)

\* The CAN TX thread reads the flag and the VehicleInfo separately.  The two
\* can disagree on whether the vehicle is in a candidate mode only while the
\* RX thread is inside one call of on_ego_frame.
FlagMatchesInfo ==
  (rxPc = "poll" /\ info # NoInfo) => (txEnabled <=> info.turn \in CandidateModes)

\* What a VehicleInfo says of the conflict zones agrees with where it says the
\* vehicle is: on a lane, exactly the zones of the announced movement; off it,
\* none of the zones already behind.
ZonesMatchPose(v) ==
  IF v.lane # NoLane
  THEN v.zones = ZonesForMovement(v.lane, MovementFromTurnState(v.turn))
  ELSE v.zones \cap Behind[v.pose] = {}

\* The stored VehicleInfo, the copy about to be pushed and the sample handed to the
\* MQTT thread are coherent at every moment, whatever the interleaving of update,
\* read, push and pop.
SamplesCoherent ==
  \A v \in {info, copied, queue} \ {NoInfo} : v.lane = LaneOf[v.pose] /\ ZonesMatchPose(v)

\* The turn state machine never goes from one turn to another without passing
\* through "straight" in between (decide_turn_state keeps a turn until the
\* signal goes off).
TurnsEndStraight ==
  [][turnState' # turnState => "straight" \in {turnState, turnState'}]_vars
=============================================================================
