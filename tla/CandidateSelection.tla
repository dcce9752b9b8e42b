------------------------- MODULE CandidateSelection -------------------------
(***************************************************************************)
(* Which of the known vehicles the RTOS has to be told about: the nearest  *)
(* one whose announced movement conflicts with ours in a shared zone.      *)
(* These are the pure functions of can_tx_thread.c; CandidateScan has the  *)
(* loop that computes SelectCandidate.                                     *)
(***************************************************************************)
EXTENDS MapService

CONSTANTS
  VehicleIds,  \* ids under which OtherVehicleManager keeps vehicles
  SelfId,      \* the id of this vehicle
  NoOne        \* no candidate is set in OtherVehicleManager

ASSUME IdsAssumption ==
  /\ VehicleIds \subseteq Nat /\ IsFiniteSet(VehicleIds)
  /\ SelfId \in Nat
  /\ NoOne \notin VehicleIds

NoVehicle == 0     \* CANDIDATE_ID_NONE: the same value as an id

Tables == [VehicleIds -> VehicleInfos \cup {NoInfo}]

(***************************************************************************)
(* The code takes the first zone of our own list that the other one lists. *)
(***************************************************************************)
SharedZones(self, other) == self.zones \cap other.zones
FirstOf(zones) == CHOOSE z \in zones : \A y \in zones : z <= y
SharedZone(self, other) == FirstOf(SharedZones(self, other))

(***************************************************************************)
(* The kinds of conflict the RTOS distinguishes; 0 is no conflict.         *)
(***************************************************************************)
TypeMask(self, other) ==
  CASE self.turn = "right_turn" /\ other.turn = "straight" -> 1
    [] self.turn = "right_turn" /\ other.turn = "left_turn" -> 2
    [] self.turn = "unprotected_left" /\ other.turn = "straight" -> 4
    [] self.turn = "unprotected_left" /\ other.turn = "right_turn" -> 8
    [] OTHER -> 0

Eligible(self, others, id) ==
  /\ others[id] # NoInfo
  /\ id # SelfId
  /\ SharedZones(self, others[id]) # {}
  /\ TypeMask(self, others[id]) # 0
  /\ SharedZone(self, others[id]) \in LocatedZones

EligibleIds(self, others) == {id \in VehicleIds : Eligible(self, others, id)}

(***************************************************************************)
(* The scan goes through the table in the order of ids and replaces its    *)
(* choice only by a strictly nearer vehicle, so a tie goes to the lower id.*)
(***************************************************************************)
DistanceTo(self, others, id) == Distance[self.pose][others[id].pose]

Preferred(self, others, id, other) ==
  \/ DistanceTo(self, others, id) < DistanceTo(self, others, other)
  \/ /\ DistanceTo(self, others, id) = DistanceTo(self, others, other)
     /\ id <= other

NearestOf(self, others, ids) ==
  CHOOSE id \in ids : \A other \in ids : Preferred(self, others, id, other)

NoSelection == [found |-> FALSE, id |-> NoVehicle]
Selections == {NoSelection} \cup [found : {TRUE}, id : VehicleIds]

SelectCandidate(self, others) ==
  IF EligibleIds(self, others) = {} THEN NoSelection
  ELSE [found |-> TRUE, id |-> NearestOf(self, others, EligibleIds(self, others))]
=============================================================================
