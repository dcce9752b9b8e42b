--------------------------- MODULE MCCandidateTx ----------------------------
(***************************************************************************)
(* CandidateTx on the small intersection of MCMap: this vehicle turns right*)
(* from L4; another one may come straight or turn left across its path, or *)
(* be no conflict.                                                         *)
(***************************************************************************)
EXTENDS CandidateTx, MCMap

MCInfo(pose, turn) ==
  [pose |-> pose, lane |-> LaneOf[pose], turn |-> turn,
   zones |-> ZonesForMovement(LaneOf[pose], MovementFromTurnState(turn))]

MCSelfInfos == {MCInfo("on4", "right_turn")}
MCPeerInfos == {MCInfo("on11", "left_turn"), MCInfo("on4", "straight")}
=============================================================================
