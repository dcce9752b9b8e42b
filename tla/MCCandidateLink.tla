-------------------------- MODULE MCCandidateLink ---------------------------
(***************************************************************************)
(* CandidateLink on the intersection of MCMap: this vehicle makes an       *)
(* unprotected left turn from L3 through both zones; another one may come  *)
(* straight through the first or through the second.  There is no traffic  *)
(* light.                                                                  *)
(***************************************************************************)
EXTENDS CandidateLink, MCMap

MCInfo(pose, turn) ==
  [pose |-> pose, lane |-> LaneOf[pose], turn |-> turn,
   zones |-> ZonesForMovement(LaneOf[pose], MovementFromTurnState(turn))]

MCSelfInfos == {MCInfo("on3", "unprotected_left")}
MCNoLights == {}
MCNoLaneLight == [l \in MCLanes |-> "none"]
MCPeerInfos == {MCInfo("on4", "straight"), MCInfo("on11", "straight")}

\* The ages of the statuses are read by no step and by no property of the run.
View == <<inputs, candidate, lightCandidate, txPc, flags, self, selection, memory, timers,
          history, conflict, rtos, linkHistory>>
=============================================================================
