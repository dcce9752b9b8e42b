------------------------------ MODULE V2xNode -------------------------------
(***************************************************************************)
(* The CAN RX and CAN TX threads of one node together: SelfVehicle         *)
(* writes what CandidateTx reads, the flag candidate_vehicle_tx_enabled    *)
(* and this vehicle's state, each under its own lock.  Frames come from    *)
(* the RTOS, and only through them does this vehicle change; the others,   *)
(* the connection and the lights change as in CandidateTx.                 *)
(*                                                                         *)
(* The publish queue is filled here and not emptied: the MQTT thread's     *)
(* part in it is SelfPublish's, and CandidateTx does not look at it.       *)
(***************************************************************************)
EXTENDS CandidateTx

VARIABLES rxPc, frame, current, next, copied, turnState, queue

Rx == INSTANCE SelfVehicle

\* What the RX thread can make of this vehicle on this map: the turns that its lanes
\* allow, and zones as SelfVehicle's SamplesCoherent has them.  SelfInfos, which bounds
\* CandidateTx's environment, must leave room for all of it.
PossibleTurns ==
  {"straight"}
    \cup {Rx!TurnFor(signal, LaneDirection[lane]) : signal \in Rx!Signals, lane \in Lanes}

OwnInfos ==
  {v \in VehicleInfos : /\ v.turn \in PossibleTurns /\ v.lane = LaneOf[v.pose]
                        /\ Rx!ZonesMatchPose(v)}

ASSUME OwnInfosAssumption == OwnInfos \subseteq SelfInfos

rxOnly == <<rxPc, frame, current, next, copied, turnState, queue>>
txOnly == <<candidate, lightCandidate, txPc, flags, self, selection, memory, timers,
            history, quiet>>
nodeVars == <<vars, rxOnly>>

NodeInit == Init /\ Rx!Init

RxThread == Rx!RxStep /\ UNCHANGED <<others, connected, lights, txOnly>>
RxHandler == Rx!HandlerStep /\ UNCHANGED <<others, connected, lights, txOnly>>
SelfExpires == Rx!GoStale /\ UNCHANGED <<others, connected, lights, txOnly>>
TxThread == TxStep /\ UNCHANGED rxOnly
Surroundings ==
  /\ UpdateOther \/ SwitchConnection
  /\ ForgetDropped
  /\ UNCHANGED <<lightCandidate, txPc, flags, self, selection, memory, timers, history, quiet,
                 rxOnly>>

NodeNext == RxThread \/ SelfExpires \/ TxThread \/ Surroundings

\* As in the components: a handler that was entered is finished, and the TX thread
\* waits only for its sleep.
NodeSpec == NodeInit /\ [][NodeNext]_nodeVars /\ WF_nodeVars(RxHandler) /\ WF_nodeVars(TxThread)

-----------------------------------------------------------------------------
(***************************************************************************)
(* Properties.                                                             *)
(***************************************************************************)

\* The composition is one of CandidateTx: what the RX thread does to the flag and
\* to this vehicle is what that module lets its environment do, and it never makes
\* a state outside SelfInfos.
TxAsSpecified == Init /\ [][Next]_vars

\* The conflict zone for which a vehicle is chosen, which its introduction then names,
\* was not behind this vehicle when the TX thread looked, off the lanes: the RX
\* thread's filter on the zones holds for what the TX thread makes of them later.
ReportedZoneIsAhead ==
  [][(selection' # selection /\ selection'.found /\ self.lane = NoLane)
       => SharedZone(self, others[selection'.id]) \notin Behind[self.pose]]_nodeVars

\* Once the turn is over and stays so, the statuses about candidates end, and the last
\* one names no vehicle: whichever frame of the turn was the last, the RX thread has
\* cleared the flag and the TX thread sees that in time.
TurnOverIsTold ==
  <>[](turnState \notin Rx!CandidateModes /\ rxPc = "poll")
    => <>[](~lastActive /\ reported.kind # "vehicle")

\* While this vehicle keeps turning, its state stays fresh and the connection holds,
\* the one vehicle that is in its way is introduced and reported, and stays so.  It
\* must be in the way of the copy of this vehicle's state too: between the TX thread's
\* two reads this one may move and the other change its zones, and the old state
\* with the new zones may be no conflict, though there was one all the time.
BlockerIsTold ==
  \A id \in VehicleIds \ {NoVehicle} :
    <>[](/\ turnState \in Rx!CandidateModes /\ fresh /\ connected
         /\ info # NoInfo
         /\ \A v \in {info, self} \ {NoInfo} : EligibleIds(v, others) = {id})
      => <>[](reported = Report("vehicle", id) /\ introduced = id)
=============================================================================
