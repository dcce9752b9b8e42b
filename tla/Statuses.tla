------------------------------ MODULE Statuses ------------------------------
(***************************************************************************)
(* The two kinds of status topic, each for itself: this vehicle's status   *)
(* on its way out (SelfPublish) and the lights' on their way in            *)
(* (TrafficLights).  A behaviour exercises one; the other rests.           *)
(***************************************************************************)
EXTENDS SelfPublish, FiniteSets

CONSTANTS
  TopicIds, Payloads, TableSize, TimeModulus, InvalidId, CommErrorId, LightPeriod,
  MaxPublications   \* of TrafficLights

\* The table has a place for id 0, and none for the two ids that are no light's.
ASSUME LightsAssumption ==
  /\ TopicIds \subseteq Nat /\ IsFiniteSet(TopicIds)
  /\ Payloads \in [TopicIds -> SUBSET [color : Nat, timeLeft : Nat, stamped : BOOLEAN]]
  /\ TableSize \in Nat \ {0} /\ TimeModulus \in Nat \ {0}
  /\ CommErrorId \in Nat /\ TableSize <= CommErrorId
  /\ InvalidId \in Nat /\ CommErrorId < InvalidId
  /\ LightPeriod \in Nat /\ 1 < LightPeriod
  /\ MaxPublications \in Nat

VARIABLES
  exercised,   \* "own" or "lights"
  lightMessages, lightConnected,   \* retained and connected of TrafficLights
  lightsPublished, inbox, table, candidate, linked, enabled, lastActive, elapsed, txPc, self,
  frame

Lights == INSTANCE TrafficLights WITH
  publications <- lightsPublished, retained <- lightMessages, connected <- lightConnected

ownVars == vars
lightVars == <<lightMessages, lightConnected, lightsPublished, inbox, table, candidate, linked,
               enabled, lastActive, elapsed, txPc, self, frame>>
allVars == <<exercised, ownVars, lightVars>>

AllInit ==
  /\ exercised \in {"own", "lights"}
  /\ Init /\ Lights!Init
  /\ exercised = "own" => linked = 0

Own(step) == exercised = "own" /\ step /\ UNCHANGED <<exercised, lightVars>>
Light(step) == exercised = "lights" /\ step /\ UNCHANGED <<exercised, ownVars>>

AllNext == Own(Next) \/ Light(Lights!Next)

\* The fairness of the two parts.
AllSpec ==
  /\ AllInit /\ [][AllNext]_allVars
  /\ WF_allVars(Own(MqttStep))
  /\ WF_allVars(Light(Lights!OnMessage)) /\ WF_allVars(Light(Lights!TxStep))

-----------------------------------------------------------------------------
(***************************************************************************)
(* The lights' properties; the own status's are those of SelfPublish.      *)
(***************************************************************************)
\* TrafficLights' property of that name: a frame is about the light of this lane, and
\* says what one message of that light said.
LightFramesAreTrue == Lights!LightFramesAreTrue

\* TrafficLights' two liveness properties: once candidate mode has settled, the last
\* status of the lane's light reaches the RTOS, and an outage is told.
LightStatusSettles == Lights!LastStatusReachesDriver /\ Lights!OutageIsReported
=============================================================================
