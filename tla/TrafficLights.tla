--------------------------- MODULE TrafficLights ----------------------------
(***************************************************************************)
(* A traffic light's status on its way to the RTOS: published (retained)   *)
(* by the light, delivered by the broker, parsed by the MQTT handler, kept *)
(* in the traffic light table by the network thread of libmosquitto, and   *)
(* selected and packed into a frame by the CAN TX thread, which may be     *)
(* anywhere in a pass when the table or the connection changes.  It sends  *)
(* the frame once a period, and a start of candidate mode puts it off.     *)
(*                                                                         *)
(* The lights, the broker and the RTOS are external.  The road is reduced  *)
(* to which light governs the lane that this vehicle is on.                *)
(***************************************************************************)
EXTENDS Integers, Sequences, FiniteSets

CONSTANTS
  TopicIds,         \* the ids in topics, and those that linked_tl_id may name
  Payloads,         \* id in a topic |-> [color, timeLeft, stamped] records published to it
  TableSize,        \* MAX_TRAFFIC_LIGHTS
  TimeModulus,      \* 2^4: time_left in a frame
  InvalidId,        \* INVALID_ID, 0xFF
  CommErrorId,      \* TL_STATUS_ID_COMM_ERROR
  LightPeriod,      \* TRAFFIC_LIGHT_TX_PERIOD_MS, in ticks of CAN_TX_TICK_MS
  MaxPublications   \* bounds what the lights publish

\* Slots lie below CommErrorId, and that below InvalidId.
NoStatus == [color |-> 0, timeLeft |-> 0, number |-> 0]
Slots == 0..TableSize - 1

VARIABLES
  publications,  \* how many statuses have been published
  retained,      \* the broker: topic id |-> the last message published to it
  inbox,         \* messages from the broker to this vehicle
  connected,     \* MqttHandler.connected
  table,         \* TrafficLightManager.table, NoStatus where it is not valid
  candidate,     \* TrafficLightManager.candidate and candidate_id
  linked,        \* the id in this vehicle's linked_tl_id
  enabled,       \* AppContext.candidate_vehicle_tx_enabled
  lastActive,    \* local of the TX thread: last_active
  elapsed,       \* local of the TX thread: traffic_light_elapsed_ms, in ticks
  txPc,          \* "begin", "copy", "check", "select" or "send"
  self,          \* the TX thread's copy of linked
  frame          \* the last traffic light frame sent

road == <<publications, retained, linked, enabled>>
timing == <<lastActive, elapsed>>
tx == <<timing, candidate, txPc, self, frame>>
vars == <<road, inbox, connected, table, tx>>

NoMessage == [id |-> InvalidId, color |-> 0, timeLeft |-> 0, stamped |-> FALSE, number |-> 0]
NoFrame == [id |-> CommErrorId, color |-> 0, timeLeft |-> 0, number |-> 0]

Init ==
  /\ publications = 0 /\ retained = [id \in TopicIds |-> NoMessage]
  /\ inbox = <<>> /\ connected = FALSE
  /\ table = [slot \in Slots |-> NoStatus]
  /\ candidate = [id |-> InvalidId, status |-> NoStatus]
  /\ linked \in TopicIds \cup {InvalidId} /\ self = InvalidId
  /\ enabled = FALSE /\ lastActive = FALSE /\ elapsed = LightPeriod \div 2
  /\ txPc = "begin" /\ frame = NoFrame

-----------------------------------------------------------------------------
(***************************************************************************)
(* The lights and the broker (external).                                   *)
(***************************************************************************)
Message(id, payload) ==
  [id |-> id, color |-> payload.color, timeLeft |-> payload.timeLeft,
   stamped |-> payload.stamped, number |-> publications + 1]

Publish ==
  /\ publications < MaxPublications
  /\ \E id \in TopicIds : \E payload \in Payloads[id] :
       /\ retained' = [retained EXCEPT ![id] = Message(id, payload)]
       /\ inbox' = IF connected THEN Append(inbox, Message(id, payload)) ELSE inbox
  /\ publications' = publications + 1
  /\ UNCHANGED <<connected, table, linked, enabled, tx>>

\* Another lane, perhaps with another light or with none.
Drive ==
  /\ linked' \in TopicIds \cup {InvalidId}
  /\ UNCHANGED <<publications, retained, enabled, inbox, connected, table, tx>>

\* The CAN RX thread enters or leaves candidate mode.
SwitchMode ==
  /\ enabled' = ~enabled
  /\ UNCHANGED <<publications, retained, linked, inbox, connected, table, tx>>

-----------------------------------------------------------------------------
(***************************************************************************)
(* The MQTT handler.  It subscribes at every connect and is then sent what *)
(* the broker retains, in any order; what was under way is lost with the   *)
(* connection, while the table keeps what it has.                          *)
(***************************************************************************)
Orders(messages) ==
  {order \in [1..Cardinality(messages) -> messages] :
     \A i, j \in DOMAIN order : order[i] = order[j] => i = j}

OnConnect ==
  /\ ~connected /\ connected' = TRUE
  /\ inbox' \in Orders({retained[id] : id \in TopicIds} \ {NoMessage})
  /\ UNCHANGED <<road, table, tx>>

OnDisconnect ==
  /\ connected /\ connected' = FALSE
  /\ inbox' = <<>>
  /\ UNCHANGED <<road, table, tx>>

\* on_message with traffic_light_from_json: all three fields are required.
Accepted(m) == m.id # InvalidId /\ m.stamped

Status(m) == [color |-> m.color, timeLeft |-> m.timeLeft, number |-> m.number]

\* traffic_light_manager_update.  Mutants: an entry is written once; and an id past
\* the table lands in it all the same.
UpdateIfNew(t, id, status) ==
  IF id < TableSize /\ t[id] = NoStatus THEN [t EXCEPT ![id] = status] ELSE t
UpdateWrapped(t, id, status) == [t EXCEPT ![id % TableSize] = status]
Update(t, id, status) == IF id < TableSize THEN [t EXCEPT ![id] = status] ELSE t

OnMessage ==
  /\ inbox # <<>>
  /\ LET m == Head(inbox)
     IN  table' = IF Accepted(m) THEN Update(table, m.id, Status(m)) ELSE table
  /\ inbox' = Tail(inbox)
  /\ UNCHANGED <<road, connected, tx>>

-----------------------------------------------------------------------------
(***************************************************************************)
(* A pass of the TX thread, as far as the light's frame is concerned: when *)
(* it is due, and send_candidate_traffic_light from the copy of this       *)
(* vehicle's state that the pass has taken to the frame.                   *)
(***************************************************************************)
\* The frame is due once a period, but not in a pass that starts candidate mode, which
\* sets the counter back to half of one.
Starts == enabled /\ ~lastActive
IsDue == elapsed >= LightPeriod /\ ~Starts
ElapsedAfterSkip == (IF Starts THEN LightPeriod \div 2 ELSE elapsed) + 1

\* Mutant: that the mode was on already is forgotten.
TxBeginForgetful ==
  /\ txPc = "begin"
  /\ IF IsDue THEN txPc' = "copy" /\ elapsed' = elapsed
              ELSE txPc' = "begin" /\ elapsed' = ElapsedAfterSkip
  /\ UNCHANGED <<road, inbox, connected, table, lastActive, candidate, self, frame>>

TxBegin ==
  /\ txPc = "begin"
  /\ lastActive' = enabled
  /\ IF IsDue THEN txPc' = "copy" /\ elapsed' = elapsed
              ELSE txPc' = "begin" /\ elapsed' = ElapsedAfterSkip
  /\ UNCHANGED <<road, inbox, connected, table, candidate, self, frame>>

TxCopy ==
  /\ txPc = "copy" /\ txPc' = "check"
  /\ self' = linked
  /\ UNCHANGED <<road, inbox, connected, table, timing, candidate, frame>>

\* Mutant: the time left is not cut to the bits of its field.
LightFrameUncut(id, status) ==
  [id |-> id, color |-> status.color, timeLeft |-> status.timeLeft, number |-> status.number]
LightFrame(id, status) ==
  [id |-> id, color |-> status.color, timeLeft |-> status.timeLeft % TimeModulus,
   number |-> status.number]
NoLightFrame == [NoFrame EXCEPT !.id = 0]
UnavailableFrame == NoFrame

\* Mutant: without a connection nothing is sent.
TxCheckSilent ==
  /\ txPc = "check"
  /\ IF connected THEN txPc' = "select" /\ elapsed' = elapsed
                  ELSE txPc' = "begin" /\ elapsed' = 1
  /\ UNCHANGED <<road, inbox, connected, table, lastActive, candidate, self, frame>>

\* The counter starts again with the frame, and the tick's sleep is added to it.
TxCheck ==
  /\ txPc = "check"
  /\ IF connected THEN txPc' = "select" /\ elapsed' = elapsed /\ frame' = frame
                  ELSE txPc' = "begin" /\ elapsed' = 1 /\ frame' = UnavailableFrame
  /\ UNCHANGED <<road, inbox, connected, table, lastActive, candidate, self>>

\* traffic_light_manager_select_candidate: the status is copied with the id under
\* one lock.  Mutant: a light without a status leaves the candidate as it is.
SelectedOrLast(t, id) ==
  IF id < TableSize /\ t[id] # NoStatus THEN [id |-> id, status |-> t[id]] ELSE candidate
Selected(t, id) ==
  IF id < TableSize /\ t[id] # NoStatus THEN [id |-> id, status |-> t[id]]
                                        ELSE [id |-> InvalidId, status |-> NoStatus]

TxSelect ==
  /\ txPc = "select" /\ txPc' = "send"
  /\ candidate' = Selected(table, self)
  /\ UNCHANGED <<road, inbox, connected, table, timing, self, frame>>

TxSend ==
  /\ txPc = "send" /\ txPc' = "begin"
  /\ elapsed' = 1
  /\ frame' = IF candidate.id # InvalidId THEN LightFrame(candidate.id, candidate.status)
              ELSE NoLightFrame
  /\ UNCHANGED <<road, inbox, connected, table, lastActive, candidate, self>>

TxStep == TxBegin \/ TxCopy \/ TxCheck \/ TxSelect \/ TxSend
Next == Publish \/ Drive \/ SwitchMode \/ OnConnect \/ OnDisconnect \/ OnMessage \/ TxStep

\* The TX thread's loop waits only for its sleep.  That it goes on does not make the
\* frame due: a mode that restarts within half a period each time puts it off for ever.
Spec == Init /\ [][Next]_vars /\ WF_vars(OnMessage) /\ WF_vars(TxStep)

-----------------------------------------------------------------------------
(***************************************************************************)
(* Properties.                                                             *)
(***************************************************************************)
Numbered(status) == status.number \in 0..publications

\* Every variable keeps to the values its C counterpart can hold.
TypeOK ==
  /\ publications \in 0..MaxPublications
  /\ \A i \in DOMAIN inbox : inbox[i].id \in TopicIds /\ inbox[i].number \in 1..publications
  /\ connected \in BOOLEAN
  /\ DOMAIN table = Slots /\ \A slot \in Slots : Numbered(table[slot])
  /\ candidate.id \in Slots \cup {InvalidId} /\ Numbered(candidate.status)
  /\ {linked, self} \subseteq TopicIds \cup {InvalidId}
  /\ enabled \in BOOLEAN /\ lastActive \in BOOLEAN /\ elapsed \in 1..LightPeriod
  /\ txPc \in {"begin", "copy", "check", "select", "send"}
  /\ frame.id \in Slots \cup {CommErrorId} /\ frame.timeLeft \in 0..TimeModulus - 1

\* A frame with a status is about the light of the lane that this vehicle was on when
\* the pass took its copy, though the network thread updates the table and the road changes
\* between the selection and the frame (send_candidate_traffic_light).
FrameIsOfTheLinkedLight ==
  [][frame' # frame /\ frame'.number # 0 => frame'.id = self]_vars

\* What the table has at a place was published by that very light, colour and time
\* left from one message, and never by one that has no place in it (on_message with
\* traffic_light_manager_update).
EntryIsOfItsLight ==
  \A slot \in Slots : table[slot] # NoStatus =>
    /\ slot \in TopicIds /\ table[slot].number <= retained[slot].number
    /\ table[slot].number = retained[slot].number =>
         table[slot] = Status(retained[slot])

\* What the last frame says of a light comes from one message of that light, and is
\* the whole of it if none has been published since.
FrameSaysOneStatus ==
  frame.number # 0 =>
    /\ frame.id \in TopicIds /\ frame.number <= retained[frame.id].number
    /\ frame.number = retained[frame.id].number =>
         frame = LightFrame(frame.id, Status(retained[frame.id]))

\* A frame with a status is about the light of the lane that this vehicle was on when
\* the pass took its copy, and its colour and time left come from one message of that very
\* light, though the network thread updates the table and the road changes between
\* the selection and the frame (send_candidate_traffic_light, on_message).
LightFramesAreTrue ==
  FrameIsOfTheLinkedLight /\ []EntryIsOfItsLight /\ []FrameSaysOneStatus /\ []TypeOK

\* Candidate mode is no longer switched on and off.  Less would do, but not nothing: see
\* Spec.
ModeSettles == <>[][UNCHANGED enabled]_enabled

\* Once the connection holds, this vehicle stays in a lane and candidate mode is on or
\* off for good, the RTOS is told the light's last status, and nothing else any more,
\* if the status has all fields and the light a place in the table: whatever the mode
\* did before, the counter gets to the period (can_tx_thread.c:272, 310, 375).
LastStatusReachesDriver ==
  \A id \in TopicIds \cap Slots :
    (<>[](connected /\ linked = id) /\ ModeSettles) =>
      <>[](retained[id].stamped => frame = LightFrame(id, Status(retained[id])))

\* While the connection is down the RTOS is not left with a light's old status, again
\* once the mode has settled.
OutageIsReported == (<>[]~connected /\ ModeSettles) => <>[](frame = UnavailableFrame)
=============================================================================
