----------------------------- MODULE MqttThread -----------------------------
(***************************************************************************)
(* The MQTT side of the node: the thread that publishes the latest own     *)
(* sample and sweeps out silent vehicles once per period, the callbacks    *)
(* that the mosquitto network loop runs on its own thread, and the table   *)
(* of other vehicles they share.  The broker and the other vehicles are    *)
(* external: retained status, the last will, and a QoS 0 channel that      *)
(* loses what was under way when the connection breaks.                    *)
(*                                                                         *)
(* Time is counted in passes of the MQTT thread (MQTT_THREAD_SLEEP_MS).    *)
(***************************************************************************)
EXTENDS Naturals, Sequences, FiniteSets

CONSTANTS
  VehicleIds,     \* ids with a place in the table
  SelfId,         \* the id of this vehicle
  NoOne,          \* no candidate is set
  Samples,        \* VehicleInfo contents
  NoInfo,         \* no sample; as a payload, the empty one
  Timeout,        \* OTHER_VEHICLE_TIMEOUT_MS, as the limit of an age, in passes
  CleanupPeriod,  \* the same constant, as the time between sweeps, in passes
  InboxBound      \* bounds the messages the broker has under way to us

ASSUME MqttAssumption ==
  /\ IsFiniteSet(VehicleIds)
  /\ NoOne \notin VehicleIds
  /\ NoInfo \notin Samples
  /\ Timeout \in Nat /\ CleanupPeriod \in Nat \ {0}

VARIABLES
  others,          \* OtherVehicleManager.table, NoInfo where not valid
  age,             \* passes since last_updated_ms (saturating)
  candidate,       \* OtherVehicleManager.candidate: its id, or NoOne
  queue,           \* VehiclePublishQueue, NoInfo if nothing is pending
  connected,       \* MqttHandler.connected
  mqttPc,          \* where the MQTT thread is in its loop
  cleanupElapsed,  \* local of mqtt_thread_main, in passes
  racing,          \* ids updated later than the clock value a sweep has read
  \* external
  onAir,           \* the other vehicles whose MQTT session is alive
  retained,        \* what the broker retains on each status topic
  inbox,           \* messages under way to us
  \* history
  departed         \* ids whose empty status was the last one received

table == <<others, age, candidate>>
thread == <<mqttPc, cleanupElapsed>>
broker == <<onAir, retained, inbox>>
vars == <<table, queue, connected, thread, racing, broker, departed>>

Peers == VehicleIds \ {SelfId}
Oldest == Timeout + CleanupPeriod + 1   \* where ages saturate

Message(id, sample) == [id |-> id, sample |-> sample]
Messages == [id : VehicleIds, sample : Samples \cup {NoInfo}]

Init ==
  /\ others = [id \in VehicleIds |-> NoInfo]
  /\ age = [id \in VehicleIds |-> 0]
  /\ candidate = NoOne
  /\ queue = NoInfo
  /\ connected = FALSE
  /\ mqttPc = "publish" /\ cleanupElapsed = 0
  /\ racing = {}
  /\ onAir \in SUBSET Peers
  /\ retained \in [VehicleIds -> Samples \cup {NoInfo}]
  /\ inbox = <<>>
  /\ departed = {}

-----------------------------------------------------------------------------
(***************************************************************************)
(* The MQTT thread.                                                        *)
(***************************************************************************)

\* The broker forwards a status message to every subscriber, us included.
Forward(id, sample) ==
  inbox' = IF connected /\ Len(inbox) < InboxBound
           THEN Append(inbox, Message(id, sample)) ELSE inbox

\* Mutant: the sweep is a pass late.
CleanupLate(elapsed) == elapsed > CleanupPeriod
CleanupDue(elapsed) == elapsed >= CleanupPeriod

\* publish_latest_self_vehicle: a sample is taken only while connected, and is
\* gone whether mosquitto_publish then works or not.  The test, the pop and the
\* sending are one step here, as nothing in between reaches the table; SelfPublish
\* has them apart.
PublishLatest ==
  /\ mqttPc = "publish"
  /\ \/ /\ connected /\ queue # NoInfo
        /\ queue' = NoInfo
        /\ \/ /\ SelfId \in VehicleIds
              /\ retained' = [retained EXCEPT ![SelfId] = queue]
              /\ Forward(SelfId, queue)
           \/ UNCHANGED <<retained, inbox>>
     \/ /\ ~connected \/ queue = NoInfo
        /\ UNCHANGED <<queue, retained, inbox>>
  /\ cleanupElapsed' = cleanupElapsed + 1
  /\ mqttPc' = IF CleanupDue(cleanupElapsed') THEN "cleanup" ELSE "sleep"
  /\ UNCHANGED <<table, connected, racing, onAir, departed>>

\* other_vehicle_manager_cleanup_stale reads the clock before it takes the lock.
ReadClock ==
  /\ mqttPc = "cleanup"
  /\ mqttPc' = "sweep"
  /\ racing' = {}
  /\ UNCHANGED <<table, queue, connected, cleanupElapsed, broker, departed>>

\* Mutant: the vehicle the RTOS is being told about is never dropped.
IsStaleOther(id) == others[id] # NoInfo /\ age[id] > Timeout /\ id # candidate

\* The age is an unsigned difference: of a vehicle updated after the clock was
\* read it wraps around and is larger than any timeout.
IsStale(id) == others[id] # NoInfo /\ (age[id] > Timeout \/ id \in racing)

\* Mutant: the candidate outlives its entry.
CandidateKept == candidate
CandidateLeft == IF candidate \in VehicleIds /\ IsStale(candidate) THEN NoOne ELSE candidate

Sweep ==
  /\ mqttPc = "sweep"
  /\ others' = [id \in VehicleIds |-> IF IsStale(id) THEN NoInfo ELSE others[id]]
  /\ candidate' = CandidateLeft
  /\ cleanupElapsed' = 0
  /\ racing' = {}
  /\ mqttPc' = "sleep"
  /\ UNCHANGED <<age, queue, connected, broker, departed>>

EndPass ==
  /\ mqttPc = "sleep"
  /\ mqttPc' = "publish"
  /\ age' = [id \in VehicleIds |-> IF age[id] < Oldest THEN age[id] + 1 ELSE Oldest]
  /\ UNCHANGED <<others, candidate, queue, connected, cleanupElapsed, racing, broker, departed>>

MqttStep == PublishLatest \/ ReadClock \/ Sweep \/ EndPass

-----------------------------------------------------------------------------
(***************************************************************************)
(* Callbacks of the network loop.                                          *)
(***************************************************************************)

\* Mutant: our own status is not told apart.
AcceptedAny(m) == m.sample # NoInfo

\* on_message: an empty payload and our own status are ignored; anything else
\* replaces the entry of its vehicle and stamps it with the time of arrival.
Accepted(m) == m.sample # NoInfo /\ m.id # SelfId

OnMessage ==
  /\ inbox # <<>>
  /\ inbox' = Tail(inbox)
  /\ LET m == Head(inbox)
     IN  /\ others' = IF Accepted(m) THEN [others EXCEPT ![m.id] = m.sample] ELSE others
         /\ age' = IF Accepted(m) THEN [age EXCEPT ![m.id] = 0] ELSE age
         /\ \/ racing' = racing
            \/ /\ Accepted(m) /\ mqttPc = "sweep"   \* the clock has moved on since
               /\ racing' = racing \cup {m.id}
         /\ departed' = IF m.sample = NoInfo THEN departed \cup {m.id} ELSE departed \ {m.id}
  /\ UNCHANGED <<candidate, queue, connected, thread, onAir, retained>>

\* on_connect subscribes, and the broker answers with what it retains.
OnConnect ==
  /\ ~connected
  /\ connected' = TRUE
  /\ inbox' \in {s \in [1..Cardinality({id \in VehicleIds : retained[id] # NoInfo}) -> Messages] :
                   {s[i] : i \in DOMAIN s} =
                     {Message(id, retained[id]) : id \in {v \in VehicleIds : retained[v] # NoInfo}}}
  /\ UNCHANGED <<table, queue, thread, racing, onAir, retained, departed>>

\* The broker may find our session broken and publish our own last will.
OnDisconnect ==
  /\ connected
  /\ connected' = FALSE
  /\ inbox' = <<>>
  /\ \/ retained' = retained
     \/ /\ SelfId \in VehicleIds
        /\ retained' = [retained EXCEPT ![SelfId] = NoInfo]
  /\ UNCHANGED <<table, queue, thread, racing, onAir, departed>>

-----------------------------------------------------------------------------
(***************************************************************************)
(* The other vehicles and the broker.                                      *)
(***************************************************************************)
PeerAppears(id) ==
  /\ id \notin onAir
  /\ onAir' = onAir \cup {id}
  /\ UNCHANGED <<table, queue, connected, thread, racing, retained, inbox, departed>>

PeerPublishes(id) ==
  /\ id \in onAir
  /\ \E sample \in Samples :
       /\ retained' = [retained EXCEPT ![id] = sample]
       /\ Forward(id, sample)
  /\ UNCHANGED <<table, queue, connected, thread, racing, onAir, departed>>

\* The session breaks: the broker publishes the last will, which also clears
\* the retained status.
PeerDies(id) ==
  /\ id \in onAir
  /\ onAir' = onAir \ {id}
  /\ retained' = [retained EXCEPT ![id] = NoInfo]
  /\ Forward(id, NoInfo)
  /\ UNCHANGED <<table, queue, connected, thread, racing, departed>>

\* mqtt_handler_cleanup ends with a DISCONNECT: no will, and the status stays.
PeerLeaves(id) ==
  /\ id \in onAir
  /\ onAir' = onAir \ {id}
  /\ UNCHANGED <<table, queue, connected, thread, racing, retained, inbox, departed>>

PeerStep ==
  \E id \in Peers : PeerAppears(id) \/ PeerPublishes(id) \/ PeerDies(id) \/ PeerLeaves(id)

(***************************************************************************)
(* The CAN threads, as far as this module can see: one queues samples, the *)
(* other sets the candidate from a copy of the table that may be old.      *)
(***************************************************************************)
CanStep ==
  \/ /\ queue' \in Samples
     /\ UNCHANGED <<table, connected, thread, racing, broker, departed>>
  \/ /\ candidate' \in VehicleIds \cup {NoOne}
     /\ UNCHANGED <<others, age, queue, connected, thread, racing, broker, departed>>

Next == MqttStep \/ OnMessage \/ OnConnect \/ OnDisconnect \/ PeerStep \/ CanStep

\* The MQTT thread only ever waits for its own sleep, and the network loop
\* takes what has arrived.
Spec == Init /\ [][Next]_vars /\ WF_vars(MqttStep) /\ WF_vars(OnMessage)

-----------------------------------------------------------------------------
(***************************************************************************)
(* Properties.                                                             *)
(***************************************************************************)

\* Every variable keeps to the values its C counterpart can hold.
TypeOK ==
  /\ others \in [VehicleIds -> Samples \cup {NoInfo}]
  /\ age \in [VehicleIds -> 0..Oldest]
  /\ candidate \in VehicleIds \cup {NoOne}
  /\ queue \in Samples \cup {NoInfo}
  /\ connected \in BOOLEAN
  /\ mqttPc \in {"publish", "cleanup", "sweep", "sleep"}
  /\ cleanupElapsed \in 0..CleanupPeriod
  /\ racing \in SUBSET VehicleIds
  /\ onAir \in SUBSET Peers
  /\ retained \in [VehicleIds -> Samples \cup {NoInfo}]
  /\ inbox \in Seq(Messages)
  /\ departed \in SUBSET VehicleIds

\* No vehicle stays in the table without news for longer than the timeout and
\* one cleanup period together, whatever the connection does: the candidate the
\* RTOS is told about was heard within that time.
StaleBounded ==
  \A id \in VehicleIds : others[id] # NoInfo => age[id] <= Timeout + CleanupPeriod

\* Our own status, which the wildcard subscription brings back to us, live or
\* retained, never makes us one of the other vehicles.
OwnStatusIgnored == SelfId \in VehicleIds => others[SelfId] = NoInfo

\* A vehicle that is dropped is taken back as the candidate in the same locked
\* section, at whatever moment the CAN TX thread set it (other_vehicle_manager.c:82):
\* a candidate without an entry is only ever one that was set afterwards, from an
\* older copy of the table.
DroppedIsNotCandidate ==
  [][\A id \in VehicleIds :
       (others[id] # NoInfo /\ others'[id] = NoInfo) => candidate' # id]_vars

\* While we stay connected, a vehicle that has gone for good leaves the table,
\* whether its session broke, it said goodbye, or the broker still retains it.
GoneIsForgotten ==
  \A id \in Peers : <>[](connected /\ id \notin onAir) => <>[](others[id] = NoInfo)

\* The comments on the last will (mqtt_handler.c:135-143, mqtt_topics.h:10-11)
\* say that the empty status tells the others at once that a vehicle has left:
\* after it was received, the vehicle is no longer in the table.
LastWillRemoves == \A id \in departed : others[id] = NoInfo

\* OTHER_VEHICLE_TIMEOUT_MS is how long a vehicle may be silent: a vehicle
\* heard within that time is not dropped.
FreshIsKept ==
  [][\A id \in VehicleIds :
       (others[id] # NoInfo /\ others'[id] = NoInfo) => age[id] > Timeout]_vars
=============================================================================
