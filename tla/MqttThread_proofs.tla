------------------------- MODULE MqttThread_proofs --------------------------
(***************************************************************************)
(* How long other vehicles stay in the table, and which ones get there,    *)
(* for every timeout and sweep period and every behaviour of the broker.   *)
(***************************************************************************)
EXTENDS MqttThread, FiniteSetTheorems, TLAPS

(***************************************************************************)
(* StaleBounded is not inductive: between two sweeps ages grow.  What they *)
(* have grown since the last sweep is what cleanup_elapsed has counted, or *)
(* one more at the top of the loop, where the count is still to come.      *)
(***************************************************************************)
Counted == IF mqttPc = "publish" THEN cleanupElapsed + 1 ELSE cleanupElapsed

SweepSchedule ==
  /\ mqttPc \in {"publish", "sleep"} => cleanupElapsed < CleanupPeriod
  /\ \A id \in VehicleIds : others[id] # NoInfo => age[id] <= Timeout + Counted

TableInv == TypeOK /\ SweepSchedule /\ OwnStatusIgnored

\* What the assumption on the constants gives the arithmetic below.
LEMMA Constants ==
  /\ Timeout \in Nat /\ CleanupPeriod \in Nat /\ 0 < CleanupPeriod
  /\ Oldest \in Nat /\ Timeout + CleanupPeriod < Oldest
BY MqttAssumption DEF Oldest

\* A forwarded message is appended to those under way, or dropped.
LEMMA ForwardType ==
  ASSUME inbox \in Seq(Messages), NEW id \in VehicleIds, NEW sample \in Samples \cup {NoInfo},
         Forward(id, sample)
  PROVE  inbox' \in Seq(Messages)
<1>1. Message(id, sample) \in Messages
  BY DEF Message, Messages
<1> QED
  BY <1>1 DEF Forward

\* The retained messages that answer a subscription are messages.
LEMMA OnConnectType ==
  ASSUME OnConnect
  PROVE  inbox' \in Seq(Messages)
<1> DEFINE ids == {id \in VehicleIds : retained[id] # NoInfo}
<1>1. Cardinality(ids) \in Nat
  BY MqttAssumption, FS_Subset, FS_CardinalityType
<1>2. inbox' \in [1..Cardinality(ids) -> Messages]
  BY DEF OnConnect
<1> HIDE DEF ids
<1> QED
  BY <1>1, <1>2

\* The message at the head is one of those sent.
LEMMA HeadType ==
  ASSUME inbox \in Seq(Messages), inbox # <<>>
  PROVE  /\ Tail(inbox) \in Seq(Messages)
         /\ Head(inbox).id \in VehicleIds
         /\ Head(inbox).sample \in Samples \cup {NoInfo}
<1>1. Head(inbox) \in Messages /\ Tail(inbox) \in Seq(Messages)
  OBVIOUS
<1> QED
  BY <1>1 DEF Messages

-----------------------------------------------------------------------------
(***************************************************************************)
(* One lemma per actor: each step of the MQTT thread, each callback, each  *)
(* step of the broker and of the CAN threads keeps the invariant.          *)
(***************************************************************************)
LEMMA PublishKeeps ==
  ASSUME TableInv, PublishLatest
  PROVE  TableInv'
<1>1. retained' \in [VehicleIds -> Samples \cup {NoInfo}] /\ queue' \in Samples \cup {NoInfo}
  BY DEF TableInv, TypeOK, PublishLatest
<1>2. inbox' \in Seq(Messages)
  BY ForwardType DEF TableInv, TypeOK, PublishLatest
<1>3. /\ cleanupElapsed < CleanupPeriod /\ cleanupElapsed \in Nat
      /\ cleanupElapsed' = cleanupElapsed + 1
      /\ mqttPc' = IF cleanupElapsed' >= CleanupPeriod THEN "cleanup" ELSE "sleep"
  BY Constants DEF TableInv, TypeOK, SweepSchedule, PublishLatest, CleanupDue
<1>4. TypeOK'
  BY <1>1, <1>2, <1>3, Constants DEF TableInv, TypeOK, PublishLatest, table
<1>5. SweepSchedule'
  BY <1>3, Constants DEF TableInv, SweepSchedule, Counted, PublishLatest, table
<1>6. OwnStatusIgnored'
  BY DEF TableInv, OwnStatusIgnored, PublishLatest, table
<1> QED
  BY <1>4, <1>5, <1>6 DEF TableInv

LEMMA ReadClockKeeps ==
  ASSUME TableInv, ReadClock
  PROVE  TableInv'
<1>1. TypeOK'
  BY DEF TableInv, TypeOK, ReadClock, table, broker
<1>2. SweepSchedule'
  BY DEF TableInv, SweepSchedule, Counted, ReadClock, table
<1> QED
  BY <1>1, <1>2 DEF TableInv, OwnStatusIgnored, ReadClock, table

\* What a sweep leaves in the table is no older than the timeout.
LEMMA SweepKeeps ==
  ASSUME TableInv, Sweep
  PROVE  TableInv'
<1>1. candidate' \in VehicleIds \cup {NoOne}
  BY DEF TableInv, TypeOK, Sweep, CandidateLeft
<1>2. others' \in [VehicleIds -> Samples \cup {NoInfo}]
  BY DEF TableInv, TypeOK, Sweep
<1>3. TypeOK'
  BY <1>1, <1>2, Constants DEF TableInv, TypeOK, Sweep, broker
<1>4. ASSUME NEW id \in VehicleIds, others'[id] # NoInfo
      PROVE  age'[id] <= Timeout + Counted'
  <2>1. age[id] \in Nat /\ ~(age[id] > Timeout)
    BY <1>4, Constants DEF TableInv, TypeOK, Sweep, IsStale
  <2>2. age' = age /\ Counted' = 0
    BY DEF Sweep, Counted
  <2> QED
    BY <2>1, <2>2, Constants
<1>5. SweepSchedule'
  BY <1>4, Constants DEF SweepSchedule, Sweep
<1>6. OwnStatusIgnored'
  BY DEF TableInv, OwnStatusIgnored, Sweep
<1> QED
  BY <1>3, <1>5, <1>6 DEF TableInv

\* A pass of time ages everyone by one, and is counted at the top of the loop.
LEMMA EndPassKeeps ==
  ASSUME TableInv, EndPass
  PROVE  TableInv'
<1>1. /\ age' = [id \in VehicleIds |-> IF age[id] < Oldest THEN age[id] + 1 ELSE Oldest]
      /\ age \in [VehicleIds -> 0..Oldest]
      /\ mqttPc = "sleep" /\ mqttPc' = "publish"
      /\ others' = others /\ cleanupElapsed' = cleanupElapsed
      /\ cleanupElapsed \in Nat /\ cleanupElapsed < CleanupPeriod
  BY Constants DEF TableInv, TypeOK, SweepSchedule, EndPass
<1>2. ASSUME NEW id \in VehicleIds
      PROVE  age'[id] \in 0..Oldest /\ age'[id] <= age[id] + 1
  BY <1>1, <1>2, Constants
<1>3. age' \in [VehicleIds -> 0..Oldest]
  BY <1>1, <1>2
<1>4. TypeOK'
  BY <1>3 DEF TableInv, TypeOK, EndPass, broker
<1>5. ASSUME NEW id \in VehicleIds, others'[id] # NoInfo
      PROVE  age'[id] <= Timeout + Counted'
  <2>1. age[id] <= Timeout + cleanupElapsed /\ age[id] \in Nat /\ age'[id] \in Nat
    BY <1>1, <1>2, <1>5, Constants DEF TableInv, SweepSchedule, Counted
  <2>2. Counted' = cleanupElapsed + 1
    BY <1>1 DEF Counted
  <2> QED
    BY <1>1, <1>2, <2>1, <2>2, Constants
<1>6. SweepSchedule'
  BY <1>1, <1>5 DEF SweepSchedule
<1>7. OwnStatusIgnored'
  BY <1>1 DEF TableInv, OwnStatusIgnored
<1> QED
  BY <1>4, <1>6, <1>7 DEF TableInv

\* News makes a vehicle young again, and is never about ourselves.
LEMMA OnMessageKeeps ==
  ASSUME TableInv, OnMessage
  PROVE  TableInv'
<1> DEFINE m == Head(inbox)
<1>1. /\ Tail(inbox) \in Seq(Messages)
      /\ m.id \in VehicleIds /\ m.sample \in Samples \cup {NoInfo}
  BY HeadType DEF TableInv, TypeOK, OnMessage
<1>2. /\ inbox' = Tail(inbox)
      /\ others' = IF Accepted(m) THEN [others EXCEPT ![m.id] = m.sample] ELSE others
      /\ age' = IF Accepted(m) THEN [age EXCEPT ![m.id] = 0] ELSE age
      /\ racing' = racing \/ racing' = racing \cup {m.id}
      /\ departed' = IF m.sample = NoInfo THEN departed \cup {m.id} ELSE departed \ {m.id}
      /\ UNCHANGED <<candidate, queue, connected, mqttPc, cleanupElapsed, onAir, retained>>
  BY DEF OnMessage, thread
<1> HIDE DEF m
<1>3. others' \in [VehicleIds -> Samples \cup {NoInfo}]
  BY <1>1, <1>2 DEF TableInv, TypeOK
<1>4. age' \in [VehicleIds -> 0..Oldest]
  BY <1>1, <1>2, Constants DEF TableInv, TypeOK
<1>5. racing' \in SUBSET VehicleIds /\ departed' \in SUBSET VehicleIds
  BY <1>1, <1>2 DEF TableInv, TypeOK
<1>6. TypeOK'
  BY <1>1, <1>2, <1>3, <1>4, <1>5 DEF TableInv, TypeOK
<1>7. ASSUME NEW id \in VehicleIds, others'[id] # NoInfo
      PROVE  age'[id] <= Timeout + Counted'
  <2>1. Counted' = Counted /\ Counted \in Nat
    BY <1>2, Constants DEF TableInv, TypeOK, Counted
  <2>2. CASE Accepted(m) /\ id = m.id
    BY <1>2, <2>1, <2>2, Constants DEF TableInv, TypeOK
  <2>3. CASE ~(Accepted(m) /\ id = m.id)
    <3>1. others'[id] = others[id] /\ age'[id] = age[id]
      BY <1>2, <2>3 DEF TableInv, TypeOK
    <3> QED
      BY <1>7, <2>1, <3>1 DEF TableInv, SweepSchedule
  <2> QED
    BY <2>2, <2>3
<1>8. SweepSchedule'
  BY <1>2, <1>7 DEF TableInv, SweepSchedule
<1>9. OwnStatusIgnored'
  BY <1>1, <1>2 DEF TableInv, TypeOK, OwnStatusIgnored, Accepted
<1> QED
  BY <1>6, <1>8, <1>9 DEF TableInv

\* Nothing else touches the table's entries, their ages or the schedule.
LEMMA OtherStepsKeep ==
  ASSUME TableInv, OnConnect \/ OnDisconnect \/ PeerStep \/ CanStep
  PROVE  TableInv'
<1>1. UNCHANGED <<others, age, mqttPc, cleanupElapsed>>
  BY DEF OnConnect, OnDisconnect, PeerStep, PeerAppears, PeerPublishes, PeerDies, PeerLeaves,
         CanStep, table, thread
<1>2. SweepSchedule' /\ OwnStatusIgnored'
  BY <1>1 DEF TableInv, SweepSchedule, Counted, OwnStatusIgnored
<1>3. CASE OnConnect
  <2>1. inbox' \in Seq(Messages)
    BY <1>3, OnConnectType
  <2>2. connected' \in BOOLEAN
    BY <1>3 DEF OnConnect
  <2> QED
    BY <1>2, <1>3, <2>1, <2>2 DEF TableInv, TypeOK, OnConnect, table, thread
<1>4. CASE OnDisconnect
  <2>1. retained' \in [VehicleIds -> Samples \cup {NoInfo}] /\ inbox' \in Seq(Messages)
    BY <1>4 DEF TableInv, TypeOK, OnDisconnect
  <2>2. connected' \in BOOLEAN
    BY <1>4 DEF OnDisconnect
  <2> QED
    BY <1>2, <1>4, <2>1, <2>2 DEF TableInv, TypeOK, OnDisconnect, table, thread
<1>5. ASSUME NEW id \in Peers, PeerAppears(id) \/ PeerLeaves(id)
      PROVE  TableInv'
  BY <1>2, <1>5 DEF TableInv, TypeOK, PeerAppears, PeerLeaves, table, thread
<1>6. ASSUME NEW id \in Peers, PeerPublishes(id)
      PROVE  TableInv'
  <2>1. PICK sample \in Samples : /\ retained' = [retained EXCEPT ![id] = sample]
                                  /\ Forward(id, sample)
    BY <1>6 DEF PeerPublishes
  <2>2. inbox' \in Seq(Messages)
    BY <2>1, ForwardType DEF TableInv, TypeOK, Peers
  <2>3. retained' \in [VehicleIds -> Samples \cup {NoInfo}]
    BY <2>1 DEF TableInv, TypeOK
  <2> QED
    BY <1>2, <1>6, <2>2, <2>3 DEF TableInv, TypeOK, PeerPublishes, table, thread
<1>7. ASSUME NEW id \in Peers, PeerDies(id)
      PROVE  TableInv'
  <2>1. inbox' \in Seq(Messages)
    BY <1>7, ForwardType DEF TableInv, TypeOK, PeerDies, Peers
  <2>2. retained' \in [VehicleIds -> Samples \cup {NoInfo}] /\ onAir' \in SUBSET Peers
    BY <1>7 DEF TableInv, TypeOK, PeerDies
  <2> QED
    BY <1>2, <1>7, <2>1, <2>2 DEF TableInv, TypeOK, PeerDies, table, thread
<1>8. CASE CanStep
  BY <1>2, <1>8 DEF TableInv, TypeOK, CanStep, table, thread, broker
<1> QED
  BY <1>3, <1>4, <1>5, <1>6, <1>7, <1>8 DEF PeerStep

LEMMA InitTable == Init => TableInv
<1> SUFFICES ASSUME Init PROVE TableInv
  OBVIOUS
<1>1. connected \in BOOLEAN
  BY DEF Init
<1>2. TypeOK
  BY <1>1, Constants DEF Init, TypeOK
<1> QED
  BY <1>2, Constants DEF Init, TableInv, SweepSchedule, OwnStatusIgnored

LEMMA StepTable == TableInv /\ [Next]_vars => TableInv'
<1> SUFFICES ASSUME TableInv, [Next]_vars PROVE TableInv'
  OBVIOUS
<1>1. CASE MqttStep
  BY <1>1, PublishKeeps, ReadClockKeeps, SweepKeeps, EndPassKeeps DEF MqttStep
<1>2. CASE OnMessage
  BY <1>2, OnMessageKeeps
<1>3. CASE OnConnect \/ OnDisconnect \/ PeerStep \/ CanStep
  BY <1>3, OtherStepsKeep
<1>4. CASE UNCHANGED vars
  BY <1>4 DEF vars, table, thread, broker, TableInv, TypeOK, SweepSchedule, Counted,
              OwnStatusIgnored
<1> QED
  BY <1>1, <1>2, <1>3, <1>4 DEF Next

-----------------------------------------------------------------------------
(***************************************************************************)
(* The table of other vehicles keeps to its types, its sweeps keep to      *)
(* their schedule and we are never in it: the inductive invariant.         *)
(***************************************************************************)
THEOREM TableInvariant == Spec => []TableInv
<1>1. Init => TableInv
  BY InitTable
<1>2. TableInv /\ [Next]_vars => TableInv'
  BY StepTable
<1> QED
  BY <1>1, <1>2, PTL DEF Spec

(***************************************************************************)
(* No vehicle is in the table without news for longer than the timeout and *)
(* one sweep period (mqtt_thread_main with                                 *)
(* other_vehicle_manager_cleanup_stale).                                   *)
(***************************************************************************)
THEOREM StaleCorrect == Spec => []StaleBounded
<1>1. TableInv => StaleBounded
  <2> SUFFICES ASSUME TableInv, NEW id \in VehicleIds, others[id] # NoInfo
               PROVE  age[id] <= Timeout + CleanupPeriod
    BY DEF StaleBounded
  <2>1. age[id] <= Timeout + Counted
    BY DEF TableInv, SweepSchedule
  <2>2. Counted \in Nat /\ Counted <= CleanupPeriod
    BY Constants DEF TableInv, TypeOK, SweepSchedule, Counted
  <2>3. age[id] \in Nat
    BY Constants DEF TableInv, TypeOK
  <2> QED
    BY <2>1, <2>2, <2>3, Constants
<1> QED
  BY <1>1, TableInvariant, PTL

(***************************************************************************)
(* Whatever frames, messages, ticks and passes do, each in any order, the  *)
(* table, the queue and the threads' own state keep to the values the      *)
(* program's variables can hold: the table above all, which two threads    *)
(* write (on_message, other_vehicle_manager_cleanup_stale).                *)
(***************************************************************************)
THEOREM TypeCorrect == Spec => []TypeOK
<1>1. TableInv => TypeOK
  BY DEF TableInv
<1> QED
  BY <1>1, TableInvariant, PTL

(***************************************************************************)
(* Our own status, live or retained, never enters the table (on_message).  *)
(***************************************************************************)
THEOREM OwnStatusCorrect == Spec => []OwnStatusIgnored
<1>1. TableInv => OwnStatusIgnored
  BY DEF TableInv
<1> QED
  BY <1>1, TableInvariant, PTL

(***************************************************************************)
(* A vehicle that is dropped is not left behind as the candidate           *)
(* (other_vehicle_manager_cleanup_stale clears both under one lock).       *)
(***************************************************************************)
THEOREM DroppedCorrect == Spec => DroppedIsNotCandidate
<1> DEFINE Dropped == \A id \in VehicleIds :
                        (others[id] # NoInfo /\ others'[id] = NoInfo) => candidate' # id
<1>1. ASSUME TableInv, Next, NEW id \in VehicleIds, others[id] # NoInfo, others'[id] = NoInfo
      PROVE  candidate' # id
  <2>1. CASE Sweep
    <3>1. IsStale(id)
      BY <1>1, <2>1 DEF Sweep
    <3> QED
      BY <1>1, <2>1, <3>1, MqttAssumption DEF Sweep, CandidateLeft
  <2>2. CASE OnMessage
    <3>1. Accepted(Head(inbox)) => Head(inbox).sample # NoInfo
      BY DEF Accepted
    <3> QED
      BY <1>1, <2>2, <3>1 DEF OnMessage, TableInv, TypeOK
  <2>3. CASE PublishLatest \/ ReadClock \/ EndPass \/ OnConnect \/ OnDisconnect \/ PeerStep \/ CanStep
    <3>1. others' = others
      BY <2>3 DEF PublishLatest, ReadClock, EndPass, OnConnect, OnDisconnect, PeerStep, PeerAppears,
                  PeerPublishes, PeerDies, PeerLeaves, CanStep, table
    <3> QED
      BY <1>1, <3>1
  <2> QED
    BY <1>1, <2>1, <2>2, <2>3 DEF Next, MqttStep
<1>2. TableInv /\ [Next]_vars => [Dropped]_vars
  BY <1>1
<1> QED
  BY <1>2, TableInvariant, PTL DEF Spec, DroppedIsNotCandidate
=============================================================================
