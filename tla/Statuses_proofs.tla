--------------------------- MODULE Statuses_proofs --------------------------
(***************************************************************************)
(* Both ways of a status.  SelfPublish implements LatestValue, for any     *)
(* freshness limit and number of samples, and a sample is stale when it is *)
(* published only if the connection was lost while it was queued or it was *)
(* pushed late; and the frames about traffic lights are true, for any      *)
(* lights, any table and any period.                                       *)
(***************************************************************************)
EXTENDS Statuses, FiniteSetTheorems, TLAPS

(***************************************************************************)
(* The samples under way are in order: published, popped, queued, stored;  *)
(* a sample not yet pushed is newer than all that were.                    *)
(***************************************************************************)
NodeOrder ==
  /\ queued.seq <= info.seq /\ popped.seq <= info.seq /\ published <= info.seq
  /\ rxPc \in {"read", "push"} =>
       queued.seq < info.seq /\ popped.seq < info.seq /\ published < info.seq
  /\ rxPc = "push" => copied.seq = info.seq
  /\ popped.seq # 0 => published < popped.seq
  /\ queued.seq # 0 => published < queued.seq /\ popped.seq < queued.seq

(***************************************************************************)
(* The broker retains the last sample published, or nothing; what it has   *)
(* under way to the reader is in order and not older than what the reader  *)
(* has.                                                                    *)
(***************************************************************************)
BrokerOrder ==
  /\ retained \in {0, published}
  /\ received <= published
  /\ \A i \in 1..Len(wire) : wire[i] # 0 => received <= wire[i] /\ wire[i] <= published
  /\ \A i, j \in 1..Len(wire) : i < j /\ wire[i] # 0 /\ wire[j] # 0 => wire[i] <= wire[j]

(***************************************************************************)
(* A sample was fresh but for the time that CAN RX has had it in hand, and *)
(* is popped in the pass after its push if it met no outage.               *)
(***************************************************************************)
AgeBound ==
  /\ copied.seq # 0 => copied.age <= FreshLimit + copied.held
  /\ queued.seq # 0 /\ ~queued.cut => connected
  /\ queued.seq # 0 /\ ~queued.cut /\ mqttPc \notin {"publish", "pop"} =>
       queued.age <= FreshLimit + queued.held
  /\ queued.seq # 0 /\ ~queued.cut => queued.age <= FreshLimit + queued.held + 1
  /\ popped.seq # 0 /\ ~popped.cut => popped.age <= FreshLimit + popped.held + 1

-----------------------------------------------------------------------------
(***************************************************************************)
(* Lemmas about samples.                                                   *)
(***************************************************************************)
LEMMA SampleType ==
  ASSUME NEW seq \in 0..MaxSamples, NEW age \in 0..Oldest, NEW held \in Nat,
         NEW cut \in BOOLEAN
  PROVE  Sample(seq, age, held, cut) \in Samples
BY DEF Sample, Samples

LEMMA NoSampleType ==
  NoSample \in Samples /\ NoSample.seq = 0
BY BoundsAssumption DEF NoSample, Sample, Samples

LEMMA AgedType ==
  ASSUME NEW s \in Samples
  PROVE  /\ Aged(s) \in Samples
         /\ Aged(s).seq = s.seq /\ Aged(s).cut = s.cut /\ Aged(s).held = s.held
         /\ Aged(s).age <= s.age + 1
BY BoundsAssumption DEF Aged, Samples

\* What is left of its age without the time in hand does not grow.
LEMMA AgedInHandType ==
  ASSUME NEW s \in Samples
  PROVE  /\ AgedInHand(s) \in Samples
         /\ AgedInHand(s).seq = s.seq
         /\ s.age <= FreshLimit + s.held =>
              AgedInHand(s).age <= FreshLimit + AgedInHand(s).held
<1>1. CASE s.seq = 0 \/ s.age = Oldest
  BY <1>1 DEF AgedInHand
<1>2. CASE ~(s.seq = 0 \/ s.age = Oldest)
  <2>1. AgedInHand(s) = [s EXCEPT !.age = s.age + 1, !.held = s.held + 1]
    BY <1>2 DEF AgedInHand
  <2>2. s.age \in 0..Oldest /\ s.age + 1 \in 0..Oldest /\ s.held + 1 \in Nat
    BY <1>2, BoundsAssumption DEF Samples
  <2>3. /\ AgedInHand(s) \in Samples /\ AgedInHand(s).seq = s.seq
        /\ AgedInHand(s).age = s.age + 1 /\ AgedInHand(s).held = s.held + 1
    BY <2>1, <2>2 DEF Samples
  <2> QED
    BY <2>2, <2>3, BoundsAssumption DEF Samples
<1> QED
  BY <1>1, <1>2

LEMMA CutType ==
  ASSUME NEW s \in Samples, NEW cut \in BOOLEAN
  PROVE  LET c == [s EXCEPT !.cut = cut]
         IN  /\ c \in Samples /\ c.seq = s.seq
             /\ c.age = s.age /\ c.held = s.held /\ c.cut = cut
BY DEF Samples

-----------------------------------------------------------------------------
(***************************************************************************)
(* Types.                                                                  *)
(***************************************************************************)
LEMMA WireType ==
  ASSUME NEW S, NEW w \in Seq(S)
  PROVE  /\ \A i \in 1..Len(w) : w[i] \in S
         /\ w # <<>> => Head(w) \in S /\ Tail(w) \in Seq(S)
OBVIOUS

LEMMA DeliverType ==
  ASSUME TypeOK, NEW n \in 0..MaxSamples, Deliver(n)
  PROVE  retained' \in 0..MaxSamples /\ wire' \in Seq(0..MaxSamples)
<1>1. wire \in Seq(0..MaxSamples)
  BY DEF TypeOK
<1>2. Append(wire, n) \in Seq(0..MaxSamples)
  BY <1>1
<1> QED BY <1>1, <1>2 DEF Deliver

LEMMA InitType == Init => TypeOK
<1> SUFFICES ASSUME Init PROVE TypeOK
  OBVIOUS
<1>1. wire \in Seq(0..MaxSamples) /\ retained \in 0..MaxSamples /\ received \in 0..MaxSamples
      /\ lost \in 0..MaxSamples /\ publications \in Nat
  BY BoundsAssumption DEF Init
<1>2. /\ info \in Samples /\ copied \in Samples /\ queued \in Samples /\ popped \in Samples
      /\ copied.seq = 0 /\ popped.seq = 0 /\ published \in 0..MaxSamples
  BY BoundsAssumption, NoSampleType DEF Init
<1> QED BY <1>1, <1>2 DEF Init, TypeOK

LEMMA StepType == TypeOK /\ [Next]_vars => TypeOK'
<1> SUFFICES ASSUME TypeOK, [Next]_vars PROVE TypeOK'
  OBVIOUS
<1> USE DEF TypeOK, node, broker, history
<1>1. CASE UpdateFromCan
  <2>1. info.seq + 1 \in 0..MaxSamples /\ info.seq + 1 # 0
    BY <1>1, BoundsAssumption DEF UpdateFromCan, Samples
  <2>2. 0 \in 0..Oldest
    BY BoundsAssumption
  <2>3. Sample(info.seq + 1, 0, 0, FALSE) \in Samples
    BY <2>1, <2>2, SampleType
  <2>4. info'.seq # 0
    BY <1>1, <2>1 DEF UpdateFromCan, Sample
  <2> QED BY <1>1, <2>3, <2>4 DEF UpdateFromCan
<1>2. CASE PushLatest
  <2>1. (~connected) \in BOOLEAN
    OBVIOUS
  <2>2. queued' \in Samples
    BY <1>2, <2>1, CutType DEF PushLatest
  <2> QED BY <1>2, <2>2, NoSampleType DEF PushLatest
<1>13. CASE ReadInfo
  BY <1>13 DEF ReadInfo
<1>3. CASE SeeConnected \/ TakeLatest
  BY <1>3, NoSampleType DEF SeeConnected, TakeLatest, AfterPop, IsPending
<1>4. CASE Publish
  <2>1. popped.seq \in 0..MaxSamples
    BY DEF Samples
  <2>2. retained' \in 0..MaxSamples /\ wire' \in Seq(0..MaxSamples)
    BY <1>4, <2>1, DeliverType DEF Publish
  <2> QED BY <1>4, <2>1, <2>2, NoSampleType DEF Publish
<1>5. CASE EndPass
  BY <1>5, AgedType, AgedInHandType DEF EndPass
<1>6. CASE OnConnect
  BY <1>6 DEF OnConnect
<1>7. CASE OnDisconnect
  <2>1. queued' \in Samples
    BY <1>7, CutType DEF OnDisconnect
  <2> QED BY <1>7, <2>1 DEF OnDisconnect
<1>8. CASE PublishLastWill
  <2>1. retained' \in 0..MaxSamples /\ wire' \in Seq(0..MaxSamples)
    BY <1>8, BoundsAssumption, DeliverType DEF PublishLastWill
  <2> QED BY <1>8, <2>1 DEF PublishLastWill
<1>9. CASE ReaderConnects
  <2>1. <<retained>> \in Seq(0..MaxSamples) /\ <<>> \in Seq(0..MaxSamples)
    OBVIOUS
  <2>2. wire' \in Seq(0..MaxSamples)
    BY <1>9, <2>1 DEF ReaderConnects
  <2> QED BY <1>9, <2>2 DEF ReaderConnects
<1>10. CASE ReaderDisconnects
  <2>1. <<>> \in Seq(0..MaxSamples)
    OBVIOUS
  <2> QED BY <1>10, <2>1 DEF ReaderDisconnects
<1>11. CASE ReaderOnMessage
  <2>1. Head(wire) \in 0..MaxSamples /\ Tail(wire) \in Seq(0..MaxSamples)
    BY <1>11, WireType DEF ReaderOnMessage
  <2> QED BY <1>11, <2>1 DEF ReaderOnMessage
<1>12. CASE UNCHANGED vars
  BY <1>12 DEF vars
<1> QED
  BY <1>1, <1>2, <1>3, <1>4, <1>5, <1>6, <1>7, <1>8, <1>9, <1>10, <1>11, <1>12, <1>13
  DEF Next, RxStep, MqttStep, BrokerStep

\* Type correctness of the publish path, for all bounds.
THEOREM TypeCorrect == Spec => []TypeOK
BY InitType, StepType, PTL DEF Spec

-----------------------------------------------------------------------------
(***************************************************************************)
(* Order.                                                                  *)
(***************************************************************************)
LEMMA InitOrder == Init => NodeOrder /\ BrokerOrder
BY NoSampleType DEF Init, NodeOrder, BrokerOrder

LEMMA NodeOrderStep == TypeOK /\ NodeOrder /\ [Next]_vars => NodeOrder'
<1> SUFFICES ASSUME TypeOK, NodeOrder, [Next]_vars PROVE NodeOrder'
  OBVIOUS
<1> USE DEF NodeOrder, node, history
<1>0. /\ info.seq \in Nat /\ copied.seq \in Nat /\ queued.seq \in Nat /\ popped.seq \in Nat
      /\ published \in Nat /\ (~connected) \in BOOLEAN
  BY DEF TypeOK, Samples
<1>1. CASE UpdateFromCan
  <2>1. info'.seq = info.seq + 1
    BY <1>1 DEF UpdateFromCan, Sample
  <2>2. UNCHANGED <<copied, queued, popped, published>> /\ rxPc' = "read"
    BY <1>1 DEF UpdateFromCan
  <2> QED BY <1>0, <2>1, <2>2
<1>2. CASE PushLatest
  <2>1. queued'.seq = info.seq
    BY <1>0, <1>2, CutType DEF PushLatest, TypeOK
  <2> QED BY <1>0, <1>2, <2>1 DEF PushLatest
<1>8. CASE ReadInfo
  BY <1>0, <1>8 DEF ReadInfo
<1>3. CASE TakeLatest
  BY <1>0, <1>3, NoSampleType DEF TakeLatest, AfterPop, IsPending
<1>4. CASE Publish
  <2>1. popped.seq # 0
    BY <1>4 DEF Publish, TypeOK
  <2>2. /\ UNCHANGED <<rxPc, info, copied, queued>>
        /\ popped'.seq = 0 /\ published' \in {popped.seq, published}
    BY <1>4, NoSampleType DEF Publish
  <2> QED BY <1>0, <2>1, <2>2
<1>5. CASE EndPass
  <2>1. info'.seq = info.seq /\ copied'.seq = copied.seq /\ queued'.seq = queued.seq
    BY <1>5, AgedType, AgedInHandType DEF EndPass, TypeOK
  <2> QED BY <1>0, <1>5, <2>1 DEF EndPass
<1>6. CASE OnDisconnect
  <2>1. queued'.seq = queued.seq
    BY <1>6, CutType DEF OnDisconnect, TypeOK
  <2> QED BY <1>0, <1>6, <2>1 DEF OnDisconnect
<1>7. CASE UNCHANGED <<rxPc, info, copied, queued, popped, published>>
  BY <1>7
<1> QED
  BY <1>1, <1>2, <1>3, <1>4, <1>5, <1>6, <1>7, <1>8
  DEF Next, RxStep, MqttStep, BrokerStep, SeeConnected, OnConnect, PublishLastWill, ReaderConnects,
      ReaderDisconnects, ReaderOnMessage, vars

\* What a message does to the order at the broker: it comes behind all others.
LEMMA DeliverOrder ==
  ASSUME TypeOK, BrokerOrder, NEW n \in 0..MaxSamples, Deliver(n), received' = received,
         published' \in Nat, published <= published', n \in {0, published'}
  PROVE  BrokerOrder'
<1>1. /\ wire \in Seq(0..MaxSamples) /\ received \in Nat /\ published \in Nat
      /\ \A i \in 1..Len(wire) : wire[i] \in Nat
  <2>1. wire \in Seq(0..MaxSamples) /\ received \in 0..MaxSamples /\ published \in 0..MaxSamples
    BY DEF TypeOK
  <2>2. \A i \in 1..Len(wire) : wire[i] \in 0..MaxSamples
    BY <2>1, WireType
  <2> QED BY <2>1, <2>2
<1>2. CASE wire' = wire
  BY <1>1, <1>2 DEF BrokerOrder, Deliver
<1>3. CASE wire' = Append(wire, n)
  <2>1. /\ Len(wire') = Len(wire) + 1 /\ wire'[Len(wire) + 1] = n
        /\ \A i \in 1..Len(wire) : wire'[i] = wire[i]
    BY <1>1, <1>3
  <2>2. \A i \in 1..Len(wire') : i \in 1..Len(wire) \/ i = Len(wire) + 1
    BY <1>1, <2>1
  <2>3. \A i \in 1..Len(wire') :
          wire'[i] # 0 => received <= wire'[i] /\ wire'[i] <= published'
    BY <1>1, <2>1, <2>2 DEF BrokerOrder
  <2>4. \A i, j \in 1..Len(wire') :
          i < j /\ wire'[i] # 0 /\ wire'[j] # 0 => wire'[i] <= wire'[j]
    <3> SUFFICES ASSUME NEW i \in 1..Len(wire'), NEW j \in 1..Len(wire'),
                        i < j, wire'[i] # 0, wire'[j] # 0
                 PROVE  wire'[i] <= wire'[j]
      OBVIOUS
    <3>1. i \in 1..Len(wire)
      BY <1>1, <2>1
    <3>2. CASE j \in 1..Len(wire)
      BY <2>1, <3>1, <3>2 DEF BrokerOrder
    <3>3. CASE j = Len(wire) + 1
      BY <2>1, <2>3, <3>1, <3>3
    <3> QED BY <2>2, <3>2, <3>3
  <2> QED BY <1>1, <2>3, <2>4 DEF BrokerOrder, Deliver
<1> QED BY <1>2, <1>3 DEF Deliver

LEMMA BrokerOrderStep == TypeOK /\ NodeOrder /\ BrokerOrder /\ [Next]_vars => BrokerOrder'
<1> SUFFICES ASSUME TypeOK, NodeOrder, BrokerOrder, [Next]_vars PROVE BrokerOrder'
  OBVIOUS
<1> USE DEF node, broker, history
<1>0. /\ published \in 0..MaxSamples /\ popped.seq \in 0..MaxSamples
      /\ wire \in Seq(0..MaxSamples) /\ MaxSamples \in Nat /\ retained \in 0..MaxSamples
      /\ received \in 0..MaxSamples
  BY BoundsAssumption DEF TypeOK, Samples
<1>1. CASE Publish
  <2>1. CASE published' = popped.seq /\ Deliver(popped.seq)
    <3>1. published <= popped.seq
      BY <1>0, <1>1 DEF NodeOrder, Publish, TypeOK
    <3> QED BY <1>0, <1>1, <2>1, <3>1, DeliverOrder DEF Publish
  <2>2. CASE UNCHANGED <<published, retained, wire>>
    BY <1>1, <2>2 DEF Publish, BrokerOrder
  <2> QED BY <1>1, <2>1, <2>2 DEF Publish
<1>2. CASE PublishLastWill
  BY <1>0, <1>2, DeliverOrder DEF PublishLastWill
<1>3. CASE ReaderConnects
  BY <1>0, <1>3 DEF ReaderConnects, BrokerOrder
<1>4. CASE ReaderDisconnects
  BY <1>0, <1>4 DEF ReaderDisconnects, BrokerOrder
<1>5. CASE ReaderOnMessage
  <2>1. /\ Len(wire) \in Nat \ {0} /\ Head(wire) = wire[1]
        /\ Len(wire') = Len(wire) - 1
        /\ \A i \in 1..Len(wire') : i + 1 \in 1..Len(wire) /\ wire'[i] = wire[i + 1]
    BY <1>0, <1>5 DEF ReaderOnMessage
  <2>2. /\ retained' = retained /\ published' = published
        /\ received' = IF wire[1] = 0 THEN received ELSE wire[1]
    BY <1>5, <2>1 DEF ReaderOnMessage
  <2>3. received' <= published /\ received <= received'
    BY <1>0, <2>1, <2>2 DEF BrokerOrder
  <2>4. \A i \in 1..Len(wire') :
          wire'[i] # 0 => received' <= wire'[i] /\ wire'[i] <= published
    <3> SUFFICES ASSUME NEW i \in 1..Len(wire'), wire'[i] # 0
                 PROVE  received' <= wire'[i] /\ wire'[i] <= published
      OBVIOUS
    <3>1. i + 1 \in 1..Len(wire) /\ wire'[i] = wire[i + 1] /\ 1 \in 1..Len(wire) /\ 1 < i + 1
      BY <2>1
    <3> QED BY <2>2, <3>1 DEF BrokerOrder
  <2>5. \A i, j \in 1..Len(wire') :
          i < j /\ wire'[i] # 0 /\ wire'[j] # 0 => wire'[i] <= wire'[j]
    <3> SUFFICES ASSUME NEW i \in 1..Len(wire'), NEW j \in 1..Len(wire'),
                        i < j, wire'[i] # 0, wire'[j] # 0
                 PROVE  wire'[i] <= wire'[j]
      OBVIOUS
    <3>1. /\ i + 1 \in 1..Len(wire) /\ wire'[i] = wire[i + 1]
          /\ j + 1 \in 1..Len(wire) /\ wire'[j] = wire[j + 1] /\ i + 1 < j + 1
      BY <2>1
    <3> QED BY <3>1 DEF BrokerOrder
  <2> QED BY <2>2, <2>3, <2>4, <2>5 DEF BrokerOrder
<1>6. CASE UNCHANGED <<published, broker>>
  BY <1>6 DEF BrokerOrder
<1> QED
  BY <1>1, <1>2, <1>3, <1>4, <1>5, <1>6
  DEF Next, RxStep, MqttStep, BrokerStep, UpdateFromCan, ReadInfo, PushLatest, SeeConnected,
      TakeLatest, EndPass,
      OnConnect, OnDisconnect, vars

-----------------------------------------------------------------------------
(***************************************************************************)
(* The refinement.                                                         *)
(***************************************************************************)
LEMMA InitRefines == Init => LV!Init
BY NoSampleType DEF Init, LV!Init

LEMMA StepRefines ==
  TypeOK /\ NodeOrder /\ BrokerOrder /\ [Next]_vars => [LV!Next]_(LV!vars)
<1> SUFFICES ASSUME TypeOK, NodeOrder, BrokerOrder, [Next]_vars
             PROVE  LV!Next \/ UNCHANGED LV!vars
  OBVIOUS
<1> USE DEF node, broker, history
<1>0. /\ published \in 0..MaxSamples /\ popped.seq \in 0..MaxSamples
      /\ info.seq \in 0..MaxSamples /\ received \in 0..MaxSamples /\ MaxSamples \in Nat
      /\ wire \in Seq(0..MaxSamples)
  BY BoundsAssumption DEF TypeOK, Samples
<1>1. CASE UpdateFromCan
  <2>1. info'.seq = info.seq + 1
    BY <1>1 DEF UpdateFromCan, Sample
  <2> QED BY <1>1, <2>1 DEF UpdateFromCan, LV!Next, LV!Produce
<1>2. CASE Publish
  <2>1. CASE published' = popped.seq /\ publications' = publications + 1
    <3>1. published < popped.seq /\ popped.seq \in 0..info.seq
      BY <1>0, <1>2 DEF NodeOrder, Publish, TypeOK
    <3> QED BY <1>0, <1>2, <2>1, <3>1 DEF Publish, LV!Next, LV!Publish
  <2>2. CASE UNCHANGED <<published, publications>>
    BY <1>2, <2>2 DEF Publish, LV!vars
  <2> QED BY <1>2, <2>1, <2>2 DEF Publish
<1>3. CASE EndPass
  <2>1. info'.seq = info.seq
    BY <1>3, AgedType DEF EndPass, TypeOK
  <2> QED BY <1>3, <2>1 DEF EndPass, LV!vars
<1>4. CASE ReaderOnMessage
  <2>1. 1 \in 1..Len(wire) /\ Head(wire) = wire[1]
    BY <1>0, <1>4 DEF ReaderOnMessage
  <2>2. wire[1] \in Nat /\ received' = IF wire[1] = 0 THEN received ELSE wire[1]
    BY <1>0, <1>4, <2>1 DEF ReaderOnMessage
  <2>3. received' >= received /\ received' \in 0..published
    BY <1>0, <2>1, <2>2 DEF BrokerOrder
  <2> QED BY <1>4, <2>3 DEF ReaderOnMessage, LV!Next, LV!Receive
<1>5. CASE UNCHANGED <<info, published, publications, received>>
  BY <1>5 DEF LV!vars
<1> QED
  BY <1>1, <1>2, <1>3, <1>4, <1>5
  DEF Next, RxStep, MqttStep, BrokerStep, ReadInfo, PushLatest, SeeConnected, TakeLatest,
      OnConnect, OnDisconnect,
      PublishLastWill, ReaderConnects, ReaderDisconnects, vars

\* The publish path is a stream of latest values, for any number of samples, any
\* freshness limit and any behaviour of the connection and the broker.
THEOREM Refinement == Spec => ImplementsLatestValue
<1>1. TypeOK /\ NodeOrder /\ BrokerOrder /\ [Next]_vars => (NodeOrder /\ BrokerOrder)'
  BY NodeOrderStep, BrokerOrderStep
<1>2. Spec => [](NodeOrder /\ BrokerOrder)
  BY <1>1, TypeCorrect, InitOrder, PTL DEF Spec
<1> QED
  BY <1>2, TypeCorrect, InitRefines, StepRefines, PTL DEF Spec, ImplementsLatestValue, LV!Spec

-----------------------------------------------------------------------------
(***************************************************************************)
(* Ages.                                                                   *)
(***************************************************************************)
LEMMA InitAge == Init => AgeBound
BY NoSampleType DEF Init, AgeBound

LEMMA AgeStep == TypeOK /\ AgeBound /\ [Next]_vars => AgeBound'
<1> SUFFICES ASSUME TypeOK, AgeBound, [Next]_vars PROVE AgeBound'
  OBVIOUS
<1> USE DEF AgeBound, node, history
<1>0. /\ (~connected) \in BOOLEAN /\ FreshLimit \in Nat
      /\ info \in Samples /\ copied \in Samples /\ queued \in Samples
      /\ info.age \in Nat /\ copied.age \in Nat /\ queued.age \in Nat
      /\ info.held \in Nat /\ copied.held \in Nat /\ queued.held \in Nat
  BY BoundsAssumption DEF TypeOK, Samples
<1>8. CASE ReadInfo
  <2>1. copied' = copied \/ (copied' = info /\ info.age <= FreshLimit + info.held)
    BY <1>0, <1>8 DEF ReadInfo, IsFresh
  <2> QED BY <1>8, <2>1 DEF ReadInfo
<1>1. CASE PushLatest
  <2>1. /\ queued'.age = copied.age /\ queued'.held = copied.held /\ queued'.cut = ~connected
        /\ copied.seq # 0
    BY <1>0, <1>1, CutType DEF PushLatest, TypeOK
  <2>2. queued'.age <= FreshLimit + queued'.held /\ queued'.age <= FreshLimit + queued'.held + 1
    BY <1>0, <2>1
  <2>3. copied'.seq = 0 /\ UNCHANGED <<mqttPc, popped, connected>>
    BY <1>1, NoSampleType DEF PushLatest
  <2> QED BY <2>1, <2>2, <2>3, Zenon
<1>9. CASE SeeConnected
  <2>1. mqttPc' \notin {"publish", "pop"} => ~connected
    BY <1>9 DEF SeeConnected
  <2> QED BY <1>9, <2>1 DEF SeeConnected
<1>2. CASE TakeLatest
  BY <1>0, <1>2, NoSampleType DEF TakeLatest, AfterPop, IsPending
<1>3. CASE Publish
  <2>1. popped.seq # 0
    BY <1>3 DEF Publish, TypeOK
  <2> QED BY <1>3, <2>1, NoSampleType DEF Publish
<1>4. CASE EndPass
  <2>1. /\ queued'.seq = queued.seq /\ queued'.cut = queued.cut /\ queued'.held = queued.held
        /\ queued'.age <= queued.age + 1
    BY <1>0, <1>4, AgedType DEF EndPass
  <2>2. queued'.age \in Nat
    BY <1>0, <1>4, AgedType DEF EndPass, Samples
  <2>3. queued.seq # 0 /\ ~queued.cut => queued'.age <= FreshLimit + queued'.held + 1
    BY <1>0, <1>4, <2>1, <2>2 DEF EndPass
  <2>4. copied'.seq # 0 => copied'.age <= FreshLimit + copied'.held
    BY <1>0, <1>4, AgedInHandType DEF EndPass
  <2> QED BY <1>4, <2>1, <2>3, <2>4 DEF EndPass
<1>5. CASE OnDisconnect
  <2>1. queued'.seq = queued.seq /\ (queued.seq # 0 => queued'.cut = TRUE)
    BY <1>0, <1>5, CutType DEF OnDisconnect, IsPending
  <2> QED BY <1>5, <2>1 DEF OnDisconnect
<1>6. CASE OnConnect
  BY <1>6 DEF OnConnect
<1>7. CASE UNCHANGED <<copied, queued, mqttPc, popped, connected>>
  BY <1>7
<1> QED
  BY <1>1, <1>2, <1>3, <1>4, <1>5, <1>6, <1>7, <1>8, <1>9
  DEF Next, RxStep, MqttStep, BrokerStep, UpdateFromCan, PublishLastWill, ReaderConnects,
      ReaderDisconnects, ReaderOnMessage, vars

\* A sample that met no outage is published at most one pass older than the freshness
\* limit and the hold-up between the test of its age and its push, for any limit, any
\* hold-up and any bound on the ages.
THEOREM StaleCorrect == Spec => StaleOnlyIfHeldUp
<1>1. Spec => []AgeBound
  BY InitAge, AgeStep, TypeCorrect, PTL DEF Spec
<1>2. TypeOK /\ AgeBound /\ [Next]_vars =>
        [publications' # publications /\ ~popped.cut
           => popped.age <= FreshLimit + popped.held + 1]_vars
  <2> SUFFICES ASSUME TypeOK, AgeBound, [Next]_vars, publications' # publications, ~popped.cut
               PROVE  popped.age <= FreshLimit + popped.held + 1
    OBVIOUS
  <2>1. Publish
    BY DEF Next, RxStep, MqttStep, BrokerStep, UpdateFromCan, ReadInfo, PushLatest, SeeConnected,
       TakeLatest, EndPass, OnConnect, OnDisconnect, PublishLastWill, ReaderConnects,
       ReaderDisconnects, ReaderOnMessage, vars, node, history
  <2>2. popped.seq # 0
    BY <2>1 DEF Publish, TypeOK
  <2> QED BY <2>2 DEF AgeBound
<1> QED BY <1>1, <1>2, TypeCorrect, PTL DEF Spec, StaleOnlyIfHeldUp

-----------------------------------------------------------------------------
(***************************************************************************)
(* Traffic lights.  A message carries the number of its publication, so a  *)
(* status is the last one of its light exactly if it has the number of     *)
(* the message that the broker retains.  The invariant says so of every    *)
(* status on its way: in the inbox, the table, the selection, the frame.   *)
(***************************************************************************)
LightMessages ==
  [id : TopicIds, color : Nat, timeLeft : Nat, stamped : BOOLEAN, number : 1..lightsPublished]
LightStatuses == [color : Nat, timeLeft : Nat, number : Nat]

OfLight(id, status) ==
  /\ id \in TopicIds /\ status \in LightStatuses /\ status.number \in 1..lightsPublished
  /\ status.number <= lightMessages[id].number
  /\ status.number = lightMessages[id].number => status = Lights!Status(lightMessages[id])

BrokerInv ==
  /\ lightsPublished \in 0..MaxPublications /\ lightConnected \in BOOLEAN
  /\ lightMessages \in [TopicIds -> LightMessages \cup {Lights!NoMessage}]
  /\ \A id \in TopicIds : lightMessages[id] # Lights!NoMessage => lightMessages[id].id = id

InboxInv ==
  /\ inbox \in Seq(LightMessages)
  /\ \A i \in 1..Len(inbox) : OfLight(inbox[i].id, Lights!Status(inbox[i]))

TableInv ==
  /\ DOMAIN table = Lights!Slots
  /\ \A slot \in Lights!Slots : table[slot] = Lights!NoStatus \/ OfLight(slot, table[slot])

SelectionInv ==
  /\ {linked, self} \subseteq TopicIds \cup {InvalidId}
  /\ txPc \in {"begin", "copy", "check", "select", "send"}
  /\ \/ candidate = [id |-> InvalidId, status |-> Lights!NoStatus]
     \/ /\ candidate.id \in Lights!Slots /\ OfLight(candidate.id, candidate.status)
        /\ txPc = "send" => candidate.id = self

TimingInv == enabled \in BOOLEAN /\ lastActive \in BOOLEAN /\ elapsed \in 1..LightPeriod

FrameInv ==
  \/ frame = Lights!NoFrame \/ frame = Lights!NoLightFrame
  \/ \E status \in LightStatuses :
       /\ frame.id \in Lights!Slots /\ OfLight(frame.id, status)
       /\ frame = Lights!LightFrame(frame.id, status)

LightInv == BrokerInv /\ InboxInv /\ TableInv /\ SelectionInv /\ TimingInv /\ FrameInv

\* A message and its status.
LEMMA StatusType ==
  ASSUME NEW m \in LightMessages
  PROVE  /\ m.id \in TopicIds /\ m.number \in 1..lightsPublished
         /\ Lights!Status(m) \in LightStatuses /\ Lights!Status(m).number = m.number
BY DEF LightMessages, LightStatuses, Lights!Status

\* The slots are ids that are neither of the two that stand for no light.
LEMMA SlotTypes ==
  /\ Lights!Slots \subseteq Nat /\ 0 \in Lights!Slots
  /\ InvalidId \notin Lights!Slots /\ CommErrorId \notin Lights!Slots
BY LightsAssumption DEF Lights!Slots

\* Another publication makes no status untrue: what it replaces has a lower number.
LEMMA PublishKeeps ==
  ASSUME BrokerInv, Lights!Publish
  PROVE  /\ BrokerInv'
         /\ \A id, status : OfLight(id, status) => OfLight(id, status)'
         /\ LightMessages \subseteq LightMessages'
         /\ inbox' # inbox =>
              \E m \in LightMessages' : inbox' = Append(inbox, m) /\ OfLight(m.id, Lights!Status(m))'
<1>0. PICK id \in TopicIds : \E payload \in Payloads[id] :
        /\ lightMessages' = [lightMessages EXCEPT ![id] = Lights!Message(id, payload)]
        /\ inbox' = IF lightConnected THEN Append(inbox, Lights!Message(id, payload)) ELSE inbox
  BY DEF Lights!Publish
<1>1. PICK payload \in Payloads[id] :
        /\ lightMessages' = [lightMessages EXCEPT ![id] = Lights!Message(id, payload)]
        /\ inbox' = IF lightConnected THEN Append(inbox, Lights!Message(id, payload)) ELSE inbox
  BY <1>0
<1>2. /\ lightsPublished \in Nat /\ lightsPublished' = lightsPublished + 1
      /\ lightsPublished' \in 0..MaxPublications /\ lightConnected' = lightConnected
  BY LightsAssumption DEF Lights!Publish, BrokerInv
<1>3. PICK m : m = Lights!Message(id, payload)
  OBVIOUS
<1>4. m \in LightMessages' /\ m.id = id /\ m.number = lightsPublished + 1
  BY <1>2, <1>3, LightsAssumption DEF Lights!Message, LightMessages
<1>5. LightMessages \subseteq LightMessages'
  BY <1>2 DEF LightMessages
<1>6. /\ lightMessages'[id] = m
      /\ \A other \in TopicIds \ {id} : lightMessages'[other] = lightMessages[other]
  BY <1>1, <1>3 DEF BrokerInv
<1>7. BrokerInv'
  BY <1>1, <1>2, <1>3, <1>4, <1>5, <1>6 DEF BrokerInv
<1>8. ASSUME NEW other, NEW status, OfLight(other, status)
      PROVE  OfLight(other, status)'
  <2>1. CASE other = id
    BY <1>2, <1>4, <1>6, <1>8, <2>1 DEF OfLight
  <2>2. CASE other # id
    BY <1>2, <1>6, <1>8, <2>2 DEF OfLight
  <2> QED
    BY <2>1, <2>2
<1>9. OfLight(m.id, Lights!Status(m))'
  <2>1. Lights!Status(m) \in LightStatuses /\ Lights!Status(m).number = m.number
    BY <1>4 DEF LightMessages, LightStatuses, Lights!Status
  <2>2. m.number \in 1..lightsPublished'
    BY <1>2, <1>4
  <2> QED
    BY <1>4, <1>6, <2>1, <2>2 DEF OfLight
<1>10. inbox' # inbox => inbox' = Append(inbox, m)
  BY <1>1, <1>3
<1> QED
  BY <1>4, <1>5, <1>7, <1>8, <1>9, <1>10

-----------------------------------------------------------------------------
(***************************************************************************)
(* Nothing but a publication changes what the lights have published, so    *)
(* what is true of a status stays true.                                    *)
(***************************************************************************)
LEMMA OfLightKept ==
  ASSUME UNCHANGED <<lightsPublished, lightMessages>>
  PROVE  /\ LightMessages' = LightMessages
         /\ \A id, status : OfLight(id, status)' = OfLight(id, status)
BY DEF LightMessages, OfLight

LEMMA PublishStep ==
  ASSUME LightInv, Lights!Publish
  PROVE  LightInv'
<1>1. /\ BrokerInv'
      /\ \A id, status : OfLight(id, status) => OfLight(id, status)'
      /\ LightMessages \subseteq LightMessages'
      /\ inbox' # inbox =>
           \E m \in LightMessages' : inbox' = Append(inbox, m) /\ OfLight(m.id, Lights!Status(m))'
  BY PublishKeeps DEF LightInv
<1>2. UNCHANGED <<table, linked, candidate, enabled, lastActive, elapsed, txPc, self, frame>>
  BY DEF Lights!Publish, Lights!tx, Lights!timing
<1>3. InboxInv'
  <2>1. inbox \in Seq(LightMessages')
    BY <1>1 DEF LightInv, InboxInv
  <2>2. CASE inbox' = inbox
    BY <1>1, <2>1, <2>2 DEF LightInv, InboxInv
  <2>3. CASE inbox' # inbox
    <3>1. PICK m \in LightMessages' :
            inbox' = Append(inbox, m) /\ OfLight(m.id, Lights!Status(m))'
      BY <1>1, <2>3
    <3>2. inbox' \in Seq(LightMessages') /\ Len(inbox') = Len(inbox) + 1
      BY <2>1, <3>1
    <3>3. ASSUME NEW i \in 1..Len(inbox')
          PROVE  OfLight(inbox[i].id, Lights!Status(inbox[i]))'
      <4>1. CASE i = Len(inbox) + 1
        BY <2>1, <3>1, <4>1
      <4>2. CASE i # Len(inbox) + 1
        <5>1. i \in 1..Len(inbox) /\ inbox'[i] = inbox[i]
          BY <2>1, <3>1, <3>2, <3>3, <4>2
        <5> QED
          BY <1>1, <5>1 DEF LightInv, InboxInv
      <4> QED
        BY <4>1, <4>2
    <3> QED
      BY <3>2, <3>3 DEF InboxInv
  <2> QED
    BY <2>2, <2>3
<1>4. TableInv'
  BY <1>1, <1>2 DEF LightInv, TableInv
<1>5. SelectionInv'
  BY <1>1, <1>2 DEF LightInv, SelectionInv
<1>6. FrameInv'
  BY <1>1, <1>2 DEF LightInv, FrameInv
<1>7. TimingInv'
  BY <1>2 DEF LightInv, TimingInv
<1> QED
  BY <1>1, <1>3, <1>4, <1>5, <1>6, <1>7 DEF LightInv

\* The two modules count alike.
LEMMA SameCardinality == \A S : Lights!Cardinality(S) = Cardinality(S)
BY Zenon DEF Lights!Cardinality, Cardinality

\* What a connection brings: what the broker retains, in some order, each once.
LEMMA ConnectStep ==
  ASSUME LightInv, Lights!OnConnect
  PROVE  LightInv'
<1>1. UNCHANGED <<lightsPublished, lightMessages, linked, table, candidate, enabled, lastActive,
                  elapsed, txPc, self, frame>>
  BY DEF Lights!OnConnect, Lights!road, Lights!tx, Lights!timing
<1>2. /\ LightMessages' = LightMessages
      /\ \A id, status : OfLight(id, status)' = OfLight(id, status)
  BY <1>1, OfLightKept
<1>3. PICK S : /\ S = {lightMessages[id] : id \in TopicIds} \ {Lights!NoMessage}
               /\ inbox' \in Lights!Orders(S)
  BY Zenon DEF Lights!OnConnect
<1>4. inbox' \in [1..Cardinality(S) -> S]
  BY <1>3, SameCardinality, Zenon DEF Lights!Orders
<1>5. Cardinality(S) \in Nat
  <2> DEFINE T == {lightMessages[id] : id \in TopicIds}
  <2>1. lightMessages \in Surjection(TopicIds, T)
    <3>1. lightMessages \in [TopicIds -> T]
      BY DEF LightInv, BrokerInv
    <3> QED
      BY <3>1 DEF Surjection
  <2>2. IsFiniteSet(T)
    BY <2>1, LightsAssumption, FS_Surjection
  <2>3. S \in SUBSET T
    BY <1>3
  <2> HIDE DEF T
  <2> QED
    BY <2>2, <2>3, FS_Subset, FS_CardinalityType
<1>6. ASSUME NEW m \in S
      PROVE  m \in LightMessages /\ OfLight(m.id, Lights!Status(m))
  <2>1. PICK id \in TopicIds : m = lightMessages[id] /\ m # Lights!NoMessage
    BY <1>3, <1>6
  <2>2. m \in LightMessages /\ m.id = id
    BY <2>1 DEF LightInv, BrokerInv
  <2> QED
    BY <2>1, <2>2, StatusType DEF OfLight
<1>7. inbox' \in Seq(LightMessages) /\ Len(inbox') = Cardinality(S)
  BY <1>4, <1>5, <1>6
<1>8. \A i \in 1..Len(inbox') : inbox'[i] \in S
  BY <1>4, <1>7
<1>9. InboxInv'
  BY <1>2, <1>6, <1>7, <1>8 DEF InboxInv
<1>10. lightConnected' \in BOOLEAN
  BY DEF Lights!OnConnect
<1> QED
  BY <1>1, <1>2, <1>9, <1>10
  DEF LightInv, BrokerInv, TableInv, SelectionInv, TimingInv, FrameInv

LEMMA MessageStep ==
  ASSUME LightInv, Lights!OnMessage
  PROVE  LightInv'
<1>1. UNCHANGED <<lightsPublished, lightMessages, lightConnected, linked, candidate, enabled,
                  lastActive, elapsed, txPc, self, frame>>
  BY DEF Lights!OnMessage, Lights!road, Lights!tx, Lights!timing
<1>2. /\ LightMessages' = LightMessages
      /\ \A id, status : OfLight(id, status)' = OfLight(id, status)
  BY <1>1, OfLightKept
<1>3. inbox \in Seq(LightMessages) /\ inbox # <<>> /\ inbox' = Tail(inbox)
  BY DEF LightInv, InboxInv, Lights!OnMessage
<1>4. InboxInv'
  <2>1. inbox' \in Seq(LightMessages) /\ Len(inbox') = Len(inbox) - 1
    BY <1>3
  <2>2. \A i \in 1..Len(inbox') : i + 1 \in 1..Len(inbox) /\ inbox'[i] = inbox[i + 1]
    BY <1>3, <2>1
  <2> QED
    BY <1>2, <2>1, <2>2 DEF LightInv, InboxInv
<1>5. PICK m : m = Head(inbox)
  OBVIOUS
<1>6. m \in LightMessages /\ OfLight(m.id, Lights!Status(m)) /\ m.id \in Nat
  <2>1. 1 \in 1..Len(inbox) /\ m = inbox[1]
    BY <1>3, <1>5
  <2>2. m \in LightMessages /\ OfLight(m.id, Lights!Status(m))
    BY <2>1, <1>3 DEF LightInv, InboxInv
  <2> QED
    BY <2>2, LightsAssumption DEF OfLight
<1>7. table' = table \/ (m.id < TableSize /\ table' = [table EXCEPT ![m.id] = Lights!Status(m)])
  BY <1>5, Zenon DEF Lights!OnMessage, Lights!Update
<1>8. TableInv'
  <2>1. CASE table' = table
    BY <1>2, <2>1 DEF LightInv, TableInv
  <2>2. CASE m.id < TableSize /\ table' = [table EXCEPT ![m.id] = Lights!Status(m)]
    <3>1. m.id \in Lights!Slots
      BY <1>6, <2>2, LightsAssumption DEF Lights!Slots
    <3> QED
      BY <1>2, <1>6, <2>2, <3>1 DEF LightInv, TableInv
  <2> QED
    BY <1>7, <2>1, <2>2
<1> QED
  BY <1>1, <1>2, <1>4, <1>8 DEF LightInv, BrokerInv, SelectionInv, TimingInv, FrameInv

\* The counter never gets past the period.
LEMMA HalfPeriod == LightPeriod \div 2 \in 1..LightPeriod - 1
BY LightsAssumption

LEMMA TimingStep ==
  ASSUME TimingInv, Lights!TxStep
  PROVE  TimingInv'
<1>1. LightPeriod \in Nat /\ 1 < LightPeriod /\ elapsed \in 1..LightPeriod
  BY LightsAssumption DEF TimingInv
<1>2. CASE Lights!TxBegin
  <2>1. enabled' = enabled /\ lastActive' = enabled
    BY <1>2 DEF Lights!TxBegin, Lights!road
  <2>2. CASE Lights!IsDue
    BY <1>2, <2>1, <2>2 DEF Lights!TxBegin, TimingInv
  <2>3. CASE ~Lights!IsDue
    <3>1. elapsed' = (IF Lights!Starts THEN LightPeriod \div 2 ELSE elapsed) + 1
      BY <1>2, <2>3 DEF Lights!TxBegin, Lights!ElapsedAfterSkip
    <3>2. CASE Lights!Starts
      BY <1>1, <2>1, <3>1, <3>2, HalfPeriod DEF TimingInv
    <3>3. CASE ~Lights!Starts
      BY <1>1, <2>1, <2>3, <3>1, <3>3 DEF Lights!IsDue, TimingInv
    <3> QED
      BY <3>2, <3>3
  <2> QED
    BY <2>2, <2>3
<1>3. CASE Lights!TxCheck \/ Lights!TxSend
  <2>1. enabled' = enabled /\ lastActive' = lastActive /\ elapsed' \in {1, elapsed}
    BY <1>3 DEF Lights!TxCheck, Lights!TxSend, Lights!road
  <2> QED
    BY <1>1, <2>1 DEF TimingInv
<1>4. CASE Lights!TxCopy \/ Lights!TxSelect
  BY <1>4 DEF Lights!TxCopy, Lights!TxSelect, Lights!road, Lights!timing, TimingInv
<1> QED
  BY <1>2, <1>3, <1>4 DEF Lights!TxStep

\* A pass of send_candidate_traffic_light: what is selected is of the light that the
\* pass began with, and the frame says what was selected.
LEMMA TxLightStep ==
  ASSUME LightInv, Lights!TxStep
  PROVE  LightInv' /\ (frame' # frame /\ frame'.number # 0 => frame'.id = self)
<1>1. /\ UNCHANGED <<lightsPublished, lightMessages, lightConnected, linked, inbox, table>>
      /\ BrokerInv' = BrokerInv /\ InboxInv' = InboxInv /\ TableInv' = TableInv
  BY DEF Lights!TxStep, Lights!TxBegin, Lights!TxCopy, Lights!TxCheck, Lights!TxSelect,
         Lights!TxSend, Lights!road, BrokerInv, InboxInv, TableInv, LightMessages, OfLight
<1>2. \A id, status : OfLight(id, status)' = OfLight(id, status)
  BY <1>1, OfLightKept
<1>6. TimingInv'
  BY TimingStep DEF LightInv
<1>7. CASE Lights!TxBegin
  <2>1. /\ txPc' \in {"begin", "copy"} /\ UNCHANGED <<candidate, self, frame>>
        /\ UNCHANGED linked
    BY <1>7 DEF Lights!TxBegin, Lights!road
  <2>2. SelectionInv' /\ FrameInv'
    BY <1>2, <2>1 DEF LightInv, SelectionInv, FrameInv
  <2> QED
    BY <1>1, <1>6, <2>1, <2>2 DEF LightInv
<1>8. CASE Lights!TxCopy
  <2>1. txPc' = "check" /\ UNCHANGED <<candidate, linked, frame>> /\ self' = linked
    BY <1>8 DEF Lights!TxCopy, Lights!road
  <2>2. SelectionInv' /\ FrameInv'
    BY <1>2, <2>1 DEF LightInv, SelectionInv, FrameInv
  <2> QED
    BY <1>1, <1>6, <2>1, <2>2 DEF LightInv
<1>3. CASE Lights!TxCheck
  <2>1. SelectionInv'
    BY <1>2, <1>3 DEF LightInv, SelectionInv, Lights!TxCheck, Lights!road
  <2>2. frame' = frame \/ frame' = Lights!NoFrame
    BY <1>3 DEF Lights!TxCheck, Lights!UnavailableFrame
  <2> QED
    BY <1>1, <1>2, <1>6, <2>1, <2>2 DEF LightInv, FrameInv, Lights!NoFrame
<1>4. CASE Lights!TxSelect
  <2>1. frame' = frame /\ self' = self /\ linked' = linked /\ txPc' = "send"
    BY <1>4 DEF Lights!TxSelect, Lights!road
  <2>2. CASE self < TableSize /\ table[self] # Lights!NoStatus
    <3>1. candidate' = [id |-> self, status |-> table[self]]
      BY <1>4, <2>2 DEF Lights!TxSelect, Lights!Selected
    <3>2. self \in Lights!Slots
      <4>1. self \in Nat
        BY LightsAssumption DEF LightInv, SelectionInv
      <4> QED
        BY <2>2, <4>1, LightsAssumption DEF Lights!Slots
    <3>3. OfLight(self, table[self])
      BY <2>2, <3>2 DEF LightInv, TableInv
    <3>4. SelectionInv'
      BY <1>2, <2>1, <3>1, <3>2, <3>3 DEF LightInv, SelectionInv
    <3> QED
      BY <1>1, <1>2, <1>6, <2>1, <3>4 DEF LightInv, FrameInv
  <2>3. CASE ~(self < TableSize /\ table[self] # Lights!NoStatus)
    <3>1. candidate' = [id |-> InvalidId, status |-> Lights!NoStatus]
      BY <1>4, <2>3, Zenon DEF Lights!TxSelect, Lights!Selected
    <3> QED
      BY <1>1, <1>2, <1>6, <2>1, <3>1 DEF LightInv, SelectionInv, FrameInv
  <2> QED
    BY <2>2, <2>3
<1>5. CASE Lights!TxSend
  <2>1. UNCHANGED <<linked, self, candidate>> /\ txPc = "send" /\ txPc' = "begin"
    BY <1>5 DEF Lights!TxSend, Lights!road
  <2>2. SelectionInv'
    BY <1>2, <2>1 DEF LightInv, SelectionInv
  <2>3. CASE candidate.id = InvalidId
    <3>1. frame' = Lights!NoLightFrame
      BY <1>5, <2>3 DEF Lights!TxSend
    <3>2. FrameInv' /\ frame'.number = 0
      BY <3>1 DEF FrameInv, Lights!NoLightFrame, Lights!NoFrame
    <3> QED
      BY <1>1, <1>6, <2>2, <3>2 DEF LightInv
  <2>4. CASE candidate.id # InvalidId
    <3>1. /\ candidate.id \in Lights!Slots /\ candidate.id = self
          /\ OfLight(candidate.id, candidate.status)
      BY <2>1, <2>4 DEF LightInv, SelectionInv
    <3>2. frame' = Lights!LightFrame(candidate.id, candidate.status)
      BY <1>5, <2>4 DEF Lights!TxSend
    <3>3. frame'.id = candidate.id /\ candidate.status \in LightStatuses
      BY <3>1, <3>2 DEF Lights!LightFrame, OfLight
    <3>4. FrameInv'
      BY <1>2, <2>1, <3>1, <3>2, <3>3 DEF FrameInv
    <3> QED
      BY <1>1, <1>6, <2>2, <3>1, <3>3, <3>4 DEF LightInv
  <2> QED
    BY <2>3, <2>4
<1> QED
  BY <1>3, <1>4, <1>5, <1>7, <1>8 DEF Lights!TxStep

LEMMA InitLights == AllInit => LightInv
<1> SUFFICES ASSUME Lights!Init PROVE LightInv
  BY DEF AllInit
<1>1. BrokerInv
  <2>1. lightsPublished \in 0..MaxPublications /\ lightConnected \in BOOLEAN
    <3>1. lightsPublished \in 0..MaxPublications
      BY LightsAssumption DEF Lights!Init
    <3>2. lightConnected \in BOOLEAN
      BY Zenon DEF Lights!Init
    <3> QED
      BY <3>1, <3>2
  <2>2. lightMessages = [id \in TopicIds |-> Lights!NoMessage]
    BY DEF Lights!Init
  <2> QED
    BY <2>1, <2>2 DEF BrokerInv
<1>2. InboxInv
  BY DEF Lights!Init, InboxInv
<1>3. TableInv /\ SelectionInv /\ FrameInv
  <2>1. TableInv /\ FrameInv
    BY DEF Lights!Init, TableInv, FrameInv
  <2>2. {linked, self} \subseteq TopicIds \cup {InvalidId} /\ txPc = "begin"
    BY DEF Lights!Init
  <2>3. candidate = [id |-> InvalidId, status |-> Lights!NoStatus]
    BY DEF Lights!Init
  <2> QED
    BY <2>1, <2>2, <2>3 DEF SelectionInv
<1>4. TimingInv
  <2>1. enabled \in BOOLEAN /\ lastActive \in BOOLEAN
    BY Zenon DEF Lights!Init
  <2>2. elapsed = LightPeriod \div 2
    BY Zenon DEF Lights!Init
  <2> QED
    BY <2>1, <2>2, HalfPeriod, LightsAssumption DEF TimingInv
<1> QED
  BY <1>1, <1>2, <1>3, <1>4 DEF LightInv

LEMMA StepLights ==
  ASSUME LightInv, [AllNext]_allVars
  PROVE  LightInv' /\ (frame' # frame /\ frame'.number # 0 => frame'.id = self)
<1>1. CASE Lights!Publish
  BY <1>1, PublishStep DEF Lights!Publish, Lights!tx
<1>2. CASE Lights!OnConnect
  BY <1>2, ConnectStep DEF Lights!OnConnect, Lights!tx
<1>3. CASE Lights!OnMessage
  BY <1>3, MessageStep DEF Lights!OnMessage, Lights!tx
<1>4. CASE Lights!TxStep
  BY <1>4, TxLightStep
<1>5. CASE Lights!Drive \/ Lights!SwitchMode \/ Lights!OnDisconnect \/ UNCHANGED lightVars
  <2>1. UNCHANGED <<lightsPublished, lightMessages, table, candidate, txPc, self, frame>>
    BY <1>5 DEF Lights!Drive, Lights!SwitchMode, Lights!OnDisconnect, Lights!road, Lights!tx,
                lightVars
  <2>2. \A id, status : OfLight(id, status)' = OfLight(id, status)
    BY <2>1, OfLightKept
  <2>3. /\ lightConnected' \in BOOLEAN /\ linked' \in TopicIds \cup {InvalidId}
        /\ inbox' \in {inbox, <<>>}
    BY <1>5 DEF Lights!Drive, Lights!SwitchMode, Lights!OnDisconnect, Lights!road, Lights!tx,
                lightVars, LightInv, BrokerInv, SelectionInv
  <2>7. TimingInv'
    <3>1. lastActive' = lastActive /\ elapsed' = elapsed /\ enabled' \in {enabled, ~enabled}
      BY <1>5 DEF Lights!Drive, Lights!SwitchMode, Lights!OnDisconnect, Lights!road, Lights!tx,
                  Lights!timing, lightVars
    <3> QED
      BY <3>1 DEF LightInv, TimingInv
  <2>4. BrokerInv' /\ TableInv' /\ SelectionInv' /\ FrameInv'
    BY <2>1, <2>2, <2>3 DEF LightInv, BrokerInv, TableInv, SelectionInv, FrameInv, LightMessages
  <2>5. LightMessages' = LightMessages /\ inbox \in Seq(LightMessages)
    BY <2>1, OfLightKept DEF LightInv, InboxInv
  <2>6. InboxInv'
    <3>1. inbox' = inbox => InboxInv'
      BY <2>2, <2>5 DEF LightInv, InboxInv
    <3>2. inbox' = <<>> => InboxInv'
      BY <2>5 DEF InboxInv
    <3> QED
      BY <2>3, <3>1, <3>2
  <2> QED
    BY <2>1, <2>4, <2>6, <2>7 DEF LightInv
<1> QED
  BY <1>1, <1>2, <1>3, <1>4, <1>5 DEF AllNext, Own, Light, Lights!Next, allVars

\* The invariant gives the frame its light, its slot its light and every variable its
\* values.
LEMMA LightsAreTrue ==
  ASSUME LightInv
  PROVE  Lights!EntryIsOfItsLight /\ Lights!FrameSaysOneStatus /\ Lights!TypeOK
<1>1. Lights!EntryIsOfItsLight
  BY SlotTypes DEF LightInv, TableInv, OfLight, Lights!EntryIsOfItsLight
<1>2. /\ frame.id \in Lights!Slots \cup {CommErrorId} /\ frame.timeLeft \in 0..TimeModulus - 1
      /\ Lights!FrameSaysOneStatus
  <2>1. CASE frame = Lights!NoFrame \/ frame = Lights!NoLightFrame
    <3>1. frame.number = 0 /\ frame.id \in {0, CommErrorId} /\ frame.timeLeft = 0
      BY <2>1 DEF Lights!NoFrame, Lights!NoLightFrame
    <3> QED
      BY <3>1, LightsAssumption, SlotTypes DEF Lights!FrameSaysOneStatus
  <2>2. CASE \E status \in LightStatuses :
               /\ frame.id \in Lights!Slots /\ OfLight(frame.id, status)
               /\ frame = Lights!LightFrame(frame.id, status)
    <3>1. PICK status \in LightStatuses :
            /\ frame.id \in Lights!Slots /\ OfLight(frame.id, status)
            /\ frame = Lights!LightFrame(frame.id, status)
      BY <2>2
    <3>2. frame.number = status.number /\ frame.timeLeft = status.timeLeft % TimeModulus
      BY <3>1 DEF Lights!LightFrame
    <3>3. status.timeLeft % TimeModulus \in 0..TimeModulus - 1
      BY LightsAssumption DEF LightStatuses
    <3>4. Lights!FrameSaysOneStatus
      BY <3>1, <3>2, Zenon DEF Lights!FrameSaysOneStatus, OfLight
    <3> QED
      BY <3>1, <3>2, <3>3, <3>4
  <2> QED
    BY <2>1, <2>2 DEF LightInv, FrameInv
<1>3. \A i \in DOMAIN inbox : inbox[i].id \in TopicIds /\ inbox[i].number \in 1..lightsPublished
  BY StatusType DEF LightInv, InboxInv
<1>4. DOMAIN table = Lights!Slots /\ \A slot \in Lights!Slots : Lights!Numbered(table[slot])
  BY DEF LightInv, BrokerInv, TableInv, OfLight, Lights!Numbered, Lights!NoStatus
<1>5. candidate.id \in Lights!Slots \cup {InvalidId} /\ Lights!Numbered(candidate.status)
  BY DEF LightInv, BrokerInv, SelectionInv, OfLight, Lights!Numbered, Lights!NoStatus
<1> QED
  BY <1>1, <1>2, <1>3, <1>4, <1>5 DEF Lights!TypeOK, LightInv, BrokerInv, SelectionInv, TimingInv

\* For any number of lights, any ids in topics, any table and any times, in every
\* interleaving of the network thread's updates with the TX thread's passes: a frame
\* is about the light of the lane that the pass's copy is on, and says what one message
\* of that light said.
THEOREM LightFramesCorrect == AllSpec => LightFramesAreTrue
<1>1. AllSpec => []LightInv
  BY InitLights, StepLights, PTL DEF AllSpec
<1>2. LightInv /\ [AllNext]_allVars => [frame' # frame /\ frame'.number # 0 => frame'.id = self]_Lights!vars
  BY StepLights
<1>3. LightInv => Lights!EntryIsOfItsLight /\ Lights!FrameSaysOneStatus /\ Lights!TypeOK
  BY LightsAreTrue
<1> QED
  BY <1>1, <1>2, <1>3, PTL
  DEF AllSpec, LightFramesAreTrue, Lights!LightFramesAreTrue, Lights!FrameIsOfTheLinkedLight
=============================================================================
