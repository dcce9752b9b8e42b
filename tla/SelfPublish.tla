---------------------------- MODULE SelfPublish -----------------------------
(***************************************************************************)
(* One sample of the own status from update_from_can to the table of       *)
(* another vehicle: the freshness test, the one-place queue, the MQTT      *)
(* thread's pop and publish, the connection, the broker (external), and    *)
(* on_message at the other end, which runs the same program.  CAN RX may   *)
(* be held up before each of its locked calls.                             *)
(*                                                                         *)
(* A sample is its number and its age, counted in passes of the MQTT       *)
(* thread (MQTT_THREAD_SLEEP_MS).                                          *)
(***************************************************************************)
EXTENDS Naturals, Sequences

CONSTANTS
  FreshLimit,  \* SELF_VEHICLE_FRESHNESS_MS, in passes
  Oldest,      \* bounds the ages: where they saturate
  MaxSamples,  \* bounds the samples taken
  WireBound    \* bounds the messages the broker has under way to the reader

\* There is room for an age past the limit and the pass that a sample may wait.
ASSUME BoundsAssumption ==
  /\ FreshLimit \in Nat /\ Oldest \in Nat /\ FreshLimit + 1 < Oldest
  /\ MaxSamples \in Nat /\ WireBound \in Nat

VARIABLES
  rxPc,        \* CAN RX in on_ego_frame: between frames, or the call that is next
  info,        \* SelfVehicleManager.info
  copied,      \* local of on_ego_frame: what get_info returned, not pushed yet
  queued,      \* VehiclePublishQueue: .latest while .pending, else NoSample
  mqttPc,      \* where the MQTT thread is in its loop
  popped,      \* local of publish_latest_self_vehicle
  connected,   \* MqttHandler.connected
  \* external: the broker and the reader
  retained,    \* the number of the retained status, 0 for none or an empty one
  reading,     \* the reader is subscribed
  wire,        \* messages under way to it, 0 for an empty payload
  received,    \* number of the sample in the reader's table
  \* history
  published,   \* number of the last sample the broker took
  publications,
  lost         \* the last sample popped whose publish failed

node == <<rxPc, info, copied, queued, mqttPc, popped, connected>>
broker == <<retained, reading, wire, received>>
history == <<published, publications, lost>>
vars == <<node, broker, history>>

\* Two fields are history.  held: how many passes ended while CAN RX held the sample,
\* tested and not pushed; cut: it has been in the queue while there was no connection.
Sample(seq, age, held, cut) == [seq |-> seq, age |-> age, held |-> held, cut |-> cut]
NoSample == Sample(0, 0, 0, FALSE)
Samples == [seq : 0..MaxSamples, age : 0..Oldest, held : Nat, cut : BOOLEAN]

Init ==
  /\ rxPc = "poll" /\ info = NoSample /\ copied = NoSample
  /\ queued = NoSample /\ popped = NoSample
  /\ mqttPc = "publish" /\ connected = FALSE
  /\ retained = 0 /\ reading = FALSE /\ wire = <<>> /\ received = 0
  /\ published = 0 /\ publications = 0 /\ lost = 0

-----------------------------------------------------------------------------
(***************************************************************************)
(* The CAN RX thread.                                                      *)
(***************************************************************************)
UpdateFromCan ==
  /\ rxPc = "poll" /\ info.seq < MaxSamples
  /\ info' = Sample(info.seq + 1, 0, 0, FALSE)
  /\ rxPc' = "read"
  /\ UNCHANGED <<copied, queued, mqttPc, popped, connected, broker, history>>

\* Mutant: get_info looks at .valid only.
IsKnown(sample) == sample.seq # 0
IsFresh(sample) == sample.age <= FreshLimit

\* self_vehicle_manager_get_info: the test and the copy are one locked call.
ReadInfo ==
  /\ rxPc = "read"
  /\ IF IsFresh(info) THEN copied' = info /\ rxPc' = "push"
                     ELSE copied' = copied /\ rxPc' = "poll"
  /\ UNCHANGED <<info, queued, mqttPc, popped, connected, broker, history>>

\* vehicle_publish_queue_push: the sample is not tested again.
PushLatest ==
  /\ rxPc = "push"
  /\ queued' = [copied EXCEPT !.cut = ~connected]
  /\ copied' = NoSample
  /\ rxPc' = "poll"
  /\ UNCHANGED <<info, mqttPc, popped, connected, broker, history>>

-----------------------------------------------------------------------------
(***************************************************************************)
(* The MQTT thread.                                                        *)
(***************************************************************************)

\* Mutants: .pending stays set; and a sample that has waited is left where it is.
AfterPopPending == queued
IsUnaged == queued.seq # 0 /\ queued.age = 0

AfterPop == NoSample
IsPending == queued.seq # 0

\* The connection is looked at once, before the pop; it may be lost by then.
SeeConnected ==
  /\ mqttPc = "publish"
  /\ mqttPc' = IF connected THEN "pop" ELSE "sleep"
  /\ UNCHANGED <<rxPc, info, copied, queued, popped, connected, broker, history>>

TakeLatest ==
  /\ mqttPc = "pop"
  /\ IF IsPending
     THEN popped' = queued /\ queued' = AfterPop /\ mqttPc' = "send"
     ELSE popped' = popped /\ queued' = queued /\ mqttPc' = "sleep"
  /\ UNCHANGED <<rxPc, info, copied, connected, broker, history>>

\* The broker keeps the message and hands it on.
Deliver(seq) ==
  /\ retained' = seq
  /\ wire' = IF reading /\ Len(wire) < WireBound THEN Append(wire, seq) ELSE wire

\* mosquitto_publish with QoS 0: the broker gets it, or it is gone.
Publish ==
  /\ mqttPc = "send"
  /\ popped' = NoSample /\ mqttPc' = "sleep"
  /\ \/ /\ connected
        /\ published' = popped.seq /\ publications' = publications + 1
        /\ Deliver(popped.seq)
        /\ UNCHANGED lost
     \/ /\ lost' = popped.seq
        /\ UNCHANGED <<published, publications, retained, wire>>
  /\ UNCHANGED <<rxPc, info, copied, queued, connected, reading, received>>

Aged(sample) ==
  IF sample.seq = 0 \/ sample.age = Oldest THEN sample ELSE [sample EXCEPT !.age = @ + 1]

\* Its hold-up is as much of a sample's age as is counted.
AgedInHand(sample) ==
  IF sample.seq = 0 \/ sample.age = Oldest THEN sample
  ELSE [sample EXCEPT !.age = @ + 1, !.held = @ + 1]

EndPass ==
  /\ mqttPc = "sleep"
  /\ mqttPc' = "publish"
  /\ info' = Aged(info) /\ copied' = AgedInHand(copied) /\ queued' = Aged(queued)
  /\ UNCHANGED <<rxPc, popped, connected, broker, history>>

MqttStep == SeeConnected \/ TakeLatest \/ Publish \/ EndPass

-----------------------------------------------------------------------------
(***************************************************************************)
(* The connection, the broker and the reader.                              *)
(***************************************************************************)
OnConnect ==
  /\ ~connected /\ connected' = TRUE
  /\ UNCHANGED <<rxPc, info, copied, queued, mqttPc, popped, broker, history>>

OnDisconnect ==
  /\ connected /\ connected' = FALSE
  /\ queued' = IF IsPending THEN [queued EXCEPT !.cut = TRUE] ELSE queued
  /\ UNCHANGED <<rxPc, info, copied, mqttPc, popped, broker, history>>

\* Until we are back the broker may find our session broken and publish our last
\* will, which empties what it retains.
PublishLastWill ==
  /\ ~connected /\ retained # 0
  /\ Deliver(0)
  /\ UNCHANGED <<node, reading, received, history>>

\* The reader subscribes and is given what is retained.
ReaderConnects ==
  /\ ~reading /\ reading' = TRUE
  /\ wire' = IF retained = 0 THEN <<>> ELSE <<retained>>
  /\ UNCHANGED <<node, retained, received, history>>

ReaderDisconnects ==
  /\ reading /\ reading' = FALSE
  /\ wire' = <<>>
  /\ UNCHANGED <<node, retained, received, history>>

\* on_message ignores an empty payload and takes in any other.
ReaderOnMessage ==
  /\ wire # <<>>
  /\ wire' = Tail(wire)
  /\ received' = IF Head(wire) = 0 THEN received ELSE Head(wire)
  /\ UNCHANGED <<node, retained, reading, history>>

BrokerStep ==
  \/ OnConnect \/ OnDisconnect \/ PublishLastWill
  \/ ReaderConnects \/ ReaderDisconnects \/ ReaderOnMessage

RxStep == UpdateFromCan \/ ReadInfo \/ PushLatest
Next == RxStep \/ MqttStep \/ BrokerStep

\* The MQTT thread waits only for its own sleep.
Spec == Init /\ [][Next]_vars /\ WF_vars(MqttStep)

-----------------------------------------------------------------------------
(***************************************************************************)
(* Properties.                                                             *)
(***************************************************************************)

\* Every variable keeps to the values its C counterpart can hold.
TypeOK ==
  /\ rxPc \in {"poll", "read", "push"}
  /\ rxPc # "poll" => info.seq # 0
  /\ rxPc = "push" <=> copied.seq # 0
  /\ info \in Samples /\ copied \in Samples
  /\ queued \in Samples /\ popped \in Samples
  /\ mqttPc \in {"publish", "pop", "send", "sleep"}
  /\ mqttPc = "send" <=> popped.seq # 0
  /\ connected \in BOOLEAN /\ reading \in BOOLEAN
  /\ retained \in 0..MaxSamples /\ received \in 0..MaxSamples /\ lost \in 0..MaxSamples
  /\ published \in 0..MaxSamples
  /\ publications \in Nat
  /\ wire \in Seq(0..MaxSamples)

LV == INSTANCE LatestValue WITH newest <- info.seq

\* The queue that is overwritten, popped and sent by two threads, over lost
\* connections, failed sends, retained messages and last wills, is a stream of
\* latest values (the comment at mqtt_thread.c:41-42): no sample is published
\* twice or after a later one, and no reader goes back to an earlier one.
ImplementsLatestValue == LV!Spec

\* Nobody tests the age again between get_info and the broker, so a sample that was
\* queued over a lost connection is published however old it is, and so is one that
\* CAN RX was late to push.  In passes of the MQTT thread, which is how ages are
\* counted, there is no third way: any other waits at most one pass in the queue, and
\* what is published past the freshness limit and that pass is the hold-up between
\* the test and the push (can_rx_thread.c:76-77, mqtt_thread.c:34-43).
StaleOnlyIfHeldUp ==
  [][publications' # publications /\ ~popped.cut
       => popped.age <= FreshLimit + popped.held + 1]_vars

\* A queued sample gets to the broker, itself or a later one, unless a send
\* fails or the connection is lost: it is not forgotten in the queue.
LatestReachesBroker ==
  \A n \in 1..MaxSamples :
    (queued.seq = n /\ connected) ~> (published >= n \/ lost >= n \/ ~connected)
=============================================================================
