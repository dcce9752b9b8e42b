------------------------------- MODULE Frames -------------------------------
(***************************************************************************)
(* What a vehicle's state goes through on its way from its own RTOS to     *)
(* another vehicle's: the ego frame, the VehicleInfo, the JSON message,    *)
(* the VehicleInfo that is read from it and the candidate status frame;    *)
(* and the other frames that the CAN handler packs.                        *)
(*                                                                         *)
(* An unsigned number is the set of its bits that are 1, so that masking   *)
(* is an intersection, shifting a renaming and `|' a union.  A frame has   *)
(* the message id in bits 60-63 and the time stamp in bits 48-59.          *)
(***************************************************************************)
EXTENDS Integers, Sequences, SequencesExt

CONSTANTS
  FieldValues, \* by width: the numbers that a field of that width is given
  WideValues,  \* by width: the numbers from elsewhere for such a field, also wider ones
  ZoneIds,     \* conflict zone ids
  NotAnId,     \* an item of the array in a message that is not a string
  MaxZones     \* VEHICLE_INFO_MAX_CONFLICT_ZONES

VARIABLES
  stage,    \* where the state is: "idle", "ego", "info", "message", "received", "sent"
  carried,  \* the frame, the VehicleInfo or the message under way
  given     \* history: the values that were put in at the last source

vars == <<stage, carried, given>>

Field(shift, width) == [shift |-> shift, width |-> width]

\* Mutant: the heading a bit too far down.
EgoLayoutLow ==
  [timestamp |-> Field(48, 12), speed |-> Field(32, 8), x |-> Field(22, 10),
   y |-> Field(11, 11), heading |-> Field(1, 9), turn |-> Field(0, 2)]
EgoLayout ==
  [timestamp |-> Field(48, 12), speed |-> Field(32, 8), x |-> Field(22, 10),
   y |-> Field(11, 11), heading |-> Field(2, 9), turn |-> Field(0, 2)]

StatusLayout ==
  [timestamp |-> Field(48, 12), type |-> Field(40, 8), speed |-> Field(32, 8),
   x |-> Field(22, 10), y |-> Field(11, 11), heading |-> Field(2, 9)]

IntroLayout ==
  [timestamp |-> Field(48, 12), type |-> Field(32, 8), x |-> Field(22, 10),
   y |-> Field(11, 11)]

\* Mutant: the time left has the bits above the colour's shift, not below.
LightLayoutSwapped ==
  [timestamp |-> Field(48, 12), light |-> Field(32, 8), color |-> Field(30, 2),
   timeLeft |-> Field(28, 4), x |-> Field(16, 10), y |-> Field(5, 11), maneuver |-> Field(3, 2)]
LightLayout ==
  [timestamp |-> Field(48, 12), light |-> Field(32, 8), color |-> Field(30, 2),
   timeLeft |-> Field(26, 4), x |-> Field(16, 10), y |-> Field(5, 11), maneuver |-> Field(3, 2)]

NtpLayout ==
  [timestamp |-> Field(48, 12), epoch |-> Field(8, 40), status |-> Field(0, 8)]

Cut(n, width) == n \cap (0..width - 1)
Shifted(n, shift) == {b + shift : b \in n}

\* pack_can_data of a payload put together from masked and shifted fields.
Pack(id, layout, values) ==
  Shifted(id, 60) \cup
  UNION {Shifted(Cut(values[f], layout[f].width), layout[f].shift) : f \in DOMAIN layout}

Read(word, field) ==
  {b - field.shift : b \in word \cap (field.shift..field.shift + field.width - 1)}

Init == stage = "idle" /\ carried = {} /\ given = {}

-----------------------------------------------------------------------------
(***************************************************************************)
(* From the RTOS (external) through the codec.                             *)
(***************************************************************************)
Sense ==
  /\ stage = "idle" /\ stage' = "ego"
  /\ \E values \in [timestamp : FieldValues[12], speed : FieldValues[8], x : FieldValues[10],
                    y : FieldValues[11], heading : FieldValues[9], turn : FieldValues[2]] :
       given' = values /\ carried' = Pack({}, EgoLayout, values)

\* decode_can_payload; the time stamp is extended by ntp_time_reconstruct, which
\* keeps its low bits (Timestamps), and the map gives the zones.
Decode ==
  /\ stage = "ego" /\ Read(carried, Field(60, 4)) = {} /\ stage' = "info"
  /\ \E period \in {{}, {12, 40}} :
       carried' = [speed |-> Read(carried, EgoLayout.speed), x |-> Read(carried, EgoLayout.x),
                   y |-> Read(carried, EgoLayout.y), heading |-> Read(carried, EgoLayout.heading),
                   timestamp |-> Read(carried, EgoLayout.timestamp) \cup period, zones |-> <<>>]
  /\ UNCHANGED given

\* vehicle_info_to_json: these numbers are exact as doubles.
ToJson ==
  /\ stage = "info" /\ stage' = "message"
  /\ carried' = [speed |-> carried.speed, x |-> carried.x, y |-> carried.y,
                 heading |-> carried.heading, timestamp |-> carried.timestamp,
                 zones |-> carried.zones, complete |-> TRUE]
  /\ UNCHANGED given

\* A message of another vehicle, which may run another program.
ForeignMessage ==
  /\ stage = "idle" /\ stage' = "message"
  /\ \E speed \in WideValues[8], x \in WideValues[10], y \in WideValues[11],
        heading \in WideValues[9], zones \in BoundedSeq(ZoneIds \cup {NotAnId}, MaxZones + 1),
        complete \in BOOLEAN :
       carried' = [speed |-> speed, x |-> x, y |-> y, heading |-> heading,
                   timestamp |-> {0, 12}, zones |-> zones, complete |-> complete]
  /\ given' = carried'

\* vehicle_info_from_json: a message with a field missing, or with something else
\* than a string among the zones that there is room for, is refused.  Mutant: the
\* items are not looked at.
FirstZones(zones) == SubSeq(zones, 1, IF Len(zones) < MaxZones THEN Len(zones) ELSE MaxZones)
AcceptedUnseen(m) == m.complete
Accepted(m) == m.complete /\ ~Contains(FirstZones(m.zones), NotAnId)

FromJson ==
  /\ stage = "message"
  /\ IF Accepted(carried)
     THEN /\ stage' = "received"
          /\ carried' = [speed |-> Cut(carried.speed, 8), x |-> Cut(carried.x, 16),
                         y |-> Cut(carried.y, 16), heading |-> Cut(carried.heading, 16),
                         timestamp |-> carried.timestamp, zones |-> FirstZones(carried.zones)]
     ELSE stage' = "idle" /\ carried' = {}
  /\ given' = IF stage' = "idle" THEN {} ELSE given

-----------------------------------------------------------------------------
(***************************************************************************)
(* Frames to the RTOS.                                                     *)
(***************************************************************************)
Sent(id, layout, values) ==
  /\ stage' = "sent"
  /\ carried' = [id |-> id, word |-> Pack(id, layout, values), layout |-> layout]

\* can_handler_send_candidate_vehicle_status.
SendStatus ==
  /\ stage = "received"
  /\ \E type \in {{}, {0}, {7}} :
       /\ Sent({0, 2}, StatusLayout,
               [type |-> type, timestamp |-> carried.timestamp, speed |-> carried.speed,
                x |-> carried.x, y |-> carried.y, heading |-> carried.heading])
       /\ given' = [f \in DOMAIN given \cup {"type"} |-> IF f = "type" THEN type ELSE given[f]]

SendIntro ==
  /\ stage = "idle"
  /\ \E type \in FieldValues[8], x \in WideValues[10], y \in WideValues[11] :
       /\ given' = [timestamp |-> {0, 12}, type |-> type, x |-> Cut(x, 16), y |-> Cut(y, 16)]
       /\ Sent({2}, IntroLayout, given')

\* can_handler_send_traffic_light, and the frames for no light and for no connection.
SendLight ==
  /\ stage = "idle"
  /\ \E light \in FieldValues[3] \cup {{7}}, color \in {{}, {0}, {1}}, timeLeft \in WideValues[4],
        x \in WideValues[10], y \in WideValues[11], maneuver \in FieldValues[2] :
       /\ given' = [timestamp |-> {0, 12}, light |-> light, color |-> color,
                    timeLeft |-> Cut(timeLeft, 8), x |-> Cut(x, 16), y |-> Cut(y, 16),
                    maneuver |-> maneuver]
       /\ Sent({1, 2}, LightLayout, given')

SendNtpSync ==
  /\ stage = "idle"
  /\ \E epoch \in WideValues[40], status \in {{}, {0}, {1}} :
       /\ given' = [timestamp |-> Cut(epoch, 12), epoch |-> epoch, status |-> status]
       /\ Sent({1}, NtpLayout, given')

Done == stage = "sent" /\ stage' = "idle" /\ carried' = {} /\ given' = {}

Next ==
  \/ Sense \/ Decode \/ ToJson \/ ForeignMessage \/ FromJson
  \/ SendStatus \/ SendIntro \/ SendLight \/ SendNtpSync \/ Done

Spec == Init /\ [][Next]_vars

-----------------------------------------------------------------------------
(***************************************************************************)
(* Properties.                                                             *)
(***************************************************************************)

\* Every field of a frame reads back as the value that was put in, cut to the
\* field's width: no field disturbs another, however wide a value comes from a
\* message or from the map (the shifts and masks of can_handler.c).
FieldsReadBack ==
  stage = "sent" =>
    /\ Read(carried.word, Field(60, 4)) = carried.id
    /\ \A f \in DOMAIN carried.layout :
         Read(carried.word, carried.layout[f]) = Cut(given[f], carried.layout[f].width)

\* The place, the speed, the heading and the low bits of the sensing time that a
\* vehicle's RTOS reports are those that another vehicle's RTOS is told, without a
\* bit lost on the way (decode_ego_status, the codec and the status frame).
OwnStateArrivesUnchanged ==
  (stage = "sent" /\ "turn" \in DOMAIN given) =>
    \A f \in {"timestamp", "speed", "x", "y", "heading"} :
      Read(carried.word, carried.layout[f]) = given[f]

\* A VehicleInfo that is taken over has only ids of zones, as many as there is room
\* for, and in the order of the message.
ReceivedZonesAreIds ==
  stage = "received" =>
    /\ Len(carried.zones) <= MaxZones /\ ToSet(carried.zones) \subseteq ZoneIds
    /\ "zones" \in DOMAIN given => IsPrefix(carried.zones, given.zones)
=============================================================================
