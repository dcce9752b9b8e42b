----------------------------- MODULE MapLoading -----------------------------
(***************************************************************************)
(* intersection_map_load_xml and the queries on the map it leaves.  The    *)
(* file is scanned four times for its elements: areas, polygons, lanelets  *)
(* and regulatory elements.  Each is stored in a table of fixed size; what *)
(* does not fit is reported on stderr and left out, and the load succeeds. *)
(*                                                                         *)
(* A step parses one element, or one participant or applies_to of one.     *)
(* The file is chosen as it is read, and kept in `document'.  An id is a   *)
(* model value, a polygon the set of positions that it holds (MapPolygon   *)
(* says which those are).  Traffic light polygons are parsed into a table  *)
(* that nothing reads and are left out.                                    *)
(***************************************************************************)
EXTENDS Naturals, Sequences, FiniteSetsExt, SequencesExt

CONSTANTS
  NoId,             \* the empty string
  Positions,        \* where a vehicle may be
  AreaTags,         \* the area elements that a file may hold
  LaneletTags,      \* the lanelet elements
  ZoneRefs,         \* the ids in a conflict_zone_ref, or NoId
  LightRefs,        \* the ids in a traffic_light_ref, or NoId
  LaneRefs,         \* the lanelet ids in participants and applies_to
  Movements,
  MaxAreas,         \* MAP_MAX_AREAS
  MaxZones,         \* MAP_MAX_CONFLICT_ZONES
  MaxLanelets,      \* MAP_MAX_LANELETS
  MaxZonesPerLane,  \* MAP_MAX_CZ_PER_LANE
  MaxRelations,     \* MAP_MAX_CONFLICT_RELATIONS
  MaxParticipants,  \* MAP_MAX_CZ_PARTICIPANTS
  MaxOut,           \* VEHICLE_INFO_MAX_CONFLICT_ZONES, what a caller has room for
  DocAreas, DocLanelets, DocElements, DocRefs   \* bounds on the file

VARIABLES
  phase,     \* the scan under way, or "loaded"
  map,       \* IntersectionMap
  element,   \* the regulatory element under way, or NoElement
  document   \* history: the file as far as it has been read

vars == <<phase, map, element, document>>

\* DocRefs bounds the participants and applies_to of the whole file.
Refs(e) == Len(e.participants) + Len(e.appliesTo)
MoreRefs == Refs(element) + FoldLeft(LAMBDA n, e : n + Refs(e), 0, document.elements) < DocRefs

NoElement == [type |-> "none", id |-> NoId, relation |-> 0, participants |-> <<>>,
              appliesTo |-> <<>>]

Init ==
  /\ phase = "areas"
  /\ map = [areas |-> <<>>, zones |-> <<>>, center |-> NoId, lanelets |-> <<>>,
            relations |-> <<>>]
  /\ element = NoElement
  /\ document = [areas |-> <<>>, lanelets |-> <<>>, elements |-> <<>>]

-----------------------------------------------------------------------------
(***************************************************************************)
(* Areas and lanelets.                                                     *)
(***************************************************************************)
Capped(table, max, entry) == IF Len(table) < max THEN Append(table, entry) ELSE table

\* Mutant: the centre is taken only from an area that has found room.
StoreAreaWithRoom(m, a) ==
  [m EXCEPT !.areas = Capped(@, MaxAreas, a),
            !.center = IF a.type = "intersection_center" /\ Len(m.areas) < MaxAreas
                       THEN a.id ELSE @,
            !.zones = IF a.type = "conflict_zone" THEN Capped(@, MaxZones, a) ELSE @]

StoreArea(m, a) ==
  [m EXCEPT !.areas = Capped(@, MaxAreas, a),
            !.center = IF a.type = "intersection_center" THEN a.id ELSE @,
            !.zones = IF a.type = "conflict_zone" THEN Capped(@, MaxZones, a) ELSE @]

ParseArea ==
  /\ phase = "areas" /\ Len(document.areas) < DocAreas
  /\ \E a \in AreaTags :
       /\ map' = StoreArea(map, a)
       /\ document' = [document EXCEPT !.areas = Append(@, a)]
  /\ UNCHANGED <<phase, element>>

LoadedLanelet(tag) ==
  [id |-> tag.id, cells |-> tag.cells, maneuver |-> tag.maneuver,
   unprotected |-> tag.unprotected, light |-> tag.light, zones |-> <<>>]

\* A lanelet without room ends the scan.
ParseLanelet ==
  /\ phase = "lanelets" /\ Len(document.lanelets) < DocLanelets
  /\ \E tag \in LaneletTags :
       /\ map' = [map EXCEPT !.lanelets = Capped(@, MaxLanelets, LoadedLanelet(tag))]
       /\ document' = [document EXCEPT !.lanelets = Append(@, tag)]
  /\ phase' = IF Len(map.lanelets) < MaxLanelets THEN phase ELSE "regulatory"
  /\ UNCHANGED element

EndOfScan ==
  /\ element = NoElement
  /\ \/ phase = "areas" /\ phase' = "lanelets"
     \/ phase = "lanelets" /\ phase' = "regulatory"
     \/ phase = "regulatory" /\ phase' = "loaded"
  /\ UNCHANGED <<map, element, document>>

-----------------------------------------------------------------------------
(***************************************************************************)
(* Regulatory elements.  An element's relation is stored with its first    *)
(* participant, and is tried again at every other one while there is none. *)
(***************************************************************************)
IndexOf(table, id) == SelectInSeq(table, LAMBDA entry : entry.id = id)

\* Mutant: an element keeps to the relation of the one before.
BeginElementOnLast(type, id) ==
  [NoElement EXCEPT !.type = type, !.id = id, !.relation = Len(map.relations)]
NewElement(type, id) == [NoElement EXCEPT !.type = type, !.id = id]

BeginElement ==
  /\ phase = "regulatory" /\ element = NoElement /\ Len(document.elements) < DocElements
  /\ \/ \E zone \in ZoneRefs : element' = NewElement("conflict_zone", zone)
     \/ \E light \in LightRefs : element' = NewElement("traffic_light", light)
  /\ UNCHANGED <<phase, map, document>>

\* Mutant: one relation too many.
RelationForOver(m, e) ==
  CASE e.relation # 0 -> e.relation
    [] e.relation = 0 /\ e.id # NoId /\ Len(m.relations) <= MaxRelations ->
         Len(m.relations) + 1
    [] OTHER -> 0

RelationFor(m, e) ==
  CASE e.relation # 0 -> e.relation
    [] e.relation = 0 /\ e.id # NoId /\ Len(m.relations) < MaxRelations ->
         Len(m.relations) + 1
    [] OTHER -> 0

WithRelation(m, r, zone) ==
  IF r <= Len(m.relations) THEN m
  ELSE [m EXCEPT !.relations = Append(@, [zone |-> zone, participants |-> <<>>])]

\* Mutant: room for one participant less.
WithParticipantTight(m, r, p) ==
  IF r = 0 \/ p.lane = NoId THEN m
  ELSE [m EXCEPT !.relations[r].participants = Capped(@, MaxParticipants - 1, p)]

WithParticipant(m, r, p) ==
  IF r = 0 \/ p.lane = NoId THEN m
  ELSE [m EXCEPT !.relations[r].participants = Capped(@, MaxParticipants, p)]

\* Mutant: a zone is put last even if the lane has it, and so fills the list.
WithLaneZoneAgain(m, lane, zone) ==
  LET i == IndexOf(m.lanelets, lane)
  IN  IF i = 0 \/ zone = NoId THEN m
      ELSE [m EXCEPT !.lanelets[i].zones = Capped(@, MaxZonesPerLane, zone)]

WithLaneZone(m, lane, zone) ==
  LET i == IndexOf(m.lanelets, lane)
  IN  IF i = 0 \/ zone = NoId THEN m
      ELSE [m EXCEPT !.lanelets[i].zones =
              IF Contains(@, zone) THEN @ ELSE Capped(@, MaxZonesPerLane, zone)]

\* Mutant: the lanelet's own traffic_light_ref has the last word.
WithLightIfNone(m, lane, light) ==
  LET i == IndexOf(m.lanelets, lane)
  IN  IF i = 0 \/ light = NoId THEN m
      ELSE [m EXCEPT !.lanelets[i].light = IF @ = NoId THEN light ELSE @]

WithLight(m, lane, light) ==
  LET i == IndexOf(m.lanelets, lane)
  IN  IF i = 0 \/ light = NoId THEN m ELSE [m EXCEPT !.lanelets[i].light = light]

ParseParticipant ==
  /\ element.type = "conflict_zone" /\ element.appliesTo = <<>>
  /\ MoreRefs
  /\ \E lane \in LaneRefs, movement \in Movements :
       LET p == [lane |-> lane, movement |-> movement]
           r == RelationFor(map, element)
       IN  /\ map' = WithLaneZone(WithParticipant(WithRelation(map, r, element.id), r, p),
                                  lane, element.id)
           /\ element' = [element EXCEPT !.relation = r, !.participants = Append(@, p)]
  /\ UNCHANGED <<phase, document>>

\* The lanes that an element applies to, which count for a conflict zone only if
\* it names no participants, and then give it to the lane but to no movement.
ParseAppliesTo ==
  /\ element # NoElement /\ MoreRefs
  /\ \E lane \in LaneRefs :
       /\ map' = CASE element.type = "traffic_light" -> WithLight(map, lane, element.id)
                   [] element.type = "conflict_zone" /\ element.participants = <<>> ->
                        WithLaneZone(map, lane, element.id)
                   [] OTHER -> map
       /\ element' = [element EXCEPT !.appliesTo = Append(@, lane)]
  /\ UNCHANGED <<phase, document>>

Read(e) == [type |-> e.type, id |-> e.id, participants |-> e.participants,
            appliesTo |-> e.appliesTo]

EndElement ==
  /\ element # NoElement
  /\ document' = [document EXCEPT !.elements = Append(@, Read(element))]
  /\ element' = NoElement
  /\ UNCHANGED <<phase, map>>

Next ==
  \/ ParseArea \/ ParseLanelet \/ EndOfScan
  \/ BeginElement \/ ParseParticipant \/ ParseAppliesTo \/ EndElement

Spec == Init /\ [][Next]_vars

-----------------------------------------------------------------------------
(***************************************************************************)
(* Queries on a loaded map.                                                *)
(***************************************************************************)
InCenter(m, p) ==
  LET i == IndexOf(m.areas, m.center)
  IN  m.center # NoId /\ i # 0 /\ p \in m.areas[i].cells

\* Mutant: the last of the lanelets that hold a position.
LaneUnderLast(m, p) == SelectLastInSeq(m.lanelets, LAMBDA l : p \in l.cells)
LaneUnder(m, p) == SelectInSeq(m.lanelets, LAMBDA l : p \in l.cells)

GetLaneId(m, p) ==
  CASE InCenter(m, p) -> [result |-> "intersection_center", lane |-> NoId]
    [] ~InCenter(m, p) /\ LaneUnder(m, p) # 0 ->
         [result |-> "lane", lane |-> m.lanelets[LaneUnder(m, p)].id]
    [] OTHER -> [result |-> "not_found", lane |-> NoId]

Direction(lanelet) ==
  CASE lanelet.maneuver = "straight_right" -> "right"
    [] lanelet.maneuver = "straight_left" /\ lanelet.unprotected -> "unprotected_left"
    [] lanelet.maneuver = "straight_left" /\ ~lanelet.unprotected -> "left"
    [] OTHER -> "straight"

\* map_service_query_vehicle_context: the lanelet is looked up again by its id.
NoContext == [found |-> FALSE, center |-> FALSE, lane |-> NoId, direction |-> "unknown",
              light |-> NoId]

VehicleContext(m, p) ==
  LET answer == GetLaneId(m, p)
      lanelet == m.lanelets[IndexOf(m.lanelets, answer.lane)]
  IN  IF answer.result # "lane"
      THEN [NoContext EXCEPT !.center = (answer.result = "intersection_center")]
      ELSE [found |-> TRUE, center |-> FALSE, lane |-> lanelet.id,
            direction |-> Direction(lanelet), light |-> lanelet.light]

\* map_service_get_conflict_zone_ids_for_movement: found[n] is what is found in the
\* first n relations.
Crosses(relation, lane, movement) ==
  Contains(relation.participants, [lane |-> lane, movement |-> movement])

ZonesForMovement(m, lane, movement, max) ==
  LET found[n \in 0..Len(m.relations)] ==
        CASE n = 0 -> <<>>
          [] n > 0 /\ Len(found[n - 1]) < max
               /\ Crosses(m.relations[n], lane, movement)
               /\ ~Contains(found[n - 1], m.relations[n].zone) ->
                 Append(found[n - 1], m.relations[n].zone)
          [] OTHER -> found[n - 1]
  IN  found[Len(m.relations)]

\* intersection_map_get_conflict_zone_ids, which the program offers and does not call.
ZonesOfLane(m, lane, max) ==
  LET i == IndexOf(m.lanelets, lane)
      zones == IF i = 0 THEN <<>> ELSE m.lanelets[i].zones
  IN  SubSeq(zones, 1, Min({max, Len(zones)}))

-----------------------------------------------------------------------------
(***************************************************************************)
(* What the file says, to be compared with the answers.                    *)
(***************************************************************************)
Elements(type) ==
  {i \in DOMAIN document.elements : document.elements[i].type = type}

Named(e) == {k \in DOMAIN e.participants : e.participants[k].lane # NoId}

ConflictElements ==
  {i \in Elements("conflict_zone") :
     document.elements[i].id # NoId /\ document.elements[i].participants # <<>>}

ParticipantsFit == \A i \in ConflictElements :
  Cardinality(Named(document.elements[i])) <= MaxParticipants

RelationsFit == Cardinality(ConflictElements) <= MaxRelations

Declaring(lane, movement) ==
  {i \in ConflictElements :
     Contains(document.elements[i].participants, [lane |-> lane, movement |-> movement])}

DeclaredZones(lane, movement) ==
  {document.elements[i].id : i \in Declaring(lane, movement)}

\* The place in the file where a zone is first declared for a movement.
Declared(zone, lane, movement) ==
  Min({i \in Declaring(lane, movement) : document.elements[i].id = zone})

UniqueIds(tags) == \A i, j \in DOMAIN tags : tags[i].id = tags[j].id => i = j

-----------------------------------------------------------------------------
(***************************************************************************)
(* Properties.                                                             *)
(***************************************************************************)

\* No table of the map overruns its array, and what is in it has the right form.
TypeOK ==
  /\ phase \in {"areas", "lanelets", "regulatory", "loaded"}
  /\ Len(map.areas) <= MaxAreas /\ ToSet(map.areas) \subseteq AreaTags
  /\ Len(map.zones) <= MaxZones /\ ToSet(map.zones) \subseteq ToSet(map.areas) \cup AreaTags
  /\ Len(map.lanelets) <= MaxLanelets
  /\ \A l \in ToSet(map.lanelets) :
       /\ Len(l.zones) <= MaxZonesPerLane /\ ToSet(l.zones) \subseteq ZoneRefs \ {NoId}
       /\ \A i, j \in DOMAIN l.zones : l.zones[i] = l.zones[j] => i = j
  /\ Len(map.relations) <= MaxRelations
  /\ \A r \in ToSet(map.relations) :
       /\ r.zone \in ZoneRefs \ {NoId} /\ Len(r.participants) <= MaxParticipants
       /\ \A p \in ToSet(r.participants) : p.lane # NoId
  /\ element.relation \in 0..Len(map.relations)

\* Two movements that an element of the file declares to be in conflict have a
\* conflict zone in common in the answers about them, so that vehicles on them find
\* each other, whatever other elements the file has, as long as the tables and the
\* callers' arrays have room (parse_regulatory_elements with the movement query).
DeclaredConflictsAreSeen ==
  phase = "loaded" /\ RelationsFit /\ ParticipantsFit =>
    \A i \in ConflictElements : \A k, j \in Named(document.elements[i]) :
      LET e == document.elements[i]
          fits(p) == Cardinality(DeclaredZones(p.lane, p.movement)) <= MaxOut
          answer(p) == ToSet(ZonesForMovement(map, p.lane, p.movement, MaxOut))
      IN  fits(e.participants[k]) /\ fits(e.participants[j]) =>
            e.id \in answer(e.participants[k]) \cap answer(e.participants[j])

\* An answer holds no zone that the file does not declare for that very lane and
\* movement, even when tables overflowed, and none twice; the zones are in the order
\* of the file, and what does not fit is missing at the end only, unless an element
\* has more participants than its relation has room for.
AnswersFollowTheFile ==
  phase = "loaded" =>
    \A lane \in LaneRefs \ {NoId}, movement \in Movements, max \in 1..MaxOut :
      LET answer == ZonesForMovement(map, lane, movement, max)
          declared == DeclaredZones(lane, movement)
      IN  /\ ToSet(answer) \subseteq declared
          /\ \A j, k \in DOMAIN answer : answer[j] = answer[k] => j = k
          /\ ParticipantsFit =>
               \A k \in DOMAIN answer, zone \in declared :
                 Declared(zone, lane, movement) < Declared(answer[k], lane, movement) =>
                   \E j \in 1..k - 1 : answer[j] = zone
          /\ Len(answer) <= max
          /\ ParticipantsFit /\ RelationsFit /\ Len(answer) < max =>
               declared \subseteq ToSet(answer)

\* The lane's own list has every zone that a movement from the lane crosses, if the
\* file gives the lane no more zones than the list holds, however often it names
\* them (lanelet_add_conflict_zone beside conflict_relation_add_participant).
LaneListCoversMovements ==
  phase = "loaded" =>
    \A lane \in LaneRefs \ {NoId} : IndexOf(map.lanelets, lane) # 0 =>
      LET named == {i \in Elements("conflict_zone") :
                      \/ Contains(document.elements[i].appliesTo, lane)
                      \/ \E p \in ToSet(document.elements[i].participants) : p.lane = lane}
      IN  Cardinality({document.elements[i].id : i \in named}) <= MaxZonesPerLane =>
            \A movement \in Movements :
              ToSet(ZonesForMovement(map, lane, movement, MaxOut))
                \subseteq ToSet(ZonesOfLane(map, lane, MaxZonesPerLane))

\* A position counts as the intersection centre exactly if it lies in the area that
\* has the id of the file's last area of that type, and of several the first.  That
\* id counts even if the last area itself found no room: then it is another area
\* with its id that is the centre, whatever its type, or there is none.
CenterIsTheLastDeclared ==
  phase = "loaded" =>
    LET last == SelectLastInSeq(document.areas, LAMBDA a : a.type = "intersection_center")
        Stored(i) == i <= MaxAreas /\ document.areas[i].id = document.areas[last].id
    IN  \A p \in Positions : VehicleContext(map, p).center <=>
          /\ last # 0 /\ document.areas[last].id # NoId
          /\ \E i \in DOMAIN document.areas :
               /\ Stored(i) /\ \A j \in 1..i - 1 : ~Stored(j)
               /\ p \in document.areas[i].cells

\* Outside the centre a vehicle's context is that of the first lanelet of the file
\* that holds its position, never of another one, if the ids are unique.
ContextIsOfTheLaneUnder ==
  phase = "loaded" /\ UniqueIds(document.lanelets) =>
    \A p \in Positions :
      LET context == VehicleContext(map, p)
          first == SelectInSeq(document.lanelets, LAMBDA l : p \in l.cells)
      IN  ~InCenter(map, p) =>
            /\ context.found <=> first \in 1..MaxLanelets
            /\ context.found =>
                 /\ context.lane = document.lanelets[first].id
                 /\ context.direction = Direction(document.lanelets[first])

\* The light of a lane is the one of the last element of the file that applies to
\* it and names a light; the lane's own reference counts only if there is none.
LightIsTheLastDeclared ==
  phase = "loaded" =>
    \A lane \in LaneRefs :
      LET i == IndexOf(map.lanelets, lane)
          last == SelectLastInSeq(document.elements, LAMBDA e :
                    e.type = "traffic_light" /\ e.id # NoId /\ Contains(e.appliesTo, lane))
      IN  i # 0 => map.lanelets[i].light =
                     IF last = 0 THEN document.lanelets[i].light ELSE document.elements[last].id
=============================================================================
