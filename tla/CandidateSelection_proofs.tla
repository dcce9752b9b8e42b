--------------------- MODULE CandidateSelection_proofs ----------------------
(***************************************************************************)
(* Lemmas about the choice of a candidate: it exists whenever some vehicle *)
(* conflicts, and it is unique.                                            *)
(***************************************************************************)
EXTENDS CandidateSelection, TLAPS, WellFoundedInduction

\* Every set of natural numbers that is not empty has a least element.
LEMMA LeastNat ==
  ASSUME NEW T \in SUBSET Nat, T # {}
  PROVE  \E m \in T : \A k \in T : m <= k
<1> DEFINE R == {ss \in Nat \X Nat : ss[1] < ss[2]}
<1>1. IsWellFoundedOn(R, Nat)
  BY NatLessThanWellFounded DEF OpToRel
<1>2. PICK m \in T : \A k \in T : ~(<<k, m>> \in R)
  <2> HIDE DEF R
  <2> QED
    BY <1>1, WFMin
<1>3. ASSUME NEW k \in T PROVE m <= k
  <2>1. k \in Nat /\ m \in Nat
    OBVIOUS
  <2>2. k < m => <<k, m>> \in R
    BY <2>1
  <2>3. ~(k < m)
    BY <1>2, <2>2
  <2> QED
    BY <2>1, <2>3
<1> QED
  BY <1>3

\* Distances are natural numbers wherever both vehicles are known.
LEMMA DistanceType ==
  ASSUME NEW s \in VehicleInfos, NEW o \in Tables, NEW id \in VehicleIds, o[id] # NoInfo
  PROVE  DistanceTo(s, o, id) \in Nat
<1>1. o[id] \in VehicleInfos
  BY DEF Tables
<1>2. s.pose \in Poses /\ o[id].pose \in Poses
  BY <1>1 DEF VehicleInfos
<1> QED
  BY <1>2, MapAssumption DEF DistanceTo

\* Among known vehicles some one is preferred to all the others.
LEMMA NearestExists ==
  ASSUME NEW s \in VehicleInfos, NEW o \in Tables,
         NEW ids \in SUBSET {id \in VehicleIds : o[id] # NoInfo}, ids # {}
  PROVE  \E id \in ids : \A other \in ids : Preferred(s, o, id, other)
<1> DEFINE dists == {DistanceTo(s, o, id) : id \in ids}
<1>1. \A id \in ids : id \in Nat /\ DistanceTo(s, o, id) \in Nat
  BY DistanceType, IdsAssumption
<1>2. PICK d \in dists : \A k \in dists : d <= k
  <2>1. dists \in SUBSET Nat /\ dists # {}
    BY <1>1
  <2> HIDE DEF dists
  <2> QED
    BY <2>1, LeastNat
<1> DEFINE closest == {id \in ids : DistanceTo(s, o, id) = d}
<1>3. PICK least \in closest : \A k \in closest : least <= k
  <2>1. closest \in SUBSET Nat /\ closest # {}
    BY <1>1, <1>2
  <2> HIDE DEF closest
  <2> QED
    BY <2>1, LeastNat
<1>4. ASSUME NEW other \in ids
      PROVE  Preferred(s, o, least, other)
  <2>1. DistanceTo(s, o, least) = d /\ d <= DistanceTo(s, o, other)
    BY <1>2, <1>3
  <2>2. DistanceTo(s, o, other) = d => least <= other
    BY <1>3
  <2> QED
    BY <1>1, <1>3, <2>1, <2>2 DEF Preferred
<1> QED
  BY <1>3, <1>4

\* A vehicle that is preferred to all of a set is the one NearestOf chooses.
LEMMA NearestUnique ==
  ASSUME NEW s \in VehicleInfos, NEW o \in Tables,
         NEW ids \in SUBSET {id \in VehicleIds : o[id] # NoInfo}, NEW id \in ids,
         \A other \in ids : Preferred(s, o, id, other)
  PROVE  NearestOf(s, o, ids) = id
<1>1. \A x \in ids : x \in Nat /\ DistanceTo(s, o, x) \in Nat
  BY DistanceType, IdsAssumption
<1>2. ASSUME NEW x \in ids, \A other \in ids : Preferred(s, o, x, other)
      PROVE  x = id
  <2>1. Preferred(s, o, x, id) /\ Preferred(s, o, id, x)
    BY <1>2
  <2> QED
    BY <1>1, <2>1 DEF Preferred
<1>3. \A other \in ids : Preferred(s, o, NearestOf(s, o, ids), other)
  BY DEF NearestOf
<1>4. NearestOf(s, o, ids) \in ids
  BY DEF NearestOf
<1> QED
  BY <1>2, <1>3, <1>4

\* The vehicle found is one of those that conflict, and none of them is nearer
\* (select_candidate_vehicle).
LEMMA SelectedIsNearest ==
  ASSUME NEW s \in VehicleInfos, NEW o \in Tables, SelectCandidate(s, o).found
  PROVE  /\ SelectCandidate(s, o).id \in EligibleIds(s, o)
         /\ \A other \in EligibleIds(s, o) : Preferred(s, o, SelectCandidate(s, o).id, other)
<1> DEFINE ids == EligibleIds(s, o)
<1>1. ids # {} /\ SelectCandidate(s, o).id = NearestOf(s, o, ids)
  BY DEF SelectCandidate, NoSelection
<1>2. ids \in SUBSET {id \in VehicleIds : o[id] # NoInfo}
  BY DEF EligibleIds, Eligible
<1>3. \E id \in ids : \A other \in ids : Preferred(s, o, id, other)
  <2> HIDE DEF ids
  <2> QED
    BY <1>1, <1>2, NearestExists
<1> QED
  BY <1>1, <1>3 DEF NearestOf

\* Whoever is found has an id of the table.
LEMMA FoundId ==
  ASSUME NEW chosen \in Selections, chosen.found
  PROVE  chosen.id \in VehicleIds
<1>1. NoSelection.found = FALSE
  BY DEF NoSelection
<1>2. chosen \in [found : {TRUE}, id : VehicleIds]
  BY <1>1 DEF Selections
<1> QED
  BY <1>2

\* A selection is nobody, or a vehicle of the table.
LEMMA SelectionType ==
  ASSUME NEW s \in VehicleInfos, NEW o \in Tables
  PROVE  SelectCandidate(s, o) \in Selections
<1>1. CASE EligibleIds(s, o) = {}
  BY <1>1 DEF SelectCandidate, NoSelection, Selections
<1>2. CASE EligibleIds(s, o) # {}
  <2>1. SelectCandidate(s, o) = [found |-> TRUE, id |-> NearestOf(s, o, EligibleIds(s, o))]
    BY <1>2 DEF SelectCandidate
  <2>2. SelectCandidate(s, o).id \in VehicleIds
    BY <2>1, SelectedIsNearest DEF EligibleIds
  <2> QED
    BY <2>1, <2>2 DEF Selections
<1> QED
  BY <1>1, <1>2
=============================================================================
