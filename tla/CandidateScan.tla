--------------------------- MODULE CandidateScan ----------------------------
(***************************************************************************)
(* The loop of select_candidate_vehicle over the copy of the table, one    *)
(* entry a step, as the code writes it: the best vehicle so far and its    *)
(* distance.  CandidateSelection states what the loop is for.              *)
(***************************************************************************)
EXTENDS CandidateSelection

CONSTANTS
  MaxOthers,   \* MAX_OTHER_VEHICLES: the table has the places 0..MaxOthers-1
  SelfInfos,   \* bounds the calls: what this vehicle may be
  PeerInfos    \* bounds the calls: what another vehicle may announce

ASSUME ScanAssumption ==
  /\ MaxOthers \in Nat \ {0}
  /\ VehicleIds = 0..MaxOthers - 1
  /\ SelfInfos \subseteq VehicleInfos /\ PeerInfos \subseteq VehicleInfos

VARIABLES
  self, others,  \* arguments of the call: our VehicleInfo, the copied table
  i,             \* the next entry
  found, best, bestDistance

args == <<self, others>>
vars == <<self, others, i, found, best, bestDistance>>

Copies == [VehicleIds -> PeerInfos \cup {NoInfo}]

Init ==
  /\ self \in SelfInfos /\ others \in Copies
  /\ i = 0 /\ found = FALSE /\ best = NoVehicle /\ bestDistance = 0

\* Mutant: a tie replaces the choice.
NoFarther == DistanceTo(self, others, i) <= bestDistance

NextEntry(n) == n + 1
Nearer == DistanceTo(self, others, i) < bestDistance

\* Not valid, ourselves, no shared zone, no conflict, or a zone without centre.
Skip ==
  /\ i < MaxOthers
  /\ ~Eligible(self, others, i)
  /\ i' = NextEntry(i)
  /\ UNCHANGED <<args, found, best, bestDistance>>

Take ==
  /\ i < MaxOthers
  /\ Eligible(self, others, i)
  /\ ~found \/ Nearer
  /\ found' = TRUE
  /\ best' = i
  /\ bestDistance' = DistanceTo(self, others, i)
  /\ i' = NextEntry(i)
  /\ UNCHANGED args

Keep ==
  /\ i < MaxOthers
  /\ Eligible(self, others, i)
  /\ found /\ ~Nearer
  /\ i' = NextEntry(i)
  /\ UNCHANGED <<args, found, best, bestDistance>>

\* The call has returned, and the next one is made.
NextCall ==
  /\ i = MaxOthers
  /\ self' \in SelfInfos /\ others' \in Copies
  /\ i' = 0 /\ found' = FALSE /\ best' = NoVehicle /\ bestDistance' = 0

Next == Skip \/ Take \/ Keep \/ NextCall

Spec == Init /\ [][Next]_vars

-----------------------------------------------------------------------------
\* Every variable keeps to the values its C counterpart can hold.
TypeOK ==
  /\ self \in VehicleInfos
  /\ others \in Tables
  /\ i \in 0..MaxOthers
  /\ found \in BOOLEAN
  /\ best \in VehicleIds \cup {NoVehicle}
  /\ bestDistance \in Nat

\* When the loop ends it has chosen exactly what CandidateSelection defines:
\* nobody if no vehicle conflicts, else the nearest conflicting one, and of
\* several at the same distance the one with the lowest id.
ScanSelects ==
  i = MaxOthers => SelectCandidate(self, others) = [found |-> found, id |-> best]
=============================================================================
