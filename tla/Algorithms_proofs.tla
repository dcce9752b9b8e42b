-------------------------- MODULE Algorithms_proofs -------------------------
(***************************************************************************)
(* The selection loop computes SelectCandidate, for every table size, map  *)
(* and distance; time stamps keep the sensing time, for every period and   *)
(* whatever the clocks do; what a frame carries reads back, for every      *)
(* value of its fields; what the loaded map answers is what the file       *)
(* declares, for every file and every table size; and a lane holds what    *)
(* its sides enclose, for every file and every position.                   *)
(***************************************************************************)
EXTENDS Algorithms, CandidateSelection_proofs, WellFoundedInduction, SequenceTheorems,
        FiniteSetTheorems

\* The copied table of a call is a table of vehicles.
LEMMA CopiesAreTables == Copies \subseteq Tables
<1>1. PeerInfos \cup {NoInfo} \subseteq VehicleInfos \cup {NoInfo}
  BY ScanAssumption
<1> QED
  BY <1>1 DEF Copies, Tables

-----------------------------------------------------------------------------
\* Every variable of the loop keeps its type.
THEOREM TypeCorrect == Spec => []TypeOK
<1>1. Init => TypeOK
  <2> SUFFICES ASSUME Init PROVE TypeOK
    OBVIOUS
  <2>1. others \in Tables
    BY CopiesAreTables DEF Init
  <2>2. found \in BOOLEAN
    BY DEF Init
  <2> QED
    BY <2>1, <2>2, ScanAssumption DEF Init, TypeOK
<1>2. TypeOK /\ [Next]_vars => TypeOK'
  <2> SUFFICES ASSUME TypeOK, [Next]_vars PROVE TypeOK'
    OBVIOUS
  <2> USE ScanAssumption DEF TypeOK
  <2>1. CASE Skip
    BY <2>1 DEF Skip, NextEntry, args
  <2>2. CASE Take
    <3>1. i \in VehicleIds /\ others[i] # NoInfo
      BY <2>2 DEF Take, Eligible
    <3>2. bestDistance' \in Nat
      BY <2>2, <3>1, DistanceType DEF Take
    <3> QED
      BY <2>2, <3>1, <3>2 DEF Take, NextEntry, Nearer, args
  <2>3. CASE Keep
    BY <2>3 DEF Keep, NextEntry, Nearer, args
  <2>4. CASE NextCall
    <3>1. others' \in Tables
      BY <2>4, CopiesAreTables DEF NextCall
    <3>2. found' \in BOOLEAN
      BY <2>4 DEF NextCall
    <3> QED
      BY <2>4, <3>1, <3>2 DEF NextCall
  <2>5. CASE UNCHANGED vars
    BY <2>5 DEF vars
  <2> QED
    BY <2>1, <2>2, <2>3, <2>4, <2>5 DEF Next
<1> QED
  BY <1>1, <1>2, PTL DEF Spec

-----------------------------------------------------------------------------
(***************************************************************************)
(* After i entries the loop holds the answer for the first i entries.      *)
(***************************************************************************)
Seen == {id \in EligibleIds(self, others) : id < i}

ScanInv ==
  /\ found <=> Seen # {}
  /\ ~found => best = NoVehicle
  /\ found => /\ best \in Seen
              /\ bestDistance = DistanceTo(self, others, best)
              /\ \A other \in Seen : Preferred(self, others, best, other)

\* No id comes before the first entry.
LEMMA NoneBelowZero == \A id \in VehicleIds : ~(id < 0)
BY ScanAssumption

\* Scanning one more entry extends the set of entries seen by that entry, if
\* it is eligible.
LEMMA SeenNext ==
  ASSUME TypeOK, i < MaxOthers, i' = i + 1, UNCHANGED args
  PROVE  Seen' = Seen \cup (IF Eligible(self, others, i) THEN {i} ELSE {})
<1>1. i \in VehicleIds /\ VehicleIds \subseteq Nat /\ i \in Nat
  BY ScanAssumption DEF TypeOK
<1>2. self' = self /\ others' = others
  BY DEF args
<1>3. EligibleIds(self, others)' = EligibleIds(self, others)
  BY <1>2 DEF EligibleIds, Eligible, SharedZones, SharedZone, FirstOf, TypeMask
<1>4. \A id \in VehicleIds : id < i' <=> (id < i \/ id = i)
  BY <1>1
<1> QED
  BY <1>1, <1>3, <1>4 DEF Seen, EligibleIds

\* The loop invariant holds of every call.
THEOREM ScanInvariant == Spec => []ScanInv
<1>1. Init => ScanInv
  <2> SUFFICES ASSUME Init PROVE ScanInv
    OBVIOUS
  <2>1. Seen = {}
    BY NoneBelowZero DEF Init, Seen, EligibleIds
  <2> QED
    BY <2>1 DEF Init, ScanInv
<1>2. TypeOK /\ TypeOK' /\ ScanInv /\ [Next]_vars => ScanInv'
  <2> SUFFICES ASSUME TypeOK, TypeOK', ScanInv, [Next]_vars PROVE ScanInv'
    OBVIOUS
  <2>1. CASE Skip
    <3>1. Seen' = Seen /\ UNCHANGED <<self, others, found, best, bestDistance>>
      BY <2>1, SeenNext DEF Skip, NextEntry, args
    <3>2. \A id : Preferred(self, others, best, id)' <=> Preferred(self, others, best, id)
      BY <3>1 DEF Preferred, DistanceTo
    <3>3. DistanceTo(self, others, best)' = DistanceTo(self, others, best)
      BY <3>1 DEF DistanceTo
    <3> QED
      BY <3>1, <3>2, <3>3 DEF ScanInv
  <2>2. CASE Take
    <3>1. /\ Seen' = Seen \cup {i}
          /\ UNCHANGED <<self, others>> /\ found' = TRUE /\ best' = i
          /\ bestDistance' = DistanceTo(self, others, i)
      BY <2>2, SeenNext DEF Take, NextEntry, Nearer, args
    <3>2. \A id \in Seen \cup {i} : id \in VehicleIds /\ others[id] # NoInfo
      BY <2>2, ScanAssumption DEF Take, Seen, EligibleIds, Eligible, TypeOK
    <3>3. \A id \in Seen \cup {i} : id \in Nat /\ DistanceTo(self, others, id) \in Nat
      BY <3>2, DistanceType, IdsAssumption DEF TypeOK
    <3>4. ASSUME NEW id \in Seen \cup {i} PROVE Preferred(self, others, i, id)
      <4>1. CASE id = i
        BY <3>3, <4>1 DEF Preferred
      <4>2. CASE id \in Seen
        <5>1. found /\ best \in Seen /\ bestDistance = DistanceTo(self, others, best)
              /\ Preferred(self, others, best, id)
          BY <4>2 DEF ScanInv
        <5>2. DistanceTo(self, others, i) < DistanceTo(self, others, best)
          BY <2>2, <5>1 DEF Take, NextEntry, Nearer
        <5>3. DistanceTo(self, others, i) < DistanceTo(self, others, id)
          BY <3>3, <5>1, <5>2 DEF Preferred
        <5> QED
          BY <5>3 DEF Preferred
      <4> QED
        BY <4>1, <4>2
    <3>5. \A id \in Seen' : Preferred(self, others, best, id)'
      BY <3>1, <3>4 DEF Preferred, DistanceTo
    <3>6. bestDistance' = DistanceTo(self, others, best)'
      BY <3>1 DEF DistanceTo
    <3> QED
      BY <3>1, <3>5, <3>6 DEF ScanInv
  <2>3. CASE Keep
    <3>1. /\ Seen' = Seen \cup {i}
          /\ UNCHANGED <<self, others, found, best, bestDistance>> /\ found
      BY <2>3, SeenNext DEF Keep, NextEntry, Nearer, args
    <3>2. \A id \in Seen \cup {i} : id \in VehicleIds /\ others[id] # NoInfo
      BY <2>3, ScanAssumption DEF Keep, Seen, EligibleIds, Eligible, TypeOK
    <3>3. \A id \in Seen \cup {i} : id \in Nat /\ DistanceTo(self, others, id) \in Nat
      BY <3>2, DistanceType, IdsAssumption DEF TypeOK
    <3>4. best \in Seen /\ bestDistance = DistanceTo(self, others, best) /\ best < i
      BY <3>1 DEF ScanInv, Seen
    <3>5. Preferred(self, others, best, i)
      <4>1. ~(DistanceTo(self, others, i) < bestDistance)
        BY <2>3 DEF Keep, NextEntry, Nearer
      <4>2. i \in Nat /\ best \in Nat
        BY <3>3, <3>4
      <4> QED
        BY <3>3, <3>4, <4>1, <4>2 DEF Preferred
    <3>6. \A id \in Seen' : Preferred(self, others, best, id)'
      BY <3>1, <3>5 DEF ScanInv, Preferred, DistanceTo
    <3>7. bestDistance' = DistanceTo(self, others, best)'
      BY <3>1, <3>4 DEF DistanceTo
    <3> QED
      BY <3>1, <3>4, <3>6, <3>7 DEF ScanInv
  <2>4. CASE NextCall
    <3>1. Seen' = {}
      BY <2>4, NoneBelowZero DEF NextCall, Seen, EligibleIds
    <3> QED
      BY <2>4, <3>1 DEF NextCall, ScanInv
  <2>5. CASE UNCHANGED vars
    <3>1. UNCHANGED <<self, others, i, found, best, bestDistance>>
      BY <2>5 DEF vars
    <3>2. Seen' = Seen
      BY <3>1 DEF Seen, EligibleIds, Eligible, SharedZones, SharedZone, FirstOf, TypeMask
    <3>3. \A id : Preferred(self, others, best, id)' <=> Preferred(self, others, best, id)
      BY <3>1 DEF Preferred, DistanceTo
    <3>4. DistanceTo(self, others, best)' = DistanceTo(self, others, best)
      BY <3>1 DEF DistanceTo
    <3> QED
      BY <3>1, <3>2, <3>3, <3>4 DEF ScanInv
  <2> QED
    BY <2>1, <2>2, <2>3, <2>4, <2>5 DEF Next
<1> QED
  BY <1>1, <1>2, TypeCorrect, PTL DEF Spec

\* When the loop of select_candidate_vehicle (can_tx_thread.c:134-165) ends, it
\* has found the nearest conflicting vehicle with the lowest id, or nobody.
THEOREM ScanCorrect == Spec => []ScanSelects
<1>1. TypeOK /\ ScanInv => ScanSelects
  <2> SUFFICES ASSUME TypeOK, ScanInv, i = MaxOthers
               PROVE  SelectCandidate(self, others) = [found |-> found, id |-> best]
    BY DEF ScanSelects
  <2>1. Seen = EligibleIds(self, others)
    BY ScanAssumption DEF Seen, EligibleIds
  <2>2. CASE Seen = {}
    <3>1. found = FALSE /\ best = NoVehicle
      BY <2>2 DEF ScanInv, TypeOK
    <3> QED
      BY <2>1, <2>2, <3>1 DEF SelectCandidate, NoSelection
  <2>3. CASE Seen # {}
    <3>1. found = TRUE
      BY <2>3 DEF ScanInv, TypeOK
    <3>2. best \in Seen /\ \A other \in Seen : Preferred(self, others, best, other)
      BY <3>1 DEF ScanInv
    <3>3. Seen \in SUBSET {id \in VehicleIds : others[id] # NoInfo}
      BY DEF Seen, EligibleIds, Eligible
    <3>4. NearestOf(self, others, Seen) = best
      BY <3>2, <3>3, NearestUnique DEF TypeOK
    <3> QED
      BY <2>1, <2>3, <3>1, <3>4 DEF SelectCandidate
  <2> QED
    BY <2>2, <2>3
<1> QED
  BY <1>1, TypeCorrect, ScanInvariant, PTL
-----------------------------------------------------------------------------
(***************************************************************************)
(* Residues.                                                               *)
(***************************************************************************)
LEMMA Division ==
  ASSUME NEW n \in Int, NEW m \in Nat \ {0}
  PROVE  n % m \in 0..m - 1 /\ n = m * (n \div m) + (n % m) /\ n \div m \in Int
OBVIOUS

LEMMA MultiplesApart ==
  ASSUME NEW q \in Int, NEW r \in Int, NEW m \in Nat \ {0}, q < r
  PROVE  m * q + m <= m * r
<1>1. r = q + 1 + (r - q - 1) /\ r - q - 1 \in Nat
  OBVIOUS
<1>2. \A k \in Nat : m * (q + 1 + k) = m * q + m + m * k /\ m * k >= 0
  OBVIOUS
<1> QED
  BY <1>1, <1>2

LEMMA ResidueUnique ==
  ASSUME NEW m \in Nat \ {0}, NEW q \in Int, NEW r \in Int,
         NEW a \in 0..m - 1, NEW b \in 0..m - 1, m * q + a = m * r + b
  PROVE  a = b /\ q = r
<1>1. ~(q < r)
  BY MultiplesApart
<1>2. ~(r < q)
  BY MultiplesApart
<1> QED
  BY <1>1, <1>2

\* Two numbers with one residue, less than the modulus apart, are the same.
LEMMA NearAndCongruent ==
  ASSUME NEW m \in Nat \ {0}, NEW x \in Int, NEW y \in Int, x % m = y % m,
         x < y + m, y < x + m
  PROVE  x = y
<1>1. PICK q \in Int, r \in Int, a \in 0..m - 1 :
        x = m * q + a /\ y = m * r + a
  BY Division
<1>2. ~(q < r)
  BY <1>1, MultiplesApart
<1>3. ~(r < q)
  BY <1>1, MultiplesApart
<1> QED
  BY <1>1, <1>2, <1>3

\* A number of a period, and the same number in the period before.
LEMMA ResidueOfSum ==
  ASSUME NEW m \in Nat \ {0}, NEW q \in Int, NEW a \in 0..m - 1
  PROVE  (m * q + a) % m = a /\ (m * q + a - m) % m = a
<1>1. m * q + a \in Int /\ m * q + a - m \in Int /\ m * (q - 1) = m * q - m
  OBVIOUS
<1>2. (m * q + a) % m = a
  BY <1>1, Division, ResidueUnique
<1>3. (m * q + a - m) % m = a
  <2>1. PICK r \in Int, b \in 0..m - 1 :
          m * q + a - m = m * r + b /\ b = (m * q + a - m) % m
    BY <1>1, Division
  <2>2. PICK p \in Int : p = q - 1
    OBVIOUS
  <2>3. m * p + a = m * r + b
    BY <1>1, <2>1, <2>2
  <2>4. a = b
    BY <2>3, ResidueUnique
  <2> QED
    BY <2>1, <2>4
<1> QED
  BY <1>2, <1>3

-----------------------------------------------------------------------------
(***************************************************************************)
(* A stamp lies in the period that ends now, and keeps its low bits.       *)
(***************************************************************************)
LEMMA ReconstructInPeriod ==
  ASSUME NEW sensed \in Nat, NEW now \in Nat, now < Width
  PROVE  \E stamp \in Int :
           /\ now - Modulo < stamp /\ stamp <= now /\ stamp % Modulo = sensed % Modulo
           /\ Stamps!Reconstruct(sensed % Modulo, now) = stamp % Width
           /\ stamp >= 0 => Stamps!Reconstruct(sensed % Modulo, now) = stamp
<1>1. PICK low \in 0..Modulo - 1 : low = sensed % Modulo
  <2>1. sensed % Modulo \in 0..Modulo - 1
    BY ClockAssumption, Division
  <2> QED
    BY <2>1
<1>2. PICK q \in Int, past \in 0..Modulo - 1 : now = Modulo * q + past /\ past = now % Modulo
  <2>1. /\ now % Modulo \in 0..Modulo - 1 /\ now \div Modulo \in Int
        /\ now = Modulo * (now \div Modulo) + (now % Modulo)
    BY ClockAssumption, Division
  <2> QED
    BY <2>1
<1>3. PICK e \in Int : e = Modulo * q + low
  BY ClockAssumption
<1>4. e = Stamps!Extended(low, now)
  BY <1>2, <1>3, ClockAssumption DEF Stamps!Extended
<1>5. Stamps!Reconstruct(low, now) = IF e > now THEN (e - Modulo) % Width ELSE e
  BY <1>4 DEF Stamps!Reconstruct
<1>6. e > now - Modulo /\ e - Modulo < now /\ e \in Int
  BY <1>2, <1>3, ClockAssumption
<1>7. PICK stamp \in {e, e - Modulo} : stamp = IF e > now THEN e - Modulo ELSE e
  OBVIOUS
<1>8. stamp \in Int /\ now - Modulo < stamp /\ stamp <= now
  BY <1>6, <1>7, ClockAssumption
<1>9. stamp % Modulo = low
  <2>1. (Modulo * q + low) % Modulo = low /\ (Modulo * q + low - Modulo) % Modulo = low
    BY ResidueOfSum, ClockAssumption
  <2>2. e % Modulo = low /\ (e - Modulo) % Modulo = low
    BY <1>3, <2>1, ClockAssumption
  <2> QED
    BY <1>7, <2>2
<1>10. ~(e > now) => e >= 0
  BY <1>2, <1>3, <1>6, MultiplesApart, ClockAssumption
<1>11. \A n \in Nat : n < Width => n % Width = n
  BY ClockAssumption
<1>12. Stamps!Reconstruct(low, now) = stamp % Width
  <2>1. CASE e > now
    BY <1>5, <1>7, <2>1
  <2>2. CASE ~(e > now)
    <3>1. e \in Nat /\ e < Width
      BY <1>6, <1>10, <2>2, ClockAssumption
    <3> QED
      BY <1>5, <1>7, <1>11, <2>2, <3>1
  <2> QED
    BY <2>1, <2>2
<1>13. stamp >= 0 => Stamps!Reconstruct(low, now) = stamp
  <2>1. stamp >= 0 => stamp \in Nat /\ stamp < Width
    BY <1>8, ClockAssumption
  <2> QED
    BY <1>11, <1>12, <2>1
<1> QED
  BY <1>1, <1>8, <1>9, <1>12, <1>13
(***************************************************************************)
(* The RTOS's clock, the epoch on its way to it and the time in an ego     *)
(* frame are at most the Linux clock's as long as they are in step with    *)
(* it; and a stamp is what ntp_time_reconstruct makes of its low bits.     *)
(***************************************************************************)
NotAhead(time) == RefEpoch <= clock /\ time <= clock - RefEpoch

StampInv ==
  /\ inStep => NotAhead(rtos)
  /\ sync.set => NotAhead(sync.epoch)
  /\ frame.inStep => NotAhead(frame.sensed)
  /\ info.inStep => info.sensed <= info.at
  /\ info.stamp = Stamps!Reconstruct(info.sensed % Modulo, info.at)

\* The sync epoch is the time since the reference epoch, or zero before it.
LEMMA SyncEpochType ==
  ASSUME NEW unix \in 0..MaxClock
  PROVE  /\ Stamps!SyncEpoch(unix) \in 0..MaxClock
         /\ unix >= RefEpoch => Stamps!SyncEpoch(unix) = unix - RefEpoch
BY ClockAssumption DEF Stamps!SyncEpoch

\* A stamp is a number of 64 bits.
LEMMA StampType ==
  ASSUME NEW sensed \in 0..MaxClock, NEW now \in 0..MaxClock
  PROVE  Stamps!Reconstruct(sensed % Modulo, now) \in 0..Width - 1
<1>1. PICK stamp \in Int : Stamps!Reconstruct(sensed % Modulo, now) = stamp % Width
  <2>1. sensed \in Nat /\ now \in Nat /\ now < Width
    BY ClockAssumption
  <2> QED
    BY <2>1, ReconstructInPeriod
<1>2. stamp % Width \in 0..Width - 1
  BY Division, ClockAssumption
<1> QED
  BY <1>1, <1>2

LEMMA InitStamps == Stamps!Init => Stamps!TypeOK /\ StampInv
<1> SUFFICES ASSUME Stamps!Init PROVE Stamps!TypeOK /\ StampInv
  OBVIOUS
<1> USE ClockAssumption DEF Stamps!Init
<1>1. 0 % Modulo = 0 /\ Stamps!Extended(0, 0) = 0
  BY DEF Stamps!Extended
<1>2. Stamps!Reconstruct(0, 0) = 0
  BY <1>1 DEF Stamps!Reconstruct
<1>3. Stamps!TypeOK
  <2>1. clock \in 0..MaxClock /\ rtos \in 0..MaxClock /\ inStep \in BOOLEAN
    <3>1. clock \in 0..MaxClock /\ rtos \in 0..MaxClock
      OBVIOUS
    <3>2. inStep \in BOOLEAN
      BY Zenon
    <3> QED
      BY <3>1, <3>2
  <2> QED
    BY <2>1 DEF Stamps!TypeOK, Stamps!NoSync, Stamps!NoFrame, Stamps!NoStamp
<1>4. StampInv
  BY <1>1, <1>2 DEF StampInv, Stamps!NoSync, Stamps!NoFrame, Stamps!NoStamp
<1> QED
  BY <1>3, <1>4

LEMMA StepStamps ==
  ASSUME Stamps!TypeOK, StampInv, [Stamps!Next]_(Stamps!vars)
  PROVE  (Stamps!TypeOK /\ StampInv)'
<1> USE ClockAssumption DEF Stamps!TypeOK, StampInv, NotAhead
<1>1. CASE Stamps!SendNtpSync
  BY <1>1, SyncEpochType DEF Stamps!SendNtpSync, Stamps!Sync
<1>2. CASE Stamps!ReceiveNtpSync
  BY <1>2 DEF Stamps!ReceiveNtpSync, Stamps!NoSync
<1>3. CASE Stamps!Sense
  BY <1>3 DEF Stamps!Sense, Stamps!Frame
<1>4. CASE Stamps!Handle
  BY <1>4, SyncEpochType, StampType DEF Stamps!Handle, Stamps!NoFrame
<1>5. CASE Stamps!Tick
  BY <1>5 DEF Stamps!Tick
<1>6. CASE Stamps!SetClock
  <2>1. /\ clock' \in 0..MaxClock /\ UNCHANGED <<rtos, info>>
        /\ inStep' = (inStep /\ clock' >= clock)
        /\ sync' = [sync EXCEPT !.set = @ /\ clock' >= clock]
        /\ frame' = [frame EXCEPT !.inStep = @ /\ clock' >= clock]
    BY <1>6 DEF Stamps!SetClock
  <2>2. CASE clock' >= clock
    <3>1. sync' = sync /\ frame' = frame
      BY <2>1, <2>2
    <3>2. inStep' = inStep
      BY <2>1, <2>2, Zenon
    <3> QED
      BY <2>1, <2>2, <3>1, <3>2
  <2>3. CASE ~(clock' >= clock)
    <3>1. /\ sync' = [sync EXCEPT !.set = FALSE] /\ frame' = [frame EXCEPT !.inStep = FALSE]
      BY <2>1, <2>3
    <3>2. inStep' = FALSE
      BY <2>1, <2>3, Zenon
    <3> QED
      BY <2>1, <3>1, <3>2
  <2> QED
    BY <2>2, <2>3
<1>7. CASE UNCHANGED Stamps!vars
  BY <1>7 DEF Stamps!vars
<1> QED
  BY <1>1, <1>2, <1>3, <1>4, <1>5, <1>6, <1>7 DEF Stamps!Next

\* A stamp that is no larger than a clock's is a double, and is read as it was written.
LEMMA StampIsExact ==
  ASSUME NEW stamp \in 0..MaxClock
  PROVE  Stamps!Received(stamp) = {stamp}
BY ClockAssumption DEF Stamps!Received, Stamps!ToDouble, Stamps!FromDouble

LEMMA StampsAreRight ==
  ASSUME Stamps!TypeOK, StampInv
  PROVE  Stamps!SensingTimeSurvives /\ Stamps!LowBitsSurvive
<1>1. PICK sensed \in 0..MaxClock, at \in 0..MaxClock : sensed = info.sensed /\ at = info.at
  BY DEF Stamps!TypeOK
<1>2. PICK stamp \in Int :
        /\ at - Modulo < stamp /\ stamp <= at /\ stamp % Modulo = sensed % Modulo
        /\ stamp >= 0 => info.stamp = stamp
  <2>1. sensed \in Nat /\ at \in Nat /\ at < Width
    BY ClockAssumption
  <2>2. info.stamp = Stamps!Reconstruct(sensed % Modulo, at)
    BY <1>1 DEF StampInv
  <2> QED
    BY <2>1, <2>2, ReconstructInPeriod
<1>3. stamp >= 0 => stamp \in 0..MaxClock /\ Stamps!Received(info.stamp) = {stamp}
  <2>1. stamp >= 0 => stamp \in 0..MaxClock
    BY <1>2, ClockAssumption
  <2> QED
    BY <1>2, <2>1, StampIsExact
<1>4. Stamps!SensingTimeSurvives
  <2> SUFFICES ASSUME info.inStep, at - sensed < Modulo PROVE Stamps!Received(info.stamp) = {sensed}
    BY <1>1 DEF Stamps!SensingTimeSurvives
  <2>1. sensed <= at
    BY <1>1 DEF StampInv
  <2>2. stamp < sensed + Modulo /\ sensed < stamp + Modulo
    BY <1>2, <2>1, ClockAssumption
  <2>3. stamp = sensed
    <3>1. Modulo \in Nat \ {0} /\ sensed \in Int /\ stamp % Modulo = sensed % Modulo
      BY <1>2, ClockAssumption
    <3> QED
      BY <2>2, <3>1, NearAndCongruent
  <2> QED
    BY <1>3, <2>3
<1>5. Stamps!LowBitsSurvive
  <2> SUFFICES ASSUME at >= Modulo
               PROVE  /\ at - Modulo < info.stamp /\ info.stamp <= at
                      /\ \A r \in Stamps!Received(info.stamp) : r % Modulo = sensed % Modulo
    BY <1>1 DEF Stamps!LowBitsSurvive
  <2>1. stamp >= 0
    BY <1>2, ClockAssumption
  <2> QED
    BY <1>2, <1>3, <2>1
<1> QED
  BY <1>4, <1>5

\* For every period, reference epoch and width of the numbers, and whatever the clocks
\* do: a frame that is handled within a period of its sensing keeps its sensing time
\* as long as the Linux clock is set and not set back, and every stamp its low bits.
THEOREM StampsCorrect == Stamps!Spec => []StampsKeepSensingTime
<1>1. Stamps!Spec => [](Stamps!TypeOK /\ StampInv)
  BY InitStamps, StepStamps, PTL DEF Stamps!Spec
<1>2. Stamps!TypeOK /\ StampInv => StampsKeepSensingTime
  BY StampsAreRight DEF StampsKeepSensingTime
<1> QED
  BY <1>1, <1>2, PTL
-----------------------------------------------------------------------------
(***************************************************************************)
(* Frames.  No two fields of a layout share a bit, and none a bit with the *)
(* message id; so whatever the values, each reads back.                    *)
(***************************************************************************)
Apart(f, g) == f.shift + f.width <= g.shift \/ g.shift + g.width <= f.shift

WellLaidOut(layout) ==
  /\ \A f \in DOMAIN layout :
       /\ layout[f].shift \in Nat /\ layout[f].width \in Nat
       /\ layout[f].shift + layout[f].width <= 60
  /\ \A f, g \in DOMAIN layout : f # g => Apart(layout[f], layout[g])

\* A bit of a frame comes from the id or from one of the values, and these have all
\* their bits in the frame.
LEMMA BitsOfFrame ==
  ASSUME NEW id, NEW layout, NEW values
  PROVE  /\ \A b \in Fields!Pack(id, layout, values) :
              \/ \E c \in id : b = c + 60
              \/ \E g \in DOMAIN layout :
                   \E c \in values[g] \cap (0..layout[g].width - 1) : b = c + layout[g].shift
         /\ \A c \in id : c + 60 \in Fields!Pack(id, layout, values)
         /\ \A g \in DOMAIN layout : \A c \in values[g] \cap (0..layout[g].width - 1) :
              c + layout[g].shift \in Fields!Pack(id, layout, values)
BY DEF Fields!Pack, Fields!Shifted, Fields!Cut

LEMMA FieldReadsBack ==
  ASSUME NEW layout, WellLaidOut(layout), NEW id \in SUBSET (0..3), NEW values, NEW f \in DOMAIN layout
  PROVE  Fields!Read(Fields!Pack(id, layout, values), layout[f]) =
           Fields!Cut(values[f], layout[f].width)
<1>0. PICK word :
        /\ word = Fields!Pack(id, layout, values)
        /\ \A b \in word :
             \/ \E c \in id : b = c + 60
             \/ \E g \in DOMAIN layout :
                  \E c \in values[g] \cap (0..layout[g].width - 1) : b = c + layout[g].shift
        /\ \A c \in id : c + 60 \in word
        /\ \A g \in DOMAIN layout : \A c \in values[g] \cap (0..layout[g].width - 1) :
             c + layout[g].shift \in word
  BY BitsOfFrame, Zenon
<1>1. PICK shift \in Nat, width \in Nat :
        shift = layout[f].shift /\ width = layout[f].width /\ shift + width <= 60
  BY DEF WellLaidOut
<1>2. ASSUME NEW b \in word, b \in shift..shift + width - 1
      PROVE  b - shift \in values[f] \cap (0..width - 1)
  <2>1. ~(\E c \in id : b = c + 60)
    BY <1>1, <1>2
  <2>2. PICK g \in DOMAIN layout :
          \E c \in values[g] \cap (0..layout[g].width - 1) : b = c + layout[g].shift
    BY <1>0, <2>1, Zenon
  <2>3. layout[g].shift \in Nat /\ layout[g].width \in Nat
    BY DEF WellLaidOut
  <2>4. g = f
    <3> SUFFICES ASSUME g # f PROVE FALSE
      OBVIOUS
    <3>1. Apart(layout[f], layout[g])
      BY DEF WellLaidOut
    <3> QED
      BY <1>1, <1>2, <2>2, <2>3, <3>1 DEF Apart
  <2> QED
    BY <1>1, <2>2, <2>4
<1>3. ASSUME NEW c \in values[f] \cap (0..width - 1)
      PROVE  c + shift \in word /\ c + shift \in shift..shift + width - 1
  BY <1>0, <1>1
<1>4. {b - shift : b \in word \cap (shift..shift + width - 1)} = values[f] \cap (0..width - 1)
  <2>1. \A b \in word \cap (shift..shift + width - 1) : b - shift \in values[f] \cap (0..width - 1)
    BY <1>2
  <2>2. \A c \in values[f] \cap (0..width - 1) :
          /\ c + shift \in word \cap (shift..shift + width - 1)
          /\ c = (c + shift) - shift
    BY <1>1, <1>3
  <2> QED
    BY <2>1, <2>2
<1> QED
  BY <1>0, <1>1, <1>4 DEF Fields!Read, Fields!Cut

LEMMA IdReadsBack ==
  ASSUME NEW layout, WellLaidOut(layout), NEW id \in SUBSET (0..3), NEW values
  PROVE  Fields!Read(Fields!Pack(id, layout, values), Fields!Field(60, 4)) = id
<1>0. PICK word :
        /\ word = Fields!Pack(id, layout, values)
        /\ \A b \in word :
             \/ \E c \in id : b = c + 60
             \/ \E g \in DOMAIN layout :
                  \E c \in values[g] \cap (0..layout[g].width - 1) : b = c + layout[g].shift
        /\ \A c \in id : c + 60 \in word
        /\ \A g \in DOMAIN layout : \A c \in values[g] \cap (0..layout[g].width - 1) :
             c + layout[g].shift \in word
  BY BitsOfFrame, Zenon
<1>1. ASSUME NEW b \in word, b \in 60..63
      PROVE  b - 60 \in id
  <2>1. ASSUME NEW f \in DOMAIN layout, NEW c \in values[f] \cap (0..layout[f].width - 1)
        PROVE  b # c + layout[f].shift
    <3>1. /\ layout[f].shift \in Nat /\ layout[f].width \in Nat
          /\ layout[f].shift + layout[f].width <= 60
      BY DEF WellLaidOut
    <3> QED
      BY <1>1, <2>1, <3>1
  <2>2. PICK c \in id : b = c + 60
    BY <1>0, <2>1, Zenon
  <2> QED
    BY <2>2
<1>2. \A c \in id : c + 60 \in word
  BY <1>0
<1>3. {b - 60 : b \in word \cap (60..63)} = id
  <2>1. \A b \in word \cap (60..63) : b - 60 \in id
    BY <1>1
  <2>2. \A c \in id : c + 60 \in word \cap (60..63) /\ c = (c + 60) - 60
    BY <1>2
  <2> QED
    BY <2>1, <2>2
<1> QED
  BY <1>0, <1>3 DEF Fields!Read, Fields!Field

LEMMA LayoutsAreWell ==
  /\ WellLaidOut(Fields!EgoLayout) /\ WellLaidOut(Fields!StatusLayout)
  /\ WellLaidOut(Fields!IntroLayout) /\ WellLaidOut(Fields!LightLayout)
  /\ WellLaidOut(Fields!NtpLayout)
<1> USE DEF WellLaidOut, Apart, Fields!Field
<1>1. WellLaidOut(Fields!EgoLayout)
  BY DEF Fields!EgoLayout
<1>2. WellLaidOut(Fields!StatusLayout)
  BY DEF Fields!StatusLayout
<1>3. WellLaidOut(Fields!IntroLayout)
  BY DEF Fields!IntroLayout
<1>4. WellLaidOut(Fields!LightLayout)
  BY DEF Fields!LightLayout
<1>5. WellLaidOut(Fields!NtpLayout)
  BY DEF Fields!NtpLayout
<1> QED
  BY <1>1, <1>2, <1>3, <1>4, <1>5
-----------------------------------------------------------------------------
(***************************************************************************)
(* What is under way.  The state of a vehicle is, from the ego frame to    *)
(* the received VehicleInfo, the values that its RTOS gave; a foreign      *)
(* message is taken over cut to the widths of VehicleInfo.                 *)
(***************************************************************************)
EgoStates ==
  [timestamp : SUBSET (0..11), speed : SUBSET (0..7), x : SUBSET (0..9), y : SUBSET (0..10),
   heading : SUBSET (0..8), turn : SUBSET (0..1)]
Messages ==
  [speed : SUBSET Nat, x : SUBSET Nat, y : SUBSET Nat, heading : SUBSET Nat,
   timestamp : SUBSET Nat, zones : Seq(ZoneIds \cup {NotAnId}), complete : BOOLEAN]

CarriesGiven ==
  /\ given \in EgoStates
  /\ carried.speed = given.speed /\ carried.x = given.x /\ carried.y = given.y
  /\ carried.heading = given.heading /\ carried.zones = <<>>
  /\ Fields!Cut(carried.timestamp, 12) = given.timestamp

CarriesMessage ==
  /\ given \in Messages
  /\ carried.speed = Fields!Cut(given.speed, 8) /\ carried.x = Fields!Cut(given.x, 16)
  /\ carried.y = Fields!Cut(given.y, 16) /\ carried.heading = Fields!Cut(given.heading, 16)
  /\ carried.timestamp = given.timestamp
  /\ carried.zones = Fields!FirstZones(given.zones)
  /\ \A n \in 1..Len(carried.zones) : carried.zones[n] # NotAnId

FieldsInv ==
  /\ stage = "ego" => given \in EgoStates /\ carried = Fields!Pack({}, Fields!EgoLayout, given)
  /\ stage = "info" => CarriesGiven
  /\ stage = "message" => CarriesGiven \/ (given \in Messages /\ carried = given)
  /\ stage = "received" => CarriesGiven \/ CarriesMessage
  /\ stage = "sent" => Fields!FieldsReadBack /\ Fields!OwnStateArrivesUnchanged

\* Cutting.
LEMMA CutTwice ==
  ASSUME NEW n, NEW w \in Nat, NEW v \in Nat, v <= w
  PROVE  Fields!Cut(Fields!Cut(n, w), v) = Fields!Cut(n, v)
<1>1. \A b \in 0..v - 1 : b \in 0..w - 1
  OBVIOUS
<1> QED
  BY <1>1, Zenon DEF Fields!Cut

LEMMA CutFitting ==
  ASSUME NEW w, NEW n \in SUBSET (0..w - 1)
  PROVE  Fields!Cut(n, w) = n
BY DEF Fields!Cut

LEMMA EgoFits ==
  ASSUME NEW state \in EgoStates
  PROVE  /\ Fields!Cut(state.speed, 8) = state.speed /\ Fields!Cut(state.x, 10) = state.x
         /\ Fields!Cut(state.y, 11) = state.y /\ Fields!Cut(state.heading, 9) = state.heading
         /\ Fields!Cut(state.timestamp, 12) = state.timestamp
<1>1. /\ state.speed \in SUBSET (0..8 - 1) /\ state.x \in SUBSET (0..10 - 1)
      /\ state.y \in SUBSET (0..11 - 1) /\ state.heading \in SUBSET (0..9 - 1)
      /\ state.timestamp \in SUBSET (0..12 - 1)
  BY DEF EgoStates
<1> QED
  BY <1>1, CutFitting, Zenon

\* A frame that is sent reads back.
LEMMA SentReadsBack ==
  ASSUME NEW id \in SUBSET (0..3), NEW layout, WellLaidOut(layout), NEW values,
         Fields!Sent(id, layout, values),
         \A f \in DOMAIN layout :
           Fields!Cut(values[f], layout[f].width) = Fields!Cut(given'[f], layout[f].width)
  PROVE  /\ stage' = "sent" /\ carried'.layout = layout
         /\ Fields!FieldsReadBack'
         /\ \A f \in DOMAIN layout :
              Fields!Read(carried'.word, layout[f]) = Fields!Cut(given'[f], layout[f].width)
<1>1. /\ stage' = "sent" /\ carried'.id = id /\ carried'.layout = layout
      /\ carried'.word = Fields!Pack(id, layout, values)
  BY DEF Fields!Sent
<1>2. Fields!Read(carried'.word, Fields!Field(60, 4)) = id
  BY <1>1, IdReadsBack
<1>3. ASSUME NEW f \in DOMAIN layout
      PROVE  Fields!Read(carried'.word, layout[f]) = Fields!Cut(given'[f], layout[f].width)
  <2>1. Fields!Read(carried'.word, layout[f]) = Fields!Cut(values[f], layout[f].width)
    BY <1>1, FieldReadsBack
  <2> QED
    BY <2>1
<1> QED
  BY <1>1, <1>2, <1>3 DEF Fields!FieldsReadBack
LEMMA SenseStep ==
  ASSUME Fields!Sense
  PROVE  FieldsInv'
<1>1. /\ FieldValues[12] \subseteq SUBSET (0..11) /\ FieldValues[8] \subseteq SUBSET (0..7)
      /\ FieldValues[10] \subseteq SUBSET (0..9) /\ FieldValues[11] \subseteq SUBSET (0..10)
      /\ FieldValues[9] \subseteq SUBSET (0..8) /\ FieldValues[2] \subseteq SUBSET (0..1)
  BY FieldsAssumption
<1>2. given' \in EgoStates
  BY <1>1 DEF Fields!Sense, EgoStates
<1> QED
  BY <1>2 DEF Fields!Sense, FieldsInv

LEMMA DecodeStep ==
  ASSUME FieldsInv, Fields!Decode
  PROVE  FieldsInv'
<1>1. /\ given \in EgoStates /\ given' = given /\ stage' = "info"
      /\ carried = Fields!Pack({}, Fields!EgoLayout, given)
  BY DEF FieldsInv, Fields!Decode
<1>2. ASSUME NEW f \in DOMAIN Fields!EgoLayout
      PROVE  Fields!Read(carried, Fields!EgoLayout[f]) = Fields!Cut(given[f], Fields!EgoLayout[f].width)
  BY <1>1, FieldReadsBack, LayoutsAreWell
<1>3. /\ Fields!Read(carried, Fields!EgoLayout.speed) = given.speed
      /\ Fields!Read(carried, Fields!EgoLayout.x) = given.x
      /\ Fields!Read(carried, Fields!EgoLayout.y) = given.y
      /\ Fields!Read(carried, Fields!EgoLayout.heading) = given.heading
      /\ Fields!Read(carried, Fields!EgoLayout.timestamp) = given.timestamp
  <2>1. /\ {"speed", "x", "y", "heading", "timestamp"} \subseteq DOMAIN Fields!EgoLayout
        /\ Fields!EgoLayout.speed.width = 8 /\ Fields!EgoLayout.x.width = 10
        /\ Fields!EgoLayout.y.width = 11 /\ Fields!EgoLayout.heading.width = 9
        /\ Fields!EgoLayout.timestamp.width = 12
    BY DEF Fields!EgoLayout, Fields!Field
  <2>2. /\ Fields!Cut(given.speed, 8) = given.speed /\ Fields!Cut(given.x, 10) = given.x
        /\ Fields!Cut(given.y, 11) = given.y /\ Fields!Cut(given.heading, 9) = given.heading
        /\ Fields!Cut(given.timestamp, 12) = given.timestamp
    BY <1>1, EgoFits
  <2> QED
    BY <1>2, <2>1, <2>2
<1>4. PICK period \in {{}, {12, 40}} :
        carried' = [speed |-> given.speed, x |-> given.x, y |-> given.y, heading |-> given.heading,
                    timestamp |-> given.timestamp \cup period, zones |-> <<>>]
  BY <1>3 DEF Fields!Decode
<1>5. Fields!Cut(given.timestamp \cup period, 12) = given.timestamp
  BY <1>1 DEF EgoStates, Fields!Cut
<1>6. CarriesGiven'
  BY <1>1, <1>4, <1>5 DEF CarriesGiven
<1> QED
  BY <1>1, <1>6 DEF FieldsInv

LEMMA MessageSteps ==
  ASSUME FieldsInv, Fields!ToJson \/ Fields!ForeignMessage
  PROVE  FieldsInv'
<1>1. CASE Fields!ToJson
  <2>1. CarriesGiven'
    BY <1>1 DEF FieldsInv, Fields!ToJson, CarriesGiven
  <2> QED
    BY <1>1, <2>1 DEF FieldsInv, Fields!ToJson
<1>2. CASE Fields!ForeignMessage
  <2>1. PICK speed \in WideValues[8], x \in WideValues[10], y \in WideValues[11],
             heading \in WideValues[9], complete \in BOOLEAN,
             zones \in Fields!BoundedSeq(ZoneIds \cup {NotAnId}, MaxZones + 1) :
          carried' = [speed |-> speed, x |-> x, y |-> y, heading |-> heading,
                      timestamp |-> {0, 12}, zones |-> zones, complete |-> complete]
    BY <1>2 DEF Fields!ForeignMessage
  <2>2. /\ speed \in SUBSET Nat /\ x \in SUBSET Nat /\ y \in SUBSET Nat
        /\ heading \in SUBSET Nat /\ {0, 12} \in SUBSET Nat
    BY FieldsAssumption
  <2>3. zones \in Seq(ZoneIds \cup {NotAnId})
    BY FieldsAssumption DEF Fields!BoundedSeq, Fields!SeqOf
  <2>4. carried' \in Messages
    BY <2>1, <2>2, <2>3 DEF Messages
  <2> QED
    BY <1>2, <2>4 DEF FieldsInv, Fields!ForeignMessage
<1> QED
  BY <1>1, <1>2
LEMMA FromJsonStep ==
  ASSUME FieldsInv, Fields!FromJson
  PROVE  FieldsInv'
<1>1. CASE ~Fields!Accepted(carried)
  BY <1>1 DEF Fields!FromJson, FieldsInv
<1>2. CASE Fields!Accepted(carried)
  <2>1. /\ stage = "message" /\ stage' = "received" /\ given' = given
        /\ carried'.speed = Fields!Cut(carried.speed, 8)
        /\ carried'.x = Fields!Cut(carried.x, 16) /\ carried'.y = Fields!Cut(carried.y, 16)
        /\ carried'.heading = Fields!Cut(carried.heading, 16)
        /\ carried'.timestamp = carried.timestamp
        /\ carried'.zones = Fields!FirstZones(carried.zones)
    BY <1>2 DEF Fields!FromJson
  <2>2. CASE CarriesGiven
    <3>1. /\ Fields!Cut(given.speed, 8) = given.speed /\ Fields!Cut(given.x, 16) = given.x
          /\ Fields!Cut(given.y, 16) = given.y /\ Fields!Cut(given.heading, 16) = given.heading
      <4>1. /\ given.speed \in SUBSET (0..8 - 1) /\ given.x \in SUBSET (0..16 - 1)
            /\ given.y \in SUBSET (0..16 - 1) /\ given.heading \in SUBSET (0..16 - 1)
        BY <2>2 DEF CarriesGiven, EgoStates
      <4> QED
        BY <4>1, CutFitting, Zenon
    <3>2. Fields!FirstZones(<<>>) = <<>>
      BY FieldsAssumption DEF Fields!FirstZones
    <3>3. CarriesGiven'
      BY <2>1, <2>2, <3>1, <3>2 DEF CarriesGiven
    <3> QED
      BY <2>1, <3>3 DEF FieldsInv
  <2>3. CASE given \in Messages /\ carried = given
    <3>1. \A n \in 1..Len(carried'.zones) : carried'.zones[n] # NotAnId
      BY <1>2, <2>1 DEF Fields!Accepted, Fields!Contains
    <3>2. CarriesMessage'
      BY <2>1, <2>3, <3>1 DEF CarriesMessage
    <3> QED
      BY <2>1, <3>2 DEF FieldsInv
  <2> QED
    BY <2>1, <2>2, <2>3 DEF FieldsInv
<1> QED
  BY <1>1, <1>2

LEMMA SendStatusStep ==
  ASSUME FieldsInv, Fields!SendStatus
  PROVE  FieldsInv'
<1>1. PICK type, values :
        /\ type \in {{}, {0}, {7}}
        /\ values = [type |-> type, timestamp |-> carried.timestamp, speed |-> carried.speed,
                     x |-> carried.x, y |-> carried.y, heading |-> carried.heading]
        /\ Fields!Sent({0, 2}, Fields!StatusLayout, values)
        /\ given' = [f \in DOMAIN given \cup {"type"} |-> IF f = "type" THEN type ELSE given[f]]
  BY DEF Fields!SendStatus
<1>2. CarriesGiven \/ CarriesMessage
  BY DEF Fields!SendStatus, FieldsInv
<1>3. /\ DOMAIN Fields!StatusLayout = {"timestamp", "type", "speed", "x", "y", "heading"}
      /\ Fields!StatusLayout["timestamp"].width = 12 /\ Fields!StatusLayout["type"].width = 8
      /\ Fields!StatusLayout["speed"].width = 8 /\ Fields!StatusLayout["x"].width = 10
      /\ Fields!StatusLayout["y"].width = 11 /\ Fields!StatusLayout["heading"].width = 9
  BY DEF Fields!StatusLayout, Fields!Field
<1>4. /\ given'["type"] = type /\ given'["timestamp"] = given.timestamp
      /\ given'["speed"] = given.speed /\ given'["x"] = given.x /\ given'["y"] = given.y
      /\ given'["heading"] = given.heading
  BY <1>1, <1>2 DEF CarriesGiven, CarriesMessage, EgoStates, Messages
<1>5. /\ Fields!Cut(carried.timestamp, 12) = Fields!Cut(given.timestamp, 12)
      /\ Fields!Cut(carried.speed, 8) = Fields!Cut(given.speed, 8)
      /\ Fields!Cut(carried.x, 10) = Fields!Cut(given.x, 10)
      /\ Fields!Cut(carried.y, 11) = Fields!Cut(given.y, 11)
      /\ Fields!Cut(carried.heading, 9) = Fields!Cut(given.heading, 9)
  <2>1. CASE CarriesGiven
    BY <2>1, EgoFits DEF CarriesGiven
  <2>2. CASE CarriesMessage
    BY <2>2, CutTwice DEF CarriesMessage
  <2> QED
    BY <1>2, <2>1, <2>2
<1>6. \A f \in DOMAIN Fields!StatusLayout :
        Fields!Cut(values[f], Fields!StatusLayout[f].width)
          = Fields!Cut(given'[f], Fields!StatusLayout[f].width)
  BY <1>1, <1>3, <1>4, <1>5
<1>7. /\ stage' = "sent" /\ carried'.layout = Fields!StatusLayout /\ Fields!FieldsReadBack'
      /\ \A f \in DOMAIN Fields!StatusLayout :
           Fields!Read(carried'.word, Fields!StatusLayout[f])
             = Fields!Cut(given'[f], Fields!StatusLayout[f].width)
  <2>1. {0, 2} \in SUBSET (0..3)
    OBVIOUS
  <2> QED
    BY <1>1, <1>6, <2>1, SentReadsBack, LayoutsAreWell
<1>8. Fields!OwnStateArrivesUnchanged'
  <2> SUFFICES ASSUME "turn" \in DOMAIN given'
               PROVE  \A f \in {"timestamp", "speed", "x", "y", "heading"} :
                        Fields!Read(carried'.word, Fields!StatusLayout[f]) = given'[f]
    BY <1>7 DEF Fields!OwnStateArrivesUnchanged
  <2>1. "turn" \in DOMAIN given
    BY <1>1
  <2>2. given \in EgoStates
    BY <1>2, <2>1 DEF CarriesGiven, CarriesMessage, Messages
  <2> QED
    BY <1>3, <1>4, <1>7, <2>2, EgoFits
<1> QED
  BY <1>7, <1>8 DEF FieldsInv
\* The frames whose fields the program fills itself, or from the map.
LEMMA SendOthersStep ==
  ASSUME Fields!SendIntro \/ Fields!SendLight \/ Fields!SendNtpSync
  PROVE  FieldsInv'
<1>1. PICK id, layout, values :
        /\ id \in SUBSET (0..3)
        /\ layout \in {Fields!IntroLayout, Fields!LightLayout, Fields!NtpLayout}
        /\ Fields!Sent(id, layout, values) /\ "turn" \notin DOMAIN given'
        /\ \A f \in DOMAIN layout : values[f] = given'[f]
  <2>1. CASE Fields!SendIntro
    <3>1. {2} \in SUBSET (0..3) /\ Fields!Sent({2}, Fields!IntroLayout, given')
      BY <2>1 DEF Fields!SendIntro
    <3>2. "turn" \notin DOMAIN given'
      BY <2>1 DEF Fields!SendIntro
    <3> QED
      BY <3>1, <3>2
  <2>2. CASE Fields!SendLight
    <3>1. {1, 2} \in SUBSET (0..3) /\ Fields!Sent({1, 2}, Fields!LightLayout, given')
      BY <2>2 DEF Fields!SendLight
    <3>2. "turn" \notin DOMAIN given'
      BY <2>2 DEF Fields!SendLight
    <3> QED
      BY <3>1, <3>2
  <2>3. CASE Fields!SendNtpSync
    <3>1. {1} \in SUBSET (0..3) /\ Fields!Sent({1}, Fields!NtpLayout, given')
      BY <2>3 DEF Fields!SendNtpSync
    <3>2. "turn" \notin DOMAIN given'
      BY <2>3 DEF Fields!SendNtpSync
    <3> QED
      BY <3>1, <3>2
  <2> QED
    BY <2>1, <2>2, <2>3
<1>2. WellLaidOut(layout)
  BY <1>1, LayoutsAreWell
<1>3. stage' = "sent" /\ Fields!FieldsReadBack'
  BY <1>1, <1>2, SentReadsBack
<1>4. Fields!OwnStateArrivesUnchanged'
  BY <1>1 DEF Fields!OwnStateArrivesUnchanged
<1> QED
  BY <1>3, <1>4 DEF FieldsInv

LEMMA StepFields ==
  ASSUME FieldsInv, [Fields!Next]_(Fields!vars)
  PROVE  FieldsInv'
<1>1. CASE Fields!Done
  BY <1>1 DEF Fields!Done, FieldsInv
<1>2. CASE UNCHANGED Fields!vars
  BY <1>2 DEF Fields!vars, FieldsInv, CarriesGiven, CarriesMessage, Fields!FieldsReadBack,
              Fields!OwnStateArrivesUnchanged
<1> QED
  BY <1>1, <1>2, SenseStep, DecodeStep, MessageSteps, FromJsonStep, SendStatusStep, SendOthersStep
  DEF Fields!Next

\* The zones of a received VehicleInfo are the first of the message, and ids.
LEMMA ZonesAreIds ==
  ASSUME FieldsInv
  PROVE  Fields!ReceivedZonesAreIds
<1> SUFFICES ASSUME stage = "received"
             PROVE  /\ Len(carried.zones) <= MaxZones
                    /\ Fields!ToSet(carried.zones) \subseteq ZoneIds
                    /\ "zones" \in DOMAIN given => Fields!IsPrefix(carried.zones, given.zones)
  BY DEF Fields!ReceivedZonesAreIds
<1>1. CASE CarriesGiven
  BY <1>1, FieldsAssumption DEF CarriesGiven, EgoStates, Fields!ToSet
<1>2. CASE CarriesMessage
  <2>1. PICK zones \in Seq(ZoneIds \cup {NotAnId}) : zones = given.zones
    BY <1>2 DEF CarriesMessage, Messages
  <2>2. PICK n \in Nat : n = IF Len(zones) < MaxZones THEN Len(zones) ELSE MaxZones
    BY <2>1, FieldsAssumption
  <2>3. carried.zones = SubSeq(zones, 1, n)
    BY <1>2, <2>1, <2>2 DEF CarriesMessage, Fields!FirstZones
  <2>4. /\ carried.zones \in Seq(ZoneIds \cup {NotAnId}) /\ Len(carried.zones) = n
        /\ n <= Len(zones) /\ n <= MaxZones
    BY <2>2, <2>3, FieldsAssumption
  <2>5. \A k \in DOMAIN carried.zones : carried.zones[k] \in ZoneIds
    BY <1>2, <2>4 DEF CarriesMessage
  <2>6. SubSeq(carried.zones, 1, n) = SubSeq(zones, 1, n)
    BY <2>3, <2>4
  <2> QED
    BY <2>1, <2>4, <2>5, <2>6 DEF Fields!ToSet, Fields!IsPrefix
<1> QED
  BY <1>1, <1>2 DEF FieldsInv

\* For every value of every field, whatever a foreign message holds: each field of each
\* frame reads back, a vehicle's state arrives unchanged at the other vehicle's RTOS,
\* and only zone ids, in order, get into a VehicleInfo.
THEOREM FieldsCorrect == Fields!Spec => []StateArrivesUnchanged
<1>1. Fields!Init => FieldsInv
  BY DEF Fields!Init, FieldsInv
<1>2. Fields!Spec => []FieldsInv
  BY <1>1, StepFields, PTL DEF Fields!Spec
<1>3. FieldsInv => StateArrivesUnchanged
  <2> SUFFICES ASSUME FieldsInv PROVE StateArrivesUnchanged
    OBVIOUS
  <2>1. Fields!FieldsReadBack /\ Fields!OwnStateArrivesUnchanged
    BY DEF FieldsInv, Fields!FieldsReadBack, Fields!OwnStateArrivesUnchanged
  <2> QED
    BY <2>1, ZonesAreIds DEF StateArrivesUnchanged
<1> QED
  BY <1>2, <1>3, PTL

-----------------------------------------------------------------------------
(***************************************************************************)
(* The map file.  First, the least and the greatest of a set of positions, *)
(* which is what the searches in the tables and in the file return.        *)
(***************************************************************************)
LEMMA MinimumOf ==
  ASSUME NEW I \in SUBSET Nat, I # {}
  PROVE  File!Min(I) \in I /\ \A j \in I : File!Min(I) <= j
<1> DEFINE R == OpToRel(<, Nat)
<1>1. \A x, y \in Nat : <<y, x>> \in R <=> y < x
  BY DEF OpToRel
<1>2. PICK x \in I : \A y \in I : ~(<<y, x>> \in R)
  BY NatLessThanWellFounded, WFMin
<1> HIDE DEF R
<1>3. \A y \in I : ~(y < x)
  <2> TAKE y \in I
  <2>1. y \in Nat /\ x \in Nat
    BY <1>2
  <2> QED
    BY <1>1, <1>2, <2>1
<1>4. \A y \in I : x <= y
  <2> TAKE y \in I
  <2>1. y \in Nat /\ x \in Nat
    BY <1>2
  <2> QED
    BY <1>3, <2>1
<1> QED
  BY <1>2, <1>4 DEF File!Min

LEMMA MaximumOf ==
  ASSUME NEW n \in Nat, NEW I \in SUBSET (1..n), I # {}
  PROVE  File!Max(I) \in I /\ \A j \in I : File!Max(I) >= j
<1> DEFINE J == {n - k : k \in I}
<1>1. J \in SUBSET Nat /\ J # {}
  <2>1. \A k \in I : k \in 1..n /\ n - k \in Nat
    OBVIOUS
  <2> QED
    BY <2>1
<1>2. \E x \in J : \A y \in J : x <= y
  BY <1>1, MinimumOf
<1>3. \E x \in I : \A y \in I : x >= y
  <2>1. PICK z \in J : \A y \in J : z <= y
    BY <1>2
  <2>2. PICK x \in I : z = n - x
    OBVIOUS
  <2>3. \A y \in I : n - y \in J /\ y \in Nat
    OBVIOUS
  <2>4. \A y \in I : n - x <= n - y
    BY <2>1, <2>2, <2>3
  <2> QED
    BY <2>2, <2>3, <2>4
<1> QED
  BY <1>3 DEF File!Max

\* The place of an id in a table is the first that has it, or 0.
LEMMA IndexOfFirst ==
  ASSUME NEW S, NEW t \in Seq(S), NEW id
  PROVE  /\ File!IndexOf(t, id) \in 0..Len(t)
         /\ File!IndexOf(t, id) = 0 <=> \A j \in 1..Len(t) : t[j].id # id
         /\ File!IndexOf(t, id) # 0 =>
              /\ t[File!IndexOf(t, id)].id = id
              /\ \A j \in 1..Len(t) : t[j].id = id => File!IndexOf(t, id) <= j
<1> DEFINE I == {j \in 1..Len(t) : t[j].id = id}
           n == File!IndexOf(t, id)
<1>1. n = IF I # {} THEN File!Min(I) ELSE 0
  BY DEF File!IndexOf, File!SelectInSeq
<1>2. I \in SUBSET Nat /\ I \subseteq 1..Len(t) /\ Len(t) \in Nat
  OBVIOUS
<1> HIDE DEF n
<1>3. CASE I = {}
  <2>1. n = 0
    BY <1>1, <1>3
  <2>2. \A j \in 1..Len(t) : t[j].id # id
    BY <1>3
  <2> QED
    BY <2>1, <2>2, <1>2 DEF n
<1>4. CASE I # {}
  <2>1. n \in I /\ \A j \in I : n <= j
    BY <1>1, <1>2, <1>4, MinimumOf
  <2>2. n \in 1..Len(t) /\ t[n].id = id /\ n # 0
    BY <2>1, <1>2
  <2>3. \A j \in 1..Len(t) : t[j].id = id => n <= j
    BY <2>1
  <2> QED
    BY <2>2, <2>3, <1>2 DEF n
<1> QED
  BY <1>3, <1>4

\* The same for any condition: the first and the last place of those in I.
LEMMA FirstPlace ==
  ASSUME NEW n \in Nat, NEW I \in SUBSET (1..n), NEW place, place = IF I # {} THEN File!Min(I) ELSE 0
  PROVE  /\ place \in 0..n
         /\ place = 0 <=> I = {}
         /\ place # 0 => place \in I /\ \A j \in I : place <= j
<1>1. CASE I = {}
  BY <1>1
<1>2. CASE I # {}
  <2>1. I \in SUBSET Nat
    OBVIOUS
  <2>2. place \in I /\ \A j \in I : place <= j
    BY <1>2, <2>1, MinimumOf
  <2> QED
    BY <1>2, <2>2
<1> QED
  BY <1>1, <1>2

LEMMA LastPlace ==
  ASSUME NEW n \in Nat, NEW I \in SUBSET (1..n), NEW place, place = IF I # {} THEN File!Max(I) ELSE 0
  PROVE  /\ place \in 0..n
         /\ place = 0 <=> I = {}
         /\ place # 0 => place \in I /\ \A j \in I : place >= j
<1>1. CASE I = {}
  BY <1>1
<1>2. CASE I # {}
  <2>1. place \in I /\ \A j \in I : place >= j
    BY <1>2, MaximumOf
  <2> QED
    BY <1>2, <2>1
<1> QED
  BY <1>1, <1>2

-----------------------------------------------------------------------------
(***************************************************************************)
(* What the tables hold.                                                   *)
(***************************************************************************)
Participants == [lane : LaneRefs, movement : FileMovements]
Relations == [zone : ZoneRefs, participants : Seq(Participants)]
LoadedLanelets ==
  [id : {tag.id : tag \in LaneletTags}, cells : {tag.cells : tag \in LaneletTags},
   maneuver : {tag.maneuver : tag \in LaneletTags},
   unprotected : {tag.unprotected : tag \in LaneletTags},
   light : {tag.light : tag \in LaneletTags} \cup LightRefs, zones : Seq(ZoneRefs)]
FileMaps ==
  [areas : Seq(AreaTags), zones : Seq(AreaTags),
   center : {area.id : area \in AreaTags} \cup {NoId},
   lanelets : Seq(LoadedLanelets), relations : Seq(Relations)]
ElementTypes == {"none", "conflict_zone", "traffic_light"}
ElementIds == ZoneRefs \cup LightRefs \cup {NoId}
ElementsRead ==
  [type : ElementTypes, id : ElementIds, participants : Seq(Participants),
   appliesTo : Seq(LaneRefs)]
ElementsUnderWay ==
  [type : ElementTypes, id : ElementIds, relation : Nat, participants : Seq(Participants),
   appliesTo : Seq(LaneRefs)]

FileForm ==
  /\ phase \in {"areas", "lanelets", "regulatory", "loaded"}
  /\ map \in FileMaps
  /\ element \in ElementsUnderWay
  /\ document \in [areas : Seq(AreaTags), lanelets : Seq(LaneletTags),
                   elements : Seq(ElementsRead)]

\* What the tables of m hold fits, and none of it is an empty id or a zone twice.
LaneZonesFit(zones) ==
  /\ Len(zones) <= MaxZonesPerLane
  /\ \A k \in 1..Len(zones) : zones[k] \in ZoneRefs \ {NoId}
  /\ \A k, j \in 1..Len(zones) : zones[k] = zones[j] => k = j

RelationFits(r) ==
  /\ r.zone \in ZoneRefs \ {NoId} /\ Len(r.participants) <= MaxParticipants
  /\ \A k \in 1..Len(r.participants) : r.participants[k].lane # NoId

TablesFit(m) ==
  /\ Len(m.areas) <= MaxAreas /\ Len(m.zones) <= MaxZoneAreas
  /\ Len(m.lanelets) <= MaxLanelets
  /\ \A k \in 1..Len(m.lanelets) : LaneZonesFit(m.lanelets[k].zones)
  /\ Len(m.relations) <= MaxRelations
  /\ \A k \in 1..Len(m.relations) : RelationFits(m.relations[k])

\* What is known of the element under way.
ElementForm ==
  /\ element.type = "none" => element = File!NoElement
  /\ element.type # "none" => phase = "regulatory"
  /\ element.type = "conflict_zone" => element.id \in ZoneRefs
  /\ element.type = "traffic_light" => element.id \in LightRefs
  /\ element.relation <= Len(map.relations)
  /\ phase \in {"areas", "lanelets"} => document.elements = <<>>

TablesInv == FileForm /\ TablesFit(map) /\ ElementForm

-----------------------------------------------------------------------------
LEMMA CappedForm ==
  ASSUME NEW S, NEW t \in Seq(S), NEW max \in Nat, NEW e \in S
  PROVE  /\ File!Capped(t, max, e) \in Seq(S)
         /\ Len(File!Capped(t, max, e)) = IF Len(t) < max THEN Len(t) + 1 ELSE Len(t)
         /\ \A k \in 1..Len(t) : File!Capped(t, max, e)[k] = t[k]
         /\ Len(t) < max => File!Capped(t, max, e)[Len(t) + 1] = e
BY DEF File!Capped

\* Two maps that answer the same about positions.
AnswersAlike(m, n) ==
  /\ n.areas = m.areas /\ n.zones = m.zones /\ n.center = m.center
  /\ Len(n.lanelets) = Len(m.lanelets)
  /\ \A k \in 1..Len(m.lanelets) :
       /\ n.lanelets[k].id = m.lanelets[k].id
       /\ n.lanelets[k].cells = m.lanelets[k].cells
       /\ n.lanelets[k].maneuver = m.lanelets[k].maneuver
       /\ n.lanelets[k].unprotected = m.lanelets[k].unprotected

LightsAlike(m, n) ==
  \A k \in 1..Len(m.lanelets) : n.lanelets[k].light = m.lanelets[k].light

LEMMA RelationAdded ==
  ASSUME NEW m \in FileMaps, TablesFit(m), NEW e \in ElementsUnderWay,
         e.type = "conflict_zone" => e.id \in ZoneRefs, e.type = "conflict_zone",
         e.relation <= Len(m.relations)
  PROVE  LET r == File!RelationFor(m, e)
             n == File!WithRelation(m, r, e.id)
         IN  /\ r \in Nat /\ r <= Len(n.relations)
             /\ n \in FileMaps /\ TablesFit(n) /\ AnswersAlike(m, n) /\ LightsAlike(m, n)
             /\ Len(n.relations) >= Len(m.relations)
<1> DEFINE r == File!RelationFor(m, e)
           n == File!WithRelation(m, r, e.id)
<1>1. r \in Nat /\ (r <= Len(m.relations) \/ (r = Len(m.relations) + 1 /\ e.id # NoId
                                               /\ Len(m.relations) < MaxRelations))
  BY FileAssumption DEF File!RelationFor, FileMaps, ElementsUnderWay
<1> HIDE DEF r
<1>2. CASE r <= Len(m.relations)
  BY <1>1, <1>2 DEF File!WithRelation, AnswersAlike, LightsAlike, r, FileMaps
<1>3. CASE ~(r <= Len(m.relations))
  <2> DEFINE new == [zone |-> e.id, participants |-> <<>>]
  <2>1. new \in Relations /\ RelationFits(new)
    BY <1>1, <1>3, FileAssumption DEF Relations, RelationFits, ElementsUnderWay
  <2>2. n = [m EXCEPT !.relations = Append(m.relations, new)]
    BY <1>3 DEF File!WithRelation
  <2> HIDE DEF new, n
  <2>a. m.relations \in Seq(Relations) /\ Append(m.relations, new) \in Seq(Relations)
    BY <2>1 DEF FileMaps
  <2>3. /\ n \in FileMaps /\ n.relations = Append(m.relations, new)
        /\ n.areas = m.areas /\ n.zones = m.zones /\ n.center = m.center
        /\ n.lanelets = m.lanelets
    BY <2>2, <2>a DEF FileMaps
  <2>4. /\ Len(n.relations) = Len(m.relations) + 1 /\ n.relations[Len(m.relations) + 1] = new
        /\ \A k \in 1..Len(m.relations) : n.relations[k] = m.relations[k]
    BY <2>3 DEF FileMaps
  <2>5. TablesFit(n)
    <3>1. Len(m.relations) \in Nat
      BY DEF FileMaps
    <3>2. ASSUME NEW k \in 1..Len(n.relations)
          PROVE  RelationFits(n.relations[k])
      <4>1. CASE k <= Len(m.relations)
        BY <2>4, <3>1, <4>1 DEF TablesFit
      <4>2. CASE k = Len(m.relations) + 1
        BY <2>1, <2>4, <4>2
      <4> QED
        BY <2>4, <3>1, <4>1, <4>2
    <3>3. MaxRelations \in Nat
      BY FileAssumption
    <3> QED
      BY <1>1, <1>3, <2>3, <2>4, <3>1, <3>2, <3>3 DEF TablesFit
  <2> QED
    BY <1>1, <1>3, <2>3, <2>4, <2>5 DEF AnswersAlike, LightsAlike, r, n, FileMaps
<1> QED
  BY <1>2, <1>3 DEF r

LEMMA ParticipantAdded ==
  ASSUME NEW m \in FileMaps, TablesFit(m), NEW r \in Nat,
         r <= Len(m.relations), NEW p \in Participants
  PROVE  LET n == File!WithParticipant(m, r, p)
         IN  /\ n \in FileMaps /\ TablesFit(n) /\ AnswersAlike(m, n) /\ LightsAlike(m, n)
             /\ Len(n.relations) = Len(m.relations)
<1> DEFINE n == File!WithParticipant(m, r, p)
<1>1. CASE r = 0 \/ p.lane = NoId
  BY <1>1 DEF File!WithParticipant, AnswersAlike, LightsAlike
<1>2. CASE ~(r = 0 \/ p.lane = NoId)
  <2> DEFINE old == m.relations[r].participants
             now == File!Capped(old, MaxParticipants, p)
             new == [m.relations[r] EXCEPT !.participants = now]
  <2>1. r \in 1..Len(m.relations) /\ m.relations[r] \in Relations
    BY <1>2 DEF FileMaps
  <2>2. n = [m EXCEPT !.relations = [m.relations EXCEPT ![r] = new]]
    BY <1>2 DEF File!WithParticipant
  <2>3. RelationFits(m.relations[r])
    BY <2>1 DEF TablesFit
  <2>4. new \in Relations /\ RelationFits(new)
    <3>1. old \in Seq(Participants) /\ Len(old) \in Nat /\ MaxParticipants \in Nat
      BY <2>1, FileAssumption DEF Relations
    <3>2. Len(old) <= MaxParticipants /\ \A k \in 1..Len(old) : old[k].lane # NoId
      BY <2>3 DEF RelationFits
    <3> HIDE DEF old
    <3>3. now = IF Len(old) < MaxParticipants THEN Append(old, p) ELSE old
      BY DEF File!Capped
    <3> HIDE DEF now
    <3>4. /\ now \in Seq(Participants) /\ Len(now) <= MaxParticipants
          /\ \A k \in 1..Len(now) : now[k].lane # NoId
      <4>1. CASE Len(old) < MaxParticipants
        <5>1. now = Append(old, p)
          BY <3>3, <4>1
        <5>2. /\ now \in Seq(Participants) /\ Len(now) = Len(old) + 1
              /\ \A k \in 1..Len(old) : now[k] = old[k]
              /\ now[Len(old) + 1] = p
          BY <3>1, <5>1
        <5>3. \A k \in 1..Len(now) : k \in 1..Len(old) \/ k = Len(old) + 1
          BY <3>1, <5>2
        <5> QED
          BY <1>2, <3>1, <3>2, <4>1, <5>2, <5>3
      <4>2. CASE ~(Len(old) < MaxParticipants)
        BY <3>1, <3>2, <3>3, <4>2
      <4> QED
        BY <4>1, <4>2
    <3> QED
      BY <2>1, <2>3, <3>4 DEF Relations, RelationFits
  <2> HIDE DEF new, n
  <2>a. m.relations \in Seq(Relations) /\ [m.relations EXCEPT ![r] = new] \in Seq(Relations)
    BY <2>1, <2>4 DEF FileMaps
  <2>5. /\ n \in FileMaps /\ n.relations = [m.relations EXCEPT ![r] = new]
        /\ n.areas = m.areas /\ n.zones = m.zones /\ n.center = m.center
        /\ n.lanelets = m.lanelets
    BY <2>1, <2>2, <2>a DEF FileMaps
  <2>6. /\ Len(n.relations) = Len(m.relations) /\ n.relations[r] = new
        /\ \A k \in 1..Len(m.relations) : k # r => n.relations[k] = m.relations[k]
    BY <2>1, <2>5 DEF FileMaps
  <2>7. TablesFit(n)
    <3>1. \A k \in 1..Len(n.relations) : RelationFits(n.relations[k])
      BY <2>4, <2>6 DEF TablesFit
    <3> QED
      BY <2>5, <2>6, <3>1 DEF TablesFit
  <2> QED
    BY <2>5, <2>6, <2>7 DEF AnswersAlike, LightsAlike, n
<1> QED
  BY <1>1, <1>2

LEMMA ZoneAdded ==
  ASSUME NEW m \in FileMaps, TablesFit(m), NEW lane \in LaneRefs,
         NEW zone \in ZoneRefs
  PROVE  LET n == File!WithLaneZone(m, lane, zone)
         IN  /\ n \in FileMaps /\ TablesFit(n) /\ AnswersAlike(m, n) /\ LightsAlike(m, n)
             /\ n.relations = m.relations
<1> DEFINE at == File!IndexOf(m.lanelets, lane)
           n == File!WithLaneZone(m, lane, zone)
<1>1. m.lanelets \in Seq(LoadedLanelets)
  BY DEF FileMaps
<1>2. at \in 0..Len(m.lanelets) /\ Len(m.lanelets) \in Nat
  BY <1>1, IndexOfFirst
<1>3. CASE at = 0 \/ zone = NoId
  BY <1>3 DEF File!WithLaneZone, AnswersAlike, LightsAlike
<1>4. CASE ~(at = 0 \/ zone = NoId)
  <2> DEFINE old == m.lanelets[at].zones
             now == IF File!Contains(old, zone) THEN old
                    ELSE File!Capped(old, MaxZonesPerLane, zone)
             new == [m.lanelets[at] EXCEPT !.zones = now]
  <2>1. at \in 1..Len(m.lanelets) /\ m.lanelets[at] \in LoadedLanelets
    BY <1>1, <1>2, <1>4
  <2>2. n = [m EXCEPT !.lanelets = [m.lanelets EXCEPT ![at] = new]]
    BY <1>4 DEF File!WithLaneZone
  <2>3. old \in Seq(ZoneRefs) /\ MaxZonesPerLane \in Nat
    BY <2>1, FileAssumption DEF LoadedLanelets
  <2>4. LaneZonesFit(old)
    BY <2>1 DEF TablesFit
  <2> HIDE DEF at, old
  <2>5. now \in Seq(ZoneRefs) /\ LaneZonesFit(now)
    <3>1. CASE File!Contains(old, zone)
      BY <2>3, <2>4, <3>1
    <3>2. CASE ~File!Contains(old, zone)
      <4>1. /\ now \in Seq(ZoneRefs)
            /\ Len(now) = IF Len(old) < MaxZonesPerLane THEN Len(old) + 1 ELSE Len(old)
            /\ \A k \in 1..Len(old) : now[k] = old[k]
            /\ Len(old) < MaxZonesPerLane => now[Len(old) + 1] = zone
        <5>1. now = File!Capped(old, MaxZonesPerLane, zone)
          BY <3>2
        <5> HIDE DEF now
        <5>2. now = IF Len(old) < MaxZonesPerLane THEN Append(old, zone) ELSE old
          BY <5>1 DEF File!Capped
        <5>3. CASE Len(old) < MaxZonesPerLane
          <6>1. now = Append(old, zone)
            BY <5>2, <5>3
          <6> QED
            BY <2>3, <5>3, <6>1
        <5>4. CASE ~(Len(old) < MaxZonesPerLane)
          BY <2>3, <5>2, <5>4
        <5> QED
          BY <5>3, <5>4
      <4>2. \A k \in 1..Len(old) : old[k] # zone
        BY <3>2 DEF File!Contains
      <4>3. Len(old) \in Nat /\ Len(now) \in Nat
        BY <2>3, <4>1
      <4> HIDE DEF now
      <4>4. \A k \in 1..Len(now) : k \in 1..Len(old) \/ (k = Len(old) + 1 /\ now[k] = zone)
        BY <4>1, <4>3
      <4>5. \A k \in 1..Len(now) : now[k] \in ZoneRefs \ {NoId}
        BY <1>4, <2>4, <4>1, <4>4 DEF LaneZonesFit
      <4>6. \A k, j \in 1..Len(now) : now[k] = now[j] => k = j
        <5> SUFFICES ASSUME NEW k \in 1..Len(now), NEW j \in 1..Len(now), now[k] = now[j]
                     PROVE  k = j
          OBVIOUS
        <5>1. CASE k \in 1..Len(old) /\ j \in 1..Len(old)
          BY <2>4, <4>1, <5>1 DEF LaneZonesFit
        <5>2. CASE ~(k \in 1..Len(old) /\ j \in 1..Len(old))
          BY <4>1, <4>2, <4>4, <5>2
        <5> QED
          BY <5>1, <5>2
      <4>7. Len(now) <= MaxZonesPerLane
        BY <2>3, <2>4, <4>1, <4>3 DEF LaneZonesFit
      <4> QED
        BY <4>1, <4>5, <4>6, <4>7 DEF LaneZonesFit
    <3> QED
      BY <3>1, <3>2
  <2> HIDE DEF now
  <2>6. /\ new \in LoadedLanelets /\ new.zones = now
        /\ new.id = m.lanelets[at].id /\ new.cells = m.lanelets[at].cells
        /\ new.maneuver = m.lanelets[at].maneuver /\ new.light = m.lanelets[at].light
        /\ new.unprotected = m.lanelets[at].unprotected
    BY <2>1, <2>5 DEF LoadedLanelets
  <2> HIDE DEF new, n
  <2>7. [m.lanelets EXCEPT ![at] = new] \in Seq(LoadedLanelets)
    BY <1>1, <2>1, <2>6
  <2>8. /\ n \in FileMaps /\ n.lanelets = [m.lanelets EXCEPT ![at] = new]
        /\ n.areas = m.areas /\ n.zones = m.zones /\ n.center = m.center
        /\ n.relations = m.relations
    BY <2>2, <2>7 DEF FileMaps
  <2>9. /\ Len(n.lanelets) = Len(m.lanelets) /\ n.lanelets[at] = new
        /\ \A k \in 1..Len(m.lanelets) : k # at => n.lanelets[k] = m.lanelets[k]
    BY <1>1, <2>1, <2>8
  <2>10. TablesFit(n)
    <3>1. \A k \in 1..Len(n.lanelets) : LaneZonesFit(n.lanelets[k].zones)
      BY <2>5, <2>6, <2>9 DEF TablesFit
    <3> QED
      BY <2>8, <2>9, <3>1 DEF TablesFit
  <2>11. AnswersAlike(m, n) /\ LightsAlike(m, n)
    BY <2>6, <2>8, <2>9 DEF AnswersAlike, LightsAlike
  <2> QED
    BY <2>8, <2>10, <2>11 DEF n
<1> QED
  BY <1>3, <1>4

LEMMA LightSet ==
  ASSUME NEW m \in FileMaps, TablesFit(m), NEW lane \in LaneRefs,
         NEW light \in LightRefs
  PROVE  LET n == File!WithLight(m, lane, light)
             at == File!IndexOf(m.lanelets, lane)
         IN  /\ n \in FileMaps /\ TablesFit(n) /\ AnswersAlike(m, n)
             /\ n.relations = m.relations
             /\ \A k \in 1..Len(m.lanelets) :
                  n.lanelets[k].light = IF k = at /\ light # NoId THEN light
                                        ELSE m.lanelets[k].light
<1> DEFINE at == File!IndexOf(m.lanelets, lane)
           n == File!WithLight(m, lane, light)
<1>1. m.lanelets \in Seq(LoadedLanelets)
  BY DEF FileMaps
<1>2. at \in 0..Len(m.lanelets) /\ Len(m.lanelets) \in Nat
  BY <1>1, IndexOfFirst
<1>3. CASE at = 0 \/ light = NoId
  BY <1>3 DEF File!WithLight, AnswersAlike
<1>4. CASE ~(at = 0 \/ light = NoId)
  <2> DEFINE new == [m.lanelets[at] EXCEPT !.light = light]
  <2>1. at \in 1..Len(m.lanelets) /\ m.lanelets[at] \in LoadedLanelets
    BY <1>1, <1>2, <1>4
  <2>2. n = [m EXCEPT !.lanelets = [m.lanelets EXCEPT ![at] = new]]
    BY <1>4 DEF File!WithLight
  <2> HIDE DEF at
  <2>3. /\ new \in LoadedLanelets /\ new.light = light
        /\ new.id = m.lanelets[at].id /\ new.cells = m.lanelets[at].cells
        /\ new.maneuver = m.lanelets[at].maneuver /\ new.zones = m.lanelets[at].zones
        /\ new.unprotected = m.lanelets[at].unprotected
    BY <2>1 DEF LoadedLanelets
  <2> HIDE DEF new, n
  <2>4. [m.lanelets EXCEPT ![at] = new] \in Seq(LoadedLanelets)
    BY <1>1, <2>1, <2>3
  <2>5. /\ n \in FileMaps /\ n.lanelets = [m.lanelets EXCEPT ![at] = new]
        /\ n.areas = m.areas /\ n.zones = m.zones /\ n.center = m.center
        /\ n.relations = m.relations
    BY <2>2, <2>4 DEF FileMaps
  <2>6. /\ Len(n.lanelets) = Len(m.lanelets) /\ n.lanelets[at] = new
        /\ \A k \in 1..Len(m.lanelets) : k # at => n.lanelets[k] = m.lanelets[k]
    BY <1>1, <2>1, <2>5
  <2>7. TablesFit(n)
    <3>1. \A k \in 1..Len(n.lanelets) : LaneZonesFit(n.lanelets[k].zones)
      BY <2>1, <2>3, <2>6 DEF TablesFit
    <3> QED
      BY <2>5, <2>6, <3>1 DEF TablesFit
  <2>8. AnswersAlike(m, n)
    BY <2>3, <2>5, <2>6 DEF AnswersAlike
  <2>9. \A k \in 1..Len(m.lanelets) :
          n.lanelets[k].light = IF k = at THEN light ELSE m.lanelets[k].light
    BY <2>3, <2>6
  <2> QED
    BY <1>4, <2>5, <2>7, <2>8, <2>9 DEF n, at
<1> QED
  BY <1>3, <1>4

-----------------------------------------------------------------------------
(***************************************************************************)
(* Each step keeps what the tables hold.                                   *)
(***************************************************************************)
LEMMA InitTables ==
  ASSUME File!Init
  PROVE  TablesInv
<1>1. /\ Len(map.areas) = 0 /\ Len(map.zones) = 0 /\ Len(map.lanelets) = 0
      /\ Len(map.relations) = 0
  BY DEF File!Init
<1>2. TablesFit(map)
  BY <1>1, FileAssumption DEF TablesFit
<1>3. FileForm
  <2>1. map \in FileMaps
    BY DEF File!Init, FileMaps
  <2>2. element \in ElementsUnderWay
    BY DEF File!Init, File!NoElement, ElementsUnderWay, ElementTypes, ElementIds
  <2>3. document \in [areas : Seq(AreaTags), lanelets : Seq(LaneletTags),
                      elements : Seq(ElementsRead)]
    BY DEF File!Init
  <2> QED
    BY <2>1, <2>2, <2>3 DEF FileForm, File!Init
<1>4. ElementForm
  BY <1>1 DEF ElementForm, File!Init, File!NoElement
<1> QED
  BY <1>2, <1>3, <1>4 DEF TablesInv

LEMMA AreaStored ==
  ASSUME NEW m \in FileMaps, TablesFit(m), NEW area \in AreaTags
  PROVE  LET n == File!StoreArea(m, area)
         IN  /\ n \in FileMaps /\ TablesFit(n)
             /\ n.areas = File!Capped(m.areas, MaxAreas, area)
             /\ n.center = IF area.type = "intersection_center" THEN area.id ELSE m.center
             /\ n.lanelets = m.lanelets /\ n.relations = m.relations
<1> DEFINE n == File!StoreArea(m, area)
           areas == File!Capped(m.areas, MaxAreas, area)
           zones == IF area.type = "conflict_zone"
                    THEN File!Capped(m.zones, MaxZoneAreas, area) ELSE m.zones
           center == IF area.type = "intersection_center" THEN area.id ELSE m.center
<1>1. /\ m.areas \in Seq(AreaTags) /\ m.zones \in Seq(AreaTags) 
      /\ MaxAreas \in Nat /\ MaxZoneAreas \in Nat 
  BY FileAssumption DEF FileMaps
<1>2. areas \in Seq(AreaTags) /\ Len(areas) <= MaxAreas
  BY <1>1 DEF TablesFit, File!Capped
<1>3. zones \in Seq(AreaTags) /\ Len(zones) <= MaxZoneAreas
  <2>1. CASE area.type = "conflict_zone"
    <3>1. zones = File!Capped(m.zones, MaxZoneAreas, area)
      BY <2>1
    <3> HIDE DEF zones
    <3> QED
      BY <1>1, <3>1 DEF TablesFit, File!Capped
  <2>2. CASE area.type # "conflict_zone"
    BY <1>1, <2>2 DEF TablesFit
  <2> QED
    BY <2>1, <2>2
<1>4. center \in {tag.id : tag \in AreaTags} \cup {NoId}
  BY DEF FileMaps
<1>5. n = [m EXCEPT !.areas = areas, !.center = center, !.zones = zones]
  BY DEF File!StoreArea, FileMaps
<1> HIDE DEF areas, zones, center, n
<1>6. /\ n \in FileMaps /\ n.areas = areas /\ n.zones = zones /\ n.center = center
      /\ n.lanelets = m.lanelets /\ n.relations = m.relations
  BY <1>2, <1>3, <1>4, <1>5 DEF FileMaps
<1>7. TablesFit(n)
  BY <1>2, <1>3, <1>6 DEF TablesFit
<1> QED
  BY <1>6, <1>7 DEF n, areas, center

LEMMA ParseAreaTables ==
  ASSUME TablesInv, File!ParseArea
  PROVE  TablesInv'
<1>1. PICK area \in AreaTags :
        /\ map' = File!StoreArea(map, area)
        /\ document' = [document EXCEPT !.areas = Append(@, area)]
  BY DEF File!ParseArea
<1>2. /\ map' \in FileMaps /\ TablesFit(map') /\ map'.relations = map.relations
  BY <1>1, AreaStored DEF TablesInv, FileForm
<1>3. FileForm'
  <2>1. document.areas \in Seq(AreaTags) /\ Append(document.areas, area) \in Seq(AreaTags)
    BY DEF TablesInv, FileForm
  <2>2. document' \in [areas : Seq(AreaTags), lanelets : Seq(LaneletTags),
                       elements : Seq(ElementsRead)]
    BY <1>1, <2>1 DEF TablesInv, FileForm
  <2> QED
    BY <1>2, <2>2 DEF TablesInv, FileForm, File!ParseArea
<1>4. document'.elements = document.elements
  BY <1>1 DEF TablesInv, FileForm
<1>5. ElementForm'
  BY <1>2, <1>4 DEF TablesInv, ElementForm, File!ParseArea
<1> QED
  BY <1>2, <1>3, <1>5 DEF TablesInv, TablesFit

LEMMA LaneletStored ==
  ASSUME NEW m \in FileMaps, TablesFit(m), NEW tag \in LaneletTags
  PROVE  LET n == [m EXCEPT !.lanelets = File!Capped(@, MaxLanelets, File!LoadedLanelet(tag))]
         IN  /\ n \in FileMaps /\ TablesFit(n)
             /\ n.lanelets = File!Capped(m.lanelets, MaxLanelets, File!LoadedLanelet(tag))
             /\ n.areas = m.areas /\ n.center = m.center /\ n.relations = m.relations
<1> DEFINE new == File!LoadedLanelet(tag)
           lanelets == File!Capped(m.lanelets, MaxLanelets, new)
           n == [m EXCEPT !.lanelets = lanelets]
<1>1. m.lanelets \in Seq(LoadedLanelets) /\ MaxLanelets \in Nat /\ MaxZonesPerLane \in Nat
  BY FileAssumption DEF FileMaps
<1>2. new \in LoadedLanelets
  BY FileAssumption DEF File!LoadedLanelet, LoadedLanelets
<1>3. LaneZonesFit(new.zones)
  BY <1>1 DEF LaneZonesFit, File!LoadedLanelet
<1> HIDE DEF new
<1>4. /\ lanelets \in Seq(LoadedLanelets)
      /\ Len(lanelets) = IF Len(m.lanelets) < MaxLanelets THEN Len(m.lanelets) + 1
                         ELSE Len(m.lanelets)
      /\ \A k \in 1..Len(m.lanelets) : lanelets[k] = m.lanelets[k]
      /\ Len(m.lanelets) < MaxLanelets => lanelets[Len(m.lanelets) + 1] = new
  BY <1>1, <1>2 DEF File!Capped
<1> HIDE DEF lanelets
<1>5. /\ n \in FileMaps /\ n.lanelets = lanelets
      /\ n.areas = m.areas /\ n.zones = m.zones /\ n.center = m.center
      /\ n.relations = m.relations
  BY <1>4 DEF FileMaps
<1>6. ASSUME NEW k \in 1..Len(lanelets)
      PROVE  LaneZonesFit(lanelets[k].zones)
  <2>1. Len(m.lanelets) \in Nat
    BY <1>1
  <2>2. CASE k \in 1..Len(m.lanelets)
    BY <1>4, <2>2 DEF TablesFit
  <2>3. CASE k \notin 1..Len(m.lanelets)
    BY <1>3, <1>4, <2>1, <2>3
  <2> QED
    BY <2>2, <2>3
<1>7. Len(lanelets) <= MaxLanelets
  BY <1>1, <1>4 DEF TablesFit
<1>8. TablesFit(n)
  BY <1>5, <1>6, <1>7 DEF TablesFit
<1> QED
  BY <1>5, <1>8 DEF lanelets, new

LEMMA ParseLaneletTables ==
  ASSUME TablesInv, File!ParseLanelet
  PROVE  TablesInv'
<1>1. PICK tag \in LaneletTags :
        /\ map' = [map EXCEPT !.lanelets = File!Capped(@, MaxLanelets, File!LoadedLanelet(tag))]
        /\ document' = [document EXCEPT !.lanelets = Append(@, tag)]
  BY DEF File!ParseLanelet
<1>2. /\ map' \in FileMaps /\ TablesFit(map') /\ map'.relations = map.relations
  BY <1>1, LaneletStored DEF TablesInv, FileForm
<1>3. phase = "lanelets" /\ phase' \in {"lanelets", "regulatory"} /\ element' = element
  BY DEF File!ParseLanelet
<1>4. FileForm'
  <2>1. document.lanelets \in Seq(LaneletTags) /\ Append(document.lanelets, tag) \in Seq(LaneletTags)
    BY DEF TablesInv, FileForm
  <2>2. document' \in [areas : Seq(AreaTags), lanelets : Seq(LaneletTags),
                       elements : Seq(ElementsRead)]
    BY <1>1, <2>1 DEF TablesInv, FileForm
  <2> QED
    BY <1>2, <1>3, <2>2 DEF TablesInv, FileForm
<1>5. document'.elements = document.elements
  BY <1>1 DEF TablesInv, FileForm
<1>6. ElementForm'
  BY <1>2, <1>3, <1>5 DEF TablesInv, ElementForm
<1> QED
  BY <1>2, <1>4, <1>6 DEF TablesInv, TablesFit

LEMMA EndOfScanTables ==
  ASSUME TablesInv, File!EndOfScan
  PROVE  TablesInv'
<1>1. FileForm'
  BY DEF TablesInv, FileForm, File!EndOfScan
<1>2. ElementForm'
  BY DEF TablesInv, ElementForm, File!EndOfScan, File!NoElement
<1> QED
  BY <1>1, <1>2 DEF TablesInv, TablesFit, File!EndOfScan

LEMMA BeginElementTables ==
  ASSUME TablesInv, File!BeginElement
  PROVE  TablesInv'
<1>1. PICK type \in {"conflict_zone", "traffic_light"}, id \in ZoneRefs \cup LightRefs :
        /\ element' = File!NewElement(type, id)
        /\ type = "conflict_zone" => id \in ZoneRefs
        /\ type = "traffic_light" => id \in LightRefs
  BY DEF File!BeginElement
<1>3. /\ element' = [type |-> type, id |-> id, relation |-> 0, participants |-> <<>>,
                     appliesTo |-> <<>>]
      /\ phase = "regulatory" /\ phase' = phase /\ map' = map /\ document' = document
  BY <1>1 DEF File!BeginElement, File!NewElement, File!NoElement
<1>4. element' \in ElementsUnderWay
  BY <1>3 DEF ElementsUnderWay, ElementTypes, ElementIds
<1>5. FileForm'
  BY <1>3, <1>4 DEF TablesInv, FileForm
<1>6. Len(map.relations) \in Nat
  BY DEF TablesInv, FileForm, FileMaps
<1>7. ElementForm'
  BY <1>1, <1>3, <1>6 DEF TablesInv, ElementForm
<1> QED
  BY <1>3, <1>5, <1>7 DEF TablesInv, TablesFit

LEMMA ParseParticipantTables ==
  ASSUME TablesInv, File!ParseParticipant
  PROVE  TablesInv' /\ AnswersAlike(map, map') /\ LightsAlike(map, map')
<1> DEFINE r == File!RelationFor(map, element)
           m == File!WithRelation(map, r, element.id)
<1>1. PICK lane \in LaneRefs, movement \in FileMovements :
        LET p == [lane |-> lane, movement |-> movement]
        IN  /\ map' = File!WithLaneZone(File!WithParticipant(m, r, p), lane, element.id)
            /\ element' = [element EXCEPT !.relation = r, !.participants = Append(@, p)]
  BY DEF File!ParseParticipant
<1> DEFINE p == [lane |-> lane, movement |-> movement]
           n == File!WithParticipant(m, r, p)
<1>2. /\ element.type = "conflict_zone" /\ element.id \in ZoneRefs
      /\ phase' = phase /\ document' = document
  BY DEF File!ParseParticipant, TablesInv, ElementForm
<1>3. /\ map \in FileMaps /\ TablesFit(map) /\ element \in ElementsUnderWay
      /\ element.relation <= Len(map.relations)
  BY DEF TablesInv, FileForm, ElementForm
<1>4. p \in Participants
  BY DEF Participants
<1>5. /\ map' = File!WithLaneZone(n, lane, element.id)
      /\ element' = [element EXCEPT !.relation = r, !.participants = Append(@, p)]
  BY <1>1
<1>6. /\ r \in Nat /\ r <= Len(m.relations)
      /\ m \in FileMaps /\ TablesFit(m) /\ AnswersAlike(map, m) /\ LightsAlike(map, m)
  BY <1>2, <1>3, RelationAdded
<1> HIDE DEF r, m, p
<1>7. /\ n \in FileMaps /\ TablesFit(n) /\ AnswersAlike(m, n) /\ LightsAlike(m, n)
      /\ Len(n.relations) = Len(m.relations)
  BY <1>4, <1>6, ParticipantAdded
<1> HIDE DEF n
<1>8. /\ map' \in FileMaps /\ TablesFit(map') /\ AnswersAlike(n, map') /\ LightsAlike(n, map')
      /\ map'.relations = n.relations
  BY <1>2, <1>5, <1>7, ZoneAdded
<1>9. AnswersAlike(map, map') /\ LightsAlike(map, map')
  <2>1. AnswersAlike(map, n) /\ LightsAlike(map, n)
    BY <1>6, <1>7 DEF AnswersAlike, LightsAlike
  <2> QED
    BY <1>8, <2>1 DEF AnswersAlike, LightsAlike
<1>10. /\ element' \in ElementsUnderWay /\ element'.relation = r
       /\ element'.type = element.type /\ element'.id = element.id
  <2>1. element.participants \in Seq(Participants) /\ Append(element.participants, p) \in Seq(Participants)
    BY <1>3, <1>4 DEF ElementsUnderWay
  <2> QED
    BY <1>3, <1>5, <1>6, <2>1 DEF ElementsUnderWay
<1>11. FileForm'
  BY <1>2, <1>8, <1>10 DEF TablesInv, FileForm
<1>12. ElementForm'
  BY <1>2, <1>6, <1>7, <1>8, <1>10 DEF TablesInv, ElementForm
<1> QED
  BY <1>8, <1>9, <1>11, <1>12 DEF TablesInv, TablesFit

LEMMA ParseAppliesToTables ==
  ASSUME TablesInv, File!ParseAppliesTo
  PROVE  /\ TablesInv' /\ AnswersAlike(map, map')
         /\ \E lane \in LaneRefs :
              /\ element' = [element EXCEPT !.appliesTo = Append(@, lane)]
              /\ LET at == File!IndexOf(map.lanelets, lane)
                 IN  \A k \in 1..Len(map.lanelets) :
                       map'.lanelets[k].light =
                         IF element.type = "traffic_light" /\ k = at /\ element.id # NoId
                         THEN element.id ELSE map.lanelets[k].light
<1>1. PICK lane \in LaneRefs :
       /\ map' = CASE element.type = "traffic_light" -> File!WithLight(map, lane, element.id)
                   [] element.type = "conflict_zone" /\ element.participants = <<>> ->
                        File!WithLaneZone(map, lane, element.id)
                   [] OTHER -> map
       /\ element' = [element EXCEPT !.appliesTo = Append(@, lane)]
  BY DEF File!ParseAppliesTo
<1> DEFINE at == File!IndexOf(map.lanelets, lane)
<1>2. /\ element # File!NoElement /\ phase' = phase /\ document' = document
  BY DEF File!ParseAppliesTo
<1>3. /\ map \in FileMaps /\ TablesFit(map) /\ element \in ElementsUnderWay
      /\ element.relation <= Len(map.relations)
      /\ element.type \in {"conflict_zone", "traffic_light"}
      /\ element.type = "conflict_zone" => element.id \in ZoneRefs
      /\ element.type = "traffic_light" => element.id \in LightRefs
  BY <1>2 DEF TablesInv, FileForm, ElementForm, ElementsUnderWay, ElementTypes
<1>4. /\ map' \in FileMaps /\ TablesFit(map') /\ AnswersAlike(map, map')
      /\ map'.relations = map.relations
      /\ \A k \in 1..Len(map.lanelets) :
           map'.lanelets[k].light =
             IF element.type = "traffic_light" /\ k = at /\ element.id # NoId
             THEN element.id ELSE map.lanelets[k].light
  <2>1. CASE element.type = "traffic_light"
    <3>1. map' = File!WithLight(map, lane, element.id)
      BY <1>1, <2>1
    <3>2. element.id \in LightRefs
      BY <1>3, <2>1
    <3>3. LET n == File!WithLight(map, lane, element.id)
          IN  /\ n \in FileMaps /\ TablesFit(n) /\ AnswersAlike(map, n)
              /\ n.relations = map.relations
              /\ \A k \in 1..Len(map.lanelets) :
                   n.lanelets[k].light = IF k = at /\ element.id # NoId THEN element.id
                                         ELSE map.lanelets[k].light
      BY <1>3, <3>2, LightSet
    <3> HIDE DEF at
    <3> QED
      BY <2>1, <3>1, <3>3
  <2>2. CASE element.type = "conflict_zone" /\ element.participants = <<>>
    <3>1. map' = File!WithLaneZone(map, lane, element.id)
      BY <1>1, <2>2
    <3>2. /\ map' \in FileMaps /\ TablesFit(map') /\ AnswersAlike(map, map')
          /\ LightsAlike(map, map') /\ map'.relations = map.relations
      BY <1>3, <2>2, <3>1, ZoneAdded
    <3> QED
      BY <2>2, <3>2 DEF LightsAlike
  <2>3. CASE element.type = "conflict_zone" /\ element.participants # <<>>
    <3>1. map' = map
      BY <1>1, <2>3
    <3> QED
      BY <1>3, <2>3, <3>1 DEF AnswersAlike
  <2> QED
    BY <1>3, <2>1, <2>2, <2>3
<1>5. /\ element' \in ElementsUnderWay /\ element'.relation = element.relation
      /\ element'.type = element.type /\ element'.id = element.id
  <2>1. element.appliesTo \in Seq(LaneRefs) /\ Append(element.appliesTo, lane) \in Seq(LaneRefs)
    BY <1>3 DEF ElementsUnderWay
  <2> QED
    BY <1>1, <1>3, <2>1 DEF ElementsUnderWay
<1>6. FileForm'
  BY <1>2, <1>4, <1>5 DEF TablesInv, FileForm
<1>7. ElementForm'
  BY <1>2, <1>3, <1>4, <1>5 DEF TablesInv, ElementForm
<1> QED
  BY <1>1, <1>4, <1>6, <1>7 DEF TablesInv, TablesFit

LEMMA EndElementTables ==
  ASSUME TablesInv, File!EndElement
  PROVE  TablesInv'
<1>1. /\ element # File!NoElement /\ element' = File!NoElement /\ map' = map /\ phase' = phase
      /\ document' = [document EXCEPT !.elements = Append(@, File!Read(element))]
  BY DEF File!EndElement
<1>2. File!Read(element) \in ElementsRead
  BY DEF TablesInv, FileForm, File!Read, ElementsUnderWay, ElementsRead
<1>3. document' \in [areas : Seq(AreaTags), lanelets : Seq(LaneletTags),
                     elements : Seq(ElementsRead)]
  <2>1. Append(document.elements, File!Read(element)) \in Seq(ElementsRead)
    BY <1>2 DEF TablesInv, FileForm
  <2> QED
    BY <1>1, <2>1 DEF TablesInv, FileForm
<1>4. element' \in ElementsUnderWay
  BY <1>1 DEF File!NoElement, ElementsUnderWay, ElementTypes, ElementIds
<1>5. phase = "regulatory"
  BY <1>1 DEF TablesInv, ElementForm
<1>6. Len(map.relations) \in Nat
  BY DEF TablesInv, FileForm, FileMaps
<1>7. FileForm'
  BY <1>1, <1>3, <1>4 DEF TablesInv, FileForm
<1>8. ElementForm'
  BY <1>1, <1>5, <1>6 DEF ElementForm, File!NoElement
<1> QED
  BY <1>1, <1>7, <1>8 DEF TablesInv, TablesFit

-----------------------------------------------------------------------------
(***************************************************************************)
(* What the map has kept of the file.  Of the areas and the lanelets the   *)
(* first ones; of the centre the last one.  The light of a lane is that of *)
(* the element under way, if this names the lane, and else that of the     *)
(* last element before which does; a lanelet that repeats an id gets none. *)
(***************************************************************************)
AreasKept ==
  /\ Len(map.areas) = IF Len(document.areas) < MaxAreas THEN Len(document.areas) ELSE MaxAreas
  /\ \A k \in 1..Len(map.areas) : map.areas[k] = document.areas[k]

CenterKept ==
  \/ /\ map.center = NoId
     /\ \A k \in 1..Len(document.areas) : document.areas[k].type # "intersection_center"
  \/ \E k \in 1..Len(document.areas) :
       /\ document.areas[k].type = "intersection_center"
       /\ map.center = document.areas[k].id
       /\ \A j \in 1..Len(document.areas) :
            j > k => document.areas[j].type # "intersection_center"

LaneletsKept ==
  /\ Len(map.lanelets) = IF Len(document.lanelets) < MaxLanelets THEN Len(document.lanelets)
                         ELSE MaxLanelets
  /\ \A k \in 1..Len(map.lanelets) :
       /\ map.lanelets[k].id = document.lanelets[k].id
       /\ map.lanelets[k].cells = document.lanelets[k].cells
       /\ map.lanelets[k].maneuver = document.lanelets[k].maneuver
       /\ map.lanelets[k].unprotected = document.lanelets[k].unprotected

NamesLight(e, lane) ==
  e.type = "traffic_light" /\ e.id # NoId /\ File!Contains(e.appliesTo, lane)

Naming(lane) ==
  {j \in 1..Len(document.elements) : NamesLight(document.elements[j], lane)}

FirstOfItsId(k) ==
  \A j \in 1..Len(map.lanelets) : map.lanelets[j].id = map.lanelets[k].id => k <= j

LightFollows(k) ==
  LET lane == map.lanelets[k].id
      light == map.lanelets[k].light
  IN  /\ NamesLight(element, lane) => light = element.id
      /\ ~NamesLight(element, lane) /\ Naming(lane) = {} => light = document.lanelets[k].light
      /\ ~NamesLight(element, lane) =>
           \A j \in Naming(lane) :
             (\A other \in Naming(lane) : other <= j) => light = document.elements[j].id

LightsKept == \A k \in 1..Len(map.lanelets) : FirstOfItsId(k) => LightFollows(k)

FileInv == TablesInv /\ AreasKept /\ CenterKept /\ LaneletsKept /\ LightsKept

-----------------------------------------------------------------------------
LEMMA ParseAreaKeeps ==
  ASSUME FileInv, File!ParseArea
  PROVE  FileInv'
<1>1. PICK area \in AreaTags :
        /\ map' = File!StoreArea(map, area)
        /\ document' = [document EXCEPT !.areas = Append(@, area)]
  BY DEF File!ParseArea
<1>2. /\ map'.areas = File!Capped(map.areas, MaxAreas, area)
      /\ map'.center = IF area.type = "intersection_center" THEN area.id ELSE map.center
      /\ map'.lanelets = map.lanelets
  BY <1>1, AreaStored DEF FileInv, TablesInv, FileForm
<1>3. /\ map.areas \in Seq(AreaTags) /\ document.areas \in Seq(AreaTags)
      /\ Len(map.areas) \in Nat /\ Len(document.areas) \in Nat /\ MaxAreas \in Nat
  BY FileAssumption DEF FileInv, TablesInv, FileForm, FileMaps
<1>4. /\ document'.areas = Append(document.areas, area)
      /\ document'.lanelets = document.lanelets /\ document'.elements = document.elements
      /\ element' = element
  BY <1>1 DEF FileInv, TablesInv, FileForm, File!ParseArea
<1>5. /\ Len(document'.areas) = Len(document.areas) + 1
      /\ \A k \in 1..Len(document.areas) : document'.areas[k] = document.areas[k]
      /\ document'.areas[Len(document.areas) + 1] = area
  BY <1>3, <1>4
<1>6. AreasKept'
  <2>1. CASE Len(document.areas) < MaxAreas
    <3>1. Len(map.areas) = Len(document.areas) /\ map'.areas = Append(map.areas, area)
      BY <1>2, <2>1 DEF FileInv, AreasKept, File!Capped
    <3>2. /\ Len(map'.areas) = Len(map.areas) + 1
          /\ \A k \in 1..Len(map.areas) : map'.areas[k] = map.areas[k]
          /\ map'.areas[Len(map.areas) + 1] = area
      BY <1>3, <3>1
    <3>3. ASSUME NEW k \in 1..Len(map'.areas)
          PROVE  map'.areas[k] = document'.areas[k]
      <4>1. CASE k \in 1..Len(map.areas)
        BY <1>5, <3>1, <3>2, <4>1 DEF FileInv, AreasKept
      <4>2. CASE k = Len(map.areas) + 1
        BY <1>5, <3>1, <3>2, <4>2
      <4> QED
        BY <1>3, <3>2, <4>1, <4>2
    <3> QED
      BY <1>3, <1>5, <2>1, <3>1, <3>2, <3>3 DEF AreasKept
  <2>2. CASE ~(Len(document.areas) < MaxAreas)
    <3>1. Len(map.areas) = MaxAreas /\ map'.areas = map.areas
      BY <1>2, <1>3, <2>2 DEF FileInv, AreasKept, File!Capped
    <3> QED
      BY <1>3, <1>5, <2>2, <3>1 DEF FileInv, AreasKept
  <2> QED
    BY <2>1, <2>2
<1>7. CenterKept'
  <2>1. CASE area.type = "intersection_center"
    <3>1. map'.center = area.id
      BY <1>2, <2>1
    <3>2. /\ Len(document'.areas) \in 1..Len(document'.areas)
          /\ document'.areas[Len(document'.areas)] = area
      BY <1>3, <1>5
    <3>3. \A j \in 1..Len(document'.areas) : ~(j > Len(document'.areas))
      BY <1>3, <1>5
    <3> QED
      BY <2>1, <3>1, <3>2, <3>3 DEF CenterKept
  <2>2. CASE area.type # "intersection_center"
    <3>1. map'.center = map.center
      BY <1>2, <2>2
    <3>2. \A j \in 1..Len(document'.areas) :
            j \in 1..Len(document.areas) \/ document'.areas[j].type # "intersection_center"
      BY <1>3, <1>5, <2>2
    <3>3. 1..Len(document.areas) \subseteq 1..Len(document'.areas)
      BY <1>3, <1>5
    <3> QED
      BY <1>5, <3>1, <3>2, <3>3 DEF FileInv, CenterKept
  <2> QED
    BY <2>1, <2>2
<1>8. LaneletsKept' /\ LightsKept'
  BY <1>2, <1>4 DEF FileInv, LaneletsKept, LightsKept, FirstOfItsId, LightFollows, Naming
<1> QED
  BY <1>6, <1>7, <1>8, ParseAreaTables DEF FileInv

LEMMA ParseLaneletKeeps ==
  ASSUME FileInv, File!ParseLanelet
  PROVE  FileInv'
<1>1. PICK tag \in LaneletTags :
        /\ map' = [map EXCEPT !.lanelets = File!Capped(@, MaxLanelets, File!LoadedLanelet(tag))]
        /\ document' = [document EXCEPT !.lanelets = Append(@, tag)]
  BY DEF File!ParseLanelet
<1> DEFINE new == File!LoadedLanelet(tag)
<1>2. /\ map'.lanelets = File!Capped(map.lanelets, MaxLanelets, new)
      /\ map'.areas = map.areas /\ map'.center = map.center
  BY <1>1, LaneletStored DEF FileInv, TablesInv, FileForm
<1>3. /\ map.lanelets \in Seq(LoadedLanelets) /\ document.lanelets \in Seq(LaneletTags)
      /\ Len(map.lanelets) \in Nat /\ Len(document.lanelets) \in Nat /\ MaxLanelets \in Nat
  BY FileAssumption DEF FileInv, TablesInv, FileForm, FileMaps
<1>4. /\ document'.lanelets = Append(document.lanelets, tag)
      /\ document'.areas = document.areas /\ document'.elements = <<>>
      /\ document.elements = <<>> /\ element = File!NoElement /\ element' = File!NoElement
  BY <1>1 DEF FileInv, TablesInv, FileForm, ElementForm, File!ParseLanelet
<1>5. /\ Len(document'.lanelets) = Len(document.lanelets) + 1
      /\ \A k \in 1..Len(document.lanelets) : document'.lanelets[k] = document.lanelets[k]
      /\ document'.lanelets[Len(document.lanelets) + 1] = tag
  BY <1>3, <1>4
<1>6. /\ new.id = tag.id /\ new.cells = tag.cells /\ new.maneuver = tag.maneuver
      /\ new.unprotected = tag.unprotected /\ new.light = tag.light
  BY DEF File!LoadedLanelet
<1> HIDE DEF new
<1>7. AreasKept' /\ CenterKept'
  BY <1>2, <1>4 DEF FileInv, AreasKept, CenterKept
<1>8. /\ \A lane : ~NamesLight(element, lane) /\ ~NamesLight(element', lane)
      /\ \A lane : Naming(lane) = {} /\ Naming(lane)' = {}
  BY <1>4 DEF NamesLight, Naming, File!NoElement
<1>9. CASE Len(document.lanelets) < MaxLanelets
  <2>1. Len(map.lanelets) = Len(document.lanelets) /\ map'.lanelets = Append(map.lanelets, new)
    BY <1>2, <1>9 DEF FileInv, LaneletsKept, File!Capped
  <2>2. /\ Len(map'.lanelets) = Len(map.lanelets) + 1
        /\ \A k \in 1..Len(map.lanelets) : map'.lanelets[k] = map.lanelets[k]
        /\ map'.lanelets[Len(map.lanelets) + 1] = new
    BY <1>3, <2>1
  <2>3. \A k \in 1..Len(map'.lanelets) : k \in 1..Len(map.lanelets) \/ k = Len(map.lanelets) + 1
    BY <1>3, <2>2
  <2>4. LaneletsKept'
    <3>1. ASSUME NEW k \in 1..Len(map'.lanelets)
          PROVE  /\ map'.lanelets[k].id = document'.lanelets[k].id
                 /\ map'.lanelets[k].cells = document'.lanelets[k].cells
                 /\ map'.lanelets[k].maneuver = document'.lanelets[k].maneuver
                 /\ map'.lanelets[k].unprotected = document'.lanelets[k].unprotected
      <4>1. CASE k \in 1..Len(map.lanelets)
        BY <1>5, <2>1, <2>2, <4>1 DEF FileInv, LaneletsKept
      <4>2. CASE k = Len(map.lanelets) + 1
        BY <1>5, <1>6, <2>1, <2>2, <4>2
      <4> QED
        BY <2>3, <4>1, <4>2
    <3> QED
      BY <1>3, <1>5, <1>9, <2>1, <2>2, <3>1 DEF LaneletsKept
  <2>5. LightsKept'
    <3> SUFFICES ASSUME NEW k \in 1..Len(map'.lanelets), FirstOfItsId(k)'
                 PROVE  map'.lanelets[k].light = document'.lanelets[k].light
      BY <1>8 DEF LightsKept, LightFollows
    <3>1. CASE k \in 1..Len(map.lanelets)
      <4>1. FirstOfItsId(k)
        BY <1>3, <2>2, <3>1 DEF FirstOfItsId
      <4>2. map.lanelets[k].light = document.lanelets[k].light
        BY <1>8, <3>1, <4>1 DEF FileInv, LightsKept, LightFollows
      <4> QED
        BY <1>5, <2>1, <2>2, <3>1, <4>2
    <3>2. CASE k = Len(map.lanelets) + 1
      BY <1>5, <1>6, <2>1, <2>2, <3>2
    <3> QED
      BY <2>3, <3>1, <3>2
  <2> QED
    BY <1>7, <2>4, <2>5, ParseLaneletTables DEF FileInv
<1>10. CASE ~(Len(document.lanelets) < MaxLanelets)
  <2>1. Len(map.lanelets) = MaxLanelets /\ map'.lanelets = map.lanelets
    BY <1>2, <1>3, <1>10 DEF FileInv, LaneletsKept, File!Capped
  <2>2. \A k \in 1..Len(map.lanelets) : document'.lanelets[k] = document.lanelets[k]
    BY <1>3, <1>5, <1>10, <2>1
  <2>3. LaneletsKept'
    BY <1>3, <1>5, <1>10, <2>1, <2>2 DEF FileInv, LaneletsKept
  <2>4. LightsKept'
    <3> SUFFICES ASSUME NEW k \in 1..Len(map'.lanelets), FirstOfItsId(k)'
                 PROVE  map'.lanelets[k].light = document'.lanelets[k].light
      BY <1>8 DEF LightsKept, LightFollows
    <3>1. FirstOfItsId(k) /\ k \in 1..Len(map.lanelets)
      BY <2>1 DEF FirstOfItsId
    <3> QED
      BY <1>8, <2>1, <2>2, <3>1 DEF FileInv, LightsKept, LightFollows
  <2> QED
    BY <1>7, <2>3, <2>4, ParseLaneletTables DEF FileInv
<1> QED
  BY <1>9, <1>10

LEMMA EndOfScanKeeps ==
  ASSUME FileInv, File!EndOfScan
  PROVE  FileInv'
<1>1. map' = map /\ document' = document /\ element' = element
  BY DEF File!EndOfScan
<1> QED
  BY <1>1, EndOfScanTables DEF FileInv, AreasKept, CenterKept, LaneletsKept, LightsKept,
     FirstOfItsId, LightFollows, Naming

LEMMA BeginElementKeeps ==
  ASSUME FileInv, File!BeginElement
  PROVE  FileInv'
<1>1. map' = map /\ document' = document /\ element = File!NoElement
  BY DEF File!BeginElement
<1>2. element'.appliesTo = <<>>
  BY DEF File!BeginElement, File!NewElement, File!NoElement
<1>3. \A lane : ~NamesLight(element, lane) /\ ~NamesLight(element', lane)
  BY <1>1, <1>2 DEF NamesLight, File!NoElement, File!Contains
<1>4. LightsKept'
  BY <1>1, <1>3 DEF FileInv, LightsKept, FirstOfItsId, LightFollows, Naming
<1> QED
  BY <1>1, <1>4, BeginElementTables DEF FileInv, AreasKept, CenterKept, LaneletsKept

LEMMA ParseParticipantKeeps ==
  ASSUME FileInv, File!ParseParticipant
  PROVE  FileInv'
<1>1. AnswersAlike(map, map') /\ LightsAlike(map, map') /\ document' = document
  BY ParseParticipantTables DEF FileInv, File!ParseParticipant
<1>2. element.type = "conflict_zone" /\ element'.type = "conflict_zone"
  BY DEF File!ParseParticipant, FileInv, TablesInv, FileForm, ElementsUnderWay
<1>3. \A lane : ~NamesLight(element, lane) /\ ~NamesLight(element', lane)
  BY <1>2 DEF NamesLight
<1>4. AreasKept' /\ CenterKept' /\ LaneletsKept'
  BY <1>1 DEF FileInv, AreasKept, CenterKept, LaneletsKept, AnswersAlike
<1>5. LightsKept'
  <2> SUFFICES ASSUME NEW k \in 1..Len(map'.lanelets), FirstOfItsId(k)'
               PROVE  LightFollows(k)'
    BY DEF LightsKept
  <2>1. k \in 1..Len(map.lanelets) /\ FirstOfItsId(k)
    BY <1>1 DEF AnswersAlike, FirstOfItsId
  <2>2. LightFollows(k)
    BY <2>1 DEF FileInv, LightsKept
  <2>3. map'.lanelets[k].id = map.lanelets[k].id /\ map'.lanelets[k].light = map.lanelets[k].light
    BY <1>1, <2>1 DEF AnswersAlike, LightsAlike
  <2> QED
    BY <1>1, <1>3, <2>2, <2>3 DEF LightFollows, Naming
<1> QED
  BY <1>4, <1>5, ParseParticipantTables DEF FileInv

LEMMA ParseAppliesToKeeps ==
  ASSUME FileInv, File!ParseAppliesTo
  PROVE  FileInv'
<1>1. /\ AnswersAlike(map, map') /\ document' = document /\ TablesInv'
  BY ParseAppliesToTables DEF FileInv, File!ParseAppliesTo
<1>2. PICK lane \in LaneRefs :
        /\ element' = [element EXCEPT !.appliesTo = Append(@, lane)]
        /\ LET at == File!IndexOf(map.lanelets, lane)
           IN  \A k \in 1..Len(map.lanelets) :
                 map'.lanelets[k].light =
                   IF element.type = "traffic_light" /\ k = at /\ element.id # NoId
                   THEN element.id ELSE map.lanelets[k].light
  BY ParseAppliesToTables DEF FileInv
<1> DEFINE at == File!IndexOf(map.lanelets, lane)
<1>3. map.lanelets \in Seq(LoadedLanelets) /\ element.appliesTo \in Seq(LaneRefs)
  BY DEF FileInv, TablesInv, FileForm, FileMaps, ElementsUnderWay
<1>4. /\ element'.type = element.type /\ element'.id = element.id
      /\ element'.appliesTo = Append(element.appliesTo, lane)
  BY <1>2 DEF FileInv, TablesInv, FileForm, ElementsUnderWay
<1>5. \A x : NamesLight(element', x) <=>
        \/ NamesLight(element, x)
        \/ element.type = "traffic_light" /\ element.id # NoId /\ x = lane
  <2>1. \A x : File!Contains(element'.appliesTo, x) <=>
                 File!Contains(element.appliesTo, x) \/ x = lane
    <3>1. /\ Len(element'.appliesTo) = Len(element.appliesTo) + 1 /\ Len(element.appliesTo) \in Nat
          /\ \A k \in 1..Len(element.appliesTo) : element'.appliesTo[k] = element.appliesTo[k]
          /\ element'.appliesTo[Len(element.appliesTo) + 1] = lane
      BY <1>3, <1>4
    <3>2. \A k \in 1..Len(element'.appliesTo) :
            k \in 1..Len(element.appliesTo) \/ k = Len(element.appliesTo) + 1
      BY <3>1
    <3>3. /\ 1..Len(element.appliesTo) \subseteq 1..Len(element'.appliesTo)
          /\ Len(element.appliesTo) + 1 \in 1..Len(element'.appliesTo)
      BY <3>1
    <3> QED
      BY <3>1, <3>2, <3>3 DEF File!Contains
  <2> QED
    BY <1>4, <2>1 DEF NamesLight
<1>6. AreasKept' /\ CenterKept' /\ LaneletsKept'
  BY <1>1 DEF FileInv, AreasKept, CenterKept, LaneletsKept, AnswersAlike
<1>7. LightsKept'
  <2> SUFFICES ASSUME NEW k \in 1..Len(map'.lanelets), FirstOfItsId(k)'
               PROVE  LightFollows(k)'
    BY DEF LightsKept
  <2>1. k \in 1..Len(map.lanelets) /\ FirstOfItsId(k)
    BY <1>1 DEF AnswersAlike, FirstOfItsId
  <2>2. LightFollows(k)
    BY <2>1 DEF FileInv, LightsKept
  <2>3. map'.lanelets[k].id = map.lanelets[k].id
    BY <1>1, <2>1 DEF AnswersAlike
  <2>4. map.lanelets[k].id = lane <=> k = at
    <3>1. /\ at \in 0..Len(map.lanelets)
          /\ at = 0 <=> \A j \in 1..Len(map.lanelets) : map.lanelets[j].id # lane
          /\ at # 0 => /\ map.lanelets[at].id = lane
                       /\ \A j \in 1..Len(map.lanelets) : map.lanelets[j].id = lane => at <= j
      BY <1>3, IndexOfFirst
    <3>2. Len(map.lanelets) \in Nat
      BY <1>3
    <3> HIDE DEF at
    <3> QED
      BY <2>1, <3>1, <3>2 DEF FirstOfItsId
  <2>5. map'.lanelets[k].light =
          IF element.type = "traffic_light" /\ k = at /\ element.id # NoId
          THEN element.id ELSE map.lanelets[k].light
    BY <1>2, <2>1
  <2> HIDE DEF at
  <2>6. CASE element.type = "traffic_light" /\ element.id # NoId /\ k = at
    <3>1. NamesLight(element', map'.lanelets[k].id) /\ map'.lanelets[k].light = element'.id
      BY <1>4, <1>5, <2>3, <2>4, <2>5, <2>6
    <3> QED
      BY <3>1 DEF LightFollows
  <2>7. CASE ~(element.type = "traffic_light" /\ element.id # NoId /\ k = at)
    <3>1. /\ NamesLight(element', map'.lanelets[k].id) <=> NamesLight(element, map.lanelets[k].id)
          /\ map'.lanelets[k].light = map.lanelets[k].light /\ element'.id = element.id
      BY <1>4, <1>5, <2>3, <2>4, <2>5, <2>7
    <3> QED
      BY <1>1, <2>2, <2>3, <3>1 DEF LightFollows, Naming
  <2> QED
    BY <2>6, <2>7
<1> QED
  BY <1>1, <1>6, <1>7 DEF FileInv

LEMMA EndElementKeeps ==
  ASSUME FileInv, File!EndElement
  PROVE  FileInv'
<1>1. /\ element' = File!NoElement /\ map' = map
      /\ document' = [document EXCEPT !.elements = Append(@, File!Read(element))]
  BY DEF File!EndElement
<1> DEFINE e == File!Read(element)
<1>2. document.elements \in Seq(ElementsRead) /\ Len(document.elements) \in Nat
  BY DEF FileInv, TablesInv, FileForm
<1>3. /\ document'.elements = Append(document.elements, e)
      /\ document'.areas = document.areas /\ document'.lanelets = document.lanelets
  BY <1>1 DEF FileInv, TablesInv, FileForm
<1>4. e.type = element.type /\ e.id = element.id /\ e.appliesTo = element.appliesTo
  BY DEF File!Read
<1> HIDE DEF e
<1>5. /\ Len(document'.elements) = Len(document.elements) + 1
      /\ \A k \in 1..Len(document.elements) : document'.elements[k] = document.elements[k]
      /\ document'.elements[Len(document.elements) + 1] = e
  BY <1>2, <1>3
<1>6. \A lane : ~NamesLight(element', lane)
  BY <1>1 DEF NamesLight, File!NoElement
<1>7. \A lane : NamesLight(e, lane) <=> NamesLight(element, lane)
  BY <1>4 DEF NamesLight
<1> DEFINE later(x) ==
      {j \in 1..Len(document'.elements) : NamesLight(document'.elements[j], x)}
<1>8. ASSUME NEW lane
      PROVE  later(lane) = Naming(lane) \cup
               (IF NamesLight(element, lane) THEN {Len(document.elements) + 1} ELSE {})
  <2>1. \A k \in 1..Len(document'.elements) :
          k \in 1..Len(document.elements) \/ k = Len(document.elements) + 1
    BY <1>2, <1>5
  <2>2. /\ 1..Len(document.elements) \subseteq 1..Len(document'.elements)
        /\ Len(document.elements) + 1 \in 1..Len(document'.elements)
    BY <1>2, <1>5
  <2> QED
    BY <1>5, <1>7, <2>1, <2>2 DEF Naming
<1> HIDE DEF later
<1>9. LightsKept'
  <2> SUFFICES ASSUME NEW k \in 1..Len(map'.lanelets), FirstOfItsId(k)'
               PROVE  LightFollows(k)'
    BY DEF LightsKept
  <2> DEFINE lane == map.lanelets[k].id
  <2>0. /\ map'.lanelets[k].id = lane
        /\ LightFollows(k)' <=>
             /\ NamesLight(element', lane) => map'.lanelets[k].light = element'.id
             /\ ~NamesLight(element', lane) /\ later(lane) = {} =>
                  map'.lanelets[k].light = document'.lanelets[k].light
             /\ ~NamesLight(element', lane) =>
                  \A j \in later(lane) :
                    (\A other \in later(lane) : other <= j) =>
                      map'.lanelets[k].light = document'.elements[j].id
    BY <1>1 DEF LightFollows, Naming, later
  <2>1. k \in 1..Len(map.lanelets) /\ FirstOfItsId(k)
    BY <1>1 DEF FirstOfItsId
  <2>2. LightFollows(k)
    BY <2>1 DEF FileInv, LightsKept
  <2>3. \A j \in Naming(lane) : j \in 1..Len(document.elements)
    BY DEF Naming
  <2>4. CASE NamesLight(element, lane)
    <3>1. later(lane) = Naming(lane) \cup {Len(document.elements) + 1}
      BY <1>8, <2>4
    <3>2. map'.lanelets[k].light = e.id
      BY <1>1, <1>4, <2>2, <2>4 DEF LightFollows
    <3>3. ASSUME NEW j \in later(lane), \A other \in later(lane) : other <= j
          PROVE  map'.lanelets[k].light = document'.elements[j].id
      <4>1. j = Len(document.elements) + 1
        <5>1. Len(document.elements) + 1 <= j
          BY <3>1, <3>3
        <5>2. j \in 1..Len(document.elements) \/ j = Len(document.elements) + 1
          BY <2>3, <3>1
        <5> QED
          BY <1>2, <5>1, <5>2
      <4> QED
        BY <1>5, <3>2, <4>1
    <3>4. later(lane) # {}
      BY <3>1
    <3> QED
      BY <1>6, <2>0, <3>3, <3>4
  <2>5. CASE ~NamesLight(element, lane)
    <3>1. later(lane) = Naming(lane)
      BY <1>8, <2>5
    <3> QED
      BY <1>1, <1>3, <1>5, <1>6, <2>0, <2>2, <2>3, <2>5, <3>1 DEF LightFollows
  <2> QED
    BY <2>4, <2>5
<1>10. AreasKept' /\ CenterKept' /\ LaneletsKept'
  BY <1>1, <1>3 DEF FileInv, AreasKept, CenterKept, LaneletsKept
<1> QED
  BY <1>9, <1>10, EndElementTables DEF FileInv

LEMMA FileInvariant == File!Spec => []FileInv
<1>1. File!Init => FileInv
  <2> SUFFICES ASSUME File!Init
               PROVE  FileInv
    OBVIOUS
  <2>1. TablesInv
    BY InitTables
  <2>2. /\ map.areas = <<>> /\ map.lanelets = <<>> /\ map.center = NoId
        /\ document.areas = <<>> /\ document.lanelets = <<>>
    BY DEF File!Init
  <2>3. Len(map.areas) = 0 /\ Len(map.lanelets) = 0 /\ Len(document.areas) = 0
        /\ Len(document.lanelets) = 0
    BY <2>2
  <2>4. AreasKept /\ CenterKept /\ LaneletsKept /\ LightsKept
    BY <2>2, <2>3, FileAssumption DEF AreasKept, CenterKept, LaneletsKept, LightsKept
  <2> QED
    BY <2>1, <2>4 DEF FileInv
<1>2. FileInv /\ [File!Next]_(File!vars) => FileInv'
  <2> SUFFICES ASSUME FileInv, [File!Next]_(File!vars)
               PROVE  FileInv'
    OBVIOUS
  <2>1. CASE File!Next
    BY <2>1, ParseAreaKeeps, ParseLaneletKeeps, EndOfScanKeeps, BeginElementKeeps,
       ParseParticipantKeeps, ParseAppliesToKeeps, EndElementKeeps DEF File!Next
  <2>2. CASE UNCHANGED File!vars
    <3>1. map' = map /\ document' = document /\ element' = element /\ phase' = phase
      BY <2>2 DEF File!vars
    <3>2. TablesInv'
      BY <3>1 DEF FileInv, TablesInv, FileForm, TablesFit, ElementForm
    <3>3. AreasKept' /\ CenterKept' /\ LaneletsKept'
      BY <3>1 DEF FileInv, AreasKept, CenterKept, LaneletsKept
    <3>4. LightsKept'
      <4>1. ASSUME NEW k \in 1..Len(map.lanelets), FirstOfItsId(k)
            PROVE  LightFollows(k)'
        <5>1. LightFollows(k)
          BY <4>1 DEF FileInv, LightsKept
        <5>2. Naming(map.lanelets[k].id)' = Naming(map.lanelets[k].id)
          BY <3>1 DEF Naming
        <5> QED
          BY <3>1, <5>1, <5>2 DEF LightFollows
      <4>2. \A k : FirstOfItsId(k)' <=> FirstOfItsId(k)
        BY <3>1 DEF FirstOfItsId
      <4> QED
        BY <3>1, <4>1, <4>2 DEF LightsKept
    <3> QED
      BY <3>2, <3>3, <3>4 DEF FileInv
  <2> QED
    BY <2>1, <2>2
<1> QED
  BY <1>1, <1>2, PTL DEF File!Spec

-----------------------------------------------------------------------------
(***************************************************************************)
(* What a loaded map answers.                                              *)
(***************************************************************************)
LEMMA TablesAreTyped ==
  ASSUME TablesInv
  PROVE  File!TypeOK
<1>1. /\ map.areas \in Seq(AreaTags) /\ map.zones \in Seq(AreaTags)
      /\ map.lanelets \in Seq(LoadedLanelets) /\ map.relations \in Seq(Relations)
      /\ Len(map.relations) \in Nat /\ element.relation \in Nat
  BY DEF TablesInv, FileForm, FileMaps, ElementsUnderWay
<1>2. File!ToSet(map.areas) \subseteq AreaTags /\ File!ToSet(map.zones) \subseteq AreaTags
  BY <1>1 DEF File!ToSet
<1>3. ASSUME NEW lanelet \in File!ToSet(map.lanelets)
      PROVE  /\ Len(lanelet.zones) <= MaxZonesPerLane
             /\ File!ToSet(lanelet.zones) \subseteq ZoneRefs \ {NoId}
             /\ \A j, n \in DOMAIN lanelet.zones : lanelet.zones[j] = lanelet.zones[n] => j = n
  <2>1. PICK k \in 1..Len(map.lanelets) : lanelet = map.lanelets[k]
    BY <1>1 DEF File!ToSet
  <2>2. LaneZonesFit(lanelet.zones) /\ lanelet.zones \in Seq(ZoneRefs)
    <3>1. LaneZonesFit(map.lanelets[k].zones)
      BY DEF TablesInv, TablesFit
    <3>2. map.lanelets[k] \in LoadedLanelets
      BY <1>1
    <3>3. map.lanelets[k].zones \in Seq(ZoneRefs)
      BY <3>2 DEF LoadedLanelets
    <3> QED
      BY <2>1, <3>1, <3>3
  <2>3. DOMAIN lanelet.zones = 1..Len(lanelet.zones)
    BY <2>2
  <2>4. File!ToSet(lanelet.zones) = {lanelet.zones[n] : n \in 1..Len(lanelet.zones)}
    BY <2>3 DEF File!ToSet
  <2>5. File!ToSet(lanelet.zones) \subseteq ZoneRefs \ {NoId}
    BY <2>2, <2>4 DEF LaneZonesFit
  <2>6. Len(lanelet.zones) <= MaxZonesPerLane
    BY <2>2 DEF LaneZonesFit
  <2>7. \A j, n \in DOMAIN lanelet.zones : lanelet.zones[j] = lanelet.zones[n] => j = n
    BY <2>2, <2>3 DEF LaneZonesFit
  <2> QED
    BY <2>5, <2>6, <2>7
<1>4. ASSUME NEW relation \in File!ToSet(map.relations)
      PROVE  /\ relation.zone \in ZoneRefs \ {NoId}
             /\ Len(relation.participants) <= MaxParticipants
             /\ \A p \in File!ToSet(relation.participants) : p.lane # NoId
  <2>1. PICK k \in 1..Len(map.relations) : relation = map.relations[k]
    BY <1>1 DEF File!ToSet
  <2>2. RelationFits(relation) /\ relation.participants \in Seq(Participants)
    <3>1. RelationFits(map.relations[k])
      BY DEF TablesInv, TablesFit
    <3>2. map.relations[k] \in Relations
      BY <1>1
    <3>3. map.relations[k].participants \in Seq(Participants)
      BY <3>2 DEF Relations
    <3> QED
      BY <2>1, <3>1, <3>3
  <2>3. DOMAIN relation.participants = 1..Len(relation.participants)
    BY <2>2
  <2>4. File!ToSet(relation.participants)
          = {relation.participants[n] : n \in 1..Len(relation.participants)}
    BY <2>3 DEF File!ToSet
  <2>5. \A p \in File!ToSet(relation.participants) : p.lane # NoId
    BY <2>2, <2>4 DEF RelationFits
  <2> QED
    BY <2>2, <2>5 DEF RelationFits
<1>5. element.relation \in 0..Len(map.relations)
  BY <1>1 DEF TablesInv, ElementForm
<1> QED
  BY <1>2, <1>3, <1>4, <1>5 DEF File!TypeOK, TablesInv, TablesFit, FileForm

\* The answer to a position in terms of the centre and of the lane under it.
LEMMA ContextIs ==
  ASSUME NEW p
  PROVE  LET under == File!LaneUnder(map, p)
             lanelet == map.lanelets[File!IndexOf(map.lanelets, map.lanelets[under].id)]
             context == File!VehicleContext(map, p)
         IN  /\ context.center <=> File!InCenter(map, p)
             /\ ~File!InCenter(map, p) =>
                  /\ context.found <=> under # 0
                  /\ under # 0 => context.lane = lanelet.id /\ context.direction = File!Direction(lanelet)
<1> DEFINE under == File!LaneUnder(map, p)
           lanelet == map.lanelets[File!IndexOf(map.lanelets, map.lanelets[under].id)]
           context == File!VehicleContext(map, p)
           answer == File!GetLaneId(map, p)
<1>1. CASE File!InCenter(map, p)
  <2>1. answer.result = "intersection_center"
    BY <1>1 DEF File!GetLaneId
  <2>2. context = [File!NoContext EXCEPT !.center = (answer.result = "intersection_center")]
    BY <2>1 DEF File!VehicleContext
  <2> QED
    BY <1>1, <2>1, <2>2 DEF File!NoContext
<1>2. CASE ~File!InCenter(map, p) /\ under # 0
  <2>1. answer = [result |-> "lane", lane |-> map.lanelets[under].id]
    BY <1>2 DEF File!GetLaneId
  <2>2. context = [found |-> TRUE, center |-> FALSE, lane |-> lanelet.id,
                   direction |-> File!Direction(lanelet), light |-> lanelet.light]
    BY <2>1 DEF File!VehicleContext
  <2> HIDE DEF context, lanelet
  <2>3. /\ context.found /\ ~context.center /\ context.lane = lanelet.id
        /\ context.direction = File!Direction(lanelet)
    BY <2>2
  <2> QED
    BY <1>2, <2>3 DEF context, lanelet
<1>3. CASE ~File!InCenter(map, p) /\ under = 0
  <2>1. answer.result = "not_found"
    BY <1>3 DEF File!GetLaneId
  <2>2. context = [File!NoContext EXCEPT !.center = (answer.result = "intersection_center")]
    BY <2>1 DEF File!VehicleContext
  <2> QED
    BY <1>3, <2>1, <2>2 DEF File!NoContext
<1> QED
  BY <1>1, <1>2, <1>3

LEMMA CenterFollows ==
  ASSUME FileInv
  PROVE  File!CenterIsTheLastDeclared
<1> SUFFICES ASSUME NEW p \in Positions
             PROVE  LET last == File!SelectLastInSeq(document.areas,
                                  LAMBDA a : a.type = "intersection_center")
                        Stored(n) == n <= MaxAreas /\ document.areas[n].id = document.areas[last].id
                    IN  File!VehicleContext(map, p).center <=>
                          /\ last # 0 /\ document.areas[last].id # NoId
                          /\ \E n \in DOMAIN document.areas :
                               /\ Stored(n) /\ \A j \in 1..n - 1 : ~Stored(j)
                               /\ p \in document.areas[n].cells
  BY DEF File!CenterIsTheLastDeclared
<1> DEFINE last == File!SelectLastInSeq(document.areas, LAMBDA a : a.type = "intersection_center")
           I == {k \in 1..Len(document.areas) : document.areas[k].type = "intersection_center"}
           Stored(n) == n <= MaxAreas /\ document.areas[n].id = document.areas[last].id
           IsFirst(n) == /\ Stored(n) /\ \A j \in 1..n - 1 : ~Stored(j)
           at == File!IndexOf(map.areas, map.center)
<1>1. /\ map.areas \in Seq(AreaTags) /\ document.areas \in Seq(AreaTags)
      /\ Len(document.areas) \in Nat /\ MaxAreas \in Nat
  BY FileAssumption DEF FileInv, TablesInv, FileForm, FileMaps
<1>2. /\ Len(map.areas) \in Nat /\ DOMAIN document.areas = 1..Len(document.areas)
      /\ \A k : k \in 1..Len(map.areas) <=> k \in 1..Len(document.areas) /\ k <= MaxAreas
      /\ \A k \in 1..Len(map.areas) : map.areas[k] = document.areas[k]
  BY <1>1 DEF FileInv, AreasKept
<1>3. last = IF I # {} THEN File!Max(I) ELSE 0
  BY DEF File!SelectLastInSeq
<1>4. /\ last \in 0..Len(document.areas) /\ (last = 0 <=> I = {})
      /\ last # 0 => last \in I /\ \A j \in I : last >= j
  <2>1. I \in SUBSET (1..Len(document.areas))
    OBVIOUS
  <2> HIDE DEF I, last
  <2> QED
    BY <1>1, <1>3, <2>1, LastPlace
<1>5. /\ at \in 0..Len(map.areas)
      /\ at = 0 <=> \A j \in 1..Len(map.areas) : map.areas[j].id # map.center
      /\ at # 0 => /\ map.areas[at].id = map.center
                   /\ \A j \in 1..Len(map.areas) : map.areas[j].id = map.center => at <= j
  BY <1>1, IndexOfFirst
<1>6. File!VehicleContext(map, p).center <=>
        map.center # NoId /\ at # 0 /\ p \in map.areas[at].cells
  BY ContextIs DEF File!InCenter
<1> HIDE DEF last, at
<1>7. CASE last = 0
  <2>1. map.center = NoId
    BY <1>4, <1>7 DEF FileInv, CenterKept
  <2> QED
    BY <1>6, <1>7, <2>1 DEF last
<1>8. CASE last # 0
  <2>1. last \in 1..Len(document.areas) /\ last \in I
    BY <1>4, <1>8
  <2>2. map.center = document.areas[last].id
    <3>1. PICK k \in 1..Len(document.areas) :
            /\ document.areas[k].type = "intersection_center"
            /\ map.center = document.areas[k].id
            /\ \A j \in 1..Len(document.areas) :
                 j > k => document.areas[j].type # "intersection_center"
      BY <2>1 DEF FileInv, CenterKept
    <3>2. k = last
      BY <1>1, <1>4, <1>8, <2>1, <3>1
    <3> QED
      BY <3>1, <3>2
  <2>3. \A k \in 1..Len(document.areas) :
          Stored(k) <=> k \in 1..Len(map.areas) /\ map.areas[k].id = map.center
    BY <1>2, <2>2
  <2>4. \A k \in 1..Len(document.areas) : IsFirst(k) <=> at # 0 /\ k = at
    <3> HIDE DEF Stored
    <3>1. ASSUME NEW k \in 1..Len(document.areas), IsFirst(k)
          PROVE  at # 0 /\ k = at
      <4>1. k \in 1..Len(map.areas) /\ map.areas[k].id = map.center
        BY <2>3, <3>1
      <4>2. at \in 1..Len(map.areas) /\ at <= k /\ map.areas[at].id = map.center
        BY <1>2, <1>5, <4>1
      <4>3. at \in 1..Len(document.areas) /\ Stored(at)
        BY <1>2, <2>3, <4>2
      <4>4. at \notin 1..k - 1
        BY <3>1, <4>3
      <4> QED
        BY <1>1, <1>2, <4>2, <4>3, <4>4
    <3>2. ASSUME at # 0
          PROVE  IsFirst(at)
      <4>1. at \in 1..Len(map.areas) /\ at \in 1..Len(document.areas)
        BY <1>2, <1>5, <3>2
      <4>2. Stored(at)
        BY <1>5, <2>3, <3>2, <4>1
      <4>3. ASSUME NEW j \in 1..at - 1, Stored(j)
            PROVE  FALSE
        <5>1. j \in 1..Len(document.areas) /\ j < at
          BY <1>1, <4>1
        <5>2. j \in 1..Len(map.areas) /\ map.areas[j].id = map.center
          BY <2>3, <4>3, <5>1
        <5>3. at <= j
          BY <1>5, <3>2, <5>2
        <5> QED
          BY <1>2, <4>1, <5>1, <5>3
      <4> QED
        BY <4>2, <4>3
    <3> QED
      BY <3>1, <3>2
  <2>5. at # 0 => at \in DOMAIN document.areas /\ map.areas[at] = document.areas[at]
    BY <1>2, <1>5
  <2>6. (\E n \in DOMAIN document.areas : IsFirst(n) /\ p \in document.areas[n].cells)
          <=> at # 0 /\ p \in map.areas[at].cells
    <3> HIDE DEF IsFirst
    <3> QED
      BY <1>2, <2>4, <2>5
  <2> QED
    BY <1>6, <1>8, <2>2, <2>6 DEF last
<1> QED
  BY <1>7, <1>8

LEMMA LaneFollows ==
  ASSUME FileInv
  PROVE  File!ContextIsOfTheLaneUnder
<1> SUFFICES ASSUME File!UniqueIds(document.lanelets), NEW p \in Positions, ~File!InCenter(map, p)
             PROVE  LET context == File!VehicleContext(map, p)
                        first == File!SelectInSeq(document.lanelets, LAMBDA l : p \in l.cells)
                    IN  /\ context.found <=> first \in 1..MaxLanelets
                        /\ context.found =>
                             /\ context.lane = document.lanelets[first].id
                             /\ context.direction = File!Direction(document.lanelets[first])
  BY DEF File!ContextIsOfTheLaneUnder
<1> DEFINE context == File!VehicleContext(map, p)
           first == File!SelectInSeq(document.lanelets, LAMBDA l : p \in l.cells)
           I == {k \in 1..Len(document.lanelets) : p \in document.lanelets[k].cells}
           under == File!LaneUnder(map, p)
           J == {k \in 1..Len(map.lanelets) : p \in map.lanelets[k].cells}
<1>1. /\ map.lanelets \in Seq(LoadedLanelets) /\ document.lanelets \in Seq(LaneletTags)
      /\ Len(map.lanelets) \in Nat /\ Len(document.lanelets) \in Nat /\ MaxLanelets \in Nat
  BY FileAssumption DEF FileInv, TablesInv, FileForm, FileMaps
<1>2. Len(map.lanelets) = IF Len(document.lanelets) < MaxLanelets THEN Len(document.lanelets)
                          ELSE MaxLanelets
  BY DEF FileInv, LaneletsKept
<1>3. /\ Len(map.lanelets) <= Len(document.lanelets) /\ Len(map.lanelets) <= MaxLanelets
      /\ \A k \in 1..Len(document.lanelets) : k <= MaxLanelets <=> k \in 1..Len(map.lanelets)
  BY <1>1, <1>2
<1>4. /\ first \in 0..Len(document.lanelets) /\ (first = 0 <=> I = {})
      /\ first # 0 => first \in I /\ \A j \in I : first <= j
  <2>1. first = IF I # {} THEN File!Min(I) ELSE 0
    BY DEF File!SelectInSeq
  <2>2. I \in SUBSET (1..Len(document.lanelets))
    OBVIOUS
  <2> HIDE DEF I, first
  <2> QED
    BY <1>1, <2>1, <2>2, FirstPlace
<1>5. /\ under \in 0..Len(map.lanelets) /\ (under = 0 <=> J = {})
      /\ under # 0 => under \in J /\ \A j \in J : under <= j
  <2>1. under = IF J # {} THEN File!Min(J) ELSE 0
    BY DEF File!LaneUnder, File!SelectInSeq
  <2>2. J \in SUBSET (1..Len(map.lanelets))
    OBVIOUS
  <2> HIDE DEF J, under
  <2> QED
    BY <1>1, <2>1, <2>2, FirstPlace
<1>6. \A k : k \in J <=> k \in I /\ k \in 1..Len(map.lanelets)
  <2>1. \A k \in 1..Len(map.lanelets) :
          k \in 1..Len(document.lanelets) /\ map.lanelets[k].cells = document.lanelets[k].cells
    BY <1>1, <1>3 DEF FileInv, LaneletsKept
  <2> QED
    BY <2>1
<1> DEFINE lanelet == map.lanelets[File!IndexOf(map.lanelets, map.lanelets[under].id)]
<1>7. /\ context.found <=> under # 0
      /\ under # 0 => context.lane = lanelet.id /\ context.direction = File!Direction(lanelet)
  BY ContextIs
<1>8. I \subseteq 1..Len(document.lanelets)
  OBVIOUS
<1> HIDE DEF I, J, first, under, context
<1>9. under # 0 <=> first \in 1..MaxLanelets
  <2>1. ASSUME under # 0
        PROVE  first \in 1..MaxLanelets
    <3>1. under \in I /\ under \in 1..Len(map.lanelets)
      BY <1>5, <1>6, <2>1
    <3>2. first # 0 /\ first <= under
      BY <1>4, <3>1
    <3> QED
      BY <1>1, <1>3, <1>4, <3>1, <3>2
  <2>2. ASSUME first \in 1..MaxLanelets
        PROVE  under # 0
    <3>1. first \in I /\ first \in 1..Len(document.lanelets)
      BY <1>4, <1>8, <2>2
    <3>2. first \in 1..Len(map.lanelets)
      BY <1>3, <2>2, <3>1
    <3> QED
      BY <1>5, <1>6, <3>1, <3>2
  <2> QED
    BY <2>1, <2>2
<1>10. ASSUME under # 0
       PROVE  under = first /\ under \in 1..Len(map.lanelets)
  <2>1. under \in I /\ under \in 1..Len(map.lanelets)
    BY <1>5, <1>6, <1>10
  <2>2. first # 0 /\ first \in I /\ first <= under
    BY <1>4, <2>1
  <2>3. first \in 1..Len(map.lanelets)
    BY <1>1, <1>4, <2>1, <2>2
  <2>4. first \in J
    BY <1>6, <2>2, <2>3
  <2>5. under <= first
    BY <1>5, <1>10, <2>4
  <2> QED
    BY <1>1, <2>1, <2>2, <2>3, <2>5
<1>11. ASSUME under # 0
       PROVE  File!IndexOf(map.lanelets, map.lanelets[under].id) = under
  <2> DEFINE at == File!IndexOf(map.lanelets, map.lanelets[under].id)
  <2>1. under \in 1..Len(map.lanelets)
    BY <1>10, <1>11
  <2>2. /\ at \in 0..Len(map.lanelets)
        /\ at = 0 <=> \A j \in 1..Len(map.lanelets) : map.lanelets[j].id # map.lanelets[under].id
        /\ at # 0 => map.lanelets[at].id = map.lanelets[under].id
    BY <1>1, IndexOfFirst
  <2> HIDE DEF at
  <2>3. at \in 1..Len(map.lanelets) /\ map.lanelets[at].id = map.lanelets[under].id
    BY <1>1, <2>1, <2>2
  <2>4. document.lanelets[at].id = document.lanelets[under].id
    BY <2>1, <2>3 DEF FileInv, LaneletsKept
  <2>5. at \in DOMAIN document.lanelets /\ under \in DOMAIN document.lanelets
    BY <1>1, <1>3, <2>1, <2>3
  <2> QED
    BY <2>4, <2>5 DEF File!UniqueIds, at
<1>12. ASSUME under # 0
       PROVE  /\ context.lane = document.lanelets[first].id
              /\ context.direction = File!Direction(document.lanelets[first])
  <2>1. under = first /\ under \in 1..Len(map.lanelets)
    BY <1>10, <1>12
  <2>2. lanelet = map.lanelets[under]
    BY <1>11, <1>12
  <2>3. /\ map.lanelets[under].id = document.lanelets[first].id
        /\ map.lanelets[under].maneuver = document.lanelets[first].maneuver
        /\ map.lanelets[under].unprotected = document.lanelets[first].unprotected
    BY <2>1 DEF FileInv, LaneletsKept
  <2>4. File!Direction(map.lanelets[under]) = File!Direction(document.lanelets[first])
    BY <2>3 DEF File!Direction
  <2> QED
    BY <1>7, <1>12, <2>2, <2>3, <2>4
<1> QED
  BY <1>7, <1>9, <1>12 DEF context, first

LEMMA LightFollowsFile ==
  ASSUME FileInv
  PROVE  File!LightIsTheLastDeclared
<1> SUFFICES ASSUME phase = "loaded", NEW lane \in LaneRefs,
                    File!IndexOf(map.lanelets, lane) # 0
             PROVE  LET at == File!IndexOf(map.lanelets, lane)
                        last == File!SelectLastInSeq(document.elements, LAMBDA e :
                                  e.type = "traffic_light" /\ e.id # NoId
                                    /\ File!Contains(e.appliesTo, lane))
                    IN  map.lanelets[at].light =
                          IF last = 0 THEN document.lanelets[at].light
                          ELSE document.elements[last].id
  BY DEF File!LightIsTheLastDeclared
<1> DEFINE at == File!IndexOf(map.lanelets, lane)
           last == File!SelectLastInSeq(document.elements, LAMBDA e :
                     e.type = "traffic_light" /\ e.id # NoId /\ File!Contains(e.appliesTo, lane))
           I == Naming(lane)
<1>1. map.lanelets \in Seq(LoadedLanelets) /\ Len(document.elements) \in Nat
  BY DEF FileInv, TablesInv, FileForm, FileMaps
<1>2. /\ at \in 1..Len(map.lanelets) /\ map.lanelets[at].id = lane
      /\ \A j \in 1..Len(map.lanelets) : map.lanelets[j].id = lane => at <= j
  <2>1. Len(map.lanelets) \in Nat
    BY <1>1
  <2> QED
    BY <1>1, <2>1, IndexOfFirst
<1>3. /\ last \in 0..Len(document.elements) /\ (last = 0 <=> I = {})
      /\ last # 0 => last \in I /\ \A j \in I : last >= j
  <2>1. last = IF I # {} THEN File!Max(I) ELSE 0
    BY DEF File!SelectLastInSeq, Naming, NamesLight
  <2>2. I \in SUBSET (1..Len(document.elements))
    BY DEF Naming
  <2> HIDE DEF I, last
  <2> QED
    BY <1>1, <2>1, <2>2, LastPlace
<1>4. ~NamesLight(element, lane)
  <2>1. element.type = "none"
    BY DEF FileInv, TablesInv, FileForm, ElementForm
  <2> QED
    BY <2>1 DEF NamesLight
<1> HIDE DEF at, last
<1>5. LightFollows(at)
  BY <1>2 DEF FileInv, LightsKept, FirstOfItsId
<1>6. CASE last = 0
  BY <1>2, <1>3, <1>4, <1>5, <1>6 DEF LightFollows, at, last
<1>7. CASE last # 0
  <2>1. last \in Naming(lane) /\ \A j \in Naming(lane) : j <= last
    <3>1. \A j \in Naming(lane) : j \in Nat
      BY DEF Naming
    <3> QED
      BY <1>1, <1>3, <1>7, <3>1
  <2>2. map.lanelets[at].light = document.elements[last].id
    BY <1>2, <1>4, <1>5, <2>1 DEF LightFollows
  <2> QED
    BY <1>7, <2>2 DEF at, last
<1> QED
  BY <1>6, <1>7

\* What a position is told is what the file declares, for every file, every map size
\* and every place the tables overflow at: see ContextFollowsTheFile.
THEOREM ContextCorrect == File!Spec => []ContextFollowsTheFile
<1>1. FileInv => ContextFollowsTheFile
  BY TablesAreTyped, CenterFollows, LaneFollows, LightFollowsFile DEF ContextFollowsTheFile, FileInv
<1> QED
  BY <1>1, FileInvariant, PTL

-----------------------------------------------------------------------------
(***************************************************************************)
(* The zones of a movement.  The query is a recursion over the relations; the *)
(* steps of a recursive function are followed up to the least one that would *)
(* be wrong.                                                               *)
(***************************************************************************)

\* The answer is the last of those out in the first n relations.
AsFound(out, m, lane, movement, max, n) ==
  CASE n = 0 -> <<>>
    [] n > 0 /\ Len(out[n - 1]) < max
         /\ File!Crosses(m.relations[n], lane, movement)
         /\ ~File!Contains(out[n - 1], m.relations[n].zone) ->
           Append(out[n - 1], m.relations[n].zone)
    [] OTHER -> out[n - 1]

\* What is found in the first n relations, for each n, is a function.
LEMMA FoundExists ==
  ASSUME NEW m, NEW lane, NEW movement, NEW max, NEW last \in Nat
  PROVE  \E out : out = [n \in 0..last |-> AsFound(out, m, lane, movement, max, n)]
<1> DEFINE Exists(l) == \E f : f = [n \in 0..l |-> AsFound(f, m, lane, movement, max, n)]
           Lacking == {l \in Nat : ~Exists(l)}
<1>1. SUFFICES ASSUME Lacking # {}
               PROVE  FALSE
  OBVIOUS
<1>2. PICK least \in Lacking : \A l \in Lacking : least <= l
  <2>1. Lacking \in SUBSET Nat
    OBVIOUS
  <2> HIDE DEF Lacking
  <2> QED
    BY <1>1, <2>1, MinimumOf
<1>3. CASE least = 0
  <2> DEFINE f == [n \in 0..0 |-> <<>>]
  <2>1. f = [n \in 0..0 |-> AsFound(f, m, lane, movement, max, n)]
    BY DEF AsFound
  <2> QED
    BY <1>2, <1>3, <2>1
<1>4. CASE least # 0
  <2>1. least \in Nat /\ least - 1 \in Nat /\ Exists(least - 1)
    BY <1>2, <1>4
  <2>2. PICK f : f = [n \in 0..least - 1 |-> AsFound(f, m, lane, movement, max, n)]
    BY <2>1
  <2> DEFINE g == [n \in 0..least |-> IF n = least THEN AsFound(f, m, lane, movement, max, n)
                                      ELSE f[n]]
  <2>3. ASSUME NEW n \in 0..least
        PROVE  g[n] = AsFound(g, m, lane, movement, max, n)
    <3>1. n = 0 \/ (n - 1 \in 0..least - 1 /\ g[n - 1] = f[n - 1])
      BY <2>1
    <3>2. AsFound(g, m, lane, movement, max, n) = AsFound(f, m, lane, movement, max, n)
      BY <3>1 DEF AsFound
    <3>3. n # least => n \in 0..least - 1
      BY <2>1
    <3>4. n # least => f[n] = AsFound(f, m, lane, movement, max, n)
      BY <2>2, <3>3
    <3> QED
      BY <3>2, <3>4
  <2>4. g = [n \in 0..least |-> AsFound(g, m, lane, movement, max, n)]
    BY <2>3
  <2> QED
    BY <1>2, <2>4
<1> QED
  BY <1>3, <1>4

LEMMA FoundSteps ==
  ASSUME NEW m, m.relations \in Seq(Relations), NEW lane, NEW movement, NEW max \in Nat
  PROVE  \E out :
           /\ File!ZonesForMovement(m, lane, movement, max) = out[Len(m.relations)]
           /\ out[0] = <<>>
           /\ \A n \in 1..Len(m.relations) :
                out[n] = AsFound(out, m, lane, movement, max, n)
<1> DEFINE last == Len(m.relations)
           out == CHOOSE f : f = [n \in 0..last |-> AsFound(f, m, lane, movement, max, n)]
<1>1. last \in Nat
  OBVIOUS
<1> HIDE DEF last
<1>2. out = [n \in 0..last |-> AsFound(out, m, lane, movement, max, n)]
  BY <1>1, FoundExists
<1>3. File!ZonesForMovement(m, lane, movement, max) = out[Len(m.relations)]
  BY DEF File!ZonesForMovement, AsFound, last
<1> HIDE DEF out
<1>4. \A n \in 0..last : out[n] = AsFound(out, m, lane, movement, max, n)
  BY <1>2
<1>5. out[0] = <<>>
  BY <1>1, <1>4 DEF AsFound
<1> QED
  BY <1>1, <1>3, <1>4, <1>5 DEF last

\* What an answer made of the first n relations is: zones that the movement crosses in
\* these, none twice, each after those of the relations before, and all if there is room.
AnswerMade(out, n, m, lane, movement, max) ==
  /\ out \in Seq(ZoneRefs) /\ Len(out) <= max
  /\ \A j, k \in 1..Len(out) : out[j] = out[k] => j = k
  /\ \A k \in 1..Len(out) : \E r \in 1..n :
       /\ File!Crosses(m.relations[r], lane, movement) /\ m.relations[r].zone = out[k]
       /\ \A q \in 1..r - 1 : File!Crosses(m.relations[q], lane, movement) =>
            \E j \in 1..k - 1 : out[j] = m.relations[q].zone
  /\ Len(out) < max => \A r \in 1..n : File!Crosses(m.relations[r], lane, movement) =>
       \E k \in 1..Len(out) : out[k] = m.relations[r].zone

\* One more relation leaves an answer what it is.
LEMMA AnswerGrows ==
  ASSUME NEW m, m.relations \in Seq(Relations), NEW lane, NEW movement, NEW max \in Nat,
         NEW n \in 1..Len(m.relations), NEW old, AnswerMade(old, n - 1, m, lane, movement, max),
         NEW new,
         \/ /\ Len(old) < max /\ File!Crosses(m.relations[n], lane, movement)
            /\ ~File!Contains(old, m.relations[n].zone)
            /\ new = Append(old, m.relations[n].zone)
         \/ /\ ~(/\ Len(old) < max /\ File!Crosses(m.relations[n], lane, movement)
                 /\ ~File!Contains(old, m.relations[n].zone))
            /\ new = old
  PROVE  AnswerMade(new, n, m, lane, movement, max)
<1>1. /\ old \in Seq(ZoneRefs) /\ Len(old) \in Nat /\ Len(old) <= max
      /\ n \in Nat /\ n - 1 \in Nat /\ 1..n - 1 \subseteq 1..n
      /\ \A r \in 1..n : r \in 1..n - 1 \/ r = n
      /\ m.relations[n].zone \in ZoneRefs
  <2>1. m.relations[n] \in Relations /\ Len(m.relations) \in Nat
    OBVIOUS
  <2> QED
    BY <2>1 DEF AnswerMade, Relations
<1>2. CASE new = old /\ ~(/\ Len(old) < max /\ File!Crosses(m.relations[n], lane, movement)
                          /\ ~File!Contains(old, m.relations[n].zone))
  <2>1. \A k \in 1..Len(new) : \E r \in 1..n :
          /\ File!Crosses(m.relations[r], lane, movement) /\ m.relations[r].zone = new[k]
          /\ \A q \in 1..r - 1 : File!Crosses(m.relations[q], lane, movement) =>
               \E j \in 1..k - 1 : new[j] = m.relations[q].zone
    BY <1>1, <1>2 DEF AnswerMade
  <2>2. ASSUME Len(new) < max, NEW r \in 1..n, File!Crosses(m.relations[r], lane, movement)
        PROVE  \E k \in 1..Len(new) : new[k] = m.relations[r].zone
    <3>1. CASE r \in 1..n - 1
      BY <1>2, <2>2, <3>1 DEF AnswerMade
    <3>2. CASE r = n
      BY <1>2, <2>2, <3>2 DEF File!Contains
    <3> QED
      BY <1>1, <3>1, <3>2
  <2> QED
    BY <1>2, <2>1, <2>2 DEF AnswerMade
<1>3. CASE /\ Len(old) < max /\ File!Crosses(m.relations[n], lane, movement)
           /\ ~File!Contains(old, m.relations[n].zone)
           /\ new = Append(old, m.relations[n].zone)
  <2>1. /\ new \in Seq(ZoneRefs) /\ Len(new) = Len(old) + 1 /\ Len(new) <= max
        /\ \A k \in 1..Len(old) : new[k] = old[k]
        /\ new[Len(old) + 1] = m.relations[n].zone
    BY <1>1, <1>3
  <2>2. \A k \in 1..Len(old) : old[k] # m.relations[n].zone
    BY <1>3 DEF File!Contains
  <2>3. \A k \in 1..Len(new) : k \in 1..Len(old) \/ k = Len(old) + 1
    BY <1>1, <2>1
  <2>4. \A j, k \in 1..Len(new) : new[j] = new[k] => j = k
    BY <2>1, <2>2, <2>3 DEF AnswerMade
  <2>5. ASSUME NEW k \in 1..Len(new)
        PROVE  \E r \in 1..n :
                 /\ File!Crosses(m.relations[r], lane, movement) /\ m.relations[r].zone = new[k]
                 /\ \A q \in 1..r - 1 : File!Crosses(m.relations[q], lane, movement) =>
                      \E j \in 1..k - 1 : new[j] = m.relations[q].zone
    <3>1. CASE k \in 1..Len(old)
      <4>1. PICK r \in 1..n - 1 :
              /\ File!Crosses(m.relations[r], lane, movement) /\ m.relations[r].zone = old[k]
              /\ \A q \in 1..r - 1 : File!Crosses(m.relations[q], lane, movement) =>
                   \E j \in 1..k - 1 : old[j] = m.relations[q].zone
        BY <3>1 DEF AnswerMade
      <4>2. \A j \in 1..k - 1 : new[j] = old[j]
        <5>1. Len(old) \in Nat
          BY <1>1
        <5>2. \A j \in 1..k - 1 : j \in 1..Len(old)
          BY <3>1, <5>1
        <5> QED
          BY <2>1, <5>2
      <4>3. \A q \in 1..r - 1 : File!Crosses(m.relations[q], lane, movement) =>
              \E j \in 1..k - 1 : new[j] = m.relations[q].zone
        BY <4>1, <4>2
      <4>4. r \in 1..n /\ new[k] = old[k]
        BY <1>1, <2>1, <3>1
      <4> QED
        BY <4>1, <4>3, <4>4
    <3>2. CASE k = Len(old) + 1
      <4>1. ASSUME NEW q \in 1..n - 1, File!Crosses(m.relations[q], lane, movement)
            PROVE  \E j \in 1..k - 1 : new[j] = m.relations[q].zone
        <5>1. PICK j \in 1..Len(old) : old[j] = m.relations[q].zone
          BY <1>3, <4>1 DEF AnswerMade
        <5> QED
          BY <1>1, <2>1, <3>2, <5>1
      <4> QED
        BY <1>1, <1>3, <2>1, <3>2, <4>1
    <3> QED
      BY <2>3, <3>1, <3>2
  <2>6. ASSUME NEW r \in 1..n, File!Crosses(m.relations[r], lane, movement)
        PROVE  \E k \in 1..Len(new) : new[k] = m.relations[r].zone
    <3>1. CASE r \in 1..n - 1
      <4>1. PICK j \in 1..Len(old) : old[j] = m.relations[r].zone
        BY <1>3, <2>6, <3>1 DEF AnswerMade
      <4> QED
        BY <1>1, <2>1, <4>1
    <3>2. CASE r = n
      <4>1. Len(old) + 1 \in 1..Len(new)
        BY <1>1, <2>1
      <4> QED
        BY <2>1, <3>2, <4>1
    <3> QED
      BY <1>1, <3>1, <3>2
  <2> QED
    BY <2>1, <2>4, <2>5, <2>6 DEF AnswerMade
<1> QED
  BY <1>2, <1>3

\* So is every answer, or there were a least n for which it is not.
LEMMA AnswerIsMade ==
  ASSUME NEW m, m.relations \in Seq(Relations), NEW lane, NEW movement, NEW max \in Nat
  PROVE  AnswerMade(File!ZonesForMovement(m, lane, movement, max), Len(m.relations),
                    m, lane, movement, max)
<1>1. PICK out :
        /\ File!ZonesForMovement(m, lane, movement, max) = out[Len(m.relations)]
        /\ out[0] = <<>>
        /\ \A n \in 1..Len(m.relations) : out[n] = AsFound(out, m, lane, movement, max, n)
  BY FoundSteps
<1> DEFINE Made(n) == AnswerMade(out[n], n, m, lane, movement, max)
           Bad == {n \in Nat : n <= Len(m.relations) /\ ~Made(n)}
<1>2. Len(m.relations) \in Nat
  OBVIOUS
<1>3. SUFFICES ASSUME Bad # {}
               PROVE  FALSE
  BY <1>1, <1>2
<1>4. PICK n \in Bad : \A l \in Bad : n <= l
  <2>1. Bad \in SUBSET Nat
    OBVIOUS
  <2> HIDE DEF Bad
  <2> QED
    BY <1>3, <2>1, MinimumOf
<1>5. n # 0
  <2>1. AnswerMade(<<>>, 0, m, lane, movement, max)
    BY DEF AnswerMade
  <2> QED
    BY <1>1, <1>4, <2>1
<1>6. n \in 1..Len(m.relations) /\ n - 1 \in Nat /\ n - 1 <= Len(m.relations) /\ ~(n <= n - 1)
  BY <1>2, <1>4, <1>5
<1>7. Made(n - 1)
  BY <1>4, <1>6
<1>8. out[n] = AsFound(out, m, lane, movement, max, n)
  BY <1>1, <1>6
<1> DEFINE old == out[n - 1]
           grows == /\ Len(old) < max /\ File!Crosses(m.relations[n], lane, movement)
                    /\ ~File!Contains(old, m.relations[n].zone)
<1>9. \/ grows /\ out[n] = Append(old, m.relations[n].zone)
      \/ ~grows /\ out[n] = old
  <2>1. n > 0 /\ n # 0
    BY <1>5, <1>6
  <2> QED
    BY <1>8, <2>1 DEF AsFound
<1>10. Made(n)
  BY <1>6, <1>7, <1>9, AnswerGrows
<1> QED
  BY <1>4, <1>10

-----------------------------------------------------------------------------
(***************************************************************************)
(* The relations of the elements.                                          *)
(***************************************************************************)

\* An element that gets a relation, and its participants that get into that.
Conflicting(e) == e.type = "conflict_zone" /\ e.id # NoId /\ e.participants # <<>>
NamedPlaces(participants) == {k \in 1..Len(participants) : participants[k].lane # NoId}

\* A relation has room for all that its element names, or else for some of them.
Kept(stored, participants) ==
  /\ \A k \in 1..Len(stored) : \E j \in NamedPlaces(participants) : stored[k] = participants[j]
  /\ Len(stored) <= Cardinality(NamedPlaces(participants))
  /\ Cardinality(NamedPlaces(participants)) <= MaxParticipants =>
       \A j \in NamedPlaces(participants) : \E k \in 1..Len(stored) : stored[k] = participants[j]

\* The relations are those of the first conflicting elements, at these places.
RelationsKept(elements, relations, place) ==
  /\ place \in [1..Len(relations) -> 1..Len(elements)]
  /\ \A r, q \in 1..Len(relations) : q < r => place[q] < place[r]
  /\ \A r \in 1..Len(relations) :
       /\ Conflicting(elements[place[r]]) /\ relations[r].zone = elements[place[r]].id
       /\ Kept(relations[r].participants, elements[place[r]].participants)
  /\ \A n \in 1..Len(elements) : Conflicting(elements[n]) =>
       \/ \E r \in 1..Len(relations) : place[r] = n
       \/ Len(relations) = MaxRelations /\ \A r \in 1..Len(relations) : place[r] < n

IsCurrent(elements, relations, place, current) ==
  \A r \in 1..Len(relations) : place[r] = Len(elements) <=> r = current

StoredParticipants(stored, p) ==
  IF p.lane = NoId THEN stored ELSE File!Capped(stored, MaxParticipants, p)

LEMMA KeptNothing ==
  Kept(<<>>, <<>>)
<1>1. NamedPlaces(<<>>) = {}
  BY DEF NamedPlaces
<1>2. Cardinality(NamedPlaces(<<>>)) = 0
  BY <1>1, FS_EmptySet
<1> QED
  BY <1>1, <1>2 DEF Kept

LEMMA NamedGrow ==
  ASSUME NEW participants \in Seq(Participants), NEW p \in Participants
  PROVE  /\ NamedPlaces(Append(participants, p)) =
              NamedPlaces(participants) \cup
                (IF p.lane # NoId THEN {Len(participants) + 1} ELSE {})
         /\ Cardinality(NamedPlaces(participants)) \in Nat
         /\ Cardinality(NamedPlaces(Append(participants, p))) =
              Cardinality(NamedPlaces(participants)) + (IF p.lane # NoId THEN 1 ELSE 0)
<1> DEFINE now == Append(participants, p)
<1>1. /\ Len(participants) \in Nat /\ Len(now) = Len(participants) + 1
      /\ \A k \in 1..Len(participants) : now[k] = participants[k]
      /\ now[Len(participants) + 1] = p
  OBVIOUS
<1> HIDE DEF now
<1>2. NamedPlaces(now) =
        NamedPlaces(participants) \cup (IF p.lane # NoId THEN {Len(participants) + 1} ELSE {})
  <2>1. \A k \in 1..Len(now) : k \in 1..Len(participants) \/ k = Len(participants) + 1
    BY <1>1
  <2>2. 1..Len(participants) \subseteq 1..Len(now) /\ Len(participants) + 1 \in 1..Len(now)
    BY <1>1
  <2> QED
    BY <1>1, <2>1, <2>2 DEF NamedPlaces
<1>3. IsFiniteSet(NamedPlaces(participants))
  <2>1. IsFiniteSet(1..Len(participants))
    BY <1>1, FS_Interval
  <2> QED
    BY <2>1, FS_Subset DEF NamedPlaces
<1>4. Cardinality(NamedPlaces(participants)) \in Nat
  BY <1>3, FS_CardinalityType
<1>5. Len(participants) + 1 \notin NamedPlaces(participants)
  BY <1>1 DEF NamedPlaces
<1>6. Cardinality(NamedPlaces(now)) =
        Cardinality(NamedPlaces(participants)) + (IF p.lane # NoId THEN 1 ELSE 0)
  <2>1. CASE p.lane # NoId
    BY <1>2, <1>3, <1>5, <2>1, FS_AddElement
  <2>2. CASE p.lane = NoId
    BY <1>2, <1>4, <2>2
  <2> QED
    BY <2>1, <2>2
<1> QED
  BY <1>2, <1>4, <1>6 DEF now

\* A participant read is kept if it names a lane and there is room.
LEMMA KeptGrows ==
  ASSUME NEW stored \in Seq(Participants), NEW participants \in Seq(Participants),
         NEW p \in Participants, Len(stored) <= MaxParticipants, Kept(stored, participants)
  PROVE  Kept(StoredParticipants(stored, p), Append(participants, p))
<1> DEFINE new == StoredParticipants(stored, p)
           now == Append(participants, p)
           old == NamedPlaces(participants)
<1>1. /\ Len(participants) \in Nat /\ Len(now) = Len(participants) + 1
      /\ \A k \in 1..Len(participants) : now[k] = participants[k]
      /\ now[Len(participants) + 1] = p
  OBVIOUS
<1>2. /\ NamedPlaces(now) = old \cup (IF p.lane # NoId THEN {Len(participants) + 1} ELSE {})
      /\ Cardinality(old) \in Nat
      /\ Cardinality(NamedPlaces(now)) = Cardinality(old) + (IF p.lane # NoId THEN 1 ELSE 0)
  BY NamedGrow
<1>3. old \subseteq 1..Len(participants)
  BY DEF NamedPlaces
<1>4. MaxParticipants \in Nat /\ Len(stored) \in Nat
  BY FileAssumption
<1>5. /\ \A k \in 1..Len(stored) : \E j \in old : stored[k] = participants[j]
      /\ Len(stored) <= Cardinality(old)
      /\ Cardinality(old) <= MaxParticipants =>
           \A j \in old : \E k \in 1..Len(stored) : stored[k] = participants[j]
  BY DEF Kept
<1>6. new = IF p.lane # NoId /\ Len(stored) < MaxParticipants THEN Append(stored, p) ELSE stored
  BY DEF StoredParticipants, File!Capped
<1> HIDE DEF new, now, old
<1>7. CASE p.lane # NoId /\ Len(stored) < MaxParticipants
  <2>1. new = Append(stored, p)
    BY <1>6, <1>7
  <2>2. /\ Len(new) = Len(stored) + 1 /\ \A k \in 1..Len(stored) : new[k] = stored[k]
        /\ new[Len(stored) + 1] = p
    BY <2>1
  <2>3. \A k \in 1..Len(new) : k \in 1..Len(stored) \/ k = Len(stored) + 1
    BY <1>4, <2>2
  <2>4. 1..Len(stored) \subseteq 1..Len(new) /\ Len(stored) + 1 \in 1..Len(new)
    BY <1>4, <2>2
  <2>5. NamedPlaces(now) = old \cup {Len(participants) + 1}
    BY <1>2, <1>7
  <2>6. \A j \in old : now[j] = participants[j]
    BY <1>1, <1>3
  <2>7. \A k \in 1..Len(new) : \E j \in NamedPlaces(now) : new[k] = now[j]
    <3> SUFFICES ASSUME NEW k \in 1..Len(new)
                 PROVE  \E j \in NamedPlaces(now) : new[k] = now[j]
      OBVIOUS
    <3>1. CASE k \in 1..Len(stored)
      BY <1>5, <2>2, <2>5, <2>6, <3>1
    <3>2. CASE k = Len(stored) + 1
      BY <1>1, <2>2, <2>5, <3>2
    <3> QED
      BY <2>3, <3>1, <3>2
  <2>8. ASSUME Cardinality(NamedPlaces(now)) <= MaxParticipants, NEW j \in NamedPlaces(now)
        PROVE  \E k \in 1..Len(new) : new[k] = now[j]
    <3>1. CASE j \in old
      <4>1. Cardinality(old) <= MaxParticipants
        BY <1>2, <1>4, <2>8
      <4>2. PICK k \in 1..Len(stored) : stored[k] = participants[j]
        BY <1>5, <3>1, <4>1
      <4> QED
        BY <2>2, <2>4, <2>6, <3>1, <4>2
    <3>2. CASE j = Len(participants) + 1
      BY <1>1, <2>2, <2>4, <3>2
    <3> QED
      BY <2>5, <2>8, <3>1, <3>2
  <2>9. Len(new) <= Cardinality(NamedPlaces(now))
    BY <1>2, <1>4, <1>5, <1>7, <2>2
  <2> QED
    BY <2>7, <2>8, <2>9 DEF Kept, new, now
<1>8. CASE ~(p.lane # NoId /\ Len(stored) < MaxParticipants)
  <2>1. new = stored
    BY <1>6, <1>8
  <2>2. old \subseteq NamedPlaces(now) /\ \A j \in old : now[j] = participants[j]
    BY <1>1, <1>2, <1>3
  <2>3. \A k \in 1..Len(new) : \E j \in NamedPlaces(now) : new[k] = now[j]
    BY <1>5, <2>1, <2>2
  <2>4. Len(new) <= Cardinality(NamedPlaces(now))
    BY <1>2, <1>4, <1>5, <2>1
  <2>5. ASSUME Cardinality(NamedPlaces(now)) <= MaxParticipants
        PROVE  \A j \in NamedPlaces(now) : \E k \in 1..Len(new) : new[k] = now[j]
    <3>1. p.lane = NoId
      BY <1>2, <1>4, <1>5, <1>8, <2>5
    <3>2. NamedPlaces(now) = old /\ Cardinality(old) <= MaxParticipants
      BY <1>2, <2>5, <3>1
    <3> QED
      BY <1>5, <2>1, <2>2, <3>2
  <2> QED
    BY <2>3, <2>4, <2>5 DEF Kept, new, now
<1> QED
  BY <1>7, <1>8

LEMMA ReadForm ==
  ASSUME NEW e \in ElementsRead
  PROVE  e.participants \in Seq(Participants) /\ e.appliesTo \in Seq(LaneRefs)
BY DEF ElementsRead

LEMMA RelationForm ==
  ASSUME NEW relation \in Relations
  PROVE  relation.participants \in Seq(Participants) /\ relation.zone \in ZoneRefs
BY DEF Relations

LEMMA AppendIsNotEmpty ==
  ASSUME NEW participants \in Seq(Participants), NEW p \in Participants
  PROVE  Append(participants, p) # <<>>
<1>1. Len(Append(participants, p)) = Len(participants) + 1 /\ Len(participants) \in Nat
  OBVIOUS
<1>2. Len(<<>>) = 0
  OBVIOUS
<1> QED
  BY <1>1, <1>2

\* Elements that get no relation leave the relations theirs.
LEMMA ElementsAlike ==
  ASSUME NEW es \in Seq(ElementsRead), NEW fs \in Seq(ElementsRead), NEW relations, NEW place,
         RelationsKept(es, relations, place), Len(relations) \in Nat,
         Len(fs) >= Len(es),
         \A n \in 1..Len(es) :
           /\ fs[n].type = es[n].type /\ fs[n].id = es[n].id
           /\ fs[n].participants = es[n].participants,
         \A n \in 1..Len(fs) : n \notin 1..Len(es) => ~Conflicting(fs[n])
  PROVE  RelationsKept(fs, relations, place)
<1>1. /\ Len(es) \in Nat /\ Len(fs) \in Nat /\ 1..Len(es) \subseteq 1..Len(fs)
      /\ place \in [1..Len(relations) -> 1..Len(es)]
  BY DEF RelationsKept
<1>2. place \in [1..Len(relations) -> 1..Len(fs)]
  BY <1>1
<1>3. \A n \in 1..Len(es) : Conflicting(fs[n]) <=> Conflicting(es[n])
  BY DEF Conflicting
<1>4. ASSUME NEW r \in 1..Len(relations)
      PROVE  /\ Conflicting(fs[place[r]]) /\ relations[r].zone = fs[place[r]].id
             /\ Kept(relations[r].participants, fs[place[r]].participants)
  <2>1. place[r] \in 1..Len(es)
    BY <1>1
  <2> QED
    BY <1>3, <2>1 DEF RelationsKept
<1>5. ASSUME NEW n \in 1..Len(fs), Conflicting(fs[n])
      PROVE  \/ \E r \in 1..Len(relations) : place[r] = n
             \/ Len(relations) = MaxRelations /\ \A r \in 1..Len(relations) : place[r] < n
  <2>1. n \in 1..Len(es) /\ Conflicting(es[n])
    BY <1>3, <1>5
  <2> QED
    BY <2>1 DEF RelationsKept
<1> QED
  BY <1>2, <1>4, <1>5 DEF RelationsKept

\* The three things that a participant does: it finds no relation and no room for one,
LEMMA ParticipantWithoutRelation ==
  ASSUME NEW es \in Seq(ElementsRead), NEW fs \in Seq(ElementsRead),
         NEW relations \in Seq(Relations), NEW place,
         RelationsKept(es, relations, place), Len(fs) = Len(es), Len(es) # 0,
         \A n \in 1..Len(es) - 1 : fs[n] = es[n],
         IsCurrent(es, relations, place, 0),
         Conflicting(fs[Len(es)]) => Len(relations) = MaxRelations
  PROVE  RelationsKept(fs, relations, place) /\ IsCurrent(fs, relations, place, 0)
<1>1. /\ Len(es) \in Nat /\ Len(relations) \in Nat
      /\ place \in [1..Len(relations) -> 1..Len(es)]
  BY DEF RelationsKept
<1>2. \A r \in 1..Len(relations) : place[r] \in 1..Len(es) - 1
  <2> TAKE r \in 1..Len(relations)
  <2>1. place[r] \in 1..Len(es)
    BY <1>1
  <2>2. place[r] # Len(es)
    BY DEF IsCurrent
  <2> QED
    BY <1>1, <2>1, <2>2
<1>3. place \in [1..Len(relations) -> 1..Len(fs)]
  BY <1>1
<1>4. ASSUME NEW r \in 1..Len(relations)
      PROVE  /\ Conflicting(fs[place[r]]) /\ relations[r].zone = fs[place[r]].id
             /\ Kept(relations[r].participants, fs[place[r]].participants)
  <2>1. fs[place[r]] = es[place[r]]
    BY <1>2
  <2> QED
    BY <2>1 DEF RelationsKept
<1>5. ASSUME NEW n \in 1..Len(fs), Conflicting(fs[n])
      PROVE  \/ \E r \in 1..Len(relations) : place[r] = n
             \/ Len(relations) = MaxRelations /\ \A r \in 1..Len(relations) : place[r] < n
  <2>1. CASE n = Len(es)
    <3>1. \A r \in 1..Len(relations) : place[r] < n
      BY <1>1, <1>2, <2>1
    <3> QED
      BY <1>5, <2>1, <3>1
  <2>2. CASE n # Len(es)
    <3>1. n \in 1..Len(es) /\ n \in 1..Len(es) - 1
      BY <1>1, <2>2
    <3>2. Conflicting(es[n])
      BY <1>5, <3>1
    <3> QED
      BY <3>1, <3>2 DEF RelationsKept
  <2> QED
    BY <2>1, <2>2
<1> QED
  BY <1>3, <1>4, <1>5 DEF RelationsKept, IsCurrent

\* it joins the relation that its element has,
LEMMA ParticipantOfRelation ==
  ASSUME NEW es \in Seq(ElementsRead), NEW fs \in Seq(ElementsRead),
         NEW relations \in Seq(Relations), NEW now \in Seq(Relations), NEW place,
         RelationsKept(es, relations, place), Len(fs) = Len(es),
         NEW p \in Participants,
         \A n \in 1..Len(es) - 1 : fs[n] = es[n],
         Len(es) # 0,
         /\ fs[Len(es)].type = es[Len(es)].type /\ fs[Len(es)].id = es[Len(es)].id
         /\ fs[Len(es)].participants = Append(es[Len(es)].participants, p),
         NEW r \in 1..Len(relations), IsCurrent(es, relations, place, r),
         Len(relations[r].participants) <= MaxParticipants,
         Len(now) = Len(relations),
         \A q \in 1..Len(relations) :
           /\ now[q].zone = relations[q].zone
           /\ now[q].participants = IF q = r THEN StoredParticipants(relations[q].participants, p)
                                    ELSE relations[q].participants
  PROVE  RelationsKept(fs, now, place) /\ IsCurrent(fs, now, place, r)
<1> DEFINE last == Len(es)
<1>1. /\ last \in Nat /\ last \in 1..last /\ Len(relations) \in Nat
      /\ place \in [1..Len(relations) -> 1..last] /\ place[r] = last
      /\ \A q \in 1..Len(relations) : place[q] = last <=> q = r
  <2>1. Len(es) \in Nat
    OBVIOUS
  <2> QED
    BY <2>1 DEF RelationsKept, IsCurrent
<1>2. es[last] \in ElementsRead
  BY <1>1
<1>3. Conflicting(es[last]) /\ relations[r].zone = es[last].id
      /\ Kept(relations[r].participants, es[last].participants)
  BY <1>1 DEF RelationsKept
<1>4. es[last].participants \in Seq(Participants) /\ relations[r].participants \in Seq(Participants)
  <2>1. relations[r] \in Relations
    OBVIOUS
  <2> QED
    BY <1>2, <2>1, ReadForm, RelationForm
<1>5. Kept(StoredParticipants(relations[r].participants, p), fs[last].participants)
  BY <1>3, <1>4, KeptGrows
<1>6. Conflicting(fs[last])
  <2>1. Append(es[last].participants, p) # <<>>
    BY <1>4, AppendIsNotEmpty
  <2> QED
    BY <1>3, <2>1 DEF Conflicting
<1>7. ASSUME NEW q \in 1..Len(now)
      PROVE  /\ Conflicting(fs[place[q]]) /\ now[q].zone = fs[place[q]].id
             /\ Kept(now[q].participants, fs[place[q]].participants)
  <2>1. CASE q = r
    BY <1>1, <1>3, <1>5, <1>6, <2>1
  <2>2. CASE q # r
    <3>1. place[q] \in 1..last /\ place[q] # last
      BY <1>1, <2>2
    <3>2. place[q] \in 1..last - 1
      BY <1>1, <3>1
    <3>3. fs[place[q]] = es[place[q]]
      BY <3>2
    <3>4. now[q].zone = relations[q].zone /\ now[q].participants = relations[q].participants
      BY <2>2
    <3> QED
      BY <3>3, <3>4 DEF RelationsKept
  <2> QED
    BY <2>1, <2>2
<1>8. ASSUME NEW n \in 1..Len(fs), Conflicting(fs[n])
      PROVE  \/ \E q \in 1..Len(now) : place[q] = n
             \/ Len(now) = MaxRelations /\ \A q \in 1..Len(now) : place[q] < n
  <2>1. CASE n = last
    BY <1>1, <2>1
  <2>2. CASE n # last
    <3>1. n \in 1..last /\ n \in 1..last - 1
      BY <1>1, <2>2
    <3>2. Conflicting(es[n])
      BY <1>8, <3>1
    <3> QED
      BY <3>1, <3>2 DEF RelationsKept
  <2> QED
    BY <2>1, <2>2
<1> QED
  BY <1>1, <1>7, <1>8 DEF RelationsKept, IsCurrent

\* or it makes one, as the first participant of its element.
LEMMA ParticipantOfNewRelation ==
  ASSUME NEW es \in Seq(ElementsRead), NEW fs \in Seq(ElementsRead),
         NEW relations \in Seq(Relations), NEW now \in Seq(Relations), NEW place,
         RelationsKept(es, relations, place), Len(fs) = Len(es),
         NEW p \in Participants, Len(relations) # MaxRelations,
         \A n \in 1..Len(es) - 1 : fs[n] = es[n],
         Len(es) # 0,
         /\ es[Len(es)].type = "conflict_zone" /\ es[Len(es)].id # NoId
         /\ fs[Len(es)].type = es[Len(es)].type /\ fs[Len(es)].id = es[Len(es)].id
         /\ fs[Len(es)].participants = Append(es[Len(es)].participants, p),
         IsCurrent(es, relations, place, 0),
         now = Append(relations, [zone |-> es[Len(es)].id,
                                  participants |-> StoredParticipants(<<>>, p)])
  PROVE  \E later : /\ RelationsKept(fs, now, later)
                    /\ IsCurrent(fs, now, later, Len(relations) + 1)
<1> DEFINE last == Len(es)
           new == Len(relations) + 1
           later == [q \in 1..new |-> IF q = new THEN last ELSE place[q]]
<1>1. /\ last \in Nat /\ last \in 1..last /\ Len(relations) \in Nat /\ new \in Nat
      /\ place \in [1..Len(relations) -> 1..last]
      /\ \A q \in 1..Len(relations) : place[q] # last
  <2>1. Len(es) \in Nat
    OBVIOUS
  <2>2. \A q \in 1..Len(relations) : q # 0
    OBVIOUS
  <2> QED
    BY <2>1, <2>2 DEF RelationsKept, IsCurrent
<1>2. /\ Len(now) = new /\ \A q \in 1..Len(relations) : now[q] = relations[q]
      /\ now[new].zone = es[last].id /\ now[new].participants = StoredParticipants(<<>>, p)
  OBVIOUS
<1>3. es[last] \in ElementsRead /\ es[last].participants \in Seq(Participants)
  <2>1. es[last] \in ElementsRead
    BY <1>1
  <2> QED
    BY <2>1, ReadForm
<1>4. es[last].participants = <<>>
  <2>1. CASE Conflicting(es[last])
    BY <1>1, <2>1 DEF RelationsKept
  <2>2. CASE ~Conflicting(es[last])
    BY <2>2 DEF Conflicting
  <2> QED
    BY <2>1, <2>2
<1>5. Kept(now[new].participants, fs[last].participants)
  <2>1. fs[last].participants = Append(<<>>, p)
    BY <1>4
  <2>2. <<>> \in Seq(Participants) /\ Len(<<>>) <= MaxParticipants
    BY FileAssumption
  <2>3. Kept(StoredParticipants(<<>>, p), Append(<<>>, p))
    BY <2>2, KeptNothing, KeptGrows
  <2> QED
    BY <1>2, <2>1, <2>3
<1>6. Conflicting(fs[last])
  <2>1. Append(es[last].participants, p) # <<>>
    BY <1>3, AppendIsNotEmpty
  <2> QED
    BY <2>1 DEF Conflicting
<1>7. \A q \in 1..Len(relations) : place[q] \in 1..last - 1
  <2> TAKE q \in 1..Len(relations)
  <2>1. place[q] \in 1..last /\ place[q] # last
    BY <1>1
  <2> QED
    BY <1>1, <2>1
<1>8. \A q \in 1..new : q \in 1..Len(relations) \/ q = new
  BY <1>1
<1>9. /\ 1..Len(relations) \subseteq 1..new /\ new \in 1..new /\ ~(new \in 1..Len(relations))
      /\ \A q \in 1..Len(relations) : q # new
  BY <1>1
<1> HIDE DEF new
<1>10. /\ later[new] = last /\ \A q \in 1..Len(relations) : later[q] = place[q]
       /\ later \in [1..new -> 1..last]
  <2>1. later[new] = last
    BY <1>9
  <2>2. \A q \in 1..Len(relations) : later[q] = place[q]
    BY <1>9
  <2>3. \A q \in 1..new : later[q] \in 1..last
    BY <1>1, <1>8, <2>1, <2>2
  <2>4. later = [q \in 1..new |-> later[q]]
    OBVIOUS
  <2> HIDE DEF later
  <2> QED
    BY <2>1, <2>2, <2>3, <2>4
<1> HIDE DEF later, last
<1>11. ASSUME NEW s \in 1..new, NEW q \in 1..new, q < s
       PROVE  later[q] < later[s]
  <2>1. q \in 1..Len(relations)
    BY <1>1, <1>8, <1>11 DEF new
  <2>2. CASE s = new
    BY <1>1, <1>7, <1>10, <2>1, <2>2
  <2>3. CASE s \in 1..Len(relations)
    BY <1>10, <1>11, <2>1, <2>3 DEF RelationsKept
  <2> QED
    BY <1>8, <2>2, <2>3
<1>12. ASSUME NEW q \in 1..new
       PROVE  /\ Conflicting(fs[later[q]]) /\ now[q].zone = fs[later[q]].id
              /\ Kept(now[q].participants, fs[later[q]].participants)
  <2>1. CASE q = new
    BY <1>2, <1>5, <1>6, <1>10, <2>1 DEF last
  <2>2. CASE q \in 1..Len(relations)
    <3>1. fs[place[q]] = es[place[q]]
      BY <1>7, <2>2 DEF last
    <3> QED
      BY <1>2, <1>10, <2>2, <3>1 DEF RelationsKept
  <2> QED
    BY <1>8, <2>1, <2>2
<1>13. ASSUME NEW n \in 1..Len(fs), Conflicting(fs[n])
       PROVE  \E q \in 1..new : later[q] = n
  <2>1. CASE n = last
    BY <1>9, <1>10, <2>1
  <2>2. CASE n # last
    <3>1. n \in 1..last /\ n \in 1..last - 1
      BY <1>1, <2>2 DEF last
    <3>2. Conflicting(es[n])
      BY <1>13, <3>1 DEF last
    <3>3. PICK q \in 1..Len(relations) : place[q] = n
      BY <3>1, <3>2 DEF RelationsKept, last
    <3> QED
      BY <1>9, <1>10, <3>3
  <2> QED
    BY <2>1, <2>2
<1>14. RelationsKept(fs, now, later)
  <2>1. later \in [1..Len(now) -> 1..Len(fs)]
    BY <1>2, <1>10 DEF last
  <2>2. 1..Len(now) = 1..new
    BY <1>2
  <2> QED
    BY <1>11, <1>12, <1>13, <2>1, <2>2 DEF RelationsKept
<1>15. IsCurrent(fs, now, later, new)
  <2>1. 1..Len(now) = 1..new /\ Len(fs) = last
    BY <1>2 DEF last
  <2>2. ASSUME NEW q \in 1..new
        PROVE  later[q] = last <=> q = new
    BY <1>1, <1>8, <1>9, <1>10
  <2> QED
    BY <2>1, <2>2 DEF IsCurrent
<1> QED
  BY <1>14, <1>15 DEF new

\* These are what RelationFor, WithRelation and WithParticipant do together.
LEMMA ParticipantStored ==
  ASSUME NEW m \in FileMaps, TablesFit(m), NEW e \in ElementsUnderWay,
         e.id \in ZoneRefs, e.relation <= Len(m.relations), NEW p \in Participants
  PROVE  LET r == File!RelationFor(m, e)
             n == File!WithParticipant(File!WithRelation(m, r, e.id), r, p)
         IN  \/ /\ r = 0 /\ e.relation = 0 /\ n.relations = m.relations
                /\ e.id = NoId \/ Len(m.relations) = MaxRelations
             \/ /\ r = e.relation /\ r \in 1..Len(m.relations)
                /\ Len(n.relations) = Len(m.relations)
                /\ \A q \in 1..Len(m.relations) :
                     /\ n.relations[q].zone = m.relations[q].zone
                     /\ n.relations[q].participants =
                          IF q = r THEN StoredParticipants(m.relations[q].participants, p)
                          ELSE m.relations[q].participants
             \/ /\ r = Len(m.relations) + 1 /\ e.relation = 0 /\ e.id # NoId
                /\ Len(m.relations) # MaxRelations
                /\ n.relations = Append(m.relations,
                     [zone |-> e.id, participants |-> StoredParticipants(<<>>, p)])
<1> DEFINE r == File!RelationFor(m, e)
           w == File!WithRelation(m, r, e.id)
           n == File!WithParticipant(w, r, p)
<1>1. /\ m.relations \in Seq(Relations) /\ Len(m.relations) \in Nat
      /\ e.relation \in Nat /\ MaxRelations \in Nat /\ Len(m.relations) <= MaxRelations
  BY FileAssumption DEF FileMaps, ElementsUnderWay, TablesFit
<1>2. CASE e.relation # 0
  <2>1. r = e.relation /\ r \in 1..Len(m.relations)
    BY <1>1, <1>2 DEF File!RelationFor
  <2>2. w = m
    BY <1>1, <2>1 DEF File!WithRelation
  <2> DEFINE old == m.relations[r]
             new == [old EXCEPT !.participants = File!Capped(old.participants, MaxParticipants, p)]
  <2>3. old \in Relations
    BY <1>1, <2>1
  <2>4. new.zone = old.zone
        /\ new.participants = File!Capped(old.participants, MaxParticipants, p)
    BY <2>3 DEF Relations
  <2>5. CASE p.lane = NoId
    BY <2>1, <2>2, <2>5 DEF File!WithParticipant, StoredParticipants
  <2>6. CASE p.lane # NoId
    <3>1. n = [m EXCEPT !.relations = [m.relations EXCEPT ![r] = new]]
      BY <2>1, <2>2, <2>6 DEF File!WithParticipant
    <3>2. n.relations = [m.relations EXCEPT ![r] = new]
      BY <3>1 DEF FileMaps
    <3> HIDE DEF n, new
    <3>3. /\ Len(n.relations) = Len(m.relations) /\ n.relations[r] = new
          /\ \A q \in 1..Len(m.relations) : q # r => n.relations[q] = m.relations[q]
      <4>1. /\ DOMAIN n.relations = 1..Len(m.relations) /\ n.relations \in Seq(Relations \cup {new})
        BY <1>1, <2>1, <3>2
      <4> QED
        BY <1>1, <2>1, <3>2, <4>1
    <3> QED
      BY <2>1, <2>4, <2>6, <3>3 DEF StoredParticipants, n
  <2> QED
    BY <2>5, <2>6
<1>3. CASE e.relation = 0 /\ e.id # NoId /\ Len(m.relations) < MaxRelations
  <2>1. r = Len(m.relations) + 1 /\ r # 0 /\ ~(r <= Len(m.relations))
    BY <1>1, <1>3 DEF File!RelationFor
  <2> DEFINE new == [zone |-> e.id, participants |-> <<>>]
             grown == [new EXCEPT !.participants = File!Capped(<<>>, MaxParticipants, p)]
  <2>2. w = [m EXCEPT !.relations = Append(m.relations, new)]
    BY <2>1 DEF File!WithRelation
  <2>3. w.relations = Append(m.relations, new)
    BY <2>2 DEF FileMaps
  <2>4. new \in Relations
    BY DEF Relations
  <2>5. CASE p.lane = NoId
    <3>1. n = w
      BY <2>5 DEF File!WithParticipant
    <3> QED
      BY <1>1, <1>3, <2>1, <2>3, <2>5, <3>1 DEF StoredParticipants
  <2>6. CASE p.lane # NoId
    <3>1. w.relations[r] = new
      BY <1>1, <2>1, <2>3, <2>4
    <3>2. n = [w EXCEPT !.relations = [w.relations EXCEPT ![r] = grown]]
      <4>1. n = [w EXCEPT !.relations[r].participants = File!Capped(@, MaxParticipants, p)]
        BY <2>1, <2>6 DEF File!WithParticipant
      <4>2. n = [w EXCEPT !.relations = [w.relations EXCEPT ![r] =
                  [w.relations[r] EXCEPT !.participants =
                     File!Capped(w.relations[r].participants, MaxParticipants, p)]]]
        BY <4>1
      <4>3. new.participants = <<>>
        OBVIOUS
      <4> HIDE DEF n, new, w
      <4> QED
        BY <3>1, <4>2, <4>3
    <3>3. n.relations = [w.relations EXCEPT ![r] = grown]
      BY <2>2, <3>2 DEF FileMaps
    <3>4. grown = [zone |-> e.id, participants |-> StoredParticipants(<<>>, p)]
      BY <2>6 DEF StoredParticipants
    <3> HIDE DEF n, w, new, grown
    <3>5. [w.relations EXCEPT ![r] = grown] = Append(m.relations, grown)
      <4>1. grown \in Relations
        <5>1. p \in Participants /\ StoredParticipants(<<>>, p) \in Seq(Participants)
          BY <2>6, FileAssumption DEF StoredParticipants, File!Capped
        <5> QED
          BY <3>4, <5>1 DEF Relations
      <4>2. DOMAIN w.relations = 1..r /\ \A q \in 1..r - 1 : w.relations[q] = m.relations[q]
        BY <1>1, <2>1, <2>3, <2>4
      <4>3. /\ Append(m.relations, grown) \in Seq(Relations)
            /\ Len(Append(m.relations, grown)) = r
            /\ Append(m.relations, grown)[r] = grown
            /\ \A q \in 1..r - 1 : Append(m.relations, grown)[q] = m.relations[q]
        BY <1>1, <2>1, <4>1
      <4> DEFINE s == [w.relations EXCEPT ![r] = grown]
                 t == Append(m.relations, grown)
      <4>4. s = [q \in 1..r |-> s[q]] /\ t = [q \in 1..r |-> t[q]]
        BY <4>2, <4>3
      <4>5. ASSUME NEW q \in 1..r
            PROVE  s[q] = t[q]
        <5>1. q = r \/ q \in 1..r - 1
          BY <1>1, <2>1
        <5> QED
          BY <1>1, <2>1, <4>2, <4>3, <5>1
      <4> HIDE DEF s, t
      <4>6. s = t
        BY <4>4, <4>5
      <4> QED
        BY <4>6 DEF s, t
    <3> QED
      BY <1>1, <1>3, <2>1, <3>3, <3>4, <3>5 DEF n, w
  <2> QED
    BY <2>5, <2>6
<1>4. CASE e.relation = 0 /\ ~(e.id # NoId /\ Len(m.relations) < MaxRelations)
  <2>1. r = 0
    BY <1>4 DEF File!RelationFor
  <2>2. n.relations = m.relations
    BY <1>1, <2>1 DEF File!WithParticipant, File!WithRelation
  <2> QED
    BY <1>1, <1>4, <2>1, <2>2
<1> QED
  BY <1>2, <1>3, <1>4

\* The elements as far as they have been read, with the one under way.
SoFar(file, e) ==
  IF e.type = "none" THEN file.elements ELSE Append(file.elements, File!Read(e))

LEMMA SoFarForm ==
  ASSUME NEW file, file.elements \in Seq(ElementsRead), NEW e \in ElementsUnderWay
  PROVE  /\ SoFar(file, e) \in Seq(ElementsRead)
         /\ e.type # "none" =>
              /\ Len(SoFar(file, e)) = Len(file.elements) + 1 /\ Len(SoFar(file, e)) # 0
              /\ SoFar(file, e)[Len(SoFar(file, e))] = File!Read(e)
              /\ \A n \in 1..Len(SoFar(file, e)) - 1 : SoFar(file, e)[n] = file.elements[n]
<1>1. File!Read(e) \in ElementsRead
  BY DEF File!Read, ElementsUnderWay, ElementsRead
<1>2. CASE e.type = "none"
  BY <1>2 DEF SoFar
<1>3. CASE e.type # "none"
  <2>1. SoFar(file, e) = Append(file.elements, File!Read(e))
    BY <1>3 DEF SoFar
  <2> QED
    BY <1>1, <2>1
<1> QED
  BY <1>2, <1>3

\* The relations are as above, and the element under way knows its own.
RelationsInv ==
  \E place :
    /\ RelationsKept(SoFar(document, element), map.relations, place)
    /\ element.type # "none" =>
         IsCurrent(SoFar(document, element), map.relations, place, element.relation)

\* Steps that do not read on in an element, and the end of one.
LEMMA ElementsStay ==
  ASSUME TablesInv,
         \/ File!ParseArea \/ File!ParseLanelet \/ File!EndOfScan \/ File!EndElement
         \/ UNCHANGED File!vars
  PROVE  /\ SoFar(document', element') = SoFar(document, element)
         /\ map'.relations = map.relations
         /\ element'.type # "none" => element' = element
<1>1. CASE File!ParseArea
  <2>1. PICK area \in AreaTags :
          /\ map' = File!StoreArea(map, area)
          /\ document' = [document EXCEPT !.areas = Append(@, area)]
    BY <1>1 DEF File!ParseArea
  <2>2. map'.relations = map.relations
    BY <2>1, AreaStored DEF TablesInv, FileForm
  <2>3. document'.elements = document.elements /\ element' = element
    BY <1>1, <2>1 DEF TablesInv, FileForm, File!ParseArea
  <2> QED
    BY <2>2, <2>3 DEF SoFar
<1>2. CASE File!ParseLanelet
  <2>1. PICK tag \in LaneletTags :
          /\ map' = [map EXCEPT !.lanelets = File!Capped(@, MaxLanelets, File!LoadedLanelet(tag))]
          /\ document' = [document EXCEPT !.lanelets = Append(@, tag)]
    BY <1>2 DEF File!ParseLanelet
  <2>2. map'.relations = map.relations
    BY <2>1, LaneletStored DEF TablesInv, FileForm
  <2>3. document'.elements = document.elements /\ element' = element
    BY <1>2, <2>1 DEF TablesInv, FileForm, File!ParseLanelet
  <2> QED
    BY <2>2, <2>3 DEF SoFar
<1>3. CASE File!EndOfScan
  BY <1>3 DEF File!EndOfScan
<1>4. CASE File!EndElement
  <2>1. /\ element # File!NoElement /\ element' = File!NoElement /\ map' = map
        /\ document' = [document EXCEPT !.elements = Append(@, File!Read(element))]
    BY <1>4 DEF File!EndElement
  <2>2. document'.elements = Append(document.elements, File!Read(element))
    BY <2>1 DEF TablesInv, FileForm
  <2>3. element.type # "none" /\ element'.type = "none"
    BY <2>1 DEF TablesInv, ElementForm, File!NoElement
  <2> QED
    BY <2>1, <2>2, <2>3 DEF SoFar
<1>5. CASE UNCHANGED File!vars
  BY <1>5 DEF File!vars
<1> QED
  BY <1>1, <1>2, <1>3, <1>4, <1>5

LEMMA BeginElementGrows ==
  ASSUME TablesInv, File!BeginElement
  PROVE  /\ SoFar(document, element) = document.elements
         /\ element'.type # "none" /\ element'.relation = 0 /\ map' = map
         /\ element'.participants = <<>> /\ element'.appliesTo = <<>>
         /\ element' \in ElementsUnderWay /\ document' = document
<1>1. PICK type \in {"conflict_zone", "traffic_light"}, id \in ZoneRefs \cup LightRefs :
        element' = File!NewElement(type, id)
  BY DEF File!BeginElement
<1>2. element' = [type |-> type, id |-> id, relation |-> 0, participants |-> <<>>,
                  appliesTo |-> <<>>]
  BY <1>1 DEF File!NewElement, File!NoElement
<1>3. element' \in ElementsUnderWay
  BY BeginElementTables DEF TablesInv, FileForm
<1>4. element = File!NoElement /\ element.type = "none" /\ map' = map /\ document' = document
  BY DEF File!BeginElement, File!NoElement
<1> QED
  BY <1>2, <1>3, <1>4 DEF SoFar

LEMMA BeginElementRelations ==
  ASSUME TablesInv, RelationsInv, File!BeginElement
  PROVE  RelationsInv'
<1> DEFINE es == document.elements
           fs == SoFar(document', element')
<1>1. /\ SoFar(document, element) = es
      /\ element'.type # "none" /\ element'.relation = 0 /\ map' = map
      /\ element'.participants = <<>> /\ element' \in ElementsUnderWay /\ document' = document
  BY BeginElementGrows
<1>2. PICK place : RelationsKept(es, map.relations, place)
  BY <1>1 DEF RelationsInv
<1>3. /\ es \in Seq(ElementsRead) /\ Len(es) \in Nat
      /\ map.relations \in Seq(Relations) /\ Len(map.relations) \in Nat
  BY DEF TablesInv, FileForm, FileMaps
<1>4. /\ fs \in Seq(ElementsRead) /\ Len(fs) = Len(es) + 1
      /\ fs[Len(fs)] = File!Read(element') /\ \A n \in 1..Len(es) : fs[n] = es[n]
  <2>1. /\ fs \in Seq(ElementsRead) /\ Len(fs) = Len(es) + 1 /\ fs[Len(fs)] = File!Read(element')
        /\ \A n \in 1..Len(fs) - 1 : fs[n] = es[n]
    BY <1>1, <1>3, SoFarForm
  <2> HIDE DEF es, fs
  <2>2. Len(fs) - 1 = Len(es)
    BY <1>3, <2>1
  <2> QED
    BY <2>1, <2>2
<1> HIDE DEF es, fs
<1>5. \A n \in 1..Len(fs) : n \notin 1..Len(es) => ~Conflicting(fs[n])
  <2> SUFFICES ASSUME NEW n \in 1..Len(fs), n \notin 1..Len(es)
               PROVE  ~Conflicting(fs[n])
    OBVIOUS
  <2>1. n = Len(fs)
    BY <1>3, <1>4
  <2>2. fs[n].participants = <<>>
    BY <1>1, <1>4, <2>1 DEF File!Read
  <2> QED
    BY <2>2 DEF Conflicting
<1>6. RelationsKept(fs, map.relations, place)
  <2>1. Len(fs) >= Len(es)
    BY <1>3, <1>4
  <2> QED
    BY <1>2, <1>3, <1>4, <1>5, <2>1, ElementsAlike
<1>7. IsCurrent(fs, map.relations, place, 0)
  <2>1. \A r \in 1..Len(map.relations) : place[r] \in 1..Len(es)
    BY <1>2 DEF RelationsKept
  <2> QED
    BY <1>3, <1>4, <2>1 DEF IsCurrent
<1> QED
  BY <1>1, <1>6, <1>7 DEF RelationsInv, fs

LEMMA ParseAppliesToGrows ==
  ASSUME TablesInv, File!ParseAppliesTo
  PROVE  /\ element.type # "none" /\ element'.type = element.type /\ element'.id = element.id
         /\ element'.relation = element.relation
         /\ element'.participants = element.participants
         /\ element' \in ElementsUnderWay /\ document' = document
         /\ map'.relations = map.relations
<1>1. PICK lane \in LaneRefs :
       /\ map' = CASE element.type = "traffic_light" -> File!WithLight(map, lane, element.id)
                   [] element.type = "conflict_zone" /\ element.participants = <<>> ->
                        File!WithLaneZone(map, lane, element.id)
                   [] OTHER -> map
       /\ element' = [element EXCEPT !.appliesTo = Append(@, lane)]
  BY DEF File!ParseAppliesTo
<1>2. element # File!NoElement /\ document' = document
  BY DEF File!ParseAppliesTo
<1>3. /\ map \in FileMaps /\ TablesFit(map) /\ element \in ElementsUnderWay
      /\ element.type \in {"conflict_zone", "traffic_light"}
      /\ element.type = "conflict_zone" => element.id \in ZoneRefs
      /\ element.type = "traffic_light" => element.id \in LightRefs
  BY <1>2 DEF TablesInv, FileForm, ElementForm, ElementsUnderWay, ElementTypes
<1>4. map'.relations = map.relations
  <2>1. CASE element.type = "traffic_light"
    BY <1>1, <1>3, <2>1, LightSet
  <2>2. CASE element.type = "conflict_zone" /\ element.participants = <<>>
    BY <1>1, <1>3, <2>2, ZoneAdded
  <2>3. CASE element.type = "conflict_zone" /\ element.participants # <<>>
    BY <1>1, <2>3
  <2> QED
    BY <1>3, <2>1, <2>2, <2>3
<1>5. element' \in ElementsUnderWay
  BY ParseAppliesToTables DEF TablesInv, FileForm
<1>6. /\ element'.type = element.type /\ element'.id = element.id
      /\ element'.relation = element.relation /\ element'.participants = element.participants
  BY <1>1, <1>3 DEF ElementsUnderWay
<1> QED
  BY <1>2, <1>3, <1>4, <1>5, <1>6

LEMMA ParseAppliesToRelations ==
  ASSUME TablesInv, RelationsInv, File!ParseAppliesTo
  PROVE  RelationsInv'
<1> DEFINE es == SoFar(document, element)
           fs == SoFar(document', element')
<1>1. /\ element.type # "none" /\ element'.type = element.type /\ element'.id = element.id
      /\ element'.relation = element.relation
      /\ element'.participants = element.participants
      /\ element' \in ElementsUnderWay /\ document' = document
      /\ map'.relations = map.relations
  BY ParseAppliesToGrows
<1>2. PICK place : /\ RelationsKept(es, map.relations, place)
                   /\ IsCurrent(es, map.relations, place, element.relation)
  BY <1>1 DEF RelationsInv
<1>3. /\ document.elements \in Seq(ElementsRead) /\ element \in ElementsUnderWay
      /\ map.relations \in Seq(Relations) /\ Len(map.relations) \in Nat
  BY DEF TablesInv, FileForm, FileMaps
<1>4. /\ es \in Seq(ElementsRead) /\ fs \in Seq(ElementsRead) /\ Len(fs) = Len(es)
      /\ es[Len(es)] = File!Read(element) /\ fs[Len(es)] = File!Read(element')
      /\ \A n \in 1..Len(es) - 1 : fs[n] = es[n]
  BY <1>1, <1>3, SoFarForm
<1> HIDE DEF es, fs
<1>5. ASSUME NEW n \in 1..Len(es)
      PROVE  /\ fs[n].type = es[n].type /\ fs[n].id = es[n].id
             /\ fs[n].participants = es[n].participants
  <2>1. n \in 1..Len(es) - 1 \/ n = Len(es)
    BY <1>4
  <2>2. CASE n = Len(es)
    BY <1>1, <1>4, <2>2 DEF File!Read
  <2> QED
    BY <1>4, <2>1, <2>2
<1>6. Len(fs) >= Len(es) /\ \A n \in 1..Len(fs) : n \notin 1..Len(es) => ~Conflicting(fs[n])
  BY <1>4
<1>7. RelationsKept(fs, map.relations, place)
  BY <1>2, <1>3, <1>4, <1>5, <1>6, ElementsAlike
<1>8. IsCurrent(fs, map.relations, place, element.relation)
  BY <1>2, <1>4 DEF IsCurrent
<1> QED
  BY <1>1, <1>7, <1>8 DEF RelationsInv, fs

LEMMA ParseParticipantGrows ==
  ASSUME TablesInv, File!ParseParticipant
  PROVE  \E p \in Participants, n \in FileMaps :
           /\ element.type = "conflict_zone" /\ element.id \in ZoneRefs
           /\ element.appliesTo = <<>> /\ element'.appliesTo = <<>>
           /\ element'.type = element.type /\ element'.id = element.id
           /\ element'.participants = Append(element.participants, p)
           /\ element'.relation = File!RelationFor(map, element)
           /\ element' \in ElementsUnderWay /\ document' = document
           /\ map'.relations \in Seq(Relations)
           /\ n = File!WithParticipant(File!WithRelation(map, File!RelationFor(map, element),
                                                         element.id),
                                       File!RelationFor(map, element), p)
           /\ TablesFit(n) /\ n.lanelets = map.lanelets /\ map'.relations = n.relations
           /\ map' = File!WithLaneZone(n, p.lane, element.id)
<1> DEFINE r == File!RelationFor(map, element)
           m == File!WithRelation(map, r, element.id)
<1>1. PICK lane \in LaneRefs, movement \in FileMovements :
        LET p == [lane |-> lane, movement |-> movement]
        IN  /\ map' = File!WithLaneZone(File!WithParticipant(m, r, p), lane, element.id)
            /\ element' = [element EXCEPT !.relation = r, !.participants = Append(@, p)]
  BY DEF File!ParseParticipant
<1> DEFINE p == [lane |-> lane, movement |-> movement]
           n == File!WithParticipant(m, r, p)
<1>2. /\ element.type = "conflict_zone" /\ element.id \in ZoneRefs
      /\ element.appliesTo = <<>> /\ document' = document
      /\ map \in FileMaps /\ TablesFit(map) /\ element \in ElementsUnderWay
      /\ element.relation <= Len(map.relations)
  BY DEF File!ParseParticipant, TablesInv, FileForm, ElementForm
<1>3. p \in Participants /\ p.lane = lane
  BY DEF Participants
<1>4. /\ map' = File!WithLaneZone(n, p.lane, element.id)
      /\ element' = [element EXCEPT !.relation = r, !.participants = Append(@, p)]
  BY <1>1, <1>3
<1>5. /\ r \in Nat /\ r <= Len(m.relations) /\ m \in FileMaps /\ TablesFit(m)
  BY <1>2, RelationAdded
<1>6. m.lanelets = map.lanelets
  BY <1>2 DEF File!WithRelation, FileMaps
<1> HIDE DEF r, m, p
<1>7. n \in FileMaps /\ TablesFit(n)
  BY <1>3, <1>5, ParticipantAdded
<1>8. n.lanelets = m.lanelets
  BY <1>5 DEF File!WithParticipant, FileMaps
<1> HIDE DEF n
<1>9. map'.relations = n.relations
  BY <1>2, <1>3, <1>4, <1>7, ZoneAdded DEF Participants
<1>10. /\ element'.type = element.type /\ element'.id = element.id /\ element'.relation = r
       /\ element'.appliesTo = <<>>
       /\ element'.participants = Append(element.participants, p)
  BY <1>2, <1>4 DEF ElementsUnderWay
<1>11. element' \in ElementsUnderWay /\ map'.relations \in Seq(Relations)
  BY ParseParticipantTables DEF TablesInv, FileForm, FileMaps
<1> QED
  BY <1>2, <1>3, <1>4, <1>6, <1>7, <1>8, <1>9, <1>10, <1>11 DEF n, m, r

LEMMA ParseParticipantRelations ==
  ASSUME TablesInv, RelationsInv, File!ParseParticipant
  PROVE  RelationsInv'
<1>1. PICK p \in Participants, n \in FileMaps :
           /\ element.type = "conflict_zone" /\ element.id \in ZoneRefs
           /\ element'.type = element.type /\ element'.id = element.id
           /\ element'.participants = Append(element.participants, p)
           /\ element'.relation = File!RelationFor(map, element)
           /\ element' \in ElementsUnderWay /\ document' = document
           /\ map'.relations \in Seq(Relations)
           /\ n = File!WithParticipant(File!WithRelation(map, File!RelationFor(map, element),
                                                         element.id),
                                       File!RelationFor(map, element), p)
           /\ map'.relations = n.relations
  BY ParseParticipantGrows
<1> DEFINE es == SoFar(document, element)
           fs == SoFar(document', element')
           old == map.relations
           now == map'.relations
           r == element'.relation
           last == Len(es)
<1>2. /\ document.elements \in Seq(ElementsRead) /\ element \in ElementsUnderWay
      /\ map \in FileMaps /\ TablesFit(map) /\ element.relation <= Len(old)
      /\ old \in Seq(Relations) /\ Len(old) \in Nat
  BY DEF TablesInv, FileForm, FileMaps, ElementForm
<1>3. PICK place : RelationsKept(es, old, place) /\ IsCurrent(es, old, place, element.relation)
  BY <1>1 DEF RelationsInv
<1>4. /\ es \in Seq(ElementsRead) /\ fs \in Seq(ElementsRead) /\ Len(fs) = last /\ last # 0
      /\ es[last] = File!Read(element) /\ fs[last] = File!Read(element')
      /\ \A k \in 1..last - 1 : fs[k] = es[k]
  BY <1>1, <1>2, SoFarForm
<1>5. /\ es[last].type = "conflict_zone" /\ es[last].id = element.id
      /\ fs[last].type = es[last].type /\ fs[last].id = es[last].id
      /\ fs[last].participants = Append(es[last].participants, p)
  BY <1>1, <1>4 DEF File!Read
<1>6. \/ /\ r = 0 /\ element.relation = 0 /\ now = old
         /\ element.id = NoId \/ Len(old) = MaxRelations
      \/ /\ r = element.relation /\ r \in 1..Len(old) /\ Len(now) = Len(old)
         /\ \A q \in 1..Len(old) :
              /\ now[q].zone = old[q].zone
              /\ now[q].participants = IF q = r THEN StoredParticipants(old[q].participants, p)
                                       ELSE old[q].participants
      \/ /\ r = Len(old) + 1 /\ element.relation = 0 /\ element.id # NoId
         /\ Len(old) # MaxRelations
         /\ now = Append(old, [zone |-> element.id, participants |-> StoredParticipants(<<>>, p)])
  BY <1>1, <1>2, ParticipantStored
<1>7. now \in Seq(Relations)
  BY <1>1
<1>8. element'.type # "none" /\ map'.relations = now /\ element'.relation = r
  BY <1>1
<1> SUFFICES \E later : RelationsKept(fs, now, later) /\ IsCurrent(fs, now, later, r)
  BY DEF RelationsInv
<1> HIDE DEF es, fs, old, now, r, last
<1>9. CASE r = 0 /\ element.relation = 0 /\ now = old /\ (element.id = NoId \/ Len(old) = MaxRelations)
  <2>1. Conflicting(fs[last]) => Len(old) = MaxRelations
    BY <1>5, <1>9 DEF Conflicting
  <2>2. RelationsKept(fs, old, place) /\ IsCurrent(fs, old, place, 0)
    BY <1>2, <1>3, <1>4, <1>9, <2>1, ParticipantWithoutRelation DEF last, old
  <2> QED
    BY <1>9, <2>2
<1>10. CASE /\ r = element.relation /\ r \in 1..Len(old) /\ Len(now) = Len(old)
            /\ \A q \in 1..Len(old) :
                 /\ now[q].zone = old[q].zone
                 /\ now[q].participants = IF q = r THEN StoredParticipants(old[q].participants, p)
                                          ELSE old[q].participants
  <2>1. Len(old[r].participants) <= MaxParticipants
    BY <1>2, <1>10 DEF TablesFit, RelationFits, old
  <2>2. RelationsKept(fs, now, place) /\ IsCurrent(fs, now, place, r)
    <3>1. old \in Seq(Relations)
      BY <1>2 DEF old
    <3>2. IsCurrent(es, old, place, r)
      BY <1>3, <1>10
    <3>3. r \in 1..Len(old) /\ Len(now) = Len(old)
      BY <1>10
    <3>4. \A q \in 1..Len(old) :
            /\ now[q].zone = old[q].zone
            /\ now[q].participants = IF q = r THEN StoredParticipants(old[q].participants, p)
                                     ELSE old[q].participants
      BY <1>10
    <3> QED
      BY <1>3, <1>4, <1>5, <1>7, <2>1, <3>1, <3>2, <3>3, <3>4, ParticipantOfRelation DEF last
  <2> QED
    BY <2>2
<1>11. CASE /\ r = Len(old) + 1 /\ element.relation = 0 /\ element.id # NoId
            /\ Len(old) # MaxRelations
            /\ now = Append(old, [zone |-> element.id,
                                  participants |-> StoredParticipants(<<>>, p)])
  <2>1. old \in Seq(Relations)
    BY <1>2 DEF old
  <2>2. /\ now = Append(old, [zone |-> es[last].id,
                             participants |-> StoredParticipants(<<>>, p)])
        /\ IsCurrent(es, old, place, 0) /\ es[last].id # NoId
    BY <1>3, <1>5, <1>11
  <2>3. Len(old) # MaxRelations
    BY <1>11
  <2>4. \E later : RelationsKept(fs, now, later) /\ IsCurrent(fs, now, later, Len(old) + 1)
    BY <1>3, <1>4, <1>5, <1>7, <2>1, <2>2, <2>3, ParticipantOfNewRelation DEF last
  <2> QED
    BY <1>11, <2>4
<1> QED
  BY <1>6, <1>9, <1>10, <1>11

-----------------------------------------------------------------------------
(***************************************************************************)
(* The lanes' own lists of zones.                                          *)
(***************************************************************************)

\* What an element does to a lane's own list: it may name the lane, and it may have a
\* participant there.
NamesLane(e, lane) ==
  /\ e.type = "conflict_zone"
  /\ \/ File!Contains(e.appliesTo, lane)
     \/ \E k \in 1..Len(e.participants) : e.participants[k].lane = lane
Involves(e, lane) ==
  /\ e.type = "conflict_zone" /\ e.id # NoId
  /\ \E k \in 1..Len(e.participants) : e.participants[k].lane = lane

\* A lane's list has only zones whose elements name the lane, and unless it is full
\* all with a participant there.
LaneListed(elements, lane, zones) ==
  /\ \A k \in 1..Len(zones) : \E n \in 1..Len(elements) :
       elements[n].id = zones[k] /\ NamesLane(elements[n], lane)
  /\ \A n \in 1..Len(elements) : Involves(elements[n], lane) =>
       \/ \E k \in 1..Len(zones) : zones[k] = elements[n].id
       \/ Len(zones) = MaxZonesPerLane

LanesInv ==
  \A k \in 1..Len(map.lanelets) : FirstOfItsId(k) =>
    LaneListed(SoFar(document, element), map.lanelets[k].id, map.lanelets[k].zones)

LEMMA LaneListGrows ==
  ASSUME NEW es \in Seq(ElementsRead), NEW fs \in Seq(ElementsRead), NEW lane,
         NEW zones \in Seq(ZoneRefs), NEW list \in Seq(ZoneRefs),
         LaneListed(es, lane, zones), Len(es) <= Len(fs), Len(zones) <= Len(list),
         Len(list) <= MaxZonesPerLane,
         \A n \in 1..Len(es) :
           fs[n].id = es[n].id /\ (NamesLane(es[n], lane) => NamesLane(fs[n], lane)),
         \A k \in 1..Len(zones) : list[k] = zones[k],
         \A k \in 1..Len(list) : k \in 1..Len(zones) \/ \E n \in 1..Len(fs) :
           fs[n].id = list[k] /\ NamesLane(fs[n], lane),
         \A n \in 1..Len(fs) : Involves(fs[n], lane) =>
           \/ n \in 1..Len(es) /\ Involves(es[n], lane)
           \/ \E k \in 1..Len(list) : list[k] = fs[n].id
           \/ Len(list) = MaxZonesPerLane
  PROVE  LaneListed(fs, lane, list)
<1>1. /\ Len(es) \in Nat /\ Len(fs) \in Nat /\ Len(zones) \in Nat /\ Len(list) \in Nat
      /\ MaxZonesPerLane \in Nat /\ 1..Len(es) \subseteq 1..Len(fs)
      /\ 1..Len(zones) \subseteq 1..Len(list)
  <2>1. Len(es) \in Nat /\ Len(fs) \in Nat /\ Len(zones) \in Nat /\ Len(list) \in Nat
    OBVIOUS
  <2> QED
    BY <2>1, FileAssumption
<1>2. ASSUME NEW k \in 1..Len(list)
      PROVE  \E n \in 1..Len(fs) : fs[n].id = list[k] /\ NamesLane(fs[n], lane)
  <2>1. CASE k \in 1..Len(zones)
    <3>1. PICK n \in 1..Len(es) : es[n].id = zones[k] /\ NamesLane(es[n], lane)
      BY <2>1 DEF LaneListed
    <3> QED
      BY <1>1, <2>1, <3>1
  <2>2. CASE k \notin 1..Len(zones)
    BY <2>2
  <2> QED
    BY <2>1, <2>2
<1>3. ASSUME NEW n \in 1..Len(fs), Involves(fs[n], lane)
      PROVE  \/ \E k \in 1..Len(list) : list[k] = fs[n].id
             \/ Len(list) = MaxZonesPerLane
  <2>1. CASE n \in 1..Len(es) /\ Involves(es[n], lane)
    <3>1. CASE Len(zones) = MaxZonesPerLane
      BY <1>1, <3>1
    <3>2. CASE \E k \in 1..Len(zones) : zones[k] = es[n].id
      <4>1. PICK k \in 1..Len(zones) : zones[k] = es[n].id
        BY <3>2
      <4> QED
        BY <1>1, <2>1, <4>1
    <3> QED
      BY <2>1, <3>1, <3>2 DEF LaneListed
  <2>2. CASE ~(n \in 1..Len(es) /\ Involves(es[n], lane))
    BY <1>3, <2>2
  <2> QED
    BY <2>1, <2>2
<1> QED
  BY <1>2, <1>3 DEF LaneListed

LEMMA ZoneListed ==
  ASSUME NEW m \in FileMaps, NEW lane \in LaneRefs, NEW zone \in ZoneRefs,
         NEW k \in 1..Len(m.lanelets)
  PROVE  File!WithLaneZone(m, lane, zone).lanelets[k].zones =
           IF k = File!IndexOf(m.lanelets, lane) /\ zone # NoId
                /\ ~File!Contains(m.lanelets[k].zones, zone)
           THEN File!Capped(m.lanelets[k].zones, MaxZonesPerLane, zone)
           ELSE m.lanelets[k].zones
<1> DEFINE at == File!IndexOf(m.lanelets, lane)
           n == File!WithLaneZone(m, lane, zone)
<1>1. m.lanelets \in Seq(LoadedLanelets)
  BY DEF FileMaps
<1>2. at \in 0..Len(m.lanelets) /\ Len(m.lanelets) \in Nat /\ k # 0
  BY <1>1, IndexOfFirst
<1>3. CASE at = 0 \/ zone = NoId
  BY <1>2, <1>3 DEF File!WithLaneZone
<1>4. CASE ~(at = 0 \/ zone = NoId)
  <2> DEFINE old == m.lanelets[at].zones
             now == IF File!Contains(old, zone) THEN old
                    ELSE File!Capped(old, MaxZonesPerLane, zone)
             new == [m.lanelets[at] EXCEPT !.zones = now]
  <2>1. at \in 1..Len(m.lanelets) /\ m.lanelets[at] \in LoadedLanelets
    BY <1>1, <1>2, <1>4
  <2>2. n = [m EXCEPT !.lanelets = [m.lanelets EXCEPT ![at] = new]]
    BY <1>4 DEF File!WithLaneZone
  <2>3. new.zones = now
    BY <2>1 DEF LoadedLanelets
  <2> HIDE DEF at, new, n, now
  <2>4. n.lanelets = [m.lanelets EXCEPT ![at] = new]
    BY <2>2 DEF FileMaps
  <2>5. CASE k = at
    <3>1. n.lanelets[k].zones = now
      BY <1>1, <2>1, <2>3, <2>4, <2>5
    <3> QED
      BY <1>4, <2>5, <3>1 DEF at, n, now
  <2>6. CASE k # at
    <3>1. n.lanelets[k] = m.lanelets[k]
      BY <1>1, <2>1, <2>4, <2>6
    <3> QED
      BY <2>6, <3>1 DEF at, n
  <2> QED
    BY <2>5, <2>6
<1> QED
  BY <1>3, <1>4

LEMMA LightLeavesZones ==
  ASSUME NEW m \in FileMaps, NEW lane \in LaneRefs, NEW light \in LightRefs,
         NEW k \in 1..Len(m.lanelets)
  PROVE  File!WithLight(m, lane, light).lanelets[k].zones = m.lanelets[k].zones
<1> DEFINE at == File!IndexOf(m.lanelets, lane)
           n == File!WithLight(m, lane, light)
<1>1. m.lanelets \in Seq(LoadedLanelets)
  BY DEF FileMaps
<1>2. at \in 0..Len(m.lanelets) /\ Len(m.lanelets) \in Nat
  BY <1>1, IndexOfFirst
<1>3. CASE at = 0 \/ light = NoId
  BY <1>3 DEF File!WithLight
<1>4. CASE ~(at = 0 \/ light = NoId)
  <2> DEFINE new == [m.lanelets[at] EXCEPT !.light = light]
  <2>1. at \in 1..Len(m.lanelets) /\ m.lanelets[at] \in LoadedLanelets
    BY <1>1, <1>2, <1>4
  <2>2. n = [m EXCEPT !.lanelets = [m.lanelets EXCEPT ![at] = new]]
    BY <1>4 DEF File!WithLight
  <2>3. new.zones = m.lanelets[at].zones
    BY <2>1 DEF LoadedLanelets
  <2> HIDE DEF at, new, n
  <2>4. n.lanelets = [m.lanelets EXCEPT ![at] = new]
    BY <2>2 DEF FileMaps
  <2>5. n.lanelets[k] = IF k = at THEN new ELSE m.lanelets[k]
    BY <1>1, <2>1, <2>4
  <2> QED
    BY <2>3, <2>5 DEF n
<1> QED
  BY <1>3, <1>4

LEMMA ListWithZone ==
  ASSUME NEW zones \in Seq(ZoneRefs), LaneZonesFit(zones), NEW zone \in ZoneRefs, NEW list,
         list = IF File!Contains(zones, zone) THEN zones
                ELSE File!Capped(zones, MaxZonesPerLane, zone)
  PROVE  /\ Len(zones) <= Len(list)
         /\ \A j \in 1..Len(zones) : list[j] = zones[j]
         /\ \A j \in 1..Len(list) : j \in 1..Len(zones) \/ list[j] = zone
         /\ (\E j \in 1..Len(list) : list[j] = zone) \/ Len(list) = MaxZonesPerLane
<1>1. Len(zones) \in Nat /\ MaxZonesPerLane \in Nat /\ Len(zones) <= MaxZonesPerLane
  BY FileAssumption DEF LaneZonesFit
<1>2. CASE File!Contains(zones, zone)
  <2>1. list = zones
    BY <1>2
  <2> QED
    BY <1>1, <1>2, <2>1 DEF File!Contains
<1>3. CASE ~File!Contains(zones, zone) /\ Len(zones) < MaxZonesPerLane
  <2>1. list = Append(zones, zone)
    BY <1>3 DEF File!Capped
  <2>2. /\ Len(list) = Len(zones) + 1 /\ list[Len(zones) + 1] = zone
        /\ \A j \in 1..Len(zones) : list[j] = zones[j]
    BY <2>1
  <2>3. Len(zones) + 1 \in 1..Len(list)
    BY <1>1, <2>2
  <2>4. \A j \in 1..Len(list) : j \in 1..Len(zones) \/ j = Len(zones) + 1
    BY <1>1, <2>2
  <2> QED
    BY <1>1, <2>2, <2>3, <2>4
<1>4. CASE ~File!Contains(zones, zone) /\ ~(Len(zones) < MaxZonesPerLane)
  <2>1. list = zones
    BY <1>4 DEF File!Capped
  <2> QED
    BY <1>1, <1>4, <2>1
<1> QED
  BY <1>2, <1>3, <1>4

LEMMA FirstIsIndex ==
  ASSUME TablesInv, NEW lane, NEW k \in 1..Len(map.lanelets), FirstOfItsId(k)
  PROVE  map.lanelets[k].id = lane <=> k = File!IndexOf(map.lanelets, lane)
<1> DEFINE at == File!IndexOf(map.lanelets, lane)
<1>1. map.lanelets \in Seq(LoadedLanelets) /\ Len(map.lanelets) \in Nat
  BY DEF TablesInv, FileForm, FileMaps
<1>2. /\ at \in 0..Len(map.lanelets)
      /\ at = 0 <=> \A j \in 1..Len(map.lanelets) : map.lanelets[j].id # lane
      /\ at # 0 => /\ map.lanelets[at].id = lane
                   /\ \A j \in 1..Len(map.lanelets) : map.lanelets[j].id = lane => at <= j
  BY <1>1, IndexOfFirst
<1> HIDE DEF at
<1> QED
  BY <1>1, <1>2 DEF FirstOfItsId, at

\* What is asked of a step of an element that may add its zone to a list.
LEMMA LanesStep ==
  ASSUME TablesInv, LanesInv, TablesInv', AnswersAlike(map, map'), element.type # "none",
         element'.type = element.type, element'.id = element.id, document' = document,
         \A x : NamesLane(element, x) => NamesLane(element', x),
         \A k \in 1..Len(map.lanelets) : FirstOfItsId(k) =>
           LET zones == map.lanelets[k].zones
               list == map'.lanelets[k].zones
               lane == map.lanelets[k].id
           IN  /\ Len(zones) <= Len(list)
               /\ \A j \in 1..Len(zones) : list[j] = zones[j]
               /\ \A j \in 1..Len(list) :
                    j \in 1..Len(zones) \/ (list[j] = element.id /\ NamesLane(element', lane))
               /\ Involves(element', lane) =>
                    \/ Involves(element, lane)
                    \/ \E j \in 1..Len(list) : list[j] = element.id
                    \/ Len(list) = MaxZonesPerLane
  PROVE  LanesInv'
<1> SUFFICES ASSUME NEW k \in 1..Len(map'.lanelets), FirstOfItsId(k)'
             PROVE  LaneListed(SoFar(document', element'), map'.lanelets[k].id,
                               map'.lanelets[k].zones)
  BY DEF LanesInv
<1> DEFINE es == SoFar(document, element)
           fs == SoFar(document', element')
           zones == map.lanelets[k].zones
           list == map'.lanelets[k].zones
           lane == map.lanelets[k].id
<1>1. /\ k \in 1..Len(map.lanelets) /\ FirstOfItsId(k) /\ map'.lanelets[k].id = lane
  BY DEF AnswersAlike, FirstOfItsId
<1>2. LaneListed(es, lane, zones)
  BY <1>1 DEF LanesInv
<1>3. /\ map.lanelets[k] \in LoadedLanelets /\ map'.lanelets[k] \in LoadedLanelets
      /\ LaneZonesFit(list)
  BY <1>1 DEF TablesInv, FileForm, FileMaps, TablesFit
<1>4. /\ zones \in Seq(ZoneRefs) /\ list \in Seq(ZoneRefs) /\ Len(list) <= MaxZonesPerLane
  BY <1>3 DEF LoadedLanelets, LaneZonesFit
<1>5. /\ document.elements \in Seq(ElementsRead)
      /\ element \in ElementsUnderWay /\ element' \in ElementsUnderWay
  BY DEF TablesInv, FileForm
<1>6. /\ es \in Seq(ElementsRead) /\ fs \in Seq(ElementsRead) /\ Len(fs) = Len(es)
      /\ Len(es) # 0 /\ es[Len(es)] = File!Read(element) /\ fs[Len(es)] = File!Read(element')
      /\ \A n \in 1..Len(es) - 1 : fs[n] = es[n]
  BY <1>5, SoFarForm
<1>7. /\ \A x : NamesLane(fs[Len(es)], x) <=> NamesLane(element', x)
      /\ \A x : NamesLane(es[Len(es)], x) <=> NamesLane(element, x)
      /\ \A x : Involves(fs[Len(es)], x) <=> Involves(element', x)
      /\ \A x : Involves(es[Len(es)], x) <=> Involves(element, x)
      /\ fs[Len(es)].id = element.id /\ es[Len(es)].id = element.id
  BY <1>6 DEF File!Read, NamesLane, Involves
<1>8. /\ Len(zones) <= Len(list)
      /\ \A j \in 1..Len(zones) : list[j] = zones[j]
      /\ \A j \in 1..Len(list) :
           j \in 1..Len(zones) \/ (list[j] = element.id /\ NamesLane(element', lane))
      /\ Involves(element', lane) =>
           \/ Involves(element, lane)
           \/ \E j \in 1..Len(list) : list[j] = element.id
           \/ Len(list) = MaxZonesPerLane
  BY <1>1
<1> HIDE DEF es, fs, zones, list, lane
<1>9. \A n \in 1..Len(es) : n \in 1..Len(es) - 1 \/ n = Len(es)
  BY <1>6
<1>10. Len(es) \in 1..Len(es)
  BY <1>6
<1>11. \A n \in 1..Len(es) :
         fs[n].id = es[n].id /\ (NamesLane(es[n], lane) => NamesLane(fs[n], lane))
  <2> SUFFICES ASSUME NEW n \in 1..Len(es)
               PROVE  fs[n].id = es[n].id /\ (NamesLane(es[n], lane) => NamesLane(fs[n], lane))
    OBVIOUS
  <2>1. CASE n = Len(es)
    BY <1>7, <2>1
  <2>2. CASE n \in 1..Len(es) - 1
    BY <1>6, <2>2
  <2> QED
    BY <1>9, <2>1, <2>2
<1>12. \A j \in 1..Len(list) : j \in 1..Len(zones) \/ \E n \in 1..Len(fs) :
         fs[n].id = list[j] /\ NamesLane(fs[n], lane)
  <2> SUFFICES ASSUME NEW j \in 1..Len(list), j \notin 1..Len(zones)
               PROVE  \E n \in 1..Len(fs) : fs[n].id = list[j] /\ NamesLane(fs[n], lane)
    OBVIOUS
  <2>1. list[j] = fs[Len(es)].id /\ NamesLane(fs[Len(es)], lane)
    BY <1>7, <1>8
  <2> QED
    BY <1>6, <1>10, <2>1
<1>13. \A n \in 1..Len(fs) : Involves(fs[n], lane) =>
         \/ n \in 1..Len(es) /\ Involves(es[n], lane)
         \/ \E j \in 1..Len(list) : list[j] = fs[n].id
         \/ Len(list) = MaxZonesPerLane
  <2> SUFFICES ASSUME NEW n \in 1..Len(es), Involves(fs[n], lane)
               PROVE  \/ Involves(es[n], lane)
                      \/ \E j \in 1..Len(list) : list[j] = fs[n].id
                      \/ Len(list) = MaxZonesPerLane
    BY <1>6
  <2>1. CASE n = Len(es)
    <3>1. Involves(element', lane)
      BY <1>7, <2>1
    <3>2. \/ Involves(element, lane)
          \/ \E j \in 1..Len(list) : list[j] = element.id
          \/ Len(list) = MaxZonesPerLane
      BY <1>8, <3>1
    <3> QED
      BY <1>7, <2>1, <3>2
  <2>2. CASE n \in 1..Len(es) - 1
    BY <1>6, <2>2
  <2> QED
    BY <1>9, <2>1, <2>2
<1>14. LaneListed(fs, lane, list)
  <2>1. Len(es) <= Len(fs)
    BY <1>6
  <2> QED
    BY <1>2, <1>4, <1>6, <1>8, <1>11, <1>12, <1>13, <2>1, LaneListGrows
<1> QED
  BY <1>1, <1>14 DEF fs, list, lane

LEMMA ContainsAppended ==
  ASSUME NEW S, NEW s \in Seq(S), NEW x \in S, NEW y
  PROVE  /\ File!Contains(Append(s, x), y) <=> File!Contains(s, y) \/ y = x
<1>1. /\ Len(s) \in Nat /\ Len(Append(s, x)) = Len(s) + 1
      /\ \A k \in 1..Len(s) : Append(s, x)[k] = s[k]
      /\ Append(s, x)[Len(s) + 1] = x
  OBVIOUS
<1>2. /\ \A k \in 1..Len(Append(s, x)) : k \in 1..Len(s) \/ k = Len(s) + 1
      /\ 1..Len(s) \subseteq 1..Len(Append(s, x))
      /\ Len(s) + 1 \in 1..Len(Append(s, x))
  BY <1>1
<1> DEFINE t == Append(s, x)
<1> HIDE DEF t
<1> QED
  BY <1>1, <1>2 DEF File!Contains

LEMMA LaneAppended ==
  ASSUME NEW participants \in Seq(Participants), NEW p \in Participants, NEW lane
  PROVE  (\E k \in 1..Len(Append(participants, p)) : Append(participants, p)[k].lane = lane) <=>
           (\E k \in 1..Len(participants) : participants[k].lane = lane) \/ p.lane = lane
<1> DEFINE now == Append(participants, p)
<1>1. /\ Len(participants) \in Nat /\ Len(now) = Len(participants) + 1
      /\ \A k \in 1..Len(participants) : now[k] = participants[k]
      /\ now[Len(participants) + 1] = p
  OBVIOUS
<1> HIDE DEF now
<1>2. /\ \A k \in 1..Len(now) : k \in 1..Len(participants) \/ k = Len(participants) + 1
      /\ 1..Len(participants) \subseteq 1..Len(now)
      /\ Len(participants) + 1 \in 1..Len(now)
  BY <1>1
<1>3. (\E k \in 1..Len(now) : now[k].lane = lane) <=>
        (\E k \in 1..Len(participants) : participants[k].lane = lane) \/ p.lane = lane
  BY <1>1, <1>2
<1> QED
  BY <1>3 DEF now

LEMMA ParseParticipantLanes ==
  ASSUME TablesInv, LanesInv, File!ParseParticipant
  PROVE  LanesInv'
<1>1. PICK p \in Participants, n \in FileMaps :
           /\ element.type = "conflict_zone" /\ element.id \in ZoneRefs
           /\ element.appliesTo = <<>> /\ element'.appliesTo = <<>>
           /\ element'.type = element.type /\ element'.id = element.id
           /\ element'.participants = Append(element.participants, p)
           /\ document' = document
           /\ TablesFit(n) /\ n.lanelets = map.lanelets
           /\ map' = File!WithLaneZone(n, p.lane, element.id)
  BY ParseParticipantGrows
<1>2. TablesInv' /\ AnswersAlike(map, map')
  BY ParseParticipantTables
<1>3. element.participants \in Seq(Participants) /\ p.lane \in LaneRefs
  BY DEF TablesInv, FileForm, ElementsUnderWay, Participants
<1>4. \A x : /\ NamesLane(element', x) <=> NamesLane(element, x) \/ x = p.lane
             /\ Involves(element', x) <=> Involves(element, x) \/ (x = p.lane /\ element.id # NoId)
  <2> TAKE x
  <2>1. (\E k \in 1..Len(element'.participants) : element'.participants[k].lane = x) <=>
          (\E k \in 1..Len(element.participants) : element.participants[k].lane = x) \/ p.lane = x
    BY <1>1, <1>3, LaneAppended
  <2> QED
    BY <1>1, <2>1 DEF NamesLane, Involves
<1>5. ASSUME NEW k \in 1..Len(map.lanelets), FirstOfItsId(k)
      PROVE  LET zones == map.lanelets[k].zones
                 list == map'.lanelets[k].zones
                 lane == map.lanelets[k].id
             IN  /\ Len(zones) <= Len(list)
                 /\ \A j \in 1..Len(zones) : list[j] = zones[j]
                 /\ \A j \in 1..Len(list) :
                      j \in 1..Len(zones) \/ (list[j] = element.id /\ NamesLane(element', lane))
                 /\ Involves(element', lane) =>
                      \/ Involves(element, lane)
                      \/ \E j \in 1..Len(list) : list[j] = element.id
                      \/ Len(list) = MaxZonesPerLane
  <2> DEFINE zones == map.lanelets[k].zones
             list == map'.lanelets[k].zones
             lane == map.lanelets[k].id
  <2>1. map.lanelets[k] \in LoadedLanelets /\ LaneZonesFit(zones)
    BY DEF TablesInv, FileForm, FileMaps, TablesFit
  <2>2. zones \in Seq(ZoneRefs) /\ Len(zones) \in Nat
    BY <2>1 DEF LoadedLanelets
  <2>3. lane = p.lane <=> k = File!IndexOf(map.lanelets, p.lane)
    BY <1>5, FirstIsIndex
  <2>4. list = IF k = File!IndexOf(map.lanelets, p.lane) /\ element.id # NoId
                    /\ ~File!Contains(zones, element.id)
               THEN File!Capped(zones, MaxZonesPerLane, element.id) ELSE zones
    BY <1>1, <1>3, ZoneListed
  <2> HIDE DEF zones, list, lane
  <2>5. CASE lane = p.lane /\ element.id # NoId
    <3>1. list = IF File!Contains(zones, element.id) THEN zones
                 ELSE File!Capped(zones, MaxZonesPerLane, element.id)
      BY <2>3, <2>4, <2>5
    <3>2. /\ Len(zones) <= Len(list)
          /\ \A j \in 1..Len(zones) : list[j] = zones[j]
          /\ \A j \in 1..Len(list) : j \in 1..Len(zones) \/ list[j] = element.id
          /\ (\E j \in 1..Len(list) : list[j] = element.id) \/ Len(list) = MaxZonesPerLane
      BY <1>1, <2>1, <2>2, <3>1, ListWithZone DEF zones
    <3> QED
      BY <1>4, <2>5, <3>2 DEF zones, list, lane
  <2>6. CASE ~(lane = p.lane /\ element.id # NoId)
    <3>1. list = zones
      BY <2>3, <2>4, <2>6
    <3> QED
      BY <1>4, <2>2, <2>6, <3>1 DEF zones, list, lane
  <2> QED
    BY <2>5, <2>6
<1>6. \A x : NamesLane(element, x) => NamesLane(element', x)
  BY <1>4
<1>7. element.type # "none"
  BY <1>1
<1> QED
  BY <1>1, <1>2, <1>5, <1>6, <1>7, LanesStep

LEMMA ParseAppliesToLanes ==
  ASSUME TablesInv, LanesInv, File!ParseAppliesTo
  PROVE  LanesInv'
<1>1. PICK lane \in LaneRefs :
       /\ map' = CASE element.type = "traffic_light" -> File!WithLight(map, lane, element.id)
                   [] element.type = "conflict_zone" /\ element.participants = <<>> ->
                        File!WithLaneZone(map, lane, element.id)
                   [] OTHER -> map
       /\ element' = [element EXCEPT !.appliesTo = Append(@, lane)]
  BY DEF File!ParseAppliesTo
<1>2. TablesInv' /\ AnswersAlike(map, map')
  BY ParseAppliesToTables
<1>3. /\ element.type # "none" /\ element'.type = element.type /\ element'.id = element.id
      /\ element'.participants = element.participants /\ document' = document
  BY ParseAppliesToGrows
<1>4. /\ map \in FileMaps /\ TablesFit(map) /\ element \in ElementsUnderWay
      /\ element.type = "conflict_zone" => element.id \in ZoneRefs
      /\ element.type = "traffic_light" => element.id \in LightRefs
      /\ element.type \in {"conflict_zone", "traffic_light"}
  BY <1>3 DEF TablesInv, FileForm, ElementForm, ElementsUnderWay, ElementTypes
<1>5. \A x : /\ Involves(element', x) <=> Involves(element, x)
             /\ NamesLane(element', x) <=>
                  NamesLane(element, x) \/ (element.type = "conflict_zone" /\ x = lane)
  <2> TAKE x
  <2>1. /\ element'.appliesTo = Append(element.appliesTo, lane)
        /\ element.appliesTo \in Seq(LaneRefs)
    BY <1>1, <1>4 DEF ElementsUnderWay
  <2>2. File!Contains(element'.appliesTo, x) <=> File!Contains(element.appliesTo, x) \/ x = lane
    BY <2>1, ContainsAppended
  <2> QED
    BY <1>3, <2>2 DEF NamesLane, Involves
<1>6. ASSUME NEW k \in 1..Len(map.lanelets), FirstOfItsId(k)
      PROVE  LET zones == map.lanelets[k].zones
                 list == map'.lanelets[k].zones
                 its == map.lanelets[k].id
             IN  /\ Len(zones) <= Len(list)
                 /\ \A j \in 1..Len(zones) : list[j] = zones[j]
                 /\ \A j \in 1..Len(list) :
                      j \in 1..Len(zones) \/ (list[j] = element.id /\ NamesLane(element', its))
                 /\ Involves(element', its) =>
                      \/ Involves(element, its)
                      \/ \E j \in 1..Len(list) : list[j] = element.id
                      \/ Len(list) = MaxZonesPerLane
  <2> DEFINE zones == map.lanelets[k].zones
             list == map'.lanelets[k].zones
             its == map.lanelets[k].id
  <2>1. map.lanelets[k] \in LoadedLanelets /\ LaneZonesFit(zones)
    BY DEF TablesInv, FileForm, FileMaps, TablesFit
  <2>2. zones \in Seq(ZoneRefs) /\ Len(zones) \in Nat
    BY <2>1 DEF LoadedLanelets
  <2>3. its = lane <=> k = File!IndexOf(map.lanelets, lane)
    BY <1>6, FirstIsIndex
  <2>4. \/ list = zones
        \/ /\ element.type = "conflict_zone" /\ its = lane
           /\ list = IF File!Contains(zones, element.id) THEN zones
                     ELSE File!Capped(zones, MaxZonesPerLane, element.id)
    <3>1. CASE element.type = "traffic_light"
      BY <1>1, <1>4, <3>1, LightLeavesZones
    <3>2. CASE element.type = "conflict_zone" /\ element.participants = <<>>
      <4>1. list = IF k = File!IndexOf(map.lanelets, lane) /\ element.id # NoId
                        /\ ~File!Contains(zones, element.id)
                   THEN File!Capped(zones, MaxZonesPerLane, element.id) ELSE zones
        BY <1>1, <1>4, <3>2, ZoneListed
      <4> HIDE DEF zones, list, its
      <4> QED
        BY <2>3, <3>2, <4>1
    <3>3. CASE element.type = "conflict_zone" /\ element.participants # <<>>
      BY <1>1, <3>3
    <3> QED
      BY <1>4, <3>1, <3>2, <3>3
  <2> HIDE DEF zones, list, its
  <2>5. CASE list = zones
    BY <1>5, <2>2, <2>5 DEF zones, list, its
  <2>6. CASE /\ element.type = "conflict_zone" /\ its = lane
             /\ list = IF File!Contains(zones, element.id) THEN zones
                       ELSE File!Capped(zones, MaxZonesPerLane, element.id)
    <3>1. /\ Len(zones) <= Len(list)
          /\ \A j \in 1..Len(zones) : list[j] = zones[j]
          /\ \A j \in 1..Len(list) : j \in 1..Len(zones) \/ list[j] = element.id
      BY <1>4, <2>1, <2>2, <2>6, ListWithZone DEF zones
    <3> QED
      BY <1>5, <2>6, <3>1 DEF zones, list, its
  <2> QED
    BY <2>4, <2>5, <2>6
<1>7. \A x : NamesLane(element, x) => NamesLane(element', x)
  BY <1>5
<1> QED
  BY <1>2, <1>3, <1>6, <1>7, LanesStep

LEMMA BeginElementLanes ==
  ASSUME TablesInv, LanesInv, File!BeginElement
  PROVE  LanesInv'
<1> SUFFICES ASSUME NEW k \in 1..Len(map'.lanelets), FirstOfItsId(k)'
             PROVE  LaneListed(SoFar(document', element'), map'.lanelets[k].id,
                               map'.lanelets[k].zones)
  BY DEF LanesInv
<1> DEFINE es == document.elements
           fs == SoFar(document', element')
           zones == map.lanelets[k].zones
           lane == map.lanelets[k].id
<1>1. /\ SoFar(document, element) = es /\ element'.type # "none" /\ map' = map
      /\ element'.participants = <<>> /\ element' \in ElementsUnderWay /\ document' = document
  BY BeginElementGrows
<1>2. LaneListed(es, lane, zones) /\ k \in 1..Len(map.lanelets)
  BY <1>1 DEF LanesInv, FirstOfItsId
<1>3. map.lanelets[k] \in LoadedLanelets /\ LaneZonesFit(zones)
  BY <1>2 DEF TablesInv, FileForm, FileMaps, TablesFit
<1>4. zones \in Seq(ZoneRefs) /\ Len(zones) <= MaxZonesPerLane /\ Len(zones) \in Nat
  BY <1>3 DEF LoadedLanelets, LaneZonesFit
<1>5. es \in Seq(ElementsRead) /\ Len(es) \in Nat
  BY DEF TablesInv, FileForm
<1>6. /\ fs \in Seq(ElementsRead) /\ Len(fs) = Len(es) + 1
      /\ fs[Len(fs)] = File!Read(element') /\ \A n \in 1..Len(es) : fs[n] = es[n]
  <2>1. /\ fs \in Seq(ElementsRead) /\ Len(fs) = Len(es) + 1 /\ fs[Len(fs)] = File!Read(element')
        /\ \A n \in 1..Len(fs) - 1 : fs[n] = es[n]
    BY <1>1, <1>5, SoFarForm
  <2> HIDE DEF es, fs
  <2>2. Len(fs) - 1 = Len(es)
    BY <1>5, <2>1
  <2> QED
    BY <2>1, <2>2
<1> HIDE DEF es, fs, zones, lane
<1>7. \A n \in 1..Len(fs) : Involves(fs[n], lane) => n \in 1..Len(es) /\ Involves(es[n], lane)
  <2> SUFFICES ASSUME NEW n \in 1..Len(fs), Involves(fs[n], lane)
               PROVE  n \in 1..Len(es) /\ Involves(es[n], lane)
    OBVIOUS
  <2>1. fs[Len(fs)].participants = <<>>
    BY <1>1, <1>6 DEF File!Read
  <2>2. n # Len(fs)
    BY <2>1 DEF Involves
  <2>3. n \in 1..Len(es)
    BY <1>5, <1>6, <2>2
  <2> QED
    BY <1>6, <2>3
<1>8. LaneListed(fs, lane, zones)
  <2>1. Len(es) <= Len(fs) /\ Len(zones) <= Len(zones)
    BY <1>4, <1>5, <1>6
  <2> QED
    BY <1>2, <1>4, <1>5, <1>6, <1>7, <2>1, LaneListGrows
<1> QED
  BY <1>1, <1>8 DEF fs, zones, lane

LEMMA ParseLaneletLanes ==
  ASSUME TablesInv, LanesInv, File!ParseLanelet
  PROVE  LanesInv'
<1>1. PICK tag \in LaneletTags :
        map' = [map EXCEPT !.lanelets = File!Capped(@, MaxLanelets, File!LoadedLanelet(tag))]
  BY DEF File!ParseLanelet
<1> DEFINE new == File!LoadedLanelet(tag)
<1>2. phase = "lanelets" /\ SoFar(document', element') = SoFar(document, element)
  BY ElementsStay DEF File!ParseLanelet
<1>3. SoFar(document, element) = <<>>
  BY <1>2 DEF TablesInv, ElementForm, SoFar
<1>4. /\ map.lanelets \in Seq(LoadedLanelets) /\ Len(map.lanelets) \in Nat
      /\ map'.lanelets = File!Capped(map.lanelets, MaxLanelets, new)
  BY <1>1 DEF TablesInv, FileForm, FileMaps
<1>5. new.zones = <<>>
  BY DEF File!LoadedLanelet
<1>6. ASSUME NEW x
      PROVE  LaneListed(<<>>, x, <<>>)
  BY DEF LaneListed
<1> SUFFICES ASSUME NEW k \in 1..Len(map'.lanelets), FirstOfItsId(k)'
             PROVE  LaneListed(<<>>, map'.lanelets[k].id, map'.lanelets[k].zones)
  BY <1>2, <1>3 DEF LanesInv
<1> HIDE DEF new
<1>7. \/ map'.lanelets = map.lanelets
      \/ /\ Len(map'.lanelets) = Len(map.lanelets) + 1
         /\ \A j \in 1..Len(map.lanelets) : map'.lanelets[j] = map.lanelets[j]
         /\ map'.lanelets[Len(map.lanelets) + 1] = new
  BY <1>4 DEF File!Capped
<1>8. k \in 1..Len(map.lanelets) \/ (k = Len(map.lanelets) + 1 /\ map'.lanelets[k] = new)
  BY <1>4, <1>7
<1>9. CASE k \in 1..Len(map.lanelets)
  <2>1. map'.lanelets[k] = map.lanelets[k] /\ FirstOfItsId(k)
    BY <1>4, <1>7, <1>9 DEF FirstOfItsId
  <2> QED
    BY <1>3, <1>9, <2>1 DEF LanesInv
<1>10. CASE map'.lanelets[k] = new
  BY <1>5, <1>6, <1>10
<1> QED
  BY <1>8, <1>9, <1>10

LEMMA LanesStay ==
  ASSUME TablesInv, LanesInv,
         File!ParseArea \/ File!EndOfScan \/ File!EndElement \/ UNCHANGED File!vars
  PROVE  LanesInv'
<1>1. SoFar(document', element') = SoFar(document, element)
  BY ElementsStay
<1>2. map'.lanelets = map.lanelets
  <2>1. CASE File!ParseArea
    <3>1. PICK area \in AreaTags : map' = File!StoreArea(map, area)
      BY <2>1 DEF File!ParseArea
    <3> QED
      BY <3>1, AreaStored DEF TablesInv, FileForm
  <2>2. CASE File!EndOfScan \/ File!EndElement \/ UNCHANGED File!vars
    BY <2>2 DEF File!EndOfScan, File!EndElement, File!vars
  <2> QED
    BY <2>1, <2>2
<1> QED
  BY <1>1, <1>2 DEF LanesInv, FirstOfItsId

ConflictInv == RelationsInv /\ LanesInv

LEMMA ConflictInvariant == File!Spec => []ConflictInv
<1>1. File!Init => ConflictInv
  <2> SUFFICES ASSUME File!Init
               PROVE  ConflictInv
    OBVIOUS
  <2>1. /\ map.relations = <<>> /\ map.lanelets = <<>> /\ SoFar(document, element) = <<>>
        /\ element.type = "none"
    BY DEF File!Init, File!NoElement, SoFar
  <2>2. RelationsKept(<<>>, <<>>, [r \in 1..0 |-> r])
    BY DEF RelationsKept
  <2>3. RelationsInv
    BY <2>1, <2>2 DEF RelationsInv
  <2>4. LanesInv
    BY <2>1 DEF LanesInv
  <2> QED
    BY <2>3, <2>4 DEF ConflictInv
<1>2. TablesInv /\ ConflictInv /\ [File!Next]_(File!vars) => ConflictInv'
  <2> SUFFICES ASSUME TablesInv, RelationsInv, LanesInv, [File!Next]_(File!vars)
               PROVE  RelationsInv' /\ LanesInv'
    BY DEF ConflictInv
  <2>1. CASE \/ File!ParseArea \/ File!ParseLanelet \/ File!EndOfScan \/ File!EndElement
             \/ UNCHANGED File!vars
    <3>1. RelationsInv'
      BY <2>1, ElementsStay DEF RelationsInv
    <3>2. LanesInv'
      BY <2>1, ParseLaneletLanes, LanesStay
    <3> QED
      BY <3>1, <3>2
  <2>2. CASE File!BeginElement
    BY <2>2, BeginElementRelations, BeginElementLanes
  <2>3. CASE File!ParseParticipant
    BY <2>3, ParseParticipantRelations, ParseParticipantLanes
  <2>4. CASE File!ParseAppliesTo
    BY <2>4, ParseAppliesToRelations, ParseAppliesToLanes
  <2> QED
    BY <2>1, <2>2, <2>3, <2>4 DEF File!Next
<1>3. File!Spec => []TablesInv
  <2>1. FileInv => TablesInv
    BY DEF FileInv
  <2> QED
    BY <2>1, FileInvariant, PTL
<1> QED
  BY <1>1, <1>2, <1>3, PTL DEF File!Spec

-----------------------------------------------------------------------------
(***************************************************************************)
(* The answers about a loaded file.                                        *)
(***************************************************************************)

\* The instance has a copy of Cardinality.
LEMMA CardinalityOfFile ==
  ASSUME NEW S
  PROVE  File!Cardinality(S) = Cardinality(S)
BY DEF File!Cardinality, Cardinality

\* Distinct members of a set that are no fewer than the set has are all of it.
LEMMA DistinctCover ==
  ASSUME NEW n \in Nat, NEW T, IsFiniteSet(T), NEW f \in [1..n -> T],
         \A k, j \in 1..n : f[k] = f[j] => k = j, Cardinality(T) <= n
  PROVE  \A t \in T : \E k \in 1..n : f[k] = t
<1>1. f \in Injection(1..n, T)
  BY DEF Injection, IsInjective
<1>2. Cardinality(1..n) = n
  BY FS_Interval
<1>3. Cardinality(T) \in Nat
  BY FS_CardinalityType
<1>4. n <= Cardinality(T) /\ (n = Cardinality(T) <=> f \in Surjection(1..n, T))
  BY <1>1, <1>2, FS_Injection
<1>5. f \in Surjection(1..n, T)
  BY <1>3, <1>4
<1> QED
  BY <1>5 DEF Surjection

LEMMA ElementsFinite ==
  ASSUME TablesInv, NEW I \in SUBSET (1..Len(document.elements))
  PROVE  IsFiniteSet(I) /\ IsFiniteSet({document.elements[n].id : n \in I})
<1>1. Len(document.elements) \in Nat
  BY DEF TablesInv, FileForm
<1>2. IsFiniteSet(I)
  <2>1. IsFiniteSet(1..Len(document.elements))
    BY <1>1, FS_Interval
  <2> QED
    BY <2>1, FS_Subset
<1> DEFINE T == {document.elements[n].id : n \in I}
           f == [n \in I |-> document.elements[n].id]
<1>3. f \in Surjection(I, T)
  BY DEF Surjection
<1> QED
  BY <1>2, <1>3, FS_Surjection

LEMMA LoadedFile ==
  ASSUME TablesInv, phase = "loaded"
  PROVE  /\ SoFar(document, element) = document.elements
         /\ document.elements \in Seq(ElementsRead) /\ Len(document.elements) \in Nat
         /\ map.relations \in Seq(Relations) /\ Len(map.relations) \in Nat
         /\ File!ConflictElements =
              {n \in 1..Len(document.elements) : Conflicting(document.elements[n])}
         /\ \A n \in 1..Len(document.elements) :
              File!Named(document.elements[n]) = NamedPlaces(document.elements[n].participants)
<1>1. element.type = "none"
  BY DEF TablesInv, ElementForm
<1>2. /\ document.elements \in Seq(ElementsRead) /\ Len(document.elements) \in Nat
      /\ map.relations \in Seq(Relations) /\ Len(map.relations) \in Nat
  BY DEF TablesInv, FileForm, FileMaps
<1>3. DOMAIN document.elements = 1..Len(document.elements)
  BY <1>2
<1>4. File!ConflictElements =
        {n \in 1..Len(document.elements) : Conflicting(document.elements[n])}
  BY <1>3 DEF File!ConflictElements, File!Elements, Conflicting
<1>5. ASSUME NEW n \in 1..Len(document.elements)
      PROVE  File!Named(document.elements[n]) = NamedPlaces(document.elements[n].participants)
  <2>1. document.elements[n] \in ElementsRead
    BY <1>2
  <2>2. document.elements[n].participants \in Seq(Participants)
    BY <2>1, ReadForm
  <2>3. DOMAIN document.elements[n].participants = 1..Len(document.elements[n].participants)
    BY <2>2
  <2> QED
    BY <2>3 DEF File!Named, NamedPlaces
<1> QED
  BY <1>1, <1>2, <1>4, <1>5 DEF SoFar

LEMMA DeclaringForm ==
  ASSUME TablesInv, phase = "loaded", NEW lane, NEW movement
  PROVE  File!Declaring(lane, movement) =
           {n \in 1..Len(document.elements) :
              /\ Conflicting(document.elements[n])
              /\ File!Contains(document.elements[n].participants,
                               [lane |-> lane, movement |-> movement])}
BY LoadedFile DEF File!Declaring

\* A relation is crossed only by movements that its element declares,
LEMMA CrossingIsDeclared ==
  ASSUME TablesInv, phase = "loaded", NEW place,
         RelationsKept(document.elements, map.relations, place),
         NEW lane, NEW movement, NEW r \in 1..Len(map.relations),
         File!Crosses(map.relations[r], lane, movement)
  PROVE  /\ place[r] \in File!Declaring(lane, movement)
         /\ map.relations[r].zone = document.elements[place[r]].id
<1> DEFINE e == document.elements[place[r]]
           stored == map.relations[r].participants
           p == [lane |-> lane, movement |-> movement]
<1>1. /\ place[r] \in 1..Len(document.elements) /\ Conflicting(e)
      /\ map.relations[r].zone = e.id /\ Kept(stored, e.participants)
  BY DEF RelationsKept
<1>2. PICK k \in 1..Len(stored) : stored[k] = p
  BY DEF File!Crosses, File!Contains
<1>3. PICK j \in NamedPlaces(e.participants) : stored[k] = e.participants[j]
  BY <1>1 DEF Kept
<1>4. File!Contains(e.participants, p)
  BY <1>2, <1>3 DEF File!Contains, NamedPlaces
<1> QED
  BY <1>1, <1>4, DeclaringForm

\* and by all of these if the participants fit.
LEMMA DeclaredCrosses ==
  ASSUME TablesInv, phase = "loaded", File!ParticipantsFit, NEW place,
         RelationsKept(document.elements, map.relations, place),
         NEW lane, lane # NoId, NEW movement, NEW r \in 1..Len(map.relations),
         place[r] \in File!Declaring(lane, movement)
  PROVE  File!Crosses(map.relations[r], lane, movement)
<1> DEFINE n == place[r]
           e == document.elements[n]
           stored == map.relations[r].participants
           p == [lane |-> lane, movement |-> movement]
<1>1. n \in 1..Len(document.elements) /\ Conflicting(e) /\ File!Contains(e.participants, p)
  BY DeclaringForm
<1>2. Kept(stored, e.participants)
  BY DEF RelationsKept
<1>3. PICK j \in 1..Len(e.participants) : e.participants[j] = p
  BY <1>1 DEF File!Contains
<1>4. j \in NamedPlaces(e.participants)
  BY <1>3 DEF NamedPlaces
<1>5. Cardinality(NamedPlaces(e.participants)) <= MaxParticipants
  <2>1. n \in File!ConflictElements /\ File!Named(e) = NamedPlaces(e.participants)
    BY <1>1, LoadedFile
  <2>2. File!Cardinality(File!Named(e)) <= MaxParticipants
    BY <2>1 DEF File!ParticipantsFit
  <2> QED
    BY <2>1, <2>2, CardinalityOfFile
<1>6. PICK k \in 1..Len(stored) : stored[k] = e.participants[j]
  BY <1>2, <1>4, <1>5 DEF Kept
<1> QED
  BY <1>3, <1>6 DEF File!Crosses, File!Contains

\* No element is without its relation if the relations fit.
LEMMA AllRelationsKept ==
  ASSUME TablesInv, phase = "loaded", File!RelationsFit, NEW place,
         RelationsKept(document.elements, map.relations, place),
         NEW n \in File!ConflictElements
  PROVE  \E r \in 1..Len(map.relations) : place[r] = n
<1> DEFINE count == Len(map.relations)
<1>1. /\ n \in 1..Len(document.elements) /\ Conflicting(document.elements[n]) /\ count \in Nat
      /\ File!ConflictElements =
           {j \in 1..Len(document.elements) : Conflicting(document.elements[j])}
  BY LoadedFile
<1>2. SUFFICES ASSUME count = MaxRelations
               PROVE  \E r \in 1..count : place[r] = n
  BY <1>1 DEF RelationsKept
<1>3. IsFiniteSet(File!ConflictElements)
  BY <1>1, ElementsFinite
<1>4. place \in [1..count -> File!ConflictElements]
  BY <1>1 DEF RelationsKept
<1>5. \A r, q \in 1..count : place[r] = place[q] => r = q
  <2> SUFFICES ASSUME NEW r \in 1..count, NEW q \in 1..count, place[r] = place[q]
               PROVE  r = q
    OBVIOUS
  <2>1. ~(place[r] < place[q]) /\ ~(place[q] < place[r])
    BY <1>1, <1>4
  <2>2. ~(r < q) /\ ~(q < r)
    BY <2>1 DEF RelationsKept
  <2> QED
    BY <1>1, <2>2
<1>6. Cardinality(File!ConflictElements) <= count
  BY <1>2, CardinalityOfFile DEF File!RelationsFit
<1>7. count \in Nat
  BY <1>1
<1> HIDE DEF count
<1>8. \A t \in File!ConflictElements : \E r \in 1..count : place[r] = t
  BY <1>3, <1>4, <1>5, <1>6, <1>7, DistinctCover
<1> QED
  BY <1>8

\* So an answer is what the file declares, up to where the room ends.
LEMMA AnswerFollows ==
  ASSUME TablesInv, RelationsInv, phase = "loaded",
         NEW lane, lane # NoId, NEW movement, NEW max \in Nat
  PROVE  LET answer == File!ZonesForMovement(map, lane, movement, max)
             declared == File!DeclaredZones(lane, movement)
         IN  /\ answer \in Seq(ZoneRefs) /\ File!ToSet(answer) \subseteq declared
             /\ \A j, k \in DOMAIN answer : answer[j] = answer[k] => j = k
             /\ File!ParticipantsFit =>
                  \A k \in DOMAIN answer, zone \in declared :
                    File!Declared(zone, lane, movement) < File!Declared(answer[k], lane, movement) =>
                      \E j \in 1..k - 1 : answer[j] = zone
             /\ Len(answer) <= max
             /\ File!ParticipantsFit /\ File!RelationsFit /\ Len(answer) < max =>
                  declared \subseteq File!ToSet(answer)
<1> DEFINE answer == File!ZonesForMovement(map, lane, movement, max)
           declared == File!DeclaredZones(lane, movement)
           declaring == File!Declaring(lane, movement)
           count == Len(map.relations)
<1>1. PICK place : RelationsKept(document.elements, map.relations, place)
  BY LoadedFile DEF RelationsInv
<1>2. AnswerMade(answer, count, map, lane, movement, max)
  BY LoadedFile, AnswerIsMade
<1>3. declared = {document.elements[n].id : n \in declaring}
  BY DEF File!DeclaredZones
<1>4. /\ declaring \subseteq 1..Len(document.elements) /\ declaring \subseteq Nat
      /\ count \in Nat /\ Len(document.elements) \in Nat
      /\ \A n \in declaring : Conflicting(document.elements[n]) /\ n \in File!ConflictElements
  <2>1. count \in Nat /\ Len(document.elements) \in Nat
    BY LoadedFile
  <2>2. declaring \subseteq {n \in 1..Len(document.elements) : Conflicting(document.elements[n])}
    BY DeclaringForm
  <2>3. File!ConflictElements =
          {n \in 1..Len(document.elements) : Conflicting(document.elements[n])}
    BY LoadedFile
  <2> HIDE DEF declaring, count
  <2>4. declaring \subseteq 1..Len(document.elements)
    BY <2>2
  <2>5. declaring \subseteq Nat
    <3>1. 1..Len(document.elements) \subseteq Nat
      BY <2>1
    <3> QED
      BY <2>4, <3>1
  <2>6. \A n \in declaring : Conflicting(document.elements[n]) /\ n \in File!ConflictElements
    BY <2>2, <2>3
  <2> QED
    BY <2>1, <2>4, <2>5, <2>6
<1>5. \A r \in 1..count : File!Crosses(map.relations[r], lane, movement) =>
        place[r] \in declaring /\ map.relations[r].zone = document.elements[place[r]].id
  BY <1>1, CrossingIsDeclared
<1>6. answer \in Seq(ZoneRefs) /\ Len(answer) <= max /\ DOMAIN answer = 1..Len(answer)
      /\ Len(answer) \in Nat
  BY <1>2 DEF AnswerMade
<1> HIDE DEF answer, declared, declaring, count
<1>7. File!ToSet(answer) \subseteq declared
  <2>1. ASSUME NEW k \in 1..Len(answer)
        PROVE  answer[k] \in declared
    <3>1. PICK r \in 1..count : /\ File!Crosses(map.relations[r], lane, movement)
                                /\ map.relations[r].zone = answer[k]
      BY <1>2 DEF AnswerMade
    <3> QED
      BY <1>3, <1>5, <3>1
  <2> QED
    BY <1>6, <2>1 DEF File!ToSet
<1>8. ASSUME File!ParticipantsFit, NEW k \in 1..Len(answer), NEW zone \in declared,
             File!Declared(zone, lane, movement) < File!Declared(answer[k], lane, movement)
      PROVE  \E j \in 1..k - 1 : answer[j] = zone
  <2> DEFINE places(z) == {n \in declaring : document.elements[n].id = z}
             first == File!Declared(zone, lane, movement)
             its == File!Declared(answer[k], lane, movement)
  <2>1. first = File!Min(places(zone)) /\ its = File!Min(places(answer[k]))
    BY DEF File!Declared, declaring
  <2>2. first \in places(zone)
    <3>1. places(zone) # {} /\ places(zone) \in SUBSET Nat
      BY <1>3, <1>4
    <3> HIDE DEF places
    <3> QED
      BY <2>1, <3>1, MinimumOf
  <2>3. PICK r \in 1..count :
          /\ File!Crosses(map.relations[r], lane, movement) /\ map.relations[r].zone = answer[k]
          /\ \A q \in 1..r - 1 : File!Crosses(map.relations[q], lane, movement) =>
               \E j \in 1..k - 1 : answer[j] = map.relations[q].zone
    BY <1>2 DEF AnswerMade
  <2>4. its \in Nat /\ its <= place[r] /\ place[r] \in Nat
    <3>1. place[r] \in places(answer[k]) /\ places(answer[k]) \in SUBSET Nat
      BY <1>4, <1>5, <2>3
    <3>2. its \in places(answer[k]) /\ \A n \in places(answer[k]) : its <= n
      <4> HIDE DEF places, its
      <4> QED
        BY <2>1, <3>1, MinimumOf
    <3> QED
      BY <3>1, <3>2
  <2> HIDE DEF its
  <2>5. first \in declaring /\ document.elements[first].id = zone /\ first \in Nat
    BY <1>4, <2>2
  <2>6. first < place[r]
    <3>1. first < its
      BY <1>8 DEF its
    <3> HIDE DEF first
    <3> QED
      BY <2>4, <2>5, <3>1
  <2> HIDE DEF first
  <2>7. PICK q \in 1..count : place[q] = first
    <3>1. ~(place[r] < first)
      BY <2>4, <2>5, <2>6
    <3>2. first \in 1..Len(document.elements) /\ Conflicting(document.elements[first])
      BY <1>4, <2>5
    <3> QED
      BY <1>1, <3>1, <3>2 DEF RelationsKept, count
  <2>8. q < r
    <3>1. q # r /\ ~(place[r] < place[q])
      BY <2>4, <2>5, <2>6, <2>7
    <3>2. ~(r < q)
      BY <1>1, <3>1 DEF RelationsKept, count
    <3> QED
      BY <1>4, <3>1, <3>2
  <2>9. File!Crosses(map.relations[q], lane, movement)
    BY <1>1, <1>8, <2>5, <2>7, DeclaredCrosses DEF count, declaring
  <2>10. q \in 1..r - 1 /\ map.relations[q].zone = zone
    BY <1>4, <1>5, <2>5, <2>7, <2>8, <2>9
  <2> QED
    BY <2>3, <2>9, <2>10
<1>9. ASSUME File!ParticipantsFit, File!RelationsFit, Len(answer) < max
      PROVE  declared \subseteq File!ToSet(answer)
  <2> SUFFICES ASSUME NEW zone \in declared
               PROVE  zone \in File!ToSet(answer)
    OBVIOUS
  <2>1. PICK n \in declaring : document.elements[n].id = zone
    BY <1>3
  <2>2. PICK r \in 1..count : place[r] = n
    BY <1>1, <1>4, <1>9, <2>1, AllRelationsKept DEF count
  <2>3. File!Crosses(map.relations[r], lane, movement)
    BY <1>1, <1>9, <2>1, <2>2, DeclaredCrosses DEF count, declaring
  <2>4. PICK k \in 1..Len(answer) : answer[k] = map.relations[r].zone
    BY <1>2, <1>9, <2>3 DEF AnswerMade
  <2> QED
    BY <1>5, <1>6, <2>1, <2>2, <2>3, <2>4 DEF File!ToSet
<1>10. \A j, k \in 1..Len(answer) : answer[j] = answer[k] => j = k
  BY <1>2 DEF AnswerMade
<1> QED
  BY <1>6, <1>7, <1>8, <1>9, <1>10 DEF answer, declared

LEMMA AnswersHaveForm ==
  ASSUME TablesInv, RelationsInv
  PROVE  File!AnswersFollowTheFile
<1> SUFFICES ASSUME phase = "loaded", NEW lane \in LaneRefs \ {NoId},
                    NEW movement \in FileMovements, NEW max \in 1..MaxOut
             PROVE  LET answer == File!ZonesForMovement(map, lane, movement, max)
                        declared == File!DeclaredZones(lane, movement)
                    IN  /\ File!ToSet(answer) \subseteq declared
                        /\ \A j, k \in DOMAIN answer : answer[j] = answer[k] => j = k
                        /\ File!ParticipantsFit =>
                             \A k \in DOMAIN answer, zone \in declared :
                               File!Declared(zone, lane, movement)
                                   < File!Declared(answer[k], lane, movement) =>
                                 \E j \in 1..k - 1 : answer[j] = zone
                        /\ Len(answer) <= max
                        /\ File!ParticipantsFit /\ File!RelationsFit /\ Len(answer) < max =>
                             declared \subseteq File!ToSet(answer)
  BY DEF File!AnswersFollowTheFile
<1>1. max \in Nat /\ lane # NoId
  BY FileAssumption
<1> QED
  BY <1>1, AnswerFollows

LEMMA ConflictsAreSeen ==
  ASSUME TablesInv, RelationsInv
  PROVE  File!DeclaredConflictsAreSeen
<1>1. ASSUME phase = "loaded", File!RelationsFit, File!ParticipantsFit,
             NEW n \in File!ConflictElements, NEW k \in File!Named(document.elements[n]),
             File!Cardinality(File!DeclaredZones(document.elements[n].participants[k].lane,
                                document.elements[n].participants[k].movement)) <= MaxOut
      PROVE  document.elements[n].id \in File!ToSet(File!ZonesForMovement(map,
               document.elements[n].participants[k].lane,
               document.elements[n].participants[k].movement, MaxOut))
  <2> DEFINE e == document.elements[n]
             p == e.participants[k]
             answer == File!ZonesForMovement(map, p.lane, p.movement, MaxOut)
             declared == File!DeclaredZones(p.lane, p.movement)
             declaring == File!Declaring(p.lane, p.movement)
  <2>1. /\ n \in 1..Len(document.elements) /\ Conflicting(e)
        /\ document.elements \in Seq(ElementsRead) /\ k \in NamedPlaces(e.participants)
    BY <1>1, LoadedFile
  <2>2. k \in 1..Len(e.participants) /\ p.lane # NoId /\ p \in Participants
    <3>1. k \in 1..Len(e.participants) /\ p.lane # NoId
      BY <2>1 DEF NamedPlaces
    <3>2. e \in ElementsRead
      BY <2>1
    <3>3. e.participants \in Seq(Participants)
      BY <3>2, ReadForm
    <3> QED
      BY <3>1, <3>3
  <2>3. e.id \in declared
    <3>1. p = [lane |-> p.lane, movement |-> p.movement]
      BY <2>2 DEF Participants
    <3>2. File!Contains(e.participants, [lane |-> p.lane, movement |-> p.movement])
      BY <2>2, <3>1 DEF File!Contains
    <3>3. n \in declaring
      <4> HIDE DEF p, e
      <4> QED
        BY <1>1, <2>1, <3>2, DeclaringForm DEF e
    <3> QED
      BY <3>3 DEF File!DeclaredZones
  <2>4. MaxOut \in Nat
    BY FileAssumption
  <2>5. /\ answer \in Seq(ZoneRefs) /\ File!ToSet(answer) \subseteq declared
        /\ \A j, l \in DOMAIN answer : answer[j] = answer[l] => j = l
        /\ Len(answer) <= MaxOut
        /\ Len(answer) < MaxOut => declared \subseteq File!ToSet(answer)
    BY <1>1, <2>2, <2>4, AnswerFollows
  <2>6. IsFiniteSet(declared)
    <3>1. declaring \in SUBSET (1..Len(document.elements))
      BY <1>1, DeclaringForm
    <3>2. declared = {document.elements[j].id : j \in declaring}
      BY DEF File!DeclaredZones
    <3> HIDE DEF declared, declaring
    <3> QED
      BY <3>1, <3>2, ElementsFinite
  <2>7. Cardinality(declared) <= MaxOut
    BY <1>1, CardinalityOfFile
  <2> HIDE DEF answer, declared, declaring
  <2>8. CASE Len(answer) < MaxOut
    BY <2>3, <2>5, <2>8 DEF answer
  <2>9. CASE Len(answer) = MaxOut
    <3>1. DOMAIN answer = 1..MaxOut /\ answer \in [1..MaxOut -> declared]
      BY <2>5, <2>9 DEF File!ToSet
    <3>2. \A t \in declared : \E j \in 1..MaxOut : answer[j] = t
      BY <2>4, <2>5, <2>6, <2>7, <3>1, DistinctCover
    <3> QED
      BY <2>3, <3>1, <3>2 DEF File!ToSet, answer
  <2> QED
    BY <2>4, <2>5, <2>8, <2>9
<1> QED
  BY <1>1 DEF File!DeclaredConflictsAreSeen

LEMMA ListsCover ==
  ASSUME TablesInv, RelationsInv, LanesInv
  PROVE  File!LaneListCoversMovements
<1> DEFINE naming(lane) ==
             {n \in File!Elements("conflict_zone") :
                \/ File!Contains(document.elements[n].appliesTo, lane)
                \/ \E p \in File!ToSet(document.elements[n].participants) : p.lane = lane}
           named(lane) == {document.elements[n].id : n \in naming(lane)}
<1> SUFFICES ASSUME phase = "loaded", NEW lane \in LaneRefs \ {NoId},
                    File!IndexOf(map.lanelets, lane) # 0,
                    File!Cardinality(named(lane)) <= MaxZonesPerLane,
                    NEW movement \in FileMovements,
                    NEW zone \in File!ToSet(File!ZonesForMovement(map, lane, movement, MaxOut))
             PROVE  zone \in File!ToSet(File!ZonesOfLane(map, lane, MaxZonesPerLane))
  BY DEF File!LaneListCoversMovements
<1> DEFINE at == File!IndexOf(map.lanelets, lane)
           zones == map.lanelets[at].zones
<1>1. map.lanelets \in Seq(LoadedLanelets) /\ Len(map.lanelets) \in Nat
  BY DEF TablesInv, FileForm, FileMaps
<1>2. /\ at \in 1..Len(map.lanelets) /\ map.lanelets[at].id = lane /\ FirstOfItsId(at)
  <2>1. /\ at \in 0..Len(map.lanelets) /\ map.lanelets[at].id = lane
        /\ \A j \in 1..Len(map.lanelets) : map.lanelets[j].id = lane => at <= j
    BY <1>1, IndexOfFirst
  <2>2. at \in 1..Len(map.lanelets)
    BY <1>1, <2>1
  <2> HIDE DEF at
  <2> QED
    BY <2>1, <2>2 DEF FirstOfItsId
<1> HIDE DEF at
<1>3. map.lanelets[at] \in LoadedLanelets /\ LaneZonesFit(zones)
  BY <1>1, <1>2 DEF TablesInv, TablesFit
<1>4. /\ zones \in Seq(ZoneRefs) /\ Len(zones) \in Nat /\ Len(zones) <= MaxZonesPerLane
      /\ DOMAIN zones = 1..Len(zones) /\ MaxZonesPerLane \in Nat
      /\ \A k, j \in 1..Len(zones) : zones[k] = zones[j] => k = j
  <2>1. zones \in Seq(ZoneRefs)
    BY <1>3 DEF LoadedLanelets
  <2>2. /\ Len(zones) <= MaxZonesPerLane
        /\ \A k, j \in 1..Len(zones) : zones[k] = zones[j] => k = j
    BY <1>3 DEF LaneZonesFit
  <2> HIDE DEF zones
  <2> QED
    BY <2>1, <2>2, FileAssumption
<1>5. LaneListed(document.elements, lane, zones)
  BY <1>2, LoadedFile DEF LanesInv
<1> HIDE DEF zones
<1>6. File!ToSet(File!ZonesOfLane(map, lane, MaxZonesPerLane)) = {zones[k] : k \in 1..Len(zones)}
  <2>1. File!Min({MaxZonesPerLane, Len(zones)}) = Len(zones)
    <3>1. /\ {MaxZonesPerLane, Len(zones)} \in SUBSET Nat
          /\ {MaxZonesPerLane, Len(zones)} # {}
      BY <1>4
    <3>2. /\ File!Min({MaxZonesPerLane, Len(zones)}) \in {MaxZonesPerLane, Len(zones)}
          /\ File!Min({MaxZonesPerLane, Len(zones)}) <= Len(zones)
      BY <3>1, MinimumOf
    <3> QED
      BY <1>4, <3>2
  <2>2. File!ZonesOfLane(map, lane, MaxZonesPerLane) = SubSeq(zones, 1, Len(zones))
    BY <1>2, <2>1 DEF File!ZonesOfLane, at, zones
  <2>3. SubSeq(zones, 1, Len(zones)) = zones
    BY <1>4
  <2> QED
    BY <1>4, <2>2, <2>3 DEF File!ToSet
<1>7. PICK n \in 1..Len(document.elements) :
        Involves(document.elements[n], lane) /\ document.elements[n].id = zone
  <2>1. MaxOut \in Nat /\ lane # NoId
    BY FileAssumption
  <2>2. zone \in File!DeclaredZones(lane, movement)
    BY <2>1, AnswerFollows
  <2>3. PICK n \in File!Declaring(lane, movement) : document.elements[n].id = zone
    BY <2>2 DEF File!DeclaredZones
  <2>4. /\ n \in 1..Len(document.elements) /\ Conflicting(document.elements[n])
        /\ File!Contains(document.elements[n].participants,
                         [lane |-> lane, movement |-> movement])
    BY <2>3, DeclaringForm
  <2>5. Involves(document.elements[n], lane)
    BY <2>4 DEF Involves, Conflicting, File!Contains
  <2> QED
    BY <2>3, <2>4, <2>5
<1>8. ASSUME NEW j \in 1..Len(document.elements)
      PROVE  j \in naming(lane) <=> NamesLane(document.elements[j], lane)
  <2>1. document.elements \in Seq(ElementsRead) /\ DOMAIN document.elements = 1..Len(document.elements)
    BY LoadedFile
  <2>2. document.elements[j] \in ElementsRead
    BY <2>1
  <2>3. document.elements[j].participants \in Seq(Participants)
    BY <2>2, ReadForm
  <2>4. (\E p \in File!ToSet(document.elements[j].participants) : p.lane = lane) <=>
          \E k \in 1..Len(document.elements[j].participants) :
            document.elements[j].participants[k].lane = lane
    BY <2>3 DEF File!ToSet
  <2> QED
    BY <2>1, <2>4 DEF NamesLane, File!Elements
<1>9. naming(lane) \in SUBSET (1..Len(document.elements))
  BY LoadedFile DEF File!Elements
<1>10. IsFiniteSet(named(lane)) /\ Cardinality(named(lane)) <= MaxZonesPerLane
  <2>1. IsFiniteSet({document.elements[j].id : j \in naming(lane)})
    <3> HIDE DEF naming
    <3> QED
      BY <1>9, ElementsFinite
  <2> QED
    BY <2>1, CardinalityOfFile
<1> HIDE DEF naming
<1>11. zone \in named(lane)
  BY <1>7, <1>8 DEF NamesLane, Involves
<1>12. \A k \in 1..Len(zones) : zones[k] \in named(lane)
  <2> TAKE k \in 1..Len(zones)
  <2>1. PICK j \in 1..Len(document.elements) :
          document.elements[j].id = zones[k] /\ NamesLane(document.elements[j], lane)
    BY <1>5 DEF LaneListed
  <2> QED
    BY <1>8, <2>1
<1> HIDE DEF named
<1>13. CASE \E k \in 1..Len(zones) : zones[k] = zone
  BY <1>6, <1>13
<1>14. CASE Len(zones) = MaxZonesPerLane
  <2>1. zones \in [1..MaxZonesPerLane -> named(lane)]
    BY <1>4, <1>12, <1>14
  <2>2. \A t \in named(lane) : \E k \in 1..MaxZonesPerLane : zones[k] = t
    BY <1>4, <1>10, <1>14, <2>1, DistinctCover
  <2> QED
    BY <1>6, <1>11, <1>14, <2>2
<1> QED
  BY <1>5, <1>7, <1>13, <1>14 DEF LaneListed

\* What a query says of a lane and a movement is what the file declares, for every file
\* and whatever the sizes of the tables (ConflictsFollowTheFile).
THEOREM ConflictsCorrect == File!Spec => []ConflictsFollowTheFile
<1>1. TablesInv /\ ConflictInv => ConflictsFollowTheFile
  BY AnswersHaveForm, ConflictsAreSeen, ListsCover DEF ConflictInv, ConflictsFollowTheFile
<1>2. FileInv => TablesInv
  BY DEF FileInv
<1> QED
  BY <1>1, <1>2, FileInvariant, ConflictInvariant, PTL

-----------------------------------------------------------------------------
(***************************************************************************)
(* The shape of a lane or an area, for every file and every position.      *)
(* First the geometry of triangles: areas, heights, and the ray that       *)
(* point_in_polygon casts.                                                 *)
(***************************************************************************)
\* A position or a corner; twice the area of the triangle of three of them is Cross.
Point == [x : Int, y : Int]

\* The areas and the products of sides are numbers.
LEMMA CrossInt ==
  ASSUME NEW p \in Point, NEW a \in Point, NEW b \in Point
  PROVE  Shape!Cross(p, a, b) \in Int /\ Shape!Dot(p, a, b) \in Int
BY DEF Point, Shape!Cross, Shape!Dot

\* A side walked the other way: the areas change their sign and the border stays.
LEMMA SideTurned ==
  ASSUME NEW p \in Point, NEW a \in Point, NEW b \in Point
  PROVE  /\ Shape!Cross(p, b, a) = -Shape!Cross(p, a, b)
         /\ Shape!Dot(p, b, a) = Shape!Dot(b, a, b) - Shape!Dot(p, a, b)
         /\ Shape!Dot(b, a, b) = Shape!Dot(a, b, a)
BY DEF Point, Shape!Cross, Shape!Dot

\* The tests of point_in_polygon on the differences that they are made of.
LEMMA Heights ==
  ASSUME NEW p \in Point, NEW a \in Point, NEW b \in Point
  PROVE  /\ a.y - p.y \in Int
         /\ Shape!Crosses(p, a, b) <=>
              \/ a.y - p.y <= 0 /\ 0 < b.y - p.y /\ Shape!Cross(p, a, b) < 0
              \/ b.y - p.y <= 0 /\ 0 < a.y - p.y /\ Shape!Cross(p, a, b) > 0
<1>1. /\ p.x \in Int /\ p.y \in Int /\ a.x \in Int /\ a.y \in Int /\ b.x \in Int /\ b.y \in Int
  BY DEF Point
<1> DEFINE l == (p.x - a.x) * (b.y - a.y)
           m == (p.y - a.y) * (b.x - a.x)
<1>2. l \in Int /\ m \in Int /\ Shape!Cross(p, a, b) = l - m
  BY <1>1 DEF Shape!Cross
<1>3. m = (b.x - a.x) * (p.y - a.y)
  BY <1>1
<1>4. Shape!Crosses(p, a, b) <=> /\ (a.y > p.y) # (b.y > p.y)
                                 /\ IF b.y > a.y THEN l < m ELSE l > m
  BY <1>3 DEF Shape!Crosses
<1> HIDE DEF l, m
<1> QED
  BY <1>1, <1>2, <1>4

\* No side is crossed, or touched, more or less for being walked the other way.
LEMMA SidesTurned ==
  ASSUME NEW p \in Point, NEW a \in Point, NEW b \in Point
  PROVE  /\ Shape!Crosses(p, b, a) <=> Shape!Crosses(p, a, b)
         /\ Shape!OnSegment(p, b, a) <=> Shape!OnSegment(p, a, b)
<1>1. /\ Shape!Cross(p, a, b) \in Int /\ Shape!Cross(p, b, a) = -Shape!Cross(p, a, b)
      /\ Shape!Dot(p, a, b) \in Int /\ Shape!Dot(b, a, b) \in Int
      /\ Shape!Dot(p, b, a) = Shape!Dot(b, a, b) - Shape!Dot(p, a, b)
      /\ Shape!Dot(a, b, a) = Shape!Dot(b, a, b)
  BY SideTurned, CrossInt
<1>2. /\ a.y - p.y \in Int /\ b.y - p.y \in Int
      /\ Shape!Crosses(p, a, b) <=>
           \/ a.y - p.y <= 0 /\ 0 < b.y - p.y /\ Shape!Cross(p, a, b) < 0
           \/ b.y - p.y <= 0 /\ 0 < a.y - p.y /\ Shape!Cross(p, a, b) > 0
      /\ Shape!Crosses(p, b, a) <=>
           \/ b.y - p.y <= 0 /\ 0 < a.y - p.y /\ Shape!Cross(p, b, a) < 0
           \/ a.y - p.y <= 0 /\ 0 < b.y - p.y /\ Shape!Cross(p, b, a) > 0
  BY Heights
<1>3. Shape!Crosses(p, b, a) <=> Shape!Crosses(p, a, b)
  BY <1>1, <1>2
<1>4. Shape!OnSegment(p, b, a) <=> Shape!OnSegment(p, a, b)
  BY <1>1 DEF Shape!OnSegment
<1> QED
  BY <1>3, <1>4

\* The areas that a position spans with the sides of a triangle add up to its own,
\* and weigh the heights of the corners over the position to zero.
LEMMA Barycentric ==
  ASSUME NEW p \in Point, NEW a \in Point, NEW b \in Point, NEW c \in Point
  PROVE  /\ Shape!Cross(p, a, b) + Shape!Cross(p, b, c) + Shape!Cross(p, c, a)
              = Shape!Cross(c, a, b)
         /\ Shape!Cross(p, b, c) * (a.y - p.y) + Shape!Cross(p, c, a) * (b.y - p.y)
              + Shape!Cross(p, a, b) * (c.y - p.y) = 0
         /\ Shape!Cross(b, c, a) = Shape!Cross(c, a, b)
         /\ Shape!Cross(a, b, c) = Shape!Cross(c, a, b)
         /\ Shape!Cross(b, a, c) = -Shape!Cross(c, a, b)
BY DEF Point, Shape!Cross

\* Where a position on the line through a and b lies decides on which side of the
\* other two sides it is.
LEMMA OnLine ==
  ASSUME NEW p \in Point, NEW a \in Point, NEW b \in Point, NEW c \in Point,
         Shape!Cross(p, a, b) = 0
  PROVE  /\ Shape!Dot(b, a, b) * Shape!Cross(p, b, c) =
              (Shape!Dot(b, a, b) - Shape!Dot(p, a, b)) * Shape!Cross(c, a, b)
         /\ Shape!Dot(b, a, b) * Shape!Cross(p, c, a) =
              Shape!Dot(p, a, b) * Shape!Cross(c, a, b)
<1> DEFINE px == p.x - a.x  py == p.y - a.y
           bx == b.x - a.x  by == b.y - a.y
           cx == c.x - a.x  cy == c.y - a.y
<1>1. px \in Int /\ py \in Int /\ bx \in Int /\ by \in Int /\ cx \in Int /\ cy \in Int
  BY DEF Point
<1>2. /\ Shape!Cross(p, a, b) = px * by - py * bx
      /\ Shape!Cross(c, a, b) = cx * by - cy * bx
      /\ Shape!Cross(p, c, a) = py * cx - px * cy
      /\ Shape!Cross(p, b, c) = (px - bx) * (cy - by) - (py - by) * (cx - bx)
      /\ Shape!Dot(b, a, b) = bx * bx + by * by
      /\ Shape!Dot(p, a, b) = px * bx + py * by
  BY DEF Point, Shape!Cross, Shape!Dot
<1> HIDE DEF px, py, bx, by, cx, cy
<1>3. px * by - py * bx = 0
  BY <1>2
<1>4. (bx * bx + by * by) * (py * cx - px * cy) =
        (px * bx + py * by) * (cx * by - cy * bx)
  <2>1. (bx * bx + by * by) * (py * cx - px * cy) =
          (px * bx + py * by) * (cx * by - cy * bx) - (px * by - py * bx) * (bx * cx + by * cy)
    BY <1>1
  <2> QED
    BY <1>1, <1>3, <2>1
<1>5. (bx * bx + by * by) * ((px - bx) * (cy - by) - (py - by) * (cx - bx)) =
        (bx * bx + by * by - (px * bx + py * by)) * (cx * by - cy * bx)
  <2>1. (px - bx) * (cy - by) - (py - by) * (cx - bx)
          = cx * by - cy * bx - (py * cx - px * cy) - (px * by - py * bx)
    BY <1>1
  <2>2. (bx * bx + by * by) * ((px - bx) * (cy - by) - (py - by) * (cx - bx))
          = (bx * bx + by * by) * (cx * by - cy * bx) - (bx * bx + by * by) * (py * cx - px * cy)
    BY <1>1, <1>3, <2>1
  <2>3. (bx * bx + by * by - (px * bx + py * by)) * (cx * by - cy * bx)
          = (bx * bx + by * by) * (cx * by - cy * bx) - (px * bx + py * by) * (cx * by - cy * bx)
    BY <1>1
  <2> QED
    BY <1>4, <2>2, <2>3
<1> QED
  <2>1. /\ Shape!Dot(b, a, b) - Shape!Dot(p, a, b) = bx * bx + by * by - (px * bx + py * by)
    BY <1>1, <1>2
  <2> QED
    BY <1>2, <1>4, <1>5, <2>1

\* Four corners: the area with the third side from those with the second and the cut.
LEMMA FourCorners ==
  ASSUME NEW p \in Point, NEW a \in Point, NEW b \in Point, NEW c \in Point, NEW d \in Point
  PROVE  Shape!Cross(c, a, b) * Shape!Cross(p, c, d) =
           Shape!Cross(p, b, c) * Shape!Cross(d, a, c) + Shape!Cross(p, c, a) * Shape!Cross(d, b, c)
<1> DEFINE px == p.x - c.x  py == p.y - c.y
           ax == a.x - c.x  ay == a.y - c.y
           bx == b.x - c.x  by == b.y - c.y
           dx == d.x - c.x  dy == d.y - c.y
<1>1. /\ px \in Int /\ py \in Int /\ ax \in Int /\ ay \in Int
      /\ bx \in Int /\ by \in Int /\ dx \in Int /\ dy \in Int
  BY DEF Point
<1>2. /\ Shape!Cross(c, a, b) = ay * bx - ax * by
      /\ Shape!Cross(p, c, d) = px * dy - py * dx
      /\ Shape!Cross(p, b, c) = py * bx - px * by
      /\ Shape!Cross(d, a, c) = dy * ax - dx * ay
      /\ Shape!Cross(p, c, a) = px * ay - py * ax
      /\ Shape!Cross(d, b, c) = dy * bx - dx * by
  BY DEF Point, Shape!Cross
<1> HIDE DEF px, py, ax, ay, bx, by, dx, dy
<1>3. (ay * bx - ax * by) * (px * dy - py * dx) =
        (py * bx - px * by) * (dy * ax - dx * ay) + (px * ay - py * ax) * (dy * bx - dx * by)
  BY <1>1
<1> QED
  BY <1>2, <1>3

\* The signs of products, which the areas are compared by.
LEMMA Signs ==
  ASSUME NEW x \in Int, NEW y \in Int
  PROVE  /\ x * y \in Int
         /\ x > 0 /\ y > 0 => x * y > 0
         /\ x < 0 /\ y > 0 => x * y < 0
         /\ x > 0 /\ y < 0 => x * y < 0
         /\ x < 0 /\ y < 0 => x * y > 0
         /\ x = 0 => x * y = 0
         /\ y = 0 => x * y = 0
OBVIOUS

\* The sides of a triangle that has an area are not points.
LEMMA SideHasLength ==
  ASSUME NEW a \in Point, NEW b \in Point, NEW c \in Point, Shape!Cross(c, a, b) # 0
  PROVE  Shape!Dot(b, a, b) > 0
<1> DEFINE bx == b.x - a.x  by == b.y - a.y
           cx == c.x - a.x  cy == c.y - a.y
<1>1. bx \in Int /\ by \in Int /\ cx \in Int /\ cy \in Int
  BY DEF Point
<1>2. Shape!Cross(c, a, b) = cx * by - cy * bx /\ Shape!Dot(b, a, b) = bx * bx + by * by
  BY DEF Point, Shape!Cross, Shape!Dot
<1> HIDE DEF bx, by, cx, cy
<1>3. bx # 0 \/ by # 0
  BY <1>1, <1>2
<1>4. bx * bx \in Int /\ by * by \in Int /\ bx * bx >= 0 /\ by * by >= 0
  BY <1>1, Signs
<1>5. bx * bx > 0 \/ by * by > 0
  BY <1>1, <1>3, Signs
<1> QED
  BY <1>2, <1>4, <1>5

\* A position is on a side, and not only on its line, exactly when the other two sides
\* have it on their inner side or through it.
LEMMA OnSideOfTriangle ==
  ASSUME NEW p \in Point, NEW a \in Point, NEW b \in Point, NEW c \in Point,
         Shape!Cross(c, a, b) > 0
  PROVE  Shape!OnSegment(p, a, b) <=>
           Shape!Cross(p, a, b) = 0 /\ Shape!Cross(p, b, c) >= 0 /\ Shape!Cross(p, c, a) >= 0
<1> DEFINE area == Shape!Cross(c, a, b)
           long == Shape!Dot(b, a, b)
           d == Shape!Dot(p, a, b)
           u == Shape!Cross(p, b, c)
           v == Shape!Cross(p, c, a)
<1>1. area \in Int /\ long \in Int /\ d \in Int /\ u \in Int /\ v \in Int
  BY CrossInt
<1>2. area > 0 /\ long > 0
  BY <1>1, SideHasLength
<1>3. SUFFICES ASSUME Shape!Cross(p, a, b) = 0
               PROVE  d >= 0 /\ d <= long <=> u >= 0 /\ v >= 0
  BY DEF Shape!OnSegment
<1>4. long * u = (long - d) * area /\ long * v = d * area
  BY <1>3, OnLine
<1> HIDE DEF area, long, d, u, v
<1>5. d >= 0 <=> v >= 0
  <2>1. (d > 0 => d * area > 0) /\ (d < 0 => d * area < 0) /\ (d = 0 => d * area = 0)
    BY <1>1, <1>2, Signs
  <2>2. (v > 0 => long * v > 0) /\ (v < 0 => long * v < 0) /\ (v = 0 => long * v = 0)
    BY <1>1, <1>2, Signs
  <2>3. d * area \in Int
    BY <1>1
  <2> QED
    BY <1>1, <1>4, <2>1, <2>2, <2>3
<1>6. d <= long <=> u >= 0
  <2> DEFINE e == long - d
  <2>0. e \in Int /\ (d <= long <=> e >= 0) /\ long * u = e * area
    BY <1>1, <1>4
  <2> HIDE DEF e
  <2>1. (e > 0 => e * area > 0) /\ (e < 0 => e * area < 0) /\ (e = 0 => e * area = 0)
    BY <1>1, <1>2, <2>0, Signs
  <2>2. (u > 0 => long * u > 0) /\ (u < 0 => long * u < 0) /\ (u = 0 => long * u = 0)
    BY <1>1, <1>2, Signs
  <2>3. e * area \in Int
    BY <1>1, <2>0
  <2> QED
    BY <1>1, <2>0, <2>1, <2>2, <2>3
<1> QED
  BY <1>5, <1>6

\* The ray meets a triangle where one corner is alone above it, or alone not above:
\* the position is inside exactly when one of that corner's two sides is crossed.
LEMMA OneCornerApart ==
  ASSUME NEW u \in Int, NEW v \in Int, NEW w \in Int, u + v + w > 0,
         NEW h \in Int, NEW k \in Int, NEW l \in Int, u * h + v * k + w * l = 0,
         u >= 0 /\ v >= 0 /\ w >= 0 => u # 0 /\ v # 0 /\ w # 0
  PROVE  /\ h > 0 /\ k <= 0 /\ l <= 0 => (u >= 0 /\ v >= 0 /\ w >= 0 <=> (w > 0) # (v < 0))
         /\ h <= 0 /\ k > 0 /\ l > 0 => (u >= 0 /\ v >= 0 /\ w >= 0 <=> (w < 0) # (v > 0))
<1>1. /\ u * h \in Int /\ v * k \in Int /\ w * l \in Int
  OBVIOUS
<1>2. /\ u > 0 /\ h > 0 => u * h > 0
      /\ u < 0 /\ h > 0 => u * h < 0
      /\ u > 0 /\ h <= 0 => u * h <= 0
      /\ u < 0 /\ h <= 0 => u * h >= 0
      /\ u = 0 => u * h = 0
  BY Signs
<1>3. /\ v > 0 /\ k > 0 => v * k > 0
      /\ v < 0 /\ k > 0 => v * k < 0
      /\ v > 0 /\ k <= 0 => v * k <= 0
      /\ v < 0 /\ k <= 0 => v * k >= 0
      /\ v = 0 => v * k = 0
  BY Signs
<1>4. /\ w > 0 /\ l > 0 => w * l > 0
      /\ w < 0 /\ l > 0 => w * l < 0
      /\ w > 0 /\ l <= 0 => w * l <= 0
      /\ w < 0 /\ l <= 0 => w * l >= 0
      /\ w = 0 => w * l = 0
  BY Signs
<1> QED
  BY <1>1, <1>2, <1>3, <1>4

\* On the inner side of all sides; on one of them; an odd number of them crossed.
InTriangle(p, a, b, c) ==
  Shape!Cross(p, a, b) >= 0 /\ Shape!Cross(p, b, c) >= 0 /\ Shape!Cross(p, c, a) >= 0
OnTriangle(p, a, b, c) ==
  Shape!OnSegment(p, a, b) \/ Shape!OnSegment(p, b, c) \/ Shape!OnSegment(p, c, a)
CrossesOddly(p, a, b, c) ==
  (Shape!Crosses(p, a, b) <=> Shape!Crosses(p, b, c)) <=> Shape!Crosses(p, c, a)

\* The sides are what a triangle holds of their lines.
LEMMA TriangleBorder ==
  ASSUME NEW p \in Point, NEW a \in Point, NEW b \in Point, NEW c \in Point,
         Shape!Cross(c, a, b) > 0
  PROVE  OnTriangle(p, a, b, c) <=>
           /\ InTriangle(p, a, b, c)
           /\ \/ Shape!Cross(p, a, b) = 0
              \/ Shape!Cross(p, b, c) = 0
              \/ Shape!Cross(p, c, a) = 0
<1>1. Shape!Cross(a, b, c) > 0 /\ Shape!Cross(b, c, a) > 0
  BY Barycentric
<1>2. Shape!OnSegment(p, a, b) <=>
        Shape!Cross(p, a, b) = 0 /\ Shape!Cross(p, b, c) >= 0 /\ Shape!Cross(p, c, a) >= 0
  BY OnSideOfTriangle
<1>3. Shape!OnSegment(p, b, c) <=>
        Shape!Cross(p, b, c) = 0 /\ Shape!Cross(p, c, a) >= 0 /\ Shape!Cross(p, a, b) >= 0
  BY <1>1, OnSideOfTriangle
<1>4. Shape!OnSegment(p, c, a) <=>
        Shape!Cross(p, c, a) = 0 /\ Shape!Cross(p, a, b) >= 0 /\ Shape!Cross(p, b, c) >= 0
  BY <1>1, OnSideOfTriangle
<1>5. Shape!Cross(p, a, b) \in Int /\ Shape!Cross(p, b, c) \in Int /\ Shape!Cross(p, c, a) \in Int
  BY CrossInt
<1> QED
  BY <1>2, <1>3, <1>4, <1>5 DEF OnTriangle, InTriangle

\* The ray casting of a triangle is its three half-planes.
LEMMA TriangleHolds ==
  ASSUME NEW p \in Point, NEW a \in Point, NEW b \in Point, NEW c \in Point,
         Shape!Cross(c, a, b) > 0
  PROVE  InTriangle(p, a, b, c) <=> OnTriangle(p, a, b, c) \/ CrossesOddly(p, a, b, c)
<1> DEFINE u == Shape!Cross(p, b, c)
           v == Shape!Cross(p, c, a)
           w == Shape!Cross(p, a, b)
           h == a.y - p.y
           k == b.y - p.y
           l == c.y - p.y
<1>1. u \in Int /\ v \in Int /\ w \in Int /\ h \in Int /\ k \in Int /\ l \in Int
  BY CrossInt, Heights
<1>2. u + v + w > 0 /\ u * h + v * k + w * l = 0
  <2>1. w + u + v = Shape!Cross(c, a, b) /\ u * h + v * k + w * l = 0
    BY Barycentric
  <2> QED
    BY <1>1, <2>1
<1>3. /\ Shape!Crosses(p, a, b) <=> (h <= 0 /\ 0 < k /\ w < 0) \/ (k <= 0 /\ 0 < h /\ w > 0)
      /\ Shape!Crosses(p, b, c) <=> (k <= 0 /\ 0 < l /\ u < 0) \/ (l <= 0 /\ 0 < k /\ u > 0)
      /\ Shape!Crosses(p, c, a) <=> (l <= 0 /\ 0 < h /\ v < 0) \/ (h <= 0 /\ 0 < l /\ v > 0)
  BY Heights
<1>4. OnTriangle(p, a, b, c) <=>
        u >= 0 /\ v >= 0 /\ w >= 0 /\ (u = 0 \/ v = 0 \/ w = 0)
  BY <1>1, TriangleBorder DEF InTriangle
<1>5. InTriangle(p, a, b, c) <=> u >= 0 /\ v >= 0 /\ w >= 0
  BY DEF InTriangle
<1> HIDE DEF u, v, w, h, k, l
<1>6. SUFFICES ASSUME u >= 0 /\ v >= 0 /\ w >= 0 => u # 0 /\ v # 0 /\ w # 0
               PROVE  u >= 0 /\ v >= 0 /\ w >= 0 <=> CrossesOddly(p, a, b, c)
  BY <1>1, <1>4, <1>5
<1>7. CASE (h > 0 /\ k <= 0 /\ l <= 0) \/ (h <= 0 /\ k > 0 /\ l > 0)
  <2>1. /\ h > 0 /\ k <= 0 /\ l <= 0 => (u >= 0 /\ v >= 0 /\ w >= 0 <=> (w > 0) # (v < 0))
        /\ h <= 0 /\ k > 0 /\ l > 0 => (u >= 0 /\ v >= 0 /\ w >= 0 <=> (w < 0) # (v > 0))
    BY <1>1, <1>2, <1>6, OneCornerApart
  <2> QED
    BY <1>1, <1>3, <1>7, <2>1 DEF CrossesOddly
<1>8. CASE (k > 0 /\ l <= 0 /\ h <= 0) \/ (k <= 0 /\ l > 0 /\ h > 0)
  <2>0. v + w + u > 0 /\ v * k + w * l + u * h = 0
    BY <1>1, <1>2
  <2>1. /\ k > 0 /\ l <= 0 /\ h <= 0 => (v >= 0 /\ w >= 0 /\ u >= 0 <=> (u > 0) # (w < 0))
        /\ k <= 0 /\ l > 0 /\ h > 0 => (v >= 0 /\ w >= 0 /\ u >= 0 <=> (u < 0) # (w > 0))
    BY <1>1, <1>6, <2>0, OneCornerApart
  <2> QED
    BY <1>1, <1>3, <1>8, <2>1 DEF CrossesOddly
<1>9. CASE (l > 0 /\ h <= 0 /\ k <= 0) \/ (l <= 0 /\ h > 0 /\ k > 0)
  <2>0. w + u + v > 0 /\ w * l + u * h + v * k = 0
    BY <1>1, <1>2
  <2>1. /\ l > 0 /\ h <= 0 /\ k <= 0 => (w >= 0 /\ u >= 0 /\ v >= 0 <=> (v > 0) # (u < 0))
        /\ l <= 0 /\ h > 0 /\ k > 0 => (w >= 0 /\ u >= 0 /\ v >= 0 <=> (v < 0) # (u > 0))
    BY <1>1, <1>6, <2>0, OneCornerApart
  <2> QED
    BY <1>1, <1>3, <1>9, <2>1 DEF CrossesOddly
<1>10. CASE (h > 0 /\ k > 0 /\ l > 0) \/ (h <= 0 /\ k <= 0 /\ l <= 0)
  <2>1. ~CrossesOddly(p, a, b, c)
    BY <1>1, <1>3, <1>10 DEF CrossesOddly
  <2>2. ASSUME u >= 0 /\ v >= 0 /\ w >= 0
        PROVE  FALSE
    <3>1. u > 0 /\ v > 0 /\ w > 0
      BY <1>1, <1>6, <2>2
    <3>2. /\ u * h \in Int /\ v * k \in Int /\ w * l \in Int
          /\ h > 0 => u * h > 0
          /\ h < 0 => u * h < 0
          /\ h = 0 => u * h = 0
          /\ k > 0 => v * k > 0
          /\ k < 0 => v * k < 0
          /\ k = 0 => v * k = 0
          /\ l > 0 => w * l > 0
          /\ l < 0 => w * l < 0
          /\ l = 0 => w * l = 0
      BY <1>1, <3>1, Signs
    <3>3. h = 0 /\ k = 0 /\ l = 0
      BY <1>1, <1>2, <1>10, <3>2
    <3>4. a.y = p.y /\ b.y = p.y /\ c.y = p.y
      BY <3>3 DEF h, k, l, Point
    <3>5. Shape!Cross(c, a, b) = 0
      BY <3>4 DEF Shape!Cross, Point
    <3> QED
      BY <3>5
  <2> QED
    BY <2>1, <2>2
<1>11. \/ (h > 0 /\ k <= 0 /\ l <= 0) \/ (h <= 0 /\ k > 0 /\ l > 0)
       \/ (k > 0 /\ l <= 0 /\ h <= 0) \/ (k <= 0 /\ l > 0 /\ h > 0)
       \/ (l > 0 /\ h <= 0 /\ k <= 0) \/ (l <= 0 /\ h > 0 /\ k > 0)
       \/ (h > 0 /\ k > 0 /\ l > 0) \/ (h <= 0 /\ k <= 0 /\ l <= 0)
  BY <1>1
<1> QED
  BY <1>7, <1>8, <1>9, <1>10, <1>11

-----------------------------------------------------------------------------
(***************************************************************************)
(* Four corners that turn the same way: two triangles along a cut.         *)
(***************************************************************************)
\* The same for four corners that turn the same way.
ConvexFour(a, b, c, d) ==
  /\ Shape!Cross(c, a, b) > 0 /\ Shape!Cross(d, b, c) > 0
  /\ Shape!Cross(a, c, d) > 0 /\ Shape!Cross(b, d, a) > 0
InFour(p, a, b, c, d) ==
  /\ Shape!Cross(p, a, b) >= 0 /\ Shape!Cross(p, b, c) >= 0
  /\ Shape!Cross(p, c, d) >= 0 /\ Shape!Cross(p, d, a) >= 0
OnFour(p, a, b, c, d) ==
  \/ Shape!OnSegment(p, a, b) \/ Shape!OnSegment(p, b, c)
  \/ Shape!OnSegment(p, c, d) \/ Shape!OnSegment(p, d, a)
FourCrossedOddly(p, a, b, c, d) ==
  ~((Shape!Crosses(p, a, b) <=> Shape!Crosses(p, b, c))
      <=> (Shape!Crosses(p, c, d) <=> Shape!Crosses(p, d, a)))

\* Division by an area leaves the sign.
LEMMA QuotientSign ==
  ASSUME NEW area \in Int, NEW q \in Int, NEW u \in Int, NEW v \in Int, NEW k \in Int, NEW l \in Int,
         area > 0, u >= 0, v >= 0, k > 0, l > 0, area * q = u * k + v * l
  PROVE  q >= 0
<1>1. u * k \in Int /\ v * l \in Int /\ u * k >= 0 /\ v * l >= 0
  <2>1. /\ u * k \in Int /\ v * l \in Int
        /\ (u = 0 => u * k = 0) /\ (u > 0 => u * k > 0)
        /\ (v = 0 => v * l = 0) /\ (v > 0 => v * l > 0)
    BY Signs
  <2> QED
    BY <2>1
<1>2. q < 0 => area * q < 0
  BY Signs
<1> QED
  BY <1>1, <1>2

\* A convex quadrangle holds the triangle that a cut makes of it,
LEMMA FourHoldThree ==
  ASSUME NEW p \in Point, NEW a \in Point, NEW b \in Point, NEW c \in Point, NEW d \in Point,
         ConvexFour(a, b, c, d), InTriangle(p, a, b, c)
  PROVE  InFour(p, a, b, c, d)
<1>0. /\ Shape!Cross(c, a, b) \in Int /\ Shape!Cross(d, a, c) \in Int /\ Shape!Cross(d, b, c) \in Int
      /\ Shape!Cross(p, a, b) \in Int /\ Shape!Cross(p, b, c) \in Int /\ Shape!Cross(p, c, a) \in Int
      /\ Shape!Cross(p, c, d) \in Int /\ Shape!Cross(p, d, a) \in Int /\ Shape!Cross(d, a, b) \in Int
  BY CrossInt
<1>1. /\ Shape!Cross(c, a, b) > 0 /\ Shape!Cross(d, a, c) > 0
      /\ Shape!Cross(d, b, c) > 0 /\ Shape!Cross(d, a, b) > 0
  <2>1. Shape!Cross(d, a, c) = Shape!Cross(a, c, d) /\ Shape!Cross(d, a, b) = Shape!Cross(b, d, a)
    BY Barycentric
  <2> QED
    BY <2>1 DEF ConvexFour
<1>2. /\ Shape!Cross(p, a, b) >= 0 /\ Shape!Cross(p, b, c) >= 0 /\ Shape!Cross(p, c, a) >= 0
  BY DEF InTriangle
<1>3. Shape!Cross(p, c, d) >= 0
  <2>1. Shape!Cross(c, a, b) * Shape!Cross(p, c, d) =
           Shape!Cross(p, b, c) * Shape!Cross(d, a, c) + Shape!Cross(p, c, a) * Shape!Cross(d, b, c)
    BY FourCorners
  <2> QED
    BY <1>0, <1>1, <1>2, <2>1, QuotientSign
<1>4. Shape!Cross(p, d, a) >= 0
  <2>1. Shape!Cross(a, c, b) * Shape!Cross(p, a, d) =
           Shape!Cross(p, b, a) * Shape!Cross(d, c, a) + Shape!Cross(p, a, c) * Shape!Cross(d, b, a)
    BY FourCorners
  <2>2. /\ Shape!Cross(a, c, b) = -Shape!Cross(c, a, b)
        /\ Shape!Cross(p, a, d) = -Shape!Cross(p, d, a)
        /\ Shape!Cross(p, b, a) = -Shape!Cross(p, a, b)
        /\ Shape!Cross(d, c, a) = -Shape!Cross(d, a, c)
        /\ Shape!Cross(p, a, c) = -Shape!Cross(p, c, a)
        /\ Shape!Cross(d, b, a) = -Shape!Cross(d, a, b)
    <3>1. Shape!Cross(a, c, b) = -Shape!Cross(a, b, c) /\ Shape!Cross(a, b, c) = Shape!Cross(c, a, b)
      BY SideTurned, Barycentric
    <3> QED
      BY <3>1, SideTurned
  <2>3. Shape!Cross(c, a, b) * Shape!Cross(p, d, a) =
           Shape!Cross(p, a, b) * Shape!Cross(d, a, c) + Shape!Cross(p, c, a) * Shape!Cross(d, a, b)
    BY <1>0, <2>1, <2>2
  <2> QED
    BY <1>0, <1>1, <1>2, <2>3, QuotientSign
<1> QED
  BY <1>2, <1>3, <1>4 DEF InFour

\* and nothing but the two triangles on both sides of the cut.
LEMMA FourAreTwoTriangles ==
  ASSUME NEW p \in Point, NEW a \in Point, NEW b \in Point, NEW c \in Point, NEW d \in Point,
         ConvexFour(a, b, c, d)
  PROVE  InFour(p, a, b, c, d) <=> InTriangle(p, a, b, c) \/ InTriangle(p, a, c, d)
<1>1. Shape!Cross(p, c, a) \in Int /\ Shape!Cross(p, a, c) = -Shape!Cross(p, c, a)
  BY CrossInt, SideTurned
<1>2. InFour(p, a, b, c, d) => InTriangle(p, a, b, c) \/ InTriangle(p, a, c, d)
  BY <1>1 DEF InFour, InTriangle
<1>3. InTriangle(p, a, b, c) => InFour(p, a, b, c, d)
  BY FourHoldThree
<1>4. InTriangle(p, a, c, d) => InFour(p, a, b, c, d)
  <2>1. ConvexFour(c, d, a, b)
    BY DEF ConvexFour
  <2>2. InTriangle(p, a, c, d) => InTriangle(p, c, d, a)
    BY DEF InTriangle
  <2>3. InTriangle(p, c, d, a) => InFour(p, c, d, a, b)
    BY <2>1, FourHoldThree
  <2> QED
    BY <2>2, <2>3 DEF InFour
<1> QED
  BY <1>2, <1>3, <1>4

\* A position on the cut that is on no side has an odd number of sides crossed.
LEMMA CutCrossesOnce ==
  ASSUME NEW p \in Point, NEW a \in Point, NEW b \in Point, NEW c \in Point, NEW d \in Point,
         ConvexFour(a, b, c, d), ~OnFour(p, a, b, c, d), Shape!OnSegment(p, c, a)
  PROVE  InFour(p, a, b, c, d) /\ FourCrossedOddly(p, a, b, c, d)
<1> DEFINE ab == Shape!Cross(p, a, b)
           bc == Shape!Cross(p, b, c)
           cd == Shape!Cross(p, c, d)
           da == Shape!Cross(p, d, a)
           ha == a.y - p.y
           hb == b.y - p.y
           hc == c.y - p.y
           hd == d.y - p.y
<1>1. /\ ab \in Int /\ bc \in Int /\ cd \in Int /\ da \in Int /\ Shape!Cross(p, c, a) \in Int
      /\ ha \in Int /\ hb \in Int /\ hc \in Int /\ hd \in Int
  BY CrossInt, Heights
<1>2. Shape!Cross(p, c, a) = 0 /\ Shape!Cross(p, a, c) = 0
  BY <1>1, SideTurned DEF Shape!OnSegment
<1>3. Shape!OnSegment(p, a, c)
  BY SidesTurned
<1>4. Shape!Cross(c, a, b) > 0 /\ Shape!Cross(d, a, c) > 0
  BY Barycentric DEF ConvexFour
<1>5. ab >= 0 /\ bc >= 0 /\ cd >= 0 /\ da >= 0
  <2>1. InTriangle(p, a, b, c) /\ InTriangle(p, a, c, d)
    BY <1>3, <1>4, TriangleBorder DEF OnTriangle
  <2> QED
    BY <2>1 DEF InTriangle
<1>6. ab # 0 /\ bc # 0 /\ cd # 0 /\ da # 0
  <2>1. Shape!Cross(a, b, c) > 0 /\ Shape!Cross(c, d, a) > 0
    BY <1>4, Barycentric
  <2>2. Shape!OnSegment(p, a, b) <=> ab = 0 /\ bc >= 0 /\ Shape!Cross(p, c, a) >= 0
    BY <1>4, OnSideOfTriangle
  <2>3. Shape!OnSegment(p, b, c) <=> bc = 0 /\ Shape!Cross(p, c, a) >= 0 /\ ab >= 0
    BY <2>1, OnSideOfTriangle
  <2>4. Shape!OnSegment(p, c, d) <=> cd = 0 /\ da >= 0 /\ Shape!Cross(p, a, c) >= 0
    <3>1. Shape!Cross(a, c, d) > 0
      BY DEF ConvexFour
    <3> QED
      BY <3>1, OnSideOfTriangle
  <2>5. Shape!OnSegment(p, d, a) <=> da = 0 /\ Shape!Cross(p, a, c) >= 0 /\ cd >= 0
    BY <2>1, OnSideOfTriangle
  <2> QED
    BY <1>2, <1>5, <2>2, <2>3, <2>4, <2>5 DEF OnFour
<1>7. ab > 0 /\ bc > 0 /\ cd > 0 /\ da > 0
  BY <1>1, <1>5, <1>6
<1>8. /\ Shape!Crosses(p, a, b) <=> (ha <= 0 /\ 0 < hb /\ ab < 0) \/ (hb <= 0 /\ 0 < ha /\ ab > 0)
      /\ Shape!Crosses(p, b, c) <=> (hb <= 0 /\ 0 < hc /\ bc < 0) \/ (hc <= 0 /\ 0 < hb /\ bc > 0)
      /\ Shape!Crosses(p, c, d) <=> (hc <= 0 /\ 0 < hd /\ cd < 0) \/ (hd <= 0 /\ 0 < hc /\ cd > 0)
      /\ Shape!Crosses(p, d, a) <=> (hd <= 0 /\ 0 < ha /\ da < 0) \/ (ha <= 0 /\ 0 < hd /\ da > 0)
  BY Heights
<1>9. bc * ha + ab * hc = 0
  <2>1. bc * ha + Shape!Cross(p, c, a) * hb + ab * hc = 0
    BY Barycentric
  <2> QED
    BY <1>1, <1>2, <2>1
<1>10. ha = 0 /\ hc = 0 => (hb > 0 /\ hd < 0) \/ (hb < 0 /\ hd > 0)
  <2> SUFFICES ASSUME ha = 0, hc = 0
               PROVE  (hb > 0 /\ hd < 0) \/ (hb < 0 /\ hd > 0)
    OBVIOUS
  <2> DEFINE w == c.x - a.x
  <2>1. w \in Int /\ a.y = p.y /\ c.y = p.y
    BY DEF Point
  <2>2. Shape!Cross(c, a, b) = w * hb /\ Shape!Cross(d, a, c) = -(w * hd)
    BY <2>1 DEF Shape!Cross, Point
  <2> HIDE DEF w, ha, hb, hc, hd
  <2>3. w * hb > 0 /\ w * hd < 0
    BY <1>1, <1>4, <2>1, <2>2
  <2> QED
    BY <1>1, <2>1, <2>3, Signs
<1> HIDE DEF ab, bc, cd, da, ha, hb, hc, hd
<1>11. /\ ha > 0 => hc < 0
       /\ ha < 0 => hc > 0
       /\ ha = 0 => hc = 0
  <2>1. /\ bc * ha \in Int /\ ab * hc \in Int
        /\ ha > 0 => bc * ha > 0
        /\ ha < 0 => bc * ha < 0
        /\ ha = 0 => bc * ha = 0
        /\ hc > 0 => ab * hc > 0
        /\ hc < 0 => ab * hc < 0
        /\ hc = 0 => ab * hc = 0
    BY <1>1, <1>7, Signs
  <2> QED
    BY <1>1, <1>9, <2>1
<1>12. FourCrossedOddly(p, a, b, c, d)
  BY <1>1, <1>7, <1>8, <1>10, <1>11 DEF FourCrossedOddly
<1>13. InFour(p, a, b, c, d)
  BY <1>5 DEF InFour, ab, bc, cd, da
<1> QED
  BY <1>12, <1>13

\* The ray casting of a convex quadrangle is its four half-planes: a ray crosses the cut
\* twice, once for each triangle.
LEMMA FourHolds ==
  ASSUME NEW p \in Point, NEW a \in Point, NEW b \in Point, NEW c \in Point, NEW d \in Point,
         ConvexFour(a, b, c, d)
  PROVE  InFour(p, a, b, c, d) <=> OnFour(p, a, b, c, d) \/ FourCrossedOddly(p, a, b, c, d)
<1>1. Shape!Cross(c, a, b) > 0 /\ Shape!Cross(d, a, c) > 0
  BY Barycentric DEF ConvexFour
<1>2. InTriangle(p, a, b, c) <=> OnTriangle(p, a, b, c) \/ CrossesOddly(p, a, b, c)
  BY <1>1, TriangleHolds
<1>3. InTriangle(p, a, c, d) <=> OnTriangle(p, a, c, d) \/ CrossesOddly(p, a, c, d)
  BY <1>1, TriangleHolds
<1>4. InFour(p, a, b, c, d) <=> InTriangle(p, a, b, c) \/ InTriangle(p, a, c, d)
  BY FourAreTwoTriangles
<1>5. /\ Shape!Crosses(p, a, c) <=> Shape!Crosses(p, c, a)
      /\ Shape!OnSegment(p, a, c) <=> Shape!OnSegment(p, c, a)
  BY SidesTurned
<1>6. FourCrossedOddly(p, a, b, c, d) <=>
        ~(CrossesOddly(p, a, b, c) <=> CrossesOddly(p, a, c, d))
  BY <1>5 DEF FourCrossedOddly, CrossesOddly
<1>7. OnFour(p, a, b, c, d) \/ Shape!OnSegment(p, c, a)
        <=> OnTriangle(p, a, b, c) \/ OnTriangle(p, a, c, d)
  BY <1>5 DEF OnFour, OnTriangle
<1>8. CASE OnFour(p, a, b, c, d)
  BY <1>2, <1>3, <1>4, <1>7, <1>8
<1>9. CASE ~OnFour(p, a, b, c, d) /\ Shape!OnSegment(p, c, a)
  BY <1>9, CutCrossesOnce
<1>10. CASE ~OnFour(p, a, b, c, d) /\ ~Shape!OnSegment(p, c, a)
  <2>1. ~(InTriangle(p, a, b, c) /\ InTriangle(p, a, c, d))
    <3>1. Shape!Cross(p, c, a) \in Int /\ Shape!Cross(p, a, c) = -Shape!Cross(p, c, a)
      BY CrossInt, SideTurned
    <3>2. InTriangle(p, a, b, c) /\ InTriangle(p, a, c, d) => OnTriangle(p, a, b, c)
      BY <1>1, <3>1, TriangleBorder DEF InTriangle
    <3> QED
      BY <1>7, <1>10, <3>2
  <2> QED
    BY <1>2, <1>3, <1>4, <1>6, <1>7, <1>10, <2>1
<1> QED
  BY <1>8, <1>9, <1>10

-----------------------------------------------------------------------------
(***************************************************************************)
(* From corners to the polygons of the program: numbers of crossed sides.  *)
(***************************************************************************)
\* Odd numbers of sides.
OddlyMany(S) == Cardinality(S) % 2 = 1

\* The number of sides that MapPolygon counts.
LEMMA CardinalityOfShape ==
  ASSUME NEW S
  PROVE  Shape!Cardinality(S) = Cardinality(S)
BY DEF Shape!Cardinality, Cardinality

\* A member more or less turns odd into even.
LEMMA OddWithOneMore ==
  ASSUME NEW S, IsFiniteSet(S), NEW x
  PROVE  /\ IsFiniteSet(S \ {x})
         /\ OddlyMany(S) <=> (OddlyMany(S \ {x}) <=> x \notin S)
<1>1. /\ IsFiniteSet(S \ {x}) /\ Cardinality(S) \in Nat /\ Cardinality(S \ {x}) \in Nat
      /\ Cardinality(S \ {x}) = IF x \in S THEN Cardinality(S) - 1 ELSE Cardinality(S)
  BY FS_RemoveElement, FS_CardinalityType
<1>2. CASE x \in S
  <2>1. Cardinality(S) = Cardinality(S \ {x}) + 1
    BY <1>1, <1>2
  <2>2. \A n \in Nat : (n + 1) % 2 = 1 <=> ~(n % 2 = 1)
    OBVIOUS
  <2> QED
    BY <1>1, <1>2, <2>1, <2>2 DEF OddlyMany
<1>3. CASE x \notin S
  BY <1>1, <1>3 DEF OddlyMany
<1> QED
  BY <1>1, <1>2, <1>3

\* How many of four sides, spelled out.
LEMMA OddOfFour ==
  ASSUME NEW S \in SUBSET (1..4)
  PROVE  /\ IsFiniteSet(S)
         /\ OddlyMany(S) <=> ~((1 \in S <=> 2 \in S) <=> (3 \in S <=> 4 \in S))
<1>1. IsFiniteSet(S)
  <2>1. S \in SUBSET Nat /\ 4 \in Nat /\ \A s \in S : s <= 4
    OBVIOUS
  <2> QED
    BY <2>1, FS_BoundedSetOfNaturals
<1> DEFINE S3 == S \ {4}
           S2 == S3 \ {3}
           S1 == S2 \ {2}
           S0 == S1 \ {1}
<1>2. IsFiniteSet(S3) /\ (OddlyMany(S) <=> (OddlyMany(S3) <=> 4 \notin S))
  BY <1>1, OddWithOneMore
<1>3. IsFiniteSet(S2) /\ (OddlyMany(S3) <=> (OddlyMany(S2) <=> 3 \notin S3))
  BY <1>2, OddWithOneMore
<1>4. IsFiniteSet(S1) /\ (OddlyMany(S2) <=> (OddlyMany(S1) <=> 2 \notin S2))
  BY <1>3, OddWithOneMore
<1>5. OddlyMany(S1) <=> (OddlyMany(S0) <=> 1 \notin S1)
  BY <1>4, OddWithOneMore
<1>6. S0 = {}
  OBVIOUS
<1>7. ~OddlyMany(S0)
  <2>1. Cardinality(S0) = 0
    BY <1>6, FS_EmptySet
  <2> QED
    BY <2>1 DEF OddlyMany
<1>8. (3 \in S3 <=> 3 \in S) /\ (2 \in S2 <=> 2 \in S) /\ (1 \in S1 <=> 1 \in S)
  OBVIOUS
<1> QED
  BY <1>1, <1>2, <1>3, <1>4, <1>5, <1>7, <1>8

\* The sides that the ray from p crosses.
Crossed(p, poly, sides) == {k \in sides : Shape!Crosses(p, poly[k], Shape!After(poly, k))}

\* What point_in_polygon answers, of any number of corners.
LEMMA HoldsForm ==
  ASSUME NEW p, NEW poly \in Seq(Point)
  PROVE  Shape!PointInPolygon(p, poly) <=>
           /\ Len(poly) >= 3
           /\ \/ \E k \in 1..Len(poly) : Shape!OnSegment(p, poly[k], Shape!After(poly, k))
              \/ OddlyMany(Crossed(p, poly, 1..Len(poly)))
<1>1. DOMAIN poly = 1..Len(poly)
  OBVIOUS
<1> QED
  BY <1>1, CardinalityOfShape DEF Shape!PointInPolygon, Shape!Holds, OddlyMany, Crossed

\* Of three corners and of four.
LEMMA HoldsAsTriangle ==
  ASSUME NEW p, NEW poly \in Seq(Point), Len(poly) = 3
  PROVE  Shape!PointInPolygon(p, poly) <=>
           \/ OnTriangle(p, poly[1], poly[2], poly[3])
           \/ CrossesOddly(p, poly[1], poly[2], poly[3])
<1>1. /\ Shape!After(poly, 1) = poly[2] /\ Shape!After(poly, 2) = poly[3]
      /\ Shape!After(poly, 3) = poly[1]
  BY DEF Shape!After
<1>2. 1..Len(poly) = {1, 2, 3}
  OBVIOUS
<1>3. (\E k \in 1..Len(poly) : Shape!OnSegment(p, poly[k], Shape!After(poly, k)))
        <=> OnTriangle(p, poly[1], poly[2], poly[3])
  BY <1>1, <1>2 DEF OnTriangle
<1> DEFINE S == Crossed(p, poly, 1..Len(poly))
<1>4. /\ S \in SUBSET (1..4) /\ 4 \notin S
      /\ 1 \in S <=> Shape!Crosses(p, poly[1], poly[2])
      /\ 2 \in S <=> Shape!Crosses(p, poly[2], poly[3])
      /\ 3 \in S <=> Shape!Crosses(p, poly[3], poly[1])
  BY <1>1, <1>2 DEF Crossed
<1>6. Shape!PointInPolygon(p, poly) <=>
        \/ \E k \in 1..Len(poly) : Shape!OnSegment(p, poly[k], Shape!After(poly, k))
        \/ OddlyMany(S)
  <2>1. Shape!PointInPolygon(p, poly) <=>
          /\ Len(poly) >= 3
          /\ \/ \E k \in 1..Len(poly) : Shape!OnSegment(p, poly[k], Shape!After(poly, k))
             \/ OddlyMany(Crossed(p, poly, 1..Len(poly)))
    BY HoldsForm
  <2> QED
    BY <2>1
<1> HIDE DEF S
<1>5. OddlyMany(S) <=> CrossesOddly(p, poly[1], poly[2], poly[3])
  BY <1>4, OddOfFour DEF CrossesOddly
<1> QED
  BY <1>3, <1>5, <1>6

LEMMA HoldsAsFour ==
  ASSUME NEW p, NEW poly \in Seq(Point), Len(poly) = 4
  PROVE  Shape!PointInPolygon(p, poly) <=>
           \/ OnFour(p, poly[1], poly[2], poly[3], poly[4])
           \/ FourCrossedOddly(p, poly[1], poly[2], poly[3], poly[4])
<1>1. /\ Shape!After(poly, 1) = poly[2] /\ Shape!After(poly, 2) = poly[3]
      /\ Shape!After(poly, 3) = poly[4] /\ Shape!After(poly, 4) = poly[1]
  BY DEF Shape!After
<1>2. 1..Len(poly) = {1, 2, 3, 4}
  OBVIOUS
<1>3. (\E k \in 1..Len(poly) : Shape!OnSegment(p, poly[k], Shape!After(poly, k)))
        <=> OnFour(p, poly[1], poly[2], poly[3], poly[4])
  BY <1>1, <1>2 DEF OnFour
<1> DEFINE S == Crossed(p, poly, 1..Len(poly))
<1>4. /\ S \in SUBSET (1..4)
      /\ 1 \in S <=> Shape!Crosses(p, poly[1], poly[2])
      /\ 2 \in S <=> Shape!Crosses(p, poly[2], poly[3])
      /\ 3 \in S <=> Shape!Crosses(p, poly[3], poly[4])
      /\ 4 \in S <=> Shape!Crosses(p, poly[4], poly[1])
  BY <1>1, <1>2 DEF Crossed
<1>6. Shape!PointInPolygon(p, poly) <=>
        \/ \E k \in 1..Len(poly) : Shape!OnSegment(p, poly[k], Shape!After(poly, k))
        \/ OddlyMany(S)
  <2>1. Shape!PointInPolygon(p, poly) <=>
          /\ Len(poly) >= 3
          /\ \/ \E k \in 1..Len(poly) : Shape!OnSegment(p, poly[k], Shape!After(poly, k))
             \/ OddlyMany(Crossed(p, poly, 1..Len(poly)))
    BY HoldsForm
  <2> QED
    BY <2>1
<1> HIDE DEF S
<1>5. OddlyMany(S) <=> FourCrossedOddly(p, poly[1], poly[2], poly[3], poly[4])
  BY <1>4, OddOfFour DEF FourCrossedOddly
<1> QED
  BY <1>3, <1>5, <1>6

\* Whichever way round.
InEither(p, a, b, c) == InTriangle(p, a, b, c) \/ InTriangle(p, c, b, a)
InFourEither(p, a, b, c, d) == InFour(p, a, b, c, d) \/ InFour(p, d, c, b, a)

\* A triangle has an area in one way round only.
LEMMA TriangleEitherWay ==
  ASSUME NEW p \in Point, NEW a \in Point, NEW b \in Point, NEW c \in Point,
         Shape!Cross(c, a, b) > 0
  PROVE  /\ InEither(p, a, b, c) <=> InTriangle(p, a, b, c)
         /\ InEither(p, c, b, a) <=> InEither(p, a, b, c)
         /\ OnTriangle(p, a, b, c) \/ CrossesOddly(p, a, b, c) <=> InEither(p, a, b, c)
         /\ OnTriangle(p, c, b, a) \/ CrossesOddly(p, c, b, a) <=> InEither(p, a, b, c)
<1>1. /\ Shape!Cross(p, c, b) = -Shape!Cross(p, b, c) /\ Shape!Cross(p, b, c) \in Int
      /\ Shape!Cross(p, b, a) = -Shape!Cross(p, a, b) /\ Shape!Cross(p, a, b) \in Int
      /\ Shape!Cross(p, a, c) = -Shape!Cross(p, c, a) /\ Shape!Cross(p, c, a) \in Int
  BY CrossInt, SideTurned
<1>2. Shape!Cross(p, a, b) + Shape!Cross(p, b, c) + Shape!Cross(p, c, a) > 0
  BY Barycentric
<1>3. InTriangle(p, c, b, a) => InTriangle(p, a, b, c)
  BY <1>1, <1>2 DEF InTriangle
<1>4. InTriangle(p, a, b, c) <=> OnTriangle(p, a, b, c) \/ CrossesOddly(p, a, b, c)
  BY TriangleHolds
<1>5. /\ OnTriangle(p, c, b, a) <=> OnTriangle(p, a, b, c)
      /\ CrossesOddly(p, c, b, a) <=> CrossesOddly(p, a, b, c)
  BY SidesTurned DEF OnTriangle, CrossesOddly
<1> QED
  BY <1>3, <1>4, <1>5 DEF InEither

\* Nor does a convex quadrangle.
LEMMA FourEitherWay ==
  ASSUME NEW p \in Point, NEW a \in Point, NEW b \in Point, NEW c \in Point, NEW d \in Point,
         ConvexFour(a, b, c, d)
  PROVE  /\ InFourEither(p, a, b, c, d) <=> InFour(p, a, b, c, d)
         /\ InFourEither(p, d, c, b, a) <=> InFourEither(p, a, b, c, d)
         /\ OnFour(p, a, b, c, d) \/ FourCrossedOddly(p, a, b, c, d)
              <=> InFourEither(p, a, b, c, d)
         /\ OnFour(p, d, c, b, a) \/ FourCrossedOddly(p, d, c, b, a)
              <=> InFourEither(p, a, b, c, d)
<1>1. /\ Shape!Cross(p, c, b) = -Shape!Cross(p, b, c) /\ Shape!Cross(p, b, c) \in Int
      /\ Shape!Cross(p, b, a) = -Shape!Cross(p, a, b) /\ Shape!Cross(p, a, b) \in Int
      /\ Shape!Cross(p, d, c) = -Shape!Cross(p, c, d) /\ Shape!Cross(p, c, d) \in Int
      /\ Shape!Cross(p, a, d) = -Shape!Cross(p, d, a) /\ Shape!Cross(p, d, a) \in Int
      /\ Shape!Cross(p, a, c) = -Shape!Cross(p, c, a) /\ Shape!Cross(p, c, a) \in Int
  BY CrossInt, SideTurned
<1>2. Shape!Cross(p, a, b) + Shape!Cross(p, b, c) + Shape!Cross(p, c, d) + Shape!Cross(p, d, a) > 0
  <2>1. Shape!Cross(p, a, b) + Shape!Cross(p, b, c) + Shape!Cross(p, c, a) > 0
    BY Barycentric DEF ConvexFour
  <2>2. Shape!Cross(p, c, d) + Shape!Cross(p, d, a) + Shape!Cross(p, a, c) > 0
    BY Barycentric DEF ConvexFour
  <2> QED
    BY <1>1, <2>1, <2>2
<1>3. InFour(p, d, c, b, a) => InFour(p, a, b, c, d)
  BY <1>1, <1>2 DEF InFour
<1>4. InFour(p, a, b, c, d) <=> OnFour(p, a, b, c, d) \/ FourCrossedOddly(p, a, b, c, d)
  BY FourHolds
<1>5. /\ OnFour(p, d, c, b, a) <=> OnFour(p, a, b, c, d)
      /\ FourCrossedOddly(p, d, c, b, a) <=> FourCrossedOddly(p, a, b, c, d)
  BY SidesTurned DEF OnFour, FourCrossedOddly
<1> QED
  BY <1>3, <1>4, <1>5 DEF InFourEither

\* A convex polygon is a triangle with an area, or four corners, one way round.
LEMMA ConvexForm ==
  ASSUME NEW poly \in Seq(Point), Shape!Convex(poly)
  PROVE  \/ /\ Len(poly) = 3
            /\ poly[1] \in Point /\ poly[2] \in Point /\ poly[3] \in Point
            /\ \/ Shape!Cross(poly[3], poly[1], poly[2]) > 0
               \/ Shape!Cross(poly[1], poly[3], poly[2]) > 0
         \/ /\ Len(poly) = 4
            /\ poly[1] \in Point /\ poly[2] \in Point /\ poly[3] \in Point /\ poly[4] \in Point
            /\ \/ ConvexFour(poly[1], poly[2], poly[3], poly[4])
               \/ ConvexFour(poly[4], poly[3], poly[2], poly[1])
<1>0. \A k \in DOMAIN poly : poly[k] \in Point
  OBVIOUS
<1>1. Len(poly) = 3 \/ Len(poly) = 4
  BY DEF Shape!Convex
<1>2. CASE Len(poly) = 3
  <2> DEFINE a == poly[1]  b == poly[2]  c == poly[3]
  <2>1. 1 \in DOMAIN poly /\ 2 \in DOMAIN poly /\ 3 \in DOMAIN poly
    BY <1>2
  <2>2. a \in Point /\ b \in Point /\ c \in Point
    BY <1>0, <2>1
  <2>3. Shape!Turn(poly, 1) = Shape!Cross(b, a, c)
    BY <1>2 DEF Shape!Turn, Shape!After
  <2>4. Shape!Cross(b, a, c) > 0 \/ Shape!Cross(b, a, c) < 0
    BY <2>1, <2>3 DEF Shape!Convex
  <2> HIDE DEF a, b, c
  <2>5. /\ Shape!Cross(c, a, b) \in Int /\ Shape!Cross(b, a, c) = -Shape!Cross(c, a, b)
        /\ Shape!Cross(a, c, b) = Shape!Cross(b, a, c)
    BY <2>2, Barycentric, CrossInt
  <2>6. Shape!Cross(c, a, b) > 0 \/ Shape!Cross(a, c, b) > 0
    BY <2>4, <2>5
  <2> QED
    BY <1>2, <2>2, <2>6 DEF a, b, c
<1>3. CASE Len(poly) = 4
  <2> DEFINE a == poly[1]  b == poly[2]  c == poly[3]  d == poly[4]
  <2>1. 1 \in DOMAIN poly /\ 2 \in DOMAIN poly /\ 3 \in DOMAIN poly /\ 4 \in DOMAIN poly
    BY <1>3
  <2>2. a \in Point /\ b \in Point /\ c \in Point /\ d \in Point
    BY <1>0, <2>1
  <2>3. /\ Shape!Turn(poly, 1) = Shape!Cross(b, a, c)
        /\ Shape!Turn(poly, 2) = Shape!Cross(c, b, d)
        /\ Shape!Turn(poly, 3) = Shape!Cross(d, c, a)
        /\ Shape!Turn(poly, 4) = Shape!Cross(a, d, b)
    BY <1>3 DEF Shape!Turn, Shape!After
  <2>4. \/ /\ Shape!Cross(b, a, c) > 0 /\ Shape!Cross(c, b, d) > 0
           /\ Shape!Cross(d, c, a) > 0 /\ Shape!Cross(a, d, b) > 0
        \/ /\ Shape!Cross(b, a, c) < 0 /\ Shape!Cross(c, b, d) < 0
           /\ Shape!Cross(d, c, a) < 0 /\ Shape!Cross(a, d, b) < 0
    BY <2>1, <2>3 DEF Shape!Convex
  <2> HIDE DEF a, b, c, d
  <2>5. /\ Shape!Cross(c, a, b) \in Int /\ Shape!Cross(b, a, c) = -Shape!Cross(c, a, b)
        /\ Shape!Cross(d, b, c) \in Int /\ Shape!Cross(c, b, d) = -Shape!Cross(d, b, c)
        /\ Shape!Cross(a, c, d) \in Int /\ Shape!Cross(d, c, a) = -Shape!Cross(a, c, d)
        /\ Shape!Cross(b, d, a) \in Int /\ Shape!Cross(a, d, b) = -Shape!Cross(b, d, a)
    BY <2>2, Barycentric, CrossInt
  <2>6. /\ Shape!Cross(b, d, c) = Shape!Cross(c, b, d)
        /\ Shape!Cross(a, c, b) = Shape!Cross(b, a, c)
        /\ Shape!Cross(d, b, a) = Shape!Cross(a, d, b)
        /\ Shape!Cross(c, a, d) = Shape!Cross(d, c, a)
    BY <2>2, Barycentric
  <2>7. ConvexFour(a, b, c, d) \/ ConvexFour(d, c, b, a)
    BY <2>4, <2>5, <2>6 DEF ConvexFour
  <2> QED
    BY <1>3, <2>2, <2>7 DEF a, b, c, d
<1> QED
  BY <1>1, <1>2, <1>3

-----------------------------------------------------------------------------
(***************************************************************************)
(* Any number of corners, convex or not: the order of the corners, and a   *)
(* cut.                                                                    *)
(***************************************************************************)
\* The corner after the last is the first.
LEMMA NextCorner ==
  ASSUME NEW n \in Nat \ {0}, NEW k \in 1..n
  PROVE  (k % n) + 1 = IF k = n THEN 1 ELSE k + 1
OBVIOUS

\* As many crossings, if they can be paired.
LEMMA SameCrossings ==
  ASSUME NEW S, NEW T, NEW f \in Bijection(S, T), IsFiniteSet(S)
  PROVE  OddlyMany(S) <=> OddlyMany(T)
<1>1. ExistsBijection(S, T)
  BY DEF ExistsBijection
<1>2. Cardinality(T) = Cardinality(S)
  BY <1>1, FS_Bijection
<1> QED
  BY <1>2 DEF OddlyMany

\* What makes a pairing.
LEMMA OneToOne ==
  ASSUME NEW S, NEW T, NEW f \in [S -> T], \A k, l \in S : f[k] = f[l] => k = l,
         \A t \in T : \E k \in S : f[k] = t
  PROVE  f \in Bijection(S, T)
BY DEF Bijection, Injection, Surjection, IsInjective

\* A polygon has finitely many sides.
LEMMA SidesFinite ==
  ASSUME NEW p, NEW poly, NEW m \in Int, NEW n \in Int
  PROVE  IsFiniteSet(Crossed(p, poly, m..n))
<1>1. IsFiniteSet(m..n) /\ Crossed(p, poly, m..n) \in SUBSET (m..n)
  BY FS_Interval DEF Crossed
<1> QED
  BY <1>1, FS_Subset

\* Side k of one polygon is as side f[k] of another, whichever way it is walked.
SidesAlike(p, poly, other, f, n) ==
  \A k \in 1..n :
    /\ Shape!Crosses(p, other[k], Shape!After(other, k))
         <=> Shape!Crosses(p, poly[f[k]], Shape!After(poly, f[k]))
    /\ Shape!OnSegment(p, other[k], Shape!After(other, k))
         <=> Shape!OnSegment(p, poly[f[k]], Shape!After(poly, f[k]))

\* Polygons with the same sides, in whatever order, hold the same.
LEMMA SameSides ==
  ASSUME NEW p, NEW poly \in Seq(Point), NEW other \in Seq(Point), NEW n \in Nat,
         Len(poly) = n, Len(other) = n, NEW f \in Bijection(1..n, 1..n),
         SidesAlike(p, poly, other, f, n)
  PROVE  Shape!PointInPolygon(p, other) <=> Shape!PointInPolygon(p, poly)
<1> DEFINE S == Crossed(p, other, 1..n)
           T == Crossed(p, poly, 1..n)
           g == [k \in S |-> f[k]]
<1>1. /\ f \in [1..n -> 1..n]
      /\ \A k, l \in 1..n : f[k] = f[l] => k = l
      /\ \A t \in 1..n : \E k \in 1..n : f[k] = t
  BY DEF Bijection, Injection, Surjection, IsInjective
<1>2. OddlyMany(S) <=> OddlyMany(T)
  <2>1. IsFiniteSet(S)
    BY SidesFinite
  <2>2. g \in [S -> T]
    BY <1>1 DEF Crossed, SidesAlike
  <2>3. \A k, l \in S : g[k] = g[l] => k = l
    BY <1>1 DEF Crossed
  <2>4. \A t \in T : \E k \in S : g[k] = t
    BY <1>1 DEF Crossed, SidesAlike
  <2> HIDE DEF S, T, g
  <2>5. g \in Bijection(S, T)
    BY <2>2, <2>3, <2>4, OneToOne
  <2> QED
    BY <2>1, <2>5, SameCrossings
<1>3. (\E k \in 1..n : Shape!OnSegment(p, other[k], Shape!After(other, k)))
        <=> (\E k \in 1..n : Shape!OnSegment(p, poly[k], Shape!After(poly, k)))
  BY <1>1 DEF SidesAlike
<1>4. /\ Shape!PointInPolygon(p, other) <=>
           /\ n >= 3
           /\ \/ \E k \in 1..n : Shape!OnSegment(p, other[k], Shape!After(other, k))
              \/ OddlyMany(S)
      /\ Shape!PointInPolygon(p, poly) <=>
           /\ n >= 3
           /\ \/ \E k \in 1..n : Shape!OnSegment(p, poly[k], Shape!After(poly, k))
              \/ OddlyMany(T)
  BY HoldsForm
<1> QED
  BY <1>2, <1>3, <1>4

\* The other end of the k-th side.
LEMMA AfterIs ==
  ASSUME NEW poly \in Seq(Point), NEW k \in 1..Len(poly)
  PROVE  Shape!After(poly, k) = IF k = Len(poly) THEN poly[1] ELSE poly[k + 1]
<1>1. Len(poly) \in Nat \ {0}
  OBVIOUS
<1>2. (k % Len(poly)) + 1 = IF k = Len(poly) THEN 1 ELSE k + 1
  BY <1>1, NextCorner
<1> QED
  BY <1>2 DEF Shape!After

\* The order of the corners turned round.
LEMMA ReversedHoldsTheSame ==
  ASSUME NEW p \in Point, NEW poly \in Seq(Point), Len(poly) >= 3
  PROVE  Shape!PointInPolygon(p, Shape!Reverse(poly)) <=> Shape!PointInPolygon(p, poly)
<1>0. PICK n \in Nat : n = Len(poly) /\ n >= 3
  OBVIOUS
<1> DEFINE other == Shape!Reverse(poly)
           f == [k \in 1..n |-> IF k = n THEN n ELSE n - k]
<1>1. \A k \in 1..n : poly[k] \in Point
  BY <1>0
<1>2. /\ other \in Seq(Point) /\ Len(other) = n
      /\ \A k \in 1..n : other[k] = poly[n - k + 1]
  <2>1. other = [k \in 1..n |-> poly[n - k + 1]]
    BY <1>0 DEF Shape!Reverse
  <2>2. \A k \in 1..n : n - k + 1 \in 1..n
    OBVIOUS
  <2>3. other \in [1..n -> Point]
    BY <1>1, <2>1, <2>2
  <2> QED
    BY <2>1, <2>3
<1>3. f \in [1..n -> 1..n]
  OBVIOUS
<1>4. \A k, l \in 1..n : f[k] = f[l] => k = l
  OBVIOUS
<1>5. ASSUME NEW t \in 1..n
      PROVE  \E k \in 1..n : f[k] = t
  <2>1. f[t] \in 1..n /\ f[f[t]] = t
    OBVIOUS
  <2> QED
    BY <2>1
<1>6. ASSUME NEW k \in 1..n
      PROVE  /\ Shape!Crosses(p, other[k], Shape!After(other, k))
                  <=> Shape!Crosses(p, poly[f[k]], Shape!After(poly, f[k]))
             /\ Shape!OnSegment(p, other[k], Shape!After(other, k))
                  <=> Shape!OnSegment(p, poly[f[k]], Shape!After(poly, f[k]))
  <2>1. f[k] = IF k = n THEN n ELSE n - k
    OBVIOUS
  <2>2. f[k] \in 1..n /\ f[k] \in 1..Len(poly) /\ k \in 1..Len(other)
    BY <1>0, <1>2, <1>3
  <2> HIDE DEF f, other
  <2>3. /\ Shape!After(poly, f[k]) = IF f[k] = n THEN poly[1] ELSE poly[f[k] + 1]
        /\ Shape!After(other, k) = IF k = n THEN other[1] ELSE other[k + 1]
    BY <1>0, <1>2, <2>2, AfterIs
  <2>4. other[k] = Shape!After(poly, f[k]) /\ Shape!After(other, k) = poly[f[k]]
    <3>1. CASE k = n
      <4>1. other[n] = poly[1] /\ other[1] = poly[n]
        <5>1. /\ n \in 1..n /\ 1 \in 1..n
              /\ n - n + 1 = 1 /\ n - 1 + 1 = n
          BY <3>1
        <5>2. other[n] = poly[n - n + 1] /\ other[1] = poly[n - 1 + 1]
          BY <1>2, <5>1
        <5> QED
          BY <5>1, <5>2
      <4>2. f[k] = n
        BY <2>1, <3>1
      <4>3. Shape!After(poly, f[k]) = poly[1] /\ Shape!After(other, k) = other[1]
        BY <2>3, <3>1, <4>2
      <4> QED
        BY <3>1, <4>1, <4>2, <4>3
    <3>2. CASE k # n
      <4>1. k + 1 \in 1..n /\ n - (k + 1) + 1 = n - k
        BY <3>2
      <4>2. other[k] = poly[n - k + 1] /\ other[k + 1] = poly[n - k]
        BY <1>2, <4>1
      <4>3. n - k # n
        OBVIOUS
      <4> QED
        BY <2>1, <2>3, <3>2, <4>2, <4>3
    <3> QED
      BY <3>1, <3>2
  <2>5. Shape!After(poly, f[k]) \in Point /\ poly[f[k]] \in Point
    BY <1>0, <1>1, <2>2, <2>3
  <2> QED
    BY <2>4, <2>5, SidesTurned
<1> HIDE DEF f, other
<1>7. Shape!PointInPolygon(p, other) <=> Shape!PointInPolygon(p, poly)
  <2>1. f \in Bijection(1..n, 1..n)
    BY <1>3, <1>4, <1>5, OneToOne
  <2>2. SidesAlike(p, poly, other, f, n)
    BY <1>6 DEF SidesAlike
  <2> QED
    BY <1>0, <1>2, <2>1, <2>2, SameSides
<1> QED
  BY <1>7 DEF other

\* Another corner first.
LEMMA TurnedHoldsTheSame ==
  ASSUME NEW p \in Point, NEW poly \in Seq(Point), Len(poly) >= 3
  PROVE  Shape!PointInPolygon(p, Append(Tail(poly), Head(poly))) <=> Shape!PointInPolygon(p, poly)
<1>0. PICK n \in Nat : n = Len(poly) /\ n >= 3
  OBVIOUS
<1> DEFINE other == Append(Tail(poly), Head(poly))
           f == [k \in 1..n |-> IF k = n THEN 1 ELSE k + 1]
<1>1. \A k \in 1..n : poly[k] \in Point
  BY <1>0
<1>2. /\ other \in Seq(Point) /\ Len(other) = n
      /\ \A k \in 1..n : other[k] = IF k = n THEN poly[1] ELSE poly[k + 1]
  <2>1. Tail(poly) \in Seq(Point) /\ Len(Tail(poly)) = n - 1 /\ Head(poly) = poly[1]
    BY <1>0
  <2>2. \A k \in 1..n - 1 : Tail(poly)[k] = poly[k + 1]
    BY <1>0
  <2>3. poly[1] \in Point
    BY <1>0, <1>1
  <2> QED
    BY <2>1, <2>2, <2>3
<1>3. f \in [1..n -> 1..n]
  BY <1>0
<1>4. \A k, l \in 1..n : f[k] = f[l] => k = l
  OBVIOUS
<1>5. ASSUME NEW t \in 1..n
      PROVE  \E k \in 1..n : f[k] = t
  <2>1. CASE t = 1
    <3>1. n \in 1..n /\ f[n] = t
      BY <1>0, <2>1
    <3> QED
      BY <3>1
  <2>2. CASE t # 1
    <3>1. t - 1 \in 1..n /\ f[t - 1] = t
      BY <2>2
    <3> QED
      BY <3>1
  <2> QED
    BY <2>1, <2>2
<1>6. ASSUME NEW k \in 1..n
      PROVE  other[k] = poly[f[k]] /\ Shape!After(other, k) = Shape!After(poly, f[k])
  <2>1. f[k] = IF k = n THEN 1 ELSE k + 1
    OBVIOUS
  <2>2. f[k] \in 1..n /\ f[k] \in 1..Len(poly) /\ k \in 1..Len(other)
    BY <1>0, <1>2, <1>3
  <2> HIDE DEF f, other
  <2>3. /\ Shape!After(poly, f[k]) = IF f[k] = n THEN poly[1] ELSE poly[f[k] + 1]
        /\ Shape!After(other, k) = IF k = n THEN other[1] ELSE other[k + 1]
    BY <1>0, <1>2, <2>2, AfterIs
  <2>4. other[k] = poly[f[k]]
    BY <1>2, <2>1
  <2>5. CASE k = n
    <3>1. other[1] = poly[2]
      BY <1>0, <1>2
    <3> QED
      BY <1>0, <2>1, <2>3, <2>4, <2>5, <3>1
  <2>6. CASE k # n
    <3>1. k + 1 \in 1..n
      BY <2>6
    <3>2. other[k + 1] = IF k + 1 = n THEN poly[1] ELSE poly[k + 1 + 1]
      BY <1>2, <3>1
    <3> QED
      BY <2>1, <2>3, <2>4, <2>6, <3>2
  <2> QED
    BY <2>5, <2>6
<1> HIDE DEF f, other
<1>7. Shape!PointInPolygon(p, other) <=> Shape!PointInPolygon(p, poly)
  <2>1. f \in Bijection(1..n, 1..n)
    BY <1>3, <1>4, <1>5, OneToOne
  <2>2. SidesAlike(p, poly, other, f, n)
    BY <1>6 DEF SidesAlike
  <2> QED
    BY <1>0, <1>2, <2>1, <2>2, SameSides
<1> QED
  BY <1>7 DEF other

\* Two sets apart have an odd number together if one of them has.
LEMMA OddOfTwo ==
  ASSUME NEW S, NEW T, IsFiniteSet(S), IsFiniteSet(T), S \cap T = {}
  PROVE  OddlyMany(S \cup T) <=> ~(OddlyMany(S) <=> OddlyMany(T))
<1>1. Cardinality(S \cap T) = 0
  BY FS_EmptySet
<1>2. /\ Cardinality(S) \in Nat /\ Cardinality(T) \in Nat
      /\ Cardinality(S \cup T) = Cardinality(S) + Cardinality(T) - Cardinality(S \cap T)
  BY FS_Union, FS_CardinalityType
<1>3. Cardinality(S \cup T) = Cardinality(S) + Cardinality(T)
  BY <1>1, <1>2
<1>4. \A m, n \in Nat : (m + n) % 2 = 1 <=> ~(m % 2 = 1 <=> n % 2 = 1)
  OBVIOUS
<1> QED
  BY <1>2, <1>3, <1>4 DEF OddlyMany

\* The parts of a polygon that is cut between its first corner and its m-th: their sides
\* are the sides of the whole up to there, or from there on, and the cut.
LEMMA FirstPart ==
  ASSUME NEW p \in Point, NEW poly \in Seq(Point), NEW n \in Nat, n = Len(poly), NEW m \in 3..n - 1
  PROVE  Shape!PointInPolygon(p, SubSeq(poly, 1, m)) <=>
           \/ \E k \in 1..m - 1 : Shape!OnSegment(p, poly[k], Shape!After(poly, k))
           \/ Shape!OnSegment(p, poly[m], poly[1])
           \/ OddlyMany(Crossed(p, poly, 1..m - 1)) <=> ~Shape!Crosses(p, poly[m], poly[1])
<1> DEFINE part == SubSeq(poly, 1, m)
<1>1. m \in Nat /\ m >= 3 /\ m < n /\ \A k \in 1..n : poly[k] \in Point
  OBVIOUS
<1>2. part \in Seq(Point) /\ Len(part) = m /\ \A k \in 1..m : part[k] = poly[k]
  BY <1>1
<1> HIDE DEF part
<1>3. part[m] = poly[m] /\ Shape!After(part, m) = poly[1]
  BY <1>1, <1>2, AfterIs
<1>4. ASSUME NEW k \in 1..m - 1
      PROVE  part[k] = poly[k] /\ Shape!After(part, k) = Shape!After(poly, k)
  <2>1. /\ k \in 1..n /\ k # n /\ k \in 1..m /\ k # m /\ k + 1 \in 1..m
    BY <1>1
  <2>2. Shape!After(part, k) = IF k = m THEN part[1] ELSE part[k + 1]
    BY <1>2, <2>1, AfterIs
  <2>3. Shape!After(poly, k) = IF k = n THEN poly[1] ELSE poly[k + 1]
    BY <2>1, AfterIs
  <2> QED
    BY <1>2, <2>1, <2>2, <2>3
<1> DEFINE S == Crossed(p, part, 1..m)
           T == Crossed(p, poly, 1..m - 1)
<1>5. S \ {m} = T /\ (m \in S <=> Shape!Crosses(p, poly[m], poly[1]))
  <2>1. 1..m = (1..m - 1) \cup {m} /\ m \notin 1..m - 1
    BY <1>1
  <2>2. \A k \in 1..m - 1 : k \in S <=> k \in T
    BY <1>4, <2>1 DEF Crossed
  <2>3. m \in S <=> Shape!Crosses(p, poly[m], poly[1])
    BY <1>3, <2>1 DEF Crossed
  <2>4. S \subseteq 1..m /\ T \subseteq 1..m - 1
    BY DEF Crossed
  <2> QED
    BY <2>1, <2>2, <2>3, <2>4
<1>6. OddlyMany(S) <=> (OddlyMany(T) <=> m \notin S)
  <2>1. IsFiniteSet(S)
    BY <1>1, SidesFinite
  <2> HIDE DEF S, T
  <2> QED
    BY <1>5, <2>1, OddWithOneMore
<1>7. (\E k \in 1..m : Shape!OnSegment(p, part[k], Shape!After(part, k))) <=>
        \/ \E k \in 1..m - 1 : Shape!OnSegment(p, poly[k], Shape!After(poly, k))
        \/ Shape!OnSegment(p, poly[m], poly[1])
  <2>1. 1..m = (1..m - 1) \cup {m}
    BY <1>1
  <2> QED
    BY <1>3, <1>4, <2>1
<1>8. Shape!PointInPolygon(p, part) <=>
        /\ m >= 3
        /\ \/ \E k \in 1..m : Shape!OnSegment(p, part[k], Shape!After(part, k))
           \/ OddlyMany(S)
  BY <1>2, HoldsForm
<1> HIDE DEF S, T
<1>9. Shape!PointInPolygon(p, part) <=>
           \/ \E k \in 1..m - 1 : Shape!OnSegment(p, poly[k], Shape!After(poly, k))
           \/ Shape!OnSegment(p, poly[m], poly[1])
           \/ OddlyMany(T) <=> ~Shape!Crosses(p, poly[m], poly[1])
  BY <1>1, <1>5, <1>6, <1>7, <1>8
<1> QED
  BY <1>9 DEF part, T

LEMMA SecondPart ==
  ASSUME NEW p \in Point, NEW poly \in Seq(Point), NEW n \in Nat, n = Len(poly), NEW m \in 3..n - 1
  PROVE  Shape!PointInPolygon(p, <<poly[1]>> \o SubSeq(poly, m, n)) <=>
           \/ \E k \in m..n : Shape!OnSegment(p, poly[k], Shape!After(poly, k))
           \/ Shape!OnSegment(p, poly[1], poly[m])
           \/ OddlyMany(Crossed(p, poly, m..n)) <=> ~Shape!Crosses(p, poly[1], poly[m])
<1> DEFINE part == <<poly[1]>> \o SubSeq(poly, m, n)
           l == n - m + 2
<1>1. /\ m \in Nat /\ m >= 3 /\ m < n /\ l \in Nat /\ l >= 3
      /\ \A k \in 1..n : poly[k] \in Point
  OBVIOUS
<1>2. /\ part \in Seq(Point) /\ Len(part) = l /\ part[1] = poly[1]
      /\ \A k \in 2..l : part[k] = poly[m + k - 2]
  <2>1. /\ SubSeq(poly, m, n) \in Seq(Point) /\ Len(SubSeq(poly, m, n)) = n - m + 1
        /\ \A k \in 1..n - m + 1 : SubSeq(poly, m, n)[k] = poly[m + k - 1]
    BY <1>1
  <2>2. <<poly[1]>> \in Seq(Point) /\ Len(<<poly[1]>>) = 1 /\ <<poly[1]>>[1] = poly[1]
    BY <1>1
  <2> HIDE DEF l
  <2>3. part \in Seq(Point) /\ Len(part) = n - m + 2 /\ part[1] = poly[1]
    BY <2>1, <2>2
  <2>4. \A k \in 2..n - m + 2 : part[k] = SubSeq(poly, m, n)[k - 1]
    BY <1>1, <2>1, <2>2
  <2>5. ASSUME NEW k \in 2..n - m + 2
        PROVE  part[k] = poly[m + k - 2]
    <3>1. k - 1 \in 1..n - m + 1 /\ m + (k - 1) - 1 = m + k - 2
      BY <1>1
    <3> QED
      BY <2>1, <2>4, <3>1
  <2> QED
    BY <2>3, <2>5 DEF l
<1> HIDE DEF part
<1>3. part[1] = poly[1] /\ Shape!After(part, 1) = poly[m]
  <2>1. 1 \in 1..Len(part) /\ 1 # Len(part) /\ 2 \in 2..l /\ m + 2 - 2 = m
    BY <1>1, <1>2
  <2>2. part[2] = poly[m]
    BY <1>2, <2>1
  <2>3. Shape!After(part, 1) = part[1 + 1]
    BY <1>2, <2>1, AfterIs
  <2> QED
    BY <1>2, <2>2, <2>3
<1>4. ASSUME NEW k \in 2..l
      PROVE  part[k] = poly[m + k - 2] /\ Shape!After(part, k) = Shape!After(poly, m + k - 2)
  <2>1. /\ m + k - 2 \in 1..n /\ k \in 1..l /\ (m + k - 2 = n <=> k = l)
        /\ k # l => k + 1 \in 2..l /\ m + (k + 1) - 2 = (m + k - 2) + 1
    BY <1>1
  <2>2. Shape!After(part, k) = IF k = l THEN part[1] ELSE part[k + 1]
    BY <1>2, <2>1, AfterIs
  <2>3. Shape!After(poly, m + k - 2) = IF m + k - 2 = n THEN poly[1] ELSE poly[(m + k - 2) + 1]
    BY <2>1, AfterIs
  <2> HIDE DEF l
  <2> QED
    BY <1>2, <2>1, <2>2, <2>3
<1> DEFINE S == Crossed(p, part, 1..l)
           Z == Crossed(p, part, 2..l)
           T == Crossed(p, poly, m..n)
           f == [k \in Z |-> m + k - 2]
<1>5. S \ {1} = Z /\ (1 \in S <=> Shape!Crosses(p, poly[1], poly[m]))
  <2>1. 1..l = {1} \cup (2..l) /\ 1 \notin 2..l
    BY <1>1
  <2> HIDE DEF l
  <2> QED
    BY <1>3, <2>1 DEF Crossed
<1>6. OddlyMany(Z) <=> OddlyMany(T)
  <2>1. f \in [Z -> T]
    <3>1. ASSUME NEW k \in Z
          PROVE  m + k - 2 \in T
      <4>1. k \in 2..l /\ Shape!Crosses(p, part[k], Shape!After(part, k))
        BY DEF Crossed
      <4>2. m + k - 2 \in m..n
        BY <1>1, <4>1
      <4> QED
        BY <1>4, <4>1, <4>2 DEF Crossed
    <3> QED
      BY <3>1
  <2>2. \A k, j \in Z : f[k] = f[j] => k = j
    <3>1. Z \subseteq Int
      BY <1>1 DEF Crossed
    <3> HIDE DEF Z
    <3> QED
      BY <3>1
  <2>3. ASSUME NEW t \in T
        PROVE  \E k \in Z : f[k] = t
    <3>1. t \in m..n /\ Shape!Crosses(p, poly[t], Shape!After(poly, t))
      BY DEF Crossed
    <3>2. t - m + 2 \in 2..l /\ m + (t - m + 2) - 2 = t
      BY <1>1, <3>1
    <3>3. t - m + 2 \in Z
      BY <1>4, <3>1, <3>2 DEF Crossed
    <3> QED
      BY <3>2, <3>3
  <2>4. IsFiniteSet(Z)
    BY <1>1, SidesFinite
  <2> HIDE DEF Z, T, f
  <2>5. f \in Bijection(Z, T)
    BY <2>1, <2>2, <2>3, OneToOne
  <2> QED
    BY <2>4, <2>5, SameCrossings
<1>7. OddlyMany(S) <=> (OddlyMany(Z) <=> 1 \notin S)
  <2>1. IsFiniteSet(S)
    BY <1>1, SidesFinite
  <2> HIDE DEF S, Z
  <2> QED
    BY <1>5, <2>1, OddWithOneMore
<1>8. (\E k \in 1..l : Shape!OnSegment(p, part[k], Shape!After(part, k))) <=>
        \/ \E k \in m..n : Shape!OnSegment(p, poly[k], Shape!After(poly, k))
        \/ Shape!OnSegment(p, poly[1], poly[m])
  <2>1. 1..l = {1} \cup (2..l)
    BY <1>1
  <2>2. (\E k \in 2..l : Shape!OnSegment(p, part[k], Shape!After(part, k))) <=>
          (\E k \in m..n : Shape!OnSegment(p, poly[k], Shape!After(poly, k)))
    <3>1. \A k \in 2..l : m + k - 2 \in m..n
      BY <1>1
    <3>2. \A t \in m..n : t - m + 2 \in 2..l /\ m + (t - m + 2) - 2 = t
      BY <1>1
    <3> HIDE DEF l
    <3>3. ASSUME NEW t \in m..n, Shape!OnSegment(p, poly[t], Shape!After(poly, t))
          PROVE  \E k \in 2..l : Shape!OnSegment(p, part[k], Shape!After(part, k))
      <4>1. /\ t - m + 2 \in 2..l
            /\ Shape!OnSegment(p, part[t - m + 2], Shape!After(part, t - m + 2))
        BY <1>4, <3>2, <3>3
      <4> QED
        BY <4>1
    <3> QED
      BY <1>4, <3>1, <3>3
  <2> HIDE DEF l
  <2> QED
    BY <1>3, <2>1, <2>2
<1>9. Shape!PointInPolygon(p, part) <=>
        /\ l >= 3
        /\ \/ \E k \in 1..l : Shape!OnSegment(p, part[k], Shape!After(part, k))
           \/ OddlyMany(S)
  BY <1>2, HoldsForm
<1> HIDE DEF S, T, Z
<1>10. Shape!PointInPolygon(p, part) <=>
           \/ \E k \in m..n : Shape!OnSegment(p, poly[k], Shape!After(poly, k))
           \/ Shape!OnSegment(p, poly[1], poly[m])
           \/ OddlyMany(T) <=> ~Shape!Crosses(p, poly[1], poly[m])
  BY <1>1, <1>5, <1>6, <1>7, <1>8, <1>9
<1> QED
  BY <1>10 DEF part, T

\* The cut is crossed for both parts or for neither, so that of an odd number of sides of
\* the whole one part has an odd number too.
LEMMA CutHolds ==
  ASSUME NEW p \in Point, NEW poly \in Seq(Point), NEW m \in 3..Len(poly) - 1,
         Shape!PointInPolygon(p, poly)
  PROVE  \/ Shape!PointInPolygon(p, SubSeq(poly, 1, m))
         \/ Shape!PointInPolygon(p, <<poly[1]>> \o SubSeq(poly, m, Len(poly)))
<1>1. PICK n \in Nat : n = Len(poly)
  OBVIOUS
<1>2. m \in 3..n - 1 /\ 1..n = (1..m - 1) \cup (m..n) /\ (1..m - 1) \cap (m..n) = {}
  BY <1>1
<1> DEFINE S == Crossed(p, poly, 1..m - 1)
           T == Crossed(p, poly, m..n)
<1>3. OddlyMany(Crossed(p, poly, 1..n)) <=> ~(OddlyMany(S) <=> OddlyMany(T))
  <2>1. IsFiniteSet(S) /\ IsFiniteSet(T)
    BY <1>2, SidesFinite
  <2>2. Crossed(p, poly, 1..n) = S \cup T /\ S \cap T = {}
    BY <1>2 DEF Crossed
  <2> HIDE DEF S, T
  <2> QED
    BY <2>1, <2>2, OddOfTwo
<1>4. \/ \E k \in 1..n : Shape!OnSegment(p, poly[k], Shape!After(poly, k))
      \/ OddlyMany(Crossed(p, poly, 1..n))
  BY <1>1, HoldsForm
<1>5. Shape!PointInPolygon(p, SubSeq(poly, 1, m)) <=>
           \/ \E k \in 1..m - 1 : Shape!OnSegment(p, poly[k], Shape!After(poly, k))
           \/ Shape!OnSegment(p, poly[m], poly[1])
           \/ OddlyMany(S) <=> ~Shape!Crosses(p, poly[m], poly[1])
  BY <1>1, <1>2, FirstPart
<1>6. Shape!PointInPolygon(p, <<poly[1]>> \o SubSeq(poly, m, n)) <=>
           \/ \E k \in m..n : Shape!OnSegment(p, poly[k], Shape!After(poly, k))
           \/ Shape!OnSegment(p, poly[1], poly[m])
           \/ OddlyMany(T) <=> ~Shape!Crosses(p, poly[1], poly[m])
  BY <1>1, <1>2, SecondPart
<1>7. Shape!Crosses(p, poly[1], poly[m]) <=> Shape!Crosses(p, poly[m], poly[1])
  <2>1. poly[1] \in Point /\ poly[m] \in Point
    BY <1>1, <1>2
  <2> QED
    BY <2>1, SidesTurned
<1> HIDE DEF S, T
<1>8. \/ Shape!PointInPolygon(p, SubSeq(poly, 1, m))
      \/ Shape!PointInPolygon(p, <<poly[1]>> \o SubSeq(poly, m, n))
  BY <1>2, <1>3, <1>4, <1>5, <1>6, <1>7
<1> QED
  BY <1>1, <1>8

-----------------------------------------------------------------------------
(***************************************************************************)
(* Convex polygons: half-planes, a lost corner, and the centre.            *)
(***************************************************************************)
\* A polygon of three or four corners is the triangle or the quadrangle of the lemmas.
LEMMA TrianglePolygon ==
  ASSUME NEW p \in Point, NEW poly \in Seq(Point), Len(poly) = 3,
         poly[1] \in Point, poly[2] \in Point, poly[3] \in Point,
         \/ Shape!Cross(poly[3], poly[1], poly[2]) > 0
         \/ Shape!Cross(poly[1], poly[3], poly[2]) > 0
  PROVE  Shape!PointInPolygon(p, poly) <=> InEither(p, poly[1], poly[2], poly[3])
<1> DEFINE a == poly[1]  b == poly[2]  c == poly[3]
<1>1. Shape!PointInPolygon(p, poly) <=> OnTriangle(p, a, b, c) \/ CrossesOddly(p, a, b, c)
  BY HoldsAsTriangle
<1>2. a \in Point /\ b \in Point /\ c \in Point
  OBVIOUS
<1>3. Shape!Cross(c, a, b) > 0 \/ Shape!Cross(a, c, b) > 0
  OBVIOUS
<1> HIDE DEF a, b, c
<1>4. OnTriangle(p, a, b, c) \/ CrossesOddly(p, a, b, c) <=> InEither(p, a, b, c)
  BY <1>2, <1>3, TriangleEitherWay DEF InEither
<1> QED
  BY <1>1, <1>4 DEF a, b, c

LEMMA FourPolygon ==
  ASSUME NEW p \in Point, NEW poly \in Seq(Point), Len(poly) = 4,
         poly[1] \in Point, poly[2] \in Point, poly[3] \in Point, poly[4] \in Point,
         \/ ConvexFour(poly[1], poly[2], poly[3], poly[4])
         \/ ConvexFour(poly[4], poly[3], poly[2], poly[1])
  PROVE  Shape!PointInPolygon(p, poly) <=> InFourEither(p, poly[1], poly[2], poly[3], poly[4])
<1> DEFINE a == poly[1]  b == poly[2]  c == poly[3]  d == poly[4]
<1>1. Shape!PointInPolygon(p, poly) <=> OnFour(p, a, b, c, d) \/ FourCrossedOddly(p, a, b, c, d)
  BY HoldsAsFour
<1>2. a \in Point /\ b \in Point /\ c \in Point /\ d \in Point
  OBVIOUS
<1>3. ConvexFour(a, b, c, d) \/ ConvexFour(d, c, b, a)
  OBVIOUS
<1> HIDE DEF a, b, c, d
<1>4. OnFour(p, a, b, c, d) \/ FourCrossedOddly(p, a, b, c, d) <=> InFourEither(p, a, b, c, d)
  BY <1>2, <1>3, FourEitherWay DEF InFourEither
<1> QED
  BY <1>1, <1>4 DEF a, b, c, d

\* Ray casting with the border test is what a convex polygon's half-planes hold.
LEMMA HalfPlanes ==
  ASSUME NEW p \in Point, NEW poly \in Seq(Point), Shape!Convex(poly)
  PROVE  Shape!PointInPolygon(p, poly) <=>
           \/ \A k \in DOMAIN poly : Shape!Cross(p, poly[k], Shape!After(poly, k)) >= 0
           \/ \A k \in DOMAIN poly : Shape!Cross(p, poly[k], Shape!After(poly, k)) <= 0
<1>1. CASE Len(poly) = 3
  <2> DEFINE a == poly[1]  b == poly[2]  c == poly[3]
  <2>1. /\ a \in Point /\ b \in Point /\ c \in Point
        /\ Shape!Cross(c, a, b) > 0 \/ Shape!Cross(a, c, b) > 0
    BY <1>1, ConvexForm
  <2>2. Shape!PointInPolygon(p, poly) <=> InEither(p, a, b, c)
    BY <1>1, <2>1, TrianglePolygon
  <2>3. DOMAIN poly = {1, 2, 3}
    BY <1>1
  <2>4. /\ Shape!After(poly, 1) = b /\ Shape!After(poly, 2) = c /\ Shape!After(poly, 3) = a
    BY <1>1 DEF Shape!After
  <2>5. /\ (\A k \in DOMAIN poly : Shape!Cross(p, poly[k], Shape!After(poly, k)) >= 0) <=>
             /\ Shape!Cross(p, a, b) >= 0 /\ Shape!Cross(p, b, c) >= 0 /\ Shape!Cross(p, c, a) >= 0
        /\ (\A k \in DOMAIN poly : Shape!Cross(p, poly[k], Shape!After(poly, k)) <= 0) <=>
             /\ Shape!Cross(p, a, b) <= 0 /\ Shape!Cross(p, b, c) <= 0 /\ Shape!Cross(p, c, a) <= 0
    BY <2>3, <2>4
  <2> HIDE DEF a, b, c
  <2>6. /\ Shape!Cross(p, c, b) = -Shape!Cross(p, b, c) /\ Shape!Cross(p, b, c) \in Int
        /\ Shape!Cross(p, b, a) = -Shape!Cross(p, a, b) /\ Shape!Cross(p, a, b) \in Int
        /\ Shape!Cross(p, a, c) = -Shape!Cross(p, c, a) /\ Shape!Cross(p, c, a) \in Int
    BY <2>1, CrossInt, SideTurned
  <2> QED
    BY <2>2, <2>5, <2>6 DEF InEither, InTriangle
<1>2. CASE Len(poly) = 4
  <2> DEFINE a == poly[1]  b == poly[2]  c == poly[3]  d == poly[4]
  <2>1. /\ a \in Point /\ b \in Point /\ c \in Point /\ d \in Point
        /\ ConvexFour(a, b, c, d) \/ ConvexFour(d, c, b, a)
    BY <1>2, ConvexForm
  <2>2. Shape!PointInPolygon(p, poly) <=> InFourEither(p, a, b, c, d)
    BY <1>2, <2>1, FourPolygon
  <2>3. DOMAIN poly = {1, 2, 3, 4}
    BY <1>2
  <2>4. /\ Shape!After(poly, 1) = b /\ Shape!After(poly, 2) = c
        /\ Shape!After(poly, 3) = d /\ Shape!After(poly, 4) = a
    BY <1>2 DEF Shape!After
  <2>5. /\ (\A k \in DOMAIN poly : Shape!Cross(p, poly[k], Shape!After(poly, k)) >= 0) <=>
             /\ Shape!Cross(p, a, b) >= 0 /\ Shape!Cross(p, b, c) >= 0
             /\ Shape!Cross(p, c, d) >= 0 /\ Shape!Cross(p, d, a) >= 0
        /\ (\A k \in DOMAIN poly : Shape!Cross(p, poly[k], Shape!After(poly, k)) <= 0) <=>
             /\ Shape!Cross(p, a, b) <= 0 /\ Shape!Cross(p, b, c) <= 0
             /\ Shape!Cross(p, c, d) <= 0 /\ Shape!Cross(p, d, a) <= 0
    BY <2>3, <2>4
  <2> HIDE DEF a, b, c, d
  <2>6. /\ Shape!Cross(p, c, b) = -Shape!Cross(p, b, c) /\ Shape!Cross(p, b, c) \in Int
        /\ Shape!Cross(p, b, a) = -Shape!Cross(p, a, b) /\ Shape!Cross(p, a, b) \in Int
        /\ Shape!Cross(p, d, c) = -Shape!Cross(p, c, d) /\ Shape!Cross(p, c, d) \in Int
        /\ Shape!Cross(p, a, d) = -Shape!Cross(p, d, a) /\ Shape!Cross(p, d, a) \in Int
    BY <2>1, CrossInt, SideTurned
  <2> QED
    BY <2>2, <2>5, <2>6 DEF InFourEither, InFour
<1> QED
  BY <1>1, <1>2 DEF Shape!Convex

\* Three corners of a convex quadrangle hold nothing that the four do not.
LEMMA ThreeOfFour ==
  ASSUME NEW p \in Point, NEW a \in Point, NEW b \in Point, NEW c \in Point, NEW d \in Point,
         ConvexFour(a, b, c, d)
  PROVE  /\ Shape!Cross(d, b, c) > 0 /\ (InEither(p, b, c, d) => InFourEither(p, a, b, c, d))
         /\ Shape!Cross(d, a, c) > 0 /\ (InEither(p, a, c, d) => InFourEither(p, a, b, c, d))
         /\ Shape!Cross(d, a, b) > 0 /\ (InEither(p, a, b, d) => InFourEither(p, a, b, c, d))
         /\ Shape!Cross(c, a, b) > 0 /\ (InEither(p, a, b, c) => InFourEither(p, a, b, c, d))
<1>1. /\ Shape!Cross(d, b, c) > 0 /\ Shape!Cross(d, a, c) > 0
      /\ Shape!Cross(d, a, b) > 0 /\ Shape!Cross(c, a, b) > 0
  BY Barycentric DEF ConvexFour
<1>2. ConvexFour(b, c, d, a) /\ ConvexFour(c, d, a, b) /\ ConvexFour(d, a, b, c)
  BY DEF ConvexFour
<1>3. InTriangle(p, a, b, c) => InFour(p, a, b, c, d)
  BY FourHoldThree
<1>4. InTriangle(p, b, c, d) => InFour(p, a, b, c, d)
  <2>1. InTriangle(p, b, c, d) => InFour(p, b, c, d, a)
    BY <1>2, FourHoldThree
  <2> QED
    BY <2>1 DEF InFour
<1>5. InTriangle(p, a, c, d) => InFour(p, a, b, c, d)
  <2>1. InTriangle(p, c, d, a) => InFour(p, c, d, a, b)
    BY <1>2, FourHoldThree
  <2> QED
    BY <2>1 DEF InFour, InTriangle
<1>6. InTriangle(p, a, b, d) => InFour(p, a, b, c, d)
  <2>1. InTriangle(p, d, a, b) => InFour(p, d, a, b, c)
    BY <1>2, FourHoldThree
  <2> QED
    BY <2>1 DEF InFour, InTriangle
<1>7. /\ InEither(p, b, c, d) <=> InTriangle(p, b, c, d)
      /\ InEither(p, a, c, d) <=> InTriangle(p, a, c, d)
      /\ InEither(p, a, b, d) <=> InTriangle(p, a, b, d)
      /\ InEither(p, a, b, c) <=> InTriangle(p, a, b, c)
  BY <1>1, TriangleEitherWay
<1> QED
  BY <1>1, <1>3, <1>4, <1>5, <1>6, <1>7 DEF InFourEither

\* The corners that are left.
LEMMA LessOneCorner ==
  ASSUME NEW poly \in Seq(Point), NEW n \in Nat, n = Len(poly), NEW gone \in 1..n
  PROVE  /\ Shape!RemoveAt(poly, gone) \in Seq(Point) /\ Len(Shape!RemoveAt(poly, gone)) = n - 1
         /\ \A k \in 1..n - 1 :
              Shape!RemoveAt(poly, gone)[k] = IF k < gone THEN poly[k] ELSE poly[k + 1]
<1> DEFINE left == SubSeq(poly, 1, gone - 1)
           right == SubSeq(poly, gone + 1, n)
<1>1. left \in Seq(Point) /\ Len(left) = gone - 1 /\ \A k \in 1..gone - 1 : left[k] = poly[k]
  OBVIOUS
<1>2. /\ right \in Seq(Point) /\ Len(right) = n - gone
      /\ \A k \in 1..n - gone : right[k] = poly[gone + k]
  OBVIOUS
<1>3. Shape!RemoveAt(poly, gone) = left \o right
  BY DEF Shape!RemoveAt
<1> HIDE DEF left, right
<1>4. left \o right \in Seq(Point) /\ Len(left \o right) = n - 1
  BY <1>1, <1>2
<1>5. ASSUME NEW k \in 1..n - 1
      PROVE  (left \o right)[k] = IF k < gone THEN poly[k] ELSE poly[k + 1]
  <2>1. CASE k < gone
    BY <1>1, <1>2, <2>1
  <2>2. CASE ~(k < gone)
    <3>1. k - (gone - 1) \in 1..n - gone /\ gone + (k - (gone - 1)) = k + 1
      BY <2>2
    <3>2. (left \o right)[k] = right[k - (gone - 1)]
      BY <1>1, <1>2, <2>2
    <3> QED
      BY <1>2, <2>2, <3>1, <3>2
  <2> QED
    BY <2>1, <2>2
<1> QED
  BY <1>3, <1>4, <1>5

\* A convex polygon without one of its corners; of a triangle nothing is left.
LEMMA LostCornerShrinks ==
  ASSUME NEW p \in Point, NEW poly \in Seq(Point), Shape!Convex(poly), NEW gone \in DOMAIN poly,
         Shape!PointInPolygon(p, Shape!RemoveAt(poly, gone))
  PROVE  Shape!PointInPolygon(p, poly)
<1> DEFINE less == Shape!RemoveAt(poly, gone)
<1>1. /\ less \in Seq(Point) /\ Len(less) = Len(poly) - 1
      /\ \A k \in 1..Len(poly) - 1 : less[k] = IF k < gone THEN poly[k] ELSE poly[k + 1]
  <2>1. PICK n \in Nat : n = Len(poly)
    OBVIOUS
  <2>2. gone \in 1..n
    BY <2>1
  <2> QED
    BY <2>1, <2>2, LessOneCorner
<1> HIDE DEF less
<1>2. Len(less) >= 3 /\ Shape!PointInPolygon(p, less)
  BY <1>1, HoldsForm DEF less
<1>3. Len(poly) = 4 /\ Len(less) = 3
  BY <1>1, <1>2 DEF Shape!Convex
<1> DEFINE a == poly[1]  b == poly[2]  c == poly[3]  d == poly[4]
<1>4. /\ a \in Point /\ b \in Point /\ c \in Point /\ d \in Point
      /\ ConvexFour(a, b, c, d) \/ ConvexFour(d, c, b, a)
  BY <1>3, ConvexForm
<1>5. Shape!PointInPolygon(p, poly) <=> InFourEither(p, a, b, c, d)
  BY <1>3, <1>4, FourPolygon
<1>6. \/ less[1] = b /\ less[2] = c /\ less[3] = d
      \/ less[1] = a /\ less[2] = c /\ less[3] = d
      \/ less[1] = a /\ less[2] = b /\ less[3] = d
      \/ less[1] = a /\ less[2] = b /\ less[3] = c
  <2>1. gone = 1 \/ gone = 2 \/ gone = 3 \/ gone = 4
    BY <1>3
  <2>2. /\ less[1] = IF 1 < gone THEN a ELSE b
        /\ less[2] = IF 2 < gone THEN b ELSE c
        /\ less[3] = IF 3 < gone THEN c ELSE d
    BY <1>1, <1>3
  <2> QED
    BY <2>1, <2>2
<1> HIDE DEF a, b, c, d
<1>7. /\ Shape!Cross(less[3], less[1], less[2]) > 0 \/ Shape!Cross(less[1], less[3], less[2]) > 0
      /\ InEither(p, less[1], less[2], less[3]) => InFourEither(p, a, b, c, d)
  <2>1. CASE ConvexFour(a, b, c, d)
    BY <1>4, <1>6, <2>1, ThreeOfFour
  <2>2. CASE ConvexFour(d, c, b, a)
    <3>1. /\ Shape!Cross(a, c, b) > 0 /\ (InEither(p, c, b, a) => InFourEither(p, d, c, b, a))
          /\ Shape!Cross(a, d, b) > 0 /\ (InEither(p, d, b, a) => InFourEither(p, d, c, b, a))
          /\ Shape!Cross(a, d, c) > 0 /\ (InEither(p, d, c, a) => InFourEither(p, d, c, b, a))
          /\ Shape!Cross(b, d, c) > 0 /\ (InEither(p, d, c, b) => InFourEither(p, d, c, b, a))
      BY <1>4, <2>2, ThreeOfFour
    <3> QED
      BY <1>6, <3>1 DEF InEither, InFourEither
  <2> QED
    BY <1>4, <2>1, <2>2
<1>8. less[1] \in Point /\ less[2] \in Point /\ less[3] \in Point
  BY <1>4, <1>6
<1>9. InEither(p, less[1], less[2], less[3])
  BY <1>1, <1>2, <1>3, <1>7, <1>8, TrianglePolygon
<1> QED
  BY <1>5, <1>7, <1>9

\* The sum of the first n corners from that of one less.
AsSum(f, poly, n) ==
  IF n = 0 THEN [x |-> 0, y |-> 0]
           ELSE [x |-> f[n - 1].x + poly[n].x, y |-> f[n - 1].y + poly[n].y]

\* The sums of three corners and of four.
LEMMA SumOfConvex ==
  ASSUME NEW poly, NEW last \in 3..4, Len(poly) = last, \A k \in 1..last : poly[k] \in Point
  PROVE  Shape!Sum(poly) =
           IF last = 3 THEN [x |-> poly[1].x + poly[2].x + poly[3].x,
                             y |-> poly[1].y + poly[2].y + poly[3].y]
                       ELSE [x |-> poly[1].x + poly[2].x + poly[3].x + poly[4].x,
                             y |-> poly[1].y + poly[2].y + poly[3].y + poly[4].y]
<1> DEFINE Plus(s, c) == [x |-> s.x + c.x, y |-> s.y + c.y]
           s0 == [x |-> 0, y |-> 0]
           s1 == Plus(s0, poly[1])
           s2 == Plus(s1, poly[2])
           s3 == Plus(s2, poly[3])
           s4 == Plus(s3, poly[4])
           g == [n \in 0..last |-> IF n = 0 THEN s0 ELSE IF n = 1 THEN s1 ELSE
                                   IF n = 2 THEN s2 ELSE IF n = 3 THEN s3 ELSE s4]
           sums == CHOOSE f : f = [n \in 0..last |-> AsSum(f, poly, n)]
<1> HIDE DEF s0, s1, s2, s3, s4
<1>1. g = [n \in 0..last |-> AsSum(g, poly, n)]
  <2>1. g[0] = s0 /\ g[1] = s1 /\ g[2] = s2 /\ g[3] = s3 /\ (last = 4 => g[4] = s4)
    OBVIOUS
  <2>2. /\ AsSum(g, poly, 0) = s0 /\ AsSum(g, poly, 1) = s1 /\ AsSum(g, poly, 2) = s2
        /\ AsSum(g, poly, 3) = s3 /\ (last = 4 => AsSum(g, poly, 4) = s4)
    <3> HIDE DEF g
    <3>1. \A n \in {0, 1, 2, 3, 4} : AsSum(g, poly, n) = IF n = 0 THEN s0 ELSE Plus(g[n - 1], poly[n])
      BY DEF AsSum, s0
    <3>2. 1 - 1 = 0 /\ 2 - 1 = 1 /\ 3 - 1 = 2 /\ 4 - 1 = 3
      OBVIOUS
    <3> HIDE DEF Plus
    <3>3. AsSum(g, poly, 0) = s0
      BY <3>1
    <3>4. AsSum(g, poly, 1) = s1
      BY <2>1, <3>1, <3>2 DEF s1
    <3>5. AsSum(g, poly, 2) = s2
      BY <2>1, <3>1, <3>2 DEF s2
    <3>6. AsSum(g, poly, 3) = s3
      BY <2>1, <3>1, <3>2 DEF s3
    <3>7. last = 4 => AsSum(g, poly, 4) = s4
      BY <2>1, <3>1, <3>2 DEF s4
    <3> QED
      BY <3>3, <3>4, <3>5, <3>6, <3>7
  <2>3. ASSUME NEW n \in 0..last
        PROVE  g[n] = AsSum(g, poly, n)
    <3>1. n = 0 \/ n = 1 \/ n = 2 \/ n = 3 \/ (n = 4 /\ last = 4)
      OBVIOUS
    <3> HIDE DEF g
    <3> QED
      BY <2>1, <2>2, <3>1
  <2> QED
    BY <2>3
<1> HIDE DEF g
<1>2. sums = [n \in 0..last |-> AsSum(sums, poly, n)]
  BY <1>1
<1>3. Shape!Sum(poly) = sums[last]
  BY DEF Shape!Sum, AsSum
<1> HIDE DEF sums
<1>4. /\ sums[0] = [x |-> 0, y |-> 0]
      /\ sums[1] = Plus(sums[0], poly[1]) /\ sums[2] = Plus(sums[1], poly[2])
      /\ sums[3] = Plus(sums[2], poly[3]) /\ (last = 4 => sums[4] = Plus(sums[3], poly[4]))
  <2>1. \A n \in 0..last : sums[n] = AsSum(sums, poly, n)
    BY <1>2
  <2>2. \A n \in 1..last : sums[n] = Plus(sums[n - 1], poly[n])
    BY <2>1 DEF AsSum
  <2>3. 1 - 1 = 0 /\ 2 - 1 = 1 /\ 3 - 1 = 2 /\ 4 - 1 = 3
    OBVIOUS
  <2>4. /\ 1 \in 1..last /\ 2 \in 1..last /\ 3 \in 1..last
        /\ (last = 4 => 4 \in 1..last) /\ 0 \in 0..last
    OBVIOUS
  <2>5. sums[0] = [x |-> 0, y |-> 0]
    BY <2>1, <2>4 DEF AsSum
  <2> HIDE DEF Plus
  <2>6. sums[1] = Plus(sums[0], poly[1])
    BY <2>2, <2>3, <2>4
  <2>7. sums[2] = Plus(sums[1], poly[2])
    BY <2>2, <2>3, <2>4
  <2>8. sums[3] = Plus(sums[2], poly[3])
    BY <2>2, <2>3, <2>4
  <2>9. last = 4 => sums[4] = Plus(sums[3], poly[4])
    BY <2>2, <2>3, <2>4
  <2> QED
    BY <2>5, <2>6, <2>7, <2>8, <2>9
<1>5. poly[1] \in Point /\ poly[2] \in Point /\ poly[3] \in Point /\ (last = 4 => poly[4] \in Point)
  OBVIOUS
<1>6. /\ sums[1] = [x |-> poly[1].x, y |-> poly[1].y]
      /\ sums[2] = [x |-> poly[1].x + poly[2].x, y |-> poly[1].y + poly[2].y]
      /\ sums[3] = [x |-> poly[1].x + poly[2].x + poly[3].x,
                    y |-> poly[1].y + poly[2].y + poly[3].y]
  BY <1>4, <1>5 DEF Point
<1> QED
  BY <1>3, <1>4, <1>6

\* The mean of the corners, scaled by their number, is on the inner side of each side.
LEMMA CenterOfTriangle ==
  ASSUME NEW a \in Point, NEW b \in Point, NEW c \in Point, Shape!Cross(c, a, b) > 0,
         NEW p \in Point, p.x = a.x + b.x + c.x, p.y = a.y + b.y + c.y,
         NEW u \in Point, u = [x |-> 3 * a.x, y |-> 3 * a.y],
         NEW v \in Point, v = [x |-> 3 * b.x, y |-> 3 * b.y],
         NEW w \in Point, w = [x |-> 3 * c.x, y |-> 3 * c.y]
  PROVE  Shape!Cross(w, u, v) > 0 /\ InTriangle(p, u, v, w)
<1>1. Shape!Cross(c, a, b) \in Int
  BY CrossInt
<1>2. Shape!Cross(p, u, v) = 3 * Shape!Cross(c, a, b)
  BY DEF Point, Shape!Cross
<1>3. Shape!Cross(p, v, w) = 3 * Shape!Cross(c, a, b)
  BY DEF Point, Shape!Cross
<1>4. Shape!Cross(p, w, u) = 3 * Shape!Cross(c, a, b)
  BY DEF Point, Shape!Cross
<1>5. Shape!Cross(w, u, v) = 9 * Shape!Cross(c, a, b)
  BY DEF Point, Shape!Cross
<1> QED
  BY <1>1, <1>2, <1>3, <1>4, <1>5 DEF InTriangle

LEMMA CenterOfFour ==
  ASSUME NEW a \in Point, NEW b \in Point, NEW c \in Point, NEW d \in Point,
         ConvexFour(a, b, c, d),
         NEW p \in Point, p.x = a.x + b.x + c.x + d.x, p.y = a.y + b.y + c.y + d.y,
         NEW u \in Point, u = [x |-> 4 * a.x, y |-> 4 * a.y],
         NEW v \in Point, v = [x |-> 4 * b.x, y |-> 4 * b.y],
         NEW w \in Point, w = [x |-> 4 * c.x, y |-> 4 * c.y],
         NEW z \in Point, z = [x |-> 4 * d.x, y |-> 4 * d.y]
  PROVE  ConvexFour(u, v, w, z) /\ InFour(p, u, v, w, z)
<1>1. /\ Shape!Cross(c, a, b) \in Int /\ Shape!Cross(d, b, c) \in Int
      /\ Shape!Cross(a, c, d) \in Int /\ Shape!Cross(b, d, a) \in Int
  BY CrossInt
<1>2. /\ Shape!Cross(p, u, v) = 4 * (Shape!Cross(c, a, b) + Shape!Cross(b, d, a))
      /\ Shape!Cross(p, v, w) = 4 * (Shape!Cross(d, b, c) + Shape!Cross(c, a, b))
      /\ Shape!Cross(p, w, z) = 4 * (Shape!Cross(a, c, d) + Shape!Cross(d, b, c))
      /\ Shape!Cross(p, z, u) = 4 * (Shape!Cross(b, d, a) + Shape!Cross(a, c, d))
  BY DEF Point, Shape!Cross
<1>3. /\ Shape!Cross(w, u, v) = 16 * Shape!Cross(c, a, b)
      /\ Shape!Cross(z, v, w) = 16 * Shape!Cross(d, b, c)
      /\ Shape!Cross(u, w, z) = 16 * Shape!Cross(a, c, d)
      /\ Shape!Cross(v, z, u) = 16 * Shape!Cross(b, d, a)
  BY DEF Point, Shape!Cross
<1> QED
  BY <1>1, <1>2, <1>3 DEF InFour, ConvexFour

\* The centre, with everything scaled by the number of corners.
LEMMA CenterInside ==
  ASSUME NEW poly \in Seq(Point), Shape!Convex(poly), NEW scaled,
         scaled = [k \in DOMAIN poly |-> [x |-> Len(poly) * poly[k].x, y |-> Len(poly) * poly[k].y]]
  PROVE  Shape!PointInPolygon(Shape!Sum(poly), scaled)
<1>1. CASE Len(poly) = 3
  <2> DEFINE a == poly[1]  b == poly[2]  c == poly[3]
             u == scaled[1]  v == scaled[2]  w == scaled[3]
             p == Shape!Sum(poly)
  <2>1. /\ a \in Point /\ b \in Point /\ c \in Point
        /\ Shape!Cross(c, a, b) > 0 \/ Shape!Cross(a, c, b) > 0
    BY <1>1, ConvexForm
  <2>2. DOMAIN poly = 1..3 /\ \A k \in 1..3 : poly[k] \in Point
    BY <1>1, <2>1
  <2>3. p = [x |-> a.x + b.x + c.x, y |-> a.y + b.y + c.y]
    BY <1>1, <2>2, SumOfConvex
  <2>4. /\ u = [x |-> 3 * a.x, y |-> 3 * a.y] /\ v = [x |-> 3 * b.x, y |-> 3 * b.y]
        /\ w = [x |-> 3 * c.x, y |-> 3 * c.y]
    BY <1>1, <2>2
  <2>5. scaled \in Seq(Point) /\ Len(scaled) = 3
    <3>1. \A k \in 1..3 : poly[k].x \in Int /\ poly[k].y \in Int
      BY <2>2 DEF Point
    <3>2. \A k \in 1..3 : 3 * poly[k].x \in Int /\ 3 * poly[k].y \in Int
      <4>1. \A x \in Int : 3 * x \in Int
        OBVIOUS
      <4> QED
        BY <3>1, <4>1
    <3>3. scaled = [k \in 1..3 |-> [x |-> 3 * poly[k].x, y |-> 3 * poly[k].y]]
      BY <1>1, <2>2
    <3>4. scaled \in [1..3 -> Point]
      BY <3>2, <3>3 DEF Point
    <3> QED
      BY <3>4
  <2>6. u \in Point /\ v \in Point /\ w \in Point /\ p \in Point
    <3>1. u \in Point /\ v \in Point /\ w \in Point
      BY <2>5
    <3>2. /\ a.x \in Int /\ b.x \in Int /\ c.x \in Int
          /\ a.y \in Int /\ b.y \in Int /\ c.y \in Int
      BY <2>1 DEF Point
    <3>3. a.x + b.x + c.x \in Int /\ a.y + b.y + c.y \in Int
      <4>1. \A x, y, s \in Int : x + y + s \in Int
        OBVIOUS
      <4> QED
        BY <3>2, <4>1
    <3>4. p \in Point
      BY <2>3, <3>3 DEF Point
    <3> QED
      BY <3>1, <3>4
  <2>7. p.x = a.x + b.x + c.x /\ p.y = a.y + b.y + c.y
    BY <2>3
  <2>8. Shape!Cross(w, u, v) > 0 \/ Shape!Cross(u, w, v) > 0 =>
          (Shape!PointInPolygon(p, scaled) <=> InEither(p, u, v, w))
    BY <2>5, <2>6, TrianglePolygon
  <2> HIDE DEF a, b, c, u, v, w, p
  <2>9. CASE Shape!Cross(c, a, b) > 0
    <3>1. Shape!Cross(w, u, v) > 0 /\ InTriangle(p, u, v, w)
      BY <2>1, <2>4, <2>6, <2>7, <2>9, CenterOfTriangle
    <3> QED
      BY <2>8, <3>1 DEF InEither, p
  <2>10. CASE Shape!Cross(a, c, b) > 0
    <3>1. p.x = c.x + b.x + a.x /\ p.y = c.y + b.y + a.y
      BY <2>1, <2>7 DEF Point
    <3>2. Shape!Cross(u, w, v) > 0 /\ InTriangle(p, w, v, u)
      BY <2>1, <2>4, <2>6, <3>1, <2>10, CenterOfTriangle
    <3> QED
      BY <2>8, <3>2 DEF InEither, p
  <2> QED
    BY <2>1, <2>9, <2>10
<1>2. CASE Len(poly) = 4
  <2> DEFINE a == poly[1]  b == poly[2]  c == poly[3]  d == poly[4]
             u == scaled[1]  v == scaled[2]  w == scaled[3]  z == scaled[4]
             p == Shape!Sum(poly)
  <2>1. /\ a \in Point /\ b \in Point /\ c \in Point /\ d \in Point
        /\ ConvexFour(a, b, c, d) \/ ConvexFour(d, c, b, a)
    BY <1>2, ConvexForm
  <2>2. DOMAIN poly = 1..4 /\ \A k \in 1..4 : poly[k] \in Point
    BY <1>2, <2>1
  <2>3. p = [x |-> a.x + b.x + c.x + d.x, y |-> a.y + b.y + c.y + d.y]
    BY <1>2, <2>2, SumOfConvex
  <2>4. /\ u = [x |-> 4 * a.x, y |-> 4 * a.y] /\ v = [x |-> 4 * b.x, y |-> 4 * b.y]
        /\ w = [x |-> 4 * c.x, y |-> 4 * c.y] /\ z = [x |-> 4 * d.x, y |-> 4 * d.y]
    BY <1>2, <2>2
  <2>5. scaled \in Seq(Point) /\ Len(scaled) = 4
    <3>1. \A k \in 1..4 : poly[k].x \in Int /\ poly[k].y \in Int
      BY <2>2 DEF Point
    <3>2. \A k \in 1..4 : 4 * poly[k].x \in Int /\ 4 * poly[k].y \in Int
      <4>1. \A x \in Int : 4 * x \in Int
        OBVIOUS
      <4> QED
        BY <3>1, <4>1
    <3>3. scaled = [k \in 1..4 |-> [x |-> 4 * poly[k].x, y |-> 4 * poly[k].y]]
      BY <1>2, <2>2
    <3>4. scaled \in [1..4 -> Point]
      BY <3>2, <3>3 DEF Point
    <3> QED
      BY <3>4
  <2>6. u \in Point /\ v \in Point /\ w \in Point /\ z \in Point /\ p \in Point
    <3>1. u \in Point /\ v \in Point /\ w \in Point /\ z \in Point
      BY <2>5
    <3>2. /\ a.x \in Int /\ b.x \in Int /\ c.x \in Int /\ d.x \in Int
          /\ a.y \in Int /\ b.y \in Int /\ c.y \in Int /\ d.y \in Int
      BY <2>1 DEF Point
    <3>3. a.x + b.x + c.x + d.x \in Int /\ a.y + b.y + c.y + d.y \in Int
      <4>1. \A x, y, s, t \in Int : x + y + s + t \in Int
        OBVIOUS
      <4> QED
        BY <3>2, <4>1
    <3>4. p \in Point
      BY <2>3, <3>3 DEF Point
    <3> QED
      BY <3>1, <3>4
  <2>7. p.x = a.x + b.x + c.x + d.x /\ p.y = a.y + b.y + c.y + d.y
    BY <2>3
  <2>8. ConvexFour(u, v, w, z) \/ ConvexFour(z, w, v, u) =>
          (Shape!PointInPolygon(p, scaled) <=> InFourEither(p, u, v, w, z))
    BY <2>5, <2>6, FourPolygon
  <2> HIDE DEF a, b, c, d, u, v, w, z, p
  <2>9. CASE ConvexFour(a, b, c, d)
    <3>1. ConvexFour(u, v, w, z) /\ InFour(p, u, v, w, z)
      BY <2>1, <2>4, <2>6, <2>7, <2>9, CenterOfFour
    <3> QED
      BY <2>8, <3>1 DEF InFourEither, p
  <2>10. CASE ConvexFour(d, c, b, a)
    <3>1. p.x = d.x + c.x + b.x + a.x /\ p.y = d.y + c.y + b.y + a.y
      BY <2>1, <2>7 DEF Point
    <3>2. ConvexFour(z, w, v, u) /\ InFour(p, z, w, v, u)
      BY <2>1, <2>4, <2>6, <3>1, <2>10, CenterOfFour
    <3> QED
      BY <2>8, <3>2 DEF InFourEither, p
  <2> QED
    BY <2>1, <2>9, <2>10
<1> QED
  BY <1>1, <1>2 DEF Shape!Convex

-----------------------------------------------------------------------------
(***************************************************************************)
(* What the program keeps of a polygon.                                    *)
(***************************************************************************)
\* A point that is found is a tag of the file that fits into the point table.
LEMMA FoundPoint ==
  ASSUME NEW id, NEW n, n = Shape!FindPoint(id), n # 0
  PROVE  /\ n \in DOMAIN PointTags \cap (1..MaxPoints)
         /\ Shape!PointTable[n] = PointTags[n]
         /\ PointTags[n].x \in Int /\ PointTags[n].y \in Int
<1> DEFINE last == IF Len(PointTags) < MaxPoints THEN Len(PointTags) ELSE MaxPoints
           I == {k \in 1..Len(Shape!PointTable) : Shape!PointTable[k].id = id}
<1>1. /\ PointTags \in Seq({PointTags[k] : k \in DOMAIN PointTags}) /\ MaxPoints \in Nat
      /\ \A k \in DOMAIN PointTags : PointTags[k].x \in Int /\ PointTags[k].y \in Int
  BY ShapeAssumption
<1>2. /\ Len(PointTags) \in Nat /\ DOMAIN PointTags = 1..Len(PointTags)
      /\ last \in 0..MaxPoints /\ last \in 0..Len(PointTags)
  BY <1>1
<1>3. Shape!PointTable = SubSeq(PointTags, 1, last)
  BY DEF Shape!PointTable
<1> HIDE DEF last
<1>4. /\ Len(Shape!PointTable) = last
      /\ \A k \in 1..last : Shape!PointTable[k] = PointTags[k]
  BY <1>1, <1>2, <1>3
<1>5. n = IF I # {} THEN Shape!Min(I) ELSE 0
  BY DEF Shape!FindPoint, Shape!SelectInSeq
<1>6. I \in SUBSET Nat /\ I \subseteq 1..last
  BY <1>2, <1>4
<1> HIDE DEF I
<1>7. n \in 1..last
  BY <1>5, <1>6, MinimumOf DEF File!Min, Shape!Min
<1> QED
  BY <1>1, <1>2, <1>4, <1>7

\* A polygon is a sequence of points, and its variables keep their types.
ShapeInv == Shape!TypeOK /\ polygon \in Seq(Point)

LEMMA InitShape == Shape!Init => ShapeInv
<1> SUFFICES ASSUME Shape!Init PROVE ShapeInv
  OBVIOUS
<1>1. polygon = <<>> /\ refs = 0 /\ done = FALSE
  BY DEF Shape!Init
<1>2. MaxPolygonPoints \in Nat /\ DocPointRefs \in Nat
  BY ShapeAssumption
<1>3. polygon \in Seq(Point) /\ Len(polygon) = 0 /\ Shape!ToSet(polygon) = {}
  <2>1. polygon \in Seq(Point) /\ Len(polygon) = 0
    BY <1>1
  <2>2. DOMAIN polygon = {}
    BY <1>1
  <2> QED
    BY <2>1, <2>2 DEF Shape!ToSet
<1>4. Len(polygon) <= MaxPolygonPoints /\ refs \in 0..DocPointRefs
  BY <1>1, <1>2, <1>3
<1>5. done \in BOOLEAN
  BY <1>1
<1> QED
  BY <1>3, <1>4, <1>5 DEF ShapeInv, Shape!TypeOK

LEMMA StepShape == ShapeInv /\ [Shape!Next]_(Shape!vars) => ShapeInv'
<1> SUFFICES ASSUME ShapeInv, [Shape!Next]_(Shape!vars) PROVE ShapeInv'
  OBVIOUS
<1>1. /\ polygon \in Seq(Point) /\ Len(polygon) \in Nat /\ Len(polygon) <= MaxPolygonPoints
      /\ \A p \in Shape!ToSet(polygon) : \E k \in DOMAIN PointTags \cap (1..MaxPoints) :
           p.x = PointTags[k].x /\ p.y = PointTags[k].y
      /\ refs \in 0..DocPointRefs /\ done \in BOOLEAN
      /\ MaxPolygonPoints \in Nat /\ DocPointRefs \in Nat
  BY ShapeAssumption DEF ShapeInv, Shape!TypeOK
<1>2. CASE Shape!ParseRef
  <2>1. PICK id \in PointRefs :
          polygon' = IF Shape!FindPoint(id) = 0 \/ Len(polygon) >= MaxPolygonPoints THEN polygon
                     ELSE Append(polygon, [x |-> Shape!PointTable[Shape!FindPoint(id)].x,
                                           y |-> Shape!PointTable[Shape!FindPoint(id)].y])
    BY <1>2 DEF Shape!ParseRef
  <2>2. refs' \in 0..DocPointRefs /\ done' \in BOOLEAN
    <3>1. refs < DocPointRefs /\ refs' = refs + 1 /\ done' = (Len(polygon) >= MaxPolygonPoints)
      BY <1>2 DEF Shape!ParseRef
    <3> QED
      BY <1>1, <3>1
  <2>3. CASE Shape!FindPoint(id) = 0 \/ Len(polygon) >= MaxPolygonPoints
    <3>1. polygon' = polygon
      BY <2>1, <2>3
    <3> QED
      BY <1>1, <2>2, <3>1 DEF ShapeInv, Shape!TypeOK, Shape!ToSet
  <2>4. CASE Shape!FindPoint(id) # 0 /\ Len(polygon) < MaxPolygonPoints
    <3>1. PICK n : n = Shape!FindPoint(id)
      OBVIOUS
    <3>2. PICK corner : corner = [x |-> PointTags[n].x, y |-> PointTags[n].y]
      OBVIOUS
    <3>3. /\ n \in DOMAIN PointTags \cap (1..MaxPoints) /\ corner \in Point
          /\ polygon' = Append(polygon, corner)
      BY <1>1, <2>1, <2>4, <3>1, <3>2, FoundPoint DEF Point
    <3>4. polygon' \in Seq(Point) /\ Len(polygon') <= MaxPolygonPoints
      BY <1>1, <2>4, <3>3
    <3>5. Shape!ToSet(polygon)' = Shape!ToSet(polygon) \cup {corner}
      BY <1>1, <3>3 DEF Shape!ToSet
    <3>6. corner.x = PointTags[n].x /\ corner.y = PointTags[n].y
      BY <3>2
    <3> QED
      BY <1>1, <2>2, <3>3, <3>4, <3>5, <3>6 DEF ShapeInv, Shape!TypeOK
  <2> QED
    BY <1>1, <2>3, <2>4
<1>3. CASE Shape!EndOfElement
  BY <1>1, <1>3 DEF Shape!EndOfElement, ShapeInv, Shape!TypeOK, Shape!ToSet
<1>4. CASE UNCHANGED Shape!vars
  BY <1>1, <1>4 DEF Shape!vars, ShapeInv, Shape!TypeOK, Shape!ToSet
<1> QED
  BY <1>2, <1>3, <1>4 DEF Shape!Next

\* The geometry, of the polygon that the program keeps.
LEMMA GroundHeld == ShapeInv => LanesHoldTheirGround
<1> SUFFICES ASSUME ShapeInv PROVE LanesHoldTheirGround
  OBVIOUS
<1>1. polygon \in Seq(Point) /\ Probes \subseteq Point
  BY ShapeAssumption DEF ShapeInv, Point
<1>2. Shape!ConvexMeansAllHalfPlanes
  BY <1>1, HalfPlanes DEF Shape!ConvexMeansAllHalfPlanes
<1>3. Shape!CornerOrderDoesNotMatter
  <2>1. ASSUME Len(polygon) >= 3, NEW p \in Probes
        PROVE  /\ Shape!PointInPolygon(p, Shape!Reverse(polygon)) = Shape!PointInPolygon(p, polygon)
               /\ Shape!PointInPolygon(p, Append(Tail(polygon), Head(polygon))) =
                    Shape!PointInPolygon(p, polygon)
    <3>1. \A poly, other : /\ Shape!PointInPolygon(p, poly) \in BOOLEAN
                           /\ Shape!PointInPolygon(p, other) \in BOOLEAN
      BY DEF Shape!PointInPolygon, Shape!Holds
    <3> QED
      BY <1>1, <2>1, <3>1, ReversedHoldsTheSame, TurnedHoldsTheSame
  <2> QED
    BY <2>1 DEF Shape!CornerOrderDoesNotMatter
<1>4. Shape!NoGapBetweenNeighbours
  BY <1>1, CutHolds DEF Shape!NoGapBetweenNeighbours
<1> QED
  BY <1>2, <1>3, <1>4 DEF LanesHoldTheirGround

\* A convex lane of three or four corners holds what its half-planes hold; of any lane
\* it makes no difference which corner comes first and which way round, and a road cut
\* into two has no gap (point_in_polygon, for every file and every position).
THEOREM LanesCorrect == Shape!Spec => []LanesHoldTheirGround
BY InitShape, StepShape, GroundHeld, PTL DEF Shape!Spec

LEMMA InsideStayed == ShapeInv => ShapesStayInside
<1> SUFFICES ASSUME ShapeInv PROVE ShapesStayInside
  OBVIOUS
<1>1. polygon \in Seq(Point) /\ Probes \subseteq Point
  BY ShapeAssumption DEF ShapeInv, Point
<1>2. Shape!LostCornerOnlyShrinks
  BY <1>1, LostCornerShrinks DEF Shape!LostCornerOnlyShrinks
<1>3. Shape!ZoneCenterLiesInZone
  <2>1. Shape!Center(polygon) = [sum |-> Shape!Sum(polygon), count |-> Len(polygon)]
    BY DEF Shape!Center
  <2> QED
    BY <1>1, <2>1, CenterInside DEF Shape!ZoneCenterLiesInZone
<1> QED
  BY <1>2, <1>3 DEF ShapesStayInside, ShapeInv

\* A polygon's corners are points of the file that have room; a corner that is lost
\* never makes such a convex lane larger, and the centre of such a zone lies in it
\* (parse_area_point_refs, map_service_get_conflict_zone_center).
THEOREM ShapesCorrect == Shape!Spec => []ShapesStayInside
BY InitShape, StepShape, InsideStayed, PTL DEF Shape!Spec
=============================================================================
