--------------------------- MODULE CandidateLink ----------------------------
(***************************************************************************)
(* CandidateTx with a device that refuses frames about the candidate: the  *)
(* handler is not initialized, its descriptor is closed, or ipc_frame_send *)
(* gives up.  The loop ignores the outcome, so what it remembers having    *)
(* reported and what the RTOS has heard come apart.  An introduction and   *)
(* the status that follows it are two frames; each may be refused.         *)
(***************************************************************************)
EXTENDS CandidateTx

VARIABLES
  conflict,      \* selection.conflict_zone_id and .type_mask
  \* the RTOS
  heard,         \* the last candidate status that arrived
  known,         \* the last introduction that arrived
  \* history
  candidacy,     \* the present candidate, with the conflict it began with
  introRefused,  \* its introduction was refused
  stopRefused    \* the notice that candidate mode ended was refused

rtos == <<heard, known>>
linkHistory == <<candidacy, introRefused, stopRefused>>
linkVars == <<vars, conflict, rtos, linkHistory>>

NoConflict == [zone |-> 0, mask |-> 0]
Introduction(id, c) == [id |-> id, conflict |-> c]
NoIntroduction == Introduction(NoVehicle, NoConflict)

ConflictOf(s) ==
  IF s.found
  THEN [zone |-> SharedZone(self, others[s.id]), mask |-> TypeMask(self, others[s.id])]
  ELSE NoConflict

LinkInit ==
  /\ Init
  /\ conflict = NoConflict
  /\ heard = Nothing /\ known = NoIntroduction
  /\ candidacy = NoIntroduction /\ introRefused = FALSE /\ stopRefused = FALSE

-----------------------------------------------------------------------------
(***************************************************************************)
(* Each frame that a step sends arrives, or is refused.  A status clears   *)
(* the time since the last one, which is never zero when it is sent.       *)
(***************************************************************************)
StatusSent == statusElapsed # 0 /\ statusElapsed' = 0
CandidateReported == txPc = "scanned" /\ txPc' = "light" /\ selection.found
IntroSent == CandidateReported /\ IsNew(selection.id)

CarryStatus ==
  /\ heard' \in IF StatusSent THEN {reported', heard} ELSE {heard}
  /\ stopRefused' = IF txPc = "stop" /\ txPc' # "stop"
                    THEN StatusSent /\ heard' # reported' ELSE stopRefused

CarryIntro ==
  \/ /\ ~IntroSent
     /\ UNCHANGED known
     /\ introRefused' = (introRefused /\ candidacy'.id = candidacy.id)
  \/ /\ IntroSent
     /\ known' = Introduction(selection.id, conflict) /\ introRefused' = FALSE
  \/ /\ IntroSent
     /\ UNCHANGED known /\ introRefused' = TRUE

\* A candidacy lasts while tick after tick selects the same vehicle.
FollowCandidacy ==
  candidacy' =
    IF CandidateReported
    THEN IF candidacy.id = selection.id THEN candidacy ELSE Introduction(selection.id, conflict)
    ELSE IF txPc \in {"report", "scanned", "stop"} /\ txPc' = "light"
         THEN NoIntroduction ELSE candidacy

Carry == CarryStatus /\ FollowCandidacy /\ CarryIntro

Select ==
  conflict' = CASE txPc = "scan" /\ txPc' = "scanned" -> ConflictOf(selection')
                [] txPc = "sleep" /\ txPc' = "tick" -> NoConflict
                [] OTHER -> conflict

LinkTxStep == TxStep /\ Select /\ Carry
LinkEnvStep == EnvStep /\ UNCHANGED <<conflict, rtos, linkHistory>>

LinkNext == LinkTxStep \/ LinkEnvStep
LinkSpec == LinkInit /\ [][LinkNext]_linkVars /\ WF_linkVars(LinkTxStep)

-----------------------------------------------------------------------------
(***************************************************************************)
(* Properties.                                                             *)
(***************************************************************************)

\* After candidate mode has ended the RTOS believes in a vehicle only if the one
\* notice that it ended (can_tx_thread.c:284-285) was itself refused: whatever was
\* refused while the mode was on, a withdrawal above all, the notice makes up for.
IdleBeliefOnlyByRefusedStop ==
  (~lastActive /\ ~stopRefused) => heard.kind # "vehicle"

\* An RTOS that is told about a vehicle knows the conflict zone with which the
\* present candidacy of that vehicle began, unless just this introduction was
\* refused: never the zone of another vehicle, nor of an earlier candidacy of
\* the same one that ended with a lost connection, expired data or a mode change.
\* Id 0 is excepted, as in IntroducedBeforeReported.
KnowsThisCandidacy ==
  (txPc = "sleep" /\ candidacy.id # NoVehicle /\ ~introRefused) => known = candidacy

\* What the RTOS has heard heals: once the inputs rest in candidate mode and every
\* status gets through, it is told the truth about the candidate, whatever was
\* refused before.
RefusalsHeal ==
  <>[][UNCHANGED inputs /\ txEnabled /\ (StatusSent => heard' = reported')]_linkVars
     => <>[](heard = Wanted)
=============================================================================
