----------------------------- MODULE MCStatuses -----------------------------
(***************************************************************************)
(* Statuses with three samples, so that one may be queued, one under way   *)
(* in the MQTT thread and one under way at the broker.  Three lights: one  *)
(* that changes, one that may leave a field out, and one past a table of   *)
(* two.  Times left are up to 2 and a frame has room for 0 and 1; with a   *)
(* period of three ticks a mode that restarts in every other tick puts the *)
(* frame off for ever.                                                     *)
(***************************************************************************)
EXTENDS Statuses, TLC

Red == [color |-> 0, timeLeft |-> 1, stamped |-> TRUE]
Green == [color |-> 2, timeLeft |-> 2, stamped |-> TRUE]
MCPayloads == (0 :> {Red, Green}) @@ (1 :> {Green, [Green EXCEPT !.stamped = FALSE]}) @@ (3 :> {Red})

\* The TX thread's copy is written before it is read in every pass: between passes, states
\* that differ only in what the last one left there are not told apart.
CopyInUse == IF txPc \in {"begin", "copy"} THEN InvalidId ELSE self
View == <<exercised, ownVars, lightMessages, lightConnected, lightsPublished, inbox, table,
          candidate, linked, enabled, lastActive, elapsed, txPc, CopyInUse, frame>>
=============================================================================
