---------------------------- MODULE LatestValue -----------------------------
(***************************************************************************)
(* What publishing the own status promises (mqtt_thread.c:41-42): a stream *)
(* of latest values.  Samples are numbered in the order they are taken.    *)
(* Each is published at most once and never after a later one; which are   *)
(* left out is not promised.  A reader never goes back to an earlier one.  *)
(***************************************************************************)
EXTENDS Naturals

VARIABLES
  newest,        \* the last sample taken
  published,     \* the last sample published, 0 before the first
  publications,  \* how many times something was published
  received       \* the last sample that the reader took in

vars == <<newest, published, publications, received>>

Init == newest = 0 /\ published = 0 /\ publications = 0 /\ received = 0

Produce ==
  /\ newest' = newest + 1
  /\ UNCHANGED <<published, publications, received>>

Publish ==
  /\ published' > published /\ published' \in 0..newest
  /\ publications' = publications + 1
  /\ UNCHANGED <<newest, received>>

Receive ==
  /\ received' >= received /\ received' \in 0..published
  /\ UNCHANGED <<newest, published, publications>>

Next == Produce \/ Publish \/ Receive
Spec == Init /\ [][Next]_vars
=============================================================================
