--------------------------- MODULE MCSelfVehicle ----------------------------
(***************************************************************************)
(* SelfVehicle on the small intersection of MCMap.                         *)
(***************************************************************************)
EXTENDS SelfVehicle, MCMap
=============================================================================
