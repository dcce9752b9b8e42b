---------------------------- MODULE MCMqttThread ----------------------------
(***************************************************************************)
(* MqttThread with this vehicle and one other, both with a place in the    *)
(* table.                                                                  *)
(***************************************************************************)
EXTENDS MqttThread
=============================================================================
