------------------------------ MODULE MCMqttApp ------------------------------
(* MqttApp for TLC. *)
EXTENDS MqttApp

=============================================================================
