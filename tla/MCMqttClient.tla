---------------------------- MODULE MCMqttClient ----------------------------
(* MqttClient for TLC: any caller that closes after an error, any peer. *)
EXTENDS MqttClient

=============================================================================
