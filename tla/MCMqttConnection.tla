-------------------------- MODULE MCMqttConnection --------------------------
(* Instances of MqttConnection for TLC. *)
EXTENDS MqttConnection, TLC

CONSTANTS y1, y2, s1, s2

YieldersSymmetry == Permutations(Yielders)
=============================================================================
