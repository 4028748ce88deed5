--------------------------- MODULE MCMqttPublish ---------------------------
(* Instances of MqttPublish for TLC. *)
EXTENDS MqttPublish, TLC

CONSTANTS p1, p2

PublishersSymmetry == Permutations(Publishers)

=============================================================================
