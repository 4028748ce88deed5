---------------------------- MODULE MCCoapServer ----------------------------
(* Instances of CoapServer for TLC. *)
EXTENDS CoapServer

CONSTANTS a1, r1

=============================================================================
