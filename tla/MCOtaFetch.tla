----------------------------- MODULE MCOtaFetch -----------------------------
(* Instances of OtaFetch for TLC. *)
EXTENDS OtaFetch

CONSTANTS f1, f2, c1

\* Two firmwares, of two chunks and of one, and a configuration of two.
MCSize == [f \in {f1, f2, c1} |-> IF f # f2 THEN 2 ELSE 1]

=============================================================================
