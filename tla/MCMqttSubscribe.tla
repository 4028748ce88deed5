--------------------------- MODULE MCMqttSubscribe ---------------------------
(* Instances of MqttSubscribe for TLC. *)
EXTENDS MqttSubscribe, TLC

CONSTANTS t1, t2, h1, h2

SlashA == <<"/", "a">>
SlashPlus == <<"/", "+">>
SlashHash == <<"/", "#">>
OneFilter == {SlashA}
TwoFilters == {SlashA, SlashPlus}
NameA == {SlashA}
ThreadsSymmetry == Permutations(Threads)

\* A synchronous subscription that is refused, runs out of memory or loses its connection
\* is tried again, and returns when its timer ends, also when another thread read its
\* SUBACK before its wait node was in the list.  The threads are interchangeable: what
\* holds for t1 holds for each.
SyncReturns == SyncReturnsTo(t1)

=============================================================================
