--------------------------- MODULE RequestService ---------------------------
(***************************************************************************)
(* What a gateway's synchronous calls promise, without threads, caches,    *)
(* queues and semaphores: a call makes requests one after the other, each  *)
(* after the one before was granted, and it succeeds only when every       *)
(* request it made was granted.  The service also makes requests of its    *)
(* own, which belong to no call.  DmUpstream implements this.              *)
(***************************************************************************)
EXTENDS Integers

CONSTANT Callers

VARIABLES
    phase,      \* of each caller
    made,       \* the requests of each caller's present call
    issued,     \* the number of requests so far, each of which is known by its own
    granted     \* the requests the other side has granted

vars == <<phase, made, issued, granted>>

Init ==
    /\ phase = [c \in Callers |-> "idle"] /\ made = [c \in Callers |-> {}]
    /\ issued = 0 /\ granted = {}

Enter(c, s, t) == phase[c] = s /\ phase' = [phase EXCEPT ![c] = t]

Call(c) == Enter(c, "idle", "busy") /\ UNCHANGED <<made, issued, granted>>

\* A call makes its next request after those before it were granted.
Issue(c) ==
    /\ phase[c] = "busy" /\ made[c] \subseteq granted
    /\ issued' = issued + 1
    /\ made' = [made EXCEPT ![c] = @ \cup {issued + 1}]
    /\ UNCHANGED <<phase, granted>>

\* The service makes a request of its own.
IssueOwn == issued' = issued + 1 /\ UNCHANGED <<phase, made, granted>>

Grant(r) ==
    /\ granted' = granted \cup {r}
    /\ UNCHANGED <<phase, made, issued>>

Succeed(c) ==
    /\ Enter(c, "busy", "ok") /\ made[c] # {} /\ made[c] \subseteq granted
    /\ UNCHANGED <<made, issued, granted>>

\* A call may fail at any time, also when its requests are granted later.
Fail(c) == Enter(c, "busy", "fail") /\ UNCHANGED <<made, issued, granted>>

Return(c) ==
    /\ \E s \in {"ok", "fail"} : Enter(c, s, "idle")
    /\ made' = [made EXCEPT ![c] = {}]
    /\ UNCHANGED <<issued, granted>>

Next ==
    \/ \E c \in Callers : Call(c) \/ Issue(c) \/ Succeed(c) \/ Fail(c) \/ Return(c)
    \/ IssueOwn
    \/ \E r \in 1..issued : Grant(r)

Spec == Init /\ [][Next]_vars
=============================================================================
