----------------------------- MODULE PutService -----------------------------
(***************************************************************************)
(* What Node promises of a blocking paste, without threads, callbacks,     *)
(* mutexes or frames: a call opens a put; the DHT decides the put once; a  *)
(* call returns once.  A call is `sure' when the flag it waits for started *)
(* as false: only then does it wait and answer what was decided.  Of the   *)
(* other calls all one can say is that a true answer is true.  A put is    *)
(* lost only when its call has gone.                                       *)
(***************************************************************************)
CONSTANT Call

VARIABLES
    phase,    \* phase[i]: "idle", "called" or "returned"
    sure,     \* sure[i]: call i waits for its put
    put,      \* put[i]: "none", "open", "ok", "failed" or "lost"
    answer    \* answer[i]: "none", "true" or "false"

vars == <<phase, sure, put, answer>>

Init ==
    /\ phase = [i \in Call |-> "idle"]
    /\ sure = [i \in Call |-> FALSE]
    /\ put = [i \in Call |-> "none"]
    /\ answer = [i \in Call |-> "none"]

Request(i) ==
    /\ phase[i] = "idle"
    /\ phase' = [phase EXCEPT ![i] = "called"]
    /\ put' = [put EXCEPT ![i] = "open"]
    /\ \E s \in BOOLEAN : sure' = [sure EXCEPT ![i] = s]
    /\ UNCHANGED answer

Decide(i) ==
    /\ put[i] = "open"
    /\ \E o \in {"ok", "failed"} : put' = [put EXCEPT ![i] = o]
    /\ UNCHANGED <<phase, sure, answer>>

\* The answers call i may give at this moment.
Truth(i) == IF put[i] = "ok" THEN "true" ELSE "false"
Allowed(i) ==
    IF sure[i] THEN {a \in {Truth(i)} : put[i] \in {"ok", "failed"}} ELSE {"false", Truth(i)}

Return(i) ==
    /\ phase[i] = "called"
    /\ phase' = [phase EXCEPT ![i] = "returned"]
    /\ \E a \in Allowed(i) : answer' = [answer EXCEPT ![i] = a]
    /\ UNCHANGED <<sure, put>>

\* The DHT thread ends: the puts that nobody waits for any more are lost.
Lose ==
    /\ \A i \in Call : put[i] = "open" => phase[i] = "returned" /\ ~sure[i]
    /\ put' = [i \in Call |-> IF put[i] = "open" THEN "lost" ELSE put[i]]
    /\ UNCHANGED <<phase, sure, answer>>

Next == (\E i \in Call : Request(i) \/ Decide(i) \/ Return(i)) \/ Lose

Spec == Init /\ [][Next]_vars
=============================================================================
