---------------------------- MODULE LoadBalancer ----------------------------
(***************************************************************************)
(* What Pool.Pick (internal/backend) promises its callers while the health *)
(* checker changes the servers' health: a server that was healthy at some  *)
(* moment of the call, and no server only if none was healthy throughout.  *)
(* The algorithm, the weights and the loads Pick makes are not visible.    *)
(***************************************************************************)
CONSTANTS
    Servers,   \* the pool
    Callers,   \* goroutines calling Pick
    Nothing    \* the call returned no server

VARIABLES
    up,      \* servers with Healthy true
    during,  \* each caller: "idle", "picking", or "done"
    steady,  \* servers healthy since the caller's Pick began
    seen,    \* servers healthy at some moment of it
    result   \* what it returned

vars == <<up, during, steady, seen, result>>

Init ==
    /\ up = Servers
    /\ during = [c \in Callers |-> "idle"]
    /\ steady = [c \in Callers |-> {}]
    /\ seen = [c \in Callers |-> {}]
    /\ result = [c \in Callers |-> Nothing]

Call(c) ==
    /\ during[c] = "idle"
    /\ during' = [during EXCEPT ![c] = "picking"]
    /\ steady' = [steady EXCEPT ![c] = up]
    /\ seen' = [seen EXCEPT ![c] = up]
    /\ UNCHANGED <<up, result>>

Answer(c) ==
    /\ during[c] = "picking"
    /\ during' = [during EXCEPT ![c] = "done"]
    /\ \/ \E s \in seen[c] : result' = [result EXCEPT ![c] = s]
       \/ steady[c] = {} /\ result' = [result EXCEPT ![c] = Nothing]
    /\ UNCHANGED <<up, steady, seen>>

\* The caller is done with the answer.
Finish(c) ==
    /\ during[c] = "done"
    /\ during' = [during EXCEPT ![c] = "idle"]
    /\ steady' = [steady EXCEPT ![c] = {}]
    /\ seen' = [seen EXCEPT ![c] = {}]
    /\ result' = [result EXCEPT ![c] = Nothing]
    /\ UNCHANGED up

\* A health change reaches the calls under way.
Change(now) ==
    /\ up' = now
    /\ steady' = [c \in Callers |-> steady[c] \cap now]
    /\ seen' = [c \in Callers |-> IF during[c] = "picking" THEN seen[c] \cup now
                                                           ELSE seen[c]]
    /\ UNCHANGED <<during, result>>

Next ==
    \/ \E c \in Callers : Call(c) \/ Answer(c) \/ Finish(c)
    \/ \E now \in SUBSET Servers : Change(now)

Spec == Init /\ [][Next]_vars
=============================================================================
