-------------------------- MODULE MCProxyAdmission --------------------------
(* Bounds for the instance of ProxyAdmission. *)
EXTENDS ProxyAdmission

Idle(p) ==
    connection[p] = "out" /\ at[<<"login", p>>] = "idle" /\ at[<<"logout", p>>] = "idle"

Drains(d) == at[DrainThread(d)] # "idle"

\* Logins overlap disconnects only once a drain has begun.  The threads that may
\* drain are alike, so that one of them is first; when both drain, only one
\* player comes and goes.  Once a drain has begun this cuts off no step that the
\* fairness of FairSpec demands.
Bounded ==
    LET first == CHOOSE d \in Drainer : TRUE
        lone == CHOOSE p \in Player : TRUE
    IN  /\ crossed => isDraining
        /\ \A d \in Drainer : Drains(d) => Drains(first)
        /\ (\A d \in Drainer : Drains(d)) => \A p \in Player \ {lone} : Idle(p)
=============================================================================
