---------------------------- MODULE LeaseLockInv ----------------------------
(***************************************************************************)
(* The inductive invariant behind PunctualLeadsAlone and LeaderIsStamped.  *)
(***************************************************************************)
EXTENDS LeaseLock

Pending(p, status) == req[p] # None /\ req[p].status = status
Holds(p) == Leads(p) \/ (phase[p] = "acquiring" /\ Pending(p, "applied"))

\* Replicas that wrote the current version of the Lease, or may write the next
\* one without looking at its time stamps.
Owns(p) ==
    /\ fresh[p]
    /\ \/ Holds(p)
       \/ phase[p] = "releasing"
       \/ Pending(p, "sent") /\ req[p].kind \in {"renew", "release"}

\* The call a replica waits for is the one its phase says.
CallOK(p) ==
    /\ phase[p] \in {"off", "getting", "deciding", "waiting", "leading"} => req[p] = None
    /\ phase[p] = "acquiring" => req[p] # None /\ req[p].kind \in {"create", "takeover"}
    /\ phase[p] = "renewing" => req[p] # None /\ req[p].kind = "renew"
    /\ phase[p] = "releasing" => req[p] # None /\ req[p].kind = "release"
    /\ phase[p] = "over" => req[p] = None \/ req[p].status = "sent"

\* A take-over that would be accepted is one of a lease that is expired.
TakeOverOK(p) ==
    fresh[p] =>
        /\ phase[p] = "deciding" => seen[p] = Stamp
        /\ Pending(p, "sent") /\ req[p].kind = "takeover" => Expired(Stamp)

StampOK(p) == fresh[p] /\ Holds(p) => acquireTime # None \/ renewTime # None

\* How old the stamp of a punctual holder's lease may be.
OnTime(p) ==
    /\ phase[p] = "acquiring" => req[p].age <= MaxDelay
    /\ Holds(p) => fresh[p]
    /\ phase[p] = "acquiring" /\ Pending(p, "applied") => Stamp = req[p].age
    /\ Leads(p) => Stamp <= since[p] + MaxDelay
    /\ phase[p] = "renewing" =>
          /\ since[p] >= Interval
          /\ req[p].age <= since[p] - Interval
          /\ req[p].status # "refused"
          /\ req[p].status = "applied" => Stamp = req[p].age

Local(p) ==
    /\ CallOK(p)
    /\ fresh[p] => exists
    /\ TakeOverOK(p)
    /\ StampOK(p)
    /\ p \in Punctual => OnTime(p)

LeaseInv ==
    /\ \A p \in Replica : Local(p)
    /\ \A p, q \in Replica : Owns(p) /\ Owns(q) => p = q
=============================================================================
