----------------------------- MODULE LeaseLock -----------------------------
(***************************************************************************)
(* The lease that elects the one operator replica that runs reconcilers.   *)
(*                                                                         *)
(* Every replica runs try_acquire_and_hold: it reads the Lease object      *)
(* until it may take it, then renews it on a fixed schedule.  Nothing but  *)
(* the resourceVersion sent along with a patch keeps two replicas apart: a *)
(* patch with an old version is refused with 409, and the unwrap of that   *)
(* answer ends the replica.                                                *)
(*                                                                         *)
(* A resourceVersion is only ever compared with the current one, so it is  *)
(* modelled as `fresh`: whether a replica's copy is the current one.  Time *)
(* stamps are ages, capped at Duration + 1, from which on they are         *)
(* expired.  Patches are server-side applies of one field manager that all *)
(* replicas share, so a field it owns goes when a later apply leaves it    *)
(* out; the fields of the POST that creates the Lease belong to another    *)
(* manager and stay until an apply changes their value.  holderIdentity    *)
(* and leaseTransitions are written and never read, and are left out.      *)
(* A replica that restarts has a new identity: it is another Replica.      *)
(***************************************************************************)
EXTENDS Naturals

CONSTANTS
    Replica,
    Punctual,    \* replicas whose steps and requests take at most MaxDelay
    Duration,    \* LEASE_DURATION_SECONDS
    Interval,    \* LEASE_RENEW_INTERVAL_SECONDS
    MaxDelay,
    None         \* no time stamp, no request

ASSUME ReplicaAssumption == Punctual \subseteq Replica
ASSUME TimingAssumption ==
    /\ Duration \in Nat /\ Interval \in Nat \ {0} /\ MaxDelay \in Nat
    /\ Interval + 2 * MaxDelay <= Duration

Age == 0 .. Duration + 1
Late == Interval + MaxDelay

\* A call to the API: `age` is how long ago its time stamp was taken.
Request == [kind: {"create", "takeover", "renew", "release"}, age: Age,
            status: {"sent", "applied", "refused"}]

ASSUME NoneAssumption == None \notin Age /\ None \notin Request

VARIABLES
    exists,      \* the Lease object exists
    acquireTime, \* age of spec.acquireTime, or None
    renewTime,   \* age of spec.renewTime, or None
    created,     \* acquireTime still belongs to the manager of the POST
    phase,       \* where each replica is in try_acquire_and_hold
    seen,        \* the age of the time stamp in the copy it decides on
    fresh,       \* its resourceVersion is the current one
    req,         \* its call in flight
    since        \* the time since the last tick of a punctual leader's schedule

lease == <<exists, acquireTime, renewTime, created>>
vars == <<exists, acquireTime, renewTime, created, phase, seen, fresh, req, since>>

Phase == {"off", "getting", "deciding", "waiting", "acquiring", "leading",
          "renewing", "releasing", "over"}

TypeOK ==
    /\ exists \in BOOLEAN
    /\ acquireTime \in Age \cup {None}
    /\ renewTime \in Age \cup {None}
    /\ created \in BOOLEAN
    /\ phase \in [Replica -> Phase]
    /\ seen \in [Replica -> Age]
    /\ fresh \in [Replica -> BOOLEAN]
    /\ req \in [Replica -> Request \cup {None}]
    /\ since \in [Replica -> 0 .. Late]

Init ==
    /\ exists = FALSE
    /\ acquireTime = None
    /\ renewTime = None
    /\ created = FALSE
    /\ phase = [p \in Replica |-> "off"]
    /\ seen = [p \in Replica |-> 0]
    /\ fresh = [p \in Replica |-> FALSE]
    /\ req = [p \in Replica |-> None]
    /\ since = [p \in Replica |-> 0]

(***************************************************************************)
(* is_expired: the renewal if there was one, else the acquisition, is more *)
(* than a lease duration old; a lease without time stamps is expired.      *)
(***************************************************************************)
RenewalOnly == IF renewTime # None THEN renewTime ELSE 0
Stamp == IF renewTime # None THEN renewTime
         ELSE IF acquireTime # None THEN acquireTime ELSE Duration + 1
Expired(age) == age > Duration

Send(p, kind) == req' = [req EXCEPT ![p] = [kind |-> kind, age |-> 0, status |-> "sent"]]

(***************************************************************************)
(* try_acquire: read the Lease, create it when there is none, take it over *)
(* when it is expired, else wait for its duration and read it again.       *)
(***************************************************************************)
Start(p) ==
    /\ phase[p] = "off"
    /\ phase' = [phase EXCEPT ![p] = "getting"]
    /\ UNCHANGED <<lease, seen, fresh, req, since>>

GetMissing(p) ==
    /\ phase[p] = "getting"
    /\ ~exists
    /\ phase' = [phase EXCEPT ![p] = "acquiring"]
    /\ Send(p, "create")
    /\ UNCHANGED <<lease, seen, fresh, since>>

GetLease(p) ==
    /\ phase[p] = "getting"
    /\ exists
    /\ phase' = [phase EXCEPT ![p] = "deciding"]
    /\ seen' = [seen EXCEPT ![p] = Stamp]
    /\ fresh' = [fresh EXCEPT ![p] = TRUE]
    /\ UNCHANGED <<lease, req, since>>

TakeOver(p) ==
    /\ phase[p] = "deciding"
    /\ Expired(seen[p])
    /\ phase' = [phase EXCEPT ![p] = "acquiring"]
    /\ Send(p, "takeover")
    /\ UNCHANGED <<lease, seen, fresh, since>>

Wait(p) ==
    /\ phase[p] = "deciding"
    /\ ~Expired(seen[p])
    /\ phase' = [phase EXCEPT ![p] = "waiting"]
    /\ UNCHANGED <<lease, seen, fresh, req, since>>

Retry(p) ==
    /\ phase[p] = "waiting"
    /\ phase' = [phase EXCEPT ![p] = "getting"]
    /\ UNCHANGED <<lease, seen, fresh, req, since>>

(***************************************************************************)
(* try_renew and try_release.  The schedule of a replica that is not       *)
(* Punctual is not tracked: it may renew at any time.                      *)
(***************************************************************************)
Renew(p) ==
    /\ phase[p] = "leading"
    /\ p \in Punctual => since[p] >= Interval
    /\ phase' = [phase EXCEPT ![p] = "renewing"]
    /\ Send(p, "renew")
    /\ UNCHANGED <<lease, seen, fresh, since>>

Release(p) ==
    /\ phase[p] = "leading"
    /\ phase' = [phase EXCEPT ![p] = "releasing"]
    /\ Send(p, "release")
    /\ UNCHANGED <<lease, seen, fresh, since>>

(***************************************************************************)
(* The API server: a create is accepted when there is no Lease, a patch    *)
(* when its resourceVersion is the current one.                            *)
(***************************************************************************)
AnyVersion(p) == exists
CurrentVersion(p) == exists /\ fresh[p]

\* The Lease an accepted call leaves.
StampAcquire(age, byCreate) ==
    /\ exists' = TRUE
    /\ acquireTime' = age
    /\ renewTime' = None
    /\ created' = byCreate

\* An apply without acquireTime drops it, unless it belongs to the POST.
ApplyRenewTime(time) ==
    /\ renewTime' = time
    /\ acquireTime' = IF created THEN acquireTime ELSE None
    /\ UNCHANGED <<exists, created>>

ForgetRenewTime(age) == ApplyRenewTime(None)
StampRenew(age) == ApplyRenewTime(age)

Written(r) ==
    \/ r.kind = "create" /\ StampAcquire(r.age, TRUE)
    \/ r.kind = "takeover" /\ StampAcquire(r.age, FALSE)
    \/ r.kind = "renew" /\ StampRenew(r.age)
    \/ r.kind = "release" /\ ApplyRenewTime(None)

Accepts(p) == IF req[p].kind = "create" THEN ~exists ELSE CurrentVersion(p)

Handled(p, status) ==
    req' = [req EXCEPT ![p] = IF phase[p] = "over" THEN None
                              ELSE [req[p] EXCEPT !.status = status]]

Apply(p) ==
    /\ req[p] # None
    /\ req[p].status = "sent"
    /\ Accepts(p)
    /\ Written(req[p])
    /\ fresh' = [q \in Replica |-> q = p]
    /\ Handled(p, "applied")
    /\ UNCHANGED <<phase, seen, since>>

Refuse(p) ==
    /\ req[p] # None
    /\ req[p].status = "sent"
    /\ ~Accepts(p)
    /\ Handled(p, "refused")
    /\ UNCHANGED <<lease, phase, seen, fresh, since>>

(***************************************************************************)
(* The answer reaches the replica.  A refused call panics.                 *)
(***************************************************************************)
Acquired(p) ==
    /\ phase[p] = "acquiring"
    /\ req[p] # None /\ req[p].status = "applied"
    /\ phase' = [phase EXCEPT ![p] = "leading"]
    /\ since' = [since EXCEPT ![p] = 0]
    /\ req' = [req EXCEPT ![p] = None]
    /\ UNCHANGED <<lease, seen, fresh>>

\* The schedule is a fixed grid: a late renewal does not move the next one.
Renewed(p) ==
    /\ phase[p] = "renewing"
    /\ req[p] # None /\ req[p].status = "applied"
    /\ phase' = [phase EXCEPT ![p] = "leading"]
    /\ since' = [since EXCEPT ![p] = IF @ >= Interval THEN @ - Interval ELSE 0]
    /\ req' = [req EXCEPT ![p] = None]
    /\ UNCHANGED <<lease, seen, fresh>>

Over(p) ==
    /\ \/ phase[p] \in {"acquiring", "renewing"} /\ req[p] # None /\ req[p].status = "refused"
       \/ phase[p] = "releasing" /\ req[p] # None /\ req[p].status # "sent"
    /\ phase' = [phase EXCEPT ![p] = "over"]
    /\ req' = [req EXCEPT ![p] = None]
    /\ UNCHANGED <<lease, seen, fresh, since>>

\* A crash, a failed call, or an interrupt that stops the runtime before the
\* release is sent.  A call in flight may be lost, or arrive all the same.
Crash(p) ==
    /\ phase[p] \notin {"off", "over"}
    /\ phase' = [phase EXCEPT ![p] = "over"]
    /\ req' \in {[req EXCEPT ![p] = None]} \cup
                (IF req[p] # None /\ req[p].status = "sent" THEN {req} ELSE {})
    /\ UNCHANGED <<lease, seen, fresh, since>>

(***************************************************************************)
(* One unit of time, unless a punctual replica would be late.              *)
(***************************************************************************)
GrowForever(age) == IF age = None THEN None ELSE age + 1
Grow(age) == IF age = None \/ age > Duration THEN age ELSE age + 1

InTime(p) ==
    /\ phase[p] = "acquiring" /\ req[p] # None => req[p].age < MaxDelay
    /\ phase[p] \in {"leading", "renewing"} => since[p] < Late

Tick ==
    /\ \A p \in Punctual : InTime(p)
    /\ acquireTime' = Grow(acquireTime)
    /\ renewTime' = Grow(renewTime)
    /\ seen' = [p \in Replica |-> IF phase[p] = "deciding" THEN Grow(seen[p]) ELSE 0]
    /\ req' = [p \in Replica |-> IF req[p] = None THEN None
                                 ELSE [req[p] EXCEPT !.age = Grow(req[p].age)]]
    /\ since' = [p \in Replica |-> IF p \in Punctual /\ phase[p] \in {"leading", "renewing"}
                                   THEN since[p] + 1 ELSE 0]
    /\ UNCHANGED <<exists, created, phase, fresh>>

ReplicaStep(p) ==
    \/ Start(p) \/ GetMissing(p) \/ GetLease(p) \/ TakeOver(p) \/ Wait(p) \/ Retry(p)
    \/ Renew(p) \/ Acquired(p) \/ Renewed(p) \/ Over(p)
ApiStep(p) == Apply(p) \/ Refuse(p)

Next ==
    \/ \E p \in Replica : ReplicaStep(p) \/ ApiStep(p) \/ Release(p) \/ Crash(p)
    \/ Tick

Spec == Init /\ [][Next]_vars

-----------------------------------------------------------------------------
Leads(p) == phase[p] \in {"leading", "renewing"}

(***************************************************************************)
(* A replica that is never late is never superseded: while it runs         *)
(* reconcilers the Lease is the one it wrote, and any other replica that   *)
(* still runs reconcilers is late and about to be refused.                 *)
(***************************************************************************)
PunctualLeadsAlone ==
    \A p \in Punctual : Leads(p) =>
        /\ fresh[p]
        /\ \A q \in Replica \ {p} : Leads(q) => q \notin Punctual /\ ~fresh[q]

(***************************************************************************)
(* The Lease of a leader that is not superseded carries a time stamp: a    *)
(* take-over drops renewTime and the next renewal drops acquireTime, but   *)
(* never both, which would make the lease free for everyone.               *)
(***************************************************************************)
LeaderIsStamped ==
    \A p \in Replica : Leads(p) /\ fresh[p] => acquireTime # None \/ renewTime # None

(***************************************************************************)
(* Fairness: replicas and the API server go on with what they started,     *)
(* started replicas do, and time passes.                                   *)
(***************************************************************************)
FairSpec ==
    /\ Spec
    /\ WF_vars(Tick)
    /\ \A p \in Replica : WF_vars(ReplicaStep(p)) /\ WF_vars(ApiStep(p))

\* A dead leader does not block the cluster: a replica that waits for the
\* lease sees some replica lead, unless it ends itself.
LeaseIsTakenOver ==
    \A p \in Replica :
        phase[p] = "waiting" ~> phase[p] = "over" \/ \E q \in Replica : Leads(q)

\* A leader that was superseded finds out and stops.
SupersededStops == \A p \in Replica : Leads(p) /\ ~fresh[p] ~> ~Leads(p)
=============================================================================
