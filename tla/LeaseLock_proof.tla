-------------------------- MODULE LeaseLock_proof --------------------------
(***************************************************************************)
(* Proofs about LeaseLock, for every set of replicas and every lease       *)
(* duration, renewal interval and delay that fit together.                 *)
(***************************************************************************)
EXTENDS LeaseLockInv, TLAPS

(***************************************************************************)
(* Type correctness.                                                       *)
(***************************************************************************)
LEMMA TimingFacts ==
    /\ Duration \in Nat /\ Interval \in Nat /\ MaxDelay \in Nat /\ Late \in Nat
    /\ 0 \in Age /\ Duration + 1 \in Age
  BY TimingAssumption DEF Late, Age

LEMMA GrowType ==
    ASSUME NEW age \in Age \cup {None}
    PROVE  /\ Grow(age) \in Age \cup {None}
           /\ age \in Age => Grow(age) \in Age
           /\ age \in Age => Grow(age) = IF age > Duration THEN age ELSE age + 1
           /\ Grow(None) = None
  BY TimingFacts, NoneAssumption DEF Grow, Age

LEMMA StampType == TypeOK => Stamp \in Age
  BY TimingFacts DEF TypeOK, Stamp

\* What a call in flight looks like, and what the two updates of it leave.
LEMMA CallFacts ==
    ASSUME TypeOK, NEW p \in Replica, req[p] # None
    PROVE  req[p] \in Request /\ req[p].age \in Age
  BY DEF TypeOK, Request

LEMMA Answered ==
    ASSUME NEW r \in Request, NEW s \in {"sent", "applied", "refused"}, NEW n,
           n = [r EXCEPT !.status = s]
    PROVE  n \in Request /\ n # None /\ n.status = s /\ n.kind = r.kind /\ n.age = r.age
<1>1. n \in Request
  BY DEF Request
<1>. QED BY <1>1, NoneAssumption DEF Request

LEMMA Aged ==
    ASSUME NEW r \in Request, NEW a \in Age, NEW n, n = [r EXCEPT !.age = a]
    PROVE  n \in Request /\ n # None /\ n.status = r.status /\ n.kind = r.kind /\ n.age = a
<1>1. n \in Request
  BY DEF Request
<1>. QED BY <1>1, NoneAssumption DEF Request

LEMMA SendFacts ==
    ASSUME TypeOK, NEW p \in Replica,
           NEW kind \in {"create", "takeover", "renew", "release"}, Send(p, kind)
    PROVE  /\ req' \in [Replica -> Request \cup {None}]
           /\ req'[p] # None /\ req'[p].kind = kind /\ req'[p].age = 0
           /\ req'[p].status = "sent"
           /\ \A q \in Replica \ {p} : req'[q] = req[q]
<1> DEFINE r == [kind |-> kind, age |-> 0, status |-> "sent"]
<1>1. r \in Request
  BY TimingFacts DEF Request
<1>2. r # None
  BY <1>1, NoneAssumption
<1>. QED BY <1>1, <1>2 DEF Send, TypeOK

LEMMA InitType == Init => TypeOK
<1>1. 0 \in 0 .. Late /\ 0 \in Age
  BY TimingFacts
<1>. QED BY <1>1 DEF Init, TypeOK, Phase

LEMMA WrittenType ==
    ASSUME TypeOK, NEW p \in Replica, req[p] # None, Written(req[p])
    PROVE  /\ exists' \in BOOLEAN /\ created' \in BOOLEAN
           /\ acquireTime' \in Age \cup {None} /\ renewTime' \in Age \cup {None}
  BY CallFacts DEF TypeOK, Written, StampAcquire, StampRenew, ApplyRenewTime

LEMMA TickFacts ==
    ASSUME TypeOK, Tick
    PROVE  /\ \A p \in Replica : /\ req[p] = None <=> req'[p] = None
                                 /\ req[p] # None => /\ req'[p] \in Request
                                                     /\ req'[p].kind = req[p].kind
                                                     /\ req'[p].status = req[p].status
                                                     /\ req'[p].age = Grow(req[p].age)
           /\ Stamp' = Grow(Stamp)
<1>1. \A p \in Replica : req'[p] = IF req[p] = None THEN None
                                   ELSE [req[p] EXCEPT !.age = Grow(req[p].age)]
  BY DEF Tick
<1>2. \A p \in Replica : req[p] # None => Grow(req[p].age) \in Age
  BY CallFacts, GrowType
<1>3. Stamp' = Grow(Stamp)
  <2>1. acquireTime' = Grow(acquireTime) /\ renewTime' = Grow(renewTime)
    BY DEF Tick
  <2>2. /\ acquireTime' = None <=> acquireTime = None
        /\ renewTime' = None <=> renewTime = None
    BY <2>1, GrowType, NoneAssumption DEF TypeOK
  <2>3. Grow(Duration + 1) = Duration + 1
    BY TimingFacts DEF Grow
  <2>. QED BY <2>1, <2>2, <2>3 DEF Stamp
<1>4. ASSUME NEW p \in Replica, req[p] # None
      PROVE  /\ req'[p] # None /\ req'[p] \in Request
             /\ req'[p].kind = req[p].kind /\ req'[p].status = req[p].status
             /\ req'[p].age = Grow(req[p].age)
  <2>1. req'[p] = [req[p] EXCEPT !.age = Grow(req[p].age)]
    BY <1>1, <1>4
  <2>2. Grow(req[p].age) \in Age
    BY <1>2, <1>4
  <2>. QED BY <1>4, <2>1, <2>2, CallFacts, Aged
<1>. QED BY <1>1, <1>3, <1>4

LEMMA NextType == TypeOK /\ [Next]_vars => TypeOK'
<1> SUFFICES ASSUME TypeOK, [Next]_vars PROVE TypeOK'
  OBVIOUS
<1> USE DEF lease
<1>1. ASSUME NEW p \in Replica, Start(p) \/ Wait(p) \/ Retry(p)
      PROVE  TypeOK'
  BY <1>1 DEF TypeOK, Start, Wait, Retry, Phase
<1>2. ASSUME NEW p \in Replica, GetLease(p)
      PROVE  TypeOK'
  BY <1>2, StampType DEF TypeOK, GetLease, Phase
<1>3. ASSUME NEW p \in Replica, GetMissing(p) \/ TakeOver(p) \/ Renew(p) \/ Release(p)
      PROVE  TypeOK'
  <2>1. req' \in [Replica -> Request \cup {None}]
    BY <1>3, SendFacts DEF GetMissing, TakeOver, Renew, Release
  <2>2. phase' \in [Replica -> Phase]
    BY <1>3 DEF TypeOK, GetMissing, TakeOver, Renew, Release, Phase
  <2>3. UNCHANGED <<lease, seen, fresh, since>>
    BY <1>3 DEF GetMissing, TakeOver, Renew, Release
  <2>. QED BY <2>1, <2>2, <2>3 DEF TypeOK
<1>4. ASSUME NEW p \in Replica, Apply(p)
      PROVE  TypeOK'
  <2>1. req' \in [Replica -> Request \cup {None}]
    BY <1>4, CallFacts, Answered DEF TypeOK, Apply, Handled
  <2>2. /\ exists' \in BOOLEAN /\ created' \in BOOLEAN
        /\ acquireTime' \in Age \cup {None} /\ renewTime' \in Age \cup {None}
    BY <1>4, WrittenType DEF Apply
  <2>. QED BY <1>4, <2>1, <2>2 DEF TypeOK, Apply
<1>5. ASSUME NEW p \in Replica, Refuse(p)
      PROVE  TypeOK'
  <2>1. req' \in [Replica -> Request \cup {None}]
    BY <1>5, CallFacts, Answered DEF TypeOK, Refuse, Handled
  <2>. QED BY <1>5, <2>1 DEF TypeOK, Refuse
<1>6. ASSUME NEW p \in Replica, Acquired(p) \/ Renewed(p)
      PROVE  TypeOK'
  <2>1. since' \in [Replica -> 0 .. Late]
    BY <1>6, TimingFacts DEF TypeOK, Acquired, Renewed
  <2>. QED BY <1>6, <2>1 DEF TypeOK, Acquired, Renewed, Phase
<1>7. ASSUME NEW p \in Replica, Over(p) \/ Crash(p)
      PROVE  TypeOK'
  BY <1>7 DEF TypeOK, Over, Crash, Phase
<1>8. CASE Tick
  <2>1. /\ acquireTime' \in Age \cup {None} /\ renewTime' \in Age \cup {None}
        /\ seen' \in [Replica -> Age]
    BY <1>8, GrowType, TimingFacts DEF TypeOK, Tick
  <2>2. req' \in [Replica -> Request \cup {None}]
    <3>1. \A p \in Replica : req'[p] \in Request \cup {None}
      BY <1>8, TickFacts
    <3>2. DOMAIN req' = Replica /\ req' = [p \in Replica |-> req'[p]]
      BY <1>8 DEF Tick
    <3>. QED BY <3>1, <3>2
  <2>3. since' \in [Replica -> 0 .. Late]
    <3>1. ASSUME NEW p \in Punctual, phase[p] \in {"leading", "renewing"}
          PROVE  since[p] + 1 \in 0 .. Late
      BY <1>8, <3>1, TimingFacts, ReplicaAssumption DEF Tick, InTime, TypeOK
    <3>. QED BY <1>8, <3>1, TimingFacts DEF Tick
  <2>. QED BY <1>8, <2>1, <2>2, <2>3 DEF TypeOK, Tick
<1>9. CASE UNCHANGED vars
  BY <1>9 DEF TypeOK, vars
<1>. QED BY <1>1, <1>2, <1>3, <1>4, <1>5, <1>6, <1>7, <1>8, <1>9
         DEF Next, ReplicaStep, ApiStep

(***************************************************************************)
(* Every variable keeps its type.                                          *)
(***************************************************************************)
THEOREM LeaseTypeCorrect == Spec => []TypeOK
  BY InitType, NextType, PTL DEF Spec

(***************************************************************************)
(* The invariant.  A step of one replica that does not write the Lease     *)
(* disturbs only that replica's part of it.                                *)
(***************************************************************************)
LEMMA OwnStep ==
    ASSUME LeaseInv, NEW p \in Replica, UNCHANGED lease,
           \A q \in Replica \ {p} : /\ phase'[q] = phase[q] /\ seen'[q] = seen[q]
                                     /\ fresh'[q] = fresh[q] /\ req'[q] = req[q]
                                     /\ since'[q] = since[q],
           Local(p)', Owns(p)' => Owns(p)
    PROVE  LeaseInv'
<1>1. Stamp' = Stamp
  BY DEF lease, Stamp
<1>2. ASSUME NEW q \in Replica, q # p
      PROVE  Local(q)' /\ (Owns(q)' <=> Owns(q))
  <2>1. Local(q)
    BY DEF LeaseInv
  <2>2. /\ phase'[q] = phase[q] /\ seen'[q] = seen[q] /\ fresh'[q] = fresh[q]
        /\ req'[q] = req[q] /\ since'[q] = since[q]
    BY <1>2
  <2>. QED BY <1>1, <2>1, <2>2
       DEF lease, Local, CallOK, TakeOverOK, StampOK, OnTime, Owns, Holds, Leads, Pending
<1>. QED BY <1>2 DEF LeaseInv

LEMMA InitInv == Init => LeaseInv
  BY DEF Init, LeaseInv, Local, CallOK, TakeOverOK, StampOK, OnTime, Owns, Holds, Leads, Pending

\* The lease of a punctual holder is not expired.
LEMMA PunctualHolder ==
    ASSUME TypeOK, LeaseInv, NEW p \in Punctual, Holds(p)
    PROVE  fresh[p] /\ Owns(p) /\ exists /\ ~Expired(Stamp) /\ Stamp <= Duration
<1>1. p \in Replica /\ Local(p) /\ OnTime(p)
  BY ReplicaAssumption DEF LeaseInv, Local
<1>2. fresh[p] /\ Owns(p) /\ exists
  BY <1>1 DEF Local, OnTime, Owns
<1>3. Stamp \in Nat /\ since[p] \in 0 .. Late
  BY <1>1, StampType, TimingFacts DEF TypeOK, Age
<1>4. Stamp <= Duration
  <2>1. CASE Leads(p)
    BY <1>1, <1>3, <2>1, TimingAssumption DEF OnTime, Late
  <2>2. CASE ~Leads(p)
    BY <1>1, <1>3, <2>2, TimingAssumption DEF OnTime, Holds, Pending
  <2>. QED BY <2>1, <2>2
<1>. QED BY <1>2, <1>3, <1>4, TimingFacts DEF Expired

\* What an accepted call of `q` means for the others: none of them is a
\* punctual holder.
LEMMA AcceptedAlone ==
    ASSUME TypeOK, LeaseInv, NEW q \in Replica, Apply(q), NEW p \in Punctual, Holds(p)
    PROVE  p = q
<1>1. fresh[p] /\ Owns(p) /\ exists /\ ~Expired(Stamp) /\ p \in Replica
  BY PunctualHolder, ReplicaAssumption
<1>2. /\ req[q] # None /\ req[q].status = "sent" /\ req[q] \in Request
      /\ req[q].kind # "create" /\ fresh[q]
  BY <1>1, CallFacts DEF Apply, Accepts, CurrentVersion
<1>3. req[q].kind # "takeover"
  BY <1>1, <1>2 DEF LeaseInv, Local, TakeOverOK, Pending
<1>4. Owns(q)
  BY <1>2, <1>3 DEF Owns, Pending, Request
<1>. QED BY <1>1, <1>4 DEF LeaseInv

\* The call that is accepted comes from a replica that waits for the answer,
\* or from one that is over.
LEMMA ApplyInv == ASSUME TypeOK, LeaseInv, NEW p \in Replica, Apply(p) PROVE LeaseInv'
<1> DEFINE r == req[p]
<1>1. /\ r # None /\ r.status = "sent" /\ r \in Request /\ r.age \in Age
      /\ Local(p)
  BY CallFacts DEF Apply, LeaseInv
<1>2. /\ UNCHANGED <<phase, seen, since>>
      /\ \A q \in Replica : fresh'[q] = (q = p)
      /\ \A q \in Replica \ {p} : req'[q] = req[q]
      /\ phase[p] = "over" => req'[p] = None
      /\ phase[p] # "over" => /\ req'[p] # None /\ req'[p].status = "applied"
                              /\ req'[p].kind = r.kind /\ req'[p].age = r.age
  <2>1. UNCHANGED <<phase, seen, since>> /\ fresh' = [q \in Replica |-> q = p]
    BY DEF Apply
  <2>2. req' = [req EXCEPT ![p] = IF phase[p] = "over" THEN None
                                  ELSE [r EXCEPT !.status = "applied"]]
    BY DEF Apply, Handled
  <2>3. LET n == [r EXCEPT !.status = "applied"]
        IN  n # None /\ n.status = "applied" /\ n.kind = r.kind /\ n.age = r.age
    BY <1>1, Answered
  <2>. QED BY <2>1, <2>2, <2>3 DEF TypeOK
<1>3. exists'
  BY DEF Apply, Accepts, CurrentVersion, Written, StampAcquire, StampRenew, ApplyRenewTime
<1>4. r.kind \in {"create", "takeover"} =>
         acquireTime' = r.age /\ renewTime' = None /\ Stamp' = r.age
  BY <1>1, NoneAssumption DEF Apply, Written, StampAcquire, Stamp
<1>5. r.kind = "renew" => renewTime' = r.age /\ Stamp' = r.age
  BY <1>1, NoneAssumption DEF Apply, Written, StampRenew, ApplyRenewTime, Stamp
<1>6. phase[p] \in {"acquiring", "renewing", "releasing", "over"}
  BY <1>1 DEF Local, CallOK, TypeOK, Phase
<1>7. Local(p)'
  <2>1. CallOK(p)' /\ TakeOverOK(p)'
    BY <1>1, <1>2, <1>6 DEF Local, CallOK, TakeOverOK, Pending
  <2>2. StampOK(p)'
    BY <1>1, <1>2, <1>4, <1>5, <1>6, NoneAssumption
       DEF Local, CallOK, StampOK, Holds, Leads, Pending
  <2>3. ASSUME p \in Punctual PROVE OnTime(p)'
    <3>1. OnTime(p) /\ since[p] \in 0 .. Late
      BY <1>1, <2>3 DEF Local, TypeOK
    <3>2. CASE phase[p] = "acquiring"
      BY <1>1, <1>2, <1>4, <3>1, <3>2 DEF Local, CallOK, OnTime, Holds, Leads, Pending
    <3>3. CASE phase[p] = "renewing"
      <4>1. r.age <= since[p] - Interval /\ since[p] >= Interval /\ Stamp' = r.age
        BY <1>1, <1>5, <3>1, <3>3 DEF Local, CallOK, OnTime
      <4>2. Stamp' <= since[p] + MaxDelay
        BY <1>1, <3>1, <4>1, TimingFacts DEF Age
      <4>. QED BY <1>2, <3>3, <4>1, <4>2 DEF OnTime, Holds, Leads, Pending
    <3>4. CASE phase[p] \in {"releasing", "over"}
      BY <1>2, <3>4 DEF OnTime, Holds, Leads, Pending
    <3>. QED BY <1>6, <3>2, <3>3, <3>4
  <2>. QED BY <1>3, <2>1, <2>2, <2>3 DEF Local
<1>8. ASSUME NEW q \in Replica, q # p
      PROVE  Local(q)' /\ ~Owns(q)'
  <2>1. Local(q) /\ ~fresh'[q] /\ req'[q] = req[q]
    BY <1>2, <1>8 DEF LeaseInv
  <2>2. CallOK(q)' /\ TakeOverOK(q)' /\ StampOK(q)' /\ ~Owns(q)'
    BY <1>2, <2>1 DEF Local, CallOK, TakeOverOK, StampOK, Owns
  <2>3. ASSUME q \in Punctual PROVE OnTime(q)'
    <3>1. ~Holds(q)
      BY <1>8, <2>3, AcceptedAlone
    <3>. QED BY <1>2, <2>1, <2>3, <3>1 DEF Local, OnTime, Holds, Leads, Pending
  <2>. QED BY <2>1, <2>2, <2>3 DEF Local
<1>. QED BY <1>7, <1>8 DEF LeaseInv

LEMMA TickInv == ASSUME TypeOK, LeaseInv, Tick PROVE LeaseInv'
<1>1. /\ UNCHANGED <<exists, created, phase, fresh>>
      /\ Stamp' = Grow(Stamp) /\ Stamp \in Age
      /\ acquireTime' = None <=> acquireTime = None
      /\ renewTime' = None <=> renewTime = None
  BY TickFacts, StampType, GrowType, NoneAssumption DEF Tick, TypeOK
<1>2. \A p \in Replica :
        /\ req'[p] = None <=> req[p] = None
        /\ req[p] # None => /\ req'[p].kind = req[p].kind /\ req'[p].status = req[p].status
                            /\ req'[p].age = Grow(req[p].age) /\ req[p].age \in Age
  BY TickFacts, CallFacts
<1>3. \A p \in Replica : phase[p] = "deciding" => seen'[p] = Grow(seen[p])
  BY DEF Tick
<1>4. Expired(Stamp) => Expired(Stamp')
  BY <1>1, GrowType, TimingFacts DEF Expired, Age
<1>5. ASSUME NEW p \in Replica
      PROVE  Local(p)' /\ (Owns(p)' <=> Owns(p))
  <2>1. Local(p)
    BY DEF LeaseInv
  <2>2. CallOK(p)' /\ StampOK(p)' /\ (Owns(p)' <=> Owns(p)) /\ (fresh'[p] => exists')
    BY <1>1, <1>2, <2>1 DEF Local, CallOK, StampOK, Owns, Holds, Leads, Pending
  <2>3. TakeOverOK(p)'
    BY <1>1, <1>2, <1>3, <1>4, <2>1 DEF Local, TakeOverOK, Pending
  <2>4. ASSUME p \in Punctual PROVE OnTime(p)'
    <3>1. OnTime(p) /\ CallOK(p) /\ since[p] \in 0 .. Late
      BY <2>1, <2>4 DEF Local, TypeOK
    <3>2. Holds(p) => Stamp <= Duration
      BY <2>4, PunctualHolder
    <3>3. /\ Stamp \in Nat /\ Stamp' = IF Stamp > Duration THEN Stamp ELSE Stamp + 1
          /\ req[p] # None => /\ req[p].age \in Nat /\ req[p].age <= Duration + 1
                              /\ req'[p].age = IF req[p].age > Duration THEN req[p].age
                                               ELSE req[p].age + 1
      BY <1>1, <1>2, GrowType, TimingFacts DEF Age
    <3>4. since'[p] = IF Leads(p) THEN since[p] + 1 ELSE 0
      BY <2>4 DEF Tick, Leads
    <3>5. CASE phase[p] = "acquiring"
      <4>1. req[p] # None /\ req[p].age < MaxDelay
        BY <2>4, <3>1, <3>5 DEF Tick, InTime, CallOK
      <4>2. req'[p].age <= MaxDelay
        BY <3>3, <4>1, TimingFacts
      <4>3. Pending(p, "applied") => Stamp' = req'[p].age
        BY <3>1, <3>2, <3>3, <3>5, <4>1 DEF OnTime, Holds
      <4>. QED BY <1>1, <1>2, <3>1, <3>5, <4>1, <4>2, <4>3 DEF OnTime, Holds, Leads, Pending
    <3>6. CASE phase[p] = "leading"
      <4>1. Stamp' <= since'[p] + MaxDelay
        BY <3>1, <3>3, <3>4, <3>6, TimingFacts DEF OnTime, Leads
      <4>. QED BY <1>1, <3>1, <3>6, <4>1 DEF OnTime, Holds, Leads
    <3>7. CASE phase[p] = "renewing"
      <4>1. req[p] # None /\ Leads(p) /\ Holds(p)
        BY <3>1, <3>7 DEF CallOK, Leads, Holds
      <4>2. Stamp' <= since'[p] + MaxDelay /\ since'[p] >= Interval
        BY <3>1, <3>3, <3>4, <3>7, <4>1, TimingFacts DEF OnTime
      <4>3. req'[p].age <= since'[p] - Interval
        BY <3>1, <3>3, <3>4, <3>7, <4>1, TimingFacts DEF OnTime
      <4>4. req'[p].status # "refused" /\ fresh'[p]
        BY <1>1, <1>2, <3>1, <3>7, <4>1 DEF OnTime
      <4>5. req'[p].status = "applied" => Stamp' = req'[p].age
        BY <1>2, <3>1, <3>2, <3>3, <3>7, <4>1 DEF OnTime
      <4>. QED BY <1>1, <3>7, <4>2, <4>3, <4>4, <4>5 DEF OnTime
    <3>8. CASE phase[p] \notin {"acquiring", "leading", "renewing"}
      BY <1>1, <3>8 DEF OnTime, Holds, Leads
    <3>. QED BY <3>5, <3>6, <3>7, <3>8
  <2>. QED BY <1>1, <2>2, <2>3, <2>4 DEF Local
<1>. QED BY <1>5 DEF LeaseInv

LEMMA NextInv == TypeOK /\ LeaseInv /\ [Next]_vars => LeaseInv'
<1> SUFFICES ASSUME TypeOK, LeaseInv, [Next]_vars PROVE LeaseInv'
  OBVIOUS
<1> DEFINE Elsewhere(p) ==
      \A q \in Replica \ {p} : /\ phase'[q] = phase[q] /\ seen'[q] = seen[q]
                                /\ fresh'[q] = fresh[q] /\ req'[q] = req[q]
                                /\ since'[q] = since[q]
<1>0. ASSUME NEW p \in Replica, UNCHANGED lease
      PROVE  Stamp' = Stamp /\ UNCHANGED <<exists, acquireTime, renewTime>> /\ Local(p)
  BY <1>0 DEF lease, Stamp, LeaseInv
<1>1. ASSUME NEW p \in Replica, Start(p) \/ Wait(p) \/ Retry(p)
      PROVE  LeaseInv'
  <2>1. UNCHANGED lease /\ Elsewhere(p)
    BY <1>1 DEF Start, Wait, Retry, TypeOK
  <2>2. /\ req' = req /\ fresh' = fresh /\ req[p] = None
        /\ phase'[p] \in {"getting", "waiting"}
    BY <1>0, <1>1, <2>1 DEF Start, Wait, Retry, TypeOK, Local, CallOK
  <2>3. Local(p)' /\ ~Owns(p)'
    BY <1>0, <2>1, <2>2
       DEF Local, CallOK, TakeOverOK, StampOK, OnTime, Owns, Holds, Leads, Pending
  <2>. QED BY <2>1, <2>3, OwnStep
<1>2. ASSUME NEW p \in Replica, GetLease(p)
      PROVE  LeaseInv'
  <2>1. UNCHANGED lease /\ Elsewhere(p)
    BY <1>2 DEF GetLease, TypeOK
  <2>2. /\ req'[p] = None /\ phase'[p] = "deciding" /\ seen'[p] = Stamp /\ exists'
    BY <1>0, <1>2, <2>1 DEF GetLease, TypeOK, Local, CallOK
  <2>3. Local(p)' /\ ~Owns(p)'
    BY <1>0, <2>1, <2>2
       DEF Local, CallOK, TakeOverOK, StampOK, OnTime, Owns, Holds, Leads, Pending
  <2>. QED BY <2>1, <2>3, OwnStep
<1>3. ASSUME NEW p \in Replica, GetMissing(p) \/ TakeOver(p)
      PROVE  LeaseInv'
  <2>1. UNCHANGED lease /\ Elsewhere(p)
    BY <1>3 DEF GetMissing, TakeOver, Send, TypeOK
  <2>2. /\ req'[p] # None /\ req'[p].status = "sent" /\ req'[p].age = 0
        /\ req'[p].kind \in {"create", "takeover"}
        /\ phase'[p] = "acquiring" /\ fresh' = fresh
        /\ req'[p].kind = "takeover" => phase[p] = "deciding" /\ Expired(seen[p])
    BY <1>3, SendFacts DEF GetMissing, TakeOver, TypeOK
  <2>3. Local(p)' /\ ~Owns(p)'
    BY <1>0, <2>1, <2>2, TimingFacts
       DEF Local, CallOK, TakeOverOK, StampOK, OnTime, Owns, Holds, Leads, Pending
  <2>. QED BY <2>1, <2>3, OwnStep
<1>4. ASSUME NEW p \in Replica, Renew(p) \/ Release(p)
      PROVE  LeaseInv'
  <2>1. UNCHANGED lease /\ Elsewhere(p)
    BY <1>4 DEF Renew, Release, Send, TypeOK
  <2>2. /\ req'[p] # None /\ req'[p].status = "sent" /\ req'[p].age = 0
        /\ fresh' = fresh /\ since' = since /\ phase[p] = "leading"
        /\ \/ /\ req'[p].kind = "renew" /\ phase'[p] = "renewing"
              /\ p \in Punctual => since[p] >= Interval
           \/ req'[p].kind = "release" /\ phase'[p] = "releasing"
    BY <1>4, SendFacts DEF Renew, Release, TypeOK
  <2>3. Owns(p)' => Owns(p)
    BY <2>2 DEF Owns, Holds, Leads
  <2>4. Local(p)'
    <3>1. CallOK(p)' /\ (fresh[p] => exists)' /\ TakeOverOK(p)' /\ StampOK(p)'
      BY <1>0, <2>1, <2>2
         DEF Local, CallOK, TakeOverOK, StampOK, Holds, Leads, Pending
    <3>2. ASSUME p \in Punctual PROVE OnTime(p)'
      <4>1. since[p] \in 0 .. Late /\ OnTime(p)
        BY <1>0, <2>1, <3>2 DEF TypeOK, Local
      <4>. QED BY <1>0, <2>1, <2>2, <3>2, <4>1, TimingFacts
           DEF OnTime, Holds, Leads, Pending
    <3>. QED BY <3>1, <3>2 DEF Local
  <2>. QED BY <2>1, <2>3, <2>4, OwnStep
<1>5. ASSUME NEW p \in Replica, Apply(p)
      PROVE  LeaseInv'
  BY <1>5, ApplyInv
<1>6. ASSUME NEW p \in Replica, Refuse(p)
      PROVE  LeaseInv'
  <2>1. UNCHANGED lease /\ Elsewhere(p) /\ UNCHANGED <<phase, seen, fresh, since>>
    BY <1>6 DEF Refuse, Handled, TypeOK
  <2>2. /\ req[p] # None /\ req[p].status = "sent"
        /\ phase[p] = "over" => req'[p] = None
        /\ phase[p] # "over" => /\ req'[p] # None /\ req'[p].status = "refused"
                                /\ req'[p].kind = req[p].kind /\ req'[p].age = req[p].age
    <3>1. req' = [req EXCEPT ![p] = IF phase[p] = "over" THEN None
                                    ELSE [req[p] EXCEPT !.status = "refused"]]
      BY <1>6 DEF Refuse, Handled
    <3>2. req[p] # None /\ req[p].status = "sent" /\ req[p] \in Request
      BY <1>6, CallFacts DEF Refuse
    <3>. QED BY <3>1, <3>2, Answered DEF TypeOK
  <2>3. p \in Punctual => phase[p] # "renewing"
    <3>1. SUFFICES ASSUME p \in Punctual, phase[p] = "renewing" PROVE FALSE
      OBVIOUS
    <3>2. fresh[p] /\ exists /\ req[p].kind = "renew"
      BY <1>0, <2>1, <3>1, PunctualHolder DEF Local, CallOK, Holds, Leads
    <3>. QED BY <1>6, <3>2 DEF Refuse, Accepts, CurrentVersion
  <2>4. Owns(p)' => Owns(p)
    BY <2>1, <2>2 DEF Owns, Holds, Leads, Pending
  <2>5. Local(p)'
    BY <1>0, <2>1, <2>2, <2>3
       DEF Local, CallOK, TakeOverOK, StampOK, OnTime, Holds, Leads, Pending
  <2>. QED BY <2>1, <2>4, <2>5, OwnStep
<1>7. ASSUME NEW p \in Replica, Acquired(p)
      PROVE  LeaseInv'
  <2>1. UNCHANGED lease /\ Elsewhere(p)
    BY <1>7 DEF Acquired, TypeOK
  <2>2. /\ phase[p] = "acquiring" /\ Pending(p, "applied")
        /\ phase'[p] = "leading" /\ since'[p] = 0 /\ req'[p] = None /\ fresh' = fresh
    BY <1>7 DEF Acquired, TypeOK, Pending
  <2>3. Owns(p)' => Owns(p)
    BY <2>2 DEF Owns, Holds
  <2>4. Local(p)'
    BY <1>0, <2>1, <2>2, TimingFacts
       DEF Local, CallOK, TakeOverOK, StampOK, OnTime, Holds, Leads, Pending
  <2>. QED BY <2>1, <2>3, <2>4, OwnStep
<1>8. ASSUME NEW p \in Replica, Renewed(p)
      PROVE  LeaseInv'
  <2>1. UNCHANGED lease /\ Elsewhere(p)
    BY <1>8 DEF Renewed, TypeOK
  <2>2. /\ phase[p] = "renewing" /\ Pending(p, "applied")
        /\ phase'[p] = "leading" /\ req'[p] = None /\ fresh' = fresh
        /\ since'[p] = IF since[p] >= Interval THEN since[p] - Interval ELSE 0
    BY <1>8 DEF Renewed, TypeOK, Pending
  <2>3. Owns(p)' => Owns(p)
    BY <2>2 DEF Owns, Holds, Leads
  <2>4. ASSUME p \in Punctual PROVE Stamp <= since'[p] + MaxDelay
    <3>1. /\ since[p] >= Interval /\ req[p].age <= since[p] - Interval /\ Stamp = req[p].age
          /\ since[p] \in 0 .. Late /\ req[p].age \in Age
      BY <1>0, <2>1, <2>2, <2>4, CallFacts DEF Local, OnTime, Pending, TypeOK
    <3>. QED BY <2>2, <3>1, TimingFacts DEF Age
  <2>5. Local(p)'
    BY <1>0, <2>1, <2>2, <2>4
       DEF Local, CallOK, TakeOverOK, StampOK, OnTime, Holds, Leads, Pending
  <2>. QED BY <2>1, <2>3, <2>5, OwnStep
<1>9. ASSUME NEW p \in Replica, Over(p) \/ Crash(p)
      PROVE  LeaseInv'
  <2>1. UNCHANGED lease /\ Elsewhere(p)
    BY <1>9 DEF Over, Crash, TypeOK
  <2>2. /\ phase'[p] = "over" /\ fresh' = fresh
        /\ req'[p] = None \/ (req'[p] = req[p] /\ req[p].status = "sent")
    BY <1>9 DEF Over, Crash, TypeOK
  <2>3. Owns(p)' => Owns(p)
    BY <2>2 DEF Owns, Holds, Leads, Pending
  <2>4. Local(p)'
    BY <1>0, <2>1, <2>2
       DEF Local, CallOK, TakeOverOK, StampOK, OnTime, Holds, Leads, Pending
  <2>. QED BY <2>1, <2>3, <2>4, OwnStep
<1>10. CASE Tick
  BY <1>10, TickInv
<1>11. CASE UNCHANGED vars
  <2>1. UNCHANGED lease /\ Stamp' = Stamp
    BY <1>11 DEF vars, lease, Stamp
  <2>. QED BY <1>11, <2>1
       DEF vars, LeaseInv, Local, CallOK, TakeOverOK, StampOK, OnTime, Owns, Holds, Leads,
           Pending
<1>. QED BY <1>1, <1>2, <1>3, <1>4, <1>5, <1>6, <1>7, <1>8, <1>9, <1>10, <1>11
         DEF Next, ReplicaStep, ApiStep

(***************************************************************************)
(* At most one replica may write the Lease without looking at its time     *)
(* stamps, and a punctual holder's stamp is never old enough to be taken   *)
(* over, at every call in flight of any number of replicas.                *)
(***************************************************************************)
THEOREM LeaseAlways == Spec => []LeaseInv
BY InitType, NextType, InitInv, NextInv, PTL DEF Spec

(***************************************************************************)
(* A replica that is never late runs reconcilers alone, but for replicas   *)
(* that are late: with 15 s of lease renewed every 10 s, as long as its    *)
(* steps and calls take no more than 2.5 s.                                *)
(***************************************************************************)
THEOREM LeaderIsAlone == Spec => []PunctualLeadsAlone
<1>1. TypeOK /\ LeaseInv => PunctualLeadsAlone
  <2> SUFFICES ASSUME TypeOK, LeaseInv, NEW p \in Punctual, Leads(p)
               PROVE  fresh[p] /\ \A q \in Replica \ {p} :
                                      Leads(q) => q \notin Punctual /\ ~fresh[q]
    BY DEF PunctualLeadsAlone
  <2>1. p \in Replica /\ fresh[p] /\ Owns(p)
    BY PunctualHolder, ReplicaAssumption DEF Holds
  <2>2. ASSUME NEW q \in Replica \ {p}, Leads(q)
        PROVE  q \notin Punctual /\ ~fresh[q]
    <3>1. ~Owns(q)
      BY <2>1 DEF LeaseInv
    <3>2. ~fresh[q]
      BY <2>2, <3>1 DEF Owns, Holds
    <3>. QED BY <2>2, <3>2, PunctualHolder DEF Holds
  <2>. QED BY <2>1, <2>2
<1>. QED BY LeaseTypeCorrect, LeaseAlways, <1>1, PTL

(***************************************************************************)
(* The Lease of the current leader is never without a time stamp, which    *)
(* would make every other replica take it over at once.                    *)
(***************************************************************************)
THEOREM LeaderStamped == Spec => []LeaderIsStamped
<1>1. LeaseInv => LeaderIsStamped
  BY DEF LeaseInv, Local, StampOK, Holds, LeaderIsStamped
<1>. QED BY LeaseAlways, <1>1, PTL
=============================================================================
