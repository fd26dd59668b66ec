------------------------ MODULE ProxyAdmission_proof ------------------------
(***************************************************************************)
(* A drained proxy is closed for good, and one whose logins overlap no     *)
(* disconnect agrees with Agones, the cache and its probe: proofs for any  *)
(* number of players and of threads that drain, and any capacity.          *)
(***************************************************************************)
EXTENDS ProxyAdmission, FiniteSetTheorems, TLAPS

\* What an exclusion has closed so far.  Nothing opens it again: no disconnect is
\* about to (the future is set before its timer starts, and when it is completed
\* those that did not see it have returned), and no later one will be.
Shut ==
    \A t \in Drain :
        /\ at[t] \in Setting \cup {"checking"} => completed # {}
        /\ at[t] \in {"publish", "create", "checking"} => ~accepting
        /\ at[t] \in {"create", "checking"} => ~listed
        /\ at[t] = "checking" => readinessLock

FutureSet ==
    /\ timers # {} \/ completed # {} => isDraining
    /\ \A t \in Drain : at[t] \in {"drain lock", "drain create", "schedule"} => isDraining

NoneOpens == completed # {} => \A t \in Logout : at[t] \notin Setting

AdmissionInv == TypeOK /\ FutureSet /\ NoneOpens /\ Shut

\* A thread is of one kind.
LEMMA Kinds ==
    /\ Login \cap Logout = {} /\ Login \cap Drain = {} /\ Logout \cap Drain = {}
    /\ \A d \in Drainer : DrainThread(d) \in Drain
    /\ \A p \in Player : <<"login", p>> \in Login /\ <<"logout", p>> \in Logout
    /\ Login \subseteq Thread /\ Logout \subseteq Thread /\ Drain \subseteq Thread
BY DEF Login, Logout, Drain, Thread, DrainThread

LEMMA InitInv == Init => AdmissionInv
BY Kinds DEF Init, AdmissionInv, TypeOK, FutureSet, NoneOpens, Shut, isDraining, Stage, Setting

\* The end of the process leaves nothing to be wrong.
LEMMA ShutdownInv == ASSUME AdmissionInv, Shutdown PROVE AdmissionInv'
BY Kinds DEF Shutdown, AdmissionInv, TypeOK, FutureSet, NoneOpens, Shut, isDraining, Stage, Setting

\* Players move, and their threads start, far from what the invariant says.
LEMMA PlayerInv == ASSUME AdmissionInv, NEW p \in Player, PlayerStep(p) PROVE AdmissionInv'
<1> USE DEF flags, allocation, draining, Connect, Goto
<1>1. TypeOK'
  <2> USE Kinds DEF AdmissionInv, TypeOK, Stage
  <2>1. CASE PreLogin(p)
    BY <2>1 DEF PreLogin
  <2>2. CASE GivesUp(p)
    BY <2>2 DEF GivesUp
  <2>3. CASE LoginEvent(p)
    BY <2>3 DEF LoginEvent
  <2>4. CASE Registered(p)
    BY <2>4 DEF Registered
  <2>5. CASE Disconnect(p)
    BY <2>5 DEF Disconnect
  <2>6. CASE Removed(p)
    BY <2>6 DEF Removed
  <2>. QED BY <2>1, <2>2, <2>3, <2>4, <2>5, <2>6 DEF PlayerStep
<1>2. /\ UNCHANGED <<accepting, listed, readinessLock, drainingFuture, timers, completed>>
      /\ \A t \in Drain : at'[t] = at[t]
      /\ \A t \in Logout : at'[t] \in Setting => at[t] \in Setting
  BY Kinds DEF AdmissionInv, TypeOK, PlayerStep, PreLogin, GivesUp, LoginEvent, Registered,
               Disconnect, Removed, Setting
<1>3. FutureSet' /\ NoneOpens' /\ Shut'
  BY <1>2 DEF AdmissionInv, FutureSet, NoneOpens, Shut, isDraining
<1>. QED BY <1>1, <1>3 DEF AdmissionInv

LEMMA FlagType == ASSUME NEW t, SetFlag(t) PROVE accepting' \in BOOLEAN
<1>1. accepting' = (t \in Logout)
  BY DEF SetFlag
<1>2. (t \in Logout) \in BOOLEAN
  OBVIOUS
<1>. QED BY <1>1, <1>2, Zenon

LEMMA HandlerType == ASSUME AdmissionInv, NEW t \in Thread, HandlerStep(t) PROVE TypeOK'
<1> USE DEF AdmissionInv, TypeOK, flags, allocation, draining, Goto, Return, Stage, Setting
<1>1. CASE Allocate(t) \/ Clear(t)
  BY <1>1 DEF Allocate, Clear
<1>2. CASE Release(t)
  BY <1>2 DEF Release
<1>8. CASE Judge(t)
  BY <1>8 DEF Judge
<1>5. CASE CallAgones(t)
  BY <1>5 DEF CallAgones
<1>6. CASE SetFlag(t)
  <2>1. accepting' \in BOOLEAN
    BY <1>6, FlagType
  <2>. QED BY <1>6, <2>1 DEF SetFlag
<1>7. CASE Open(t)
  BY <1>7 DEF Open
<1>9. CASE DeleteReadinessLock(t)
  BY <1>9 DEF DeleteReadinessLock
<1>3. CASE Close(t)
  BY <1>3 DEF Close
<1>4. CASE CreateReadinessLock(t)
  BY <1>4 DEF CreateReadinessLock
<1>. QED BY <1>1, <1>2, <1>3, <1>4, <1>5, <1>6, <1>7, <1>8, <1>9 DEF HandlerStep

\* A step of a login, a disconnect or an exclusion.
LEMMA HandlerInv == ASSUME AdmissionInv, NEW t \in Thread, HandlerStep(t) PROVE AdmissionInv'
<1>1. TypeOK'
  BY HandlerType
<1>2. UNCHANGED <<drainingFuture, timers, completed>>
  BY DEF HandlerStep, Allocate, Release, Clear, CallAgones, Judge,
         SetFlag, Open, DeleteReadinessLock, Close, CreateReadinessLock, draining
<1>3. \A u \in Thread \ {t} : at'[u] = at[u]
  BY DEF AdmissionInv, TypeOK, HandlerStep, Allocate, Release, Clear, CallAgones, Judge,
         SetFlag, Open, DeleteReadinessLock, Close, CreateReadinessLock, Goto, Return
<1>4. CASE Allocate(t) \/ Release(t) \/ Clear(t) \/ CallAgones(t)
  <2>1. /\ at'[t] \in {"judge", "call", "clear"}
        /\ UNCHANGED flags
    BY <1>4 DEF AdmissionInv, TypeOK, Allocate, Release, Clear, CallAgones, Goto
  <2>. QED
    BY <1>1, <1>2, <1>3, <2>1, Kinds
    DEF AdmissionInv, FutureSet, NoneOpens, Shut, isDraining, flags, Setting
<1>5. CASE Judge(t)
  <2>1. /\ at'[t] = IF Closes(t) \/ Reopens(t) THEN "flag" ELSE "idle"
        /\ UNCHANGED flags
    BY <1>5 DEF AdmissionInv, TypeOK, Judge, Goto
  <2>2. t \in Drain => at'[t] = "idle"
    BY <2>1, Kinds DEF Closes, Reopens
  <2>3. completed # {} /\ t \in Logout => at'[t] = "idle"
    BY <2>1, Kinds DEF Closes, Reopens, AdmissionInv, FutureSet
  <2>. QED
    BY <1>1, <1>2, <1>3, <2>1, <2>2, <2>3, Kinds
    DEF AdmissionInv, FutureSet, NoneOpens, Shut, isDraining, flags, Setting
<1>6. CASE SetFlag(t) \/ Open(t) \/ DeleteReadinessLock(t) \/ Close(t) \/ CreateReadinessLock(t)
  <2>1. t \in Logout /\ at[t] \in Setting => completed = {}
    BY DEF AdmissionInv, NoneOpens
  <2>2. at[t] \in Setting
    BY <1>6 DEF SetFlag, Open, DeleteReadinessLock, Close, CreateReadinessLock, Is, Setting
  <2>3. t \in Drain => completed # {}
    BY <2>2 DEF AdmissionInv, Shut
  <2>4. FutureSet' /\ NoneOpens'
    <3>1. at'[t] \notin {"drain lock", "drain create", "schedule"}
      BY <1>6 DEF SetFlag, Open, DeleteReadinessLock, Close, CreateReadinessLock, AdmissionInv, TypeOK, Goto, Return
    <3>. QED BY <1>2, <1>3, <2>1, <2>2, <3>1, Kinds DEF AdmissionInv, FutureSet, NoneOpens, isDraining
  <2>5. Shut'
    <3>1. CASE t \in Logout
      <4>. QED BY <1>2, <1>3, <2>1, <2>2, <3>1, Kinds DEF AdmissionInv, Shut, Setting
    <3>2. CASE t \notin Logout
      <4>1. CASE SetFlag(t)
        BY <1>2, <1>3, <2>3, <3>2, <4>1, Kinds
        DEF SetFlag, AdmissionInv, TypeOK, Shut, Setting, Goto, Is
      <4>2. CASE Close(t)
        BY <1>2, <1>3, <2>3, <3>2, <4>2, Kinds
        DEF Close, AdmissionInv, TypeOK, Shut, Setting, Goto, Return, Is
      <4>3. CASE CreateReadinessLock(t)
        BY <1>2, <1>3, <2>3, <3>2, <4>3, Kinds
        DEF CreateReadinessLock, AdmissionInv, TypeOK, Shut, Setting, Goto, Return, Is
      <4>. QED BY <1>6, <3>2, <4>1, <4>2, <4>3 DEF Open, DeleteReadinessLock
    <3>. QED BY <3>1, <3>2
  <2>. QED BY <1>1, <2>4, <2>5 DEF AdmissionInv
<1>. QED BY <1>4, <1>5, <1>6 DEF HandlerStep

\* A step of drain itself.
LEMMA DrainInv ==
    ASSUME AdmissionInv, NEW d \in Drainer,
           StartDrain(d) \/ DrainStep(d) \/ CompleteFuture(d)
    PROVE  AdmissionInv'
<1> USE DEF flags, allocation, draining, Goto, Is
<1>1. TypeOK'
  <2> USE Kinds DEF AdmissionInv, TypeOK, Stage, Setting
  <2>1. CASE CompleteFuture(d)
    BY <2>1 DEF CompleteFuture, FutureSet, isDraining
  <2>2. CASE StartDrain(d) \/ AssignFuture(d)
    BY <2>2 DEF StartDrain, AssignFuture
  <2>5. CASE FindDrainLock(d)
    BY <2>5 DEF FindDrainLock
  <2>6. CASE CreateDrainLock(d)
    BY <2>6 DEF CreateDrainLock
  <2>3. CASE ScheduleExclusion(d)
    BY <2>3 DEF ScheduleExclusion
  <2>4. CASE OnExcludedFromKubernetes(d)
    BY <2>4 DEF OnExcludedFromKubernetes
  <2>. QED BY <2>1, <2>2, <2>3, <2>4, <2>5, <2>6 DEF DrainStep
<1>2. UNCHANGED <<accepting, listed, readinessLock>> /\ \A t \in Logout : at'[t] = at[t]
  BY Kinds DEF AdmissionInv, TypeOK, StartDrain, DrainStep, AssignFuture, FindDrainLock,
               CreateDrainLock, ScheduleExclusion, OnExcludedFromKubernetes, CompleteFuture
<1>3. FutureSet'
  <2>1. CASE AssignFuture(d)
    BY <2>1, Kinds, DrainerAssumption DEF AssignFuture, AdmissionInv, FutureSet, isDraining, TypeOK
  <2>2. CASE ~AssignFuture(d)
    BY <2>2, Kinds
    DEF AdmissionInv, FutureSet, isDraining, TypeOK, StartDrain, DrainStep,
        FindDrainLock, CreateDrainLock, ScheduleExclusion, OnExcludedFromKubernetes, CompleteFuture
  <2>. QED BY <2>1, <2>2
<1>4. NoneOpens'
  BY <1>2
  DEF AdmissionInv, NoneOpens, StartDrain, DrainStep, AssignFuture, FindDrainLock,
      CreateDrainLock, ScheduleExclusion, OnExcludedFromKubernetes, CompleteFuture
<1>5. Shut'
  <2>1. completed # {} => completed' # {}
    BY DEF StartDrain, DrainStep, AssignFuture, FindDrainLock,
           CreateDrainLock, ScheduleExclusion, OnExcludedFromKubernetes, CompleteFuture
  <2>2. \A t \in Drain : at'[t] \in Setting \cup {"checking"} =>
            at'[t] = at[t] \/ (at'[t] = "flag" /\ completed # {})
    BY Kinds
    DEF AdmissionInv, TypeOK, StartDrain, DrainStep, AssignFuture, FindDrainLock,
        CreateDrainLock, ScheduleExclusion, OnExcludedFromKubernetes, CompleteFuture, Setting
  <2>. QED BY <1>2, <2>1, <2>2 DEF AdmissionInv, Shut, Setting
<1>. QED BY <1>1, <1>3, <1>4, <1>5 DEF AdmissionInv

LEMMA NextInv == ASSUME AdmissionInv, [Next]_vars PROVE AdmissionInv'
<1>1. CASE UNCHANGED vars
  <2>1. TypeOK'
    BY <1>1 DEF AdmissionInv, TypeOK, vars
  <2>2. FutureSet' /\ NoneOpens' /\ Shut'
    BY <1>1 DEF AdmissionInv, FutureSet, NoneOpens, Shut, isDraining, vars
  <2>. QED BY <2>1, <2>2 DEF AdmissionInv
<1>2. CASE Next
  BY <1>2, PlayerInv, HandlerInv, DrainInv, ShutdownInv DEF Next, CheckEmpty, ForcedStop
<1>. QED BY <1>1, <1>2

\* Every reachable state satisfies the inductive invariant of the drain.
THEOREM AdmissionAlways == Spec => []AdmissionInv
BY InitInv, NextInv, PTL DEF Spec

\* Type correctness of the flags, threads and futures of a proxy.
THEOREM AdmissionTypeCorrect == Spec => []TypeOK
<1>1. AdmissionInv => TypeOK
  BY DEF AdmissionInv
<1>. QED BY <1>1, AdmissionAlways, PTL

\* The drain is final: once onExcludedFromKubernetes has closed the proxy, neither a
\* login nor a disconnect opens it again, for the flag, the cache and the probe.
THEOREM DrainIsFinal == Spec => []ClosedForGood
<1>1. AdmissionInv => ClosedForGood
  BY DEF AdmissionInv, Shut, ClosedForGood
<1>. QED BY <1>1, AdmissionAlways, PTL

(***************************************************************************)
(* The invariant of AdmissionAgrees, of a process whose logins have not    *)
(* overlapped a disconnect.                                                *)
(***************************************************************************)
Coming(p) == at[<<"login", p>>] # "idle" \/ connection[p] = "logging"

\* Logins and disconnects exclude each other, and who logs in stays.  On BungeeCord
\* who leaves is there until the handler has returned, and nobody else leaves then.
Apart ==
    /\ (\E p \in Player : Coming(p)) => \A t \in Logout : at[t] = "idle"
    /\ \A p \in Player :
          /\ at[<<"login", p>>] # "idle" => connection[p] \in {"logging", "online"}
          /\ connection[p] \notin {"out", "leaving"} => at[<<"logout", p>>] = "idle"
          /\ connection[p] = "leaving" => platform = "bungeecord"
          /\ at[<<"logout", p>>] # "idle" /\ platform = "bungeecord" => connection[p] = "leaving"
    /\ \A p, q \in Player : connection[p] = "leaving" /\ connection[q] = "leaving" => p = q

\* Agones is told of every change, and the last disconnect is the one that sees the
\* proxy empty.
AllocationInv ==
    /\ \A t \in Drain : at[t] # "call"
    /\ (\A t \in Login \cup Logout : at[t] # "call") => (allocated <=> agones = "Allocated")
    /\ \A t \in Login : at[t] = "call" => allocated
    /\ \A t \in Logout : at[t] = "call" => ~allocated
    /\ \A t \in Logout : at[t] = "clear" => Online = {}
    /\ allocated /\ platform = "velocity" =>
           \/ \E p \in Player : connection[p] \in {"logging", "online"}
           \/ \E t \in Logout : at[t] \in {"release", "clear"}
    /\ \A p \in Player :
           connection[p] \in {"logging", "online", "leaving"} /\ at[<<"login", p>>] # "allocate"
               => allocated

\* Full for one who has just left: BungeeCord counts one player more than stay.
Staying == {p \in Player : connection[p] = "online"}
Crowded == Cardinality(Staying) + Leaver >= Limit

\* The flag, the cache and the file while a login closes or a disconnect opens them.
Closed ==
    /\ \A t \in Login :
          /\ at[t] \in Setting => Crowded
          /\ at[t] # "delete"
          /\ at[t] \in {"publish", "create"} => ~accepting
          /\ at[t] = "create" => ~listed
    /\ \A t \in Logout :
          /\ at[t] # "create"
          /\ at[t] \in {"publish", "delete"} => accepting
          /\ at[t] = "delete" => listed
    /\ (\A t \in Login \cup Logout : at[t] \notin Setting) =>
           listed = accepting /\ readinessLock = ~accepting
    /\ accepting \/ Crowded
       \/ \E t \in Logout : at[t] \in {"release", "clear", "call", "judge", "flag"}

AgreeInv ==
    life = "up" /\ ~crossed => Apart /\ AllocationInv /\ (~isDraining => Closed)


LEMMA LoginOf == \A t \in Login : \E p \in Player : t = <<"login", p>>
BY DEF Login

LEMMA AgreeInit == Init => AgreeInv
BY Kinds DEF Init, AgreeInv, Apart, Coming, AllocationInv, Closed, Online, Setting, Staying, Crowded

\* A proxy where no fewer players stay remains crowded.
LEMMA CrowdedSame ==
    ASSUME connection' = connection, platform' = platform
    PROVE  /\ Online' = Online
           /\ Crowded' <=> Crowded
BY DEF Online, Staying, Crowded, Leaver

LEMMA CrowdedGrows ==
    ASSUME Staying \subseteq Staying', platform' = platform, Crowded
    PROVE  Crowded'
<1>1. IsFiniteSet(Staying')
  BY PlayerAssumption, FS_Subset DEF Staying
<1>2. /\ IsFiniteSet(Staying)
      /\ Cardinality(Staying) <= Cardinality(Staying')
      /\ Cardinality(Staying) \in Nat /\ Cardinality(Staying') \in Nat
  BY <1>1, FS_Subset, FS_CardinalityType
<1>3. Leaver' = Leaver /\ Leaver \in {0, 1}
  BY DEF Leaver
<1>. QED BY <1>2, <1>3, LimitAssumption DEF Crowded

\* Who is counted stays, except one who leaves a BungeeCord.
LEMMA Counted ==
    ASSUME TypeOK, Apart
    PROVE  /\ isProxyConsideredFull => Crowded
           /\ Crowded => Cardinality(Online) + Leaver >= Limit
<1>1. IsFiniteSet(Online) /\ Staying \subseteq Online
  BY PlayerAssumption, FS_Subset DEF Online, Staying
<1>2. /\ IsFiniteSet(Staying)
      /\ Cardinality(Staying) <= Cardinality(Online)
      /\ Cardinality(Staying) \in Nat /\ Cardinality(Online) \in Nat
  BY <1>1, FS_Subset, FS_CardinalityType
<1>3. Leaver \in {0, 1}
  BY DEF Leaver
<1>4. Cardinality(Online) <= Cardinality(Staying) + Leaver
  <2>1. CASE \E p \in Player : connection[p] = "leaving"
    <3>1. PICK p \in Player : connection[p] = "leaving"
      BY <2>1
    <3>2. Online = Staying \cup {p} /\ p \notin Staying /\ Leaver = 1
      BY <3>1 DEF Apart, Online, Staying, Leaver
    <3>3. Cardinality(Staying \cup {p}) = Cardinality(Staying) + 1
      BY <1>2, <3>2, FS_AddElement
    <3>. QED BY <1>2, <3>2, <3>3
  <2>2. CASE ~\E p \in Player : connection[p] = "leaving"
    <3>1. Online = Staying
      BY <2>2 DEF Online, Staying
    <3>. QED BY <1>2, <1>3, <3>1
  <2>. QED BY <2>1, <2>2
<1>. QED BY <1>2, <1>3, <1>4, LimitAssumption DEF isProxyConsideredFull, Crowded

LEMMA AgreePlayer ==
    ASSUME AdmissionInv, AgreeInv, NEW p \in Player, PlayerStep(p)
    PROVE  AgreeInv'
<1> SUFFICES ASSUME life' = "up", ~crossed'
             PROVE  (Apart /\ AllocationInv /\ (~isDraining => Closed))'
  BY DEF AgreeInv
<1>1. /\ UNCHANGED <<platform, accepting, listed, readinessLock, allocated, agones, drainingFuture>>
      /\ life = "up" /\ ~crossed
  <2>1. CASE PreLogin(p) \/ GivesUp(p) \/ Registered(p) \/ Removed(p)
    BY <2>1 DEF PreLogin, GivesUp, Registered, Removed, flags, allocation, draining
  <2>2. CASE LoginEvent(p)
    BY <2>2 DEF LoginEvent, flags, allocation, draining
  <2>3. CASE Disconnect(p)
    BY <2>3 DEF Disconnect, flags, allocation, draining
  <2>. QED BY <2>1, <2>2, <2>3 DEF PlayerStep
<1>2. Apart /\ AllocationInv /\ (~isDraining => Closed)
  BY <1>1 DEF AgreeInv
<1>3. isDraining' <=> isDraining
  BY <1>1 DEF isDraining
<1>4. CASE PreLogin(p) \/ GivesUp(p)
  <2>1. /\ at' = at
        /\ \A q \in Player : \/ connection'[q] = connection[q]
                               \/ (connection[q] \in {"out", "admitted"} /\ connection'[q] = "admitted")
                               \/ (connection[q] = "admitted" /\ connection'[q] = "out")
    <3>1. CASE PreLogin(p)
      BY <3>1 DEF PreLogin, Connect, AdmissionInv, TypeOK
    <3>2. CASE GivesUp(p)
      BY <3>2 DEF GivesUp, Connect, AdmissionInv, TypeOK
    <3>. QED BY <1>4, <3>1, <3>2
  <2>2. Online' = Online /\ (Crowded' <=> Crowded)
    <3>1. Online' = Online /\ Staying' = Staying
      BY <2>1 DEF Online, Staying
    <3>. QED BY <1>1, <3>1 DEF Crowded, Leaver
  <2>3. Apart'
    <3>1. \A q \in Player : connection'[q] \notin {"out", "leaving"} => at[<<"logout", q>>] = "idle"
      BY <1>2, <1>4, <2>1 DEF Apart, PreLogin, GivesUp, Connect, AdmissionInv, TypeOK
    <3>. QED BY <1>1, <1>2, <2>1, <3>1 DEF Apart, Coming
  <2>4. AllocationInv'
    BY <1>1, <1>2, <2>1, <2>2 DEF AllocationInv
  <2>5. ~isDraining => Closed'
    BY <1>1, <1>2, <2>1, <2>2 DEF Closed
  <2>. QED BY <1>3, <2>3, <2>4, <2>5
<1>5. CASE Registered(p)
  <2>1. /\ at' = at /\ connection[p] = "logging"
        /\ \A q \in Player : connection'[q] = IF q = p THEN "online" ELSE connection[q]
    BY <1>5 DEF Registered, Connect, AdmissionInv, TypeOK
  <2>2. Staying \subseteq Staying' /\ \A t \in Logout : at[t] = "idle"
    BY <1>2, <2>1 DEF Staying, Apart, Coming
  <2>3. Apart'
    BY <1>1, <1>2, <2>1 DEF Apart, Coming
  <2>4. AllocationInv'
    BY <1>1, <1>2, <2>1, <2>2 DEF AllocationInv
  <2>5. ~isDraining => Closed'
    BY <1>1, <1>2, <2>1, <2>2, CrowdedGrows DEF Closed
  <2>. QED BY <1>3, <2>3, <2>4, <2>5
<1>6. CASE LoginEvent(p)
  <2> DEFINE t0 == <<"login", p>>
  <2>1. /\ connection[p] = "admitted" /\ connection'[p] \in {"logging", "online"}
        /\ \A q \in Player \ {p} : connection'[q] = connection[q]
        /\ t0 \in Login /\ at'[t0] = "allocate"
        /\ \A t \in Thread \ {t0} : at'[t] = at[t]
    BY <1>6, Kinds DEF LoginEvent, Connect, Goto, AdmissionInv, TypeOK
  <2>2. Staying \subseteq Staying' /\ \A t \in Logout : at[t] = "idle"
    BY <1>6, <2>1 DEF Staying, LoginEvent, Runs
  <2>3. /\ \A t \in Logout : at'[t] = "idle"
        /\ \A t \in Drain : at'[t] = at[t]
        /\ \A q \in Player \ {p} : at'[<<"login", q>>] = at[<<"login", q>>]
        /\ at[t0] = "idle"
    BY <1>2, <2>1, <2>2, Kinds DEF Apart
  <2>4. Apart'
    BY <1>1, <1>2, <2>1, <2>3, Kinds DEF Apart, Coming
  <2>5. AllocationInv'
    BY <1>1, <1>2, <2>1, <2>2, <2>3, Kinds DEF AllocationInv
  <2>6. ~isDraining => Closed'
    BY <1>1, <1>2, <2>1, <2>2, <2>3, CrowdedGrows, Kinds DEF Closed, Setting
  <2>. QED BY <1>3, <2>4, <2>5, <2>6
<1>7. CASE Disconnect(p)
  <2> DEFINE t0 == <<"logout", p>>
  <2>1. /\ connection[p] \in {"logging", "online"}
        /\ connection'[p] = IF platform = "velocity" THEN "out" ELSE "leaving"
        /\ \A q \in Player \ {p} : connection'[q] = connection[q]
        /\ \A q \in Player \ {p} : connection[q] \notin {"logging", "leaving"}
        /\ t0 \in Logout /\ at'[t0] = "release"
        /\ \A t \in Thread \ {t0} : at'[t] = at[t]
        /\ at[t0] = "idle"
        /\ \A t \in Login : at[t] = "idle"
    BY <1>2, <1>7, Kinds
    DEF Apart, Disconnect, Connect, Goto, Runs, Overlaps, AdmissionInv, TypeOK
  <2>2. /\ \A t \in Login : at'[t] = "idle"
        /\ \A t \in Drain : at'[t] = at[t]
        /\ \A q \in Player : at'[<<"login", q>>] = "idle"
    BY <2>1, Kinds
  <2>3. Apart'
    <3>1. \A q \in Player \ {p} : at'[<<"logout", q>>] = at[<<"logout", q>>]
      BY <2>1, Kinds
    <3>2. \A q \in Player : connection'[q] \notin {"out", "leaving"} => at'[<<"logout", q>>] = "idle"
      BY <1>2, <2>1, <3>1 DEF Apart
    <3>3. \A q \in Player : at'[<<"login", q>>] = "idle" /\ connection'[q] # "logging"
      BY <2>1, <2>2
    <3>4. platform \in {"velocity", "bungeecord"}
      BY DEF AdmissionInv, TypeOK
    <3>5. \A q \in Player : connection'[q] = "leaving" => q = p /\ platform' = "bungeecord"
      BY <1>1, <2>1, <3>4
    <3>6. \A q \in Player \ {p} : at[<<"logout", q>>] # "idle" => platform # "bungeecord"
      BY <1>2, <2>1 DEF Apart
    <3>7. \A q \in Player : at'[<<"logout", q>>] # "idle" /\ platform' = "bungeecord"
                               => connection'[q] = "leaving"
      BY <1>1, <2>1, <3>1, <3>6
    <3>8. ~(\E q \in Player : Coming(q)')
      BY <3>3 DEF Coming
    <3>. QED BY <3>2, <3>3, <3>5, <3>7, <3>8 DEF Apart
  <2>4. AllocationInv'
    <3>1. platform = "velocity" => Online' \subseteq Online
      BY <2>1 DEF Online
    <3>2. platform # "velocity" => \A t \in Logout : at[t] # "clear"
      <4>1. ASSUME platform # "velocity", NEW t \in Logout, at[t] # "idle" PROVE FALSE
        <5>1. PICK q \in Player : t = <<"logout", q>>
          BY DEF Logout
        <5>2. connection[q] = "leaving"
          BY <1>2, <4>1, <5>1 DEF Apart, AdmissionInv, TypeOK
        <5>. QED BY <2>1, <5>2
      <4>. QED BY <4>1
    <3>. QED BY <1>1, <1>2, <2>1, <2>2, <3>1, <3>2, Kinds DEF AllocationInv
  <2>5. ASSUME ~isDraining PROVE Closed'
    <3>1. Closed
      BY <1>2, <2>5
    <3>2. (\A t \in Login \cup Logout : at'[t] \notin Setting) =>
             \A t \in Login \cup Logout : at[t] \notin Setting
      BY <2>1, <2>2, Kinds DEF Setting
    <3>3. (\A t \in Login \cup Logout : at'[t] \notin Setting) =>
             listed' = accepting' /\ readinessLock' = ~accepting'
      BY <1>1, <3>1, <3>2, Zenon DEF Closed
    <3>4. \A t \in Logout : /\ at'[t] # "create"
                            /\ at'[t] \in {"publish", "delete"} => accepting'
                            /\ at'[t] = "delete" => listed'
      BY <1>1, <2>1, <3>1, Kinds DEF Closed
    <3>. QED BY <2>1, <2>2, <3>3, <3>4 DEF Closed, Setting
  <2>. QED BY <1>3, <2>3, <2>4, <2>5
<1>8. CASE Removed(p)
  <2>1. /\ at' = at /\ connection[p] = "leaving" /\ at[<<"logout", p>>] = "idle"
        /\ \A q \in Player : connection'[q] = IF q = p THEN "out" ELSE connection[q]
    BY <1>8 DEF Removed, Connect, AdmissionInv, TypeOK
  <2>2. Online' \subseteq Online /\ (Crowded' <=> Crowded)
    <3>1. Online' \subseteq Online /\ Staying' = Staying
      BY <2>1 DEF Online, Staying
    <3>. QED BY <1>1, <3>1 DEF Crowded, Leaver
  <2>3. Apart'
    BY <1>1, <1>2, <2>1 DEF Apart, Coming
  <2>4. AllocationInv'
    BY <1>1, <1>2, <2>1, <2>2 DEF AllocationInv
  <2>5. ~isDraining => Closed'
    BY <1>1, <1>2, <2>1, <2>2 DEF Closed
  <2>. QED BY <1>3, <2>3, <2>4, <2>5
<1>. QED BY <1>4, <1>5, <1>6, <1>7, <1>8 DEF PlayerStep

\* What every step of a handler leaves alone.
LEMMA HandlerFacts ==
    ASSUME AdmissionInv, NEW t \in Thread, HandlerStep(t)
    PROVE  /\ UNCHANGED <<platform, connection, life, crossed, drainingFuture>>
           /\ at[t] # "idle"
           /\ \A u \in Thread \ {t} : at'[u] = at[u]
<1>1. UNCHANGED <<platform, connection, life, crossed, drainingFuture>>
  BY DEF HandlerStep, Allocate, Release, Clear, CallAgones, Judge,
         SetFlag, Open, DeleteReadinessLock, Close, CreateReadinessLock, draining
<1>2. at[t] # "idle"
  BY DEF HandlerStep, Allocate, Release, Clear, CallAgones, Judge,
         SetFlag, Open, DeleteReadinessLock, Close, CreateReadinessLock, Is
<1>3. \A u \in Thread \ {t} : at'[u] = at[u]
  BY DEF AdmissionInv, TypeOK, HandlerStep, Allocate, Release, Clear, CallAgones, Judge,
         SetFlag, Open, DeleteReadinessLock, Close, CreateReadinessLock, Goto, Return
<1>. QED BY <1>1, <1>2, <1>3

LEMMA ApartHandler ==
    ASSUME AdmissionInv, Apart, NEW t \in Thread, HandlerStep(t)
    PROVE  Apart'
<1>1. /\ connection' = connection /\ platform' = platform
      /\ \A u \in Thread : at[u] = "idle" => at'[u] = "idle"
  BY HandlerFacts
<1>2. \A q \in Player : Coming(q)' => Coming(q)
  BY <1>1, Kinds DEF Coming
<1>. QED BY <1>1, <1>2, Kinds DEF Apart

LEMMA AllocationHandler ==
    ASSUME AdmissionInv, Apart, AllocationInv, NEW t \in Thread, HandlerStep(t)
    PROVE  AllocationInv'
<1>1. /\ connection' = connection /\ Online' = Online /\ platform' = platform
      /\ \A u \in Thread \ {t} : at'[u] = at[u]
      /\ at[t] # "idle"
  BY HandlerFacts, CrowdedSame
<1>2. t \in Login => \A u \in Logout : at[u] = "idle"
  BY <1>1 DEF Apart, Coming, Login
<1>3. t \in Logout => /\ \A u \in Login : at[u] = "idle"
                      /\ \A q \in Player : connection[q] # "logging"
  BY <1>1 DEF Apart, Coming, Login
<1>4. CASE Allocate(t)
  <2>1. /\ t \in Login /\ allocated' = TRUE /\ agones' = agones
        /\ at'[t] = IF allocated THEN "judge" ELSE "call"
        /\ at[t] = "allocate"
    BY <1>4 DEF Allocate, Goto, Is, AdmissionInv, TypeOK
  <2>2. \E q \in Player : connection[q] \in {"logging", "online"}
    BY <1>1, <2>1, LoginOf DEF Apart
  <2>. QED BY <1>1, <1>2, <2>1, <2>2, Kinds DEF AllocationInv
<1>5. CASE Release(t)
  <2>1. /\ t \in Logout /\ UNCHANGED <<allocated, agones>>
        /\ at'[t] = IF allocated /\ Online = {} THEN "clear" ELSE "judge"
        /\ at[t] = "release"
    BY <1>5 DEF Release, Goto, Is, allocation, AdmissionInv, TypeOK
  <2>2. allocated /\ Online # {} /\ platform = "velocity" =>
            \E q \in Player : connection[q] = "online"
    BY DEF Online, Apart
  <2>. QED BY <1>1, <2>1, <2>2, Kinds DEF AllocationInv
<1>6. CASE Clear(t)
  <2>1. /\ t \in Logout /\ allocated' = FALSE /\ agones' = agones
        /\ at'[t] = "call" /\ at[t] = "clear"
    BY <1>6 DEF Clear, Goto, Is, AdmissionInv, TypeOK
  <2>2. \A q \in Player : connection[q] \notin {"logging", "online", "leaving"}
    BY <1>3, <2>1 DEF AllocationInv, Online
  <2>. QED BY <1>1, <1>3, <2>1, <2>2, Kinds DEF AllocationInv
<1>7. CASE CallAgones(t)
  <2>1. /\ agones' = IF t \in Login THEN "Allocated" ELSE "Ready"
        /\ allocated' = allocated
        /\ at'[t] = "judge" /\ at[t] = "call"
    BY <1>7 DEF CallAgones, Goto, Is, AdmissionInv, TypeOK
  <2>2. /\ t \in Login => allocated
        /\ t \in Logout => ~allocated
        /\ t \in Login \cup Logout
    BY <2>1 DEF AllocationInv, Thread
  <2>. QED BY <1>1, <2>1, <2>2, Kinds DEF AllocationInv
<1>8. CASE Judge(t) \/ SetFlag(t) \/ Open(t) \/ DeleteReadinessLock(t) \/ Close(t) \/ CreateReadinessLock(t)
  <2>1. UNCHANGED <<allocated, agones>>
    BY <1>8 DEF Judge, SetFlag, Open, DeleteReadinessLock, Close, CreateReadinessLock, allocation
  <2>2. at[t] \in {"judge", "flag", "publish", "create", "delete"}
    BY <1>8 DEF Judge, SetFlag, Open, DeleteReadinessLock, Close, CreateReadinessLock, Is
  <2>3. at'[t] \notin {"allocate", "release", "clear", "call"}
    BY <1>8 DEF Judge, SetFlag, Open, DeleteReadinessLock, Close, CreateReadinessLock, Goto, Return, AdmissionInv, TypeOK
  <2>. QED BY <1>1, <2>1, <2>2, <2>3, Kinds DEF AllocationInv
<1>. QED BY <1>4, <1>5, <1>6, <1>7, <1>8 DEF HandlerStep

LEMMA ClosedHandler ==
    ASSUME AdmissionInv, Apart, Closed, ~isDraining, NEW t \in Thread, HandlerStep(t)
    PROVE  Closed'
<1>1. /\ connection' = connection /\ (Crowded' <=> Crowded)
      /\ \A u \in Thread \ {t} : at'[u] = at[u]
      /\ at[t] # "idle"
  BY HandlerFacts, CrowdedSame
<1>2. /\ t \in Login => \A u \in Logout : at[u] = "idle"
      /\ t \in Logout => \A u \in Login : at[u] = "idle"
      /\ t \in Drain => at[t] \notin Setting
  <2>1. t \in Login => \E q \in Player : Coming(q)
    BY <1>1, LoginOf DEF Coming
  <2>2. t \in Logout => \A u \in Login : at[u] = "idle"
    BY <1>1, LoginOf DEF Apart, Coming
  <2>3. t \in Drain => at[t] \notin Setting
    BY DEF AdmissionInv, FutureSet, Shut
  <2>. QED BY <2>1, <2>2, <2>3 DEF Apart
<1>3. CASE Allocate(t) \/ Release(t) \/ Clear(t) \/ CallAgones(t)
  <2>1. /\ UNCHANGED <<accepting, listed, readinessLock>>
        /\ at[t] \in {"allocate", "release", "clear", "call"}
        /\ at'[t] \in {"clear", "call", "judge"}
    BY <1>3 DEF Allocate, Release, Clear, CallAgones, Goto, Is, flags, AdmissionInv, TypeOK
  <2>2. \A u \in Thread : at'[u] \in Setting <=> at[u] \in Setting
    BY <1>1, <2>1 DEF Setting
  <2>3. (\A u \in Login \cup Logout : at'[u] \notin Setting) =>
           listed' = accepting' /\ readinessLock' = ~accepting'
    BY <2>1, <2>2, Kinds, Zenon DEF Closed
  <2>. QED BY <1>1, <2>1, <2>3, Kinds DEF Closed, Setting
<1>4. CASE Judge(t)
  <2>1. /\ UNCHANGED <<accepting, listed, readinessLock>> /\ at[t] = "judge"
        /\ at'[t] = IF Closes(t) \/ Reopens(t) THEN "flag" ELSE "idle"
    BY <1>4 DEF Judge, Goto, Is, flags, AdmissionInv, TypeOK
  <2>2. \A u \in Thread : at[u] \in Setting => at'[u] \in Setting
    BY <1>1, <2>1 DEF Setting
  <2>3. (\A u \in Login \cup Logout : at'[u] \notin Setting) =>
           listed' = accepting' /\ readinessLock' = ~accepting'
    BY <2>1, <2>2, Kinds, Zenon DEF Closed
  <2>4. /\ t \in Login /\ at'[t] = "flag" => Crowded
        /\ t \in Logout /\ at'[t] = "idle" => accepting \/ Crowded
    BY <2>1, Counted, Kinds DEF Closes, Reopens, AdmissionInv
  <2>. QED BY <1>1, <2>1, <2>3, <2>4, Kinds DEF Closed, Setting
<1>5. CASE SetFlag(t)
  <2>1. /\ accepting' = (t \in Logout) /\ UNCHANGED <<listed, readinessLock>>
        /\ at[t] = "flag" /\ at'[t] = "publish"
    BY <1>5 DEF SetFlag, Goto, Is, AdmissionInv, TypeOK
  <2>2. t \in Login \cup Logout
    BY <1>2, <2>1 DEF Setting, Thread
  <2>3. CASE t \in Login
    <3>1. ~accepting' /\ Crowded
      BY <2>1, <2>3, Kinds DEF Closed, Setting
    <3>. QED BY <1>1, <1>2, <2>1, <2>3, <3>1, Kinds DEF Closed, Setting
  <2>4. CASE t \in Logout
    <3>1. accepting'
      BY <2>1, <2>4
    <3>. QED BY <1>1, <1>2, <2>1, <2>4, <3>1, Kinds DEF Closed, Setting
  <2>. QED BY <2>2, <2>3, <2>4
<1>6. CASE Open(t)
  <2>1. /\ accepting' = accepting /\ listed' = TRUE /\ readinessLock' = readinessLock
        /\ t \in Logout /\ at[t] = "publish" /\ at'[t] = "delete"
    BY <1>6, Kinds DEF Open, Goto, Return, Is, AdmissionInv, TypeOK
  <2>2. accepting = TRUE
    BY <2>1 DEF Closed, AdmissionInv, TypeOK
  <2>. QED BY <1>1, <1>2, <2>1, <2>2, Kinds DEF Closed, Setting
<1>8. CASE DeleteReadinessLock(t)
  <2>1. /\ accepting' = accepting /\ listed' = listed /\ readinessLock' = FALSE
        /\ t \in Logout /\ at[t] = "delete" /\ at'[t] = "idle"
    BY <1>8, Kinds DEF DeleteReadinessLock, Goto, Return, Is, AdmissionInv, TypeOK
  <2>2. accepting = TRUE /\ listed = TRUE
    BY <2>1 DEF Closed, AdmissionInv, TypeOK
  <2>. QED BY <1>1, <1>2, <2>1, <2>2, Kinds DEF Closed, Setting
<1>7. CASE Close(t) \/ CreateReadinessLock(t)
  <2>1. /\ accepting' = accepting /\ at[t] \in {"publish", "create"}
        /\ t \notin Logout
    BY <1>7 DEF Close, CreateReadinessLock, Is, Closed
  <2>2. t \in Login
    BY <1>2, <2>1 DEF Setting, Thread
  <2>3. /\ accepting = FALSE /\ Crowded
        /\ at[t] = "create" => listed = FALSE
    BY <2>1, <2>2 DEF Closed, Setting, AdmissionInv, TypeOK
  <2>4. /\ listed' = FALSE
        /\ \/ at'[t] = "idle" /\ readinessLock' = TRUE
           \/ at'[t] = "create"
    BY <1>7, <2>2, <2>3, Kinds DEF Close, CreateReadinessLock, Goto, Return, Is, AdmissionInv, TypeOK
  <2>. QED BY <1>1, <1>2, <2>1, <2>2, <2>3, <2>4, Kinds DEF Closed, Setting
<1>. QED BY <1>3, <1>4, <1>5, <1>6, <1>7, <1>8 DEF HandlerStep

LEMMA AgreeHandler ==
    ASSUME AdmissionInv, AgreeInv, NEW t \in Thread, HandlerStep(t)
    PROVE  AgreeInv'
<1>1. /\ UNCHANGED <<life, crossed>> /\ (isDraining' <=> isDraining)
  BY HandlerFacts DEF isDraining
<1>. QED BY <1>1, ApartHandler, AllocationHandler, ClosedHandler DEF AgreeInv

\* A drain touches neither the players' threads nor the flags before it has a future.
LEMMA AgreeDrain ==
    ASSUME AdmissionInv, AgreeInv, NEW d \in Drainer,
           StartDrain(d) \/ DrainStep(d) \/ CompleteFuture(d)
    PROVE  AgreeInv'
<1>1. /\ UNCHANGED <<platform, life, crossed, connection, accepting, listed, readinessLock, allocated, agones>>
      /\ isDraining => isDraining'
  <2>1. CASE AssignFuture(d)
    BY <2>1, DrainerAssumption DEF AssignFuture, flags, allocation, isDraining
  <2>2. CASE ~AssignFuture(d)
    BY <2>2
    DEF StartDrain, DrainStep, FindDrainLock, CreateDrainLock, ScheduleExclusion,
        OnExcludedFromKubernetes, CompleteFuture, flags, allocation, draining, isDraining
  <2>. QED BY <2>1, <2>2
<1>2. /\ \A t \in Login \cup Logout : at'[t] = at[t]
      /\ \A t \in Drain : at'[t] = at[t] \/ at'[t] # "call"
  BY Kinds DEF AdmissionInv, TypeOK, StartDrain, DrainStep, AssignFuture, FindDrainLock,
               CreateDrainLock, ScheduleExclusion, OnExcludedFromKubernetes, CompleteFuture,
               Goto, draining
<1>3. Online' = Online /\ (Crowded' <=> Crowded)
  BY <1>1, CrowdedSame
<1>4. Apart => Apart'
  BY <1>1, <1>2, Kinds DEF Apart, Coming
<1>5. AllocationInv => AllocationInv'
  BY <1>1, <1>2, <1>3, Kinds DEF AllocationInv
<1>6. Closed => Closed'
  BY <1>1, <1>2, <1>3, Kinds DEF Closed
<1>. QED BY <1>1, <1>4, <1>5, <1>6 DEF AgreeInv

LEMMA AgreeNext == AdmissionInv /\ AgreeInv /\ [Next]_vars => AgreeInv'
<1> SUFFICES ASSUME AdmissionInv, AgreeInv, [Next]_vars PROVE AgreeInv'
  OBVIOUS
<1>1. CASE UNCHANGED vars
  <2>1. Online' = Online /\ (Crowded' <=> Crowded)
    BY <1>1, CrowdedSame DEF vars
  <2>. QED BY <1>1, <2>1
       DEF AgreeInv, Apart, Coming, AllocationInv, Closed, isDraining, vars
<1>2. CASE Shutdown
  BY <1>2 DEF Shutdown, AgreeInv
<1>3. CASE Next /\ ~Shutdown
  BY <1>3, AgreePlayer, AgreeHandler, AgreeDrain DEF Next, CheckEmpty, ForcedStop
<1>. QED BY <1>1, <1>2, <1>3

\* The inductive invariant of AdmissionAgrees: while no login overlaps a disconnect,
\* what each thread has yet to do is all that keeps the flag, the cache, the file and
\* Agones from agreeing with the players that are there.
THEOREM AgreeAlways == Spec => []AgreeInv
BY InitInv, NextInv, AgreeInit, AgreeNext, PTL DEF Spec

\* When no handler runs, a proxy with players is allocated and a closed one that does
\* not drain is full, for any number of players and any capacity, as long as no
\* disconnect has overlapped a login, nor another disconnect on BungeeCord, where the
\* count includes the one who leaves (onPlayerLogin, onPlayerDisconnect).
THEOREM AdmissionIsRight == Spec => []AdmissionAgrees
<1>1. AdmissionInv /\ AgreeInv => AdmissionAgrees
  <2> SUFFICES ASSUME AdmissionInv, AgreeInv, life = "up", ~crossed, ~Runs(Login \cup Logout),
                      \A p \in Player : connection[p] # "logging"
               PROVE  /\ Online # {} => allocated
                      /\ platform = "velocity" /\ allocated => Online # {}
                      /\ allocated <=> agones = "Allocated"
                      /\ ~isDraining => /\ listed = accepting /\ readinessLock = ~accepting
                                        /\ ~accepting => Cardinality(Online) + Leaver >= Limit
    BY DEF AdmissionAgrees
  <2>1. /\ Apart /\ AllocationInv /\ (~isDraining => Closed)
        /\ \A t \in Login \cup Logout : at[t] = "idle"
    BY DEF AgreeInv, Runs
  <2>2. /\ Online # {} => allocated
        /\ platform = "velocity" /\ allocated => Online # {}
    BY <2>1, Kinds DEF AllocationInv, Online
  <2>3. allocated <=> agones = "Allocated"
    BY <2>1 DEF AllocationInv
  <2>4. ASSUME ~isDraining
        PROVE  listed = accepting /\ readinessLock = ~accepting
    <3>1. \A t \in Login \cup Logout : at[t] \notin Setting
      BY <2>1 DEF Setting
    <3>. QED BY <2>1, <2>4, <3>1, Zenon DEF Closed
  <2>5. ~isDraining /\ ~accepting => Cardinality(Online) + Leaver >= Limit
    <3>1. ~isDraining /\ ~accepting => Crowded
      BY <2>1 DEF Closed
    <3>. QED BY <2>1, <3>1, Counted DEF AdmissionInv
  <2>. QED BY <2>2, <2>3, <2>4, <2>5
<1>. QED BY AdmissionAlways, AgreeAlways, <1>1, PTL
=============================================================================
