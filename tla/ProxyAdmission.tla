--------------------------- MODULE ProxyAdmission ---------------------------
(***************************************************************************)
(* Whether a proxy lets players in, and how it drains.                     *)
(*                                                                         *)
(* The agent keeps three flags that its handlers write without a lock:     *)
(* acceptingPlayers, which setAcceptingPlayers copies to the cache and to  *)
(* a file that the readiness probe reads, isAllocatedByAgones, which       *)
(* follows the players, and drainingFuture, set by the first drain.        *)
(* Handlers of different players run at the same time, and so do the       *)
(* informer and the subscriber that may both ask for a drain.              *)
(*                                                                         *)
(* A thread stops at a stage wherever another one may see or change what   *)
(* it reads and writes: between a test and what it guards, and between the *)
(* flag, the cache and the file.  Reads of one condition are one step.     *)
(* The end of the process is one step, whoever asks for it; all that       *)
(* follows a call of shutdown is the subject of PlayerPresence, and so is  *)
(* a proxy that another one has purged: here the proxy stays registered.   *)
(***************************************************************************)
EXTENDS Integers, FiniteSets

CONSTANTS
    Player,
    Drainer,     \* threads that call drain: the informer, the subscriber
    Limit,       \* the capacity of the proxy minus the delta before exclusion
    None

ASSUME LimitAssumption == Limit \in Int
ASSUME PlayerAssumption == IsFiniteSet(Player)
ASSUME DrainerAssumption == None \notin Drainer

Login == {"login"} \X Player
Logout == {"logout"} \X Player
Drain == {"drain"} \X Drainer
Thread == Login \cup Logout \cup Drain

\* The stages of setAcceptingPlayers, and all stages.
Setting == {"flag", "publish", "create", "delete"}
Stage == Setting \cup
    {"idle", "allocate", "release", "clear", "call", "judge",
     "assign", "drain lock", "drain create", "schedule", "waiting",
     "checking", "failed"}

VARIABLES
    platform,        \* the proxy software
    life,            \* whether the process runs
    connection,      \* how far the connection of each player is
    at,              \* the stage of each thread
    accepting,       \* acceptingPlayers
    listed,          \* acceptingPlayers in shulker:proxies:info:{name}
    readinessLock,   \* the file /tmp/readiness-lock
    drainLock,       \* the file /tmp/drain-lock
    allocated,       \* isAllocatedByAgones
    agones,          \* the state of the GameServer
    drainingFuture,  \* the future, named after the thread that made it
    timers,          \* threads whose task of 30 s is scheduled
    attached,        \* per draining thread: the future it waits for
    completed,       \* futures that are completed
    crossed          \* history: a logout has overlapped a login, or another logout
                     \* on BungeeCord

flags == <<accepting, listed, readinessLock>>
allocation == <<allocated, agones>>
draining == <<drainLock, drainingFuture, timers, attached, completed>>
vars == <<platform, life, connection, at, accepting, listed, readinessLock, drainLock,
          allocated, agones, drainingFuture, timers, attached, completed, crossed>>

TypeOK ==
    /\ platform \in {"velocity", "bungeecord"}
    /\ life \in {"up", "down"}
    /\ connection \in [Player -> {"out", "admitted", "logging", "online", "leaving"}]
    /\ at \in [Thread -> Stage]
    /\ accepting \in BOOLEAN /\ listed \in BOOLEAN
    /\ readinessLock \in BOOLEAN /\ drainLock \in BOOLEAN
    /\ allocated \in BOOLEAN
    /\ agones \in {"Ready", "Allocated", "Shutdown"}
    /\ drainingFuture \in Drainer \cup {None}
    /\ timers \subseteq Drainer
    /\ attached \in [Drainer -> Drainer \cup {None}]
    /\ completed \subseteq Drainer
    /\ crossed \in BOOLEAN

\* onProxyInitialization has returned.
Init ==
    /\ platform \in {"velocity", "bungeecord"}
    /\ life = "up"
    /\ connection = [p \in Player |-> "out"]
    /\ at = [t \in Thread |-> "idle"]
    /\ accepting = TRUE /\ listed = TRUE
    /\ readinessLock = FALSE /\ drainLock = FALSE
    /\ allocated = FALSE
    /\ agones = "Ready"
    /\ drainingFuture = None
    /\ timers = {}
    /\ attached = [d \in Drainer |-> None]
    /\ completed = {}
    /\ crossed = FALSE

\* The players that getPlayerCount counts.
Online == {p \in Player : connection[p] \in {"online", "leaving"}}
isProxyConsideredFull == Cardinality(Online) >= Limit
isDraining == drainingFuture # None

Is(t, stage) == life = "up" /\ at[t] = stage
Goto(t, stage) == at' = [at EXCEPT ![t] = stage]
Return(t) == Goto(t, IF t \in Drain THEN "checking" ELSE "idle")

Runs(T) == \E t \in T : at[t] # "idle"
Connect(p, state) == connection' = [connection EXCEPT ![p] = state]

(***************************************************************************)
(* Players.  Velocity calls the login hook before it counts the player and *)
(* the disconnect hook when it counts the player no more.  BungeeCord      *)
(* calls the login hook after it has counted the player, and removes the   *)
(* player when the disconnect hook has returned.  A player who comes back  *)
(* is another player until the handlers of the old connection have         *)
(* returned.                                                               *)
(***************************************************************************)
\* onPlayerPreLogin.  On Velocity a refusal denies the login.  The listener for
\* BungeeCord sets the reason of the event and does not cancel it, so that the login
\* goes on; no player comes any more once the Service has excluded the proxy.
Refused == ~accepting /\ (platform = "velocity" \/ completed # {})

PreLogin(p) ==
    /\ life = "up" /\ connection[p] = "out"
    /\ at[<<"login", p>>] = "idle" /\ at[<<"logout", p>>] = "idle"
    /\ ~Refused
    /\ Connect(p, "admitted")
    /\ UNCHANGED <<platform, life, at, flags, allocation, draining, crossed>>

GivesUp(p) ==
    /\ life = "up" /\ connection[p] = "admitted"
    /\ Connect(p, "out")
    /\ UNCHANGED <<platform, life, at, flags, allocation, draining, crossed>>

LoginEvent(p) ==
    /\ life = "up" /\ connection[p] = "admitted"
    /\ Connect(p, IF platform = "velocity" THEN "logging" ELSE "online")
    /\ Goto(<<"login", p>>, "allocate")
    /\ crossed' = (crossed \/ Runs(Logout))
    /\ UNCHANGED <<platform, life, flags, allocation, draining>>

Registered(p) ==
    /\ life = "up" /\ connection[p] = "logging" /\ at[<<"login", p>>] = "idle"
    /\ Connect(p, "online")
    /\ UNCHANGED <<platform, life, at, flags, allocation, draining, crossed>>

Overlaps(p) ==
    \/ Runs(Login)
    \/ \E q \in Player \ {p} : connection[q] \in {"logging", "leaving"}

Disconnect(p) ==
    /\ life = "up" /\ connection[p] \in {"logging", "online"}
    /\ Connect(p, IF platform = "velocity" THEN "out" ELSE "leaving")
    /\ Goto(<<"logout", p>>, "release")
    /\ crossed' = (crossed \/ Overlaps(p))
    /\ UNCHANGED <<platform, life, flags, allocation, draining>>

Removed(p) ==
    /\ life = "up" /\ connection[p] = "leaving" /\ at[<<"logout", p>>] = "idle"
    /\ Connect(p, "out")
    /\ UNCHANGED <<platform, life, at, flags, allocation, draining, crossed>>

(***************************************************************************)
(* onPlayerLogin and onPlayerDisconnect.                                   *)
(***************************************************************************)
Allocate(t) ==
    /\ t \in Login /\ Is(t, "allocate")
    /\ allocated' = TRUE
    /\ Goto(t, IF allocated THEN "judge" ELSE "call")
    /\ UNCHANGED <<platform, life, connection, flags, agones, draining, crossed>>

Release(t) ==
    /\ t \in Logout /\ Is(t, "release")
    /\ Goto(t, IF allocated /\ Online = {} THEN "clear" ELSE "judge")
    /\ UNCHANGED <<platform, life, connection, flags, allocation, draining, crossed>>

\* Mutant: the last player to leave does not reset isAllocatedByAgones.
ClearKept(t) ==
    /\ t \in Logout /\ Is(t, "clear")
    /\ Goto(t, "call")
    /\ UNCHANGED <<platform, life, connection, flags, allocation, draining, crossed>>

Clear(t) ==
    /\ t \in Logout /\ Is(t, "clear")
    /\ allocated' = FALSE
    /\ Goto(t, "call")
    /\ UNCHANGED <<platform, life, connection, flags, agones, draining, crossed>>

\* setAllocated, setReady
CallAgones(t) ==
    /\ Is(t, "call")
    /\ agones' = IF t \in Login THEN "Allocated" ELSE "Ready"
    /\ Goto(t, "judge")
    /\ UNCHANGED <<platform, life, connection, flags, allocated, draining, crossed>>

\* Mutant: a disconnect opens a proxy that drains.
ReopensAnyway(t) == t \in Logout /\ ~accepting /\ ~isProxyConsideredFull

Closes(t) == t \in Login /\ accepting /\ isProxyConsideredFull
Reopens(t) == t \in Logout /\ ~accepting /\ ~isDraining /\ ~isProxyConsideredFull

Judge(t) ==
    /\ Is(t, "judge")
    /\ Goto(t, IF Closes(t) \/ Reopens(t) THEN "flag" ELSE "idle")
    /\ UNCHANGED <<platform, life, connection, flags, allocation, draining, crossed>>

(***************************************************************************)
(* setAcceptingPlayers: TRUE in a disconnect, FALSE in a login and at the  *)
(* end of a drain.  createReadinessLock looks for the file before it makes *)
(* it; when another thread was faster it throws, which ends a login        *)
(* handler and keeps onExcludedFromKubernetes from its periodic check.     *)
(***************************************************************************)
SetFlag(t) ==
    /\ Is(t, "flag")
    /\ accepting' = (t \in Logout)
    /\ Goto(t, "publish")
    /\ UNCHANGED <<platform, life, connection, listed, readinessLock, allocation, draining,
                   crossed>>

Open(t) ==
    /\ t \in Logout /\ Is(t, "publish")
    /\ listed' = TRUE
    /\ Goto(t, "delete")
    /\ UNCHANGED <<platform, life, connection, accepting, readinessLock, allocation, draining,
                   crossed>>

DeleteReadinessLock(t) ==
    /\ t \in Logout /\ Is(t, "delete")
    /\ readinessLock' = FALSE
    /\ Return(t)
    /\ UNCHANGED <<platform, life, connection, accepting, listed, allocation, draining, crossed>>

Close(t) ==
    /\ t \notin Logout /\ Is(t, "publish")
    /\ listed' = FALSE
    /\ IF readinessLock THEN Return(t) ELSE Goto(t, "create")
    /\ UNCHANGED <<platform, life, connection, accepting, readinessLock, allocation, draining,
                   crossed>>

CreateReadinessLock(t) ==
    /\ Is(t, "create")
    /\ readinessLock' = TRUE
    /\ IF readinessLock /\ t \in Drain THEN Goto(t, "failed") ELSE Return(t)
    /\ UNCHANGED <<platform, life, connection, accepting, listed, allocation, draining, crossed>>

(***************************************************************************)
(* drain.  Two threads may both find no drainingFuture; each of them then  *)
(* makes one, of which the second stays.                                   *)
(***************************************************************************)
DrainThread(d) == <<"drain", d>>

StartDrain(d) ==
    /\ Is(DrainThread(d), "idle")
    /\ ~isDraining
    /\ Goto(DrainThread(d), "assign")
    /\ UNCHANGED <<platform, life, connection, flags, allocation, draining, crossed>>

\* Mutant: the future is kept in a local variable.
AssignLocally(d) ==
    /\ Is(DrainThread(d), "assign")
    /\ Goto(DrainThread(d), "drain lock")
    /\ UNCHANGED <<platform, life, connection, flags, allocation, draining, crossed>>

AssignFuture(d) ==
    /\ Is(DrainThread(d), "assign")
    /\ drainingFuture' = d
    /\ Goto(DrainThread(d), "drain lock")
    /\ UNCHANGED <<platform, life, connection, flags, allocation, drainLock, timers, attached,
                   completed, crossed>>

FindDrainLock(d) ==
    /\ Is(DrainThread(d), "drain lock")
    /\ Goto(DrainThread(d), IF drainLock THEN "schedule" ELSE "drain create")
    /\ UNCHANGED <<platform, life, connection, flags, allocation, draining, crossed>>

\* Files.createFile throws when the other thread was faster, which ends this drain.
CreateDrainLock(d) ==
    /\ Is(DrainThread(d), "drain create")
    /\ drainLock' = TRUE
    /\ Goto(DrainThread(d), IF drainLock THEN "failed" ELSE "schedule")
    /\ UNCHANGED <<platform, life, connection, flags, allocation, drainingFuture, timers,
                   attached, completed, crossed>>

\* Mutant: drain attaches to the future it made, not to the one in the field.
AttachOwn(d) ==
    /\ Is(DrainThread(d), "schedule")
    /\ timers' = timers \cup {d}
    /\ attached' = [attached EXCEPT ![d] = d]
    /\ Goto(DrainThread(d), "waiting")
    /\ UNCHANGED <<platform, life, connection, flags, allocation, drainLock, drainingFuture,
                   completed, crossed>>

\* The task that completes the future runs 30 s later.
ScheduleExclusion(d) ==
    /\ Is(DrainThread(d), "schedule")
    /\ timers' = timers \cup {d}
    /\ attached' = [attached EXCEPT ![d] = drainingFuture]
    /\ Goto(DrainThread(d), "waiting")
    /\ UNCHANGED <<platform, life, connection, flags, allocation, drainLock, drainingFuture,
                   completed, crossed>>

\* A disconnect that found no drain in progress has returned by then.
CompleteFuture(d) ==
    /\ life = "up" /\ d \in timers
    /\ \A t \in Logout : at[t] \notin Setting
    /\ timers' = timers \ {d}
    /\ completed' = completed \cup {drainingFuture}
    /\ UNCHANGED <<platform, life, connection, at, flags, allocation, drainLock, drainingFuture,
                   attached, crossed>>

OnExcludedFromKubernetes(d) ==
    /\ Is(DrainThread(d), "waiting")
    /\ attached[d] \in completed
    /\ Goto(DrainThread(d), "flag")
    /\ UNCHANGED <<platform, life, connection, flags, allocation, draining, crossed>>

\* The proxy is unregistered, and with the process its threads and files are gone.
Shutdown ==
    /\ life' = "down"
    /\ connection' = [p \in Player |-> "out"]
    /\ at' = [t \in Thread |-> "idle"]
    /\ accepting' = FALSE /\ listed' = FALSE
    /\ readinessLock' = FALSE /\ drainLock' = FALSE
    /\ allocated' = FALSE
    /\ agones' = "Shutdown"
    /\ drainingFuture' = None
    /\ timers' = {}
    /\ attached' = [d \in Drainer |-> None]
    /\ completed' = {}
    /\ crossed' = FALSE
    /\ UNCHANGED platform

\* Every 30 s.  With players nothing happens.
CheckEmpty(d) ==
    /\ Is(DrainThread(d), "checking")
    /\ Online = {}
    /\ Shutdown

\* The time to live is over, or askShutdown, or the pod is deleted.
ForcedStop == life = "up" /\ Shutdown

PlayerStep(p) ==
    \/ PreLogin(p) \/ GivesUp(p) \/ LoginEvent(p) \/ Registered(p)
    \/ Disconnect(p) \/ Removed(p)

HandlerStep(t) ==
    \/ Allocate(t) \/ Release(t) \/ Clear(t) \/ CallAgones(t) \/ Judge(t)
    \/ SetFlag(t) \/ Open(t) \/ DeleteReadinessLock(t) \/ Close(t) \/ CreateReadinessLock(t)

DrainStep(d) ==
    \/ AssignFuture(d) \/ FindDrainLock(d) \/ CreateDrainLock(d) \/ ScheduleExclusion(d)
    \/ OnExcludedFromKubernetes(d)

Next ==
    \/ \E p \in Player : PlayerStep(p)
    \/ \E t \in Thread : HandlerStep(t)
    \/ \E d \in Drainer : StartDrain(d) \/ DrainStep(d) \/ CompleteFuture(d) \/ CheckEmpty(d)
    \/ ForcedStop

Spec == Init /\ [][Next]_vars

\* Handlers and drains go on, scheduled tasks run, and no player stays for ever.
FairSpec ==
    /\ Spec
    /\ \A t \in Thread : WF_vars(HandlerStep(t))
    /\ \A d \in Drainer : /\ WF_vars(DrainStep(d))
                          /\ WF_vars(CompleteFuture(d))
                          /\ WF_vars(CheckEmpty(d))
    /\ \A p \in Player : WF_vars(Disconnect(p)) /\ WF_vars(Removed(p))

(***************************************************************************)
(* Properties.                                                             *)
(***************************************************************************)
\* A proxy that was excluded from Kubernetes lets nobody in any more, says so in the
\* cache and fails its readiness probe, whatever logins and disconnects were handled
\* while it drained (isDraining in onPlayerDisconnect, onExcludedFromKubernetes).
ClosedForGood ==
    life = "up" /\ (\E t \in Drain : at[t] = "checking") =>
        ~accepting /\ ~listed /\ readinessLock

\* BungeeCord still counts who leaves while onPlayerDisconnect looks at the count.
Leaver == IF platform = "bungeecord" THEN 1 ELSE 0

\* When no handler runs, and as long as no disconnect has overlapped a login (nor, on
\* BungeeCord, another disconnect): a proxy with players is allocated, and Agones agrees
\* with the flag; a proxy that does not drain is closed only when it is full, counting
\* on BungeeCord the one who left last, for the cache and the probe alike; and on
\* Velocity a proxy is allocated only while it has players.  On BungeeCord it stays
\* allocated for ever, since the last one to leave is still counted.
AdmissionAgrees ==
    life = "up" /\ ~crossed /\ ~Runs(Login \cup Logout)
        /\ (\A p \in Player : connection[p] # "logging") =>
        /\ Online # {} => allocated
        /\ platform = "velocity" /\ allocated => Online # {}
        /\ allocated <=> agones = "Allocated"
        /\ ~isDraining => /\ listed = accepting /\ readinessLock = ~accepting
                          /\ ~accepting => Cardinality(Online) + Leaver >= Limit

\* "The proxy will check that it is empty every 30 seconds, if there is no player, it
\* will shutdown itself" (your-first-cluster.md): a drain ends with the end of the
\* process, whichever threads asked for it, unless createReadinessLock failed in it.
DrainCompletes ==
    isDraining ~> \/ life = "down"
                  \/ \E d \in Drainer : attached[d] # None /\ at[DrainThread(d)] = "failed"
=============================================================================
