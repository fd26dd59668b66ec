-------------------------- MODULE ServerDirectory --------------------------
(***************************************************************************)
(* Which servers a proxy can send players to, and what the cache says of   *)
(* them.                                                                   *)
(*                                                                         *)
(* A server name may come from a GameServer of the cluster (managed), from *)
(* the file of external servers of the MinecraftCluster (config), or from  *)
(* a call of the cluster API (dynamic).  Every proxy learns of the three   *)
(* on threads of its own: an informer, a file monitor and one subscriber   *)
(* per channel, next to the main thread that starts the directory.  Each   *)
(* updates the proxy and then writes the cache, which all proxies share.   *)
(*                                                                         *)
(* A thread is the queue of the calls it still has to make; the first one  *)
(* is in progress, at `stage`.  Steps are separated where other threads or *)
(* processes may see the difference: at every access to the cache, between *)
(* the test of authoritativeServers and what it guards, and between the    *)
(* test whether the proxy has a server and its registration there.  A      *)
(* pipeline that writes the cache is one step, and so are Velocity's       *)
(* look-up of a server that is unregistered and the server agent's own     *)
(* read and write.  Tags, capacities and acceptingPlayers are left out;    *)
(* names of GameServers are not reused.                                    *)
(***************************************************************************)
EXTENDS Naturals, SequencesExt

CONSTANTS
    Proxy, Server,
    BungeeCord,  \* the proxies that run BungeeCord; the others run Velocity
    Client,      \* callers of the cluster API
    MaxCalls,    \* calls of the cluster API in a behaviour
    MaxEdits,    \* changes of the file of external servers
    None

ASSUME PlatformAssumption == BungeeCord \subseteq Proxy
ASSUME ServerAssumption == IsFiniteSet(Server)
ASSUME BoundAssumption == MaxCalls \in Nat /\ MaxEdits \in Nat

Thread == {"main", "informer", "file", "register", "unregister"}
Source == {"managed", "config", "dynamic"}

\* An address is named after the source it comes from.
Address == Source \cup {None}
Info == [source: Source, address: Address]

\* A thread whose first call has failed makes no other one.
Stage == {"start", "lookup", "link", "add", "read", "write", "disclaim", "unlink", "erase",
          "failed"}
Call == [op: {"managed", "config", "dynamic", "remove", "forget"}, server: Server,
         stage: Stage, address: Address]

\* A call of registerExternalServer or unregisterExternalServer.
Request == [op: {"register", "unregister"}, server: Server,
            stage: {"read", "write", "erase", "publish"}]

ASSUME NoneAssumption == None \notin Source /\ None \notin Info /\ None \notin Request

VARIABLES
    gameServer,     \* the GameServer of each name
    file,           \* names in the file of external servers
    info,           \* shulker:servers:info:{name}, and the SETs it is listed in
    backend,        \* per proxy: the address each name is registered with
    authoritative,  \* per proxy: authoritativeServers
    external,       \* per proxy: the names of externalServers
    seen,           \* per proxy: the informer's copy of each GameServer
    calls,          \* per proxy and thread: the calls to make, the first in progress
    boot,           \* per proxy: how far its directory has started
    client,         \* the API call that each caller is in
    used,           \* history: names that the file or a call of the API has had
    ghosts,         \* history: names whose end some proxy may not learn of
    watched,        \* per proxy: the file change its monitor has seen last
    made, edits     \* API calls and file changes so far

world == <<gameServer, file, edits>>
cluster == <<gameServer, file, edits, info>>
directory == <<backend, authoritative, external, watched>>
kube == <<seen, boot>>
api == <<client, used, made>>
vars == <<gameServer, file, edits, info, backend, authoritative, external, watched,
          seen, boot, calls, client, used, made, ghosts>>

Phase == {"none", "starting", "registered", "ready", "stopping", "gone"}

TypeOK ==
    /\ gameServer \in [Server -> Phase]
    /\ file \subseteq Server
    /\ info \in [Server -> Info \cup {None}]
    /\ backend \in [Proxy -> [Server -> Address]]
    /\ authoritative \in [Proxy -> SUBSET Server]
    /\ external \in [Proxy -> SUBSET Server]
    /\ seen \in [Proxy -> [Server -> Phase]]
    /\ calls \in [Proxy -> [Thread -> Seq(Call)]]
    /\ boot \in [Proxy -> {"off", "listing", "monitoring", "reading", "subscribing", "up"}]
    /\ client \in [Client -> Request \cup {None}]
    /\ used \subseteq Server
    /\ ghosts \subseteq Server
    /\ watched \in [Proxy -> 0 .. MaxEdits]
    /\ made \in 0 .. MaxCalls
    /\ edits \in 0 .. MaxEdits

Init ==
    /\ gameServer = [s \in Server |-> "none"]
    /\ file \in SUBSET Server
    /\ info = [s \in Server |-> None]
    /\ backend = [x \in Proxy |-> [s \in Server |-> None]]
    /\ authoritative = [x \in Proxy |-> {}]
    /\ external = [x \in Proxy |-> {}]
    /\ seen = [x \in Proxy |-> [s \in Server |-> "none"]]
    /\ calls = [x \in Proxy |-> [t \in Thread |-> <<>>]]
    /\ boot = [x \in Proxy |-> "off"]
    /\ client = [k \in Client |-> None]
    /\ used = file
    /\ ghosts = {}
    /\ watched = [x \in Proxy |-> 0]
    /\ made = 0
    /\ edits = 0

(***************************************************************************)
(* The calls of a thread.                                                  *)
(***************************************************************************)
New(op, s) == [op |-> op, server |-> s, stage |-> "start", address |-> None]
NewAll(op, S) == LET names == SetToSeq(S) IN [i \in DOMAIN names |-> New(op, names[i])]

Idle(x, t) == calls[x][t] = <<>>
Add(x, t, new) == calls' = [calls EXCEPT ![x][t] = @ \o new]
Return(x, t) == calls' = [calls EXCEPT ![x][t] = Tail(@)]
Goto(x, t, stage) == calls' = [calls EXCEPT ![x][t][1].stage = stage]
GotoLink(x, t, address) ==
    calls' = [calls EXCEPT ![x][t][1] = [@ EXCEPT !.stage = "link", !.address = address]]

At(x, t, ops, stage) ==
    /\ ~Idle(x, t)
    /\ calls[x][t][1].op \in ops
    /\ calls[x][t][1].stage = stage

Registers == {"managed", "config", "dynamic"}
Removes == {"remove", "forget"}

\* registerManagedServer, and the registrations of onExternalServersUpdate.
Claim(x, t) ==
    LET c == calls[x][t][1]
    IN  /\ At(x, t, {"managed", "config"}, "start")
        /\ authoritative' = [authoritative EXCEPT ![x] = @ \cup {c.server}]
        /\ GotoLink(x, t, c.op)
        /\ UNCHANGED <<cluster, backend, external, watched, kube, api, ghosts>>

\* registerServer: a name that the proxy has is only written to the cache.
Link(x, t) ==
    /\ At(x, t, Registers, "link")
    /\ Goto(x, t, IF backend[x][calls[x][t][1].server] = None THEN "add" ELSE "read")
    /\ UNCHANGED <<cluster, directory, kube, api, ghosts>>

\* ... and another one is registered, which on BungeeCord replaces the address that
\* another thread may have registered since.
AddToProxy(x, t) ==
    LET c == calls[x][t][1]
    IN  /\ At(x, t, Registers, "add")
        /\ x \in BungeeCord \/ backend[x][c.server] \in {None, c.address}
        /\ backend' = [backend EXCEPT ![x][c.server] = c.address]
        /\ Goto(x, t, "read")
        /\ UNCHANGED <<cluster, authoritative, external, watched, kube, api, ghosts>>

\* Velocity throws when it has the name with another address.  The informer logs that
\* and goes on; it ends the start of the directory, the file monitor or the subscriber.
AddFails(x, t) ==
    LET c == calls[x][t][1]
    IN  /\ At(x, t, Registers, "add")
        /\ x \notin BungeeCord /\ backend[x][c.server] \notin {None, c.address}
        /\ IF t = "informer" THEN Return(x, t) ELSE Goto(x, t, "failed")
        /\ UNCHANGED <<cluster, directory, kube, api, ghosts>>

\* unregisterServer: of a deleted GameServer, of a name of the previous file, or
\* of a name that the API forgets.
Disclaim(x, t) ==
    /\ At(x, t, {"remove"}, "start") \/ At(x, t, {"forget"}, "disclaim")
    /\ authoritative' = [authoritative EXCEPT ![x] = @ \ {calls[x][t][1].server}]
    /\ Goto(x, t, "unlink")
    /\ UNCHANGED <<cluster, backend, external, watched, kube, api, ghosts>>

\* Mutant: what the proxy does not have is not looked for in the cache.
UnlinkKnown(x, t) ==
    LET s == calls[x][t][1].server
    IN  /\ At(x, t, Removes, "unlink")
        /\ backend' = [backend EXCEPT ![x][s] = None]
        /\ IF backend[x][s] = None THEN Return(x, t) ELSE Goto(x, t, "erase")
        /\ UNCHANGED <<cluster, authoritative, external, watched, kube, api, ghosts>>

Unlink(x, t) ==
    /\ At(x, t, Removes, "unlink")
    /\ backend' = [backend EXCEPT ![x][calls[x][t][1].server] = None]
    /\ Goto(x, t, "erase")
    /\ UNCHANGED <<cluster, authoritative, external, watched, kube, api, ghosts>>

\* Mutant: onDynamicExternalServerUnregister does not look at authoritativeServers.
IgnoresRegistrations(x, c) == c.op = "dynamic" /\ c.server \in authoritative[x]

\* onDynamicExternalServerRegister and onDynamicExternalServerUnregister leave
\* names alone that are authoritative.
Ignores(x, c) == c.server \in authoritative[x]

ReceiveDynamic(x, t) ==
    LET c == calls[x][t][1]
    IN  /\ At(x, t, {"dynamic", "forget"}, "start")
        /\ IF Ignores(x, c) THEN Return(x, t)
           ELSE Goto(x, t, IF c.op = "dynamic" THEN "lookup" ELSE "disclaim")
        /\ UNCHANGED <<cluster, directory, kube, api, ghosts>>

LookupDynamic(x, t) ==
    LET s == calls[x][t][1].server
    IN  /\ At(x, t, {"dynamic"}, "lookup")
        /\ IF info[s] = None \/ info[s].address = None THEN Return(x, t)
           ELSE GotoLink(x, t, info[s].address)
        /\ UNCHANGED <<cluster, directory, kube, api, ghosts>>

(***************************************************************************)
(* The cache: registerServer returns early when a dynamic server would     *)
(* replace another one; unregisterServer deletes whatever is there.        *)
(***************************************************************************)
Owned(s) == info[s] # None /\ info[s].source # "dynamic"
Refuses(s, source) == source = "dynamic" /\ Owned(s)

CacheRead(x, t) ==
    LET c == calls[x][t][1]
    IN  /\ At(x, t, Registers, "read")
        /\ IF Refuses(c.server, c.op) THEN Return(x, t) ELSE Goto(x, t, "write")
        /\ UNCHANGED <<cluster, directory, kube, api, ghosts>>

CacheWrite(x, t) ==
    LET c == calls[x][t][1]
    IN  /\ At(x, t, Registers, "write")
        /\ info' = [info EXCEPT ![c.server] = [source |-> c.op, address |-> c.address]]
        /\ Return(x, t)
        /\ UNCHANGED <<world, directory, kube, api, ghosts>>

CacheErase(x, t) ==
    /\ At(x, t, Removes, "erase")
    /\ info' = [info EXCEPT ![calls[x][t][1].server] = None]
    /\ Return(x, t)
    /\ UNCHANGED <<world, directory, kube, api, ghosts>>

(***************************************************************************)
(* The start of the directory: the informer runs from the first step on,   *)
(* the file monitor from the second, the subscribers from the fourth.      *)
(* Starting the informer and listing the GameServers is one step.          *)
(***************************************************************************)
ListServers(x) ==
    /\ boot[x] = "off"
    /\ boot' = [boot EXCEPT ![x] = "listing"]
    /\ Add(x, "main", NewAll("managed", {s \in Server : gameServer[s] = "ready"}))
    /\ UNCHANGED <<cluster, directory, seen, api, ghosts>>

StartMonitor(x) ==
    /\ boot[x] = "listing" /\ Idle(x, "main")
    /\ boot' = [boot EXCEPT ![x] = "monitoring"]
    /\ watched' = [watched EXCEPT ![x] = edits]
    /\ UNCHANGED <<cluster, backend, authoritative, external, seen, calls, api, ghosts>>

\* onExternalServersUpdate: the names of the previous file go, those of this come.
OnExternalServersUpdate(x, t) ==
    /\ external' = [external EXCEPT ![x] = file]
    /\ Add(x, t, NewAll("remove", external[x]) \o NewAll("config", file))

ReadFile(x) ==
    /\ boot[x] = "monitoring"
    /\ boot' = [boot EXCEPT ![x] = "reading"]
    /\ OnExternalServersUpdate(x, "main")
    /\ UNCHANGED <<cluster, backend, authoritative, watched, seen, api, ghosts>>

Subscribe(x) ==
    /\ boot[x] = "reading" /\ Idle(x, "main")
    /\ boot' = [boot EXCEPT ![x] = "subscribing"]
    /\ UNCHANGED <<cluster, directory, seen, calls, api, ghosts>>

ListDynamic(x) ==
    /\ boot[x] = "subscribing"
    /\ boot' = [boot EXCEPT ![x] = "up"]
    /\ Add(x, "main",
           NewAll("dynamic", {s \in Server : info[s] # None /\ info[s].source = "dynamic"}))
    /\ UNCHANGED <<cluster, directory, seen, api, ghosts>>

(***************************************************************************)
(* Events.  A GameServer that comes and goes before the informer looks is  *)
(* never reported; one that is reported again is registered again.         *)
(***************************************************************************)
\* Mutant: what the proxy has is not registered again.
ResyncsUnknown(x, s) == seen[x][s] = "ready" /\ backend[x][s] = None

Resyncs(x, s) == seen[x][s] = "ready"
Reaction(s, phase) ==
    IF phase = "ready" THEN <<New("managed", s)>>
    ELSE IF phase = "gone" THEN <<New("remove", s)>>
    ELSE <<>>

InformerEvent(x, s) ==
    /\ boot[x] # "off" /\ Idle(x, "informer")
    /\ seen[x][s] # gameServer[s]
    /\ ~(seen[x][s] = "none" /\ gameServer[s] = "gone")
    /\ seen' = [seen EXCEPT ![x][s] = gameServer[s]]
    /\ Add(x, "informer", Reaction(s, gameServer[s]))
    /\ UNCHANGED <<cluster, directory, boot, api, ghosts>>

Resync(x, s) ==
    /\ Idle(x, "informer")
    /\ Resyncs(x, s)
    /\ Add(x, "informer", Reaction(s, "ready"))
    /\ UNCHANGED <<cluster, directory, kube, api, ghosts>>

FileEvent(x) ==
    /\ boot[x] \notin {"off", "listing"} /\ Idle(x, "file")
    /\ watched[x] # edits
    /\ watched' = [watched EXCEPT ![x] = edits]
    /\ OnExternalServersUpdate(x, "file")
    /\ UNCHANGED <<cluster, backend, authoritative, kube, api, ghosts>>

(***************************************************************************)
(* GameServers and their agents, and the file.                             *)
(***************************************************************************)
Advance(s, phase) == gameServer' = [gameServer EXCEPT ![s] = phase]

Starts(s) ==
    /\ gameServer[s] = "none"
    /\ Advance(s, "starting")
    /\ UNCHANGED <<file, edits, info, directory, kube, calls, api, ghosts>>

\* Mutant: the missing address is written as an empty string.
RegisterSelfUnreachable(s) ==
    /\ gameServer[s] = "starting"
    /\ Advance(s, "registered")
    /\ info' = [info EXCEPT ![s] = [source |-> "managed", address |-> ""]]
    /\ UNCHANGED <<file, edits, directory, kube, calls, api, ghosts>>

\* registerSelfInCache, without an address: an address that is there stays.
RegisterSelfInCache(s) ==
    /\ gameServer[s] = "starting"
    /\ Advance(s, "registered")
    /\ info' = [info EXCEPT ![s] = [source |-> "managed",
                                    address |-> IF @ = None THEN None ELSE @.address]]
    /\ UNCHANGED <<file, edits, directory, kube, calls, api, ghosts>>

SetReady(s) ==
    /\ gameServer[s] = "registered"
    /\ Advance(s, "ready")
    /\ UNCHANGED <<file, edits, info, directory, kube, calls, api, ghosts>>

\* shutdown: at the end of the process, or because its start failed.
AgentShutdown(s) ==
    /\ gameServer[s] \in {"starting", "registered", "ready", "stopping"}
    /\ Advance(s, "stopping")
    /\ info' = [info EXCEPT ![s] = None]
    /\ UNCHANGED <<file, edits, directory, kube, calls, api, ghosts>>

\* Nobody will tell x that the name ended, though it has the name from its list.
OnlyListed(x, s) ==
    \/ \E i \in DOMAIN calls[x]["main"] :
          calls[x]["main"][i].op = "managed" /\ calls[x]["main"][i].server = s
    \/ boot[x] # "off" /\ seen[x][s] = "none"
Unnoticed(s) ==
    (\E x \in Proxy : OnlyListed(x, s)) \/ (\A x \in Proxy : seen[x][s] = "none")

Deleted(s) ==
    /\ gameServer[s] \notin {"none", "gone"}
    /\ Advance(s, "gone")
    /\ ghosts' = IF Unnoticed(s) THEN ghosts \cup {s} ELSE ghosts
    /\ UNCHANGED <<file, edits, info, directory, kube, calls, api>>

EditFile(s) ==
    /\ edits < MaxEdits
    /\ edits' = edits + 1
    /\ file' = IF s \in file THEN file \ {s} ELSE file \cup {s}
    /\ used' = used \cup {s}
    /\ UNCHANGED <<gameServer, info, directory, kube, calls, client, made, ghosts>>

(***************************************************************************)
(* The cluster API.  registerExternalServer and unregisterExternalServer   *)
(* look at the source first, and publish whatever came of the call to the  *)
(* cache that follows.  A message reaches only the proxies that have       *)
(* subscribed and are connected.                                           *)
(***************************************************************************)
ClientGoes(k, stage) == client' = [client EXCEPT ![k].stage = stage]

RegisterExternalServer(k, s) ==
    /\ client[k] = None
    /\ made < MaxCalls
    /\ made' = made + 1
    /\ used' = used \cup {s}
    /\ client' = IF Owned(s) THEN client
                 ELSE [client EXCEPT ![k] = [op |-> "register", server |-> s,
                                             stage |-> "read"]]
    /\ UNCHANGED <<cluster, directory, kube, calls, ghosts>>

UnregisterExternalServer(k, s) ==
    /\ client[k] = None
    /\ made < MaxCalls
    /\ info[s] # None /\ info[s].source = "dynamic"
    /\ made' = made + 1
    /\ client' = [client EXCEPT ![k] = [op |-> "unregister", server |-> s,
                                        stage |-> "erase"]]
    /\ UNCHANGED <<cluster, directory, kube, calls, used, ghosts>>

ClientAt(k, stage) == client[k] # None /\ client[k].stage = stage

ClientRead(k) ==
    /\ ClientAt(k, "read")
    /\ ClientGoes(k, IF Refuses(client[k].server, "dynamic") THEN "publish" ELSE "write")
    /\ UNCHANGED <<cluster, directory, kube, calls, used, made, ghosts>>

ClientWrite(k) ==
    /\ ClientAt(k, "write")
    /\ info' = [info EXCEPT ![client[k].server] =
                    [source |-> "dynamic", address |-> "dynamic"]]
    /\ ClientGoes(k, "publish")
    /\ UNCHANGED <<world, directory, kube, calls, used, made, ghosts>>

ClientErase(k) ==
    /\ ClientAt(k, "erase")
    /\ info' = [info EXCEPT ![client[k].server] = None]
    /\ ClientGoes(k, "publish")
    /\ UNCHANGED <<world, directory, kube, calls, used, made, ghosts>>

Publish(k, D) ==
    LET t == client[k].op
        message == New(IF t = "register" THEN "dynamic" ELSE "forget", client[k].server)
    IN  /\ ClientAt(k, "publish")
        /\ \A x \in D : boot[x] \in {"subscribing", "up"}
        /\ calls' = [x \in Proxy |-> IF x \in D
                                     THEN [calls[x] EXCEPT ![t] = Append(@, message)]
                                     ELSE calls[x]]
        /\ client' = [client EXCEPT ![k] = None]
        /\ UNCHANGED <<cluster, directory, kube, used, made, ghosts>>

ThreadStep(x, t) ==
    \/ Claim(x, t) \/ ReceiveDynamic(x, t) \/ LookupDynamic(x, t)
    \/ Link(x, t) \/ AddToProxy(x, t) \/ AddFails(x, t)
    \/ Disclaim(x, t) \/ Unlink(x, t)
    \/ CacheRead(x, t) \/ CacheWrite(x, t) \/ CacheErase(x, t)

Boot(x) ==
    \/ ListServers(x) \/ StartMonitor(x) \/ ReadFile(x) \/ Subscribe(x) \/ ListDynamic(x)

ServerLife(s) ==
    \/ Starts(s) \/ RegisterSelfInCache(s) \/ SetReady(s)
    \/ AgentShutdown(s) \/ Deleted(s)

ClientStep(k) ==
    \/ ClientRead(k) \/ ClientWrite(k) \/ ClientErase(k)
    \/ \E D \in SUBSET Proxy : Publish(k, D)

Next ==
    \/ \E x \in Proxy, t \in Thread : ThreadStep(x, t)
    \/ \E x \in Proxy : Boot(x) \/ FileEvent(x)
    \/ \E x \in Proxy, s \in Server : InformerEvent(x, s) \/ Resync(x, s)
    \/ \E s \in Server : ServerLife(s) \/ EditFile(s)
    \/ \E k \in Client, s \in Server :
          RegisterExternalServer(k, s) \/ UnregisterExternalServer(k, s)
    \/ \E k \in Client : ClientStep(k)

Spec == Init /\ [][Next]_vars

\* Threads and callers go on with what they have begun; a directory that starts
\* gets up; events are delivered, and the informers resync.
Fairness ==
    /\ \A x \in Proxy, t \in Thread : WF_vars(ThreadStep(x, t))
    /\ \A x \in Proxy : /\ WF_vars(boot[x] # "off" /\ Boot(x))
                        /\ WF_vars(FileEvent(x))
    /\ \A x \in Proxy, s \in Server : /\ SF_vars(InformerEvent(x, s))
                                      /\ SF_vars(Resync(x, s))
    /\ \A k \in Client : WF_vars(ClientStep(k))

FairSpec == Spec /\ Fairness


(***************************************************************************)
(* Properties.                                                             *)
(***************************************************************************)
\* Calls of x that are under way: one of the API for s has the test of
\* authoritativeServers behind it; the end of s, as its owner sees it, takes s away.
Running(x, t, ops, s) ==
    ~Idle(x, t) /\ calls[x][t][1].op \in ops /\ calls[x][t][1].server = s
Challenged(x, s) ==
    \E t \in Thread : /\ Running(x, t, {"dynamic", "forget"}, s)
                      /\ calls[x][t][1].stage \notin {"start", "failed"}
Ending(x, s) == \E t \in Thread : Running(x, t, {"remove"}, s)

\* The proxy reaches s at the address of its owner, a GameServer or the file.
Secured(x, s) ==
    /\ s \in authoritative[x] /\ backend[x][s] \in {"managed", "config"}
    /\ ~Challenged(x, s)

\* Once a proxy has a name as authoritative and at an address of an owner, with no
\* call of the API under way that passed the test before, this stays so until an
\* owner takes the name away: neither the registrations nor the unregistrations of
\* the API, nor other owners, get in between (onDynamicExternalServerRegister,
\* onDynamicExternalServerUnregister, registerServer).  A call that did pass the test
\* before the name was claimed may still undo it, and on BungeeCord replace its address.
AuthoritativeKept ==
    [][\A x \in Proxy, s \in Server :
          Secured(x, s) /\ ~Ending(x, s) => Secured(x, s)']_vars

\* A GameServer that stays ready is, from some time on, known to every proxy that
\* has started and listed as managed in the cache, whatever calls of the API,
\* changes of the file and handlers of other proxies did to its name before
\* (registerManagedServer at every resync).
ReadyServed ==
    \A x \in Proxy, s \in Server :
        <>[](gameServer[s] = "ready" /\ boot[x] = "up") =>
            <>[](/\ backend[x][s] # None
                 /\ info[s] # None /\ info[s].source = "managed")

\* Nothing is left to do for x.
AtRest(x) ==
    /\ boot[x] = "up"
    /\ watched[x] = edits
    /\ \A t \in Thread : Idle(x, t)

\* When the proxies that run are at rest and their informers have seen the end of
\* a GameServer, neither they nor the cache know its name, although each of them
\* went on to register it until its own informer told it.  Not for names that the
\* API or the file has used, nor for one whose end a proxy may not learn of
\* (unregisterServer, the start of ServerDirectoryService).
DeletedForgotten ==
    \A s \in Server :
        (/\ gameServer[s] = "gone" /\ s \notin used \cup ghosts
         /\ \A x \in Proxy :
               boot[x] = "off" \/ (AtRest(x) /\ seen[x][s] \in {"none", "gone"}))
        => info[s] = None /\ \A x \in Proxy : backend[x][s] = None

\* ShulkerClusterAPI.registerExternalServer: GameServers and external servers of
\* the MinecraftCluster "always take precedence over dynamically registered ones
\* with the same name".  A proxy at rest does not reach an authoritative name at
\* an address of the API.
AuthoritativePrecedes ==
    \A x \in Proxy, s \in Server :
        AtRest(x) /\ s \in authoritative[x] => backend[x][s] # "dynamic"
=============================================================================
