# Shulker: specifications

TLA+ models of Shulker's coordination through Redis, its operator and its
matchmaking, their TLC configurations, and TLAPS proofs. Paths below are relative to `src/packages/`; "the cache" is
`RedisCacheAdapter.kt`.

## 1. The system

Shulker runs a Minecraft network on Kubernetes. Players connect to *proxies*
(Velocity or BungeeCord), which forward them to *servers* (Paper, Minestom);
both are Agones GameServers. An agent plugin in every proxy and server
coordinates through Redis. An *operator* turns custom resources into
Kubernetes objects, and a *matchmaking addon* turns Open Match tickets into
assignments of servers.

| Component | State it keeps | Operations | Talks to | What makes it hard | What makes it correct |
|---|---|---|---|---|---|
| Cache: players and proxies (`shulker-cluster-api-redis`, `RedisCacheAdapter.kt`) | position HASH of each player, SETs of players per proxy and per server, SET of all players, SET and info of proxies | set/unsetPlayerPosition, register/unregisterProxy, updateProxyLastSeen, listRegisteredProxies, tryLock | called by proxy agents and the API; Redis | read, then a pipeline that is not a transaction; several processes; torn pipelines; handlers of one player on two proxies | SETs and HASH agree; positions tell where the player is; dead proxies go, live ones stay |
| Cache: servers (same file) | SET, info and tags of servers, SET of dynamic servers | registerServer, registerExternalServer, unregisterServer, updates | proxy and server agents, API, pub/sub | every proxy writes every server; check-then-act; a name may have three owners | managed and configured servers win over dynamic ones; what is unregistered is gone |
| Pub/sub (`RedisPubSubAdapter.kt`) | one subscriber thread per channel | subscribe, send, broadcast | Redis | at-most-once, order kept only per channel, silent end of a subscription | commands reach the proxy that hosts the player |
| Proxy agent: presence (`PlayerMovementService.kt`, `HealthcheckTask.kt`, `LostProxyPurgeTask.kt`, `ShulkerProxyAgentCommon.kt`) | connections, scheduled tasks | player hooks, heartbeat, purge, shutdown | cache, Agones | handlers on many threads, shutdown while handlers run | see the cache |
| Proxy agent: admission and lifecycle (`PlayerMovementService.kt`, `ProxyLifecycleService.kt`) | acceptingPlayers, isAllocatedByAgones, drainingFuture, lock files | login, disconnect, drain, TTL | Agones, file system, cache | unlocked flags written by handlers, informer, subscriber and tasks | a drain is final and ends; flags, cache, probe and Agones agree |
| Proxy agent: directory (`ServerDirectoryService.kt`) | servers known to the proxy, tags, authoritative names | register/unregister from informer, file, pub/sub | Kubernetes, cache, pub/sub | four threads over unlocked maps and the cache | precedence of sources; convergence to what exists |
| Server agent (`ShulkerServerAgentCommon.kt`) | summon timeout | register, shutdown, allocation by players, timeout | cache, Agones | state read, then acted upon | an unused summoned server stops, a used one does not |
| Leader lease (`shulker-kube-utils/src/lease.rs`, `shulker-operator/src/main.rs`) | the Lease object, a resourceVersion per replica | acquire, renew, release | API server | time, late replicas, crashes, server-side apply | one leader; a lease is never stuck |
| Builders (`shulker-kube-utils/src/reconcilers/builder.rs`) | owned objects in the API server | get, delete, create, apply | API server | crash or failure between two calls, late calls, concurrent edits | converges; nothing that is needed is lost |
| Reconcilers (`shulker-operator/src/reconcilers/*/mod.rs`) | resources, conditions, Fleets and GameServers | reconcile of a cluster, a proxy fleet, a server fleet, a server | builders, Agones | four controllers over one cluster, each with a snapshot of it; errors in a sequence of builders | settles; the status follows; no server is deleted that runs |
| Manifests (`shulker-operator/src/reconcilers/*/*.rs`) | Secrets, ConfigMaps, Services, Roles, Fleets | build, is_needed, validate_spec | reconcilers | one manifest names what another controller builds from another resource | pods can start, are authorised, share one backend and one key |
| Resources (`shulker-operator/src/resources`, `shulker-crds/src/resourceref`) | none | resolve a URL, a Maven artifact, credentials | Secrets, repositories | errors, snapshots, users who may not see an artifact | see the manifests |
| Operator API and summon (`sdk_grpc.rs`, `summon.rs`) | GameServers | allocate, summon | Agones allocator, API server | fallback after partial success | no server is wasted but by a failure |
| Matchmaking (`shulker-addon-matchmaking`) | queues, backfills, matches | match function, director tick, queue controller | Open Match, operator API | snapshots, partial failure, restarts, sizes at their limits | a ticket is in one match, no server is overfilled, players are served |
| Cluster API (`shulker-cluster-api-impl`) | SDK handles, informers | delegates | all of the above | - | - |
| CLI, metrics, CRD generation, SDK bindings, demo | none | I/O, generated code | - | - | - |

`PROJECT.json` lists these as `components`, and under `hazards` the places in
the code where something hard to test can go wrong, with the property that
covers each, or why none does yet.

## 2. Modules

| Module | Content |
|---|---|
| `PlayerPresence` | players, proxies and servers in the cache, the agents that write them, properties |
| `PlayerPresenceInv` | inductive invariants `IndexInv`, `TruthInv` and `RegistryInv` |
| `MCPlayerPresence` | symmetry and constraints of the TLC instances |
| `PlayerPresence_proof` | type correctness, `HealthyProxyStaysListed`, `IndexExact` |
| `PlayerTruth_proof` | `PresenceTruthful` |
| `LeaseLock`, `LeaseLockInv` | the leader lease, its inductive invariant |
| `LeaseLock_proof` | type correctness, `PunctualLeadsAlone`, `LeaderIsStamped` |
| `ServerDirectory`, `MCServerDirectory` | servers in the cache, the directories of the proxies, server agents, the API of external servers; its instances |
| `ServerDirectory_proof` | type correctness, `AuthoritativeKept`, `DeletedForgotten` |
| `ProxyAdmission`, `MCProxyAdmission` | admission, allocation and drain of one proxy; its instance |
| `ProxyAdmission_proof` | type correctness, `ClosedForGood`, `AdmissionAgrees` |
| `ManagedObject` | abstract: what the operator promises of one object |
| `BuilderReconcile`, `BuilderReconcileInv`, `MCBuilderReconcile` | reconcile_builder call by call, its inductive invariant, its instance |
| `BuilderReconcile_proof` | type correctness, BuilderReconcile implements ManagedObject |
| `Resources` | references to files and how they resolve to URLs |
| `ClusterManifests`, `ServerManifests`, `ProxyManifests` | the builders of each custom resource; each EXTENDS the one before |
| `Operator` | the four controllers over these manifests, users, Agones and the collector |
| `OperatorNetwork`, `MCOperator` | what the manifests must be to each other; the instances |
| `Operator_proof` | type correctness, `OneForwardingKey`, `DeletedAfterShutdown`, `ScaleKept`, `PodsAuthorised`, `ProxiesReachable`, `OneBackend`, `PodsStart` |
| `Matchmaking`, `MCMatchmaking` | queues, matching function, director, allocation and summoning; its instances |
| `Matchmaking_proof` | type correctness, `ServerNotOverfilled`, `WastedOnlyByFailures`, `BatchServesTheQueue` |

How they fit: `ProxyAdmission` takes from a proxy's life what `PlayerPresence`
leaves out, and the reverse. `Operator` composes the controllers with the manifest
modules and takes one call of reconcile_builder as one step; `BuilderReconcile` opens that
step and shows that it keeps the promise of `ManagedObject`, which is what `Operator`
relies on. `Matchmaking` composes the addon, the operator's API and the allocation
that server agents do.

### 2.1 PlayerPresence

`players`, `position`, `onProxy`, `onServer` and `proxies` are the Redis keys
(the comment of each variable gives the key). A position is the record of the
two fields of the HASH. `op[h]` is a setPlayerPosition or unsetPlayerPosition
that handler thread `h` is in the middle of: what it read (`prev`), what it will
write (`target`), how many commands Redis has run (`done`). `removal[t]` is the
same for an unregisterProxy of task thread `t`, with the players it read
(`todo`) and the server it looked up for each (`lookup`).

* **One Redis command is one step.** Jedis sends a pipeline in one go, but Redis
  may run other clients' commands between any two of its commands, so
  setPlayerPosition is a read and six commands, unsetPlayerPosition a read and
  four, unregisterProxy SMEMBERS, the lookup, the removal of the proxy from the
  list, the DEL of its SET, and three commands per player. A command the code
  leaves out of the pipeline (no previous proxy, same server) changes nothing.
  Two simplifications: the lookup pipeline (one HGET per player, no write) is
  one step, and so are SREM of the proxy and DEL of its info, because
  listRegisteredProxies drops a name that lacks either.
* **Heartbeats.** `stale` holds the listed proxies whose lastSeen is older than
  5 minutes. A live proxy may become stale only if it is in `Laggard`; a dead one
  always may.
* **Purge.** The loop over the lost proxies is one unregisterProxy per proxy: a
  task picks any stale listed proxy at any time. The purge lock is left out: it
  expires after 15 s and `close()` deletes it whoever holds it, so it does not
  keep two purges from overlapping. Dropping it only adds behaviours.
* **A proxy's life**: `new`, `up` (registerProxy), `stopping` (shutdown called,
  which starts with unregisterProxy), `down`. `ProcessEnds` models the end of its
  effects on Redis: `ShulkerClusterAPIImpl.close` destroys the Redis pool. shutdown
  is called from the TTL task, the drain task, the API and the end of the process,
  more than once if these coincide. Proxy names are pod names: a new pod is a
  new Proxy.
* **Players** log in to one proxy at a time (an online-mode network refuses a
  second session), reach servers, and end; the disconnect handler runs later,
  possibly after the player is back on another proxy (`closing`).
* **History variables.** `disturbed` collects players whose operations overlapped
  (with one another, with an unregisterProxy of their proxy, or with a disconnect
  that is still to be handled) or were cut short by the end of a process;
  `dropped` collects servers that were unregistered. They are never read by an
  action.

Left out: tags, capacities, acceptingPlayers, the name cache, the publication
of `player-position-changed` (nobody subscribes to it in this repository).

### 2.2 LeaseLock

One Lease object and any number of replicas. `phase` is where a replica is in
try_acquire_and_hold, `req` its call in flight. A call is three steps: the
request is sent with a time stamp, the API server applies or refuses it, the
answer arrives; a replica may end in between and the call may still be applied.

* **resourceVersion** is only compared with the current one, so a replica's copy
  is a Boolean, `fresh`. Every applied call makes all other copies old. A
  refused call ends the replica: every call is unwrapped.
* **Time** advances by `Tick` in units; time stamps are kept as ages, capped at
  `Duration + 1`, the first age that is expired. Capping loses nothing: ages are
  compared with `Duration` only. Clocks are assumed to agree (they are the wall
  clocks of the nodes).
* **Server-side apply.** All replicas patch as the field manager of the operator,
  so an apply without a field that this manager owns removes it. A take-over
  writes acquireTime and removes renewTime; a renewal writes renewTime and removes
  acquireTime; the fields of the POST that created the Lease have another owner
  and stay until overwritten (`created`). leaseDurationSeconds is always owned by
  that POST and is constant.
* **Punctual replicas** are those whose calls and timers are late by at most
  `MaxDelay`; `Tick` waits for them. All others may be late without bound.
  `since` measures the fixed grid of `tokio::time::interval`.
* A replica that restarts has a new identity and is another element of `Replica`.

### 2.3 ServerDirectory

A name may come from a GameServer (`managed`), from the file of external servers
(`config`) or from the API (`dynamic`). `info` is the cache, `backend[x]` what proxy
`x` has registered, with the address named after the source it came from, and
`authoritative[x]` its set authoritativeServers.

* **Threads.** `calls[x][t]` is the queue of what thread `t` of proxy `x` has to do,
  the first call at its `stage`. The main thread starts the directory (`boot`), the
  informer, the file monitor and one subscriber per channel run next to it. A call
  stops between the set authoritativeServers, the proxy, the read and the write of the
  cache, because the other threads or proxies may go in between. hasServer (`Link`) and
  registerServer of the proxy (`AddToProxy`, `AddFails`) are two steps, since nothing locks the
  threads out between them: a name that another thread has registered meanwhile gets the
  new address on BungeeCord, whose registerServer writes a map, and makes Velocity's throw, unless the
  address is the same. The exception ends what the thread was doing (`failed`), except
  for the informer, which logs it and goes on. `BungeeCord` is the set of proxies of that kind. A
  pipeline of the cache is one step (its torn states are the subject of
  PlayerPresence), and so are Velocity's look-up of a server to unregister and
  registerSelfInCache, whose only reader is itself.
* **Informers** see the current phase of a GameServer, possibly skipping phases. Every
  10 s the informer reports each GameServer again (`Resync`), which registers
  a ready one again. Reserved and Allocated count as ready, as in isReady.
* **The file** is watched by its number of changes, `edits`; a handler reads the file as
  it is when it runs.
* **The API.** `client[k]` is a call in progress. registerExternalServer tests the
  source, then registerServer tests it again, then writes; the message is published
  also when that second test refused. `Publish` reaches any subset of the proxies
  that have subscribed: Redis delivers at most once, and `subscribe` runs on an executor
  thread after the directory went on.
* **History.** `used` holds the names that the file or the API has had, `ghosts` the
  names whose end some proxy may never learn of: a starting proxy handles its list on
  the main thread while the informer runs, so the registration may follow the removal, or
  there may be no removal at all. Such a name stays registered for ever.

Left out: tags (and the unlocked HashMaps that hold them), capacities,
acceptingPlayers, reuse of the name of a deleted GameServer, other exceptions in a
handler, ends of proxies.

### 2.4 ProxyAdmission

One proxy. A thread is the login or the logout handler of a player, or one of those that
may call drain (the informer, which sees the annotation, and the subscriber of the drain
channel); `at[t]` is the stage it has reached. A thread stops wherever another one
may see or change what it reads or writes: isAllocatedByAgones is tested, then written, then
the SDK is called; setAcceptingPlayers writes the flag, the cache, the lock file in three steps, to open
as to close; createDrainLock
and createReadinessLock test for the file, then make it, and throw if it is there by then;
drain tests drainingFuture, then writes it, and reads it again when it attaches
onExcludedFromKubernetes and when the task completes it.

* **Players.** Velocity fires LoginEvent before it counts the player and DisconnectEvent when it
  counts the player no more. BungeeCord fires PostLoginEvent after it has counted the player, and
  PlayerDisconnectEvent before it removes the connection (`leaving`, `Removed`), so that onPlayerDisconnect
  still counts the one who leaves: the proxy never becomes Ready again after its last player, and one that is
  full is not reopened by the leave that makes room. Both variants are initial states. On BungeeCord a refused pre-login is not
  cancelled by the listener (`Refused`): players are let in until the Service has
  excluded the proxy. A player who comes back is taken for another player until the handlers of
  its old connection have returned.
* **Time.** The tasks of 30 s run at any time after they were scheduled, with one exception:
  a disconnect handler that found no drain has returned before the exclusion is complete
  (`CompleteFuture`), 30 s later. Without that assumption such a handler would open a drained proxy.
* **The end.** CheckEmpty, the time to live, askShutdown and the deletion of the pod end the
  process in one step. Restarted pods are new proxies.
* **History.** `crossed` records that a disconnect has overlapped a login, or, on BungeeCord, another
  disconnect; see `AdmissionAgrees`.

Left out: pings, the routing to lobby and limbo, the external address and the transfers
to it, two purges or missed heartbeats (a purged proxy writes no flag to the cache).

### 2.5 ManagedObject and BuilderReconcile

`ManagedObject` says how one object may change while nobody but the operator touches it: it
appears complete, it changes to something the owner has asked for, its carried value (the
forwarding key, the size of an autoscaled fleet) stays, it loses no annotation, and it goes
only if the owner asked to do without it. `BuilderReconcile` is reconcile_builder: is_needed,
get, validate, build, is_recreation_needed, delete, create with the owner reference, or a
forced server-side apply without one. Every call is a step; each may fail, fail and arrive later
(`late`), or be the last one of an operator that ends. Users edit or delete the owner, another
client changes or deletes the object (`Interfere`), and the garbage collector removes objects of
an owner that is gone. `disturbed` is history: a foreign or late write happened.
`Want` is a set of specs, `Manifest[w]` what build gives for each, reduced to fields.

### 2.6 Manifests, Operator, OperatorNetwork

`Resources`, `ClusterManifests`, `ServerManifests` and `ProxyManifests` translate the builders: a
function from spec (and the existing object, when the builder carries something over) to
manifest. A manifest is reduced to what another object, an agent or Kubernetes depends on:
names, labels, selectors, keys, ports, volumes, mounts, environment, roles. A composed name
is the tuple of its parts, so that two names are equal only if their parts are.
Labels, environments and data are functions; `Resources` defines their `:>` and `@@` itself,
because the provers do not read those of the module TLC.

`Operator` runs the builders of each owner in the order of its reconcile function
(`BuilderOrder`). `Needed` is is_needed of each builder, `Plain` what it builds, `Asked` that for a
Fleet or the Secret, which carry something over from the existing object (`Sized`, the key). What pods
are made of is evaluated once for each spec (`Built`). A reconciliation works on the resource and the cluster it read at its start
(`job`), users edit both meanwhile; an error ends it and it is queued again. The result that the
patch of a Fleet or GameServer returned is kept (`seen`) for the status, or for the deletion of a
MinecraftServer whose GameServer is in state Shutdown. `synced` is history: owners whose
builders have all run on what is now in the API server. The status of a MinecraftServer takes the first
port of a GameServer that was asked for none (`GameServerPorts`, `Unwraps`): unwrap panics in the one task that polls
all controllers, so that all reconciliations in flight end and the operator starts again (`Panic`). One owner of each kind, since controllers run
one reconciliation of an owner at a time, and owners of one kind share nothing but names.
`OperatorNetwork` states first what users are relied on for, since the operator copies what they
write without a check:

* `OneClusterAssumption`: a MinecraftServerFleet names its cluster twice, and its pods take the
  Secret, the account and the subdomain from the template's `clusterRef` (`minecraft_server_fleet/fleet.rs:92-97`),
  the Redis from the fleet's. The two are the same.
* `LabelsAssumption`: the metadata of the template of a fleet may set labels, which replace the
  operator's (`minecraft_server_fleet/fleet.rs:72-80`, `proxy_fleet/fleet.rs:366-371`). They do not
  set those that the operator selects by.
* `EnvAssumption`, `VolumesAssumption`: the variables, volumes and mounts of `podOverrides` are
  appended to the operator's; they do not repeat one of its names or paths, and what they mount is there.
* `ExistingAssumption`: the ConfigMap of an `existingConfigMapName` and the credentials Secret
  of a provided Redis exist.

They are assumptions on `Specs` and `Worlds` that TLC evaluates on the instances and on which
the theorems rest, `PodsAreAuthorised` among them; the properties say nothing of networks that break them.

`Settles` and `StatusFollows` have a premise, `NothingUnwrapped`: in the end no server has a running GameServer. Where
one has, the panic ends the operator again and again; and the status of a server is never written, so that
`StatusFollows` speaks of the two kinds of fleets.

Objects are owned by one owner only; in the code, a ProxyFleet and a MinecraftServer that
have the same name would write the same ConfigMap (listed as a hazard, not modelled).

### 2.7 Matchmaking

`resource` are the MatchmakingQueues, `registry` the director's copy, `director` what its tick holds.
The matching function is a set of operators on sequences of tickets and backfills, in any order,
since Open Match promises none. The tick: fetch every queue in turn, then for each match
allocate a server through the operator, then assign. The operator looks the fleet up first
(`ServerFleet` are those that exist) and refuses the call if there is none (`Unanswerable`); it summons a server if the
allocator fails for any reason, whether or not it has allocated one. Each call may fail, which ends the tick; the
director may restart. A queue that is updated without a valid matching function takes over the fleet and keeps
the function it had (`mmf`).
Open Match is external: pending tickets are released after a time, backfills expire, the plugin
reports a backfill's server. Players leave; the server's agent makes it Ready again when its
last player has left.

Left out: the Elo function (the code names it and has no implementation), namespaces,
the leader election of the director (the code of `LeaseLock`), the encoding of numbers in
extensions, the summon timeout.

## 3. Runs

| Run | Instance | States | Shows |
|---|---|---|---|
| `presence` | 1 player, 2 proxies (one may miss heartbeats, both may crash), 2 servers, 2 handler threads, 1 task thread | 148,642 | `TypeOK`, `IndexExact`, `PresenceTruthful`, `HealthyProxyStaysListed` |
| `presence_registry` | 3 proxies that may all crash, no player, 2 task threads, fairness | 22,416 | `DeadProxyUnlisted` |
| `presence_connected` | 1 player, 2 proxies, no fault | | `ConnectedMeansPresent` is **violated** |
| `presence_dead_proxy` | same | | `DeadProxyForgotten` is **violated** |
| `lease` | 2 replicas, 1 punctual; Duration 4, Interval 2, MaxDelay 1; fairness | 30,069 | `TypeOK`, `PunctualLeadsAlone`, `LeaderIsStamped`, `LeaseInv`, `LeaseIsTakenOver`, `SupersededStops` |
| `server_directory` | two worlds: 2 proxies that start, 1 GameServer; 1 proxy that is up, 2 API calls, 1 change of the file, on Velocity and on BungeeCord; fairness | 234,394 | `TypeOK`, `DeletedForgotten`, `AuthoritativeKept`, `ReadyServed` |
| `server_precedence` | 1 proxy, 1 API call | | `AuthoritativePrecedes` is **violated** |
| `builder` | 3 wants, 2 edits, 1 failure, 1 interference; fairness | 278,175 | `TypeOK`, `ManagedSpec` (refinement), `Converges`, `CollectedWithOwner` |
| `operator` | a cluster and a proxy fleet (1 edit or change of the Maven repository), or a cluster and a server; 1 failure or report; fairness | 97,853 | `PodsStart`, `Settles`, `StatusFollows` |
| `manifests` | a cluster (4 specs) and every one or two of proxy fleet, server fleet, server (3 specs each), one reconciliation at a time, 1 failure, report or scaling | 291,610 | `TypeOK`, `PodsStart`, `PodsAuthorised`, `ProxiesReachable`, `OneBackend`, `OneForwardingKey`, `DeletedAfterShutdown`, `ScaleKept` |
| `matchmaking` | 2 queues, 3 tickets, 2 servers, 2 backfills, 1 of 2 fleets exists, in three worlds: failures, an edited queue, two queues; fairness | 212,743 | `TypeOK`, `ServerNotOverfilled`, `WastedOnlyByFailures`, `BatchServesTheQueue`, `RegistryFollows`, `PlayersAreServed` |
| `proxy_admission` | 2 players who fill the proxy, Velocity or BungeeCord, 2 threads that drain; fairness | 112,702 | `TypeOK`, `ClosedForGood`, `AdmissionAgrees`, `DrainCompletes` |

**Bounds.**

* *PlayerPresence* has no counters: a behaviour may be arbitrarily long. One player suffices
  for what concerns a single player, since operations on different players touch different
  members of the sets; unregisterProxy over several players is covered by the proofs. Two proxies
  are needed for a move, two threads for an overlap. `SomeoneUndisturbed` stops exploring once the
  player is disturbed, of whom the properties say nothing; `presence_registry` has no
  constraint and no players, so that three proxies and torn, overlapping purges fit.
* *LeaseLock*: Duration 4 and Interval 2 in units of 2.5 s approximate 15 s and 10 s with a delay of
  at most 2.5 s: `Interval + 2 * MaxDelay <= Duration` is tight, and the mutation of a single guard
  breaks it.
* *ServerDirectory*: one name, since calls for different names touch different keys. The start with two
  proxies and the API with one are two families of initial states (`WorldsInit`). The proxy that is up runs
  BungeeCord, with a register and an unregister of the API (`MaxCalls` 2) and a file that may lose the name, or
  Velocity, with one call and a file that may get it. While two proxies start, there is one address only, so that
  they are alike and one of them starts first (`InOrder`).
* *BuilderReconcile*: three wants (two that need the object, one that does not) and two edits reach
  every transition between them; one failure leaves one late call.
* *Operator*: `operator` lets two controllers interleave with an edit, whose two sides are the
  cluster and an owner that reads it: a proxy fleet, or a server, beside which nothing is edited (`OneKind`) since
  it is there for the panic. `manifests` looks at the manifests of every combination of
  specs; controllers one at a time suffice there, since only what is settled is judged,
  and what they read of each other is in `operator`. Each
  spec takes other branches of the builders (`MCOperator`). The two keys are interchangeable.
* *Matchmaking*: three players against two places give a full match, a partial one, a backfill and
  a ticket that waits. One failure or leaving player at any point; two together, or a third
  server, are left out for size. The world with failures starts with none spent, so that
  `WastedOnlyByFailures` is tight there; in the two others it allows for one that did not happen. A queue
  may name the fleet that does not exist, alone or beside another queue.
* *ProxyAdmission*: two players fill the proxy; with one of them it is open. `Bounded`
  cuts what `crossed` records while there is no drain (`AdmissionAgrees` says nothing of
  it) and lets one player move while two threads drain; it cuts no step that fairness demands
  once a drain has begun, so that it cannot hide a drain that does not end.

**Fairness** (`FairSpec`, or `Fairness` in the Spec).

* *PlayerPresence*: threads go on with a pipeline they have begun; a dead proxy's heartbeat grows old;
  every live proxy's purge timer fires every minute (strong fairness, because each proxy has a
  timer thread of its own while the model's proxies share `Task`). Nothing is assumed about players,
  crashes, shutdowns.
* *LeaseLock*: replicas and the API server go on with what they have begun, and time passes.
* *ServerDirectory*: threads and callers go on, a directory that has begun to start gets up, file
  and informer events are delivered, the informer resyncs (strong, its thread serves several
  events in turn).
* *BuilderReconcile*, *Operator*: every successful run schedules the next one after five
  minutes and every error after five seconds (`error_policy`); watches deliver; the collector works. Edits,
  failures and interferences are bounded by the instance, never forced.
* *Matchmaking*: the director ticks every few seconds, calls return, Open Match releases pending
  tickets and expires backfills.
* *ProxyAdmission*: handlers and drains go on, scheduled tasks run, and every player leaves some
  day, which is what the guide counts on ("considering the players will deconnect after some play time").

Deadlock is not checked where edits, calls or a process end for good (`CHECK_DEADLOCK FALSE`).

**Disagreements found**, each with a run (`findings` in `PROJECT.json`):

1. `ConnectedMeansPresent`. The disconnect of an old connection, handled late, deletes
   the position that another proxy has written since (`unsetPlayerPosition` does not
   compare the proxy). isPlayerConnected then says no for a player that plays.
2. `DeadProxyForgotten`. shutdown unregisters the proxy before it moves its players
   away; positions written meanwhile name a proxy that is gone and are never purged.
3. `AuthoritativePrecedes`. The API documents that GameServers and servers of the file
   take precedence; a proxy that has linked a dynamic server keeps its address when an
   authoritative one of that name arrives. `AuthoritativeKept` says what does hold: an authoritative name
   that is settled at its owner's address stays so.

**Seen while modelling**, in the models but with no property of their own:

* unregisterServer deletes a server's SET of players under the players that are on it.
* unregisterExternalServer tests the source and deletes in separate calls: racing with the
  registration of a server of the file, it leaves that server out of the cache until the file
  changes. A managed server recovers at the next resync (`ReadyServed`).
* A registration of the API that passed the test of authoritativeServers and hasServer before a GameServer of that
  name arrived replaces its address on BungeeCord (`AddToProxy`); on Velocity it throws and
  ends the subscription, or the start of the directory (`AddFails`). `AuthoritativeKept` excepts calls
  that passed the test before.
* A starting proxy that misses the end of a server knows it for ever (`ghosts`).
* At the end of its time to live a proxy is shut down with its players on it (`ForcedStop`); the guide
  and the field ttlSeconds say that it is drained, and the guide that a new proxy
  is created then, which nothing does.
* createReadinessLock tests for the file and makes it: when a login closes the full proxy at
  the end of its drain, the loser throws. In onExcludedFromKubernetes the exception is lost in the
  future, and the periodic check is never scheduled: the proxy stops only at its time to live.
  `DrainCompletes` excepts it.
* A login that overlaps a disconnect can leave a proxy that accepts players and keeps its readiness
  lock, so that the Service sends it none until the next time it fills, or one with players that Agones
  holds for Ready. `AdmissionAgrees` excepts it.
* On BungeeCord a refused pre-login is not cancelled (`Refused`), and onPlayerDisconnect counts the player who
  leaves: after its last player the proxy stays allocated, since setReady is never called; one that was full stays
  closed until a second player leaves; and two disconnects that overlap, each counting both, may
  leave it closed when it is empty. `AdmissionAgrees` states the first two and excepts the third.
* The reconciliation of a MinecraftServer unwraps the first port of a GameServer that has none
  (`minecraft_server/mod.rs:89`, `gameserver.rs:208`): each such server ends the operator whenever it is
  reconciled, the other resources get the time in between only, and no status is written (`Panic`).
* After a match that is not full, the director asks again for a backfill whose server nobody in
  this repository reports, and every tick ends with an error (`EndsTicks`); so it does for a queue with
  at most 0 players, whose matching function never answers, and for one whose targetFleetRef names
  no fleet, which nothing checks. The queues after it get no turn.
* A summoned server is not allocated, so a second match can be sent to it.
* The servers of a MinecraftServerFleet take the forwarding Secret, the account and the subdomain of the
  cluster that the template names, the Redis and the cluster name of the one that the fleet names, if
  the two differ; labels in a template can take proxies out of the selector of their Service.
  Nothing checks either (section 2.6).
* A patch that arrives after its object was deleted makes an object without an owner reference, which
  the collector leaves alone (`strayed`).

## 4. Proofs

All for arbitrary constants satisfying the ASSUMEs of the modules.

* **PlayerPresence.** `TypeCorrect`: `TypeOK` is inductive, one step per action.
  `HealthyProxyListed`: the property is not inductive; `RegistryInv` adds that a live proxy
  outside `Laggard` is never stale, that no removal of it is in flight while it is up, and that a
  proxy that has not started is not listed.
  `IndexExact` speaks of players at rest only. `IndexInv`
  (`IndexAlways`) says, for an undisturbed player, what each of the four keys holds at *every*
  command of the operation in flight (`SetView`, `UnsetView`, `RemovalView`), that at most
  one operation is in flight for the player (`Alone`), and that a player that joined a proxy after
  unregisterProxy read its SET is not in it (`Views`). The proof goes through the actions and, for
  each, through the players whose views it can change. `IndexCorrect` follows.
* **PlayerTruth_proof.** `PresenceTruthful` too speaks of players at rest. `TruthInv` (`TruthAlways`) replaces
  the recorded proxy by the one that the operation in flight will leave (`Recorded`; a pipeline writes the
  HASH as its second command), and adds that a player has one session, that an unregisterProxy only
  cleans players recorded on its own proxy, and that it cleans them once this proxy is unlisted, for
  good (`LivesOK`): the position it deletes is of no listed proxy. What the last command of a pipeline
  leaves in the HASH is taken from `IndexInv`. `PresenceIsTruthful` follows.
* **LeaseLock.** `LeaseTypeCorrect`, `LeaseAlways`, `LeaderIsAlone`, `LeaderStamped`. `LeaseInv` says that
  at most one replica owns the current version in the sense that it may write next without
  looking at the time stamps (`Owns`), that a take-over that would be accepted is one of
  an expired lease (`TakeOverOK`), and that the time stamp of a punctual holder is at
  most `since + MaxDelay` old (`OnTime`); with the timing assumption it is never expired, so no
  take-over of it is accepted.
* **ServerDirectory.** `DirectoryTypeCorrect`: lemmas say what the operators on the threads' queues
  return; listing a set needs `ServerAssumption`, that the names are finitely many.
  `AuthoritativeIsKept`: of the calls in a queue only the first has begun, and a call of an owner that has
  begun carries the address of that owner (`QueueInv`). A call of the API that comes to a name already claimed
  stops at the test of authoritativeServers; only one that passed the test before (`Challenged`) could touch
  it, and these the property excepts. A registration of an owner leaves the address that it finds or
  replaces it by that of an owner (`ThreadNames`, `ThreadSecures`). All other steps only lengthen queues
  (`CallsGrow`, `OthersWait`). The theorem does not say that the address is the managed one as soon as a
  GameServer is ready, which is false (`AuthoritativePrecedes`).
  `DeletedIsForgotten`: `DeletedForgotten` speaks of proxies at rest, `ForgetInv`
  (`ForgetAlways`) of the calls that their threads still have to make (`Has`). About a name that neither
  the API nor the file has used, only informers have calls, and the main thread of a proxy that lists the
  GameServers (`OnlyManaged`). After its end each proxy that has the name has yet to see that end, or
  has the call in its queue that removes it; and as long as the cache has the name, so has some proxy
  (`Forgetting`): a proxy that writes the name after another has erased it has not seen the end. It
  needs that an informer has one call at a time (`StartsEmpty`).
* **BuilderReconcile.** `BuilderTypeCorrect`, `BuilderAlways`, `PromiseKept`. The call in flight was built from an
  object read some calls ago. `BuilderInv` says that what it writes was asked for and is complete, and,
  as long as nobody else wrote, that it holds the carried value and the annotations of the object it will
  meet and deletes only what may go. `PromiseKept` maps every step to a step of `ManagedObject` or a
  stutter, for every `Manifest`, number of edits, failures and interferences.
* **Operator.** `KeyIsOne` and `DeletedWhenShutDown` from `OperatorInv`, the conjunction of `Shape`
  (functions have their domains), `KeyInv` (the Secret, once made, stays, since the cluster stays, and holds
  the only key that pods ever read) and `ServerInv` (a GameServer that a reconciliation saw shut down
  does not come back before that reconciliation ends, since only its own builder makes it).

  The properties of a settled network need to know what is in the API server when nothing runs.
  `NetworkInv` (`NetworkAlways`) adds that objects have the keys of some builder (`RangeInv`), that a fleet
  is one with a size (`SizeInv`), what a reconciliation in flight has read (`JobInv`), and its core: `Made`
  says of an object that it is what its builder makes of its owner, the cluster and the world, but
  for the key in the Secret and the size of a Fleet. A reconciliation that has read what is still there has
  left so the objects of the builders it has run (`FreshInv`), and one that is complete all of them (`SyncInv`):
  no other controller writes them, and an edit of the owner, the cluster or the world ends the claim.
  `OwnedInv` adds that what servers, clusters and fleets own has its owner, as only servers are deleted.
  `OperatorTypeOK` and `SizeIsKept` follow from it. For the others, lemmas first read the manifests: what
  environment, volumes, mounts and labels a pod has whatever is in `podOverrides` (`PodTells`, `ProxyTells`,
  `ServerTells`, `Settings`), what the cluster owns (`RedisIs`, `ForwardingIs`, `SecretsThere`),
  and what the ConfigMaps hold (`ProxyConfigThere`, `ServerConfigThere`). Then `PodsAreAuthorised`,
  `ProxiesAreReachable`, `BackendIsOne` and `PodsAllStart` join what one controller has written with what another one
  names, from the assumptions on users of section 2.6.
* **Matchmaking.** The matching function is proved right on its own, for any profile, any tickets and
  backfills in any order: `FullMatches` for the full matches, `FillingIsFilled` for the backfills in turn,
  `MatchesMade` for their union, from which `MatchmakingBatchServesTheQueue` follows. The
  backfills are a recursive function of the number of those that were tried. That it keeps `Filled` for each
  number is proved by a least counterexample, since induction over data is out of the provers' reach.
  `MatchInv` (`MatchAlways`) then is, beside the types: the matches that the director holds share no
  ticket and hold none that was assigned (`HeldApart`); a match has a server while it is allocated, and a
  queue (`HeldPlaced`); the backfills that matches and servers name exist (`BackfillsExist`); a
  match that needs a server has no more players than its queue allowed, with those who may still
  come through its backfill (`MatchesFit`). `ServerNotOverfilled` speaks of players that were sent; it is not
  inductive, since a backfill lets more players come to a server long after it was allocated: `Room` counts
  those sent, those in matches on the way, and the places that are left in its backfill, against the limit the server was
  taken for. Nor is `WastedOnlyByFailures`: a match whose last player has left still takes a server, so that `Paid` counts
  the players that are gone and still in a match, together with the servers taken for nothing, against
  failures and leaves.
* **ProxyAdmission.** `AdmissionTypeCorrect`, `DrainIsFinal`. `ClosedForGood` is not inductive: `AdmissionInv` adds
  what an exclusion has closed so far at each of its stages (`Shut`), that the future is set before its
  timer starts (`FutureSet`), and that no disconnect is about to open the proxy once a future is
  complete (`NoneOpens`, from the 30 s of `CompleteFuture` and isDraining in onPlayerDisconnect).
  `AdmissionIsRight`: `AdmissionAgrees` speaks of a proxy at rest. `AgreeInv` (`AgreeAlways`) adds, for a process
  in which nothing has `crossed`, that handlers go on apart (`Apart`), whom each stage of a handler
  leaves to tell Agones (`AllocationInv`), and which of the flag, the cache and the file a handler has
  changed already (`Closed`). It needs that the players are finitely many (`PlayerAssumption`): more
  players then leave a full proxy full (`FullGrows`).

Every safety and action property of the passing runs is the conclusion of a theorem. Only model-checked:
liveness, which is out of the prover's reach (`DeadProxyUnlisted`, `LeaseIsTakenOver`, `SupersededStops`,
`ReadyServed`, `Converges`, `CollectedWithOwner`, `Settles`, `StatusFollows`, `RegistryFollows`,
`PlayersAreServed`, `DrainCompletes`), and the three violations.

## 5. Not modelled

* **CLI, metrics, CRD generation, SDK bindings, Minestom demo**: no state of their own.
* **Cluster API implementation**: delegates to the cache, the pub/sub and the informers, which
  are modelled where they are used.
* **Maps of tags** in `ServerDirectoryService.kt`, plain HashMaps that several threads change: what an
  unsynchronised HashMap does is any outcome, which no property survives; listed as a hazard.
* **Routing** of players to lobby and limbo, transfers, teleports: one lookup and one call.
* **Summon timeout** of a server: one timer, one test.
* **Files of the servers** beyond what another component reads: constants and wording.
* **Elo** matching: no code.

## 6. What is left

* A refinement of the presence index to a map from players to positions, and of
  `ServerDirectory` to the owner of each name.
* The composition of `Operator` with `BuilderReconcile` call by call for two controllers.
* What `Resources` returns of a repository with several snapshots (the newest that has a file of the classifier),
  as a theorem of its operators.
