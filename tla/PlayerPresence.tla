--------------------------- MODULE PlayerPresence ---------------------------
(***************************************************************************)
(* Where every player of the network is, as the Redis cache records it.    *)
(*                                                                         *)
(* The cache keeps a player's position in one HASH and, so that "who is on *)
(* this proxy" needs no scan, three reverse SETs.  RedisCacheAdapter       *)
(* changes them with a read followed by a Jedis pipeline.  A pipeline is   *)
(* not a transaction: Redis may run the commands of other clients between  *)
(* any two of its commands, so here every command is a step of its own.    *)
(*                                                                         *)
(* The callers are the proxy agents: a handler thread runs                 *)
(* setPlayerPosition after a player reached a server and                   *)
(* unsetPlayerPosition when its connection ended; a task thread runs       *)
(* unregisterProxy for the proxy's own shutdown and for proxies that       *)
(* stopped sending heartbeats.  A command that the code leaves out of a    *)
(* pipeline (no previous proxy, same server) is a step that changes        *)
(* nothing.  Tags, capacities and player names are left out; two purges    *)
(* may overlap, since the purge lock expires after 15 s whether or not its *)
(* owner has finished.                                                     *)
(***************************************************************************)
EXTENDS Naturals

CONSTANTS
    Player, Proxy, Server,
    Handler,     \* threads of the proxies that run player event handlers
    Task,        \* threads of the proxies that run unregisterProxy
    Laggard,     \* proxies that may miss heartbeats for 5 min while alive
    Fragile,     \* proxies that may crash
    None         \* no position, no operation

Position == [proxy: Proxy, server: Server]

\* An operation on one player between its read and its last command:
\* `prev` is the HASH it read, `done` counts the commands Redis has run.
Move == [kind: {"set", "unset"}, by: Proxy, player: Player,
         prev: Position \cup {None}, target: Position \cup {None}, done: 0..5]

\* An unregisterProxy(proxy) run by `by`: `todo` holds the players read from
\* the proxy's SET that are not cleaned yet, `lookup` the servers read for them.
Removal == [by: Proxy, proxy: Proxy,
            stage: {"lookup", "unlist", "index", "players", "hash", "server"},
            todo: SUBSET Player, lookup: [Player -> SUBSET Server],
            current: Player \cup {None}]

ASSUME NoneAssumption ==
    /\ None \notin Position
    /\ None \notin Move
    /\ None \notin Removal
    /\ None \notin Player

ASSUME FaultAssumption == Laggard \subseteq Proxy /\ Fragile \subseteq Proxy

VARIABLES
    players,     \* shulker:players                     SET of online players
    position,    \* shulker:players:{id}                HASH, or None
    onProxy,     \* shulker:proxies:info:{name}:players SET
    onServer,    \* shulker:servers:info:{name}:players SET
    proxies,     \* shulker:proxies                     SET of listed proxies
    stale,       \* listed proxies whose lastSeen is older than 5 min
    op,          \* the operation each handler thread is running
    removal,     \* the unregisterProxy each task thread is running
    life,        \* the process of each proxy
    session,     \* each player's connection to each proxy
    closing,     \* <<proxy, player>>: ended, disconnect handler not yet run
    disturbed,   \* history: players whose operations overlapped or were torn
    dropped      \* history: servers that were unregistered

store == <<players, position, onProxy, onServer>>
agents == <<life, session, closing>>
vars == <<players, position, onProxy, onServer, proxies, stale, op, removal,
          life, session, closing, disturbed, dropped>>

TypeOK ==
    /\ players \subseteq Player
    /\ position \in [Player -> Position \cup {None}]
    /\ onProxy \in [Proxy -> SUBSET Player]
    /\ onServer \in [Server -> SUBSET Player]
    /\ proxies \subseteq Proxy
    /\ stale \subseteq Proxy
    /\ op \in [Handler -> Move \cup {None}]
    /\ removal \in [Task -> Removal \cup {None}]
    /\ life \in [Proxy -> {"new", "up", "stopping", "down"}]
    /\ session \in [Proxy -> [Player -> {"none", "joined", "playing"}]]
    /\ closing \subseteq Proxy \X Player
    /\ disturbed \subseteq Player
    /\ dropped \subseteq Server

Init ==
    /\ players = {}
    /\ position = [p \in Player |-> None]
    /\ onProxy = [x \in Proxy |-> {}]
    /\ onServer = [s \in Server |-> {}]
    /\ proxies = {}
    /\ stale = {}
    /\ op = [h \in Handler |-> None]
    /\ removal = [t \in Task |-> None]
    /\ life = [x \in Proxy |-> "new"]
    /\ session = [x \in Proxy |-> [p \in Player |-> "none"]]
    /\ closing = {}
    /\ disturbed = {}
    /\ dropped = {}

(***************************************************************************)
(* Reading a position, and SADD / SREM of one player on a set of keys.     *)
(***************************************************************************)
ProxyOf(pos) == IF pos = None THEN {} ELSE {pos.proxy}
ServerOf(pos) == IF pos = None THEN {} ELSE {pos.server}

\* The fields HMSET writes.
SwappedFields(x, s) == [proxy |-> s, server |-> x]
TargetOf(x, s) == [proxy |-> x, server |-> s]

\* The SETs a move takes the player out of: none when it stays where it was.
KeepPreviousProxy(o) == {}
PreviousProxy(o) == ProxyOf(o.prev) \ ProxyOf(o.target)
PreviousServer(o) == ServerOf(o.prev) \ ServerOf(o.target)

SAdd(index, keys, p) ==
    [k \in DOMAIN index |-> IF k \in keys THEN index[k] \cup {p} ELSE index[k]]
SRem(index, keys, p) ==
    [k \in DOMAIN index |-> IF k \in keys THEN index[k] \ {p} ELSE index[k]]

(***************************************************************************)
(* Which players an operation in flight is about.                          *)
(***************************************************************************)
Moving(p) == \E h \in Handler : op[h] # None /\ op[h].player = p
Removing(p) == \E t \in Task : removal[t] # None /\ p \in removal[t].todo
InFlight(p) == Moving(p) \/ Removing(p)
Unregistering(x) == \E t \in Task : removal[t] # None /\ removal[t].proxy = x

Alive(x) == life[x] \in {"up", "stopping"}

(***************************************************************************)
(* setPlayerPosition, from onServerPostConnect: the read of the previous   *)
(* HASH, then six commands.                                                *)
(***************************************************************************)
ServerPostConnect(h, x, p, s) ==
    /\ op[h] = None
    /\ Alive(x)
    /\ session[x][p] \in {"joined", "playing"}
    /\ op' = [op EXCEPT ![h] =
                 [kind |-> "set", by |-> x, player |-> p, prev |-> position[p],
                  target |-> TargetOf(x, s), done |-> 0]]
    /\ session' = [session EXCEPT ![x][p] = "playing"]
    /\ disturbed' = IF InFlight(p) \/ Unregistering(x)
                       \/ (\E y \in Proxy : <<y, p>> \in closing)
                    THEN disturbed \cup {p} ELSE disturbed
    /\ UNCHANGED <<store, proxies, stale, removal, life, closing, dropped>>

SetPlayerPosition(h) ==
    LET o == op[h]
        p == o.player
    IN  /\ o # None
        /\ o.kind = "set"
        /\ \/ /\ o.done = 0
              /\ players' = players \cup {p}
              /\ UNCHANGED <<position, onProxy, onServer>>
           \/ /\ o.done = 1
              /\ position' = [position EXCEPT ![p] = o.target]
              /\ UNCHANGED <<players, onProxy, onServer>>
           \/ /\ o.done = 2
              /\ onProxy' = SRem(onProxy, PreviousProxy(o), p)
              /\ UNCHANGED <<players, position, onServer>>
           \/ /\ o.done = 3
              /\ onProxy' = SAdd(onProxy, ProxyOf(o.target), p)
              /\ UNCHANGED <<players, position, onServer>>
           \/ /\ o.done = 4
              /\ onServer' = SRem(onServer, PreviousServer(o), p)
              /\ UNCHANGED <<players, position, onProxy>>
           \/ /\ o.done = 5
              /\ onServer' = SAdd(onServer, ServerOf(o.target), p)
              /\ UNCHANGED <<players, position, onProxy>>
        /\ op' = [op EXCEPT ![h] =
                     IF o.done = 5 THEN None ELSE [o EXCEPT !.done = o.done + 1]]
        /\ UNCHANGED <<proxies, stale, removal, agents, disturbed, dropped>>

(***************************************************************************)
(* unsetPlayerPosition, from onPlayerDisconnect: the read, which ends the  *)
(* operation when there is no position, then four commands.  Nothing       *)
(* compares the position that is removed with the proxy that removes it.   *)
(***************************************************************************)
HasNoPosition(p) == position[p] = None
HasPosition(p) == position[p] # None

PlayerDisconnect(h, x, p) ==
    /\ op[h] = None
    /\ Alive(x)
    /\ <<x, p>> \in closing
    /\ closing' = closing \ {<<x, p>>}
    /\ op' = IF HasPosition(p)
             THEN [op EXCEPT ![h] =
                      [kind |-> "unset", by |-> x, player |-> p,
                       prev |-> position[p], target |-> None, done |-> 0]]
             ELSE op
    /\ disturbed' = IF InFlight(p) THEN disturbed \cup {p} ELSE disturbed
    /\ UNCHANGED <<store, proxies, stale, removal, life, session, dropped>>

UnsetPlayerPosition(h) ==
    LET o == op[h]
        p == o.player
    IN  /\ o # None
        /\ o.kind = "unset"
        /\ \/ /\ o.done = 0
              /\ players' = players \ {p}
              /\ UNCHANGED <<position, onProxy, onServer>>
           \/ /\ o.done = 1
              /\ position' = [position EXCEPT ![p] = None]
              /\ UNCHANGED <<players, onProxy, onServer>>
           \/ /\ o.done = 2
              /\ onProxy' = SRem(onProxy, ProxyOf(o.prev), p)
              /\ UNCHANGED <<players, position, onServer>>
           \/ /\ o.done = 3
              /\ onServer' = SRem(onServer, ServerOf(o.prev), p)
              /\ UNCHANGED <<players, position, onProxy>>
        /\ op' = [op EXCEPT ![h] =
                     IF o.done = 3 THEN None ELSE [o EXCEPT !.done = o.done + 1]]
        /\ UNCHANGED <<proxies, stale, removal, agents, disturbed, dropped>>

(***************************************************************************)
(* unregisterProxy(x) run by proxy y: SMEMBERS of the proxy's players, the *)
(* server of each, then one pipeline that unlists the proxy, deletes its   *)
(* SET and cleans the players one after the other.                         *)
(***************************************************************************)
UnregisterProxy(t, y, x) ==
    /\ removal[t] = None
    /\ removal' = [removal EXCEPT ![t] =
                      [by |-> y, proxy |-> x, stage |-> "lookup",
                       todo |-> onProxy[x], lookup |-> [p \in Player |-> {}],
                       current |-> None]]
    /\ disturbed' = disturbed
          \cup {p \in onProxy[x] : InFlight(p)}
          \cup {p \in Player : \E h \in Handler : /\ op[h] # None
                                                  /\ op[h].player = p
                                                  /\ x \in ProxyOf(op[h].target)}

LookupServers(t) ==
    /\ removal[t] # None
    /\ removal[t].stage = "lookup"
    /\ removal' = [removal EXCEPT
                      ![t].lookup = [p \in Player |-> IF p \in removal[t].todo
                                                      THEN ServerOf(position[p])
                                                      ELSE {}],
                      ![t].stage = "unlist"]
    /\ UNCHANGED <<store, proxies, stale, op, agents, disturbed, dropped>>

\* Mutant: the proxy's info goes, its entry in the SET of proxies stays.
KeepListed(t) ==
    /\ removal[t] # None
    /\ removal[t].stage = "unlist"
    /\ removal' = [removal EXCEPT ![t].stage = "index"]
    /\ UNCHANGED <<store, proxies, stale, op, agents, disturbed, dropped>>

UnlistProxy(t) ==
    /\ removal[t] # None
    /\ removal[t].stage = "unlist"
    /\ proxies' = proxies \ {removal[t].proxy}
    /\ stale' = stale \ {removal[t].proxy}
    /\ removal' = [removal EXCEPT ![t].stage = "index"]
    /\ UNCHANGED <<store, op, agents, disturbed, dropped>>

DeleteProxyPlayers(t) ==
    /\ removal[t] # None
    /\ removal[t].stage = "index"
    /\ onProxy' = [onProxy EXCEPT ![removal[t].proxy] = {}]
    /\ removal' = [removal EXCEPT ![t].stage = "players"]
    /\ UNCHANGED <<players, position, onServer, proxies, stale, op, agents,
                   disturbed, dropped>>

ForgetPlayer(t, p) ==
    /\ removal[t] # None
    /\ removal[t].stage = "players"
    /\ p \in removal[t].todo
    /\ players' = players \ {p}
    /\ removal' = [removal EXCEPT ![t].stage = "hash", ![t].current = p]
    /\ UNCHANGED <<position, onProxy, onServer, proxies, stale, op, agents,
                   disturbed, dropped>>

DeletePosition(t) ==
    /\ removal[t] # None
    /\ removal[t].stage = "hash"
    /\ position' = [position EXCEPT ![removal[t].current] = None]
    /\ removal' = [removal EXCEPT ![t].stage = "server"]
    /\ UNCHANGED <<players, onProxy, onServer, proxies, stale, op, agents,
                   disturbed, dropped>>

\* Mutant: the server's SET keeps the player.
SkipServer(t) ==
    LET p == removal[t].current
    IN  /\ removal[t] # None
        /\ removal[t].stage = "server"
        /\ removal' = [removal EXCEPT ![t].stage = "players",
                                      ![t].current = None,
                                      ![t].todo = @ \ {p}]
        /\ UNCHANGED <<store, proxies, stale, op, agents, disturbed, dropped>>

LeaveServer(t) ==
    LET p == removal[t].current
    IN  /\ removal[t] # None
        /\ removal[t].stage = "server"
        /\ onServer' = SRem(onServer, removal[t].lookup[p], p)
        /\ removal' = [removal EXCEPT ![t].stage = "players",
                                      ![t].current = None,
                                      ![t].todo = @ \ {p}]
        /\ UNCHANGED <<players, position, onProxy, proxies, stale, op, agents,
                       disturbed, dropped>>

UnregisterProxyReturns(t) ==
    /\ removal[t] # None
    /\ removal[t].stage = "players"
    /\ removal[t].todo = {}
    /\ removal' = [removal EXCEPT ![t] = None]
    /\ UNCHANGED <<store, proxies, stale, op, agents, disturbed, dropped>>

(***************************************************************************)
(* unregisterServer(s) deletes the reverse SET of the server and leaves    *)
(* the players' positions alone.  Any proxy and the server itself call it. *)
(***************************************************************************)
UnregisterServer(s) ==
    /\ onServer' = [onServer EXCEPT ![s] = {}]
    /\ dropped' = dropped \cup {s}
    /\ UNCHANGED <<players, position, onProxy, proxies, stale, op, removal,
                   agents, disturbed>>

(***************************************************************************)
(* The life of a proxy: registered once (a new pod has a new name), kept   *)
(* listed by heartbeats, stopped by its shutdown or by a crash, and purged *)
(* by another proxy once its heartbeat is 5 minutes old.                   *)
(***************************************************************************)
RegisterProxy(x) ==
    /\ life[x] = "new"
    /\ life' = [life EXCEPT ![x] = "up"]
    /\ proxies' = proxies \cup {x}
    /\ stale' = stale \ {x}
    /\ UNCHANGED <<store, op, removal, session, closing, disturbed, dropped>>

MissHeartbeats(x) ==
    /\ x \in proxies \ stale
    /\ life[x] = "down" \/ x \in Laggard
    /\ stale' = stale \cup {x}
    /\ UNCHANGED <<store, proxies, op, removal, agents, disturbed, dropped>>

UpdateProxyLastSeen(x) ==
    /\ Alive(x)
    /\ x \in proxies \cap stale
    /\ stale' = stale \ {x}
    /\ UNCHANGED <<store, proxies, op, removal, agents, disturbed, dropped>>

\* listRegisteredProxies, filtered by the age of the heartbeat.
AllListed == proxies
LostProxies == proxies \cap stale

PurgeLostProxy(t, y, x) ==
    /\ Alive(y)
    /\ x \in LostProxies
    /\ UnregisterProxy(t, y, x)
    /\ UNCHANGED <<store, proxies, stale, op, agents, dropped>>

\* The TTL task, the drain task, the API and the end of the process all call
\* shutdown, and nothing keeps a second call from running.
Shutdown(t, x) ==
    /\ Alive(x)
    /\ UnregisterProxy(t, x, x)
    /\ life' = [life EXCEPT ![x] = "stopping"]
    /\ UNCHANGED <<store, proxies, stale, op, session, closing, dropped>>

\* The process ends: its threads and connections go, whatever they were doing.
ProcessEnds(x) ==
    /\ life' = [life EXCEPT ![x] = "down"]
    /\ session' = [session EXCEPT ![x] = [p \in Player |-> "none"]]
    /\ closing' = {c \in closing : c[1] # x}
    /\ op' = [h \in Handler |->
                 IF op[h] # None /\ op[h].by = x THEN None ELSE op[h]]
    /\ removal' = [t \in Task |->
                 IF removal[t] # None /\ removal[t].by = x THEN None ELSE removal[t]]
    /\ disturbed' = disturbed
          \cup {p \in Player : \E h \in Handler : /\ op[h] # None
                                                  /\ op[h].by = x
                                                  /\ op[h].player = p}
          \cup {p \in Player : \E t \in Task : /\ removal[t] # None
                                               /\ removal[t].by = x
                                               /\ p \in removal[t].todo}
    /\ UNCHANGED <<store, proxies, stale, dropped>>

\* Also what a shutdown does to another one of the same proxy, whose Redis pool
\* it closes.
Crash(x) == x \in Fragile /\ Alive(x) /\ ProcessEnds(x)

\* shutdown ends by closing the Redis pool: the process changes nothing more.
ShutdownReturns(x) ==
    /\ life[x] = "stopping"
    /\ ~ \E t \in Task : /\ removal[t] # None
                         /\ removal[t].by = x
                         /\ removal[t].proxy = x
    /\ ProcessEnds(x)

(***************************************************************************)
(* Players: they log in to one proxy at a time, and may be back on a proxy *)
(* before an earlier proxy has handled the end of their old connection.    *)
(***************************************************************************)
PlayerLogin(x, p) ==
    /\ life[x] = "up"
    /\ \A y \in Proxy : session[y][p] = "none"
    /\ session' = [session EXCEPT ![x][p] = "joined"]
    /\ UNCHANGED <<store, proxies, stale, op, removal, life, closing, disturbed,
                   dropped>>

ConnectionEnds(x, p) ==
    /\ session[x][p] # "none"
    /\ session' = [session EXCEPT ![x][p] = "none"]
    /\ closing' = closing \cup {<<x, p>>}
    /\ UNCHANGED <<store, proxies, stale, op, removal, life, disturbed, dropped>>

HandlerStep(h) == SetPlayerPosition(h) \/ UnsetPlayerPosition(h)
TaskStep(t) ==
    \/ LookupServers(t) \/ UnlistProxy(t) \/ DeleteProxyPlayers(t)
    \/ \E p \in Player : ForgetPlayer(t, p)
    \/ DeletePosition(t) \/ LeaveServer(t)
    \/ UnregisterProxyReturns(t)

Next ==
    \/ \E h \in Handler, x \in Proxy, p \in Player :
          \/ PlayerDisconnect(h, x, p)
          \/ \E s \in Server : ServerPostConnect(h, x, p, s)
    \/ \E h \in Handler : HandlerStep(h)
    \/ \E t \in Task : TaskStep(t)
    \/ \E t \in Task, x \in Proxy :
          Shutdown(t, x) \/ \E y \in Proxy : PurgeLostProxy(t, y, x)
    \/ \E s \in Server : UnregisterServer(s)
    \/ \E x \in Proxy : \/ RegisterProxy(x) \/ MissHeartbeats(x)
                        \/ UpdateProxyLastSeen(x)
                        \/ Crash(x) \/ ShutdownReturns(x)
    \/ \E x \in Proxy, p \in Player : PlayerLogin(x, p) \/ ConnectionEnds(x, p)

Spec == Init /\ [][Next]_vars

-----------------------------------------------------------------------------
(***************************************************************************)
(* When nothing is in flight for a player whose operations never           *)
(* overlapped, the four keys tell one story: the player is in the SET of   *)
(* online players exactly when it has a HASH, its proxy's SET holds it and *)
(* no other does, and the server SETs hold it nowhere but on its server    *)
(* (where unregisterServer may have taken it out).  This is what the       *)
(* cache's header comment promises of the reverse SETs.                    *)
(***************************************************************************)
Consistent(p) ==
    /\ p \in players <=> position[p] # None
    /\ \A x \in Proxy : p \in onProxy[x] <=> x \in ProxyOf(position[p])
    /\ \A s \in Server :
          /\ p \in onServer[s] => s \in ServerOf(position[p])
          /\ s \in ServerOf(position[p]) \ dropped => p \in onServer[s]

IndexExact == \A p \in Player \ disturbed : ~InFlight(p) => Consistent(p)

(***************************************************************************)
(* The cache and the connections agree, for players whose moves between    *)
(* proxies were orderly: a player who plays on a listed proxy is recorded  *)
(* there, and a player recorded on a proxy that is up is connected to it   *)
(* or its disconnect handler has not run yet.                              *)
(***************************************************************************)
PresenceTruthful ==
    \A p \in Player \ disturbed : ~InFlight(p) =>
        /\ \A x \in proxies :
              session[x][p] = "playing" => x \in ProxyOf(position[p])
        /\ \A x \in ProxyOf(position[p]) :
              life[x] = "up" => session[x][p] = "playing" \/ <<x, p>> \in closing

(***************************************************************************)
(* A proxy whose heartbeats arrive is never unlisted by another one: only  *)
(* its own shutdown or a purge after 5 min without heartbeat removes it.   *)
(***************************************************************************)
HealthyProxyStaysListed ==
    \A x \in Proxy \ Laggard : life[x] = "up" => x \in proxies

(***************************************************************************)
(* What the documentation says and the code does not keep.                 *)
(***************************************************************************)
Quiet(p) == ~InFlight(p) /\ \A x \in Proxy : <<x, p>> \notin closing

\* ShulkerClusterAPI.isPlayerConnected: whether the player is connected to any
\* proxy of the cluster.  Stated once every handler of the player has run, and
\* of a network in which no proxy has stopped.
ConnectedMeansPresent ==
    (\A y \in Proxy : life[y] # "down") => \A p \in Player : Quiet(p) =>
        \A x \in proxies : session[x][p] = "playing" => p \in players

\* unregisterProxy: players lose their whole position when the proxy they are
\* on dies.  Stated once the proxy is gone, unlisted and nothing is in flight.
DeadProxyForgotten ==
    \A x \in Proxy : life[x] = "down" /\ x \notin proxies =>
        \A p \in Player : Quiet(p) => x \notin ProxyOf(position[p])

(***************************************************************************)
(* Fairness: pipelines go on, the heartbeat of a dead proxy grows old, and *)
(* the purge task runs every minute on every live proxy.  Strong fairness  *)
(* for the purge, because its timer owns a thread of each proxy, whereas   *)
(* the tasks of this model share Task.                                     *)
(***************************************************************************)
FairSpec ==
    /\ Spec
    /\ \A h \in Handler : WF_vars(HandlerStep(h))
    /\ \A t \in Task : WF_vars(TaskStep(t))
    /\ \A x \in Proxy : /\ WF_vars(life[x] = "down" /\ MissHeartbeats(x))
                        /\ SF_vars(\E t \in Task, y \in Proxy : PurgeLostProxy(t, y, x))

\* A proxy that died is unlisted as long as some proxy stays up to purge it.
DeadProxyUnlisted ==
    \A x \in Proxy :
        life[x] = "down" ~> x \notin proxies \/ \A y \in Proxy : life[y] # "up"
=============================================================================
