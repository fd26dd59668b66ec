------------------------ MODULE PlayerPresence_proof ------------------------
(***************************************************************************)
(* Proofs about PlayerPresence, for every set of players, proxies,         *)
(* servers and threads: type correctness, the registry of the proxies and  *)
(* the reverse index of the players.                                       *)
(***************************************************************************)
EXTENDS PlayerPresenceInv, TLAPS

(***************************************************************************)
(* SADD and SREM on an index: its type, and which entries change.          *)
(***************************************************************************)
LEMMA SAddFacts ==
    ASSUME NEW S, NEW f \in [S -> SUBSET Player], NEW keys, NEW p \in Player
    PROVE  /\ SAdd(f, keys, p) \in [S -> SUBSET Player]
           /\ \A k \in S, q \in Player :
                 q \in SAdd(f, keys, p)[k] <=> q \in f[k] \/ (q = p /\ k \in keys)
  BY DEF SAdd

LEMMA SRemFacts ==
    ASSUME NEW S, NEW f \in [S -> SUBSET Player], NEW keys, NEW p \in Player
    PROVE  /\ SRem(f, keys, p) \in [S -> SUBSET Player]
           /\ \A k \in S, q \in Player :
                 q \in SRem(f, keys, p)[k] <=> q \in f[k] /\ ~(q = p /\ k \in keys)
  BY DEF SRem

(***************************************************************************)
(* Type correctness.                                                       *)
(***************************************************************************)
LEMMA InitType == Init => TypeOK
  BY DEF Init, TypeOK

LEMMA MoveType ==
    ASSUME TypeOK, NEW h \in Handler, op[h] # None
    PROVE  /\ op[h] \in Move
           /\ op[h].player \in Player
  BY DEF TypeOK, Move

LEMMA RemovalType ==
    ASSUME TypeOK, NEW t \in Task, removal[t] # None
    PROVE  /\ removal[t] \in Removal
           /\ removal[t].proxy \in Proxy
           /\ removal[t].todo \subseteq Player
  BY DEF TypeOK, Removal

(***************************************************************************)
(* What the commands of a pipeline write into the record of the operation. *)
(***************************************************************************)
LEMMA NextCommand ==
    ASSUME NEW o \in Move, NEW n \in 0..5
    PROVE  [o EXCEPT !.done = n] \in Move
  BY DEF Move

LEMMA StageOnly ==
    ASSUME NEW r \in Removal,
           NEW stage \in {"lookup", "unlist", "index", "players", "hash", "server"}
    PROVE  [r EXCEPT !.stage = stage] \in Removal
  BY DEF Removal

LEMMA StageLookup ==
    ASSUME NEW r \in Removal, NEW lookup \in [Player -> SUBSET Server]
    PROVE  [r EXCEPT !.lookup = lookup, !.stage = "unlist"] \in Removal
  BY DEF Removal

LEMMA StageCurrent ==
    ASSUME NEW r \in Removal, NEW p \in Player
    PROVE  [r EXCEPT !.stage = "hash", !.current = p] \in Removal
  BY DEF Removal

LEMMA StageCleaned ==
    ASSUME NEW r \in Removal, NEW todo \in SUBSET Player
    PROVE  [r EXCEPT !.stage = "players", !.current = None, !.todo = todo] \in Removal
  BY DEF Removal

LEMMA UnregisterType ==
    ASSUME TypeOK, NEW t \in Task, NEW y \in Proxy, NEW x \in Proxy,
           UnregisterProxy(t, y, x)
    PROVE  /\ removal' \in [Task -> Removal \cup {None}]
           /\ disturbed' \subseteq Player
  BY DEF TypeOK, UnregisterProxy, Removal

LEMMA NextType == TypeOK /\ [Next]_vars => TypeOK'
<1> SUFFICES ASSUME TypeOK, [Next]_vars PROVE TypeOK'
  OBVIOUS
<1> USE DEF store, agents
<1>1. ASSUME NEW h \in Handler, NEW x \in Proxy, NEW p \in Player,
             PlayerDisconnect(h, x, p)
      PROVE  TypeOK'
  BY <1>1 DEF TypeOK, PlayerDisconnect, HasPosition, Move
<1>2. ASSUME NEW h \in Handler, NEW x \in Proxy, NEW p \in Player, NEW s \in Server,
             ServerPostConnect(h, x, p, s)
      PROVE  TypeOK'
  <2>1. TargetOf(x, s) \in Position
    BY DEF TargetOf, Position
  <2>2. op' \in [Handler -> Move \cup {None}]
    BY <1>2, <2>1 DEF TypeOK, ServerPostConnect, Move
  <2>3. disturbed' \subseteq Player
    BY <1>2 DEF TypeOK, ServerPostConnect
  <2>4. session' \in [Proxy -> [Player -> {"none", "joined", "playing"}]]
    BY <1>2 DEF TypeOK, ServerPostConnect
  <2>. QED BY <1>2, <2>2, <2>3, <2>4 DEF TypeOK, ServerPostConnect
<1>3. ASSUME NEW h \in Handler, SetPlayerPosition(h)
      PROVE  TypeOK'
  <2>1. /\ op[h] # None
        /\ op[h] \in Move
        /\ op[h].player \in Player
    BY <1>3, MoveType DEF SetPlayerPosition
  <2> DEFINE o == op[h]
  <2>2. op' \in [Handler -> Move \cup {None}]
    <3>1. o.done \in 0..5
      BY <2>1 DEF Move
    <3>2. ASSUME o.done # 5 PROVE [o EXCEPT !.done = o.done + 1] \in Move
      <4>1. o.done + 1 \in 0..5
        BY <3>1, <3>2
      <4>. QED BY <2>1, <4>1, NextCommand
    <3>. QED BY <1>3, <3>2 DEF TypeOK, SetPlayerPosition
  <2>3. /\ players' \subseteq Player
        /\ position' \in [Player -> Position \cup {None}]
    BY <1>3, <2>1 DEF TypeOK, SetPlayerPosition, Move
  <2>4. onProxy' \in [Proxy -> SUBSET Player]
    <3>1. onProxy \in [Proxy -> SUBSET Player]
      BY DEF TypeOK
    <3>2. \/ onProxy' = onProxy
          \/ onProxy' = SRem(onProxy, PreviousProxy(o), o.player)
          \/ onProxy' = SAdd(onProxy, ProxyOf(o.target), o.player)
      BY <1>3 DEF SetPlayerPosition
    <3>. QED BY <2>1, <3>1, <3>2, SAddFacts, SRemFacts
  <2>5. onServer' \in [Server -> SUBSET Player]
    <3>1. onServer \in [Server -> SUBSET Player]
      BY DEF TypeOK
    <3>2. \/ onServer' = onServer
          \/ onServer' = SRem(onServer, PreviousServer(o), o.player)
          \/ onServer' = SAdd(onServer, ServerOf(o.target), o.player)
      BY <1>3 DEF SetPlayerPosition
    <3>. QED BY <2>1, <3>1, <3>2, SAddFacts, SRemFacts
  <2>. QED BY <1>3, <2>2, <2>3, <2>4, <2>5 DEF TypeOK, SetPlayerPosition
<1>4. ASSUME NEW h \in Handler, UnsetPlayerPosition(h)
      PROVE  TypeOK'
  <2>1. /\ op[h] # None
        /\ op[h] \in Move
        /\ op[h].player \in Player
    BY <1>4, MoveType DEF UnsetPlayerPosition
  <2> DEFINE o == op[h]
  <2>2. op' \in [Handler -> Move \cup {None}]
    <3>1. o.done \in 0..3
      BY <1>4 DEF UnsetPlayerPosition
    <3>2. [o EXCEPT !.done = o.done + 1] \in Move
      <4>1. o.done + 1 \in 0..5
        BY <3>1
      <4>. QED BY <2>1, <4>1, NextCommand
    <3>. QED BY <1>4, <3>2 DEF TypeOK, UnsetPlayerPosition
  <2>3. /\ players' \subseteq Player
        /\ position' \in [Player -> Position \cup {None}]
    BY <1>4, <2>1 DEF TypeOK, UnsetPlayerPosition, Move
  <2>4. onProxy' \in [Proxy -> SUBSET Player]
    <3>1. onProxy \in [Proxy -> SUBSET Player]
      BY DEF TypeOK
    <3>2. \/ onProxy' = onProxy
          \/ onProxy' = SRem(onProxy, ProxyOf(o.prev), o.player)
      BY <1>4 DEF UnsetPlayerPosition
    <3>. QED BY <2>1, <3>1, <3>2, SRemFacts
  <2>5. onServer' \in [Server -> SUBSET Player]
    <3>1. onServer \in [Server -> SUBSET Player]
      BY DEF TypeOK
    <3>2. \/ onServer' = onServer
          \/ onServer' = SRem(onServer, ServerOf(o.prev), o.player)
      BY <1>4 DEF UnsetPlayerPosition
    <3>. QED BY <2>1, <3>1, <3>2, SRemFacts
  <2>. QED BY <1>4, <2>2, <2>3, <2>4, <2>5 DEF TypeOK, UnsetPlayerPosition
<1>5. ASSUME NEW t \in Task, LookupServers(t)
      PROVE  TypeOK'
  <2>1. \A p \in Player : ServerOf(position[p]) \in SUBSET Server
    BY DEF TypeOK, ServerOf, Position
  <2> DEFINE lookup == [p \in Player |-> IF p \in removal[t].todo
                                        THEN ServerOf(position[p]) ELSE {}]
  <2>2. lookup \in [Player -> SUBSET Server]
    BY <2>1
  <2>3. [removal[t] EXCEPT !.lookup = lookup, !.stage = "unlist"] \in Removal
    BY <1>5, <2>2, RemovalType, StageLookup DEF LookupServers
  <2>. QED BY <1>5, <2>3 DEF TypeOK, LookupServers
<1>6. ASSUME NEW t \in Task, UnlistProxy(t)
      PROVE  TypeOK'
  <2>1. [removal[t] EXCEPT !.stage = "index"] \in Removal
    BY <1>6, RemovalType, StageOnly DEF UnlistProxy
  <2>. QED BY <1>6, <2>1 DEF TypeOK, UnlistProxy
<1>7. ASSUME NEW t \in Task, DeleteProxyPlayers(t)
      PROVE  TypeOK'
  <2>1. [removal[t] EXCEPT !.stage = "players"] \in Removal
    BY <1>7, RemovalType, StageOnly DEF DeleteProxyPlayers
  <2>. QED BY <1>7, <2>1 DEF TypeOK, DeleteProxyPlayers
<1>8. ASSUME NEW t \in Task, NEW p \in Player, ForgetPlayer(t, p)
      PROVE  TypeOK'
  <2>1. [removal[t] EXCEPT !.stage = "hash", !.current = p] \in Removal
    BY <1>8, RemovalType, StageCurrent DEF ForgetPlayer
  <2>. QED BY <1>8, <2>1 DEF TypeOK, ForgetPlayer
<1>9. ASSUME NEW t \in Task, DeletePosition(t)
      PROVE  TypeOK'
  <2>1. [removal[t] EXCEPT !.stage = "server"] \in Removal
    BY <1>9, RemovalType, StageOnly DEF DeletePosition
  <2>. QED BY <1>9, <2>1, RemovalType DEF TypeOK, DeletePosition
<1>10. ASSUME NEW t \in Task, LeaveServer(t)
       PROVE  TypeOK'
  <2>1. onServer' \in [Server -> SUBSET Player]
    BY <1>10 DEF TypeOK, LeaveServer, SRem
  <2>2. removal' \in [Task -> Removal \cup {None}]
    <3> DEFINE left == removal[t].todo \ {removal[t].current}
    <3>1. [removal[t] EXCEPT !.stage = "players", !.current = None, !.todo = left]
             \in Removal
      BY <1>10, RemovalType, StageCleaned DEF LeaveServer
    <3>. QED BY <1>10, <3>1 DEF TypeOK, LeaveServer
  <2>. QED BY <1>10, <2>1, <2>2 DEF TypeOK, LeaveServer
<1>11. ASSUME NEW t \in Task, UnregisterProxyReturns(t)
       PROVE  TypeOK'
  BY <1>11 DEF TypeOK, UnregisterProxyReturns
<1>12. ASSUME NEW t \in Task, NEW x \in Proxy, Shutdown(t, x)
       PROVE  TypeOK'
  <2>1. UnregisterProxy(t, x, x)
    BY <1>12 DEF Shutdown
  <2>. QED BY <1>12, <2>1, UnregisterType DEF TypeOK, Shutdown
<1>13. ASSUME NEW t \in Task, NEW x \in Proxy, NEW y \in Proxy, PurgeLostProxy(t, y, x)
       PROVE  TypeOK'
  <2>1. UnregisterProxy(t, y, x)
    BY <1>13 DEF PurgeLostProxy
  <2>. QED BY <1>13, <2>1, UnregisterType DEF TypeOK, PurgeLostProxy
<1>14. ASSUME NEW s \in Server, UnregisterServer(s)
       PROVE  TypeOK'
  BY <1>14 DEF TypeOK, UnregisterServer
<1>15. ASSUME NEW x \in Proxy,
              RegisterProxy(x) \/ MissHeartbeats(x) \/ UpdateProxyLastSeen(x)
       PROVE  TypeOK'
  BY <1>15 DEF TypeOK, RegisterProxy, MissHeartbeats, UpdateProxyLastSeen
<1>16. ASSUME NEW x \in Proxy, Crash(x) \/ ShutdownReturns(x)
       PROVE  TypeOK'
  <2>1. ProcessEnds(x)
    BY <1>16 DEF Crash, ShutdownReturns
  <2>. QED BY <2>1 DEF TypeOK, ProcessEnds
<1>17. ASSUME NEW x \in Proxy, NEW p \in Player, PlayerLogin(x, p) \/ ConnectionEnds(x, p)
       PROVE  TypeOK'
  <2>1. session' \in [Proxy -> [Player -> {"none", "joined", "playing"}]]
    <3>1. \E v \in {"none", "joined"} : session' = [session EXCEPT ![x][p] = v]
      BY <1>17 DEF PlayerLogin, ConnectionEnds
    <3>. QED BY <3>1 DEF TypeOK
  <2>2. closing' \subseteq Proxy \X Player
    BY <1>17 DEF TypeOK, PlayerLogin, ConnectionEnds
  <2>. QED BY <1>17, <2>1, <2>2 DEF TypeOK, PlayerLogin, ConnectionEnds
<1>18. CASE UNCHANGED vars
  BY <1>18 DEF TypeOK, vars
<1>. QED
  BY <1>1, <1>2, <1>3, <1>4, <1>5, <1>6, <1>7, <1>8, <1>9, <1>10, <1>11, <1>12,
     <1>13, <1>14, <1>15, <1>16, <1>17, <1>18 DEF Next, HandlerStep, TaskStep

(***************************************************************************)
(* Every variable keeps its type.                                          *)
(***************************************************************************)
THEOREM TypeCorrect == Spec => []TypeOK
  BY InitType, NextType, PTL DEF Spec

(***************************************************************************)
(* RegistryInv is inductive: nothing unregisters a live proxy that misses  *)
(* no heartbeat, except its own shutdown.                                  *)
(***************************************************************************)
LEMMA RegistryInit == Init => RegistryInv
  BY DEF Init, RegistryInv, Unregistering

LEMMA RegistrySame ==
    ASSUME RegistryInv, UNCHANGED <<proxies, stale, life>>,
           \A x \in Proxy : Unregistering(x)' => Unregistering(x)
    PROVE  RegistryInv'
  BY DEF RegistryInv

LEMMA RegistryUnregister ==
    ASSUME TypeOK, RegistryInv, NEW t \in Task, NEW y \in Proxy, NEW x \in Proxy,
           UnregisterProxy(t, y, x), UNCHANGED <<proxies, stale>>,
           \A z \in Proxy : life'[z] # life[z] => z = x /\ life'[z] \notin {"new", "up"},
           x \in Laggard \/ life'[x] \notin {"new", "up"}
    PROVE  RegistryInv'
<1>1. /\ removal'[t].proxy = x
      /\ \A u \in Task \ {t} : removal'[u] = removal[u]
  BY DEF UnregisterProxy, TypeOK
<1>2. \A z \in Proxy \ {x} : Unregistering(z)' => Unregistering(z)
  BY <1>1 DEF Unregistering
<1>. QED BY <1>2 DEF RegistryInv

LEMMA RegistryNext == TypeOK /\ RegistryInv /\ [Next]_vars => RegistryInv'
<1> SUFFICES ASSUME TypeOK, RegistryInv, [Next]_vars PROVE RegistryInv'
  OBVIOUS
<1>1. ASSUME NEW h \in Handler, NEW x \in Proxy, NEW p \in Player,
             PlayerDisconnect(h, x, p)
      PROVE  RegistryInv'
  BY <1>1, RegistrySame DEF PlayerDisconnect, Unregistering
<1>2. ASSUME NEW h \in Handler, NEW x \in Proxy, NEW p \in Player, NEW s \in Server,
             ServerPostConnect(h, x, p, s)
      PROVE  RegistryInv'
  BY <1>2, RegistrySame DEF ServerPostConnect, Unregistering
<1>3. ASSUME NEW h \in Handler, HandlerStep(h)
      PROVE  RegistryInv'
  BY <1>3, RegistrySame
     DEF HandlerStep, SetPlayerPosition, UnsetPlayerPosition, agents, Unregistering
<1>4. ASSUME NEW t \in Task,
             \/ LookupServers(t) \/ DeleteProxyPlayers(t)
             \/ \E p \in Player : ForgetPlayer(t, p)
             \/ DeletePosition(t) \/ LeaveServer(t) \/ UnregisterProxyReturns(t)
      PROVE  RegistryInv'
  <2>1. UNCHANGED <<proxies, stale, life>> /\ removal[t] # None
    BY <1>4 DEF LookupServers, DeleteProxyPlayers, ForgetPlayer, DeletePosition, LeaveServer,
                UnregisterProxyReturns, agents
  <2>2. \A u \in Task \ {t} : removal'[u] = removal[u]
    BY <1>4 DEF LookupServers, DeleteProxyPlayers, ForgetPlayer, DeletePosition, LeaveServer,
                UnregisterProxyReturns, TypeOK
  <2>3. removal'[t] # None => removal'[t].proxy = removal[t].proxy
    <3>1. removal[t] \in Removal
      BY <2>1, RemovalType
    <3>. QED BY <1>4, <3>1
         DEF LookupServers, DeleteProxyPlayers, ForgetPlayer, DeletePosition, LeaveServer,
             UnregisterProxyReturns, TypeOK, Removal
  <2>. QED BY <2>1, <2>2, <2>3, RegistrySame DEF Unregistering
<1>5. ASSUME NEW t \in Task, UnlistProxy(t)
      PROVE  RegistryInv'
  <2>1. /\ removal[t] # None /\ life' = life
        /\ proxies' = proxies \ {removal[t].proxy} /\ stale' \subseteq stale
    BY <1>5 DEF UnlistProxy, agents
  <2>2. \A x \in Proxy : Unregistering(x)' => Unregistering(x)
    <3>1. removal[t] \in Removal
      BY <2>1, RemovalType
    <3>2. /\ \A u \in Task \ {t} : removal'[u] = removal[u]
          /\ removal'[t].proxy = removal[t].proxy
      BY <1>5, <3>1 DEF UnlistProxy, TypeOK, Removal
    <3>. QED BY <2>1, <3>2 DEF Unregistering
  <2>3. \A x \in Proxy : x = removal[t].proxy => Unregistering(x)
    BY <2>1 DEF Unregistering
  <2>. QED BY <2>1, <2>2, <2>3 DEF RegistryInv
<1>6. ASSUME NEW t \in Task, NEW x \in Proxy, Shutdown(t, x)
      PROVE  RegistryInv'
  <2>1. /\ UnregisterProxy(t, x, x) /\ UNCHANGED <<proxies, stale>>
        /\ \A z \in Proxy : life'[z] = IF z = x THEN "stopping" ELSE life[z]
    BY <1>6 DEF Shutdown, TypeOK
  <2>. QED BY <2>1, RegistryUnregister
<1>7. ASSUME NEW t \in Task, NEW x \in Proxy, NEW y \in Proxy, PurgeLostProxy(t, y, x)
      PROVE  RegistryInv'
  <2>1. /\ UnregisterProxy(t, y, x) /\ UNCHANGED <<proxies, stale>> /\ life' = life
        /\ x \in stale
    BY <1>7 DEF PurgeLostProxy, LostProxies, agents
  <2>2. x \in Laggard \/ life[x] \notin {"new", "up"}
    BY <2>1 DEF RegistryInv
  <2>. QED BY <2>1, <2>2, RegistryUnregister
<1>8. ASSUME NEW s \in Server, UnregisterServer(s)
      PROVE  RegistryInv'
  BY <1>8, RegistrySame DEF UnregisterServer, agents, Unregistering
<1>9. ASSUME NEW x \in Proxy,
             RegisterProxy(x) \/ MissHeartbeats(x) \/ UpdateProxyLastSeen(x)
      PROVE  RegistryInv'
  <2>1. \A z \in Proxy : Unregistering(z)' => Unregistering(z)
    BY <1>9 DEF RegisterProxy, MissHeartbeats, UpdateProxyLastSeen, Unregistering
  <2>2. CASE RegisterProxy(x)
    BY <2>1, <2>2 DEF RegisterProxy, RegistryInv, TypeOK
  <2>3. CASE MissHeartbeats(x)
    BY <2>1, <2>3 DEF MissHeartbeats, RegistryInv, agents
  <2>4. CASE UpdateProxyLastSeen(x)
    BY <2>1, <2>4 DEF UpdateProxyLastSeen, RegistryInv, agents
  <2>. QED BY <1>9, <2>2, <2>3, <2>4
<1>10. ASSUME NEW x \in Proxy, Crash(x) \/ ShutdownReturns(x)
       PROVE  RegistryInv'
  <2>1. /\ UNCHANGED <<proxies, stale>>
        /\ \A z \in Proxy : life'[z] = IF z = x THEN "down" ELSE life[z]
        /\ \A t \in Task : removal'[t] = None \/ removal'[t] = removal[t]
    BY <1>10 DEF Crash, ShutdownReturns, ProcessEnds, TypeOK
  <2>2. \A z \in Proxy : Unregistering(z)' => Unregistering(z)
    BY <2>1 DEF Unregistering
  <2>. QED BY <2>1, <2>2 DEF RegistryInv
<1>11. ASSUME NEW x \in Proxy, NEW p \in Player, PlayerLogin(x, p) \/ ConnectionEnds(x, p)
       PROVE  RegistryInv'
  BY <1>11, RegistrySame DEF PlayerLogin, ConnectionEnds, Unregistering
<1>12. CASE UNCHANGED vars
  BY <1>12, RegistrySame DEF vars, Unregistering
<1>. QED
  BY <1>1, <1>2, <1>3, <1>4, <1>5, <1>6, <1>7, <1>8, <1>9, <1>10, <1>11, <1>12
     DEF Next, TaskStep

(***************************************************************************)
(* A live proxy whose heartbeats arrive is in the registry, whatever the   *)
(* other proxies crash, purge or shut down.                                *)
(***************************************************************************)
THEOREM HealthyProxyListed == Spec => []HealthyProxyStaysListed
<1>1. RegistryInv => HealthyProxyStaysListed
  BY DEF RegistryInv, HealthyProxyStaysListed
<1>. QED BY InitType, NextType, RegistryInit, RegistryNext, <1>1, PTL DEF Spec

(***************************************************************************)
(* IndexInv is inductive, so the reverse index is exact.                   *)
(*                                                                         *)
(* A step changes the keys of at most one player.  Every other player is   *)
(* covered by SamePlayer below: a step that leaves alone a player's keys,  *)
(* the operations that concern it and the stages of the removals it is not *)
(* part of keeps the player's part of the invariant.                       *)
(***************************************************************************)
SameKeys(p) ==
    /\ p \in players' <=> p \in players
    /\ position'[p] = position[p]
    /\ \A x \in Proxy : p \in onProxy'[x] <=> p \in onProxy[x]
    /\ \A s \in Server : p \in onServer'[s] <=> p \in onServer[s]

About(o, p) == o # None /\ o.player = p
SameOps(p) ==
    \A h \in Handler : op'[h] = op[h] \/ (~About(op[h], p) /\ ~About(op'[h], p))

\* The removal is over for `p`, or goes on without it.
Aside(r, s, p) ==
    \/ s = None /\ (r = None \/ p \notin r.todo)
    \/ /\ r # None /\ s # None
       /\ s.proxy = r.proxy
       /\ p \notin r.todo /\ p \notin s.todo
       /\ s.stage \in BeforeIndex => r.stage \in BeforeIndex
SameRemovals(p) ==
    \A t \in Task : removal'[t] = removal[t] \/ Aside(removal[t], removal'[t], p)

LEMMA SamePlayer ==
    ASSUME TypeOK, NEW p \in Player, Alone(p), Views(p),
           SameKeys(p), SameOps(p), SameRemovals(p), dropped' = dropped
    PROVE  Alone(p)' /\ Views(p)'
<1>1. /\ \A h \in Handler : About(op'[h], p) => op'[h] = op[h]
      /\ \A h \in Handler : About(op[h], p) => op'[h] = op[h]
  BY DEF SameOps
<1>2. /\ \A t \in Task : removal'[t] # None /\ p \in removal'[t].todo =>
                            removal'[t] = removal[t]
      /\ \A t \in Task : removal[t] # None /\ p \in removal[t].todo =>
                            removal'[t] = removal[t]
      /\ \A t \in Task : removal'[t] # None =>
                            /\ removal[t] # None
                            /\ removal'[t].proxy = removal[t].proxy
                            /\ p \notin removal'[t].todo => p \notin removal[t].todo
                            /\ removal'[t].stage \in BeforeIndex =>
                                  removal[t].stage \in BeforeIndex
  BY DEF SameRemovals, Aside
<1>3. Consistent(p)' <=> Consistent(p)
  BY DEF SameKeys, Consistent
<1>4. InFlight(p)' <=> InFlight(p)
  BY <1>1, <1>2 DEF InFlight, Moving, Removing, About
<1>5. Alone(p)'
  BY <1>1, <1>2 DEF Alone, About
<1>6. Views(p)'
  <2>1. ASSUME NEW h \in Handler, op'[h] # None, op'[h].player = p
        PROVE  (IF op[h].kind = "set" THEN SetView(op[h], p) ELSE UnsetView(op[h], p))'
    <3>1. /\ op'[h] = op[h]
          /\ IF op[h].kind = "set" THEN SetView(op[h], p) ELSE UnsetView(op[h], p)
      BY <1>1, <2>1 DEF Views, About
    <3>. QED BY <3>1 DEF SameKeys, SetView, UnsetView
  <2>2. ASSUME NEW t \in Task, removal'[t] # None, p \in removal'[t].todo
        PROVE  RemovalView(removal[t], p)'
    <3>1. /\ removal'[t] = removal[t]
          /\ RemovalView(removal[t], p)
      BY <1>2, <2>2 DEF Views
    <3>. QED BY <1>3, <3>1 DEF SameKeys, RemovalView
  <2>3. ASSUME NEW t \in Task, removal'[t] # None, p \notin removal'[t].todo,
               removal'[t].stage \in BeforeIndex
        PROVE  p \notin onProxy'[removal'[t].proxy]
    <3>1. p \notin onProxy[removal[t].proxy]
      BY <1>2, <2>3 DEF Views
    <3>2. removal'[t].proxy = removal[t].proxy /\ removal[t].proxy \in Proxy
      BY <1>2, <2>3, RemovalType
    <3>. QED BY <3>1, <3>2 DEF SameKeys
  <2>4. ~InFlight(p)' => Consistent(p)'
    BY <1>3, <1>4 DEF Views
  <2>. QED BY <2>1, <2>2, <2>3, <2>4 DEF Views, BeforeIndex
<1>. QED BY <1>5, <1>6

(***************************************************************************)
(* The six commands of setPlayerPosition.                                  *)
(***************************************************************************)
LEMMA SetStep ==
    ASSUME TypeOK, IndexInv, NEW h \in Handler, SetPlayerPosition(h)
    PROVE  IndexInv'
<1> DEFINE o == op[h]
<1>0. PICK p \in Player : p = op[h].player
  BY MoveType DEF SetPlayerPosition
<1>1. /\ o # None /\ o \in Move /\ p \in Player /\ p = o.player
      /\ o.kind = "set" /\ o.done \in 0..5 /\ o.target # None
  <2>1. o # None /\ o.kind = "set"
    BY DEF SetPlayerPosition
  <2>2. o \in Move /\ p \in Player /\ o.done \in 0..5
    BY <2>1, <1>0, MoveType DEF Move
  <2>. QED BY <1>0, <2>1, <2>2 DEF IndexInv, OpsOK
<1>2. /\ \A g \in Handler \ {h} : op'[g] = op[g]
      /\ o.done = 5 => op'[h] = None
      /\ o.done # 5 => /\ op'[h] # None
                       /\ op'[h].kind = "set" /\ op'[h].player = p
                       /\ op'[h].prev = o.prev /\ op'[h].target = o.target
                       /\ op'[h].done = o.done + 1
  <2>1. op' = [op EXCEPT ![h] = IF o.done = 5 THEN None
                                ELSE [o EXCEPT !.done = o.done + 1]]
    BY DEF SetPlayerPosition
  <2>2. ASSUME o.done # 5
        PROVE  LET n == [o EXCEPT !.done = o.done + 1]
               IN  /\ n \in Move /\ n # None
                   /\ n.kind = o.kind /\ n.player = o.player /\ n.prev = o.prev
                   /\ n.target = o.target /\ n.done = o.done + 1
    <3>1. o.done + 1 \in 0..5
      BY <1>1, <2>2
    <3>2. [o EXCEPT !.done = o.done + 1] \in Move
      BY <1>1, <3>1, NextCommand
    <3>3. [o EXCEPT !.done = o.done + 1] # None
      BY <3>2, NoneAssumption
    <3>. QED BY <1>1, <3>2, <3>3 DEF Move
  <2>. QED BY <1>1, <2>1, <2>2 DEF TypeOK
<1>3. /\ removal' = removal /\ disturbed' = disturbed /\ dropped' = dropped
  BY DEF SetPlayerPosition
<1>4. \A q \in Player :
        /\ q \in players' <=> q \in players \/ (q = p /\ o.done = 0)
        /\ position'[q] = IF q = p /\ o.done = 1 THEN o.target ELSE position[q]
  BY <1>1 DEF SetPlayerPosition, TypeOK
<1>5. \A q \in Player, x \in Proxy :
        q \in onProxy'[x] <=>
          IF q = p /\ o.done = 2 /\ x \in PreviousProxy(o) THEN FALSE
          ELSE q \in onProxy[x] \/ (q = p /\ o.done = 3 /\ x \in ProxyOf(o.target))
  <2>1. onProxy \in [Proxy -> SUBSET Player]
    BY DEF TypeOK
  <2>2. CASE o.done = 2
    BY <1>1, <2>1, <2>2, SRemFacts DEF SetPlayerPosition
  <2>3. CASE o.done = 3
    BY <1>1, <2>1, <2>3, SAddFacts DEF SetPlayerPosition
  <2>4. CASE o.done \notin {2, 3}
    BY <2>4 DEF SetPlayerPosition
  <2>. QED BY <2>2, <2>3, <2>4
<1>6. \A q \in Player, s \in Server :
        q \in onServer'[s] <=>
          IF q = p /\ o.done = 4 /\ s \in PreviousServer(o) THEN FALSE
          ELSE q \in onServer[s] \/ (q = p /\ o.done = 5 /\ s \in ServerOf(o.target))
  <2>1. onServer \in [Server -> SUBSET Player]
    BY DEF TypeOK
  <2>2. CASE o.done = 4
    BY <1>1, <2>1, <2>2, SRemFacts DEF SetPlayerPosition
  <2>3. CASE o.done = 5
    BY <1>1, <2>1, <2>3, SAddFacts DEF SetPlayerPosition
  <2>4. CASE o.done \notin {4, 5}
    BY <2>4 DEF SetPlayerPosition
  <2>. QED BY <2>2, <2>3, <2>4
<1>7. OpsOK'
  BY <1>1, <1>2, <1>3 DEF IndexInv, OpsOK
<1>8. ASSUME NEW q \in Player \ disturbed, q # p
      PROVE  Alone(q)' /\ Views(q)'
  <2>1. Alone(q) /\ Views(q)
    BY DEF IndexInv
  <2>2. SameKeys(q)
    BY <1>4, <1>5, <1>6, <1>8 DEF SameKeys
  <2>3. SameOps(q) /\ SameRemovals(q)
    BY <1>1, <1>2, <1>3, <1>8 DEF SameOps, SameRemovals, About
  <2>. QED BY <1>3, <2>1, <2>2, <2>3, SamePlayer
<1>9. ASSUME p \notin disturbed
      PROVE  Alone(p)' /\ Views(p)'
  <2>1. Alone(p) /\ SetView(o, p)
    BY <1>1, <1>9 DEF IndexInv, Views
  <2>2. Alone(p)'
    BY <1>1, <1>2, <1>3, <2>1 DEF Alone
  <2>3. ASSUME NEW t \in Task, removal'[t] # None
        PROVE  /\ p \notin removal'[t].todo
               /\ removal'[t].stage \in BeforeIndex => p \notin onProxy'[removal'[t].proxy]
    <3>1. /\ p \notin removal[t].todo
          /\ removal[t].proxy \notin ProxyOf(o.target)
          /\ removal[t].proxy \in Proxy
      BY <1>1, <1>3, <2>1, <2>3, RemovalType DEF Alone
    <3>2. removal[t].stage \in BeforeIndex => p \notin onProxy[removal[t].proxy]
      BY <1>1, <1>3, <1>9, <2>3, <3>1 DEF IndexInv, Views
    <3>. QED BY <1>1, <1>3, <1>5, <3>1, <3>2
  <2>4. \A g \in Handler : g # h /\ op'[g] # None => op'[g].player # p
    BY <1>1, <1>2, <2>1 DEF Alone
  <2>5. CASE o.done # 5
    <3>1. SetView(op[h], p)'
      <4>1. (p \in players <=> op[h].done > 0 \/ op[h].prev # None)'
        BY <1>1, <1>2, <1>4, <2>1, <2>5 DEF SetView
      <4>2. (position[p] = IF op[h].done > 1 THEN op[h].target ELSE op[h].prev)'
        BY <1>1, <1>2, <1>4, <2>1, <2>5 DEF SetView
      <4>3. (\A x \in Proxy : p \in onProxy[x] <=>
               \/ x \in ProxyOf(op[h].prev) /\ (op[h].done <= 2 \/ x \in ProxyOf(op[h].target))
               \/ x \in ProxyOf(op[h].target) /\ op[h].done > 3)'
        BY <1>1, <1>2, <1>5, <2>1, <2>5 DEF SetView, PreviousProxy, ProxyOf
      <4>4. ASSUME NEW s \in Server
            PROVE  LET kept == s \in ServerOf(op[h].prev)
                               /\ (op[h].done <= 4 \/ s \in ServerOf(op[h].target))
                   IN  /\ (p \in onServer[s] => kept)'
                       /\ (kept /\ s \notin dropped => p \in onServer[s])'
        BY <1>1, <1>2, <1>3, <1>6, <2>1, <2>5 DEF SetView, PreviousServer, ServerOf
      <4>. QED BY <4>1, <4>2, <4>3, <4>4 DEF SetView
    <3>2. InFlight(p)'
      BY <1>1, <1>2, <2>5 DEF InFlight, Moving
    <3>3. \A g \in Handler : op'[g] # None /\ op'[g].player = p => g = h /\ op'[g].kind = "set"
      BY <1>1, <1>2, <2>4, <2>5
    <3>4. \A g \in Handler : op'[g] # None /\ op'[g].player = p =>
             (IF op[g].kind = "set" THEN SetView(op[g], p) ELSE UnsetView(op[g], p))'
      BY <3>1, <3>3
    <3>. QED BY <2>2, <2>3, <3>2, <3>4 DEF Views
  <2>6. CASE o.done = 5
    <3>1. Consistent(p)'
      <4>1. (p \in players <=> position[p] # None)'
        BY <1>1, <1>4, <2>1, <2>6 DEF SetView
      <4>2. (\A x \in Proxy : p \in onProxy[x] <=> x \in ProxyOf(position[p]))'
        BY <1>1, <1>4, <1>5, <2>1, <2>6 DEF SetView, ProxyOf
      <4>3. (\A s \in Server : /\ p \in onServer[s] => s \in ServerOf(position[p])
                               /\ s \in ServerOf(position[p]) \ dropped => p \in onServer[s])'
        BY <1>1, <1>3, <1>4, <1>6, <2>1, <2>6 DEF SetView, ServerOf
      <4>. QED BY <4>1, <4>2, <4>3 DEF Consistent
    <3>2. \A g \in Handler : op'[g] # None => op'[g].player # p
      BY <1>2, <2>4, <2>6
    <3>. QED BY <2>2, <2>3, <3>1, <3>2 DEF Views
  <2>. QED BY <2>5, <2>6
<1>. QED BY <1>3, <1>7, <1>8, <1>9 DEF IndexInv

(***************************************************************************)
(* The four commands of unsetPlayerPosition.                               *)
(***************************************************************************)
LEMMA UnsetStep ==
    ASSUME TypeOK, IndexInv, NEW h \in Handler, UnsetPlayerPosition(h)
    PROVE  IndexInv'
<1> DEFINE o == op[h]
<1>0. PICK p \in Player : p = op[h].player
  BY MoveType DEF UnsetPlayerPosition
<1>1. /\ o # None /\ o \in Move /\ p = o.player
      /\ o.kind = "unset" /\ o.done \in 0..3 /\ o.target = None /\ o.prev # None
  <2>1. o # None /\ o.kind = "unset" /\ o.done \in 0..3
    BY DEF UnsetPlayerPosition
  <2>2. o \in Move
    BY <2>1, MoveType
  <2>. QED BY <1>0, <2>1, <2>2 DEF IndexInv, OpsOK
<1>2. /\ \A g \in Handler \ {h} : op'[g] = op[g]
      /\ o.done = 3 => op'[h] = None
      /\ o.done # 3 => /\ op'[h] # None
                       /\ op'[h].kind = "unset" /\ op'[h].player = p
                       /\ op'[h].prev = o.prev /\ op'[h].target = o.target
                       /\ op'[h].done = o.done + 1
  <2>1. op' = [op EXCEPT ![h] = IF o.done = 3 THEN None
                                ELSE [o EXCEPT !.done = o.done + 1]]
    BY DEF UnsetPlayerPosition
  <2>2. LET n == [o EXCEPT !.done = o.done + 1]
        IN  /\ n \in Move /\ n # None
            /\ n.kind = o.kind /\ n.player = o.player /\ n.prev = o.prev
            /\ n.target = o.target /\ n.done = o.done + 1
    <3>1. o.done + 1 \in 0..5
      BY <1>1
    <3>2. [o EXCEPT !.done = o.done + 1] \in Move
      BY <1>1, <3>1, NextCommand
    <3>3. [o EXCEPT !.done = o.done + 1] # None
      BY <3>2, NoneAssumption
    <3>. QED BY <1>1, <3>2, <3>3 DEF Move
  <2>. QED BY <1>1, <2>1, <2>2 DEF TypeOK
<1>3. /\ removal' = removal /\ disturbed' = disturbed /\ dropped' = dropped
  BY DEF UnsetPlayerPosition
<1>4. \A q \in Player :
        /\ q \in players' <=> q \in players /\ ~(q = p /\ o.done = 0)
        /\ position'[q] = IF q = p /\ o.done = 1 THEN None ELSE position[q]
  BY <1>1 DEF UnsetPlayerPosition, TypeOK
<1>5. \A q \in Player, x \in Proxy :
        q \in onProxy'[x] <=>
          q \in onProxy[x] /\ ~(q = p /\ o.done = 2 /\ x \in ProxyOf(o.prev))
  <2>1. onProxy \in [Proxy -> SUBSET Player]
    BY DEF TypeOK
  <2>2. CASE o.done = 2
    BY <1>1, <2>1, <2>2, SRemFacts DEF UnsetPlayerPosition
  <2>3. CASE o.done # 2
    BY <2>3 DEF UnsetPlayerPosition
  <2>. QED BY <2>2, <2>3
<1>6. \A q \in Player, s \in Server :
        q \in onServer'[s] <=>
          q \in onServer[s] /\ ~(q = p /\ o.done = 3 /\ s \in ServerOf(o.prev))
  <2>1. onServer \in [Server -> SUBSET Player]
    BY DEF TypeOK
  <2>2. CASE o.done = 3
    BY <1>1, <2>1, <2>2, SRemFacts DEF UnsetPlayerPosition
  <2>3. CASE o.done # 3
    BY <2>3 DEF UnsetPlayerPosition
  <2>. QED BY <2>2, <2>3
<1>7. OpsOK'
  BY <1>1, <1>2, <1>3 DEF IndexInv, OpsOK
<1>8. ASSUME NEW q \in Player \ disturbed, q # p
      PROVE  Alone(q)' /\ Views(q)'
  <2>1. Alone(q) /\ Views(q)
    BY DEF IndexInv
  <2>2. SameKeys(q)
    BY <1>4, <1>5, <1>6, <1>8 DEF SameKeys
  <2>3. SameOps(q) /\ SameRemovals(q)
    BY <1>1, <1>2, <1>3, <1>8 DEF SameOps, SameRemovals, About
  <2>. QED BY <1>3, <2>1, <2>2, <2>3, SamePlayer
<1>9. ASSUME p \notin disturbed
      PROVE  Alone(p)' /\ Views(p)'
  <2>1. Alone(p) /\ UnsetView(o, p)
    BY <1>1, <1>9 DEF IndexInv, Views
  <2>2. Alone(p)'
    BY <1>1, <1>2, <1>3, <2>1 DEF Alone
  <2>3. ASSUME NEW t \in Task, removal'[t] # None
        PROVE  /\ p \notin removal'[t].todo
               /\ removal'[t].stage \in BeforeIndex => p \notin onProxy'[removal'[t].proxy]
    <3>1. p \notin removal[t].todo /\ removal[t].proxy \in Proxy
      BY <1>1, <1>3, <2>1, <2>3, RemovalType DEF Alone
    <3>2. removal[t].stage \in BeforeIndex => p \notin onProxy[removal[t].proxy]
      BY <1>1, <1>3, <1>9, <2>3, <3>1 DEF IndexInv, Views
    <3>. QED BY <1>1, <1>3, <1>5, <3>1, <3>2
  <2>4. \A g \in Handler : g # h /\ op'[g] # None => op'[g].player # p
    BY <1>1, <1>2, <2>1 DEF Alone
  <2>5. CASE o.done # 3
    <3>1. UnsetView(op[h], p)'
      BY <1>1, <1>2, <1>3, <1>4, <1>5, <1>6, <2>1, <2>5 DEF UnsetView
    <3>2. InFlight(p)'
      BY <1>1, <1>2, <2>5 DEF InFlight, Moving
    <3>3. \A g \in Handler : op'[g] # None /\ op'[g].player = p =>
                                 g = h /\ op'[g].kind = "unset"
      BY <1>1, <1>2, <2>4, <2>5
    <3>4. \A g \in Handler : op'[g] # None /\ op'[g].player = p =>
             (IF op[g].kind = "set" THEN SetView(op[g], p) ELSE UnsetView(op[g], p))'
      BY <3>1, <3>3
    <3>. QED BY <2>2, <2>3, <3>2, <3>4 DEF Views
  <2>6. CASE o.done = 3
    <3>1. Consistent(p)'
      BY <1>1, <1>3, <1>4, <1>5, <1>6, <2>1, <2>6
         DEF UnsetView, Consistent, ServerOf, ProxyOf
    <3>2. \A g \in Handler : op'[g] # None => op'[g].player # p
      BY <1>2, <2>4, <2>6
    <3>. QED BY <2>2, <2>3, <3>1, <3>2 DEF Views
  <2>. QED BY <2>5, <2>6
<1>. QED BY <1>3, <1>7, <1>8, <1>9 DEF IndexInv

(***************************************************************************)
(* Steps that touch neither the players' keys nor the operations.          *)
(***************************************************************************)
LEMMA IdleStep ==
    ASSUME TypeOK, IndexInv, UNCHANGED <<store, op, removal, disturbed, dropped>>
    PROVE  IndexInv'
<1>1. OpsOK'
  BY DEF IndexInv, OpsOK
<1>2. ASSUME NEW q \in Player \ disturbed
      PROVE  Alone(q)' /\ Views(q)'
  <2>1. Alone(q) /\ Views(q)
    BY DEF IndexInv
  <2>2. SameKeys(q) /\ SameOps(q) /\ SameRemovals(q) /\ dropped' = dropped
    BY DEF store, SameKeys, SameOps, SameRemovals
  <2>. QED BY <2>1, <2>2, SamePlayer
<1>. QED BY <1>1, <1>2 DEF IndexInv

(***************************************************************************)
(* The two reads that start an operation of a player.                      *)
(***************************************************************************)
LEMMA ServerPostConnectStep ==
    ASSUME TypeOK, IndexInv, NEW h \in Handler, NEW x \in Proxy, NEW p \in Player,
           NEW s \in Server, ServerPostConnect(h, x, p, s)
    PROVE  IndexInv'
<1>1. /\ UNCHANGED store /\ removal' = removal /\ dropped' = dropped
      /\ disturbed \subseteq disturbed' /\ op[h] = None
  BY DEF ServerPostConnect
<1>2. TargetOf(x, s) \in Position /\ TargetOf(x, s) # None
      /\ ProxyOf(TargetOf(x, s)) = {x}
  BY NoneAssumption DEF TargetOf, Position, ProxyOf
<1>3. /\ \A g \in Handler \ {h} : op'[g] = op[g]
      /\ op'[h] # None /\ op'[h].kind = "set" /\ op'[h].player = p
      /\ op'[h].prev = position[p] /\ op'[h].target = TargetOf(x, s) /\ op'[h].done = 0
  <2> DEFINE n == [kind |-> "set", by |-> x, player |-> p, prev |-> position[p],
                   target |-> TargetOf(x, s), done |-> 0]
  <2>1. n \in Move
    BY <1>2 DEF Move, TypeOK
  <2>2. n # None
    BY <2>1, NoneAssumption
  <2>3. op' = [op EXCEPT ![h] = n]
    BY DEF ServerPostConnect
  <2>. QED BY <2>2, <2>3 DEF TypeOK
<1>4. OpsOK'
  BY <1>1, <1>2, <1>3 DEF IndexInv, OpsOK
<1>5. ASSUME NEW q \in Player \ disturbed, q # p
      PROVE  Alone(q)' /\ Views(q)'
  <2>1. Alone(q) /\ Views(q)
    BY DEF IndexInv
  <2>2. SameKeys(q)
    BY <1>1 DEF SameKeys, store
  <2>3. SameOps(q) /\ SameRemovals(q)
    BY <1>1, <1>3, <1>5 DEF SameOps, SameRemovals, About
  <2>. QED BY <1>1, <2>1, <2>2, <2>3, SamePlayer
<1>6. ASSUME p \notin disturbed'
      PROVE  Alone(p)' /\ Views(p)'
  <2>1. ~InFlight(p) /\ ~Unregistering(x)
    BY <1>6 DEF ServerPostConnect
  <2>2. Consistent(p) /\ Views(p)
    BY <1>1, <1>6, <2>1 DEF IndexInv, Views
  <2>3. /\ \A g \in Handler : op[g] # None => op[g].player # p
        /\ \A t \in Task : removal[t] # None =>
                             p \notin removal[t].todo /\ removal[t].proxy # x
    BY <2>1 DEF InFlight, Moving, Removing, Unregistering
  <2>4. Alone(p)'
    BY <1>1, <1>2, <1>3, <2>3 DEF Alone
  <2>5. SetView(op[h], p)'
    BY <1>1, <1>2, <1>3, <2>2 DEF SetView, Consistent, store
  <2>6. \A t \in Task : removal[t] # None /\ removal[t].stage \in BeforeIndex =>
                            p \notin onProxy[removal[t].proxy]
    BY <2>2, <2>3 DEF Views
  <2>7. InFlight(p)'
    BY <1>3 DEF InFlight, Moving
  <2>8. \A g \in Handler : op'[g] # None /\ op'[g].player = p =>
                               g = h /\ op'[g].kind = "set"
    BY <1>3, <2>3
  <2>9. \A g \in Handler : op'[g] # None /\ op'[g].player = p =>
           (IF op[g].kind = "set" THEN SetView(op[g], p) ELSE UnsetView(op[g], p))'
    BY <2>5, <2>8
  <2>. QED BY <1>1, <2>3, <2>4, <2>6, <2>7, <2>9 DEF Views, store
<1>. QED BY <1>1, <1>4, <1>5, <1>6 DEF IndexInv

LEMMA PlayerDisconnectStep ==
    ASSUME TypeOK, IndexInv, NEW h \in Handler, NEW x \in Proxy, NEW p \in Player,
           PlayerDisconnect(h, x, p), disturbed' \subseteq Player
    PROVE  IndexInv'
<1>1. /\ UNCHANGED store /\ removal' = removal /\ dropped' = dropped
      /\ disturbed \subseteq disturbed' /\ op[h] = None
  BY DEF PlayerDisconnect
<1>2. CASE ~HasPosition(p)
  <2>1. op' = op
    BY <1>2 DEF PlayerDisconnect
  <2>2. OpsOK'
    BY <1>1, <2>1 DEF IndexInv, OpsOK
  <2>3. ASSUME NEW q \in Player \ disturbed'
        PROVE  Alone(q)' /\ Views(q)'
    <3>1. Alone(q) /\ Views(q)
      BY <1>1 DEF IndexInv
    <3>2. SameKeys(q) /\ SameOps(q) /\ SameRemovals(q)
      BY <1>1, <2>1 DEF store, SameKeys, SameOps, SameRemovals
    <3>. QED BY <1>1, <3>1, <3>2, SamePlayer
  <2>. QED BY <2>2, <2>3 DEF IndexInv
<1>3. CASE HasPosition(p)
  <2>1. /\ \A g \in Handler \ {h} : op'[g] = op[g]
        /\ op'[h] # None /\ op'[h].kind = "unset" /\ op'[h].player = p
        /\ op'[h].prev = position[p] /\ op'[h].target = None /\ op'[h].done = 0
    <3> DEFINE n == [kind |-> "unset", by |-> x, player |-> p, prev |-> position[p],
                     target |-> None, done |-> 0]
    <3>1. n \in Move
      BY DEF Move, TypeOK
    <3>2. n # None
      BY <3>1, NoneAssumption
    <3>3. op' = [op EXCEPT ![h] = n]
      BY <1>3 DEF PlayerDisconnect
    <3>. QED BY <3>2, <3>3 DEF TypeOK
  <2>2. position[p] # None
    BY <1>3 DEF HasPosition
  <2>3. OpsOK'
    BY <1>1, <2>1, <2>2 DEF IndexInv, OpsOK
  <2>4. ASSUME NEW q \in Player \ disturbed, q # p
        PROVE  Alone(q)' /\ Views(q)'
    <3>1. Alone(q) /\ Views(q)
      BY DEF IndexInv
    <3>2. SameKeys(q)
      BY <1>1 DEF SameKeys, store
    <3>3. SameOps(q) /\ SameRemovals(q)
      BY <1>1, <2>1, <2>4 DEF SameOps, SameRemovals, About
    <3>. QED BY <1>1, <3>1, <3>2, <3>3, SamePlayer
  <2>5. ASSUME p \notin disturbed'
        PROVE  Alone(p)' /\ Views(p)'
    <3>1. ~InFlight(p)
      BY <2>5 DEF PlayerDisconnect
    <3>2. Consistent(p) /\ Views(p)
      BY <1>1, <2>5, <3>1 DEF IndexInv, Views
    <3>3. /\ \A g \in Handler : op[g] # None => op[g].player # p
          /\ \A t \in Task : removal[t] # None => p \notin removal[t].todo
      BY <3>1 DEF InFlight, Moving, Removing
    <3>4. Alone(p)'
      BY <1>1, <2>1, <3>3 DEF Alone, ProxyOf
    <3>5. UnsetView(op[h], p)'
      BY <1>1, <2>1, <2>2, <3>2 DEF UnsetView, Consistent, store
    <3>6. \A t \in Task : removal[t] # None /\ removal[t].stage \in BeforeIndex =>
                              p \notin onProxy[removal[t].proxy]
      BY <3>2, <3>3 DEF Views
    <3>7. InFlight(p)'
      BY <2>1 DEF InFlight, Moving
    <3>8. \A g \in Handler : op'[g] # None /\ op'[g].player = p =>
                                 g = h /\ op'[g].kind = "unset"
      BY <2>1, <3>3
    <3>9. \A g \in Handler : op'[g] # None /\ op'[g].player = p =>
             (IF op[g].kind = "set" THEN SetView(op[g], p) ELSE UnsetView(op[g], p))'
      BY <3>5, <3>8
    <3>. QED BY <1>1, <3>3, <3>4, <3>6, <3>7, <3>9 DEF Views, store
  <2>. QED BY <1>1, <2>3, <2>4, <2>5 DEF IndexInv
<1>. QED BY <1>2, <1>3

(***************************************************************************)
(* unregisterProxy.  A player it has read and not cleaned yet is covered   *)
(* by RemovalView; the others by SamePlayer.                               *)
(***************************************************************************)
LEMMA ListedPlayer ==
    ASSUME TypeOK, NEW q \in Player, Alone(q), Views(q), NEW t \in Task,
           removal[t] # None, q \in removal[t].todo,
           removal'[t] # None, q \in removal'[t].todo,
           removal'[t].proxy = removal[t].proxy,
           \A u \in Task \ {t} : removal'[u] = removal[u],
           op' = op, RemovalView(removal[t], q)',
           \A x \in Proxy : q \in onProxy'[x] => q \in onProxy[x]
    PROVE  Alone(q)' /\ Views(q)'
<1>1. \A u \in Task \ {t} : removal[u] # None => q \notin removal[u].todo
  BY DEF Alone
<1>2. \A h \in Handler : op[h] # None => op[h].player # q
  BY DEF Alone
<1>3. Alone(q)'
  BY <1>1, <1>2 DEF Alone
<1>4. InFlight(q)'
  BY DEF InFlight, Removing
<1>5. ASSUME NEW u \in Task, removal'[u] # None, q \notin removal'[u].todo,
             removal'[u].stage \in BeforeIndex
      PROVE  q \notin onProxy'[removal'[u].proxy]
  <2>1. u # t /\ removal'[u] = removal[u]
    BY <1>5
  <2>2. q \notin onProxy[removal[u].proxy] /\ removal[u].proxy \in Proxy
    BY <1>5, <2>1, RemovalType DEF Views
  <2>. QED BY <2>1, <2>2
<1>6. ASSUME NEW u \in Task, removal'[u] # None, q \in removal'[u].todo
      PROVE  u = t
  BY <1>1, <1>6
<1>. QED BY <1>2, <1>3, <1>4, <1>5, <1>6 DEF Views, BeforeIndex

LEMMA UnregisterStep ==
    ASSUME TypeOK, IndexInv, NEW t \in Task, NEW y \in Proxy, NEW x \in Proxy,
           UnregisterProxy(t, y, x), UNCHANGED <<store, op, dropped>>
    PROVE  IndexInv'
<1>1. /\ removal'[t] # None /\ removal'[t].proxy = x /\ removal'[t].stage = "lookup"
      /\ removal'[t].todo = onProxy[x] /\ removal'[t].current = None
      /\ removal[t] = None
      /\ \A u \in Task \ {t} : removal'[u] = removal[u]
  <2> DEFINE n == [by |-> y, proxy |-> x, stage |-> "lookup", todo |-> onProxy[x],
                   lookup |-> [p \in Player |-> {}], current |-> None]
  <2>1. n \in Removal
    BY DEF Removal, TypeOK
  <2>2. n # None
    BY <2>1, NoneAssumption
  <2>3. removal' = [removal EXCEPT ![t] = n] /\ removal[t] = None
    BY DEF UnregisterProxy
  <2>. QED BY <2>2, <2>3 DEF TypeOK
<1>2. UNCHANGED <<players, position, onProxy, onServer, op, dropped>>
  BY DEF store
<1>3. OpsOK'
  BY <1>1, <1>2 DEF IndexInv, OpsOK
<1>4. ASSUME NEW q \in Player, q \notin disturbed'
      PROVE  Alone(q)' /\ Views(q)'
  <2>1. /\ q \notin disturbed
        /\ q \in onProxy[x] => ~InFlight(q)
        /\ \A h \in Handler : op[h] # None /\ op[h].player = q =>
                                   x \notin ProxyOf(op[h].target)
    BY <1>4 DEF UnregisterProxy
  <2>2. Alone(q) /\ Views(q)
    BY <2>1 DEF IndexInv
  <2>3. q \in onProxy[x] =>
          /\ Consistent(q) /\ x \in ProxyOf(position[q])
          /\ \A h \in Handler : op[h] # None => op[h].player # q
          /\ \A u \in Task : removal[u] # None => q \notin removal[u].todo
    BY <2>1, <2>2 DEF Views, Consistent, InFlight, Moving, Removing
  <2>4. Alone(q)'
    BY <1>1, <1>2, <2>1, <2>2, <2>3 DEF Alone
  <2>5. ASSUME NEW h \in Handler, op'[h] # None, op'[h].player = q
        PROVE  (IF op[h].kind = "set" THEN SetView(op[h], q) ELSE UnsetView(op[h], q))'
    BY <1>2, <2>2, <2>5 DEF Views, SetView, UnsetView
  <2>6. Consistent(q)' <=> Consistent(q)
    BY <1>2 DEF Consistent
  <2>7. ASSUME NEW u \in Task, removal'[u] # None, q \in removal'[u].todo
        PROVE  RemovalView(removal[u], q)'
    <3>1. CASE u = t
      BY <1>1, <1>2, <2>3, <2>6, <2>7, <3>1 DEF RemovalView, BeforeIndex
    <3>2. CASE u # t
      <4>1. removal'[u] = removal[u] /\ RemovalView(removal[u], q)
        BY <1>1, <2>2, <2>7, <3>2 DEF Views
      <4>. QED BY <1>2, <2>6, <4>1 DEF RemovalView
    <3>. QED BY <3>1, <3>2
  <2>8. ASSUME NEW u \in Task, removal'[u] # None, q \notin removal'[u].todo,
               removal'[u].stage \in BeforeIndex
        PROVE  q \notin onProxy'[removal'[u].proxy]
    BY <1>1, <1>2, <2>2, <2>8 DEF Views
  <2>9. ~InFlight(q)' => Consistent(q)'
    <3>1. InFlight(q) => InFlight(q)'
      BY <1>1, <1>2 DEF InFlight, Moving, Removing
    <3>. QED BY <2>2, <2>6, <3>1 DEF Views
  <2>. QED BY <2>4, <2>5, <2>7, <2>8, <2>9 DEF Views, BeforeIndex
<1>. QED BY <1>3, <1>4 DEF IndexInv

LEMMA LookupServersStep ==
    ASSUME TypeOK, IndexInv, NEW t \in Task, LookupServers(t)
    PROVE  IndexInv'
<1> DEFINE r == removal[t]
<1>1. r # None /\ r.stage = "lookup" /\ r \in Removal /\ r.todo \subseteq Player
  BY RemovalType DEF LookupServers
<1>2. UNCHANGED <<players, position, onProxy, onServer, op, disturbed, dropped>>
  BY DEF LookupServers, store
<1>3. /\ removal'[t] # None /\ removal'[t].proxy = r.proxy /\ removal'[t].stage = "unlist"
      /\ removal'[t].todo = r.todo /\ removal'[t].current = r.current
      /\ \A q \in r.todo : removal'[t].lookup[q] = ServerOf(position[q])
      /\ \A u \in Task \ {t} : removal'[u] = removal[u]
  <2> DEFINE lookup == [p \in Player |-> IF p \in r.todo THEN ServerOf(position[p]) ELSE {}]
  <2>1. lookup \in [Player -> SUBSET Server]
    BY DEF TypeOK, ServerOf, Position
  <2>2. /\ removal'[t] = [r EXCEPT !.lookup = lookup, !.stage = "unlist"]
        /\ \A u \in Task \ {t} : removal'[u] = removal[u]
    BY <1>1 DEF LookupServers, TypeOK
  <2>3. removal'[t] # None
    <3>1. [r EXCEPT !.lookup = lookup, !.stage = "unlist"] \in Removal
      BY <1>1, <2>1, StageLookup
    <3>. QED BY <2>2, <3>1, NoneAssumption
  <2>. QED BY <1>1, <2>2, <2>3 DEF Removal
<1>4. OpsOK'
  BY <1>1, <1>2, <1>3 DEF IndexInv, OpsOK
<1>5. ASSUME NEW q \in Player \ disturbed
      PROVE  Alone(q)' /\ Views(q)'
  <2>1. Alone(q) /\ Views(q)
    BY DEF IndexInv
  <2>2. CASE q \in r.todo
    <3>1. RemovalView(r, q)
      BY <1>1, <2>1, <2>2 DEF Views
    <3>2. RemovalView(removal[t], q)'
      BY <1>1, <1>2, <1>3, <2>2, <3>1 DEF RemovalView, BeforeIndex, Consistent, ProxyOf
    <3>. QED BY <1>1, <1>2, <1>3, <2>1, <2>2, <3>2, ListedPlayer
  <2>3. CASE q \notin r.todo
    <3>1. SameKeys(q) /\ SameOps(q)
      BY <1>2 DEF SameKeys, SameOps
    <3>2. SameRemovals(q)
      BY <1>1, <1>3, <2>3 DEF SameRemovals, Aside, BeforeIndex
    <3>. QED BY <1>2, <2>1, <3>1, <3>2, SamePlayer
  <2>. QED BY <2>2, <2>3
<1>. QED BY <1>2, <1>4, <1>5 DEF IndexInv

LEMMA UnlistProxyStep ==
    ASSUME TypeOK, IndexInv, NEW t \in Task, UnlistProxy(t)
    PROVE  IndexInv'
<1> DEFINE r == removal[t]
<1>1. r # None /\ r.stage = "unlist" /\ r \in Removal /\ r.todo \subseteq Player
  BY RemovalType DEF UnlistProxy
<1>2. UNCHANGED <<players, position, onProxy, onServer, op, disturbed, dropped>>
  BY DEF UnlistProxy, store
<1>3. /\ removal'[t] # None /\ removal'[t].proxy = r.proxy /\ removal'[t].stage = "index"
      /\ removal'[t].todo = r.todo /\ removal'[t].current = r.current
      /\ removal'[t].lookup = r.lookup
      /\ \A u \in Task \ {t} : removal'[u] = removal[u]
  <2>1. /\ removal'[t] = [r EXCEPT !.stage = "index"]
        /\ \A u \in Task \ {t} : removal'[u] = removal[u]
    BY <1>1 DEF UnlistProxy, TypeOK
  <2>2. removal'[t] # None
    BY <1>1, <2>1, StageOnly, NoneAssumption
  <2>. QED BY <1>1, <2>1, <2>2 DEF Removal
<1>4. OpsOK'
  BY <1>1, <1>2, <1>3 DEF IndexInv, OpsOK
<1>5. ASSUME NEW q \in Player \ disturbed
      PROVE  Alone(q)' /\ Views(q)'
  <2>1. Alone(q) /\ Views(q)
    BY DEF IndexInv
  <2>2. CASE q \in r.todo
    <3>1. RemovalView(r, q)
      BY <1>1, <2>1, <2>2 DEF Views
    <3>2. RemovalView(removal[t], q)'
      BY <1>1, <1>2, <1>3, <2>2, <3>1 DEF RemovalView, BeforeIndex, Consistent
    <3>. QED BY <1>1, <1>2, <1>3, <2>1, <2>2, <3>2, ListedPlayer
  <2>3. CASE q \notin r.todo
    <3>1. SameKeys(q) /\ SameOps(q)
      BY <1>2 DEF SameKeys, SameOps
    <3>2. SameRemovals(q)
      BY <1>1, <1>3, <2>3 DEF SameRemovals, Aside, BeforeIndex
    <3>. QED BY <1>2, <2>1, <3>1, <3>2, SamePlayer
  <2>. QED BY <2>2, <2>3
<1>. QED BY <1>2, <1>4, <1>5 DEF IndexInv

LEMMA DeleteProxyPlayersStep ==
    ASSUME TypeOK, IndexInv, NEW t \in Task, DeleteProxyPlayers(t)
    PROVE  IndexInv'
<1> DEFINE r == removal[t]
<1>1. /\ r # None /\ r.stage = "index" /\ r \in Removal /\ r.todo \subseteq Player
      /\ r.proxy \in Proxy
  BY RemovalType DEF DeleteProxyPlayers
<1>2. UNCHANGED <<players, position, onServer, op, disturbed, dropped>>
  BY DEF DeleteProxyPlayers
<1>3. /\ removal'[t] # None /\ removal'[t].proxy = r.proxy /\ removal'[t].stage = "players"
      /\ removal'[t].todo = r.todo /\ removal'[t].current = r.current
      /\ removal'[t].lookup = r.lookup
      /\ \A u \in Task \ {t} : removal'[u] = removal[u]
  <2>1. /\ removal'[t] = [r EXCEPT !.stage = "players"]
        /\ \A u \in Task \ {t} : removal'[u] = removal[u]
    BY <1>1 DEF DeleteProxyPlayers, TypeOK
  <2>2. removal'[t] # None
    BY <1>1, <2>1, StageOnly, NoneAssumption
  <2>. QED BY <1>1, <2>1, <2>2 DEF Removal
<1>4. \A x \in Proxy : onProxy'[x] = IF x = r.proxy THEN {} ELSE onProxy[x]
  BY <1>1 DEF DeleteProxyPlayers, TypeOK
<1>5. r.current = None
  BY <1>1 DEF IndexInv, OpsOK
<1>6. OpsOK'
  BY <1>1, <1>2, <1>3 DEF IndexInv, OpsOK
<1>7. ASSUME NEW q \in Player \ disturbed
      PROVE  Alone(q)' /\ Views(q)'
  <2>1. Alone(q) /\ Views(q)
    BY DEF IndexInv
  <2>2. CASE q \in r.todo
    <3>1. RemovalView(r, q)
      BY <1>1, <2>1, <2>2 DEF Views
    <3>2. q # None
      BY NoneAssumption
    <3>3. /\ Consistent(q) /\ r.proxy \in ProxyOf(position[q])
          /\ position[q] # None /\ r.lookup[q] = ServerOf(position[q])
      BY <1>1, <3>1 DEF RemovalView, BeforeIndex
    <3>4. \A x \in Proxy : q \notin onProxy'[x]
      BY <1>1, <1>4, <3>3 DEF Consistent, ProxyOf
    <3>5. RemovalView(removal[t], q)'
      BY <1>1, <1>2, <1>3, <1>5, <3>2, <3>3, <3>4 DEF RemovalView, BeforeIndex, Consistent
    <3>. QED BY <1>1, <1>2, <1>3, <1>4, <2>1, <2>2, <3>5, ListedPlayer
  <2>3. CASE q \notin r.todo
    <3>1. q \notin onProxy[r.proxy]
      BY <1>1, <2>1, <2>3 DEF Views, BeforeIndex
    <3>2. SameKeys(q) /\ SameOps(q)
      BY <1>2, <1>4, <3>1 DEF SameKeys, SameOps
    <3>3. SameRemovals(q)
      BY <1>1, <1>3, <2>3 DEF SameRemovals, Aside, BeforeIndex
    <3>. QED BY <1>2, <2>1, <3>2, <3>3, SamePlayer
  <2>. QED BY <2>2, <2>3
<1>. QED BY <1>2, <1>6, <1>7 DEF IndexInv

LEMMA ForgetPlayerStep ==
    ASSUME TypeOK, IndexInv, NEW t \in Task, NEW p \in Player, ForgetPlayer(t, p)
    PROVE  IndexInv'
<1> DEFINE r == removal[t]
<1>1. /\ r # None /\ r.stage = "players" /\ r \in Removal /\ r.todo \subseteq Player
      /\ p \in r.todo
  BY RemovalType DEF ForgetPlayer
<1>2. UNCHANGED <<position, onProxy, onServer, op, disturbed, dropped>>
  BY DEF ForgetPlayer
<1>3. /\ removal'[t] # None /\ removal'[t].proxy = r.proxy /\ removal'[t].stage = "hash"
      /\ removal'[t].todo = r.todo /\ removal'[t].current = p
      /\ removal'[t].lookup = r.lookup
      /\ \A u \in Task \ {t} : removal'[u] = removal[u]
  <2>1. /\ removal'[t] = [r EXCEPT !.stage = "hash", !.current = p]
        /\ \A u \in Task \ {t} : removal'[u] = removal[u]
    BY <1>1 DEF ForgetPlayer, TypeOK
  <2>2. removal'[t] # None
    <3>1. [r EXCEPT !.stage = "hash", !.current = p] \in Removal
      BY <1>1, StageCurrent
    <3>. QED BY <2>1, <3>1, NoneAssumption
  <2>. QED BY <1>1, <2>1, <2>2 DEF Removal
<1>4. players' = players \ {p}
  BY DEF ForgetPlayer
<1>5. r.current = None
  BY <1>1 DEF IndexInv, OpsOK
<1>6. OpsOK'
  BY <1>1, <1>2, <1>3 DEF IndexInv, OpsOK
<1>7. ASSUME NEW q \in Player \ disturbed
      PROVE  Alone(q)' /\ Views(q)'
  <2>1. Alone(q) /\ Views(q)
    BY DEF IndexInv
  <2>2. CASE q \in r.todo
    <3>1. RemovalView(r, q)
      BY <1>1, <2>1, <2>2 DEF Views
    <3>2. q # None
      BY NoneAssumption
    <3>3. RemovalView(removal[t], q)'
      BY <1>1, <1>2, <1>3, <1>4, <1>5, <3>1, <3>2 DEF RemovalView, BeforeIndex
    <3>. QED BY <1>1, <1>2, <1>3, <2>1, <2>2, <3>3, ListedPlayer
  <2>3. CASE q \notin r.todo
    <3>1. SameKeys(q) /\ SameOps(q)
      BY <1>1, <1>2, <1>4, <2>3 DEF SameKeys, SameOps
    <3>2. SameRemovals(q)
      BY <1>1, <1>3, <2>3 DEF SameRemovals, Aside, BeforeIndex
    <3>. QED BY <1>2, <2>1, <3>1, <3>2, SamePlayer
  <2>. QED BY <2>2, <2>3
<1>. QED BY <1>2, <1>6, <1>7 DEF IndexInv

LEMMA DeletePositionStep ==
    ASSUME TypeOK, IndexInv, NEW t \in Task, DeletePosition(t)
    PROVE  IndexInv'
<1> DEFINE r == removal[t]
<1>1. /\ r # None /\ r.stage = "hash" /\ r \in Removal /\ r.todo \subseteq Player
      /\ r.current \in r.todo
  BY RemovalType DEF DeletePosition, IndexInv, OpsOK
<1>2. UNCHANGED <<players, onProxy, onServer, op, disturbed, dropped>>
  BY DEF DeletePosition
<1>3. /\ removal'[t] # None /\ removal'[t].proxy = r.proxy /\ removal'[t].stage = "server"
      /\ removal'[t].todo = r.todo /\ removal'[t].current = r.current
      /\ removal'[t].lookup = r.lookup
      /\ \A u \in Task \ {t} : removal'[u] = removal[u]
  <2>1. /\ removal'[t] = [r EXCEPT !.stage = "server"]
        /\ \A u \in Task \ {t} : removal'[u] = removal[u]
    BY <1>1 DEF DeletePosition, TypeOK
  <2>2. removal'[t] # None
    BY <1>1, <2>1, StageOnly, NoneAssumption
  <2>. QED BY <1>1, <2>1, <2>2 DEF Removal
<1>4. \A q \in Player : position'[q] = IF q = r.current THEN None ELSE position[q]
  BY <1>1 DEF DeletePosition, TypeOK
<1>5. OpsOK'
  BY <1>1, <1>2, <1>3 DEF IndexInv, OpsOK
<1>6. ASSUME NEW q \in Player \ disturbed
      PROVE  Alone(q)' /\ Views(q)'
  <2>1. Alone(q) /\ Views(q)
    BY DEF IndexInv
  <2>2. CASE q \in r.todo
    <3>1. RemovalView(r, q)
      BY <1>1, <2>1, <2>2 DEF Views
    <3>2. RemovalView(removal[t], q)'
      BY <1>1, <1>2, <1>3, <1>4, <3>1 DEF RemovalView, BeforeIndex
    <3>. QED BY <1>1, <1>2, <1>3, <2>1, <2>2, <3>2, ListedPlayer
  <2>3. CASE q \notin r.todo
    <3>1. SameKeys(q) /\ SameOps(q)
      BY <1>1, <1>2, <1>4, <2>3 DEF SameKeys, SameOps
    <3>2. SameRemovals(q)
      BY <1>1, <1>3, <2>3 DEF SameRemovals, Aside, BeforeIndex
    <3>. QED BY <1>2, <2>1, <3>1, <3>2, SamePlayer
  <2>. QED BY <2>2, <2>3
<1>. QED BY <1>2, <1>5, <1>6 DEF IndexInv

LEMMA LeaveServerStep ==
    ASSUME TypeOK, IndexInv, NEW t \in Task, LeaveServer(t)
    PROVE  IndexInv'
<1> DEFINE r == removal[t]
<1>1. /\ r # None /\ r.stage = "server" /\ r \in Removal /\ r.todo \subseteq Player
      /\ r.current \in r.todo
  BY RemovalType DEF LeaveServer, IndexInv, OpsOK
<1>2. PICK p \in Player : p = r.current
  BY <1>1
<1>3. UNCHANGED <<players, position, onProxy, op, disturbed, dropped>>
  BY DEF LeaveServer
<1>4. /\ removal'[t] # None /\ removal'[t].proxy = r.proxy /\ removal'[t].stage = "players"
      /\ removal'[t].todo = r.todo \ {p} /\ removal'[t].current = None
      /\ removal'[t].lookup = r.lookup
      /\ \A u \in Task \ {t} : removal'[u] = removal[u]
  <2> DEFINE left == r.todo \ {p}
  <2>1. /\ removal'[t] = [r EXCEPT !.stage = "players", !.current = None, !.todo = left]
        /\ \A u \in Task \ {t} : removal'[u] = removal[u]
    BY <1>1, <1>2 DEF LeaveServer, TypeOK
  <2>2. removal'[t] # None
    <3>1. [r EXCEPT !.stage = "players", !.current = None, !.todo = left] \in Removal
      BY <1>1, StageCleaned
    <3>. QED BY <2>1, <3>1, NoneAssumption
  <2>. QED BY <1>1, <2>1, <2>2 DEF Removal
<1>5. \A q \in Player, s \in Server :
        q \in onServer'[s] <=> q \in onServer[s] /\ ~(q = p /\ s \in r.lookup[p])
  <2>1. onServer \in [Server -> SUBSET Player]
    BY DEF TypeOK
  <2>. QED BY <1>2, <2>1, SRemFacts DEF LeaveServer
<1>6. OpsOK'
  BY <1>1, <1>3, <1>4 DEF IndexInv, OpsOK
<1>7. ASSUME NEW q \in Player \ disturbed, q # p
      PROVE  Alone(q)' /\ Views(q)'
  <2>1. Alone(q) /\ Views(q)
    BY DEF IndexInv
  <2>2. CASE q \in r.todo
    <3>1. RemovalView(r, q)
      BY <1>1, <2>1, <2>2 DEF Views
    <3>2. q # None
      BY NoneAssumption
    <3>3. RemovalView(removal[t], q)'
      BY <1>1, <1>2, <1>3, <1>4, <1>5, <1>7, <3>1, <3>2 DEF RemovalView, BeforeIndex
    <3>. QED BY <1>1, <1>3, <1>4, <1>7, <2>1, <2>2, <3>3, ListedPlayer
  <2>3. CASE q \notin r.todo
    <3>1. SameKeys(q) /\ SameOps(q)
      BY <1>1, <1>3, <1>5, <1>7 DEF SameKeys, SameOps
    <3>2. SameRemovals(q)
      BY <1>1, <1>4, <2>3 DEF SameRemovals, Aside, BeforeIndex
    <3>. QED BY <1>3, <2>1, <3>1, <3>2, SamePlayer
  <2>. QED BY <2>2, <2>3
<1>8. ASSUME p \notin disturbed
      PROVE  Alone(p)' /\ Views(p)'
  <2>1. Alone(p) /\ Views(p) /\ RemovalView(r, p)
    BY <1>1, <1>2, <1>8 DEF IndexInv, Views
  <2>2. \A h \in Handler : op[h] # None => op[h].player # p
    BY <1>1, <1>2, <2>1 DEF Alone
  <2>3. \A u \in Task : removal'[u] # None => p \notin removal'[u].todo
    BY <1>1, <1>2, <1>4, <2>1 DEF Alone
  <2>4. Consistent(p)'
    BY <1>1, <1>2, <1>3, <1>5, <2>1 DEF RemovalView, BeforeIndex, Consistent, ProxyOf, ServerOf
  <2>5. \A u \in Task : removal'[u] # None /\ removal'[u].stage \in BeforeIndex =>
                            p \notin onProxy'[removal'[u].proxy]
    <3>1. \A u \in Task \ {t} : removal[u] # None => p \notin removal[u].todo
      BY <1>1, <1>2, <2>1 DEF Alone
    <3>. QED BY <1>3, <1>4, <2>1, <3>1 DEF Views, BeforeIndex
  <2>6. Alone(p)'
    BY <1>3, <2>2, <2>3 DEF Alone
  <2>. QED BY <1>3, <2>2, <2>3, <2>4, <2>5, <2>6 DEF Views
<1>. QED BY <1>2, <1>3, <1>6, <1>7, <1>8 DEF IndexInv

LEMMA UnregisterProxyReturnsStep ==
    ASSUME TypeOK, IndexInv, NEW t \in Task, UnregisterProxyReturns(t)
    PROVE  IndexInv'
<1>1. UNCHANGED <<players, position, onProxy, onServer, op, disturbed, dropped>>
  BY DEF UnregisterProxyReturns, store
<1>2. /\ removal'[t] = None /\ removal[t].todo = {}
      /\ \A u \in Task \ {t} : removal'[u] = removal[u]
  BY DEF UnregisterProxyReturns, TypeOK
<1>3. OpsOK'
  BY <1>1, <1>2 DEF IndexInv, OpsOK
<1>4. ASSUME NEW q \in Player \ disturbed
      PROVE  Alone(q)' /\ Views(q)'
  <2>1. Alone(q) /\ Views(q)
    BY DEF IndexInv
  <2>2. SameKeys(q) /\ SameOps(q) /\ SameRemovals(q)
    BY <1>1, <1>2 DEF SameKeys, SameOps, SameRemovals, Aside
  <2>. QED BY <1>1, <2>1, <2>2, SamePlayer
<1>. QED BY <1>1, <1>3, <1>4 DEF IndexInv

(***************************************************************************)
(* A server that is unregistered loses its SET; a proxy that ends takes    *)
(* its operations along, and disturbs the players they were about.         *)
(***************************************************************************)
LEMMA UnregisterServerStep ==
    ASSUME TypeOK, IndexInv, NEW s \in Server, UnregisterServer(s)
    PROVE  IndexInv'
<1>1. /\ UNCHANGED <<players, position, onProxy, op, removal, disturbed>>
      /\ dropped' = dropped \cup {s}
      /\ \A u \in Server : onServer'[u] = IF u = s THEN {} ELSE onServer[u]
  BY DEF UnregisterServer, agents, TypeOK
<1>2. OpsOK'
  BY <1>1 DEF IndexInv, OpsOK
<1>3. ASSUME NEW q \in Player \ disturbed
      PROVE  Alone(q)' /\ Views(q)'
  <2>1. Alone(q) /\ Views(q)
    BY DEF IndexInv
  <2>2. Alone(q)'
    BY <1>1, <2>1 DEF Alone
  <2>3. Consistent(q) => Consistent(q)'
    BY <1>1 DEF Consistent
  <2>4. ASSUME NEW h \in Handler, op'[h] # None, op'[h].player = q
        PROVE  (IF op[h].kind = "set" THEN SetView(op[h], q) ELSE UnsetView(op[h], q))'
    <3>1. IF op[h].kind = "set" THEN SetView(op[h], q) ELSE UnsetView(op[h], q)
      BY <1>1, <2>1, <2>4 DEF Views
    <3>. QED BY <1>1, <3>1 DEF SetView, UnsetView
  <2>5. ASSUME NEW t \in Task, removal'[t] # None, q \in removal'[t].todo
        PROVE  RemovalView(removal[t], q)'
    <3>1. RemovalView(removal[t], q)
      BY <1>1, <2>1, <2>5 DEF Views
    <3>. QED BY <1>1, <2>3, <3>1 DEF RemovalView
  <2>6. InFlight(q)' <=> InFlight(q)
    BY <1>1 DEF InFlight, Moving, Removing
  <2>. QED BY <1>1, <2>1, <2>2, <2>3, <2>4, <2>5, <2>6 DEF Views
<1>. QED BY <1>1, <1>2, <1>3 DEF IndexInv

LEMMA ProcessEndsStep ==
    ASSUME TypeOK, IndexInv, NEW x \in Proxy, ProcessEnds(x)
    PROVE  IndexInv'
<1>1. UNCHANGED <<players, position, onProxy, onServer, dropped>>
  BY DEF ProcessEnds, store
<1>2. /\ \A h \in Handler : op'[h] = IF op[h] # None /\ op[h].by = x THEN None ELSE op[h]
      /\ \A t \in Task : removal'[t] = IF removal[t] # None /\ removal[t].by = x
                                        THEN None ELSE removal[t]
  BY DEF ProcessEnds
<1>3. OpsOK'
  BY <1>2 DEF IndexInv, OpsOK
<1>4. ASSUME NEW q \in Player, q \notin disturbed'
      PROVE  Alone(q)' /\ Views(q)'
  <2>1. /\ q \notin disturbed
        /\ \A h \in Handler : op[h] # None /\ op[h].by = x => op[h].player # q
        /\ \A t \in Task : removal[t] # None /\ removal[t].by = x => q \notin removal[t].todo
    BY <1>4 DEF ProcessEnds
  <2>2. Alone(q) /\ Views(q)
    BY <2>1 DEF IndexInv
  <2>3. SameKeys(q)
    BY <1>1 DEF SameKeys
  <2>4. SameOps(q) /\ SameRemovals(q)
    BY <1>2, <2>1 DEF SameOps, SameRemovals, About, Aside
  <2>. QED BY <1>1, <2>2, <2>3, <2>4, SamePlayer
<1>. QED BY <1>3, <1>4 DEF IndexInv

(***************************************************************************)
(* The invariant holds at the start and every step keeps it.               *)
(***************************************************************************)
LEMMA IndexInit == Init => IndexInv
  BY DEF Init, IndexInv, OpsOK, Alone, Views, Consistent, InFlight, Moving, Removing, ProxyOf,
         ServerOf

LEMMA IndexNext == TypeOK /\ IndexInv /\ [Next]_vars => IndexInv'
<1> SUFFICES ASSUME TypeOK, IndexInv, [Next]_vars PROVE IndexInv'
  OBVIOUS
<1>1. ASSUME NEW h \in Handler, NEW x \in Proxy, NEW p \in Player,
             PlayerDisconnect(h, x, p)
      PROVE  IndexInv'
  <2>1. disturbed' \subseteq Player
    BY <1>1 DEF PlayerDisconnect, TypeOK
  <2>. QED BY <1>1, <2>1, PlayerDisconnectStep
<1>2. ASSUME NEW h \in Handler, NEW x \in Proxy, NEW p \in Player, NEW s \in Server,
             ServerPostConnect(h, x, p, s)
      PROVE  IndexInv'
  BY <1>2, ServerPostConnectStep
<1>3. ASSUME NEW h \in Handler, HandlerStep(h)
      PROVE  IndexInv'
  BY <1>3, SetStep, UnsetStep DEF HandlerStep
<1>4. ASSUME NEW t \in Task, TaskStep(t)
      PROVE  IndexInv'
  BY <1>4, LookupServersStep, UnlistProxyStep, DeleteProxyPlayersStep, ForgetPlayerStep,
     DeletePositionStep, LeaveServerStep, UnregisterProxyReturnsStep DEF TaskStep
<1>5. ASSUME NEW t \in Task, NEW x \in Proxy, Shutdown(t, x)
      PROVE  IndexInv'
  BY <1>5, UnregisterStep DEF Shutdown
<1>6. ASSUME NEW t \in Task, NEW x \in Proxy, NEW y \in Proxy, PurgeLostProxy(t, y, x)
      PROVE  IndexInv'
  BY <1>6, UnregisterStep DEF PurgeLostProxy
<1>7. ASSUME NEW s \in Server, UnregisterServer(s)
      PROVE  IndexInv'
  BY <1>7, UnregisterServerStep
<1>8. ASSUME NEW x \in Proxy,
             RegisterProxy(x) \/ MissHeartbeats(x) \/ UpdateProxyLastSeen(x)
      PROVE  IndexInv'
  BY <1>8, IdleStep DEF RegisterProxy, MissHeartbeats, UpdateProxyLastSeen
<1>9. ASSUME NEW x \in Proxy, Crash(x) \/ ShutdownReturns(x)
      PROVE  IndexInv'
  BY <1>9, ProcessEndsStep DEF Crash, ShutdownReturns
<1>10. ASSUME NEW x \in Proxy, NEW p \in Player, PlayerLogin(x, p) \/ ConnectionEnds(x, p)
       PROVE  IndexInv'
  BY <1>10, IdleStep DEF PlayerLogin, ConnectionEnds
<1>11. CASE UNCHANGED vars
  BY <1>11, IdleStep DEF vars, store
<1>. QED
  BY <1>1, <1>2, <1>3, <1>4, <1>5, <1>6, <1>7, <1>8, <1>9, <1>10, <1>11 DEF Next

(***************************************************************************)
(* At every Redis command of every operation in flight, the keys of a      *)
(* player that nothing disturbed hold what that command leaves, also while *)
(* unregisterProxy cleans any number of players.                           *)
(***************************************************************************)
THEOREM IndexAlways == Spec => []IndexInv
BY InitType, NextType, IndexInit, IndexNext, PTL DEF Spec

(***************************************************************************)
(* The reverse SETs and the HASH tell one story about every player whose   *)
(* operations never overlapped, however many players, proxies, servers and *)
(* threads there are: the header comment of RedisCacheAdapter, made exact. *)
(***************************************************************************)
THEOREM IndexCorrect == Spec => []IndexExact
<1>1. IndexInv => IndexExact
  BY DEF IndexInv, IndexExact, Views
<1>. QED BY IndexAlways, <1>1, PTL
=============================================================================
