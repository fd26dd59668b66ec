-------------------------- MODULE PlayerTruth_proof --------------------------
(***************************************************************************)
(* TruthInv is inductive together with IndexInv, so the cache and the      *)
(* connections agree: for every set of players, proxies, servers and       *)
(* threads.                                                                *)
(*                                                                         *)
(* The steps of operations already in flight are summed up first, by what  *)
(* they leave of the records (HandlerFacts, TaskFacts): none of them       *)
(* touches a connection.                                                   *)
(***************************************************************************)
EXTENDS PlayerPresence_proof

Listed == {"lookup", "unlist"}

LEMMA HandlerFacts ==
    ASSUME TypeOK, NEW h \in Handler, HandlerStep(h)
    PROVE  /\ UNCHANGED <<proxies, removal, life, session, closing, disturbed>>
           /\ op[h] # None
           /\ op[h] \in Move
           /\ \A g \in Handler \ {h} : op'[g] = op[g]
           /\ \/ op'[h] # None /\ op'[h].player = op[h].player
                               /\ op'[h].target = op[h].target
              \/ /\ op'[h] = None /\ op[h].done > 1
                 /\ position' = position
           /\ \A q \in Player : \/ position'[q] = position[q]
                                \/ q = op[h].player /\ position'[q] = op[h].target
                                \/ position'[q] = None
<1> DEFINE o == op[h]
<1>1. o # None /\ o \in Move
  BY MoveType DEF HandlerStep, SetPlayerPosition, UnsetPlayerPosition
<1>2. UNCHANGED <<proxies, removal, life, session, closing, disturbed>>
  BY DEF HandlerStep, SetPlayerPosition, UnsetPlayerPosition, agents
<1>3. \/ op' = [op EXCEPT ![h] = None] /\ o.done > 1 /\ position' = position
      \/ op' = [op EXCEPT ![h] = [o EXCEPT !.done = o.done + 1]] /\ o.done \in 0..4
  BY <1>1 DEF HandlerStep, SetPlayerPosition, UnsetPlayerPosition, Move
<1>4. \A g \in Handler \ {h} : op'[g] = op[g]
  BY <1>3 DEF TypeOK
<1>5. \/ op'[h] # None /\ op'[h].player = o.player /\ op'[h].target = o.target
      \/ op'[h] = None /\ o.done > 1 /\ position' = position
  <2>1. CASE op' = [op EXCEPT ![h] = None] /\ o.done > 1 /\ position' = position
    BY <2>1 DEF TypeOK
  <2>2. CASE op' = [op EXCEPT ![h] = [o EXCEPT !.done = o.done + 1]] /\ o.done \in 0..4
    <3>1. o.done + 1 \in 0..5
      BY <2>2
    <3>2. [o EXCEPT !.done = o.done + 1] \in Move
      BY <1>1, <3>1, NextCommand
    <3>3. [o EXCEPT !.done = o.done + 1] # None
      BY <3>2, NoneAssumption
    <3>. QED BY <1>1, <2>2, <3>3 DEF TypeOK, Move
  <2>. QED BY <1>3, <2>1, <2>2
<1>6. \A q \in Player : \/ position'[q] = position[q]
                        \/ q = o.player /\ position'[q] = o.target
                        \/ position'[q] = None
  BY DEF HandlerStep, SetPlayerPosition, UnsetPlayerPosition, TypeOK
<1>. QED BY <1>1, <1>2, <1>4, <1>5, <1>6

LEMMA TaskFacts ==
    ASSUME TypeOK, NEW t \in Task, TaskStep(t)
    PROVE  /\ UNCHANGED <<op, life, session, closing, disturbed>>
           /\ removal[t] # None
           /\ removal[t] \in Removal
           /\ \A u \in Task \ {t} : removal'[u] = removal[u]
           /\ removal'[t] # None =>
                 /\ removal'[t].proxy = removal[t].proxy
                 /\ removal'[t].todo \subseteq removal[t].todo
                 /\ \/ removal'[t].stage \in Listed
                    \/ removal[t].stage \notin Listed
                    \/ removal[t].proxy \notin proxies'
           /\ proxies' \subseteq proxies
           /\ \/ position' = position
              \/ removal[t].stage = "hash"
                 /\ position' = [position EXCEPT ![removal[t].current] = None]
<1> DEFINE r == removal[t]
<1>1. r # None /\ r \in Removal
  BY RemovalType
     DEF TaskStep, LookupServers, UnlistProxy, DeleteProxyPlayers, ForgetPlayer,
         DeletePosition, LeaveServer, UnregisterProxyReturns
<1>2. UNCHANGED <<op, life, session, closing, disturbed>>
  BY DEF TaskStep, LookupServers, UnlistProxy, DeleteProxyPlayers, ForgetPlayer,
         DeletePosition, LeaveServer, UnregisterProxyReturns, agents
<1>3. \A u \in Task \ {t} : removal'[u] = removal[u]
  BY DEF TaskStep, LookupServers, UnlistProxy, DeleteProxyPlayers, ForgetPlayer,
         DeletePosition, LeaveServer, UnregisterProxyReturns, TypeOK
<1>4. proxies' \subseteq proxies
  BY DEF TaskStep, LookupServers, UnlistProxy, DeleteProxyPlayers, ForgetPlayer,
         DeletePosition, LeaveServer, UnregisterProxyReturns
<1>5. \/ position' = position
      \/ r.stage = "hash" /\ position' = [position EXCEPT ![r.current] = None]
  BY DEF TaskStep, LookupServers, UnlistProxy, DeleteProxyPlayers, ForgetPlayer,
         DeletePosition, LeaveServer, UnregisterProxyReturns, store
<1>6. removal'[t] # None =>
         /\ removal'[t].proxy = r.proxy
         /\ removal'[t].todo \subseteq r.todo
         /\ \/ removal'[t].stage \in Listed
            \/ r.stage \notin Listed
            \/ r.proxy \notin proxies'
  <2>1. CASE LookupServers(t)
    BY <1>1, <2>1 DEF LookupServers, TypeOK, Removal, Listed
  <2>2. CASE UnlistProxy(t)
    BY <1>1, <2>2 DEF UnlistProxy, TypeOK, Removal, Listed
  <2>3. CASE DeleteProxyPlayers(t) \/ (\E p \in Player : ForgetPlayer(t, p)) \/ DeletePosition(t)
    BY <1>1, <2>3 DEF DeleteProxyPlayers, ForgetPlayer, DeletePosition, TypeOK, Removal, Listed
  <2>4. CASE LeaveServer(t)
    BY <1>1, <2>4 DEF LeaveServer, TypeOK, Removal, Listed
  <2>5. CASE UnregisterProxyReturns(t)
    BY <1>1, <2>5 DEF UnregisterProxyReturns, TypeOK
  <2>. QED BY <2>1, <2>2, <2>3, <2>4, <2>5 DEF TaskStep
<1>. QED BY <1>1, <1>2, <1>3, <1>4, <1>5, <1>6

LEMMA UnregisterFacts ==
    ASSUME TypeOK, NEW t \in Task, NEW y \in Proxy, NEW x \in Proxy,
           UnregisterProxy(t, y, x)
    PROVE  /\ removal[t] = None
           /\ removal'[t] # None /\ removal'[t].proxy = x
           /\ removal'[t].stage = "lookup" /\ removal'[t].todo = onProxy[x]
           /\ \A u \in Task \ {t} : removal'[u] = removal[u]
           /\ \A p \in Player \ disturbed' :
                 p \notin disturbed /\ (p \in onProxy[x] => ~InFlight(p))
<1> DEFINE n == [by |-> y, proxy |-> x, stage |-> "lookup", todo |-> onProxy[x],
                 lookup |-> [p \in Player |-> {}], current |-> None]
<1>1. n \in Removal
  BY DEF Removal, TypeOK
<1>2. n # None
  BY <1>1, NoneAssumption
<1>3. removal' = [removal EXCEPT ![t] = n] /\ removal[t] = None
  BY DEF UnregisterProxy
<1>4. \A p \in Player \ disturbed' : p \notin disturbed /\ (p \in onProxy[x] => ~InFlight(p))
  BY DEF UnregisterProxy
<1>. QED BY <1>2, <1>3, <1>4 DEF TypeOK

(***************************************************************************)
(* A proxy's name is used once: LivesOK is inductive, without IndexInv.    *)
(***************************************************************************)
LEMMA LivesNext ==
    ASSUME TypeOK, LivesOK, [Next]_vars
    PROVE  LivesOK'
<1>1. ASSUME NEW h \in Handler, NEW x \in Proxy, NEW p \in Player, PlayerDisconnect(h, x, p)
      PROVE  LivesOK'
  <2>1. /\ UNCHANGED <<position, proxies, removal, life, session>>
        /\ \A g \in Handler \ {h} : op'[g] = op[g]
        /\ op'[h] # None => op'[h] = op[h] \/ op'[h].target = None
    BY <1>1 DEF PlayerDisconnect, store, TypeOK
  <2>. QED BY <2>1 DEF LivesOK, Alive, Unregistering, ProxyOf
<1>2. ASSUME NEW h \in Handler, NEW x \in Proxy, NEW p \in Player, NEW s \in Server,
             ServerPostConnect(h, x, p, s)
      PROVE  LivesOK'
  <2>1. /\ UNCHANGED <<position, proxies, removal, life>>
        /\ \A g \in Handler \ {h} : op'[g] = op[g]
        /\ op'[h].target = TargetOf(x, s)
        /\ life[x] \in {"up", "stopping"}
        /\ \A y \in Proxy, q \in Player : session'[y][q] # session[y][q] => y = x
    BY <1>2 DEF ServerPostConnect, store, Alive, TypeOK
  <2>2. ProxyOf(op'[h].target) = {x}
    <3>1. TargetOf(x, s) # None /\ TargetOf(x, s).proxy = x
      BY NoneAssumption DEF TargetOf, Position
    <3>. QED BY <2>1, <3>1 DEF ProxyOf
  <2>. QED BY <2>1, <2>2 DEF LivesOK, Alive, Unregistering
<1>3. ASSUME NEW h \in Handler, HandlerStep(h)
      PROVE  LivesOK'
  <2>1. \A g \in Handler : op'[g] # None =>
           op[g] # None /\ op'[g].target = op[g].target
    BY <1>3, HandlerFacts
  <2>2. \A q \in Player, x \in Proxy : x \in ProxyOf(position'[q]) =>
           x \in ProxyOf(position[q]) \/ x \in ProxyOf(op[h].target)
    BY <1>3, HandlerFacts DEF ProxyOf
  <2>3. UNCHANGED <<proxies, removal, life, session>> /\ op[h] # None
    BY <1>3, HandlerFacts
  <2>. QED BY <2>1, <2>2, <2>3 DEF LivesOK, Alive, Unregistering
<1>4. ASSUME NEW t \in Task, TaskStep(t)
      PROVE  LivesOK'
  <2>1. /\ UNCHANGED <<op, life, session>> /\ proxies' \subseteq proxies
        /\ \A u \in Task : removal'[u] # None =>
              removal[u] # None /\ removal'[u].proxy = removal[u].proxy
    BY <1>4, TaskFacts
  <2>2. \A q \in Player, x \in Proxy : x \in ProxyOf(position'[q]) =>
           x \in ProxyOf(position[q])
    BY <1>4, TaskFacts DEF ProxyOf, TypeOK
  <2>3. \A u \in Task : removal'[u] # None /\ removal'[u].stage \notin Listed =>
           removal'[u].proxy \notin proxies'
    <3>1. ASSUME NEW u \in Task, removal'[u] # None, removal'[u].stage \notin Listed
          PROVE  removal[u].stage \notin Listed \/ removal[u].proxy \notin proxies'
      BY <1>4, <3>1, TaskFacts
    <3>. QED BY <2>1, <3>1 DEF LivesOK, Listed
  <2>. QED BY <2>1, <2>2, <2>3 DEF LivesOK, Alive, Unregistering, Listed
<1>5. ASSUME NEW t \in Task, NEW x \in Proxy, NEW y \in Proxy,
             UnregisterProxy(t, y, x), life[x] # "new",
             UNCHANGED <<position, proxies, op, session>>,
             \A z \in Proxy : life'[z] = life[z] \/ (Alive(z) /\ life'[z] = "stopping")
      PROVE  LivesOK'
  <2>1. /\ removal'[t].proxy = x /\ removal'[t].stage = "lookup"
        /\ \A u \in Task \ {t} : removal'[u] = removal[u]
    BY <1>5, UnregisterFacts
  <2>2. \A z \in Proxy : /\ life'[z] = "new" => life[z] = "new"
                         /\ life'[z] \notin {"up", "stopping"} => ~Alive(z)
                         /\ life[z] # "new" => life'[z] # "new"
    BY <1>5 DEF Alive
  <2>3. \A z \in Proxy : life'[z] = "new" => ~Unregistering(z)'
    BY <1>5, <2>1, <2>2 DEF LivesOK, Unregistering
  <2>. QED BY <1>5, <2>1, <2>2, <2>3 DEF LivesOK, Alive
<1>6. ASSUME NEW t \in Task, NEW x \in Proxy,
             Shutdown(t, x) \/ \E y \in Proxy : PurgeLostProxy(t, y, x)
      PROVE  LivesOK'
  <2>1. CASE Shutdown(t, x)
    BY <1>5, <2>1 DEF Shutdown, store, Alive, TypeOK
  <2>2. CASE \E y \in Proxy : PurgeLostProxy(t, y, x)
    <3>1. life[x] # "new"
      BY <2>2 DEF PurgeLostProxy, LostProxies, LivesOK
    <3>. QED BY <1>5, <2>2, <3>1 DEF PurgeLostProxy, store, agents
  <2>. QED BY <1>6, <2>1, <2>2
<1>7. ASSUME NEW x \in Proxy, RegisterProxy(x)
      PROVE  LivesOK'
  <2>1. /\ life[x] = "new" /\ proxies' = proxies \cup {x}
        /\ UNCHANGED <<position, op, removal, session>>
        /\ \A z \in Proxy : life'[z] = IF z = x THEN "up" ELSE life[z]
    BY <1>7 DEF RegisterProxy, store, TypeOK
  <2>2. \A t \in Task : removal[t] # None => removal[t].proxy # x
    BY <2>1 DEF LivesOK, Unregistering
  <2>. QED BY <2>1, <2>2 DEF LivesOK, Alive, Unregistering
<1>8. ASSUME NEW x \in Proxy, Crash(x) \/ ShutdownReturns(x)
      PROVE  LivesOK'
  <2>1. ProcessEnds(x)
    BY <1>8 DEF Crash, ShutdownReturns
  <2>2. /\ UNCHANGED <<position, proxies>>
        /\ \A z \in Proxy : life'[z] = IF z = x THEN "down" ELSE life[z]
        /\ \A z \in Proxy, p \in Player :
              session'[z][p] = IF z = x THEN "none" ELSE session[z][p]
        /\ \A h \in Handler : op'[h] \in {None, op[h]}
        /\ \A t \in Task : removal'[t] \in {None, removal[t]}
    BY <2>1 DEF ProcessEnds, store, TypeOK
  <2>. QED BY <2>2 DEF LivesOK, Alive, Unregistering
<1>9. ASSUME NEW x \in Proxy, NEW p \in Player, PlayerLogin(x, p) \/ ConnectionEnds(x, p)
      PROVE  LivesOK'
  <2>1. /\ UNCHANGED <<position, proxies, op, removal, life>>
        /\ \A z \in Proxy, q \in Player :
              session'[z][q] = session[z][q] \/ session'[z][q] = "none" \/ life[z] = "up"
    BY <1>9 DEF PlayerLogin, ConnectionEnds, store, TypeOK
  <2>. QED BY <2>1 DEF LivesOK, Alive, Unregistering
<1>10. CASE \/ \E s \in Server : UnregisterServer(s)
            \/ \E x \in Proxy : MissHeartbeats(x) \/ UpdateProxyLastSeen(x)
            \/ UNCHANGED vars
  <2>1. UNCHANGED <<position, proxies, op, removal, life, session>>
    BY <1>10 DEF UnregisterServer, MissHeartbeats, UpdateProxyLastSeen, vars, store, agents
  <2>. QED BY <2>1 DEF LivesOK, Alive, Unregistering
<1>. QED BY <1>1, <1>2, <1>3, <1>4, <1>6, <1>7, <1>8, <1>9, <1>10 DEF Next

LEMMA OneSessionNext ==
    ASSUME TypeOK, [Next]_vars, NEW p \in Player, OneSession(p)
    PROVE  OneSession(p)'
<1>1. \/ \A x \in Proxy : session'[x][p] # "none" => session[x][p] # "none"
      \/ /\ \A x \in Proxy : session[x][p] = "none"
         /\ \E x \in Proxy : \A y \in Proxy \ {x} : session'[y][p] = session[y][p]
  <2>1. CASE \E x \in Proxy, q \in Player : PlayerLogin(x, q)
    BY <2>1 DEF PlayerLogin, TypeOK
  <2>2. CASE \E x \in Proxy, q \in Player : ConnectionEnds(x, q)
    BY <2>2 DEF ConnectionEnds, TypeOK
  <2>3. CASE \E x \in Proxy : Crash(x) \/ ShutdownReturns(x)
    <3>1. PICK x \in Proxy : ProcessEnds(x)
      BY <2>3 DEF Crash, ShutdownReturns
    <3>2. \A y \in Proxy : session'[y][p] = IF y = x THEN "none" ELSE session[y][p]
      BY <3>1 DEF ProcessEnds, TypeOK
    <3>. QED BY <3>2
  <2>4. CASE \E h \in Handler, x \in Proxy, q \in Player, s \in Server :
                ServerPostConnect(h, x, q, s)
    BY <2>4 DEF ServerPostConnect, TypeOK
  <2>5. CASE session' = session
    BY <2>5
  <2>6. CASE \E h \in Handler : HandlerStep(h)
    BY <2>5, <2>6, HandlerFacts
  <2>7. CASE \E t \in Task : TaskStep(t)
    BY <2>5, <2>7, TaskFacts
  <2>. QED BY <2>1, <2>2, <2>3, <2>4, <2>5, <2>6, <2>7
       DEF Next, PlayerDisconnect, Shutdown, PurgeLostProxy, UnregisterServer, RegisterProxy,
           MissHeartbeats, UpdateProxyLastSeen, agents, vars
<1>. QED BY <1>1 DEF OneSession

(***************************************************************************)
(* One player.  SameTruth covers a step that neither ends a connection of  *)
(* the player nor changes where it is recorded.                            *)
(***************************************************************************)
LEMMA SameTruth ==
    ASSUME NEW q \in Player, Truth(q),
           \A x \in Proxy : /\ Recorded(q, x)' <=> Recorded(q, x)
                            /\ session'[x][q] = session[x][q]
                            /\ <<x, q>> \in closing' <=> <<x, q>> \in closing
                            /\ x \in proxies' => x \in proxies
                            /\ life'[x] = "up" => life[x] = "up",
           \A t \in Task : removal'[t] # None /\ q \in removal'[t].todo
                           /\ position'[q] # None =>
               removal'[t].proxy \in ProxyOf(position'[q])
    PROVE  Truth(q)'
  BY DEF Truth

LEMMA SameRecorded ==
    ASSUME NEW q \in Player,
           \A h \in Handler : op'[h] = op[h] \/ (~About(op[h], q) /\ ~About(op'[h], q)),
           position'[q] = position[q]
    PROVE  \A x \in Proxy : Recorded(q, x)' <=> Recorded(q, x)
<1>1. \A h \in Handler : op'[h] # None /\ op'[h].player = q => op'[h] = op[h]
  BY DEF About
<1>2. \A h \in Handler : op[h] # None /\ op[h].player = q => op'[h] = op[h]
  BY DEF About
<1>3. Moving(q)' <=> Moving(q)
  BY <1>1, <1>2 DEF Moving
<1>4. ASSUME NEW x \in Proxy
      PROVE  (\E h \in Handler : op'[h] # None /\ op'[h].player = q /\ x \in ProxyOf(op'[h].target))
             <=> \E h \in Handler : op[h] # None /\ op[h].player = q /\ x \in ProxyOf(op[h].target)
  BY <1>1, <1>2
<1>. QED BY <1>3, <1>4 DEF Recorded

(***************************************************************************)
(* The handlers.  The last command of an operation leaves the HASH at the  *)
(* operation's target, by IndexInv.                                        *)
(***************************************************************************)
LEMMA TruthConnect ==
    ASSUME TypeOK, IndexInv, TruthInv, NEW h \in Handler, NEW x \in Proxy,
           NEW p \in Player, NEW s \in Server, ServerPostConnect(h, x, p, s),
           NEW q \in Player, q \notin disturbed'
    PROVE  Truth(q)'
<1>1. /\ UNCHANGED <<position, proxies, removal, life, closing>> /\ op[h] = None
      /\ \A g \in Handler \ {h} : op'[g] = op[g]
      /\ \A y \in Proxy, u \in Player :
            session'[y][u] = IF y = x /\ u = p THEN "playing" ELSE session[y][u]
      /\ session[x][p] # "none"
  BY DEF ServerPostConnect, store, TypeOK
<1>2. op'[h] # None /\ op'[h].player = p /\ ProxyOf(op'[h].target) = {x}
  <2> DEFINE o == [kind |-> "set", by |-> x, player |-> p, prev |-> position[p],
                   target |-> TargetOf(x, s), done |-> 0]
  <2>1. TargetOf(x, s) \in Position /\ TargetOf(x, s).proxy = x
    BY DEF TargetOf, Position
  <2>2. o \in Move
    BY <2>1 DEF Move, TypeOK
  <2>3. op'[h] = o
    BY DEF ServerPostConnect, TypeOK
  <2>. QED BY <2>1, <2>2, <2>3, NoneAssumption DEF ProxyOf
<1>3. Truth(q)
  BY DEF TruthInv, ServerPostConnect
<1>4. CASE q # p
  <2>1. \A y \in Proxy : Recorded(q, y)' <=> Recorded(q, y)
    BY <1>1, <1>2, <1>4, SameRecorded DEF About
  <2>. QED BY <1>1, <1>3, <1>4, <2>1, SameTruth DEF Truth
<1>5. CASE q = p
  <2>1. /\ ~InFlight(p)
        /\ \A y \in Proxy : <<y, p>> \notin closing
    BY <1>5 DEF ServerPostConnect
  <2>2. \A y \in Proxy : Recorded(p, y)' <=> y = x
    BY <1>1, <1>2, <2>1 DEF Recorded, Moving, InFlight
  <2>3. \A y \in Proxy : session'[y][p] = "playing" <=> y = x
    BY <1>1 DEF TruthInv, OneSession
  <2>4. \A t \in Task : removal'[t] # None => p \notin removal'[t].todo
    BY <1>1, <2>1 DEF InFlight, Removing
  <2>. QED BY <1>1, <1>5, <2>1, <2>2, <2>3, <2>4 DEF Truth
<1>. QED BY <1>4, <1>5

LEMMA TruthDisconnect ==
    ASSUME TypeOK, IndexInv, TruthInv, NEW h \in Handler, NEW x \in Proxy,
           NEW p \in Player, PlayerDisconnect(h, x, p),
           NEW q \in Player, q \notin disturbed'
    PROVE  Truth(q)'
<1>1. /\ UNCHANGED <<position, proxies, removal, life, session>> /\ op[h] = None
      /\ \A g \in Handler \ {h} : op'[g] = op[g]
      /\ closing' = closing \ {<<x, p>>} /\ <<x, p>> \in closing
  BY DEF PlayerDisconnect, store, TypeOK
<1>2. \/ op' = op /\ position[p] = None
      \/ op'[h] # None /\ op'[h].player = p /\ op'[h].target = None
  <2>1. CASE HasPosition(p)
    <3> DEFINE o == [kind |-> "unset", by |-> x, player |-> p, prev |-> position[p],
                     target |-> None, done |-> 0]
    <3>1. o \in Move
      BY DEF Move, TypeOK
    <3>2. op'[h] = o
      BY <2>1 DEF PlayerDisconnect, TypeOK
    <3>. QED BY <3>1, <3>2, NoneAssumption
  <2>2. CASE ~HasPosition(p)
    BY <2>2 DEF PlayerDisconnect, HasPosition
  <2>. QED BY <2>1, <2>2
<1>3. Truth(q)
  BY DEF TruthInv, PlayerDisconnect
<1>4. CASE q # p
  <2>1. \A y \in Proxy : Recorded(q, y)' <=> Recorded(q, y)
    BY <1>1, <1>2, <1>4, SameRecorded DEF About
  <2>. QED BY <1>1, <1>3, <1>4, <2>1, SameTruth DEF Truth
<1>5. CASE q = p
  <2>1. ~InFlight(p)
    BY <1>5 DEF PlayerDisconnect
  <2>2. \A y \in Proxy : ~Recorded(p, y)'
    BY <1>1, <1>2, <2>1 DEF Recorded, Moving, InFlight, ProxyOf
  <2>3. \A y \in Proxy : session'[y][p] # "playing"
    BY <1>1, <1>3, <1>5 DEF Truth
  <2>4. \A t \in Task : removal'[t] # None => p \notin removal'[t].todo
    BY <1>1, <2>1 DEF InFlight, Removing
  <2>. QED BY <1>5, <2>2, <2>3, <2>4 DEF Truth
<1>. QED BY <1>4, <1>5

LEMMA TruthHandler ==
    ASSUME TypeOK, IndexInv, TruthInv, NEW h \in Handler, HandlerStep(h),
           NEW q \in Player, q \notin disturbed'
    PROVE  Truth(q)'
<1>1. /\ UNCHANGED <<proxies, removal, life, session, closing, disturbed>>
      /\ op[h] # None /\ op[h] \in Move
      /\ \A g \in Handler \ {h} : op'[g] = op[g]
  BY HandlerFacts
<1>2. Truth(q) /\ Alone(q) /\ Views(q)
  BY <1>1 DEF TruthInv, IndexInv
<1>3. CASE op[h].player # q
  <2>1. position'[q] = position[q]
    BY <1>3 DEF HandlerStep, SetPlayerPosition, UnsetPlayerPosition, TypeOK
  <2>2. \A y \in Proxy : Recorded(q, y)' <=> Recorded(q, y)
    BY <1>1, <1>3, <2>1, HandlerFacts, SameRecorded DEF About
  <2>. QED BY <1>1, <1>2, <2>1, <2>2, SameTruth DEF Truth
<1>4. CASE op[h].player = q
  <2>1. \A g \in Handler \ {h} : op[g] # None => op[g].player # q
    BY <1>1, <1>2, <1>4 DEF Alone
  <2>2. \A t \in Task : removal'[t] # None => q \notin removal'[t].todo
    BY <1>1, <1>2, <1>4 DEF Alone
  <2>3. \A y \in Proxy : Recorded(q, y) <=> y \in ProxyOf(op[h].target)
    BY <1>1, <1>4, <2>1 DEF Recorded, Moving
  <2>4. CASE op'[h] # None
    <3>1. op'[h].player = q /\ op'[h].target = op[h].target
      BY <1>4, <2>4, HandlerFacts
    <3>2. \A y \in Proxy : Recorded(q, y)' <=> y \in ProxyOf(op[h].target)
      BY <1>1, <2>1, <2>4, <3>1 DEF Recorded, Moving
    <3>. QED BY <1>1, <1>2, <2>2, <2>3, <3>2, SameTruth
  <2>5. CASE op'[h] = None
    <3>1. op[h].done > 1 /\ position'[q] = position[q]
      BY <2>5, HandlerFacts
    <3>2. position[q] = op[h].target
      BY <1>1, <1>2, <1>4, <3>1 DEF Views, SetView, UnsetView, IndexInv, OpsOK
    <3>3. \A y \in Proxy : Recorded(q, y)' <=> y \in ProxyOf(op[h].target)
      BY <1>1, <2>1, <2>5, <3>1, <3>2 DEF Recorded, Moving
    <3>. QED BY <1>1, <1>2, <2>2, <2>3, <3>3, SameTruth
  <2>. QED BY <2>4, <2>5
<1>. QED BY <1>3, <1>4

(***************************************************************************)
(* unregisterProxy.  It deletes the position of a player who may well play *)
(* on, but by then the proxy it takes the player off is not listed.        *)
(***************************************************************************)
LEMMA TruthTask ==
    ASSUME TypeOK, IndexInv, TruthInv, NEW t \in Task, TaskStep(t),
           NEW q \in Player, q \notin disturbed'
    PROVE  Truth(q)'
<1> DEFINE r == removal[t]
<1>1. /\ UNCHANGED <<op, life, session, closing, disturbed>> /\ proxies' \subseteq proxies
      /\ r # None /\ r \in Removal
      /\ \A u \in Task \ {t} : removal'[u] = removal[u]
      /\ removal'[t] # None => removal'[t].proxy = r.proxy /\ removal'[t].todo \subseteq r.todo
  BY TaskFacts
<1>2. Truth(q) /\ Alone(q)
  BY <1>1 DEF TruthInv, IndexInv
<1>3. CASE position'[q] = position[q]
  <2>1. \A y \in Proxy : Recorded(q, y)' <=> Recorded(q, y)
    BY <1>1, <1>3, SameRecorded
  <2>2. \A u \in Task : removal'[u] # None /\ q \in removal'[u].todo =>
           removal[u] # None /\ q \in removal[u].todo /\ removal'[u].proxy = removal[u].proxy
    BY <1>1
  <2>3. \A u \in Task : removal'[u] # None /\ q \in removal'[u].todo /\ position'[q] # None =>
           removal'[u].proxy \in ProxyOf(position'[q])
    BY <1>2, <1>3, <2>2 DEF Truth
  <2>. QED BY <1>1, <1>2, <2>1, <2>3, SameTruth
<1>4. CASE position'[q] # position[q]
  <2>1. /\ r.stage = "hash" /\ q = r.current /\ position'[q] = None
    BY <1>4, TaskFacts DEF TypeOK
  <2>2. q \in r.todo /\ r.proxy \notin proxies
    BY <1>1, <2>1 DEF IndexInv, OpsOK, TruthInv, LivesOK
  <2>3. ~Moving(q)
    BY <1>1, <1>2, <2>2 DEF Alone, Moving
  <2>4. \A y \in Proxy : Recorded(q, y) <=> y \in ProxyOf(position[q])
    BY <2>3 DEF Recorded
  <2>5. \A y \in Proxy : ~Recorded(q, y)'
    BY <1>1, <2>1, <2>3 DEF Recorded, Moving, ProxyOf
  <2>6. r.proxy \in ProxyOf(position[q])
    BY <1>1, <1>2, <1>4, <2>1, <2>2 DEF Truth
  <2>7. \A y \in Proxy : session[y][q] = "playing" => y \notin proxies
    BY <1>2, <2>2, <2>4, <2>6 DEF Truth, ProxyOf
  <2>. QED BY <1>1, <1>2, <2>1, <2>5, <2>7 DEF Truth
<1>. QED BY <1>3, <1>4

LEMMA TruthUnregister ==
    ASSUME TypeOK, IndexInv, TruthInv, NEW t \in Task, NEW y \in Proxy, NEW x \in Proxy,
           UnregisterProxy(t, y, x), UNCHANGED <<position, proxies, op, session, closing>>,
           \A z \in Proxy : life'[z] = "up" => life[z] = "up",
           NEW q \in Player, q \notin disturbed'
    PROVE  Truth(q)'
<1>1. /\ removal'[t].proxy = x /\ removal'[t].todo = onProxy[x]
      /\ \A u \in Task \ {t} : removal'[u] = removal[u]
      /\ q \notin disturbed /\ (q \in onProxy[x] => ~InFlight(q))
  BY UnregisterFacts
<1>2. Truth(q) /\ Views(q)
  BY <1>1 DEF TruthInv, IndexInv
<1>3. q \in onProxy[x] => x \in ProxyOf(position[q])
  BY <1>1, <1>2 DEF Views, Consistent
<1>4. \A u \in Task : removal'[u] # None /\ q \in removal'[u].todo /\ position'[q] # None =>
         removal'[u].proxy \in ProxyOf(position'[q])
  BY <1>1, <1>2, <1>3 DEF Truth
<1>5. \A z \in Proxy : Recorded(q, z)' <=> Recorded(q, z)
  BY SameRecorded
<1>. QED BY <1>2, <1>4, <1>5, SameTruth

(***************************************************************************)
(* The proxies and the connections.                                        *)
(***************************************************************************)
LEMMA TruthRegister ==
    ASSUME TypeOK, TruthInv, NEW x \in Proxy, RegisterProxy(x),
           NEW q \in Player, q \notin disturbed'
    PROVE  Truth(q)'
<1>1. /\ life[x] = "new" /\ proxies' = proxies \cup {x}
      /\ UNCHANGED <<position, op, removal, session, closing, disturbed>>
      /\ \A z \in Proxy : life'[z] = IF z = x THEN "up" ELSE life[z]
  BY DEF RegisterProxy, store, TypeOK
<1>2. Truth(q)
  BY <1>1 DEF TruthInv
<1>3. session[x][q] = "none" /\ ~Recorded(q, x)
  BY <1>1 DEF TruthInv, LivesOK, Alive, Recorded
<1>4. \A z \in Proxy : Recorded(q, z)' <=> Recorded(q, z)
  BY <1>1, SameRecorded
<1>. QED BY <1>1, <1>2, <1>3, <1>4 DEF Truth

LEMMA TruthProcessEnds ==
    ASSUME TypeOK, TruthInv, NEW x \in Proxy, ProcessEnds(x),
           NEW q \in Player, q \notin disturbed'
    PROVE  Truth(q)'
<1>1. /\ UNCHANGED <<position, proxies>>
      /\ \A z \in Proxy : life'[z] = IF z = x THEN "down" ELSE life[z]
      /\ \A z \in Proxy : session'[z][q] = IF z = x THEN "none" ELSE session[z][q]
      /\ \A z \in Proxy : <<z, q>> \in closing' <=> <<z, q>> \in closing /\ z # x
      /\ \A t \in Task : removal'[t] \in {None, removal[t]}
  BY DEF ProcessEnds, store, TypeOK
<1>2. /\ q \notin disturbed
      /\ \A h \in Handler : op'[h] = op[h] \/ (~About(op[h], q) /\ ~About(op'[h], q))
  BY DEF ProcessEnds, About
<1>3. Truth(q)
  BY <1>2 DEF TruthInv
<1>4. \A z \in Proxy : Recorded(q, z)' <=> Recorded(q, z)
  BY <1>1, <1>2, SameRecorded
<1>. QED BY <1>1, <1>3, <1>4 DEF Truth

LEMMA TruthConnection ==
    ASSUME TypeOK, TruthInv, NEW x \in Proxy, NEW p \in Player,
           PlayerLogin(x, p) \/ ConnectionEnds(x, p),
           NEW q \in Player, q \notin disturbed'
    PROVE  Truth(q)'
<1>1. UNCHANGED <<position, proxies, op, removal, life, disturbed>>
  BY DEF PlayerLogin, ConnectionEnds, store
<1>2. Truth(q) /\ OneSession(q)
  BY <1>1 DEF TruthInv
<1>3. \A z \in Proxy : Recorded(q, z)' <=> Recorded(q, z)
  BY <1>1, SameRecorded
<1>4. CASE PlayerLogin(x, p)
  <2>1. /\ closing' = closing
        /\ \A z \in Proxy : session'[z][q] = "playing" <=> session[z][q] = "playing"
    BY <1>4 DEF PlayerLogin, TypeOK
  <2>. QED BY <1>1, <1>2, <1>3, <2>1 DEF Truth
<1>5. CASE ConnectionEnds(x, p)
  <2>1. /\ closing' = closing \cup {<<x, p>>}
        /\ session[x][p] # "none"
        /\ \A z \in Proxy : session'[z][q] = IF z = x /\ q = p THEN "none" ELSE session[z][q]
    BY <1>5 DEF ConnectionEnds, TypeOK
  <2>2. CASE q # p
    BY <1>1, <1>2, <1>3, <2>1, <2>2, SameTruth DEF Truth
  <2>3. CASE q = p
    <3>1. \A z \in Proxy : session'[z][q] # "playing"
      BY <1>2, <2>1, <2>3 DEF OneSession
    <3>2. \A z \in Proxy : session[z][q] = "playing" => z = x
      BY <1>2, <2>1, <2>3 DEF OneSession
    <3>. QED BY <1>1, <1>2, <1>3, <2>1, <2>3, <3>1, <3>2 DEF Truth
  <2>. QED BY <2>2, <2>3
<1>. QED BY <1>4, <1>5

(***************************************************************************)
(* The invariant holds at the start and every step keeps it.               *)
(***************************************************************************)
LEMMA TruthInit == Init => TruthInv
  BY DEF Init, TruthInv, LivesOK, OneSession, Truth, Recorded, Moving, Unregistering, Alive,
         ProxyOf

LEMMA TruthNext == TypeOK /\ IndexInv /\ TruthInv /\ [Next]_vars => TruthInv'
<1> SUFFICES ASSUME TypeOK, IndexInv, TruthInv, [Next]_vars PROVE TruthInv'
  OBVIOUS
<1>1. LivesOK' /\ \A p \in Player : OneSession(p)'
  BY LivesNext, OneSessionNext DEF TruthInv
<1>2. ASSUME NEW q \in Player, q \notin disturbed'
      PROVE  Truth(q)'
  <2>1. ASSUME NEW h \in Handler, NEW x \in Proxy, NEW p \in Player,
               PlayerDisconnect(h, x, p)
        PROVE  Truth(q)'
    BY <1>2, <2>1, TruthDisconnect
  <2>2. ASSUME NEW h \in Handler, NEW x \in Proxy, NEW p \in Player, NEW s \in Server,
               ServerPostConnect(h, x, p, s)
        PROVE  Truth(q)'
    BY <1>2, <2>2, TruthConnect
  <2>3. ASSUME NEW h \in Handler, HandlerStep(h)
        PROVE  Truth(q)'
    BY <1>2, <2>3, TruthHandler
  <2>4. ASSUME NEW t \in Task, TaskStep(t)
        PROVE  Truth(q)'
    BY <1>2, <2>4, TruthTask
  <2>5. ASSUME NEW t \in Task, NEW x \in Proxy, Shutdown(t, x)
        PROVE  Truth(q)'
    BY <1>2, <2>5, TruthUnregister DEF Shutdown, store, TypeOK
  <2>6. ASSUME NEW t \in Task, NEW x \in Proxy, NEW y \in Proxy, PurgeLostProxy(t, y, x)
        PROVE  Truth(q)'
    BY <1>2, <2>6, TruthUnregister DEF PurgeLostProxy, store, agents
  <2>7. ASSUME NEW x \in Proxy, RegisterProxy(x)
        PROVE  Truth(q)'
    BY <1>2, <2>7, TruthRegister
  <2>8. ASSUME NEW x \in Proxy, Crash(x) \/ ShutdownReturns(x)
        PROVE  Truth(q)'
    BY <1>2, <2>8, TruthProcessEnds DEF Crash, ShutdownReturns
  <2>9. ASSUME NEW x \in Proxy, NEW p \in Player, PlayerLogin(x, p) \/ ConnectionEnds(x, p)
        PROVE  Truth(q)'
    BY <1>2, <2>9, TruthConnection
  <2>10. CASE \/ \E s \in Server : UnregisterServer(s)
              \/ \E x \in Proxy : MissHeartbeats(x) \/ UpdateProxyLastSeen(x)
              \/ UNCHANGED vars
    <3>1. UNCHANGED <<position, proxies, op, removal, life, session, closing, disturbed>>
      BY <2>10 DEF UnregisterServer, MissHeartbeats, UpdateProxyLastSeen, vars, store, agents
    <3>2. Truth(q)
      BY <1>2, <3>1 DEF TruthInv
    <3>3. \A x \in Proxy : Recorded(q, x)' <=> Recorded(q, x)
      BY <3>1, SameRecorded
    <3>. QED BY <3>1, <3>2, <3>3, SameTruth DEF Truth
  <2>. QED BY <2>1, <2>2, <2>3, <2>4, <2>5, <2>6, <2>7, <2>8, <2>9, <2>10 DEF Next
<1>. QED BY <1>1, <1>2 DEF TruthInv

(***************************************************************************)
(* The inductive invariant: also while an operation is in flight the cache *)
(* is about to say where an undisturbed player plays, and a proxy's name   *)
(* never comes back once unregisterProxy has unlisted it.                  *)
(***************************************************************************)
THEOREM TruthAlways == Spec => []TruthInv
BY InitType, NextType, IndexInit, IndexNext, TruthInit, TruthNext, PTL DEF Spec

(***************************************************************************)
(* The cache says of every player whose operations never overlapped where  *)
(* it plays, whatever proxies crash, are purged or purge others meanwhile. *)
(***************************************************************************)
THEOREM PresenceIsTruthful == Spec => []PresenceTruthful
<1>1. TypeOK /\ TruthInv => PresenceTruthful
  BY DEF TruthInv, PresenceTruthful, Truth, Recorded, InFlight, ProxyOf, Position, TypeOK
<1>. QED BY TypeCorrect, TruthAlways, <1>1, PTL
=============================================================================
