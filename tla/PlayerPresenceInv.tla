-------------------------- MODULE PlayerPresenceInv --------------------------
(***************************************************************************)
(* The inductive invariants behind IndexExact, PresenceTruthful and        *)
(* HealthyProxyStaysListed.  For a player whose operations never           *)
(* overlapped the first says, at every command of the pipeline in flight,  *)
(* what each of the four keys holds, the second how that relates to the    *)
(* connections.                                                            *)
(***************************************************************************)
EXTENDS PlayerPresence

\* The player of a set, and what its pipeline has done so far to each key.
SetView(o, p) ==
    /\ p \in players <=> o.done > 0 \/ o.prev # None
    /\ position[p] = IF o.done > 1 THEN o.target ELSE o.prev
    /\ \A x \in Proxy : p \in onProxy[x] <=>
          \/ x \in ProxyOf(o.prev) /\ (o.done <= 2 \/ x \in ProxyOf(o.target))
          \/ x \in ProxyOf(o.target) /\ o.done > 3
    /\ \A s \in Server :
          LET kept == s \in ServerOf(o.prev) /\ (o.done <= 4 \/ s \in ServerOf(o.target))
          IN  /\ p \in onServer[s] => kept
              /\ kept /\ s \notin dropped => p \in onServer[s]

UnsetView(o, p) ==
    /\ p \in players <=> o.done = 0
    /\ position[p] = IF o.done > 1 THEN None ELSE o.prev
    /\ \A x \in Proxy : p \in onProxy[x] <=> x \in ProxyOf(o.prev) /\ o.done <= 2
    /\ \A s \in Server :
          /\ p \in onServer[s] => s \in ServerOf(o.prev)
          /\ s \in ServerOf(o.prev) \ dropped => p \in onServer[s]

\* A player that an unregisterProxy has still to clean: first as it was, then
\* off its proxy's SET, then (when it is `current`) losing one key after the other.
BeforeIndex == {"lookup", "unlist", "index"}
RemovalView(r, p) ==
    /\ r.stage \in BeforeIndex => Consistent(p) /\ r.proxy \in ProxyOf(position[p])
    /\ r.stage # "lookup" /\ (r.stage # "server" \/ r.current # p) =>
          position[p] # None /\ r.lookup[p] = ServerOf(position[p])
    /\ r.stage \notin BeforeIndex =>
          /\ p \in players <=> r.current # p
          /\ r.stage = "server" /\ r.current = p => position[p] = None
          /\ \A x \in Proxy : p \notin onProxy[x]
          /\ \A s \in Server :
                /\ p \in onServer[s] => s \in r.lookup[p]
                /\ s \in r.lookup[p] \ dropped => p \in onServer[s]

\* What the records of operations in flight look like.
OpsOK ==
    /\ \A h \in Handler : op[h] # None =>
          \/ op[h].kind = "set" /\ op[h].target # None
          \/ op[h].kind = "unset" /\ op[h].target = None /\ op[h].prev # None
                                  /\ op[h].done <= 3
    /\ \A t \in Task : removal[t] # None =>
          IF removal[t].stage \in {"hash", "server"}
          THEN removal[t].current \in removal[t].todo
          ELSE removal[t].current = None

\* At most one operation is in flight for an undisturbed player, and no
\* unregisterProxy of the proxy that a set is moving it to.
Alone(p) ==
    /\ \A g, h \in Handler :
          op[g] # None /\ op[h] # None /\ op[g].player = p /\ op[h].player = p => g = h
    /\ \A h \in Handler, t \in Task :
          op[h] # None /\ op[h].player = p /\ removal[t] # None =>
              p \notin removal[t].todo /\ removal[t].proxy \notin ProxyOf(op[h].target)
    /\ \A t, u \in Task :
          removal[t] # None /\ removal[u] # None
          /\ p \in removal[t].todo /\ p \in removal[u].todo => t = u

Views(p) ==
    /\ \A h \in Handler : op[h] # None /\ op[h].player = p =>
          IF op[h].kind = "set" THEN SetView(op[h], p) ELSE UnsetView(op[h], p)
    /\ \A t \in Task : removal[t] # None =>
          /\ p \in removal[t].todo => RemovalView(removal[t], p)
          /\ p \notin removal[t].todo /\ removal[t].stage \in BeforeIndex =>
                p \notin onProxy[removal[t].proxy]
    /\ ~InFlight(p) => Consistent(p)

(***************************************************************************)
(* The inductive invariant of the reverse index.                           *)
(***************************************************************************)
IndexInv ==
    /\ OpsOK
    /\ \A p \in Player \ disturbed : Alone(p) /\ Views(p)

(***************************************************************************)
(* The inductive invariant of the connections, with IndexInv.              *)
(***************************************************************************)
\* A proxy that has not started is nowhere in the cache, one that has ended runs
\* nothing, and one that was unlisted does not come back.
LivesOK ==
    /\ \A x \in Proxy :
          /\ life[x] = "new" => x \notin proxies /\ ~Unregistering(x)
          /\ ~Alive(x) => \A p \in Player : session[x][p] = "none"
          /\ \A p \in Player : x \in ProxyOf(position[p]) => life[x] # "new"
          /\ \A h \in Handler : op[h] # None /\ x \in ProxyOf(op[h].target) => life[x] # "new"
    /\ \A t \in Task : removal[t] # None /\ removal[t].stage \notin {"lookup", "unlist"} =>
          removal[t].proxy \notin proxies

OneSession(p) ==
    \A x, y \in Proxy : session[x][p] # "none" /\ session[y][p] # "none" => x = y

\* Where the player is recorded once the operation in flight is through.
Recorded(p, x) ==
    IF Moving(p) THEN \E h \in Handler : op[h] # None /\ op[h].player = p /\ x \in ProxyOf(op[h].target)
    ELSE x \in ProxyOf(position[p])

Truth(p) ==
    /\ \A x \in Proxy : session[x][p] = "playing" =>
          /\ \A y \in Proxy : <<y, p>> \notin closing
          /\ x \in proxies => Recorded(p, x)
    /\ \A x \in Proxy : Recorded(p, x) /\ life[x] = "up" =>
          session[x][p] = "playing" \/ <<x, p>> \in closing
    /\ \A t \in Task : removal[t] # None /\ p \in removal[t].todo /\ position[p] # None =>
          removal[t].proxy \in ProxyOf(position[p])

TruthInv ==
    /\ LivesOK
    /\ \A p \in Player : OneSession(p)
    /\ \A p \in Player \ disturbed : Truth(p)

(***************************************************************************)
(* The inductive invariant of the registry: the heartbeat of a live proxy  *)
(* that misses none is never old, so nothing is removing it.               *)
(***************************************************************************)
RegistryInv ==
    \A x \in Proxy \ Laggard :
        /\ life[x] = "up" => x \in proxies
        /\ life[x] \in {"new", "up"} => x \notin stale /\ ~Unregistering(x)
        /\ life[x] = "new" => x \notin proxies
=============================================================================
