----------------------------- MODULE Matchmaking -----------------------------
(***************************************************************************)
(* Players who wait for a game, and the servers they are sent to.          *)
(*                                                                         *)
(* The director prepares the queues that the controller registered, asks   *)
(* Open Match for the matches of one after the other, has the operator     *)
(* allocate or summon a server for each match, and assigns its tickets.    *)
(* The batch matching function, called by Open Match, proposes the matches *)
(* from the waiting tickets and from the backfills, which are free places  *)
(* on servers that already play.  Any failure ends the whole tick; what it *)
(* drops comes back when Open Match releases the pending tickets.  Open    *)
(* Match, Agones, the players and the plugin that reports the server of a  *)
(* backfill are external.  Queues are named by their tag; one namespace.   *)
(* Numbers of players are below 2^31, where u32 and i32 agree.             *)
(***************************************************************************)
EXTENDS Integers, FiniteSets, FiniteSetsExt, SequencesExt

CONSTANTS
    Queue,
    QueueSpecs,   \* the specs a user may give a MatchmakingQueue
    ServerFleet,  \* the MinecraftServerFleets that there are, each with its Agones Fleet
    MaxTickets, MaxServers, MaxBackfills,   \* bounds: how many there can be
    MaxEdits,     \* bound: changes of the specs
    MaxEvents,    \* bound: failures and players who leave, together
    None

Ticket == 1 .. MaxTickets
Server == 1 .. MaxServers
Backfill == 1 .. MaxBackfills

Matches == [tickets : SUBSET Ticket, backfill : Backfill \cup {None}, fresh : BOOLEAN,
            server : Server \cup {None}]
FreePlaces == [queue : Queue, server : Server \cup {None}, slots : Nat]

ASSUME BoundAssumption == /\ MaxTickets \in Nat /\ MaxServers \in Nat /\ MaxBackfills \in Nat
                          /\ MaxEdits \in Nat /\ MaxEvents \in Nat
\* maxPlayers is a u32, minPlayers an optional one.
ASSUME SpecAssumption == \A spec \in QueueSpecs : spec.max \in Nat /\ spec.min \in Nat \cup {None}
ASSUME NoneAssumption == None \notin Nat \cup Matches \cup FreePlaces

VARIABLES
    resource,   \* the MatchmakingQueues: their spec, and whether they are being deleted
    registry,   \* the queues of the QueueRegistry
    director,   \* what the running tick holds
    ticket,     \* where each player is: the tag, and the server once assigned
    backfill,   \* the free places that Open Match knows of
    server,     \* the GameServers
    edits,      \* changes of the specs
    faults,     \* calls that failed and directors that ended
    leaves      \* players who stopped waiting or playing

vars == <<resource, registry, director, ticket, backfill, server, edits, faults, leaves>>

Eventful == faults + leaves < MaxEvents

-----------------------------------------------------------------------------
(* The matching function: tickets and backfills come in the order of the   *)
(* query, in which Open Match makes no promise.                             *)

Match(tickets, b, fresh, id) == [tickets |-> ToSet(tickets), backfill |-> b, fresh |-> fresh,
                                 server |-> id]

Full(tickets) == Match(tickets, None, FALSE, None)

Least(a, b) == IF a < b THEN a ELSE b

(* A backfill takes as many tickets as it has places; `done` is what the   *)
(* backfills before it left.                                                *)
Fill(places, b, done, Takes(_, _)) ==
    LET n == Takes(places[b].slots, Len(done.tickets)) IN
    IF n = 0 THEN done
    ELSE [matches |-> done.matches \cup {Match(SubSeq(done.tickets, 1, n), b, FALSE,
                                               places[b].server)},
          slots |-> [done.slots EXCEPT ![b] = @ - n],
          tickets |-> SubSeq(done.tickets, n + 1, Len(done.tickets))]

(* Each backfill in turn: the matches, the places left in each backfill,   *)
(* and the tickets left.                                                    *)
Filling(places, order, tickets, Takes(_, _)) ==
    LET after[i \in 0 .. Len(order)] ==
            IF i = 0
            THEN [matches |-> {}, slots |-> [b \in DOMAIN places |-> places[b].slots],
                  tickets |-> tickets]
            ELSE Fill(places, order[i], after[i - 1], Takes)
    IN  after[Len(order)]

(* Mutant: a backfill takes all the tickets. *)
TakesAll(places, order, tickets) ==
    Filling(places, order, tickets, LAMBDA slots, waiting : waiting)

(* Mutant: a backfill keeps its places. *)
KeepsPlaces(places, order, tickets) ==
    [Filling(places, order, tickets, Least) EXCEPT
        !.slots = [b \in DOMAIN places |-> places[b].slots]]

fill_existing_backfills(places, order, tickets) == Filling(places, order, tickets, Least)

(* Mutant: a match that would be just full is left to the next round. *)
OneMore(max, tickets) ==
    LET n == (Len(tickets) - 1) \div max IN
    [matches |-> {Full(SubSeq(tickets, i * max + 1, (i + 1) * max)) : i \in 0 .. n - 1},
     tickets |-> SubSeq(tickets, n * max + 1, Len(tickets))]

(* While there are enough tickets for a full match, it is made. *)
create_full_matches(max, tickets) ==
    LET n == Len(tickets) \div max IN
    [matches |-> {Full(SubSeq(tickets, i * max + 1, (i + 1) * max)) : i \in 0 .. n - 1},
     tickets |-> SubSeq(tickets, n * max + 1, Len(tickets))]

Smallest(profile) == IF profile.min = None THEN profile.max ELSE profile.min

(* Mutant: the smallest match is not made. *)
MoreThanSmallest(profile, b, tickets) ==
    IF Len(tickets) <= Smallest(profile) THEN {}
    ELSE {Match(SubSeq(tickets, 1, Least(Len(tickets), profile.max)), b, TRUE, None)}

(* The tickets left are a match of their own if they are enough. *)
create_last_partial_match(profile, b, tickets) ==
    IF Len(tickets) < Smallest(profile) THEN {}
    ELSE {Match(SubSeq(tickets, 1, Least(Len(tickets), profile.max)), b, TRUE, None)}

create_matches(profile, places, order, b, tickets) ==
    LET filled == fill_existing_backfills(places, order, tickets)
        full == create_full_matches(profile.max, filled.tickets)
        last == IF full.tickets = <<>> THEN {}
                ELSE create_last_partial_match(profile, b, full.tickets)
    IN [matches |-> filled.matches \cup full.matches \cup last, slots |-> filled.slots]

(* With no player per match the loop of create_full_matches does not end. *)
LoopsForever(profile) == profile.max = 0

-----------------------------------------------------------------------------
(* The registry of queues. *)

Valid(spec) == spec.mmf # None

PreparedQueue(spec) == [fleet |-> spec.fleet, mmf |-> spec.mmf, min |-> spec.min, max |-> spec.max]

(* Mutant: the limits of a queue that is known stay as they were. *)
KeepsProfile(q) ==
    LET spec == resource[q].spec IN
    registry' = [registry EXCEPT ![q] =
        IF @ = None THEN IF Valid(spec) THEN PreparedQueue(spec) ELSE None
        ELSE [@ EXCEPT !.fleet = spec.fleet, !.mmf = spec.mmf]]

(* A spec that names no matching function is refused, after its fleet was  *)
(* taken over by a queue that is known, which keeps its matching function.  *)
register_queue(q) ==
    LET spec == resource[q].spec IN
    registry' = [registry EXCEPT ![q] =
        IF Valid(spec) THEN PreparedQueue(spec)
        ELSE IF @ = None THEN None ELSE [@ EXCEPT !.fleet = spec.fleet]]

unregister_queue(q) == registry' = [registry EXCEPT ![q] = None]

(* The controller; it holds no finalizer, so it seldom sees a deletion. *)
Reconcile(q) ==
    /\ resource[q] # None
    /\ IF resource[q].deleting THEN unregister_queue(q) ELSE register_queue(q)
    /\ registry' # registry
    /\ UNCHANGED <<resource, director, ticket, backfill, server, edits, faults, leaves>>

-----------------------------------------------------------------------------
(* The director. *)

Idle == [todo |-> <<>>, queue |-> None, matches |-> {}, match |-> None, server |-> None]

Registered == {q \in Queue : registry[q] # None}

(* A tick works on a copy of the registry. *)
try_fetch_matches_for_all_queues ==
    /\ director = Idle
    /\ Registered # {}
    /\ director' = [Idle EXCEPT !.todo = [q \in Registered |-> registry[q]]]
    /\ UNCHANGED <<resource, registry, ticket, backfill, server, edits, faults, leaves>>

Waiting(q) == {t \in Ticket : ticket[t].state = "active" /\ ticket[t].queue = q}

Places(q) == {b \in Backfill : backfill[b] # None /\ backfill[b].queue = q}

BetweenQueues == director.matches = {} /\ director.match = None

\* The free id that Open Match gives to a new backfill.
FreeBackfills == {b \in Backfill : backfill[b] = None}

(* The tickets of the matches are pending from now on, and the backfills   *)
(* have the places left that the matches leave.                             *)
try_fetch_matches_for_queue(q) ==
    /\ BetweenQueues /\ q \in DOMAIN director.todo
    /\ ~LoopsForever(director.todo[q])
    /\ FreeBackfills # {}
    /\ \E tickets \in SetToSeqs(Waiting(q)), order \in SetToSeqs(Places(q)) :
        LET b == Min(FreeBackfills)
            profile == director.todo[q]
            made == create_matches(profile, [p \in Places(q) |-> backfill[p]], order, b, tickets)
            taken == UNION {m.tickets : m \in made.matches}
            fresh == {m \in made.matches : m.fresh}
        IN  /\ director' = [director EXCEPT
                   !.todo = [p \in DOMAIN @ \ {q} |-> @[p]],
                   !.queue = profile,
                   !.matches = made.matches]
            /\ ticket' = [t \in Ticket |-> IF t \in taken THEN [ticket[t] EXCEPT !.state = "pending"]
                                           ELSE ticket[t]]
            /\ backfill' = [p \in Backfill |->
                   IF p \in Places(q) THEN [backfill[p] EXCEPT !.slots = made.slots[p]]
                   ELSE IF p = b /\ fresh # {}
                   THEN [queue |-> q, server |-> None,
                         slots |-> profile.max - Cardinality((CHOOSE m \in fresh : TRUE).tickets)]
                   ELSE backfill[p]]
    /\ UNCHANGED <<resource, registry, server, edits, faults, leaves>>

(* The call ends with an error when the matching function does not answer. *)
FetchFails(q) ==
    /\ BetweenQueues /\ q \in DOMAIN director.todo
    /\ LoopsForever(director.todo[q])
    /\ director' = Idle
    /\ UNCHANGED <<resource, registry, ticket, backfill, server, edits, faults, leaves>>

Rest ==
    /\ BetweenQueues /\ director # Idle /\ director.todo = <<>>
    /\ director' = Idle
    /\ UNCHANGED <<resource, registry, ticket, backfill, server, edits, faults, leaves>>

NeedsServer(m) == m.fresh \/ m.backfill = None

Ready(fleet) == {s \in Server : server[s].state = "ready" /\ server[s].fleet = fleet}
Unborn == {s \in Server : server[s].state = "none"}

Given(s, state, m) ==
    [server[s] EXCEPT !.state = state, !.fleet = director.queue.fleet,
                      !.summoned = @ \/ state = "starting",
                      !.backfill = IF m.backfill = None THEN @ ELSE m.backfill,
                      !.cap = IF @ = 0 THEN director.queue.max ELSE @]

allocate(s, m) == Given(s, "allocated", m)

(* A GameServer of the fleet's template, with the annotations of the match. *)
summon_from_minecraft_server_fleet(s, m) == Given(s, "starting", m)

(* Agones allocates a server that is ready; if there is none, or if that   *)
(* call fails, perhaps after it was made, a server is summoned, which       *)
(* nobody allocated.                                                        *)
allocate_from_fleet(m, s) ==
    LET fleet == director.queue.fleet IN
    \/ /\ s \in Ready(fleet)
       /\ server' = [server EXCEPT ![s] = allocate(s, m)]
       /\ UNCHANGED faults
    \/ /\ Ready(fleet) = {} /\ Unborn # {} /\ s = Min(Unborn)
       /\ server' = [server EXCEPT ![s] = summon_from_minecraft_server_fleet(s, m)]
       /\ UNCHANGED faults
    \/ /\ Eventful /\ faults' = faults + 1
       /\ Unborn # {} /\ s = Min(Unborn)
       /\ \/ server' = [server EXCEPT ![s] = summon_from_minecraft_server_fleet(s, m)]
          \/ \E lost \in Ready(fleet) :
                server' = [server EXCEPT ![lost] = allocate(lost, m),
                                         ![s] = summon_from_minecraft_server_fleet(s, m)]

(* Before it allocates, the operator looks the fleet up; and a match for   *)
(* places whose server nobody reported has no server either.               *)
Unanswerable(m) ==
    IF NeedsServer(m) THEN director.queue.fleet \notin ServerFleet ELSE m.server = None

Taking(m, s) == [director EXCEPT !.matches = @ \ {m}, !.match = m, !.server = s]

(* Mutant: a server is allocated before the match says whether it needs one. *)
AllocatesFirst(m) ==
    /\ m \in director.matches /\ director.match = None
    /\ \E s \in Server : allocate_from_fleet(m, s) /\
           director' = IF Unanswerable(m) THEN Idle
                       ELSE IF NeedsServer(m) THEN Taking(m, s) ELSE Taking(m, m.server)
    /\ UNCHANGED <<resource, registry, ticket, backfill, edits, leaves>>

(* Mutant: the tick ends if no server of the fleet is ready. *)
GivesUp(m) ==
    /\ m \in director.matches /\ director.match = None
    /\ IF Unanswerable(m) \/ Ready(director.queue.fleet) = {} THEN director' = Idle /\ UNCHANGED <<server, faults>>
       ELSE \E s \in Server : allocate_from_fleet(m, s) /\ director' = Taking(m, s)
    /\ UNCHANGED <<resource, registry, ticket, backfill, edits, leaves>>

(* The matches come in any order.  One for which there is no server ends   *)
(* the tick.                                                                *)
try_allocate_match(m) ==
    /\ m \in director.matches /\ director.match = None
    /\ \/ Unanswerable(m) /\ director' = Idle /\ UNCHANGED <<server, faults>>
       \/ /\ ~Unanswerable(m) /\ NeedsServer(m)
          /\ \E s \in Server : allocate_from_fleet(m, s) /\ director' = Taking(m, s)
       \/ /\ ~Unanswerable(m) /\ ~NeedsServer(m)
          /\ director' = Taking(m, m.server) /\ UNCHANGED <<server, faults>>
    /\ UNCHANGED <<resource, registry, ticket, backfill, edits, leaves>>

(* Tickets that are gone are reported as failed, which nobody reads. *)
assign_tickets ==
    /\ director.match # None
    /\ LET there == {t \in director.match.tickets : ticket[t].state # "gone"} IN
       /\ ticket' = [t \in Ticket |-> IF t \in there
                         THEN [ticket[t] EXCEPT !.state = "assigned", !.server = director.server]
                         ELSE ticket[t]]
       /\ server' = [server EXCEPT ![director.server].used = @ \/ there # {}]
    /\ director' = [director EXCEPT !.match = None, !.server = None]
    /\ UNCHANGED <<resource, registry, backfill, edits, faults, leaves>>

(* A call of the tick fails; of an allocation, perhaps after it was made. *)
CallFails ==
    /\ director # Idle /\ Eventful
    /\ faults' = faults + 1
    /\ director' = Idle
    /\ \/ UNCHANGED server
       \/ /\ director.match = None
          /\ \E m \in director.matches : NeedsServer(m) /\
                 \E s \in Ready(director.queue.fleet) :
                     server' = [server EXCEPT ![s] = allocate(s, m)]
    /\ UNCHANGED <<resource, registry, ticket, backfill, edits, leaves>>

(* The director ends, also when the stream of matches breaks off: its      *)
(* unwrap panics.  The next one starts with an empty registry.             *)
Crash ==
    /\ Eventful
    /\ faults' = faults + 1
    /\ director' = Idle
    /\ registry' = [q \in Queue |-> None]
    /\ UNCHANGED <<resource, ticket, backfill, server, edits, leaves>>

-----------------------------------------------------------------------------
(* The environment. *)

(* A user changes or deletes a queue; something else may hold it back. *)
Edit(q) ==
    /\ edits < MaxEdits /\ edits' = edits + 1
    /\ \/ \E spec \in QueueSpecs : resource' = [resource EXCEPT ![q] = [spec |-> spec, deleting |-> FALSE]]
       \/ /\ resource[q] # None
          /\ \/ resource' = [resource EXCEPT ![q] = None]
             \/ resource' = [resource EXCEPT ![q].deleting = TRUE]
    /\ UNCHANGED <<registry, director, ticket, backfill, server, faults, leaves>>

Removed(q) ==
    /\ resource[q] # None /\ resource[q].deleting
    /\ resource' = [resource EXCEPT ![q] = None]
    /\ UNCHANGED <<registry, director, ticket, backfill, server, edits, faults, leaves>>

(* A player joins a queue that exists. *)
Queued(t, q) ==
    /\ resource[q] # None
    /\ ticket[t].state = "new" /\ \A u \in 1 .. t - 1 : ticket[u].state # "new"
    /\ ticket' = [ticket EXCEPT ![t].state = "active", ![t].queue = q]
    /\ UNCHANGED <<resource, registry, director, backfill, server, edits, faults, leaves>>

Cancel(t) ==
    /\ ticket[t].state \in {"active", "pending"}
    /\ Eventful /\ leaves' = leaves + 1
    /\ ticket' = [ticket EXCEPT ![t].state = "gone"]
    /\ UNCHANGED <<resource, registry, director, backfill, server, edits, faults>>

(* Open Match lets go of a ticket that was pending for too long. *)
Release(t) ==
    /\ ticket[t].state = "pending"
    /\ ticket' = [ticket EXCEPT ![t].state = "active"]
    /\ UNCHANGED <<resource, registry, director, backfill, server, edits, faults, leaves>>

(* The server that a backfill was given to reports itself.                 *)
Acknowledge(s) ==
    /\ server[s].state \in {"ready", "allocated"} /\ server[s].backfill # None
    /\ backfill[server[s].backfill].server # s
    /\ backfill' = [backfill EXCEPT ![server[s].backfill].server = s]
    /\ UNCHANGED <<resource, registry, director, ticket, server, edits, faults, leaves>>

(* A backfill expires, or its server deletes it.  Its id is used again     *)
(* here, so what still names it forgets it.                                *)
BackfillEnds(b) ==
    /\ backfill[b] # None
    /\ \A m \in director.matches \cup {director.match} : m # None => m.backfill # b
    /\ backfill' = [backfill EXCEPT ![b] = None]
    /\ server' = [s \in Server |-> IF server[s].backfill = b THEN [server[s] EXCEPT !.backfill = None]
                                   ELSE server[s]]
    /\ UNCHANGED <<resource, registry, director, ticket, edits, faults, leaves>>

(* A summoned server has started, or the fleet is refilled. *)
Start(s) ==
    /\ server[s].state = "starting"
    /\ server' = [server EXCEPT ![s].state = "ready"]
    /\ UNCHANGED <<resource, registry, director, ticket, backfill, edits, faults, leaves>>

Sent(s) == {t \in Ticket : ticket[t].state = "assigned" /\ ticket[t].server = s}

(* The server agent: the first player who joins has the server allocated.  *)
onPlayerJoin(t) ==
    LET s == ticket[t].server IN
    /\ ticket[t].state = "assigned" /\ server[s].state = "ready"
    /\ server' = [server EXCEPT ![s].state = "allocated"]
    /\ UNCHANGED <<resource, registry, director, ticket, backfill, edits, faults, leaves>>

(* The last player who quits makes it ready again, even if others were     *)
(* sent there and are on the way.                                           *)
onPlayerQuit(t) ==
    LET s == ticket[t].server IN
    /\ ticket[t].state = "assigned" /\ server[s].state = "allocated"
    /\ Eventful /\ leaves' = leaves + 1
    /\ ticket' = [ticket EXCEPT ![t].state = "gone"]
    /\ \/ server' = [server EXCEPT ![s].state = "ready", ![s].reopened = TRUE]
       \/ Sent(s) # {t} /\ UNCHANGED server
    /\ UNCHANGED <<resource, registry, director, backfill, edits, faults>>

-----------------------------------------------------------------------------
NewTicket == [state |-> "new", queue |-> None, server |-> None]
NoServer == [state |-> "none", fleet |-> None, summoned |-> FALSE, reopened |-> FALSE,
             backfill |-> None, used |-> FALSE, cap |-> 0]

Refilled(fleet) ==
    server = [s \in Server |-> IF s = 1 /\ fleet # None
                  THEN [NoServer EXCEPT !.state = "ready", !.fleet = fleet] ELSE NoServer]

(* Some queues exist, and a fleet has at most one server ready. *)
Init ==
    /\ resource \in [Queue -> {None} \cup [spec : QueueSpecs, deleting : {FALSE}]]
    /\ registry = [q \in Queue |-> None]
    /\ director = Idle
    /\ ticket = [t \in Ticket |-> NewTicket]
    /\ backfill = [b \in Backfill |-> None]
    /\ \E fleet \in {None} \cup ({spec.fleet : spec \in QueueSpecs} \cap ServerFleet) : Refilled(fleet)
    /\ edits = 0 /\ faults = 0 /\ leaves = 0

Fetches == \E q \in Queue : try_fetch_matches_for_queue(q) \/ FetchFails(q)
Allocates == \E m \in director.matches : try_allocate_match(m)

Next ==
    \/ \E q \in Queue : Reconcile(q) \/ Edit(q) \/ Removed(q)
    \/ try_fetch_matches_for_all_queues \/ Fetches \/ Rest \/ Allocates \/ assign_tickets
    \/ CallFails \/ Crash
    \/ \E t \in Ticket : \/ \E q \in Queue : Queued(t, q)
                         \/ Cancel(t) \/ Release(t) \/ onPlayerJoin(t) \/ onPlayerQuit(t)
    \/ \E b \in Backfill : BackfillEnds(b)
    \/ \E s \in Server : Acknowledge(s) \/ Start(s)

(* The tasks of the director go on; Open Match lets go of what nobody      *)
(* acknowledges.  Players need not do anything.                             *)
Fairness ==
    /\ \A q \in Queue : WF_vars(Reconcile(q))
    /\ WF_vars(try_fetch_matches_for_all_queues)
    /\ WF_vars(Fetches) /\ WF_vars(Rest) /\ WF_vars(Allocates) /\ WF_vars(assign_tickets)
    /\ \A t \in Ticket : WF_vars(Release(t))
    /\ \A b \in Backfill : WF_vars(BackfillEnds(b))

Spec == Init /\ [][Next]_vars
FairSpec == Spec /\ Fairness

-----------------------------------------------------------------------------
(* The variables have their types. *)
TypeOK ==
    /\ \A q \in Queue : /\ resource[q] # None => resource[q].spec \in QueueSpecs
                        /\ registry[q] # None => registry[q].max \in Nat
    /\ director.matches \subseteq Matches
    /\ director.match \in Matches \cup {None}
    /\ director.server \in Server \cup {None}
    /\ ticket \in [Ticket -> [state : {"new", "active", "pending", "assigned", "gone"},
                              queue : Queue \cup {None}, server : Server \cup {None}]]
    /\ \A b \in Backfill : backfill[b] # None => backfill[b].slots \in Nat
    /\ \A s \in Server : server[s].cap \in Nat /\ server[s].backfill \in Backfill \cup {None}

(* What the matching function proposes (MatchFunctionBatch::create_matches):*)
(* no ticket is in two matches, no match has more than its places, what a  *)
(* backfill has left is what its match leaves, and fewer players than the  *)
(* smallest match stay behind.                                              *)
Proposes(q) ==
    LET matches == director'.matches
        profile == director.todo[q]
        behind == Waiting(q) \ UNION {m.tickets : m \in matches}
    IN  /\ \A m, n \in matches : m # n => m.tickets \cap n.tickets = {}
        /\ \A m \in matches :
              LET size == Cardinality(m.tickets) IN
              /\ size > 0 /\ m.tickets \subseteq Waiting(q)
              /\ IF m.backfill = None THEN size = profile.max
                 ELSE /\ size + backfill'[m.backfill].slots =
                            IF m.fresh THEN profile.max ELSE backfill[m.backfill].slots
                      /\ backfill'[m.backfill].slots >= 0
                      /\ m.fresh => backfill'[m.backfill].slots > 0
        /\ Cardinality(behind) < Smallest(profile) \/ behind = {}

BatchServesTheQueue ==
    [][\A q \in DOMAIN director.todo :
           director'.queue # None /\ q \notin DOMAIN director'.todo => Proposes(q)]_vars

(* Over all failures, backfills, new limits and released tickets, a server *)
(* holds no more players than the match it was given to had places.  Two   *)
(* kinds of servers are excepted, which the code can overfill: one that    *)
(* was summoned, which does not allocate it (sdk_grpc.rs), and one that    *)
(* was made ready again when its only player so far quit (onPlayerQuit).   *)
ServerNotOverfilled ==
    \A s \in Server : ~server[s].summoned /\ ~server[s].reopened =>
        Cardinality(Sent(s)) <= server[s].cap

(* A server that was allocated or summoned and that no player was sent to  *)
(* is paid for by a failure or by a player who left: the director takes no *)
(* server that it does not need.                                            *)
WastedOnlyByFailures ==
    Cardinality({s \in Server : server[s].cap > 0 /\ ~server[s].used /\ s # director.server})
        <= faults + leaves

(* The registry comes to hold what the user wrote last, also after the     *)
(* director was restarted.                                                  *)
RegistryFollows ==
    \A q \in Queue : []<>(resource[q] # None /\ ~resource[q].deleting /\ Valid(resource[q].spec)
                              => registry[q] = PreparedQueue(resource[q].spec))

(* Players do not wait for ever, although any failure ends the tick of all *)
(* queues and drops their matches: again and again fewer wait in a queue   *)
(* than a match needs.  The failures are finitely many (CallFails, Crash). *)
(* Three kinds of queues are excepted, since each of their matches ends    *)
(* the tick, and the queues after them get no turn: one that hangs the     *)
(* matching function, one whose fleet there is not (targetFleetRef is not  *)
(* checked), and one that makes matches that are not full, whose backfills *)
(* no code here reports a server for (BackfillWithoutGameServerId).        *)
EndsTicks(q) ==
    /\ registry[q] # None
    /\ \/ LoopsForever(registry[q])
       \/ registry[q].fleet \notin ServerFleet
       \/ registry[q].min # None

EnoughWait(q) ==
    /\ registry[q] # None
    /\ Smallest(registry[q]) <=
           Cardinality({t \in Ticket : ticket[t].queue = q /\ ticket[t].state \in {"active", "pending"}})

PlayersAreServed ==
    \A q \in Queue : []<>(EnoughWait(q) => \E p \in Queue : EndsTicks(p))
=============================================================================
