---------------------------- MODULE MCMatchmaking ----------------------------
(* An instance of matchmaking: one fleet, and queues that start with two   *)
(* players at most, with one or two at least, with no matching function,   *)
(* with a fleet that there is not, or with no player at all.                *)
EXTENDS Matchmaking

QSpec(min, max, fleet, mmf) == [min |-> min, max |-> max, fleet |-> fleet, mmf |-> mmf]

Partial == QSpec(1, 2, "duels", "batch")
FullOnly == QSpec(None, 2, "duels", "batch")
NoMmf == QSpec(None, 2, "games", None)
NoFleet == QSpec(None, 2, "games", "batch")
NoPlayer == QSpec(1, 0, "duels", "batch")

MCSpecs == {Partial, FullOnly, NoMmf, NoFleet, NoPlayer}

(* One queue and every player, with failures and players who leave; one    *)
(* queue that is edited, and one player less; or two queues of one user    *)
(* each, and no event.                                                      *)
Holds(q, specs) == resource[q] # None /\ resource[q].spec \in specs

Players(n) == ticket = [t \in Ticket |-> IF t <= n THEN NewTicket ELSE [NewTicket EXCEPT !.state = "gone"]]

OneQueue(q) == Holds(q, {Partial, FullOnly}) /\ \A p \in Queue \ {q} : resource[p] = None

Failing == OneQueue(CHOOSE q \in Queue : TRUE) /\ Players(MaxTickets) /\ edits = MaxEdits /\ faults = 0

Edited == OneQueue(CHOOSE q \in Queue : TRUE) /\ Players(MaxTickets - 1) /\ edits = 0 /\ faults = MaxEvents

TwoQueues == (\A q \in Queue : resource[q] # None) /\ Players(MaxTickets - 1) /\ edits = MaxEdits
                /\ faults = MaxEvents

MCInit ==
    /\ resource \in [Queue -> {None} \cup [spec : QueueSpecs, deleting : {FALSE}]]
    /\ edits \in {0, MaxEdits} /\ faults \in {0, MaxEvents} /\ leaves = 0
    /\ \E n \in {MaxTickets - 1, MaxTickets} : Players(n)
    /\ Failing \/ Edited \/ TwoQueues
    /\ registry = [q \in Queue |-> None] /\ director = Idle /\ backfill = [b \in Backfill |-> None]
    /\ \E fleet \in {None, "duels"} : Refilled(fleet)

MCSpec == MCInit /\ [][Next]_vars /\ Fairness
=============================================================================
