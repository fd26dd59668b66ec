------------------------- MODULE MCServerDirectory -------------------------
(***************************************************************************)
(* An instance of ServerDirectory for TLC: two worlds.  In the one, both   *)
(* proxies start while a GameServer comes and goes; the API and the file   *)
(* have had all their changes.  In the other, one proxy, of either         *)
(* software, is up and the API and the file change; the other proxy does   *)
(* not exist.                                                              *)
(***************************************************************************)
EXTENDS ServerDirectory

First == CHOOSE x \in Proxy : TRUE

Unstarted ==
    /\ gameServer = [s \in Server |-> "none"]
    /\ seen = [x \in Proxy |-> gameServer]
    /\ calls = [x \in Proxy |-> [t \in Thread |-> <<>>]]
    /\ client = [k \in Client |-> None]
    /\ used = file
    /\ ghosts = {}

Starting ==
    /\ file = {}
    /\ info = [s \in Server |-> None]
    /\ backend = [x \in Proxy |-> info]
    /\ authoritative = [x \in Proxy |-> {}]
    /\ external = authoritative
    /\ boot = [x \in Proxy |-> "off"]
    /\ watched = [x \in Proxy |-> MaxEdits]
    /\ made = MaxCalls
    /\ edits = MaxEdits

\* On BungeeCord the file may lose a name, on Velocity it may get one, which leaves one
\* call less to the API.  The proxy that does not exist has not been told of the file.
Up ==
    \E up \in Proxy :
    LET Only(own, none) == [x \in Proxy |-> IF x = up THEN own ELSE none]
    IN  /\ file = IF up \in BungeeCord THEN Server ELSE {}
        /\ info = [s \in Server |-> IF s \in file
                                        THEN [source |-> "config", address |-> "config"]
                                        ELSE None]
        /\ backend = Only([s \in Server |-> IF s \in file THEN "config" ELSE None],
                          [s \in Server |-> None])
        /\ authoritative = Only(file, {})
        /\ external = authoritative
        /\ boot = Only("up", "off")
        /\ watched = [x \in Proxy |-> 0]
        /\ made = IF file = {} THEN 1 ELSE 0
        /\ edits = 0

WorldsInit == (Starting \/ Up) /\ Unstarted

WorldsSpec == WorldsInit /\ [][Next]_vars /\ Fairness

\* With one address, that of the GameServer, the proxies are alike: First starts
\* first.  None starts in the world in which one is up.
InOrder ==
    \A x \in Proxy : boot[x] = "off" /\ boot'[x] # "off" =>
        /\ watched[x] = MaxEdits
        /\ x # First => boot[First] # "off"
=============================================================================
