---------------------------- MODULE Operator_proof ----------------------------
(***************************************************************************)
(* Proofs about the composed controllers, for all specs of the resources,  *)
(* worlds and numbers of edits, failures and reports.                      *)
(***************************************************************************)
EXTENDS OperatorNetwork, FiniteSetTheorems, TLAPS

(***************************************************************************)
(* The keys of the objects.                                                *)
(***************************************************************************)
LEMMA SecretIsFirst ==
    /\ 1 \in DOMAIN BuilderOrder["cluster"] /\ BuilderOrder["cluster"][1] = SecretKey
    /\ \A i \in DOMAIN BuilderOrder["cluster"] :
          BuilderOrder["cluster"][i] = SecretKey => i = 1
  BY DEF BuilderOrder, SecretKey, ForwardingSecretKey

LEMMA OthersHaveNoSecret ==
    ASSUME NEW o \in WithPods, NEW i \in DOMAIN BuilderOrder[o]
    PROVE  BuilderOrder[o][i] # SecretKey
<1>1. CASE o = "proxy"
  BY <1>1 DEF BuilderOrder, SecretKey, ForwardingSecretKey
<1>2. CASE o = "fleet"
  BY <1>2 DEF BuilderOrder, SecretKey, ForwardingSecretKey
<1>3. CASE o = "server"
  BY <1>3 DEF BuilderOrder, SecretKey, ForwardingSecretKey
<1>. QED BY <1>1, <1>2, <1>3 DEF WithPods, Owner

\* Only the controller of the server makes the GameServer, as its last step.
LEMMA GameServerIsLast ==
    /\ Len(BuilderOrder["server"]) = 2 /\ DOMAIN BuilderOrder["server"] = 1 .. 2
    /\ BuilderOrder["server"][2] = PodsKey["server"]
    /\ BuilderOrder["server"][1] # PodsKey["server"]
  BY DEF BuilderOrder, PodsKey

LEMMA OthersHaveNoGameServer ==
    ASSUME NEW o \in Owner \ {"server"}, NEW i \in DOMAIN BuilderOrder[o]
    PROVE  BuilderOrder[o][i] # PodsKey["server"]
<1>1. CASE o = "proxy"
  BY <1>1 DEF BuilderOrder, PodsKey
<1>2. CASE o = "fleet"
  BY <1>2 DEF BuilderOrder, PodsKey
<1>3. CASE o = "cluster"
  BY <1>3 DEF BuilderOrder, PodsKey, SecretKey, ForwardingSecretKey
<1>. QED BY <1>1, <1>2, <1>3 DEF Owner

LEMMA PodsAreNoSecret == \A o \in WithPods : PodsKey[o] # SecretKey
  BY DEF PodsKey, SecretKey, ForwardingSecretKey, WithPods, Owner

(***************************************************************************)
(* The invariant.                                                          *)
(***************************************************************************)
Jobs(X) == [step : Nat \ {0}, owner : X, cluster : X, fresh : X, seen : X]

IsJob(j) == j = Idle \/ \E X : j \in Jobs(X)

Shape ==
    /\ resource = [o \in Owner |-> resource[o]]
    /\ objects = [k \in DOMAIN objects |-> objects[k]]
    /\ job = [o \in Owner |-> job[o]]
    /\ \A o \in Owner : IsJob(job[o])
    /\ agones = [o \in WithPods |-> agones[o]]

Secret == objects[SecretKey].data[SecretDataKey]

\* The Secret, once made, stays, and holds the only key that pods ever read.
KeyInv ==
    /\ Running("cluster") => resource["cluster"] # None
    /\ SecretKey \in DOMAIN objects =>
          resource["cluster"] # None /\ SecretDataKey \in DOMAIN objects[SecretKey].data
    /\ keys # {} => SecretKey \in DOMAIN objects
    /\ keys \subseteq {Secret}

\* A GameServer that a reconciliation saw shut down does not come back before
\* that reconciliation ends.
ServerInv ==
    Running("server") =>
        /\ job["server"].seen # None => job["server"].step = 3
        /\ job["server"].seen = "Shutdown" =>
              \/ agones["server"] = "Shutdown"
              \/ agones["server"] = None /\ PodsKey["server"] \notin DOMAIN objects

OperatorInv == Shape /\ KeyInv /\ ServerInv

LEMMA InitInv == Init => OperatorInv
<1> SUFFICES ASSUME Init PROVE OperatorInv
  OBVIOUS
<1>1. DOMAIN objects = {} /\ objects = [k \in DOMAIN objects |-> objects[k]]
  BY DEF Init
<1>2. resource = [o \in Owner |-> resource[o]]
  BY DEF Init, Owner
<1>3. Shape
  BY <1>1, <1>2 DEF Init, Shape, IsJob
<1>. QED BY <1>1, <1>3 DEF Init, OperatorInv, KeyInv, ServerInv, Running, Idle, Owner

\* What Idle jobs are.
LEMMA JobFacts ==
    ASSUME Shape, NEW o \in Owner
    PROVE  /\ Running(o) <=> job[o] # Idle
           /\ Running(o) => job[o].step \in Nat \ {0}
           /\ ~Running(o) => job[o].step = 0
  BY DEF Shape, IsJob, Jobs, Running, Idle

\* A step that gives one owner another job keeps the shape of the jobs.
JobShape == job = [o \in Owner |-> job[o]] /\ \A o \in Owner : IsJob(job[o])

LEMMA NewJob ==
    ASSUME JobShape, NEW o \in Owner, NEW j, IsJob(j), job' = [job EXCEPT ![o] = j]
    PROVE  JobShape' /\ job'[o] = j /\ \A p \in Owner \ {o} : job'[p] = job[p]
<1>1. job' = [p \in Owner |-> IF p = o THEN j ELSE job[p]]
  BY DEF JobShape
<1>2. \A p \in Owner : job'[p] = IF p = o THEN j ELSE job[p]
  BY <1>1
<1>3. \A p \in Owner : IsJob(job'[p])
  BY <1>2 DEF JobShape
<1>4. job' = [p \in Owner |-> job'[p]]
  BY <1>1, <1>2
<1>. QED BY <1>2, <1>3, <1>4 DEF JobShape, IsJob

LEMMA NextStep ==
    ASSUME NEW j, IsJob(j), j.step \in Nat \ {0}, NEW seen
    PROVE  LET n == [j EXCEPT !.step = @ + 1, !.seen = seen] IN
           /\ IsJob(n) /\ n.step = j.step + 1 /\ n.seen = seen
           /\ n.owner = j.owner /\ n.cluster = j.cluster /\ n.fresh = j.fresh
<1>1. PICK X : j \in Jobs(X)
  BY DEF IsJob, Idle
<1> DEFINE n == [j EXCEPT !.step = @ + 1, !.seen = seen]
<1>2. j \in Jobs(X \cup {seen})
  BY <1>1 DEF Jobs
<1>3. PICK m : m = j.step + 1
  OBVIOUS
<1>4. m \in Nat \ {0}
  BY <1>3
<1>5. n = [j EXCEPT !.step = m, !.seen = seen]
  BY <1>3
<1>6. [j EXCEPT !.step = m, !.seen = seen] \in Jobs(X \cup {seen})
  BY <1>2, <1>4 DEF Jobs
<1>7. /\ n.step = m /\ n.seen = seen
      /\ n.owner = j.owner /\ n.cluster = j.cluster /\ n.fresh = j.fresh
  BY <1>2, <1>5 DEF Jobs
<1>. QED BY <1>3, <1>5, <1>6, <1>7 DEF IsJob

LEMMA StartInv == ASSUME OperatorInv, NEW o \in Owner, Start(o) PROVE OperatorInv'
<1> DEFINE j == [step |-> 1, owner |-> resource[o], cluster |-> resource["cluster"],
                 fresh |-> TRUE, seen |-> None]
<1>1. IsJob(j)
  <2>1. j \in Jobs({resource[o], resource["cluster"], TRUE, None})
    BY DEF Jobs
  <2>. QED BY <2>1 DEF IsJob
<1>2. job' = [job EXCEPT ![o] = j]
  BY DEF Start
<1>3. j.step = 1 /\ j.seen = None
  OBVIOUS
<1> HIDE DEF j
<1>4. JobShape' /\ job'[o] = j /\ \A p \in Owner \ {o} : job'[p] = job[p]
  BY <1>1, <1>2, NewJob DEF OperatorInv, Shape, JobShape
<1>5. Shape'
  BY <1>4 DEF OperatorInv, Shape, JobShape, Start
<1>6. KeyInv'
  BY <1>4 DEF OperatorInv, Start, KeyInv, Running, Secret, Owner
<1>7. ServerInv'
  BY <1>3, <1>4, OperatorAssumption DEF OperatorInv, Start, ServerInv, Running, Owner
<1>. QED BY <1>5, <1>6, <1>7 DEF OperatorInv

\* The Secret and the objects that pods run from are always needed.
LEMMA AlwaysNeeded ==
    ASSUME NEW s
    PROVE  Needed(s, SecretKey) /\ \A o \in WithPods : Needed(s, PodsKey[o])
<1>1. Needed(s, SecretKey)
  BY DEF Needed, SecretKey, ForwardingSecretKey
<1>2. Needed(s, <<"Fleet", <<"proxy">> >>) /\ Needed(s, <<"Fleet", <<"fleet">> >>)
  BY DEF Needed
<1>3. Needed(s, <<"GameServer", <<"server">> >>)
  BY DEF Needed
<1>. QED BY <1>1, <1>2, <1>3 DEF PodsKey, WithPods, Owner

\* The controller of the cluster asks for the Secret with the key it finds.
LEMMA SecretKept ==
    ASSUME NEW o, NEW s, NEW c, NEW new
    PROVE  LET asked == Asked(o, s, c, new, SecretKey) IN
           /\ SecretDataKey \in DOMAIN asked.data
           /\ SecretKey \in DOMAIN objects /\ SecretDataKey \in DOMAIN objects[SecretKey].data
                => asked.data[SecretDataKey] = Secret
  BY DEF Asked, ForwardingSecret, get_existing_or_new_forwarding_secret, SecretKey, Secret

LEMMA NoStepZero == \A o \in Owner : 0 \notin DOMAIN BuilderOrder[o]
<1>1. 0 \notin DOMAIN BuilderOrder["cluster"] /\ 0 \notin DOMAIN BuilderOrder["proxy"]
  BY DEF BuilderOrder
<1>2. 0 \notin DOMAIN BuilderOrder["fleet"] /\ 0 \notin DOMAIN BuilderOrder["server"]
  BY DEF BuilderOrder
<1>. QED BY <1>1, <1>2 DEF Owner

\* What a call of reconcile_builder leaves.
LEMMA ApplyFacts ==
    ASSUME Shape, NEW o \in Owner, Apply(o),
           NEW key, key = BuilderOrder[o][job[o].step]
    PROVE  /\ job[o].step \in DOMAIN BuilderOrder[o] /\ job[o].step \in Nat \ {0} /\ Running(o)
           /\ UNCHANGED <<resource, world, synced, agones, status, keys, edits, events>>
           /\ JobShape' /\ \A p \in Owner \ {o} : job'[p] = job[p]
           /\ job'[o].step = job[o].step + 1
           /\ job'[o].seen = IF o \in WithPods /\ key = PodsKey[o] THEN agones[o] ELSE job[o].seen
           /\ job'[o].owner = job[o].owner /\ job'[o].cluster = job[o].cluster
           /\ job'[o].fresh = job[o].fresh
           /\ RunsPods(o, key) => ~Refused(o, job[o].owner, job[o].cluster)
           /\ objects' = [k \in DOMAIN objects' |-> objects'[k]]
           /\ DOMAIN objects' \subseteq DOMAIN objects \cup {key}
           /\ \A k \in DOMAIN objects \ {key} : k \in DOMAIN objects' /\ objects'[k] = objects[k]
           /\ Needed(job[o].owner, key) =>
                 /\ key \in DOMAIN objects'
                 /\ \E new \in Keys :
                       objects'[key] = Asked(o, job[o].owner, job[o].cluster, new, key)
           /\ ~Needed(job[o].owner, key) => key \notin DOMAIN objects'
<1>1. PICK new \in Keys :
         /\ RunsPods(o, key) => ~Refused(o, job[o].owner, job[o].cluster)
         /\ objects' = IF Needed(job[o].owner, key)
                       THEN With(objects, key, Asked(o, job[o].owner, job[o].cluster, new, key))
                       ELSE [k \in DOMAIN objects \ {key} |-> objects[k]]
         /\ job' = [job EXCEPT
               ![o].step = @ + 1,
               ![o].seen = IF RunsPods(o, key) THEN agones[o] ELSE @]
  BY DEF Apply
<1> DEFINE asked == Asked(o, job[o].owner, job[o].cluster, new, key)
           seen == IF RunsPods(o, key) THEN agones[o] ELSE job[o].seen
           j == [job[o] EXCEPT !.step = @ + 1, !.seen = seen]
<1>2. /\ job[o].step \in DOMAIN BuilderOrder[o]
      /\ UNCHANGED <<resource, world, synced, agones, status, keys, edits, events>>
  BY DEF Apply
<1>3. Running(o) /\ job[o].step \in Nat \ {0}
  BY <1>2, JobFacts, NoStepZero
<1>4. /\ IsJob(j) /\ j.step = job[o].step + 1 /\ j.seen = seen
      /\ j.owner = job[o].owner /\ j.cluster = job[o].cluster /\ j.fresh = job[o].fresh
  <2>1. IsJob(job[o])
    BY DEF Shape
  <2> HIDE DEF seen
  <2>. QED BY <1>3, <2>1, NextStep
<1>5. job' = [job EXCEPT ![o] = j]
  BY <1>1
<1>6. seen = IF o \in WithPods /\ key = PodsKey[o] THEN agones[o] ELSE job[o].seen
  BY DEF RunsPods
<1> HIDE DEF asked, j, seen
<1>7. JobShape' /\ job'[o] = j /\ \A p \in Owner \ {o} : job'[p] = job[p]
  BY <1>4, <1>5, NewJob DEF Shape, JobShape
<1>8. /\ \/ objects' = With(objects, key, asked)
         \/ objects' = [k \in DOMAIN objects \ {key} |-> objects[k]]
      /\ Needed(job[o].owner, key) => objects' = With(objects, key, asked)
      /\ ~Needed(job[o].owner, key) => objects' = [k \in DOMAIN objects \ {key} |-> objects[k]]
  BY <1>1 DEF asked
<1>9. /\ objects' = [k \in DOMAIN objects' |-> objects'[k]]
      /\ DOMAIN objects' \subseteq DOMAIN objects \cup {key}
      /\ \A k \in DOMAIN objects \ {key} : k \in DOMAIN objects' /\ objects'[k] = objects[k]
      /\ Needed(job[o].owner, key) => key \in DOMAIN objects' /\ objects'[key] = asked
  <2>1. \/ objects' = With(objects, key, asked)
        \/ objects' = [k \in DOMAIN objects \ {key} |-> objects[k]]
    BY <1>8
  <2>2. /\ objects' = [k \in DOMAIN objects' |-> objects'[k]]
        /\ DOMAIN objects' \subseteq DOMAIN objects \cup {key}
        /\ \A k \in DOMAIN objects \ {key} : k \in DOMAIN objects' /\ objects'[k] = objects[k]
        /\ objects' = With(objects, key, asked) => key \in DOMAIN objects' /\ objects'[key] = asked
    BY <2>1 DEF With
  <2>. QED BY <1>8, <2>2
<1>10. ~Needed(job[o].owner, key) => key \notin DOMAIN objects'
  BY <1>8
<1>11. Needed(job[o].owner, key) =>
          \E n \in Keys : objects'[key] = Asked(o, job[o].owner, job[o].cluster, n, key)
  BY <1>9 DEF asked
<1>. QED BY <1>1, <1>2, <1>3, <1>4, <1>6, <1>7, <1>9, <1>10, <1>11

LEMMA ApplyInv == ASSUME OperatorInv, NEW o \in Owner, Apply(o) PROVE OperatorInv'
<1> DEFINE key == BuilderOrder[o][job[o].step]
<1>1. /\ job[o].step \in DOMAIN BuilderOrder[o] /\ job[o].step \in Nat \ {0} /\ Running(o)
      /\ UNCHANGED <<resource, agones, keys>>
      /\ JobShape' /\ \A p \in Owner \ {o} : job'[p] = job[p]
      /\ job'[o].step = job[o].step + 1
      /\ job'[o].seen = IF o \in WithPods /\ key = PodsKey[o] THEN agones[o] ELSE job[o].seen
      /\ objects' = [k \in DOMAIN objects' |-> objects'[k]]
      /\ DOMAIN objects' \subseteq DOMAIN objects \cup {key}
      /\ \A k \in DOMAIN objects \ {key} : k \in DOMAIN objects' /\ objects'[k] = objects[k]
      /\ Needed(job[o].owner, key) =>
            /\ key \in DOMAIN objects'
            /\ \E new \in Keys : objects'[key] = Asked(o, job[o].owner, job[o].cluster, new, key)
  BY ApplyFacts DEF OperatorInv
<1>2. (o = "cluster" /\ key = SecretKey) \/ key # SecretKey
  BY <1>1, OthersHaveNoSecret DEF WithPods
<1>3. key = PodsKey["server"] => o = "server" /\ job[o].step = 2
  BY <1>1, OthersHaveNoGameServer, GameServerIsLast
<1>4. o = "server" => job[o].step \in 1 .. 2 /\ (job[o].step = 1 => key # PodsKey["server"])
  BY <1>1, GameServerIsLast
<1> HIDE DEF key
<1>5. Shape'
  BY <1>1 DEF OperatorInv, Shape, JobShape
<1>6. KeyInv'
  <2>1. CASE o = "cluster" /\ key = SecretKey
    <3>1. PICK new \in Keys :
             /\ SecretKey \in DOMAIN objects'
             /\ objects'[SecretKey] = Asked(o, job[o].owner, job[o].cluster, new, SecretKey)
      BY <1>1, <2>1, AlwaysNeeded
    <3>2. /\ SecretDataKey \in DOMAIN objects'[SecretKey].data
          /\ SecretKey \in DOMAIN objects => Secret' = Secret
      BY <3>1, SecretKept DEF OperatorInv, KeyInv, Secret
    <3>. QED BY <1>1, <2>1, <3>1, <3>2 DEF OperatorInv, KeyInv
  <2>2. CASE key # SecretKey
    <3>1. SecretKey \in DOMAIN objects' <=> SecretKey \in DOMAIN objects
      BY <1>1, <2>2
    <3>2. SecretKey \in DOMAIN objects => objects'[SecretKey] = objects[SecretKey]
      BY <1>1, <2>2
    <3>3. Running("cluster")' => Running("cluster")
      BY <1>1 DEF Running, Owner
    <3>. QED BY <1>1, <3>1, <3>2, <3>3 DEF OperatorInv, KeyInv, Secret
  <2>. QED BY <1>2, <2>1, <2>2
<1>7. ServerInv'
  <2>1. CASE o = "server"
    BY <1>1, <1>3, <1>4, <2>1 DEF OperatorInv, ServerInv, WithPods, Owner
  <2>2. CASE o # "server"
    BY <1>1, <1>3, <2>2 DEF OperatorInv, ServerInv, Running, Owner
  <2>. QED BY <2>1, <2>2
<1>. QED BY <1>5, <1>6, <1>7 DEF OperatorInv

LEMMA IdleIsJob == IsJob(Idle) /\ Idle.step = 0
  BY DEF IsJob, Idle

\* The end of a reconciliation, of which Delete also takes the resource.
LEMMA EndInv ==
    ASSUME OperatorInv, NEW o \in Owner, job' = [job EXCEPT ![o] = Idle],
           UNCHANGED <<objects, agones, keys>>,
           UNCHANGED resource \/ (o # "cluster" /\ resource' = [resource EXCEPT ![o] = None])
    PROVE  OperatorInv'
<1>1. JobShape' /\ job'[o] = Idle /\ \A p \in Owner \ {o} : job'[p] = job[p]
  BY IdleIsJob, NewJob DEF OperatorInv, Shape, JobShape
<1>2. resource' = [p \in Owner |-> resource'[p]] /\ resource'["cluster"] = resource["cluster"]
  BY DEF OperatorInv, Shape, Owner
<1>3. Shape'
  BY <1>1, <1>2 DEF OperatorInv, Shape, JobShape
<1>4. \A p \in Owner : Running(p)' => p # o /\ Running(p) /\ job'[p] = job[p]
  BY <1>1, IdleIsJob DEF Running
<1>5. KeyInv'
  BY <1>2, <1>4 DEF OperatorInv, KeyInv, Secret, Owner
<1>6. ServerInv'
  BY <1>4 DEF OperatorInv, ServerInv, Owner
<1>. QED BY <1>3, <1>5, <1>6 DEF OperatorInv

LEMMA EndsInv ==
    ASSUME OperatorInv, NEW o \in Owner, Refuse(o) \/ Fail(o) \/ Finish(o) \/ Delete(o)
    PROVE  OperatorInv'
  BY EndInv DEF Refuse, Fail, Finish, Delete, WithPods

\* The end of all reconciliations.
LEMMA PanicInv == ASSUME OperatorInv, NEW o \in Owner, Panic(o) PROVE OperatorInv'
<1>1. job' = [p \in Owner |-> Idle] /\ UNCHANGED <<resource, objects, agones, keys>>
  BY DEF Panic
<1>2. job' = [p \in Owner |-> job'[p]] /\ \A p \in Owner : job'[p] = Idle
  BY <1>1
<1>3. \A p \in Owner : IsJob(job[p])'
  BY <1>2, IdleIsJob DEF IsJob
<1>4. \A p \in Owner : ~Running(p)'
  BY <1>2, IdleIsJob DEF Running
<1>5. Shape'
  BY <1>1, <1>2, <1>3 DEF OperatorInv, Shape
<1>6. KeyInv' /\ ServerInv'
  BY <1>1, <1>4 DEF OperatorInv, KeyInv, ServerInv, Secret, Owner
<1>. QED BY <1>5, <1>6 DEF OperatorInv

\* A change that makes reconciliations outdated leaves them where they are.
LEMMA OutdatedFacts ==
    ASSUME Shape, NEW owners, Outdated(owners)
    PROVE  /\ JobShape'
           /\ \A o \in Owner : /\ job'[o].step = job[o].step /\ job'[o].seen = job[o].seen
                               /\ Running(o)' <=> Running(o)
                               /\ o \notin owners => job'[o] = job[o]
           /\ \A o \in Owner : Running(o) =>
                  /\ job'[o].owner = job[o].owner /\ job'[o].cluster = job[o].cluster
                  /\ o \in owners => job'[o].fresh = FALSE
<1>1. \A o \in Owner : Running(o) =>
          LET n == [job[o] EXCEPT !.fresh = FALSE] IN
          /\ IsJob(n) /\ n.step = job[o].step /\ n.seen = job[o].seen
          /\ n.owner = job[o].owner /\ n.cluster = job[o].cluster /\ n.fresh = FALSE
  <2> SUFFICES ASSUME NEW o \in Owner, Running(o)
               PROVE  LET n == [job[o] EXCEPT !.fresh = FALSE] IN
                      /\ IsJob(n) /\ n.step = job[o].step /\ n.seen = job[o].seen
                      /\ n.owner = job[o].owner /\ n.cluster = job[o].cluster /\ n.fresh = FALSE
    OBVIOUS
  <2>1. PICK X : job[o] \in Jobs(X)
    BY DEF Shape, IsJob, Running, Idle
  <2>2. job[o] \in Jobs(X \cup {FALSE})
    BY <2>1 DEF Jobs
  <2>3. [job[o] EXCEPT !.fresh = FALSE] \in Jobs(X \cup {FALSE})
    BY <2>2 DEF Jobs
  <2>4. LET n == [job[o] EXCEPT !.fresh = FALSE] IN
        /\ n.step = job[o].step /\ n.seen = job[o].seen
        /\ n.owner = job[o].owner /\ n.cluster = job[o].cluster /\ n.fresh = FALSE
    BY <2>2 DEF Jobs
  <2>. QED BY <2>3, <2>4 DEF IsJob
<1>2. job' = [o \in Owner |-> IF o \in owners /\ Running(o)
                              THEN [job[o] EXCEPT !.fresh = FALSE] ELSE job[o]]
  BY DEF Outdated
<1>3. \A o \in Owner : /\ IsJob(job'[o]) /\ job'[o].step = job[o].step
                        /\ job'[o].seen = job[o].seen
  BY <1>1, <1>2 DEF Shape
<1>4. job' = [o \in Owner |-> job'[o]] /\ \A o \in Owner \ owners : job'[o] = job[o]
  BY <1>2
<1>5. \A o \in Owner : Running(o) =>
          /\ job'[o].owner = job[o].owner /\ job'[o].cluster = job[o].cluster
          /\ o \in owners => job'[o].fresh = FALSE
  BY <1>1, <1>2
<1>. QED BY <1>3, <1>4, <1>5 DEF JobShape, Running

LEMMA EditInv == ASSUME OperatorInv, NEW o \in Owner, Edit(o) PROVE OperatorInv'
<1>1. PICK s \in Specs[o] : resource' = [resource EXCEPT ![o] = s]
  BY DEF Edit
<1>2. /\ resource' = [p \in Owner |-> resource'[p]]
      /\ resource["cluster"] # None => resource'["cluster"] # None
  BY <1>1, OperatorAssumption DEF OperatorInv, Shape, Owner
<1>3. /\ JobShape'
      /\ \A p \in Owner : /\ job'[p].step = job[p].step /\ job'[p].seen = job[p].seen
                           /\ (Running(p)' <=> Running(p))
  BY OutdatedFacts DEF Edit, OperatorInv
<1>4. UNCHANGED <<objects, agones, keys>>
  BY DEF Edit
<1>5. Shape'
  BY <1>2, <1>3, <1>4 DEF OperatorInv, Shape, JobShape
<1>6. KeyInv' /\ ServerInv'
  BY <1>2, <1>3, <1>4 DEF OperatorInv, KeyInv, ServerInv, Secret, Owner
<1>. QED BY <1>5, <1>6 DEF OperatorInv

LEMMA WorldInv == ASSUME OperatorInv, ChangeWorld PROVE OperatorInv'
<1>1. /\ JobShape'
      /\ \A p \in Owner : /\ job'[p].step = job[p].step /\ job'[p].seen = job[p].seen
                           /\ (Running(p)' <=> Running(p))
  BY OutdatedFacts DEF ChangeWorld, OperatorInv
<1>2. UNCHANGED <<resource, objects, agones, keys>>
  BY DEF ChangeWorld
<1>3. Shape'
  BY <1>1, <1>2 DEF OperatorInv, Shape, JobShape
<1>4. KeyInv' /\ ServerInv'
  BY <1>1, <1>2 DEF OperatorInv, KeyInv, ServerInv, Secret, Owner
<1>. QED BY <1>3, <1>4 DEF OperatorInv

(***************************************************************************)
(* Agones, the collector and the pods.                                     *)
(***************************************************************************)
LEMMA ReportInv == ASSUME OperatorInv, NEW o \in WithPods, Report(o) PROVE OperatorInv'
<1>1. PICK r : agones' = [agones EXCEPT ![o] = r]
  BY DEF Report
<1>2. /\ UNCHANGED <<resource, objects, job, keys>> /\ ~Ended(o)
      /\ PodsKey[o] \in DOMAIN objects
  BY DEF Report
<1>3. agones' = [p \in WithPods |-> agones'[p]] /\ \A p \in WithPods \ {o} : agones'[p] = agones[p]
  BY <1>1 DEF OperatorInv, Shape
<1>4. Shape'
  BY <1>2, <1>3 DEF OperatorInv, Shape
<1>5. KeyInv'
  BY <1>2 DEF OperatorInv, KeyInv, Secret, Running
<1>6. ServerInv'
  BY <1>2, <1>3 DEF OperatorInv, ServerInv, Running, Ended, WithPods, Owner
<1>. QED BY <1>4, <1>5, <1>6 DEF OperatorInv

LEMMA ScaleInv == ASSUME OperatorInv, NEW o \in {"proxy", "fleet"}, Scale(o) PROVE OperatorInv'
<1>1. PICK n : objects' = [objects EXCEPT ![PodsKey[o]].replicas = n]
  BY DEF Scale
<1>2. UNCHANGED <<resource, job, agones, keys>>
  BY DEF Scale
<1>3. PodsKey[o] # SecretKey
  BY PodsAreNoSecret DEF WithPods, Owner
<1>4. /\ objects' = [k \in DOMAIN objects' |-> objects'[k]] /\ DOMAIN objects' = DOMAIN objects
      /\ SecretKey \in DOMAIN objects => objects'[SecretKey] = objects[SecretKey]
  BY <1>1, <1>3 DEF OperatorInv, Shape
<1>5. Shape'
  BY <1>2, <1>4 DEF OperatorInv, Shape
<1>6. KeyInv'
  BY <1>2, <1>4 DEF OperatorInv, KeyInv, Secret, Running
<1>7. ServerInv'
  BY <1>2, <1>4 DEF OperatorInv, ServerInv, Running
<1>. QED BY <1>5, <1>6, <1>7 DEF OperatorInv

\* Objects go, but not the Secret; Agones forgets what it reported of an owner.
LEMMA GoneInv ==
    ASSUME OperatorInv, NEW o \in Owner, NEW gone, SecretKey \notin gone \/ SecretKey \notin DOMAIN objects,
           objects' = [k \in DOMAIN objects \ gone |-> objects[k]],
           agones' = [agones EXCEPT ![o] = None],
           o = "server" => ~Running(o) \/ PodsKey[o] \in gone,
           UNCHANGED <<resource, job, keys>>
    PROVE  OperatorInv'
<1>1. /\ objects' = [k \in DOMAIN objects' |-> objects'[k]]
      /\ DOMAIN objects' = DOMAIN objects \ gone
      /\ \A k \in DOMAIN objects' : objects'[k] = objects[k]
  OBVIOUS
<1>2. /\ agones' = [p \in WithPods |-> agones'[p]]
      /\ \A p \in WithPods : agones'[p] = IF p = o THEN None ELSE agones[p]
  BY DEF OperatorInv, Shape
<1>3. Shape'
  BY <1>1, <1>2 DEF OperatorInv, Shape
<1>4. KeyInv'
  BY <1>1 DEF OperatorInv, KeyInv, Secret, Running
<1>5. ServerInv'
  BY <1>1, <1>2 DEF OperatorInv, ServerInv, Running, WithPods, Owner
<1>. QED BY <1>3, <1>4, <1>5 DEF OperatorInv

LEMMA RemoveInv == ASSUME OperatorInv, NEW o \in WithPods, Remove(o) PROVE OperatorInv'
<1>1. SecretKey \notin {PodsKey[o]} /\ o \in Owner
  BY PodsAreNoSecret DEF WithPods
<1>. QED BY <1>1, GoneInv DEF Remove

LEMMA CollectInv == ASSUME OperatorInv, NEW o \in Owner, Collect(o) PROVE OperatorInv'
<1>1. SecretKey \notin OwnedBy(o) \/ SecretKey \notin DOMAIN objects
  <2>1. CASE o = "cluster"
    BY <2>1 DEF Collect, OperatorInv, KeyInv
  <2>2. CASE o # "cluster"
    BY <2>2, OthersHaveNoSecret DEF OwnedBy, WithPods
  <2>. QED BY <2>1, <2>2
<1>. QED BY <1>1, GoneInv DEF Collect

LEMMA StartPodInv == ASSUME OperatorInv, NEW o \in WithPods, StartPod(o) PROVE OperatorInv'
<1>1. Shape'
  BY DEF OperatorInv, Shape, StartPod
<1>2. KeyInv'
  BY DEF OperatorInv, KeyInv, StartPod, Secret, Running
<1>3. ServerInv'
  BY DEF OperatorInv, ServerInv, StartPod, Running
<1>. QED BY <1>1, <1>2, <1>3 DEF OperatorInv

LEMMA NextInv == ASSUME OperatorInv, [Next]_vars PROVE OperatorInv'
<1>1. CASE UNCHANGED vars
  BY <1>1 DEF vars, OperatorInv, Shape, KeyInv, ServerInv, Secret, Running
<1>2. CASE \E o \in Owner : Start(o) \/ Apply(o)
  BY <1>2, StartInv, ApplyInv
<1>3. CASE \E o \in Owner : Refuse(o) \/ Fail(o) \/ Finish(o) \/ Panic(o) \/ Delete(o)
  BY <1>3, EndsInv, PanicInv
<1>4. CASE \E o \in Owner : Edit(o) \/ Collect(o)
  BY <1>4, EditInv, CollectInv
<1>5. CASE ChangeWorld
  BY <1>5, WorldInv
<1>6. CASE \E o \in WithPods : Report(o) \/ Remove(o) \/ StartPod(o)
  BY <1>6, ReportInv, RemoveInv, StartPodInv
<1>7. CASE \E o \in {"proxy", "fleet"} : Scale(o)
  BY <1>7, ScaleInv
<1>. QED BY <1>1, <1>2, <1>3, <1>4, <1>5, <1>6, <1>7 DEF Next, Reconcile

LEMMA OperatorAlways == Spec => []OperatorInv
<1>1. OperatorInv /\ [Next]_vars => OperatorInv'
  BY NextInv
<1>. QED BY <1>1, InitInv, PTL DEF Spec

(* All pods ever started hold the same forwarding key: no reconciliation of *)
(* the cluster, complete or not, replaces the key it finds, and nobody      *)
(* takes the Secret away.                                                   *)
THEOREM KeyIsOne == Spec => []OneForwardingKey
<1>1. OperatorInv => OneForwardingKey
  <2> SUFFICES ASSUME OperatorInv PROVE Cardinality(keys) <= 1
    BY DEF OneForwardingKey
  <2>1. keys \subseteq {Secret}
    BY DEF OperatorInv, KeyInv
  <2>2. keys = {} \/ keys = {Secret}
    BY <2>1
  <2>3. Cardinality({}) = 0 /\ Cardinality({Secret}) = 1
    BY FS_EmptySet, FS_Singleton
  <2>. QED BY <2>2, <2>3
<1>. QED BY <1>1, OperatorAlways, PTL

\* The only step that takes the resource of the server away.
LEMMA OnlyDelete ==
    ASSUME OperatorInv, [Next]_vars, resource["server"] # None, resource'["server"] = None
    PROVE  Delete("server")
<1>1. CASE \E o \in Owner : Delete(o)
  BY <1>1 DEF Delete, OperatorInv, Shape, Owner
<1>2. CASE \E o \in Owner : Edit(o)
  <2>1. PICK o \in Owner : Edit(o)
    BY <1>2
  <2>2. PICK s \in Specs[o] : resource' = [resource EXCEPT ![o] = s]
    BY <2>1 DEF Edit
  <2>3. s # None
    BY OperatorAssumption
  <2>. QED BY <2>2, <2>3 DEF OperatorInv, Shape, Owner
<1>. QED BY <1>1, <1>2
     DEF Next, Reconcile, vars, Start, Apply, Refuse, Fail, Finish, Panic, Collect, ChangeWorld,
         Report, Remove, StartPod, Scale

(* A MinecraftServer is deleted only when its GameServer is shut down or    *)
(* removed, although its state was read some calls before: never under a    *)
(* server that runs.                                                        *)
THEOREM DeletedWhenShutDown == Spec => DeletedAfterShutdown
<1>1. OperatorInv /\ [Next]_vars =>
        [resource["server"] # None /\ resource'["server"] = None
             => agones["server"] \in {None, "Shutdown"}]_vars
  <2> SUFFICES ASSUME OperatorInv, [Next]_vars, resource["server"] # None, resource'["server"] = None
               PROVE  agones["server"] \in {None, "Shutdown"}
    OBVIOUS
  <2>1. Delete("server")
    BY OnlyDelete
  <2>2. job["server"].seen = "Shutdown" /\ job["server"].step = 3
    BY <2>1, GameServerIsLast DEF Delete, ShutDown, Done
  <2>. QED BY <2>2 DEF OperatorInv, ServerInv, Running
<1>. QED BY <1>1, OperatorAlways, PTL DEF Spec, DeletedAfterShutdown

(***************************************************************************)
(* Whose object an object is: no two builders make the same one.           *)
(***************************************************************************)
LEMMA ClusterKeys ==
    /\ Len(BuilderOrder["cluster"]) = 11 /\ DOMAIN BuilderOrder["cluster"] = 1 .. 11
    /\ BuilderOrder["cluster"][1] = <<"Secret", <<"cluster", "forwarding-secret">> >>
    /\ BuilderOrder["cluster"][2] = <<"Service", <<"cluster", "cluster">> >>
    /\ BuilderOrder["cluster"][3] = <<"ServiceAccount", <<"shulker", "cluster", "proxy">> >>
    /\ BuilderOrder["cluster"][4] = <<"Role", <<"shulker:", "cluster", "proxy">> >>
    /\ BuilderOrder["cluster"][5] = <<"RoleBinding", <<"shulker:", "cluster", "proxy">> >>
    /\ BuilderOrder["cluster"][6] = <<"ServiceAccount", <<"shulker", "cluster", "server">> >>
    /\ BuilderOrder["cluster"][7] = <<"Role", <<"shulker:", "cluster", "server">> >>
    /\ BuilderOrder["cluster"][8] = <<"RoleBinding", <<"shulker:", "cluster", "server">> >>
    /\ BuilderOrder["cluster"][9] = <<"Service", <<"cluster", "redis-managed">> >>
    /\ BuilderOrder["cluster"][10] = <<"StatefulSet", <<"cluster", "redis-managed">> >>
    /\ BuilderOrder["cluster"][11] = <<"ConfigMap", <<"cluster", "external-servers">> >>
  BY DEF BuilderOrder, SecretKey, ForwardingSecretKey, ForwardingSecretName, HeadlessServiceName,
         AccountName, RoleName, RedisName, ExternalServersName

LEMMA OtherKeys ==
    /\ Len(BuilderOrder["proxy"]) = 4 /\ DOMAIN BuilderOrder["proxy"] = 1 .. 4
    /\ BuilderOrder["proxy"][1] = <<"ConfigMap", <<"proxy", "config">> >>
    /\ BuilderOrder["proxy"][2] = <<"Service", <<"proxy">> >>
    /\ BuilderOrder["proxy"][3] = <<"Fleet", <<"proxy">> >>
    /\ BuilderOrder["proxy"][4] = <<"FleetAutoscaler", <<"proxy">> >>
    /\ Len(BuilderOrder["fleet"]) = 3 /\ DOMAIN BuilderOrder["fleet"] = 1 .. 3
    /\ BuilderOrder["fleet"][1] = <<"ConfigMap", <<"fleet", "config">> >>
    /\ BuilderOrder["fleet"][2] = <<"Fleet", <<"fleet">> >>
    /\ BuilderOrder["fleet"][3] = <<"FleetAutoscaler", <<"fleet">> >>
    /\ Len(BuilderOrder["server"]) = 2 /\ DOMAIN BuilderOrder["server"] = 1 .. 2
    /\ BuilderOrder["server"][1] = <<"ConfigMap", <<"server", "config">> >>
    /\ BuilderOrder["server"][2] = <<"GameServer", <<"server">> >>
  BY DEF BuilderOrder, ProxyConfigName, ServerConfigName

\* The first part of its name tells whose object it is.
LEMMA NamedAfterOwner ==
    /\ \A i \in DOMAIN BuilderOrder["cluster"] :
          BuilderOrder["cluster"][i][2][1] \in {"cluster", "shulker", "shulker:"}
    /\ \A o \in WithPods : \A i \in DOMAIN BuilderOrder[o] : BuilderOrder[o][i][2][1] = o
<1>1. \A i \in 1 .. 11 : BuilderOrder["cluster"][i][2][1] \in {"cluster", "shulker", "shulker:"}
  <2>. TAKE i \in 1 .. 11
  <2>1. \/ i = 1 \/ i = 2 \/ i = 3 \/ i = 4 \/ i = 5 \/ i = 6 \/ i = 7 \/ i = 8
        \/ i = 9 \/ i = 10 \/ i = 11
    OBVIOUS
  <2>. QED BY <2>1, ClusterKeys
<1>2. \A i \in DOMAIN BuilderOrder["proxy"] : BuilderOrder["proxy"][i][2][1] = "proxy"
  <2>. TAKE i \in DOMAIN BuilderOrder["proxy"]
  <2>1. i = 1 \/ i = 2 \/ i = 3 \/ i = 4
    BY OtherKeys
  <2>. QED BY <2>1, OtherKeys
<1>3. \A i \in DOMAIN BuilderOrder["fleet"] : BuilderOrder["fleet"][i][2][1] = "fleet"
  <2>. TAKE i \in DOMAIN BuilderOrder["fleet"]
  <2>1. i = 1 \/ i = 2 \/ i = 3
    BY OtherKeys
  <2>. QED BY <2>1, OtherKeys
<1>4. \A i \in DOMAIN BuilderOrder["server"] : BuilderOrder["server"][i][2][1] = "server"
  <2>. TAKE i \in DOMAIN BuilderOrder["server"]
  <2>1. i = 1 \/ i = 2
    BY OtherKeys
  <2>. QED BY <2>1, OtherKeys
<1>. QED BY <1>1, <1>2, <1>3, <1>4, ClusterKeys DEF WithPods, Owner

LEMMA KeysApart ==
    ASSUME NEW o \in Owner, NEW i \in DOMAIN BuilderOrder[o],
           NEW p \in Owner, NEW j \in DOMAIN BuilderOrder[p],
           BuilderOrder[o][i] = BuilderOrder[p][j]
    PROVE  o = p /\ i = j
<1>1. o = p
  BY NamedAfterOwner DEF WithPods, Owner
<1>2. CASE o = "cluster"
  <2>1. i \in 1 .. 11 /\ j \in 1 .. 11
    BY <1>1, <1>2, ClusterKeys
  <2>. QED BY <1>1, <1>2, <2>1, ClusterKeys
<1>3. CASE o # "cluster"
  BY <1>1, <1>3, OtherKeys DEF Owner
<1>. QED BY <1>1, <1>2, <1>3

(***************************************************************************)
(* What the builders of the Fleets and of the GameServer make.             *)
(***************************************************************************)
LEMMA BuiltProxy ==
    ASSUME NEW w \in Worlds, NEW c \in Specs["cluster"], NEW s \in Specs["proxy"]
    PROVE  Built["proxy"][w][c][s] = ProxyFleetFleet(w, AgentConfig, c, "proxy", s, None)
  BY DEF Built

LEMMA BuiltFleet ==
    ASSUME NEW w \in Worlds, NEW c \in Specs["cluster"], NEW s \in Specs["fleet"]
    PROVE  Built["fleet"][w][c][s] = ServerFleetFleet(w, AgentConfig, c, "fleet", s, None)
  BY DEF Built

LEMMA BuiltServer ==
    ASSUME NEW w \in Worlds, NEW c \in Specs["cluster"], NEW s \in Specs["server"]
    PROVE  Built["server"][w][c][s]
               = ServerGameServer(w, AgentConfig, "cluster", c, "server", s,
                                  [labels |-> <<>>, annotations |-> <<>>])
  BY DEF Built

LEMMA ProxyFleetMade ==
    ASSUME NEW w, NEW c, NEW s, ProxyFleetFleet(w, AgentConfig, c, "proxy", s, None) # Error
    PROVE  LET g == ProxyGameServerSpec(w, AgentConfig, c, "proxy", s)
               f == ProxyFleetFleet(w, AgentConfig, c, "proxy", s, None)
           IN  /\ g # Error
               /\ f = [ labels |-> ProxyLabels("proxy", s), replicas |-> Replicas(s, None),
                        strategy |-> "RollingUpdate",
                        template |-> [ metadata |-> [ labels |-> g.pod.labels,
                                                      annotations |-> g.pod.annotations ],
                                       spec |-> g ] ]
  BY DEF ProxyFleetFleet, IfOk

ServerFleetGameServerSpec(w, c, s) ==
    get_game_server_spec(w, AgentConfig, s.cluster_ref, c, "fleet",
        [s.template EXCEPT !.config.existing_config_map_name = ServerConfigName("fleet")],
        "fleet", ServerTemplateMetadata("fleet", s))

LEMMA ServerFleetMade ==
    ASSUME NEW w, NEW c, NEW s, ServerFleetFleet(w, AgentConfig, c, "fleet", s, None) # Error
    PROVE  LET g == ServerFleetGameServerSpec(w, c, s)
               f == ServerFleetFleet(w, AgentConfig, c, "fleet", s, None)
           IN  /\ g # Error
               /\ f = [ labels |-> MinecraftServerFleetLabels("fleet", s,
                                       "minecraft-server", "minecraft-server"),
                        replicas |-> Replicas(s, None), strategy |-> "Recreate",
                        template |-> [ metadata |-> ServerTemplateMetadata("fleet", s), spec |-> g ] ]
<1> DEFINE g == ServerFleetGameServerSpec(w, c, s)
<1>1. ServerFleetFleet(w, AgentConfig, c, "fleet", s, None)
         = IF g = Error THEN Error
           ELSE [ labels |-> MinecraftServerFleetLabels("fleet", s,
                                 "minecraft-server", "minecraft-server"),
                  replicas |-> Replicas(s, None), strategy |-> "Recreate",
                  template |-> [ metadata |-> ServerTemplateMetadata("fleet", s), spec |-> g ] ]
  BY DEF ServerFleetFleet, IfOk, ServerFleetGameServerSpec
<1> HIDE DEF g
<1>. QED BY <1>1 DEF g

\* A Fleet has a size and a template, and the size can be changed alone.
IsFleet(f) ==
    /\ {"replicas", "template"} \subseteq DOMAIN f
    /\ f = [k \in DOMAIN f |-> f[k]]

LEMMA Resized ==
    ASSUME NEW f, IsFleet(f), NEW n
    PROVE  LET g == [f EXCEPT !.replicas = n]
           IN  IsFleet(g) /\ g.replicas = n /\ g.template = f.template
  BY DEF IsFleet

LEMMA BuiltIsFleet ==
    ASSUME NEW w \in Worlds, NEW c \in Specs["cluster"], NEW o \in {"proxy", "fleet"},
           NEW s \in Specs[o], Built[o][w][c][s] # Error
    PROVE  IsFleet(Built[o][w][c][s])
<1>1. CASE o = "proxy"
  BY <1>1, BuiltProxy, ProxyFleetMade DEF IsFleet
<1>2. CASE o = "fleet"
  BY <1>2, BuiltFleet, ServerFleetMade DEF IsFleet
<1>. QED BY <1>1, <1>2

(***************************************************************************)
(* The invariant of the network: what every reconciliation has left, and   *)
(* that what it has left stays until the owner, the cluster or the world   *)
(* change, which is when the owner is no longer synced.                    *)
(***************************************************************************)
SamePods(o, made, built) ==
    IF o = "server" THEN made = built ELSE made.template = built.template

\* An object is what its builder makes of the owner and the cluster, but for
\* the key in the Secret and the size of a Fleet.  A GameServer may be gone.
Made(o, s, c, key) ==
    IF key = SecretKey THEN key \in DOMAIN objects
    ELSE IF RunsPods(o, key)
    THEN key \in DOMAIN objects =>
            ~Refused(o, s, c) /\ SamePods(o, objects[key], Built[o][world][c][s])
    ELSE IF Needed(s, key) THEN key \in DOMAIN objects /\ objects[key] = Plain(o, s, key)
    ELSE key \notin DOMAIN objects

\* The objects of the first n builders of an owner.
MadeUpTo(o, n) ==
    \A i \in DOMAIN BuilderOrder[o] :
        i <= n => Made(o, resource[o], resource["cluster"], BuilderOrder[o][i])

RangeInv ==
    /\ world \in Worlds
    /\ \A o \in Owner : resource[o] \in Optional(Specs[o])
    /\ \A k \in DOMAIN objects :
          \E o \in Owner : \E i \in DOMAIN BuilderOrder[o] : k = BuilderOrder[o][i]

SizeInv ==
    \A o \in {"proxy", "fleet"} : PodsKey[o] \in DOMAIN objects =>
        IsFleet(objects[PodsKey[o]]) /\ objects[PodsKey[o]].replicas \in Nat

JobInv ==
    \A o \in Owner : Running(o) =>
        /\ resource[o] # None /\ resource["cluster"] # None
        /\ job[o].owner \in Specs[o] /\ job[o].cluster \in Specs["cluster"]
        /\ job[o].step \in 1 .. Len(BuilderOrder[o]) + 1
        /\ job[o].fresh \in BOOLEAN

Fresh(o) == Running(o) /\ job[o].fresh = TRUE

FreshInv ==
    \A o \in Owner : Fresh(o) =>
        /\ job[o].owner = resource[o] /\ job[o].cluster = resource["cluster"]
        /\ MadeUpTo(o, job[o].step - 1)

SyncInv ==
    \A o \in synced :
        /\ o \in Owner /\ resource[o] # None /\ resource["cluster"] # None
        /\ Running(o) => Fresh(o)
        /\ MadeUpTo(o, 11)

NetworkInv == OperatorInv /\ RangeInv /\ SizeInv /\ JobInv /\ FreshInv /\ SyncInv

LEMMA OrderLength ==
    ASSUME NEW o \in Owner
    PROVE  /\ DOMAIN BuilderOrder[o] = 1 .. Len(BuilderOrder[o])
           /\ Len(BuilderOrder[o]) \in 1 .. 11
  BY ClusterKeys, OtherKeys DEF Owner

LEMMA InitNetwork == Init => NetworkInv
<1> SUFFICES ASSUME Init PROVE NetworkInv
  OBVIOUS
<1>1. OperatorInv
  BY InitInv
<1>2. DOMAIN objects = {} /\ synced = {} /\ \A o \in Owner : ~Running(o)
  BY DEF Init, Running, Idle
<1>3. RangeInv
  <2>1. \A o \in Owner : resource[o] \in Optional(Specs[o])
    BY DEF Init, Owner
  <2>. QED BY <1>2, <2>1 DEF RangeInv, Init
<1>. QED BY <1>1, <1>2, <1>3 DEF NetworkInv, SizeInv, JobInv, FreshInv, SyncInv, Fresh

\* An object that does not change is what it was.
LEMMA MadeKept ==
    ASSUME NEW o, NEW s, NEW c, NEW key, Made(o, s, c, key),
           world' = world \/ o \notin WithPods,
           key \in DOMAIN objects' <=> key \in DOMAIN objects,
           key \in DOMAIN objects => objects'[key] = objects[key]
    PROVE  Made(o, s, c, key)'
<1>1. CASE o \notin WithPods
  BY <1>1 DEF Made, RunsPods
<1>2. CASE world' = world
  BY <1>2 DEF Made, Refused
<1>. QED BY <1>1, <1>2

LEMMA MadeUpToKept ==
    ASSUME NEW o \in Owner, NEW n, MadeUpTo(o, n),
           UNCHANGED <<resource[o], resource["cluster"]>>,
           world' = world \/ o \notin WithPods,
           \A i \in DOMAIN BuilderOrder[o] :
               LET key == BuilderOrder[o][i] IN
               /\ key \in DOMAIN objects' <=> key \in DOMAIN objects
               /\ key \in DOMAIN objects => objects'[key] = objects[key]
    PROVE  MadeUpTo(o, n)'
<1> SUFFICES ASSUME NEW i \in DOMAIN BuilderOrder[o], i <= n
             PROVE  Made(o, resource[o], resource["cluster"], BuilderOrder[o][i])'
  BY DEF MadeUpTo
<1>1. PICK s, c : s = resource[o] /\ c = resource["cluster"]
  OBVIOUS
<1>2. Made(o, s, c, BuilderOrder[o][i])
  BY <1>1 DEF MadeUpTo
<1>3. Made(o, s, c, BuilderOrder[o][i])'
  BY <1>2, MadeKept
<1>4. resource'[o] = s /\ resource'["cluster"] = c
  BY <1>1
<1>. QED BY <1>3, <1>4

\* Steps that leave the resources, the objects and the world as they are, and
\* at most end reconciliations.
LEMMA QuietNet ==
    ASSUME NetworkInv, OperatorInv', UNCHANGED <<resource, objects, world>>,
           \A p \in Owner : job'[p] = job[p] \/ ~Running(p)',
           \A p \in synced' :
              p \in synced \/ (/\ p \in Owner /\ Fresh(p) /\ ~Running(p)'
                               /\ job[p].step = Len(BuilderOrder[p]) + 1)
    PROVE  NetworkInv'
<1>1. RangeInv' /\ SizeInv'
  BY DEF NetworkInv, RangeInv, SizeInv
<1>2. \A p \in Owner : Running(p)' => Running(p) /\ job'[p] = job[p]
  BY DEF Running
<1>3. JobInv'
  BY <1>2 DEF NetworkInv, JobInv
<1>4. \A p \in Owner : \A n : MadeUpTo(p, n) => MadeUpTo(p, n)'
  BY MadeUpToKept
<1>5. FreshInv'
  BY <1>2, <1>4 DEF NetworkInv, FreshInv, Fresh
<1>6. SyncInv'
  <2> SUFFICES ASSUME NEW p \in synced'
               PROVE  /\ p \in Owner /\ resource[p] # None /\ resource["cluster"] # None
                      /\ Running(p)' => Fresh(p)'
                      /\ MadeUpTo(p, 11)'
    BY DEF SyncInv
  <2>1. CASE p \in synced
    BY <1>2, <1>4, <2>1 DEF NetworkInv, SyncInv, Fresh
  <2>2. CASE /\ p \in Owner /\ Fresh(p) /\ ~Running(p)'
             /\ job[p].step = Len(BuilderOrder[p]) + 1
    <3>1. MadeUpTo(p, job[p].step - 1) /\ resource[p] # None /\ resource["cluster"] # None
      BY <2>2 DEF NetworkInv, FreshInv, JobInv, Fresh
    <3>2. \A i \in DOMAIN BuilderOrder[p] : i <= job[p].step - 1
      BY <2>2, OrderLength
    <3>3. MadeUpTo(p, 11)
      BY <3>1, <3>2 DEF MadeUpTo
    <3>. QED BY <1>4, <2>2, <3>1, <3>3
  <2>. QED BY <2>1, <2>2
<1>. QED BY <1>1, <1>3, <1>5, <1>6 DEF NetworkInv

LEMMA StartNet == ASSUME NetworkInv, OperatorInv', NEW o \in Owner, Start(o) PROVE NetworkInv'
<1> DEFINE j == [step |-> 1, owner |-> resource[o], cluster |-> resource["cluster"],
                 fresh |-> TRUE, seen |-> None]
<1>1. /\ ~Running(o) /\ resource[o] # None /\ resource["cluster"] # None
      /\ job' = [job EXCEPT ![o] = j] /\ UNCHANGED <<resource, objects, world, synced>>
  BY DEF Start
<1>2. /\ j.step = 1 /\ j.owner = resource[o] /\ j.cluster = resource["cluster"]
      /\ j.fresh = TRUE
  OBVIOUS
<1> HIDE DEF j
<1>3. job'[o] = j /\ \A p \in Owner \ {o} : job'[p] = job[p]
  BY <1>1 DEF NetworkInv, OperatorInv, Shape
<1>4. RangeInv' /\ SizeInv'
  BY <1>1 DEF NetworkInv, RangeInv, SizeInv
<1>5. Running(o)' /\ Fresh(o)' /\ \A p \in Owner \ {o} : (Running(p)' <=> Running(p)) /\ (Fresh(p)' <=> Fresh(p))
  BY <1>2, <1>3 DEF Running, Fresh
<1>6. \A p \in Owner : \A n : MadeUpTo(p, n) => MadeUpTo(p, n)'
  BY <1>1, MadeUpToKept
<1>7. resource[o] \in Specs[o] /\ resource["cluster"] \in Specs["cluster"]
  BY <1>1 DEF NetworkInv, RangeInv, Optional, Owner
<1>8. JobInv'
  <2> SUFFICES ASSUME NEW p \in Owner, Running(p)'
               PROVE  /\ resource[p] # None /\ resource["cluster"] # None
                      /\ job'[p].owner \in Specs[p] /\ job'[p].cluster \in Specs["cluster"]
                      /\ job'[p].step \in 1 .. Len(BuilderOrder[p]) + 1
                      /\ job'[p].fresh \in BOOLEAN
    BY <1>1 DEF JobInv
  <2>1. CASE p = o
    <3>1. 1 \in 1 .. Len(BuilderOrder[o]) + 1
      BY OrderLength
    <3>. QED BY <1>1, <1>2, <1>3, <1>7, <2>1, <3>1
  <2>2. CASE p # o
    BY <1>3, <1>5, <2>2 DEF NetworkInv, JobInv
  <2>. QED BY <2>1, <2>2
<1>9. FreshInv'
  <2> SUFFICES ASSUME NEW p \in Owner, Fresh(p)'
               PROVE  /\ job'[p].owner = resource[p] /\ job'[p].cluster = resource["cluster"]
                      /\ MadeUpTo(p, job[p].step - 1)'
    BY <1>1 DEF FreshInv
  <2>1. CASE p = o
    <3>1. \A i \in DOMAIN BuilderOrder[o] : ~(i <= job'[o].step - 1)
      BY <1>2, <1>3, OrderLength
    <3>. QED BY <1>2, <1>3, <2>1, <3>1 DEF MadeUpTo
  <2>2. CASE p # o
    BY <1>3, <1>5, <1>6, <2>2 DEF NetworkInv, FreshInv
  <2>. QED BY <2>1, <2>2
<1>10. SyncInv'
  BY <1>1, <1>5, <1>6 DEF NetworkInv, SyncInv
<1>. QED BY <1>4, <1>8, <1>9, <1>10 DEF NetworkInv

LEMMA EndsNet ==
    ASSUME NetworkInv, OperatorInv', NEW o \in Owner, Refuse(o) \/ Fail(o) \/ Finish(o)
    PROVE  NetworkInv'
<1>1. job' = [job EXCEPT ![o] = Idle] /\ UNCHANGED <<resource, objects, world>>
  BY DEF Refuse, Fail, Finish
<1>2. job'[o] = Idle /\ \A p \in Owner \ {o} : job'[p] = job[p]
  BY <1>1 DEF NetworkInv, OperatorInv, Shape
<1>3. \A p \in Owner : job'[p] = job[p] \/ ~Running(p)'
  BY <1>2 DEF Running, Idle
<1>4. ~Running(o)'
  BY <1>2 DEF Running, Idle
<1>5. \A p \in synced' :
         p \in synced \/ (/\ p \in Owner /\ Fresh(p) /\ ~Running(p)'
                          /\ job[p].step = Len(BuilderOrder[p]) + 1)
  <2>1. CASE Refuse(o) \/ Fail(o)
    BY <2>1 DEF Refuse, Fail
  <2>2. CASE Finish(o)
    <3>1. Done(o) /\ synced' = IF job[o].fresh THEN synced \cup {o} ELSE synced
      BY <2>2 DEF Finish
    <3>2. job[o].step = Len(BuilderOrder[o]) + 1 /\ Running(o)
      BY <3>1, OrderLength DEF Done, Running
    <3>3. job[o].fresh \in BOOLEAN
      BY <3>2 DEF NetworkInv, JobInv
    <3>4. CASE job[o].fresh = TRUE
      BY <1>4, <3>1, <3>2, <3>4 DEF Fresh
    <3>5. CASE job[o].fresh = FALSE
      BY <3>1, <3>5
    <3>. QED BY <3>3, <3>4, <3>5
  <2>. QED BY <2>1, <2>2
<1>. QED BY <1>1, <1>3, <1>5, QuietNet

\* All reconciliations end, one of them after its last builder.
LEMMA PanicNet == ASSUME NetworkInv, OperatorInv', NEW o \in Owner, Panic(o) PROVE NetworkInv'
<1>1. /\ Done(o) /\ synced' = IF job[o].fresh THEN synced \cup {o} ELSE synced
      /\ job' = [p \in Owner |-> Idle] /\ UNCHANGED <<resource, objects, world>>
  BY DEF Panic
<1>2. \A p \in Owner : ~Running(p)'
  BY <1>1 DEF Running, Idle
<1>3. job[o].step = Len(BuilderOrder[o]) + 1 /\ Running(o)
  BY <1>1, OrderLength DEF Done, Running
<1>4. job[o].fresh \in BOOLEAN
  BY <1>3 DEF NetworkInv, JobInv
<1>5. \A p \in synced' :
         p \in synced \/ (/\ p \in Owner /\ Fresh(p) /\ ~Running(p)'
                          /\ job[p].step = Len(BuilderOrder[p]) + 1)
  <2>1. CASE job[o].fresh = TRUE
    BY <1>1, <1>2, <1>3, <2>1 DEF Fresh
  <2>2. CASE job[o].fresh = FALSE
    BY <1>1, <2>2
  <2>. QED BY <1>4, <2>1, <2>2
<1>. QED BY <1>1, <1>2, <1>5, QuietNet

LEMMA AgonesNet ==
    ASSUME NetworkInv, OperatorInv', NEW o \in WithPods, Report(o) \/ StartPod(o)
    PROVE  NetworkInv'
<1>1. UNCHANGED <<resource, objects, world, job, synced>>
  BY DEF Report, StartPod
<1>. QED BY <1>1, QuietNet

\* The server is deleted, by name: its objects are left to the collector.
LEMMA DeleteNet == ASSUME NetworkInv, OperatorInv', NEW o \in Owner, Delete(o) PROVE NetworkInv'
<1>1. /\ o \in WithPods /\ o # "cluster"
      /\ resource' = [resource EXCEPT ![o] = None] /\ job' = [job EXCEPT ![o] = Idle]
      /\ synced' = synced \ {o} /\ UNCHANGED <<objects, world>>
  BY DEF Delete, WithPods
<1>2. /\ resource'[o] = None /\ \A p \in Owner \ {o} : resource'[p] = resource[p]
      /\ job'[o] = Idle /\ \A p \in Owner \ {o} : job'[p] = job[p]
      /\ resource'["cluster"] = resource["cluster"]
  BY <1>1 DEF NetworkInv, OperatorInv, Shape, Owner
<1>3. \A p \in Owner : Running(p)' => p # o /\ Running(p)
  BY <1>2 DEF Running, Idle
<1>4. RangeInv' /\ SizeInv'
  BY <1>1, <1>2 DEF NetworkInv, RangeInv, SizeInv, Optional
<1>5. JobInv'
  BY <1>2, <1>3 DEF NetworkInv, JobInv
<1>6. \A p \in Owner \ {o} : \A n : MadeUpTo(p, n) => MadeUpTo(p, n)'
  BY <1>1, <1>2, MadeUpToKept
<1>7. \A p \in Owner : Fresh(p)' => p # o /\ Fresh(p)
  BY <1>2, <1>3 DEF Fresh
<1>8. FreshInv'
  BY <1>2, <1>6, <1>7 DEF NetworkInv, FreshInv
<1>9. SyncInv'
  BY <1>1, <1>2, <1>3, <1>6 DEF NetworkInv, SyncInv, Fresh
<1>. QED BY <1>4, <1>5, <1>8, <1>9 DEF NetworkInv

\* Whoever may see the change is no longer synced, nor is its reconciliation fresh.
LEMMA OutdatedNet ==
    ASSUME NetworkInv, OperatorInv', NEW owners, Outdated(owners), UNCHANGED objects,
           world' \in Worlds,
           \A p \in Owner : /\ resource'[p] \in Optional(Specs[p])
                            /\ resource[p] # None => resource'[p] # None,
           \A p \in Owner \ owners :
              /\ UNCHANGED <<resource[p], resource["cluster"]>>
              /\ world' = world \/ p \notin WithPods
    PROVE  NetworkInv'
<1>1. /\ synced' = synced \ owners
      /\ \A p \in Owner : /\ job'[p].step = job[p].step
                          /\ Running(p)' <=> Running(p)
                          /\ p \notin owners => job'[p] = job[p]
      /\ \A p \in Owner : Running(p) =>
            /\ job'[p].owner = job[p].owner /\ job'[p].cluster = job[p].cluster
            /\ p \in owners => job'[p].fresh = FALSE
  BY OutdatedFacts DEF NetworkInv, OperatorInv, Outdated
<1>2. RangeInv' /\ SizeInv'
  BY DEF NetworkInv, RangeInv, SizeInv
<1>3. JobInv'
  <2> SUFFICES ASSUME NEW p \in Owner, Running(p)'
               PROVE  /\ resource'[p] # None /\ resource'["cluster"] # None
                      /\ job'[p].owner \in Specs[p] /\ job'[p].cluster \in Specs["cluster"]
                      /\ job'[p].step \in 1 .. Len(BuilderOrder[p]) + 1
                      /\ job'[p].fresh \in BOOLEAN
    BY DEF JobInv
  <2>1. Running(p)
    BY <1>1
  <2>2. /\ resource[p] # None /\ resource["cluster"] # None
        /\ job[p].owner \in Specs[p] /\ job[p].cluster \in Specs["cluster"]
        /\ job[p].step \in 1 .. Len(BuilderOrder[p]) + 1
        /\ job[p].fresh \in BOOLEAN
    BY <2>1 DEF NetworkInv, JobInv
  <2>3. resource'[p] # None /\ resource'["cluster"] # None
    BY <2>2 DEF Owner
  <2>. QED BY <1>1, <2>1, <2>2, <2>3
<1>4. \A p \in Owner \ owners : \A n : MadeUpTo(p, n) => MadeUpTo(p, n)'
  BY MadeUpToKept
<1>5. \A p \in Owner : Fresh(p)' => p \notin owners /\ Fresh(p)
  BY <1>1 DEF Fresh
<1>6. FreshInv'
  BY <1>1, <1>4, <1>5 DEF NetworkInv, FreshInv
<1>7. SyncInv'
  BY <1>1, <1>4 DEF NetworkInv, SyncInv, Fresh, Owner
<1>. QED BY <1>2, <1>3, <1>6, <1>7 DEF NetworkInv

LEMMA EditNet == ASSUME NetworkInv, OperatorInv', NEW o \in Owner, Edit(o) PROVE NetworkInv'
<1>1. PICK s \in Specs[o] : resource' = [resource EXCEPT ![o] = s]
  BY DEF Edit
<1> DEFINE owners == IF o = "cluster" THEN Owner ELSE {o}
<1>2. Outdated(owners) /\ UNCHANGED <<objects, world>>
  BY DEF Edit
<1>3. resource'[o] = s /\ \A p \in Owner \ {o} : resource'[p] = resource[p]
  BY <1>1 DEF NetworkInv, OperatorInv, Shape
<1>4. \A p \in Owner : /\ resource'[p] \in Optional(Specs[p])
                       /\ resource[p] # None => resource'[p] # None
  BY <1>1, <1>3, OperatorAssumption DEF NetworkInv, RangeInv, Optional
<1>5. \A p \in Owner \ owners : UNCHANGED <<resource[p], resource["cluster"]>>
  BY <1>3 DEF Owner
<1>6. world' \in Worlds /\ world' = world
  BY <1>2 DEF NetworkInv, RangeInv
<1> HIDE DEF owners
<1>. QED BY <1>2, <1>4, <1>5, <1>6, OutdatedNet

LEMMA WorldNet == ASSUME NetworkInv, OperatorInv', ChangeWorld PROVE NetworkInv'
<1>1. Outdated(WithPods) /\ UNCHANGED <<objects, resource>> /\ world' \in Worlds
  BY DEF ChangeWorld
<1>2. \A p \in Owner : resource'[p] \in Optional(Specs[p]) /\ (resource[p] # None => resource'[p] # None)
  BY <1>1 DEF NetworkInv, RangeInv
<1>. QED BY <1>1, <1>2, OutdatedNet

\* A step that changes one object leaves the others as they were made.
LEMMA OneChanges ==
    ASSUME NEW o \in Owner, NEW i \in DOMAIN BuilderOrder[o], UNCHANGED <<resource, world>>,
           \A k : k # BuilderOrder[o][i] =>
               /\ k \in DOMAIN objects' <=> k \in DOMAIN objects
               /\ k \in DOMAIN objects => objects'[k] = objects[k],
           NEW p \in Owner, NEW n, MadeUpTo(p, n),
           p = o => Made(o, resource[o], resource["cluster"], BuilderOrder[o][i])'
    PROVE  MadeUpTo(p, n)'
<1>1. CASE p # o
  <2>1. \A j \in DOMAIN BuilderOrder[p] : BuilderOrder[p][j] # BuilderOrder[o][i]
    BY <1>1, KeysApart
  <2>2. \A j \in DOMAIN BuilderOrder[p] :
           LET key == BuilderOrder[p][j] IN
           /\ key \in DOMAIN objects' <=> key \in DOMAIN objects
           /\ key \in DOMAIN objects => objects'[key] = objects[key]
    BY <2>1
  <2>. QED BY <2>2, MadeUpToKept
<1>2. CASE p = o
  <2> SUFFICES ASSUME NEW j \in DOMAIN BuilderOrder[o], j <= n
               PROVE  Made(o, resource[o], resource["cluster"], BuilderOrder[o][j])'
    BY <1>2 DEF MadeUpTo
  <2>1. CASE j = i
    BY <1>2, <2>1
  <2>2. CASE j # i
    <3>1. BuilderOrder[o][j] # BuilderOrder[o][i]
      BY <2>2, KeysApart
    <3>2. PICK s, c : s = resource[o] /\ c = resource["cluster"]
      OBVIOUS
    <3>3. Made(o, s, c, BuilderOrder[o][j])
      BY <1>2, <3>2 DEF MadeUpTo
    <3>4. Made(o, s, c, BuilderOrder[o][j])'
      BY <3>1, <3>3, MadeKept
    <3>5. resource'[o] = s /\ resource'["cluster"] = c
      BY <3>2
    <3>. QED BY <3>4, <3>5
  <2>. QED BY <2>1, <2>2
<1>. QED BY <1>1, <1>2

LEMMA PodsKeyPlace ==
    ASSUME NEW o \in WithPods
    PROVE  o \in Owner /\ \E i \in DOMAIN BuilderOrder[o] : BuilderOrder[o][i] = PodsKey[o]
<1>1. o \in Owner
  BY DEF WithPods
<1>2. CASE o = "proxy"
  <2>1. 3 \in DOMAIN BuilderOrder["proxy"] /\ BuilderOrder["proxy"][3] = PodsKey["proxy"]
    BY OtherKeys DEF PodsKey
  <2>. QED BY <1>1, <1>2, <2>1
<1>3. CASE o = "fleet"
  <2>1. 2 \in DOMAIN BuilderOrder["fleet"] /\ BuilderOrder["fleet"][2] = PodsKey["fleet"]
    BY OtherKeys DEF PodsKey
  <2>. QED BY <1>1, <1>3, <2>1
<1>4. CASE o = "server"
  <2>1. 2 \in DOMAIN BuilderOrder["server"] /\ BuilderOrder["server"][2] = PodsKey["server"]
    BY OtherKeys DEF PodsKey
  <2>. QED BY <1>1, <1>4, <2>1
<1>. QED BY <1>2, <1>3, <1>4 DEF WithPods, Owner

\* Nobody else makes the object that the pods of an owner run from.
LEMMA PodsKeyOwner ==
    ASSUME NEW o \in Owner, NEW i \in DOMAIN BuilderOrder[o], NEW p \in WithPods,
           BuilderOrder[o][i] = PodsKey[p]
    PROVE  o = p
<1>1. PICK j \in DOMAIN BuilderOrder[p] : BuilderOrder[p][j] = PodsKey[p]
  BY PodsKeyPlace
<1>. QED BY <1>1, KeysApart, PodsKeyPlace

\* The size that a reconciliation gives a Fleet is a number.
LEMMA ReplicasSize ==
    ASSUME NetworkInv, NEW o \in {"proxy", "fleet"}, NEW s \in Specs[o]
    PROVE  Replicas(s, ExistingSize(PodsKey[o])) \in Nat
<1>1. s.replicas \in Nat
  BY SpecsAssumption DEF IsProxyFleetSpec, IsServerFleetSpec
<1>2. ExistingSize(PodsKey[o]) \in Nat \cup {None}
  BY DEF ExistingSize, NetworkInv, SizeInv
<1>. QED BY <1>1, <1>2 DEF Replicas, OrElse

\* After the call, the object is what the builder makes.
LEMMA ApplyMade ==
    ASSUME NetworkInv, NEW o \in Owner, Apply(o), NEW key, key = BuilderOrder[o][job[o].step]
    PROVE  /\ Made(o, job[o].owner, job[o].cluster, key)'
           /\ o \in {"proxy", "fleet"} /\ key = PodsKey[o] =>
                 /\ IsFleet(objects'[key]) /\ objects'[key].replicas \in Nat
                 /\ objects'[key].replicas = Replicas(job[o].owner, ExistingSize(key))
<1>1. PICK s, c : s = job[o].owner /\ c = job[o].cluster
  OBVIOUS
<1>2. /\ job'[o].owner = s /\ job'[o].cluster = c /\ world' = world /\ world \in Worlds
      /\ RunsPods(o, key) => ~Refused(o, s, c)
      /\ Needed(s, key) => /\ key \in DOMAIN objects'
                           /\ \E new \in Keys : objects'[key] = Asked(o, s, c, new, key)
      /\ ~Needed(s, key) => key \notin DOMAIN objects'
      /\ Running(o)
  BY <1>1, ApplyFacts DEF NetworkInv, OperatorInv, RangeInv
<1>3. s \in Specs[o] /\ c \in Specs["cluster"]
  BY <1>1, <1>2 DEF NetworkInv, JobInv
<1>4. CASE key = SecretKey
  <2>1. key \in DOMAIN objects'
    BY <1>2, <1>4, AlwaysNeeded
  <2>2. \A p \in WithPods : key # PodsKey[p]
    BY <1>4, PodsAreNoSecret
  <2>. QED BY <1>4, <2>1, <2>2 DEF Made, WithPods, Owner
<1>5. CASE key # SecretKey /\ RunsPods(o, key)
  <2>1. o \in WithPods /\ key = PodsKey[o]
    BY <1>5 DEF RunsPods
  <2>2. Built[o][world][c][s] # Error /\ ~Refused(o, s, c)'
    BY <1>2, <1>5 DEF Refused
  <2>3. objects'[key] = Sized(o, s, c)
    BY <1>2, <1>5, <2>1, AlwaysNeeded DEF Asked
  <2>4. CASE o = "server"
    <3>1. objects'[key] = Built[o][world][c][s]
      BY <2>3, <2>4 DEF Sized
    <3>2. Made(o, s, c, key)'
      BY <1>2, <1>5, <2>2, <2>4, <3>1 DEF Made, SamePods, RunsPods
    <3>. QED BY <1>1, <1>2, <2>4, <3>2
  <2>5. CASE o \in {"proxy", "fleet"}
    <3>1. PICK n \in Nat : n = Replicas(s, ExistingSize(PodsKey[o]))
      BY <1>3, <2>5, ReplicasSize
    <3>2. PICK f : f = Built[o][world][c][s]
      OBVIOUS
    <3>3. IsFleet(f)
      BY <1>2, <1>3, <2>2, <2>5, <3>2, BuiltIsFleet
    <3>4. objects'[key] = [f EXCEPT !.replicas = n]
      BY <2>3, <2>5, <3>1, <3>2 DEF Sized
    <3>5. /\ IsFleet(objects'[key]) /\ objects'[key].replicas = n
          /\ objects'[key].template = f.template
      BY <3>3, <3>4, Resized
    <3>6. Made(o, s, c, key)'
      BY <1>2, <1>5, <2>2, <2>5, <3>2, <3>5 DEF Made, SamePods, RunsPods
    <3>. QED BY <1>1, <1>2, <2>1, <3>1, <3>5, <3>6
  <2>. QED BY <2>1, <2>4, <2>5 DEF WithPods, Owner
<1>6. CASE key # SecretKey /\ ~RunsPods(o, key)
  <2>1. Needed(s, key) => objects'[key] = Plain(o, s, key)
    BY <1>2, <1>6 DEF Asked
  <2>2. Made(o, s, c, key)'
    BY <1>2, <1>6, <2>1 DEF Made, RunsPods
  <2>3. ~(o \in {"proxy", "fleet"} /\ key = PodsKey[o])
    BY <1>6 DEF RunsPods, WithPods, Owner
  <2>. QED BY <1>1, <1>2, <2>2, <2>3
<1>. QED BY <1>4, <1>5, <1>6

LEMMA ApplyNet == ASSUME NetworkInv, OperatorInv', NEW o \in Owner, Apply(o) PROVE NetworkInv'
<1>1. PICK i : i = job[o].step
  OBVIOUS
<1>2. PICK key : key = BuilderOrder[o][i]
  OBVIOUS
<1>3. /\ i \in DOMAIN BuilderOrder[o] /\ Running(o)
      /\ UNCHANGED <<resource, world, synced>>
      /\ \A p \in Owner \ {o} : job'[p] = job[p]
      /\ job'[o].step = i + 1
      /\ job'[o].owner = job[o].owner /\ job'[o].cluster = job[o].cluster
      /\ job'[o].fresh = job[o].fresh
      /\ DOMAIN objects' \subseteq DOMAIN objects \cup {key}
      /\ \A k \in DOMAIN objects \ {key} : k \in DOMAIN objects' /\ objects'[k] = objects[k]
  BY <1>1, <1>2, ApplyFacts DEF NetworkInv, OperatorInv
<1>4. /\ Made(o, job[o].owner, job[o].cluster, key)'
      /\ o \in {"proxy", "fleet"} /\ key = PodsKey[o] =>
            IsFleet(objects'[key]) /\ objects'[key].replicas \in Nat
  BY <1>1, <1>2, ApplyMade
<1>5. i \in 1 .. Len(BuilderOrder[o])
  BY <1>3, OrderLength
<1>6. \A k : k # key => /\ k \in DOMAIN objects' <=> k \in DOMAIN objects
                        /\ k \in DOMAIN objects => objects'[k] = objects[k]
  BY <1>3
<1>7. Fresh(o) => Made(o, resource[o], resource["cluster"], key)'
  BY <1>3, <1>4 DEF NetworkInv, FreshInv, Fresh
<1>8. \A p \in Owner : \A n : MadeUpTo(p, n) /\ (p = o => Fresh(o)) => MadeUpTo(p, n)'
  BY <1>2, <1>3, <1>6, <1>7, OneChanges
<1>9. \A p \in Owner : (Running(p)' <=> Running(p)) /\ (Fresh(p)' <=> Fresh(p))
  BY <1>3, <1>5 DEF Running, Fresh
<1>10. RangeInv'
  <2>1. world' \in Worlds /\ \A p \in Owner : resource'[p] \in Optional(Specs[p])
    BY <1>3 DEF NetworkInv, RangeInv
  <2>2. \A k \in DOMAIN objects' :
           \E p \in Owner : \E j \in DOMAIN BuilderOrder[p] : k = BuilderOrder[p][j]
    BY <1>2, <1>3 DEF NetworkInv, RangeInv
  <2>. QED BY <2>1, <2>2 DEF RangeInv
<1>11. SizeInv'
  <2> SUFFICES ASSUME NEW p \in {"proxy", "fleet"}, PodsKey[p] \in DOMAIN objects'
               PROVE  IsFleet(objects'[PodsKey[p]]) /\ objects'[PodsKey[p]].replicas \in Nat
    BY DEF SizeInv
  <2>1. CASE PodsKey[p] = key
    BY <1>2, <1>3, <1>4, <2>1, PodsKeyOwner DEF WithPods, Owner
  <2>2. CASE PodsKey[p] # key
    BY <1>6, <2>2 DEF NetworkInv, SizeInv
  <2>. QED BY <2>1, <2>2
<1>12. JobInv'
  <2> SUFFICES ASSUME NEW p \in Owner, Running(p)'
               PROVE  /\ resource[p] # None /\ resource["cluster"] # None
                      /\ job'[p].owner \in Specs[p] /\ job'[p].cluster \in Specs["cluster"]
                      /\ job'[p].step \in 1 .. Len(BuilderOrder[p]) + 1
                      /\ job'[p].fresh \in BOOLEAN
    BY <1>3 DEF JobInv
  <2>1. CASE p = o
    <3>1. i + 1 \in 1 .. Len(BuilderOrder[o]) + 1
      BY <1>5, OrderLength
    <3>. QED BY <1>3, <2>1, <3>1 DEF NetworkInv, JobInv
  <2>2. CASE p # o
    BY <1>3, <1>9, <2>2 DEF NetworkInv, JobInv
  <2>. QED BY <2>1, <2>2
<1>13. FreshInv'
  <2> SUFFICES ASSUME NEW p \in Owner, Fresh(p)'
               PROVE  /\ job'[p].owner = resource[p] /\ job'[p].cluster = resource["cluster"]
                      /\ MadeUpTo(p, job[p].step - 1)'
    BY <1>3 DEF FreshInv
  <2>1. CASE p = o
    <3>1. MadeUpTo(o, i - 1) /\ Fresh(o)
      BY <1>1, <1>9, <2>1 DEF NetworkInv, FreshInv
    <3>2. MadeUpTo(o, i - 1)'
      BY <1>8, <3>1
    <3>3. MadeUpTo(o, i)'
      <4> SUFFICES ASSUME NEW j \in DOMAIN BuilderOrder[o], j <= i
                   PROVE  Made(o, resource[o], resource["cluster"], BuilderOrder[o][j])'
        BY DEF MadeUpTo
      <4>1. CASE j = i
        BY <1>2, <1>7, <3>1, <4>1
      <4>2. CASE j # i
        <5>1. j <= i - 1
          BY <1>5, <4>2, OrderLength
        <5>. QED BY <3>2, <5>1 DEF MadeUpTo
      <4>. QED BY <4>1, <4>2
    <3>4. job'[o].step - 1 = i
      BY <1>3, <1>5
    <3>5. MadeUpTo(p, job[p].step - 1)'
      BY <2>1, <3>3, <3>4
    <3>. QED BY <1>3, <2>1, <3>1, <3>5 DEF NetworkInv, FreshInv
  <2>2. CASE p # o
    <3>1. MadeUpTo(p, job[p].step - 1) /\ Fresh(p)
      BY <1>9 DEF NetworkInv, FreshInv
    <3>2. PICK n : n = job[p].step - 1
      OBVIOUS
    <3>3. MadeUpTo(p, n)'
      BY <1>8, <2>2, <3>1, <3>2
    <3>4. job'[p] = job[p]
      BY <1>3, <2>2
    <3>5. MadeUpTo(p, job[p].step - 1)'
      BY <3>2, <3>3, <3>4
    <3>. QED BY <1>3, <3>1, <3>4, <3>5 DEF NetworkInv, FreshInv
  <2>. QED BY <2>1, <2>2
<1>14. SyncInv'
  BY <1>3, <1>8, <1>9 DEF NetworkInv, SyncInv
<1>. QED BY <1>10, <1>11, <1>12, <1>13, <1>14 DEF NetworkInv

\* The size of a Fleet is nobody's but the autoscaler's.
LEMMA ScaleNet ==
    ASSUME NetworkInv, OperatorInv', NEW o \in {"proxy", "fleet"}, Scale(o)
    PROVE  NetworkInv'
<1>1. PICK n \in 0 .. 1 : objects' = [objects EXCEPT ![PodsKey[o]].replicas = n]
  BY DEF Scale
<1>2. UNCHANGED <<resource, world, job, synced>> /\ o \in WithPods
  BY DEF Scale, WithPods, Owner
<1>3. PICK i \in DOMAIN BuilderOrder[o] : BuilderOrder[o][i] = PodsKey[o]
  BY <1>2, PodsKeyPlace
<1>4. DOMAIN objects' = DOMAIN objects /\ \A k \in DOMAIN objects \ {PodsKey[o]} : objects'[k] = objects[k]
  BY <1>1 DEF NetworkInv, OperatorInv, Shape
<1>5. PICK f : f = objects[PodsKey[o]]
  OBVIOUS
<1>6. PodsKey[o] \in DOMAIN objects =>
        /\ objects'[PodsKey[o]] = [f EXCEPT !.replicas = n] /\ IsFleet(f)
        /\ IsFleet(objects'[PodsKey[o]]) /\ objects'[PodsKey[o]].replicas = n
        /\ objects'[PodsKey[o]].template = f.template
  <2> SUFFICES ASSUME PodsKey[o] \in DOMAIN objects
               PROVE  /\ objects'[PodsKey[o]] = [f EXCEPT !.replicas = n] /\ IsFleet(f)
                      /\ IsFleet(objects'[PodsKey[o]]) /\ objects'[PodsKey[o]].replicas = n
                      /\ objects'[PodsKey[o]].template = f.template
    OBVIOUS
  <2>1. IsFleet(f)
    BY <1>5 DEF NetworkInv, SizeInv
  <2>2. objects'[PodsKey[o]] = [f EXCEPT !.replicas = n]
    BY <1>1, <1>5 DEF NetworkInv, OperatorInv, Shape
  <2>. QED BY <2>1, <2>2, Resized
<1>7. Made(o, resource[o], resource["cluster"], PodsKey[o]) =>
        Made(o, resource[o], resource["cluster"], PodsKey[o])'
  BY <1>2, <1>4, <1>5, <1>6, PodsAreNoSecret DEF Made, RunsPods, SamePods, Refused
<1>8. \A p \in Owner : \A m : MadeUpTo(p, m) => MadeUpTo(p, m)'
  <2> SUFFICES ASSUME NEW p \in Owner, NEW m, MadeUpTo(p, m) PROVE MadeUpTo(p, m)'
    OBVIOUS
  <2>1. \A k : k # BuilderOrder[o][i] => /\ k \in DOMAIN objects' <=> k \in DOMAIN objects
                                         /\ k \in DOMAIN objects => objects'[k] = objects[k]
    BY <1>3, <1>4
  <2>2. CASE p # o
    BY <1>2, <2>1, <2>2, OneChanges DEF WithPods
  <2>3. CASE p = o
    <3> SUFFICES ASSUME NEW j \in DOMAIN BuilderOrder[o], j <= m
                 PROVE  Made(o, resource[o], resource["cluster"], BuilderOrder[o][j])'
      BY <2>3 DEF MadeUpTo
    <3>1. PICK s, c : s = resource[o] /\ c = resource["cluster"]
      OBVIOUS
    <3>2. Made(o, s, c, BuilderOrder[o][j])
      BY <2>3, <3>1 DEF MadeUpTo
    <3>3. CASE BuilderOrder[o][j] = PodsKey[o]
      BY <1>7, <3>1, <3>2, <3>3
    <3>4. CASE BuilderOrder[o][j] # PodsKey[o]
      <4>1. Made(o, s, c, BuilderOrder[o][j])'
        BY <1>2, <1>3, <2>1, <3>2, <3>4, MadeKept
      <4>. QED BY <1>2, <3>1, <4>1
    <3>. QED BY <3>3, <3>4
  <2>. QED BY <2>2, <2>3
<1>9. RangeInv'
  BY <1>2, <1>4 DEF NetworkInv, RangeInv
<1>10. SizeInv'
  <2>1. \A p \in {"proxy", "fleet"} : p # o => PodsKey[p] # PodsKey[o]
    BY DEF PodsKey
  <2>2. n \in Nat
    BY <1>1
  <2>. QED BY <1>4, <1>6, <2>1, <2>2 DEF NetworkInv, SizeInv
<1>11. JobInv' /\ FreshInv' /\ SyncInv'
  BY <1>2, <1>8 DEF NetworkInv, JobInv, FreshInv, SyncInv, Running, Fresh
<1>. QED BY <1>9, <1>10, <1>11 DEF NetworkInv

\* Only a GameServer is removed, and no synced owner relies on it.
LEMMA RemoveNet == ASSUME NetworkInv, OperatorInv', NEW o \in WithPods, Remove(o) PROVE NetworkInv'
<1>1. /\ o = "server" /\ UNCHANGED <<resource, world, job, synced>>
      /\ objects' = [k \in DOMAIN objects \ {PodsKey[o]} |-> objects[k]]
  BY DEF Remove, Ended
<1>2. PICK i \in DOMAIN BuilderOrder[o] : BuilderOrder[o][i] = PodsKey[o]
  BY PodsKeyPlace
<1>3. \A k : k # BuilderOrder[o][i] => /\ k \in DOMAIN objects' <=> k \in DOMAIN objects
                                       /\ k \in DOMAIN objects => objects'[k] = objects[k]
  BY <1>1, <1>2
<1>4. PodsKey[o] \notin DOMAIN objects'
  BY <1>1
<1>5. Made(o, resource[o], resource["cluster"], BuilderOrder[o][i])'
  BY <1>1, <1>2, <1>4, PodsAreNoSecret DEF Made, RunsPods
<1>6. \A p \in Owner : \A n : MadeUpTo(p, n) => MadeUpTo(p, n)'
  BY <1>1, <1>3, <1>5, OneChanges, PodsKeyPlace
<1>7. RangeInv'
  BY <1>1 DEF NetworkInv, RangeInv
<1>8. SizeInv'
  BY <1>1 DEF NetworkInv, SizeInv
<1>9. JobInv' /\ FreshInv' /\ SyncInv'
  BY <1>1, <1>6 DEF NetworkInv, JobInv, FreshInv, SyncInv, Running, Fresh
<1>. QED BY <1>7, <1>8, <1>9 DEF NetworkInv

\* The owner of what is collected is neither there nor reconciled.
LEMMA CollectNet == ASSUME NetworkInv, OperatorInv', NEW o \in Owner, Collect(o) PROVE NetworkInv'
<1>1. /\ UNCHANGED <<resource, world, job, synced>> /\ resource[o] = None /\ ~Running(o)
      /\ objects' = [k \in DOMAIN objects \ OwnedBy(o) |-> objects[k]]
  BY DEF Collect
<1>2. \A p \in Owner \ {o} : \A j \in DOMAIN BuilderOrder[p] : BuilderOrder[p][j] \notin OwnedBy(o)
  BY KeysApart DEF OwnedBy
<1>3. \A p \in Owner \ {o} : \A n : MadeUpTo(p, n) => MadeUpTo(p, n)'
  <2> SUFFICES ASSUME NEW p \in Owner \ {o}, NEW n, MadeUpTo(p, n) PROVE MadeUpTo(p, n)'
    OBVIOUS
  <2>1. \A j \in DOMAIN BuilderOrder[p] :
           LET key == BuilderOrder[p][j] IN
           /\ key \in DOMAIN objects' <=> key \in DOMAIN objects
           /\ key \in DOMAIN objects => objects'[key] = objects[key]
    BY <1>1, <1>2
  <2>. QED BY <1>1, <2>1, MadeUpToKept
<1>4. RangeInv'
  BY <1>1 DEF NetworkInv, RangeInv
<1>5. SizeInv'
  BY <1>1 DEF NetworkInv, SizeInv
<1>6. JobInv'
  BY <1>1 DEF NetworkInv, JobInv, Running
<1>7. FreshInv'
  BY <1>1, <1>3 DEF NetworkInv, FreshInv, Running, Fresh
<1>8. SyncInv'
  BY <1>1, <1>3 DEF NetworkInv, SyncInv, Running, Fresh
<1>. QED BY <1>4, <1>5, <1>6, <1>7, <1>8 DEF NetworkInv

LEMMA NetworkNext == ASSUME NetworkInv, [Next]_vars PROVE NetworkInv'
<1>0. OperatorInv'
  BY NextInv DEF NetworkInv
<1>1. CASE UNCHANGED vars
  <2>1. UNCHANGED <<resource, objects, world, job, synced>>
    BY <1>1 DEF vars
  <2>. QED BY <1>0, <2>1, QuietNet
<1>2. CASE \E o \in Owner : Start(o) \/ Apply(o)
  BY <1>0, <1>2, StartNet, ApplyNet
<1>3. CASE \E o \in Owner : Refuse(o) \/ Fail(o) \/ Finish(o) \/ Panic(o)
  BY <1>0, <1>3, EndsNet, PanicNet
<1>4. CASE \E o \in Owner : Delete(o) \/ Edit(o) \/ Collect(o)
  BY <1>0, <1>4, DeleteNet, EditNet, CollectNet
<1>5. CASE ChangeWorld
  BY <1>0, <1>5, WorldNet
<1>6. CASE \E o \in WithPods : Report(o) \/ Remove(o) \/ StartPod(o)
  BY <1>0, <1>6, AgonesNet, RemoveNet
<1>7. CASE \E o \in {"proxy", "fleet"} : Scale(o)
  BY <1>0, <1>7, ScaleNet
<1>. QED BY <1>1, <1>2, <1>3, <1>4, <1>5, <1>6, <1>7 DEF Next, Reconcile

(* At any moment every object of an owner that was reconciled from what is  *)
(* there is what its builder makes of it, of the cluster and of the world:  *)
(* concurrent reconciliations, edits and failures do not wear it away.      *)
THEOREM NetworkAlways == Spec => []NetworkInv
<1>1. NetworkInv /\ [Next]_vars => NetworkInv'
  BY NetworkNext
<1>. QED BY <1>1, InitNetwork, PTL DEF Spec

(***************************************************************************)
(* The types.                                                              *)
(***************************************************************************)
SecretIsKey == SecretKey \in DOMAIN objects => Secret \in Keys

CountInv == edits \in 0 .. MaxEdits /\ events \in 0 .. MaxEvents

LEMMA ApplySecret ==
    ASSUME NetworkInv, SecretIsKey, NEW o \in Owner, Apply(o)
    PROVE  SecretIsKey'
<1>1. PICK key : key = BuilderOrder[o][job[o].step]
  OBVIOUS
<1>2. /\ job[o].step \in DOMAIN BuilderOrder[o]
      /\ DOMAIN objects' \subseteq DOMAIN objects \cup {key}
      /\ \A k \in DOMAIN objects \ {key} : k \in DOMAIN objects' /\ objects'[k] = objects[k]
      /\ Needed(job[o].owner, key) =>
            \E new \in Keys : objects'[key] = Asked(o, job[o].owner, job[o].cluster, new, key)
  BY <1>1, ApplyFacts DEF NetworkInv, OperatorInv
<1>3. CASE key = SecretKey
  <2>1. PICK new \in Keys : objects'[SecretKey] = Asked(o, job[o].owner, job[o].cluster, new, SecretKey)
    BY <1>2, <1>3, AlwaysNeeded
  <2>2. /\ SecretKey \in DOMAIN objects => Secret' = Secret
        /\ SecretKey \notin DOMAIN objects => Secret' = new
    BY <2>1 DEF Asked, ForwardingSecret, get_existing_or_new_forwarding_secret, SecretKey, Secret,
                NetworkInv, OperatorInv, KeyInv
  <2>. QED BY <2>2 DEF SecretIsKey
<1>4. CASE key # SecretKey
  BY <1>2, <1>4 DEF SecretIsKey, Secret
<1>. QED BY <1>3, <1>4

LEMMA SecretNext == ASSUME NetworkInv, SecretIsKey, [Next]_vars PROVE SecretIsKey'
<1>1. CASE \E o \in Owner : Apply(o)
  BY <1>1, ApplySecret
<1>2. CASE \E o \in {"proxy", "fleet"} : Scale(o)
  <2>1. PICK o \in {"proxy", "fleet"} : Scale(o)
    BY <1>2
  <2>2. PICK n : objects' = [objects EXCEPT ![PodsKey[o]].replicas = n]
    BY <2>1 DEF Scale
  <2>3. PodsKey[o] # SecretKey
    BY PodsAreNoSecret DEF WithPods, Owner
  <2>. QED BY <2>2, <2>3 DEF SecretIsKey, Secret, NetworkInv, OperatorInv, Shape
<1>3. CASE \E o \in Owner : Collect(o)
  BY <1>3 DEF Collect, SecretIsKey, Secret
<1>4. CASE \E o \in WithPods : Remove(o)
  BY <1>4 DEF Remove, SecretIsKey, Secret
<1>5. CASE UNCHANGED objects
  BY <1>5 DEF SecretIsKey, Secret
<1>. QED BY <1>1, <1>2, <1>3, <1>4, <1>5
     DEF Next, Reconcile, vars, Start, Refuse, Fail, Finish, Panic, Delete, Edit, ChangeWorld, Report, StartPod

LEMMA CountNext == ASSUME CountInv, [Next]_vars PROVE CountInv'
<1>1. MaxEdits \in Nat /\ MaxEvents \in Nat
  BY OperatorAssumption
<1>2. CASE UNCHANGED <<edits, events>>
  BY <1>2 DEF CountInv
<1>3. CASE edits < MaxEdits /\ edits' = edits + 1 /\ UNCHANGED events
  BY <1>1, <1>3 DEF CountInv
<1>4. CASE events < MaxEvents /\ events' = events + 1 /\ UNCHANGED edits
  BY <1>1, <1>4 DEF CountInv
<1>. QED BY <1>2, <1>3, <1>4
     DEF Next, Reconcile, vars, Start, Apply, Refuse, Fail, Finish, Panic, Delete, Edit, Collect, ChangeWorld,
         Report, Remove, StartPod, Scale

(* The resources are of the types of the CRDs, Fleets have a size, every    *)
(* object belongs to one of the resources, no reconciliation runs past its  *)
(* last builder and pods only read keys that were generated.                *)
THEOREM OperatorTypeOK == Spec => []TypeOK
<1>1. Init => NetworkInv /\ SecretIsKey /\ CountInv
  <2> SUFFICES ASSUME Init PROVE NetworkInv /\ SecretIsKey /\ CountInv
    OBVIOUS
  <2>1. DOMAIN objects = {}
    BY DEF Init
  <2>. QED BY <2>1, InitNetwork, OperatorAssumption DEF Init, SecretIsKey, CountInv
<1>2. NetworkInv /\ SecretIsKey /\ CountInv /\ [Next]_vars => (NetworkInv /\ SecretIsKey /\ CountInv)'
  BY NetworkNext, SecretNext, CountNext
<1>3. NetworkInv /\ SecretIsKey /\ CountInv => TypeOK
  <2> SUFFICES ASSUME NetworkInv, SecretIsKey, CountInv PROVE TypeOK
    OBVIOUS
  <2>1. /\ resource["cluster"] \in Optional(MinecraftClusterSpec)
        /\ resource["proxy"] # None => IsProxyFleetSpec(resource["proxy"])
        /\ resource["fleet"] # None => IsServerFleetSpec(resource["fleet"])
        /\ resource["server"] # None => IsServerSpec(resource["server"])
    <3>1. \A o \in Owner : resource[o] \in Specs[o] \cup {None}
      BY DEF NetworkInv, RangeInv, Optional
    <3>. QED BY <3>1, SpecsAssumption DEF Owner, Optional
  <2>2. DOMAIN objects = UNION {OwnedBy(o) : o \in Owner}
    BY DEF NetworkInv, RangeInv, OwnedBy
  <2>3. \A o \in Owner : job[o].step \in 0 .. (Len(BuilderOrder[o]) + 1)
    <3> SUFFICES ASSUME NEW o \in Owner PROVE job[o].step \in 0 .. (Len(BuilderOrder[o]) + 1)
      OBVIOUS
    <3>1. CASE Running(o)
      BY <3>1, OrderLength DEF NetworkInv, JobInv
    <3>2. CASE ~Running(o)
      <4>1. job[o].step = 0
        BY <3>2, JobFacts DEF NetworkInv, OperatorInv
      <4>2. 0 \in 0 .. (Len(BuilderOrder[o]) + 1)
        BY OrderLength
      <4>. QED BY <4>1, <4>2
    <3>. QED BY <3>1, <3>2
  <2>4. synced \subseteq Owner
    BY DEF NetworkInv, SyncInv
  <2>5. keys \subseteq Keys
    BY DEF NetworkInv, OperatorInv, KeyInv, SecretIsKey
  <2>6. \A o \in {"proxy", "fleet"} :
           PodsKey[o] \in DOMAIN objects => objects[PodsKey[o]].replicas \in Nat
    BY DEF NetworkInv, SizeInv
  <2>. QED BY <2>1, <2>2, <2>3, <2>4, <2>5, <2>6 DEF TypeOK, CountInv
<1>. QED BY <1>1, <1>2, <1>3, PTL DEF Spec

(* A reconciliation leaves the size of an autoscaled fleet to its           *)
(* autoscaler, whatever it does and however it ends.                        *)
THEOREM SizeIsKept == Spec => ScaleKept
<1>1. ASSUME NetworkInv, [Next]_vars, NEW o \in {"proxy", "fleet"},
             Autoscaled(o), job'[o] # job[o], PodsKey[o] \in DOMAIN objects
      PROVE  objects'[PodsKey[o]].replicas = objects[PodsKey[o]].replicas
  <2>1. CASE UNCHANGED objects
    BY <2>1
  <2>2. CASE \E p \in Owner : Apply(p)
    <3>1. PICK p \in Owner : Apply(p)
      BY <2>2
    <3>2. PICK key : key = BuilderOrder[p][job[p].step]
      OBVIOUS
    <3>3. /\ \A q \in Owner \ {p} : job'[q] = job[q]
          /\ \A k \in DOMAIN objects \ {key} : k \in DOMAIN objects' /\ objects'[k] = objects[k]
      BY <1>1, <3>1, <3>2, ApplyFacts DEF NetworkInv, OperatorInv
    <3>4. p = o
      BY <1>1, <3>3 DEF Owner
    <3>5. CASE key # PodsKey[o]
      BY <1>1, <3>3, <3>5
    <3>6. CASE key = PodsKey[o]
      <4>1. objects'[key].replicas = Replicas(job[o].owner, ExistingSize(key))
        BY <1>1, <3>1, <3>2, <3>4, <3>6, ApplyMade
      <4>2. objects[key].replicas \in Nat
        BY <1>1, <3>6 DEF NetworkInv, SizeInv
      <4>3. ExistingSize(key) = objects[key].replicas
        BY <1>1, <3>6 DEF ExistingSize
      <4>. QED BY <1>1, <3>6, <4>1, <4>2, <4>3, OperatorAssumption DEF Replicas, OrElse, Autoscaled
    <3>. QED BY <3>5, <3>6
  <2>3. CASE UNCHANGED job
    BY <1>1, <2>3
  <2>. QED BY <1>1, <2>1, <2>2, <2>3
       DEF Next, Reconcile, vars, Start, Refuse, Fail, Finish, Panic, Delete, Edit, Collect, ChangeWorld, Report,
           Remove, StartPod, Scale
<1>2. NetworkInv /\ [Next]_vars =>
        [\A o \in {"proxy", "fleet"} :
            Autoscaled(o) /\ job'[o] # job[o] /\ PodsKey[o] \in DOMAIN objects =>
                objects'[PodsKey[o]].replicas = objects[PodsKey[o]].replicas]_vars
  BY <1>1
<1>. QED BY <1>2, NetworkAlways, PTL DEF Spec, ScaleKept

(***************************************************************************)
(* The pods of the templates, under what users write over them.            *)
(***************************************************************************)
PodFields == {"init", "container", "volumes", "subdomain", "service_account", "labels"}

LEMMA Overridden ==
    ASSUME NEW pod, NEW po, PodFields \subseteq DOMAIN pod,
           {"env", "mounts", "ports"} \subseteq DOMAIN pod.container
    PROVE  LET over == WithOverrides(pod, po)
           IN  /\ over.init = pod.init /\ over.container.env = pod.container.env
               /\ over.container.ports = pod.container.ports \cup po.ports
               /\ over.container.mounts = pod.container.mounts \cup po.volume_mounts
               /\ over.volumes = pod.volumes \cup po.volumes
               /\ over.subdomain = pod.subdomain /\ over.service_account = pod.service_account
               /\ over.labels = pod.labels
<1> DEFINE over == WithOverrides(pod, po)
<1>1. PICK container : container = pod.container
  OBVIOUS
<1>2. /\ OverriddenContainer(container, po).env = container.env
      /\ OverriddenContainer(container, po).ports = container.ports \cup po.ports
      /\ OverriddenContainer(container, po).mounts = container.mounts \cup po.volume_mounts
  BY <1>1 DEF OverriddenContainer
<1>3. /\ over.init = pod.init /\ over.container = OverriddenContainer(pod.container, po)
      /\ over.volumes = pod.volumes \cup po.volumes
      /\ over.subdomain = pod.subdomain /\ over.service_account = pod.service_account
      /\ over.labels = pod.labels
  BY DEF WithOverrides, PodFields
<1>. QED BY <1>1, <1>2, <1>3

\* The pod of a server, alone or in a fleet, in terms of what users wrote.
MadeServerPod(pod, w, c, cluster, server, spec, fleet, metadata) ==
    /\ get_init_env(w, AgentConfig, spec) # Error
    /\ get_env(w, c, cluster, spec, fleet) # Error
    /\ pod.init = [ script |-> ServerConfigDir \o <<"init-fs.sh">>,
                    env |-> get_init_env(w, AgentConfig, spec),
                    mounts |-> { <<"shulker-config", ServerConfigDir>>,
                                 <<"server-config", <<"/config">> >> } ]
    /\ pod.container.env = get_env(w, c, cluster, spec, fleet)
    /\ pod.container.mounts = { <<"server-config", <<"/config">> >>, <<"server-data", <<"/data">> >>,
                                <<"server-tmp", <<"/tmp">> >> }
                              \cup spec.pod_overrides.volume_mounts
    /\ pod.volumes = ServerVolumes(server, spec) \cup spec.pod_overrides.volumes
    /\ pod.subdomain = HeadlessServiceName(spec.cluster_ref)
    /\ pod.service_account = AccountName(spec.cluster_ref, "server")
    /\ pod.labels = MinecraftServerLabels(server, spec.cluster_ref,
                        "minecraft-server", "minecraft-server") @@ metadata.labels

LEMMA ServerPod ==
    ASSUME NEW w, NEW c, NEW cluster, NEW server, NEW spec, NEW fleet, NEW metadata,
           get_game_server_spec(w, AgentConfig, c, cluster, server, spec, fleet, metadata) # Error
    PROVE  MadeServerPod(
               get_game_server_spec(w, AgentConfig, c, cluster, server, spec, fleet, metadata).pod,
               w, c, cluster, server, spec, fleet, metadata)
<1>1. PICK init_env : init_env = get_init_env(w, AgentConfig, spec)
  OBVIOUS
<1>2. PICK env : env = get_env(w, c, cluster, spec, fleet)
  OBVIOUS
<1>3. PICK labels : labels = MinecraftServerLabels(server, spec.cluster_ref,
                                 "minecraft-server", "minecraft-server") @@ metadata.labels
  OBVIOUS
<1>4. PICK script : script = ServerConfigDir \o <<"init-fs.sh">>
  OBVIOUS
<1> DEFINE init == [ script |-> script, env |-> init_env,
                     mounts |-> { <<"shulker-config", ServerConfigDir>>,
                                  <<"server-config", <<"/config">> >> } ]
           mounts == { <<"server-config", <<"/config">> >>, <<"server-data", <<"/data">> >>,
                       <<"server-tmp", <<"/tmp">> >> }
           base == [ init |-> init,
                     container |-> [ image |-> "itzg/minecraft-server",
                                     pull_policy |-> "IfNotPresent",
                                     env |-> env, ports |-> {<<"minecraft", 25565>>},
                                     resources |-> None, probe |-> None, mounts |-> mounts ],
                     volumes |-> ServerVolumes(server, spec),
                     subdomain |-> HeadlessServiceName(spec.cluster_ref),
                     service_account |-> AccountName(spec.cluster_ref, "server"),
                     image_pull_secrets |-> None, affinity |-> None, node_selector |-> None,
                     tolerations |-> None, labels |-> labels,
                     annotations |-> metadata.annotations ]
           pod == WithOverrides(base, spec.pod_overrides)
           game == get_game_server_spec(w, AgentConfig, c, cluster, server, spec, fleet, metadata)
<1>5. get_pod_template_spec(w, AgentConfig, c, cluster, server, spec, fleet, metadata)
         = IF init_env = Error THEN Error ELSE IF env = Error THEN Error ELSE pod
  BY <1>1, <1>2, <1>3, <1>4 DEF get_pod_template_spec, IfOk
<1>6. /\ pod.init = init /\ pod.container.env = env
      /\ pod.container.mounts = mounts \cup spec.pod_overrides.volume_mounts
      /\ pod.volumes = ServerVolumes(server, spec) \cup spec.pod_overrides.volumes
      /\ pod.subdomain = HeadlessServiceName(spec.cluster_ref)
      /\ pod.service_account = AccountName(spec.cluster_ref, "server") /\ pod.labels = labels
  <2>1. /\ PodFields \subseteq DOMAIN base
        /\ {"env", "mounts", "ports"} \subseteq DOMAIN base.container
    BY DEF PodFields
  <2>2. /\ base.init = init /\ base.container.env = env /\ base.container.mounts = mounts
        /\ base.volumes = ServerVolumes(server, spec)
        /\ base.subdomain = HeadlessServiceName(spec.cluster_ref)
        /\ base.service_account = AccountName(spec.cluster_ref, "server")
        /\ base.labels = labels
    OBVIOUS
  <2> HIDE DEF base, init, mounts
  <2>. QED BY <2>1, <2>2, Overridden
<1> HIDE DEF pod
<1>7. init_env # Error /\ env # Error /\ game.pod = pod
  BY <1>5 DEF get_game_server_spec, IfOk
<1>. QED BY <1>1, <1>2, <1>3, <1>4, <1>6, <1>7 DEF MadeServerPod

LEMMA ProxyPod ==
    ASSUME NEW w, NEW cluster, NEW spec,
           ProxyGameServerSpec(w, AgentConfig, cluster, "proxy", spec) # Error
    PROVE  LET pod == ProxyGameServerSpec(w, AgentConfig, cluster, "proxy", spec).pod
               po == spec.template.pod_overrides
           IN  /\ ProxyInitEnv(w, AgentConfig, spec) # Error
               /\ ProxyEnv(cluster, "proxy", spec) # Error
               /\ pod.init = [ script |-> ProxyConfigDir \o <<"init-fs.sh">>,
                               env |-> ProxyInitEnv(w, AgentConfig, spec),
                               mounts |-> { <<"shulker-config", ProxyConfigDir>>,
                                            <<"proxy-data", ProxyDataDir>> } ]
               /\ pod.container.env = ProxyEnv(cluster, "proxy", spec)
               /\ pod.container.ports = {<<"minecraft", 25577>>} \cup po.ports
               /\ pod.container.mounts = ProxyMounts(cluster) \cup po.volume_mounts
               /\ pod.volumes = ProxyVolumes(cluster, "proxy", spec) \cup po.volumes
               /\ pod.subdomain = None
               /\ pod.service_account = AccountName(spec.cluster_ref, "proxy")
               /\ pod.labels = spec.metadata.labels @@ ProxyLabels("proxy", spec)
<1>1. PICK init_env : init_env = ProxyInitEnv(w, AgentConfig, spec)
  OBVIOUS
<1>2. PICK env : env = ProxyEnv(cluster, "proxy", spec)
  OBVIOUS
<1>3. PICK labels : labels = spec.metadata.labels @@ ProxyLabels("proxy", spec)
  OBVIOUS
<1>4. PICK script : script = ProxyConfigDir \o <<"init-fs.sh">>
  OBVIOUS
<1>5. PICK po : po = spec.template.pod_overrides
  OBVIOUS
<1> DEFINE init == [ script |-> script, env |-> init_env,
                     mounts |-> { <<"shulker-config", ProxyConfigDir>>,
                                  <<"proxy-data", ProxyDataDir>> } ]
           base == [ init |-> init,
                     container |-> [ image |-> "itzg/mc-proxy", pull_policy |-> "IfNotPresent",
                                     env |-> env, ports |-> {<<"minecraft", 25577>>},
                                     resources |-> None, probe |-> ReadinessProbe(po),
                                     mounts |-> ProxyMounts(cluster) ],
                     volumes |-> ProxyVolumes(cluster, "proxy", spec),
                     subdomain |-> None,
                     service_account |-> AccountName(spec.cluster_ref, "proxy"),
                     image_pull_secrets |-> None, affinity |-> None, node_selector |-> None,
                     tolerations |-> None, labels |-> labels,
                     annotations |-> spec.metadata.annotations ]
           pod == WithOverrides(base, po)
           game == ProxyGameServerSpec(w, AgentConfig, cluster, "proxy", spec)
<1>6. ProxyPodTemplate(w, AgentConfig, cluster, "proxy", spec)
         = IF init_env = Error THEN Error ELSE IF env = Error THEN Error ELSE pod
  BY <1>1, <1>2, <1>3, <1>4, <1>5 DEF ProxyPodTemplate, ProxyOverrides, IfOk
<1>7. /\ pod.init = init /\ pod.container.env = env
      /\ pod.container.ports = {<<"minecraft", 25577>>} \cup po.ports
      /\ pod.container.mounts = ProxyMounts(cluster) \cup po.volume_mounts
      /\ pod.volumes = ProxyVolumes(cluster, "proxy", spec) \cup po.volumes
      /\ pod.subdomain = None
      /\ pod.service_account = AccountName(spec.cluster_ref, "proxy") /\ pod.labels = labels
  <2>1. /\ PodFields \subseteq DOMAIN base
        /\ {"env", "mounts", "ports"} \subseteq DOMAIN base.container
    BY DEF PodFields
  <2>2. /\ base.init = init /\ base.container.env = env
        /\ base.container.ports = {<<"minecraft", 25577>>}
        /\ base.container.mounts = ProxyMounts(cluster)
        /\ base.volumes = ProxyVolumes(cluster, "proxy", spec) /\ base.subdomain = None
        /\ base.service_account = AccountName(spec.cluster_ref, "proxy")
        /\ base.labels = labels
    OBVIOUS
  <2> HIDE DEF base, init
  <2>. QED BY <2>1, <2>2, Overridden
<1> HIDE DEF pod
<1>8. init_env # Error /\ env # Error /\ game.pod = pod
  BY <1>6 DEF ProxyGameServerSpec, IfOk
<1>. QED BY <1>1, <1>2, <1>3, <1>4, <1>5, <1>7, <1>8

(***************************************************************************)
(* A settled network: every object is what its builder makes.              *)
(***************************************************************************)
LEMMA SettledFacts ==
    ASSUME NetworkInv, Settled, NEW o \in Deployed
    PROVE  /\ o \in WithPods /\ o \in Owner /\ PodsKey[o] \in DOMAIN objects
           /\ world \in Worlds /\ resource["cluster"] \in Specs["cluster"]
           /\ resource[o] \in Specs[o]
           /\ Built[o][world][resource["cluster"]][resource[o]] # Error
           /\ SamePods(o, objects[PodsKey[o]], Built[o][world][resource["cluster"]][resource[o]])
           /\ \A i \in DOMAIN BuilderOrder[o] :
                 Made(o, resource[o], resource["cluster"], BuilderOrder[o][i])
           /\ \A i \in DOMAIN BuilderOrder["cluster"] :
                 Made("cluster", resource["cluster"], resource["cluster"], BuilderOrder["cluster"][i])
<1>1. o \in WithPods /\ o \in Owner /\ resource[o] # None /\ PodsKey[o] \in DOMAIN objects
  BY DEF Deployed, WithPods
<1>2. o \in synced
  BY <1>1 DEF Settled
<1>3. resource["cluster"] # None /\ MadeUpTo(o, 11)
  BY <1>2 DEF NetworkInv, SyncInv
<1>4. "cluster" \in Owner /\ "cluster" \in synced
  BY <1>3 DEF Settled, Owner
<1>5. MadeUpTo("cluster", 11)
  BY <1>4 DEF NetworkInv, SyncInv
<1>6. \A p \in Owner : \A i \in DOMAIN BuilderOrder[p] : i <= 11
  BY OrderLength
<1>7. world \in Worlds /\ resource["cluster"] \in Specs["cluster"] /\ resource[o] \in Specs[o]
  BY <1>1, <1>3, <1>4 DEF NetworkInv, RangeInv, Optional
<1>8. \A i \in DOMAIN BuilderOrder[o] :
         Made(o, resource[o], resource["cluster"], BuilderOrder[o][i])
  BY <1>1, <1>3, <1>6 DEF MadeUpTo
<1>9. \A i \in DOMAIN BuilderOrder["cluster"] :
         Made("cluster", resource["cluster"], resource["cluster"], BuilderOrder["cluster"][i])
  BY <1>4, <1>5, <1>6 DEF MadeUpTo
<1>10. Made(o, resource[o], resource["cluster"], PodsKey[o])
  BY <1>1, <1>8, PodsKeyPlace
<1>11. /\ Built[o][world][resource["cluster"]][resource[o]] # Error
       /\ SamePods(o, objects[PodsKey[o]], Built[o][world][resource["cluster"]][resource[o]])
  BY <1>1, <1>10, PodsAreNoSecret DEF Made, RunsPods, Refused
<1>. QED BY <1>1, <1>7, <1>8, <1>9, <1>11

ServerGameServerSpec(w, c, s) ==
    get_game_server_spec(w, AgentConfig, "cluster", c, "server", s, None,
                         [labels |-> <<>>, annotations |-> <<>>])

LEMMA ServerMade ==
    ASSUME NEW w, NEW c, NEW s,
           ServerGameServer(w, AgentConfig, "cluster", c, "server", s,
                            [labels |-> <<>>, annotations |-> <<>>]) # Error
    PROVE  LET g == ServerGameServerSpec(w, c, s)
               f == ServerGameServer(w, AgentConfig, "cluster", c, "server", s,
                                     [labels |-> <<>>, annotations |-> <<>>])
           IN  /\ g # Error /\ f.spec = g
               /\ f.labels = MinecraftServerLabels("server", s.cluster_ref,
                                 "minecraft-server", "minecraft-server")
<1> DEFINE g == ServerGameServerSpec(w, c, s)
           f == ServerGameServer(w, AgentConfig, "cluster", c, "server", s,
                                 [labels |-> <<>>, annotations |-> <<>>])
<1>1. f = IF ~validate_spec(s) THEN Error ELSE IF g = Error THEN Error
          ELSE [ labels |-> MinecraftServerLabels("server", s.cluster_ref,
                                "minecraft-server", "minecraft-server"),
                 annotations |-> [tags |-> s.tags], spec |-> g ]
  BY DEF ServerGameServer, IfOk, ServerGameServerSpec
<1> HIDE DEF g
<1>. QED BY <1>1 DEF g

\* What the pods of an owner run from.
LEMMA ProxySpec ==
    ASSUME NetworkInv, Settled, "proxy" \in Deployed
    PROVE  LET g == ProxyGameServerSpec(world, AgentConfig, resource["cluster"], "proxy",
                                        resource["proxy"])
           IN  g # Error /\ GameServerSpec("proxy") = g /\ GameServerLabels("proxy") = g.pod.labels
<1>1. PICK w, c, s : w = world /\ c = resource["cluster"] /\ s = resource["proxy"]
  OBVIOUS
<1>2. /\ w \in Worlds /\ c \in Specs["cluster"] /\ s \in Specs["proxy"]
      /\ Built["proxy"][w][c][s] # Error
      /\ objects[PodsKey["proxy"]].template = Built["proxy"][w][c][s].template
  BY <1>1, SettledFacts DEF SamePods
<1>3. LET g == ProxyGameServerSpec(w, AgentConfig, c, "proxy", s) IN
      /\ g # Error /\ Built["proxy"][w][c][s].template.spec = g
      /\ Built["proxy"][w][c][s].template.metadata.labels = g.pod.labels
  BY <1>2, BuiltProxy, ProxyFleetMade
<1>. QED BY <1>1, <1>2, <1>3 DEF GameServerSpec, GameServerLabels

LEMMA FleetSpec ==
    ASSUME NetworkInv, Settled, "fleet" \in Deployed
    PROVE  LET g == ServerFleetGameServerSpec(world, resource["cluster"], resource["fleet"])
           IN  /\ g # Error /\ GameServerSpec("fleet") = g
               /\ GameServerLabels("fleet") = ServerTemplateMetadata("fleet", resource["fleet"]).labels
<1>1. PICK w, c, s : w = world /\ c = resource["cluster"] /\ s = resource["fleet"]
  OBVIOUS
<1>2. /\ w \in Worlds /\ c \in Specs["cluster"] /\ s \in Specs["fleet"]
      /\ Built["fleet"][w][c][s] # Error
      /\ objects[PodsKey["fleet"]].template = Built["fleet"][w][c][s].template
  BY <1>1, SettledFacts DEF SamePods
<1>3. LET g == ServerFleetGameServerSpec(w, c, s) IN
      /\ g # Error /\ Built["fleet"][w][c][s].template.spec = g
      /\ Built["fleet"][w][c][s].template.metadata = ServerTemplateMetadata("fleet", s)
  BY <1>2, BuiltFleet, ServerFleetMade
<1>. QED BY <1>1, <1>2, <1>3 DEF GameServerSpec, GameServerLabels

LEMMA ServerSpec ==
    ASSUME NetworkInv, Settled, "server" \in Deployed
    PROVE  LET g == ServerGameServerSpec(world, resource["cluster"], resource["server"])
           IN  /\ g # Error /\ GameServerSpec("server") = g
               /\ GameServerLabels("server")
                     = MinecraftServerLabels("server", resource["server"].cluster_ref,
                                             "minecraft-server", "minecraft-server")
<1>1. PICK w, c, s : w = world /\ c = resource["cluster"] /\ s = resource["server"]
  OBVIOUS
<1>2. /\ w \in Worlds /\ c \in Specs["cluster"] /\ s \in Specs["server"]
      /\ Built["server"][w][c][s] # Error
      /\ objects[PodsKey["server"]] = Built["server"][w][c][s]
  BY <1>1, SettledFacts DEF SamePods
<1>3. LET g == ServerGameServerSpec(w, c, s) IN
      /\ g # Error /\ Built["server"][w][c][s].spec = g
      /\ Built["server"][w][c][s].labels = MinecraftServerLabels("server", s.cluster_ref,
                                               "minecraft-server", "minecraft-server")
  BY <1>2, BuiltServer, ServerMade
<1>. QED BY <1>1, <1>2, <1>3 DEF GameServerSpec, GameServerLabels

\* What the builders of the cluster need, and make.
LEMMA ClusterNeeds ==
    ASSUME NEW c
    PROVE  /\ Needed(c, <<"Service", HeadlessServiceName("cluster")>>)
           /\ \A side \in {"proxy", "server"} :
                 /\ Needed(c, <<"ServiceAccount", AccountName("cluster", side)>>)
                 /\ Needed(c, <<"Role", RoleName("cluster", side)>>)
                 /\ Needed(c, <<"RoleBinding", RoleName("cluster", side)>>)
           /\ Needed(c, <<"Service", RedisName("cluster")>>) = RedisManaged(c)
           /\ Needed(c, <<"StatefulSet", RedisName("cluster")>>) = RedisManaged(c)
           /\ Needed(c, <<"ConfigMap", ExternalServersName("cluster")>>) = HasExternalServers(c)
<1> USE DEF HeadlessServiceName, AccountName, RoleName, RedisName, ExternalServersName
<1>1. Needed(c, <<"Service", HeadlessServiceName("cluster")>>)
  BY DEF Needed, ServerConfigName, ProxyConfigName
<1>2. \A side \in {"proxy", "server"} :
         /\ Needed(c, <<"ServiceAccount", AccountName("cluster", side)>>)
         /\ Needed(c, <<"Role", RoleName("cluster", side)>>)
         /\ Needed(c, <<"RoleBinding", RoleName("cluster", side)>>)
  BY DEF Needed, ServerConfigName, ProxyConfigName
<1>3. /\ Needed(c, <<"Service", RedisName("cluster")>>) = RedisManaged(c)
      /\ Needed(c, <<"StatefulSet", RedisName("cluster")>>) = RedisManaged(c)
  BY DEF Needed
<1>4. Needed(c, <<"ConfigMap", ExternalServersName("cluster")>>) = HasExternalServers(c)
  BY DEF Needed, ServerConfigName, ProxyConfigName
<1>. QED BY <1>1, <1>2, <1>3, <1>4

LEMMA ClusterMakes ==
    ASSUME NEW c
    PROVE  /\ ClusterObject("cluster", c, <<"Role", RoleName("cluster", "proxy")>>)
                 = ProxyRole("cluster")
           /\ ClusterObject("cluster", c, <<"RoleBinding", RoleName("cluster", "proxy")>>)
                 = ProxyRoleBinding("cluster")
           /\ ClusterObject("cluster", c, <<"Role", RoleName("cluster", "server")>>)
                 = MinecraftServerRole("cluster")
           /\ ClusterObject("cluster", c, <<"RoleBinding", RoleName("cluster", "server")>>)
                 = MinecraftServerRoleBinding("cluster")
           /\ ClusterObject("cluster", c, <<"Service", RedisName("cluster")>>)
                 = RedisService("cluster")
           /\ ClusterObject("cluster", c, <<"StatefulSet", RedisName("cluster")>>)
                 = RedisStatefulSet("cluster")
  BY DEF ClusterObject, HeadlessServiceName, AccountName, RoleName, RedisName

LEMMA ClusterMade ==
    ASSUME NetworkInv, Settled, Deployed # {}
    PROVE  /\ SecretKey \in DOMAIN objects
           /\ \A i \in 2 .. 11 :
                 LET key == BuilderOrder["cluster"][i]
                 IN  IF Needed(resource["cluster"], key)
                     THEN /\ key \in DOMAIN objects
                          /\ objects[key] = ClusterObject("cluster", resource["cluster"], key)
                     ELSE key \notin DOMAIN objects
<1>1. \A i \in DOMAIN BuilderOrder["cluster"] :
         Made("cluster", resource["cluster"], resource["cluster"], BuilderOrder["cluster"][i])
  BY SettledFacts
<1>2. SecretKey \in DOMAIN objects
  BY <1>1, SecretIsFirst DEF Made
<1>3. ASSUME NEW i \in 2 .. 11
      PROVE  LET key == BuilderOrder["cluster"][i]
             IN  IF Needed(resource["cluster"], key)
                 THEN /\ key \in DOMAIN objects
                      /\ objects[key] = ClusterObject("cluster", resource["cluster"], key)
                 ELSE key \notin DOMAIN objects
  <2>1. i \in DOMAIN BuilderOrder["cluster"] /\ BuilderOrder["cluster"][i] # SecretKey
    BY ClusterKeys, SecretIsFirst
  <2>. QED BY <1>1, <2>1 DEF Made, RunsPods, WithPods, Plain
<1>. QED BY <1>2, <1>3

\* The roles, the accounts and their bindings.
LEMMA RolesMade ==
    ASSUME NetworkInv, Settled, Deployed # {}
    PROVE  /\ \A side \in {"proxy", "server"} :
                 /\ <<"ServiceAccount", AccountName("cluster", side)>> \in DOMAIN objects
                 /\ <<"Role", RoleName("cluster", side)>> \in DOMAIN objects
                 /\ <<"RoleBinding", RoleName("cluster", side)>> \in DOMAIN objects
           /\ objects[<<"Role", RoleName("cluster", "proxy")>>] = ProxyRole("cluster")
           /\ objects[<<"RoleBinding", RoleName("cluster", "proxy")>>] = ProxyRoleBinding("cluster")
           /\ objects[<<"Role", RoleName("cluster", "server")>>] = MinecraftServerRole("cluster")
           /\ objects[<<"RoleBinding", RoleName("cluster", "server")>>]
                 = MinecraftServerRoleBinding("cluster")
<1>1. PICK c : c = resource["cluster"]
  OBVIOUS
<1>2. \A i \in 2 .. 11 :
         LET key == BuilderOrder["cluster"][i]
         IN  Needed(c, key) => /\ key \in DOMAIN objects
                               /\ objects[key] = ClusterObject("cluster", c, key)
  BY <1>1, ClusterMade
<1>3. /\ BuilderOrder["cluster"][3] = <<"ServiceAccount", AccountName("cluster", "proxy")>>
      /\ BuilderOrder["cluster"][4] = <<"Role", RoleName("cluster", "proxy")>>
      /\ BuilderOrder["cluster"][5] = <<"RoleBinding", RoleName("cluster", "proxy")>>
      /\ BuilderOrder["cluster"][6] = <<"ServiceAccount", AccountName("cluster", "server")>>
      /\ BuilderOrder["cluster"][7] = <<"Role", RoleName("cluster", "server")>>
      /\ BuilderOrder["cluster"][8] = <<"RoleBinding", RoleName("cluster", "server")>>
  BY ClusterKeys DEF AccountName, RoleName
<1>4. 3 \in 2 .. 11 /\ 4 \in 2 .. 11 /\ 5 \in 2 .. 11 /\ 6 \in 2 .. 11 /\ 7 \in 2 .. 11 /\ 8 \in 2 .. 11
  OBVIOUS
<1>5. \A side \in {"proxy", "server"} :
         /\ Needed(c, <<"ServiceAccount", AccountName("cluster", side)>>)
         /\ Needed(c, <<"Role", RoleName("cluster", side)>>)
         /\ Needed(c, <<"RoleBinding", RoleName("cluster", side)>>)
  BY ClusterNeeds
<1>6. <<"ServiceAccount", AccountName("cluster", "proxy")>> \in DOMAIN objects
  BY <1>2, <1>3, <1>4, <1>5
<1>7. <<"ServiceAccount", AccountName("cluster", "server")>> \in DOMAIN objects
  BY <1>2, <1>3, <1>4, <1>5
<1>8. /\ <<"Role", RoleName("cluster", "proxy")>> \in DOMAIN objects
      /\ objects[<<"Role", RoleName("cluster", "proxy")>>] = ProxyRole("cluster")
  BY <1>2, <1>3, <1>4, <1>5, ClusterMakes
<1>9. /\ <<"RoleBinding", RoleName("cluster", "proxy")>> \in DOMAIN objects
      /\ objects[<<"RoleBinding", RoleName("cluster", "proxy")>>] = ProxyRoleBinding("cluster")
  BY <1>2, <1>3, <1>4, <1>5, ClusterMakes
<1>10. /\ <<"Role", RoleName("cluster", "server")>> \in DOMAIN objects
       /\ objects[<<"Role", RoleName("cluster", "server")>>] = MinecraftServerRole("cluster")
  BY <1>2, <1>3, <1>4, <1>5, ClusterMakes
<1>11. /\ <<"RoleBinding", RoleName("cluster", "server")>> \in DOMAIN objects
       /\ objects[<<"RoleBinding", RoleName("cluster", "server")>>]
             = MinecraftServerRoleBinding("cluster")
  BY <1>2, <1>3, <1>4, <1>5, ClusterMakes
<1>. QED BY <1>6, <1>7, <1>8, <1>9, <1>10, <1>11

(***************************************************************************)
(* The pods of a settled network.                                          *)
(***************************************************************************)
LEMMA ProxyPodFacts ==
    ASSUME NetworkInv, Settled, "proxy" \in Deployed
    PROVE  LET pod == Pod("proxy")
               s == resource["proxy"]
               c == resource["cluster"]
               po == s.template.pod_overrides
           IN  /\ ProxyInitEnv(world, AgentConfig, s) # Error /\ ProxyEnv(c, "proxy", s) # Error
               /\ pod.init = [ script |-> ProxyConfigDir \o <<"init-fs.sh">>,
                               env |-> ProxyInitEnv(world, AgentConfig, s),
                               mounts |-> { <<"shulker-config", ProxyConfigDir>>,
                                            <<"proxy-data", ProxyDataDir>> } ]
               /\ pod.container.env = ProxyEnv(c, "proxy", s)
               /\ pod.container.ports = {<<"minecraft", 25577>>} \cup po.ports
               /\ pod.container.mounts = ProxyMounts(c) \cup po.volume_mounts
               /\ pod.volumes = ProxyVolumes(c, "proxy", s) \cup po.volumes
               /\ pod.subdomain = None /\ pod.service_account = AccountName("cluster", "proxy")
               /\ pod.labels = s.metadata.labels @@ ProxyLabels("proxy", s)
               /\ GameServerLabels("proxy") = pod.labels
<1>1. PICK w, c, s : w = world /\ c = resource["cluster"] /\ s = resource["proxy"]
  OBVIOUS
<1>2. LET g == ProxyGameServerSpec(w, AgentConfig, c, "proxy", s)
      IN  g # Error /\ Pod("proxy") = g.pod /\ GameServerLabels("proxy") = g.pod.labels
  BY <1>1, ProxySpec DEF Pod
<1>3. s.cluster_ref = "cluster"
  BY <1>1, SettledFacts, OneClusterAssumption
<1> DEFINE pod == ProxyGameServerSpec(w, AgentConfig, c, "proxy", s).pod
           po == s.template.pod_overrides
<1>4. /\ ProxyInitEnv(w, AgentConfig, s) # Error /\ ProxyEnv(c, "proxy", s) # Error
      /\ pod.init = [ script |-> ProxyConfigDir \o <<"init-fs.sh">>,
                      env |-> ProxyInitEnv(w, AgentConfig, s),
                      mounts |-> { <<"shulker-config", ProxyConfigDir>>,
                                   <<"proxy-data", ProxyDataDir>> } ]
      /\ pod.container.env = ProxyEnv(c, "proxy", s)
      /\ pod.container.ports = {<<"minecraft", 25577>>} \cup po.ports
      /\ pod.container.mounts = ProxyMounts(c) \cup po.volume_mounts
      /\ pod.volumes = ProxyVolumes(c, "proxy", s) \cup po.volumes
      /\ pod.subdomain = None
      /\ pod.service_account = AccountName(s.cluster_ref, "proxy")
      /\ pod.labels = s.metadata.labels @@ ProxyLabels("proxy", s)
  BY <1>2, ProxyPod
<1> HIDE DEF pod, po
<1>5. Pod("proxy") = pod /\ GameServerLabels("proxy") = pod.labels
  BY <1>2 DEF pod
<1>6. po = resource["proxy"].template.pod_overrides
  BY <1>1 DEF po
<1>. QED BY <1>1, <1>3, <1>4, <1>5, <1>6

\* The ConfigMap that the init script of a server reads.
ServerConfigSource(o, s) ==
    IF o = "fleet" THEN ServerConfigName("fleet")
    ELSE OrElse(s.config.existing_config_map_name, ServerConfigName(o))

\* The pod of a server, made from spec, which is a template or a server.
IsServerPod(pod, o, s, w, c, spec) ==
    /\ spec.cluster_ref = "cluster" /\ spec.pod_overrides = PodOverrides(o, s)
    /\ get_init_env(w, AgentConfig, spec) # Error
    /\ pod.init = [ script |-> ServerConfigDir \o <<"init-fs.sh">>,
                    env |-> get_init_env(w, AgentConfig, spec),
                    mounts |-> { <<"shulker-config", ServerConfigDir>>,
                                 <<"server-config", <<"/config">> >> } ]
    /\ \E fleet : /\ get_env(w, "cluster", c, spec, fleet) # Error
                  /\ pod.container.env = get_env(w, "cluster", c, spec, fleet)
    /\ pod.container.mounts = { <<"server-config", <<"/config">> >>, <<"server-data", <<"/data">> >>,
                                <<"server-tmp", <<"/tmp">> >> }
                              \cup PodOverrides(o, s).volume_mounts
    /\ pod.volumes = { <<"shulker-config", ConfigMapSource(ServerConfigSource(o, s))>>,
                       <<"server-config", EmptyDir>>, <<"server-data", EmptyDir>>,
                       <<"server-tmp", EmptyDir>> }
                     \cup PodOverrides(o, s).volumes
    /\ pod.subdomain = HeadlessServiceName("cluster")
    /\ pod.service_account = AccountName("cluster", "server")
    /\ \E labels : pod.labels = MinecraftServerLabels(o, "cluster", "minecraft-server",
                                                      "minecraft-server") @@ labels

LEMMA ServerPodMade ==
    ASSUME NEW o, NEW s, NEW w, NEW c, NEW spec, NEW fleet, NEW metadata,
           get_game_server_spec(w, AgentConfig, "cluster", c, o, spec, fleet, metadata) # Error,
           spec.cluster_ref = "cluster", spec.pod_overrides = PodOverrides(o, s),
           ServerVolumes(o, spec)
              = { <<"shulker-config", ConfigMapSource(ServerConfigSource(o, s))>>,
                  <<"server-config", EmptyDir>>, <<"server-data", EmptyDir>>, <<"server-tmp", EmptyDir>> }
    PROVE  IsServerPod(get_game_server_spec(w, AgentConfig, "cluster", c, o, spec, fleet, metadata).pod,
                       o, s, w, c, spec)
<1>1. PICK pod : pod = get_game_server_spec(w, AgentConfig, "cluster", c, o, spec, fleet, metadata).pod
  OBVIOUS
<1>2. MadeServerPod(pod, w, "cluster", c, o, spec, fleet, metadata)
  BY <1>1, ServerPod
<1>3. /\ get_env(w, "cluster", c, spec, fleet) # Error
      /\ pod.container.env = get_env(w, "cluster", c, spec, fleet)
  BY <1>2 DEF MadeServerPod
<1>4. \E labels : pod.labels = MinecraftServerLabels(o, "cluster", "minecraft-server",
                                                    "minecraft-server") @@ labels
  BY <1>2 DEF MadeServerPod
<1>. QED BY <1>1, <1>2, <1>3, <1>4 DEF MadeServerPod, IsServerPod

LEMMA FleetPodFacts ==
    ASSUME NetworkInv, Settled, "fleet" \in Deployed
    PROVE  /\ \E spec : IsServerPod(Pod("fleet"), "fleet", resource["fleet"], world,
                                    resource["cluster"], spec)
           /\ GameServerLabels("fleet") = ServerTemplateMetadata("fleet", resource["fleet"]).labels
<1>1. PICK w, c, s : w = world /\ c = resource["cluster"] /\ s = resource["fleet"]
  OBVIOUS
<1>2. s \in Specs["fleet"]
  BY <1>1, SettledFacts
<1>3. /\ DOMAIN s.template = {"cluster_ref", "tags", "version", "config", "pod_overrides"}
      /\ s.template.config \in MinecraftServerConfigurationSpec
      /\ s.cluster_ref = "cluster" /\ s.template.cluster_ref = "cluster"
  BY <1>2, SpecsAssumption, OneClusterAssumption DEF IsServerFleetSpec, IsServerSpec, WithPods, Owner
<1>4. PICK spec : spec = [s.template EXCEPT !.config.existing_config_map_name = ServerConfigName("fleet")]
  OBVIOUS
<1>5. PICK metadata : metadata = ServerTemplateMetadata("fleet", s)
  OBVIOUS
<1>6. LET g == get_game_server_spec(w, AgentConfig, "cluster", c, "fleet", spec, "fleet", metadata)
      IN  g # Error /\ Pod("fleet") = g.pod
  BY <1>1, <1>3, <1>4, <1>5, FleetSpec DEF Pod, ServerFleetGameServerSpec
<1>7. /\ spec.cluster_ref = "cluster" /\ spec.pod_overrides = s.template.pod_overrides
      /\ spec.config.existing_config_map_name = ServerConfigName("fleet")
  BY <1>3, <1>4 DEF MinecraftServerConfigurationSpec
<1>8. PodOverrides("fleet", s) = spec.pod_overrides
  BY <1>7 DEF PodOverrides
<1>9. ServerVolumes("fleet", spec)
         = { <<"shulker-config", ConfigMapSource(ServerConfigSource("fleet", s))>>,
             <<"server-config", EmptyDir>>, <<"server-data", EmptyDir>>, <<"server-tmp", EmptyDir>> }
  <2>1. OrElse(spec.config.existing_config_map_name, ServerConfigName("fleet"))
           = ServerConfigSource("fleet", s)
    BY <1>7 DEF ServerConfigSource, OrElse
  <2>. QED BY <2>1 DEF ServerVolumes
<1>10. IsServerPod(Pod("fleet"), "fleet", s, w, c, spec)
  BY <1>6, <1>7, <1>8, <1>9, ServerPodMade
<1>11. GameServerLabels("fleet") = ServerTemplateMetadata("fleet", s).labels
  BY <1>1, FleetSpec
<1>. QED BY <1>1, <1>10, <1>11

LEMMA ServerPodFacts ==
    ASSUME NetworkInv, Settled, "server" \in Deployed
    PROVE  /\ \E spec : IsServerPod(Pod("server"), "server", resource["server"], world,
                                    resource["cluster"], spec)
           /\ GameServerLabels("server") = MinecraftServerLabels("server", "cluster",
                                               "minecraft-server", "minecraft-server")
<1>1. PICK w, c, s : w = world /\ c = resource["cluster"] /\ s = resource["server"]
  OBVIOUS
<1>2. s \in Specs["server"] /\ s.cluster_ref = "cluster"
  BY <1>1, SettledFacts, OneClusterAssumption DEF WithPods, Owner
<1>3. PICK metadata : metadata = [labels |-> <<>>, annotations |-> <<>>]
  OBVIOUS
<1>4. LET g == get_game_server_spec(w, AgentConfig, "cluster", c, "server", s, None, metadata)
      IN  g # Error /\ Pod("server") = g.pod
  BY <1>1, <1>3, ServerSpec DEF Pod, ServerGameServerSpec
<1>5. PodOverrides("server", s) = s.pod_overrides
  BY DEF PodOverrides
<1>6. ServerVolumes("server", s)
         = { <<"shulker-config", ConfigMapSource(ServerConfigSource("server", s))>>,
             <<"server-config", EmptyDir>>, <<"server-data", EmptyDir>>, <<"server-tmp", EmptyDir>> }
  BY DEF ServerVolumes, ServerConfigSource
<1>7. IsServerPod(Pod("server"), "server", s, w, c, s)
  BY <1>2, <1>4, <1>5, <1>6, ServerPodMade
<1>8. GameServerLabels("server") = MinecraftServerLabels("server", "cluster",
                                       "minecraft-server", "minecraft-server")
  BY <1>1, <1>2, ServerSpec
<1>. QED BY <1>1, <1>7, <1>8

LEMMA PodFacts ==
    ASSUME NetworkInv, Settled, NEW o \in Deployed, o # "proxy"
    PROVE  \E spec : IsServerPod(Pod(o), o, resource[o], world, resource["cluster"], spec)
  BY FleetPodFacts, ServerPodFacts DEF Deployed, WithPods, Owner

LEMMA Granted ==
    ASSUME NEW account, NEW b \in DOMAIN objects, b[1] = "RoleBinding", account \in objects[b].subjects,
           NEW role, role = <<"Role", objects[b].role_ref>>, role \in DOMAIN objects
    PROVE  objects[role].rules \subseteq GrantedTo(account)
  BY DEF GrantedTo

LEMMA CallsAllowed ==
    /\ Calls("proxy") \subseteq ProxyRole("cluster").rules
    /\ \A o \in {"fleet", "server"} : Calls(o) \subseteq MinecraftServerRole("cluster").rules
  BY DEF Calls, ProxyRole, MinecraftServerRole, GameServerVerbs

(* Once all is reconciled, the account of every pod is bound to a role that *)
(* allows what the agents and the Agones sidecar call, if all resources are *)
(* of the one cluster, also by the clusterRef of a template, and keep the   *)
(* other assumptions of OperatorNetwork on users: the code does not check   *)
(* them.                                                                    *)
THEOREM PodsAreAuthorised == Spec => []PodsAuthorised
<1>1. NetworkInv => PodsAuthorised
  <2> SUFFICES ASSUME NetworkInv, Settled, NEW o \in Deployed
               PROVE  Calls(o) \subseteq GrantedTo(Pod(o).service_account)
    BY DEF PodsAuthorised
  <2>1. CASE o = "proxy"
    <3>1. Pod(o).service_account = AccountName("cluster", "proxy")
      BY <2>1, ProxyPodFacts
    <3>2. PICK b, role : /\ b = <<"RoleBinding", RoleName("cluster", "proxy")>>
                         /\ role = <<"Role", RoleName("cluster", "proxy")>>
      OBVIOUS
    <3>3. /\ b \in DOMAIN objects /\ role \in DOMAIN objects
          /\ objects[b] = ProxyRoleBinding("cluster") /\ objects[role] = ProxyRole("cluster")
      BY <3>2, RolesMade
    <3>4. /\ b[1] = "RoleBinding" /\ AccountName("cluster", "proxy") \in objects[b].subjects
          /\ role = <<"Role", objects[b].role_ref>>
      BY <3>2, <3>3 DEF ProxyRoleBinding
    <3>5. objects[role].rules \subseteq GrantedTo(AccountName("cluster", "proxy"))
      BY <3>3, <3>4, Granted
    <3>. QED BY <2>1, <3>1, <3>3, <3>5, CallsAllowed
  <2>2. CASE o # "proxy"
    <3>1. Pod(o).service_account = AccountName("cluster", "server") /\ o \in {"fleet", "server"}
      BY <2>2, PodFacts DEF IsServerPod, Deployed, WithPods, Owner
    <3>2. PICK b, role : /\ b = <<"RoleBinding", RoleName("cluster", "server")>>
                         /\ role = <<"Role", RoleName("cluster", "server")>>
      OBVIOUS
    <3>3. /\ b \in DOMAIN objects /\ role \in DOMAIN objects
          /\ objects[b] = MinecraftServerRoleBinding("cluster")
          /\ objects[role] = MinecraftServerRole("cluster")
      BY <3>2, RolesMade
    <3>4. /\ b[1] = "RoleBinding" /\ AccountName("cluster", "server") \in objects[b].subjects
          /\ role = <<"Role", objects[b].role_ref>>
      BY <3>2, <3>3 DEF MinecraftServerRoleBinding
    <3>5. objects[role].rules \subseteq GrantedTo(AccountName("cluster", "server"))
      BY <3>3, <3>4, Granted
    <3>. QED BY <3>1, <3>3, <3>5, CallsAllowed
  <2>. QED BY <2>1, <2>2
<1>. QED BY <1>1, NetworkAlways, PTL

(***************************************************************************)
(* The proxies.                                                            *)
(***************************************************************************)
\* The files of the ConfigMap of the proxies.
LEMMA ProxyFiles ==
    ASSUME NEW s
    PROVE  LET data == ProxyConfigData(s)
               velocity == s.template.version.channel = "Velocity"
               file == IF velocity THEN "velocity-config.toml" ELSE "bungeecord-config.yml"
           IN  /\ DOMAIN data = {"init-fs.sh", "probe-readiness.sh", "server-icon.png", file}
               /\ data[file] = IF velocity THEN VelocityToml(s.template.config, s.service)
                                           ELSE BungeeCordYml(s.template.config, s.service)
<1> DEFINE velocity == s.template.version.channel = "Velocity"
           file == IF velocity THEN "velocity-config.toml" ELSE "bungeecord-config.yml"
           value == IF velocity THEN VelocityToml(s.template.config, s.service)
                                ELSE BungeeCordYml(s.template.config, s.service)
           last == IF velocity
                   THEN "velocity-config.toml" :> VelocityToml(s.template.config, s.service)
                   ELSE "bungeecord-config.yml" :> BungeeCordYml(s.template.config, s.service)
           two == "init-fs.sh" :> <<"proxy-init-fs.sh">>
                  @@ "probe-readiness.sh" :> <<"proxy-probe-readiness.sh">>
           three == two @@ "server-icon.png" :> <<"icon">>
<1>1. DOMAIN last = {file} /\ last[file] = value
  BY DEF :>
<1>2. DOMAIN two = {"init-fs.sh", "probe-readiness.sh"}
  BY DEF :>, @@
<1>3. DOMAIN three = {"init-fs.sh", "probe-readiness.sh", "server-icon.png"}
  <2> HIDE DEF two
  <2>. QED BY <1>2 DEF :>, @@
<1>4. ProxyConfigData(s) = three @@ last
  BY DEF ProxyConfigData
<1>5. file \notin DOMAIN three
  BY <1>3
<1> HIDE DEF file, value, last, three
<1>6. /\ DOMAIN (three @@ last) = DOMAIN three \cup {file} /\ (three @@ last)[file] = value
  BY <1>1, <1>5 DEF @@
<1>. QED BY <1>3, <1>4, <1>6 DEF file, value

\* Only servers are ever deleted: the objects of the others have an owner.
OwnedInv ==
    \A o \in Owner \ {"server"} : \A i \in DOMAIN BuilderOrder[o] :
        BuilderOrder[o][i] \in DOMAIN objects => resource[o] # None

LEMMA OwnedNext == ASSUME NetworkInv, OwnedInv, [Next]_vars PROVE OwnedInv'
<1>1. \A o \in Owner \ {"server"} : resource[o] # None => resource'[o] # None
  <2> SUFFICES ASSUME NEW o \in Owner \ {"server"}, resource[o] # None PROVE resource'[o] # None
    OBVIOUS
  <2>1. CASE UNCHANGED resource
    BY <2>1
  <2>2. CASE \E p \in Owner : Delete(p)
    BY <2>2 DEF Delete, ShutDown, NetworkInv, OperatorInv, Shape
  <2>3. CASE \E p \in Owner : Edit(p)
    <3>1. PICK p \in Owner : Edit(p)
      BY <2>3
    <3>2. PICK s \in Specs[p] : resource' = [resource EXCEPT ![p] = s]
      BY <3>1 DEF Edit
    <3>. QED BY <3>2, OperatorAssumption DEF NetworkInv, OperatorInv, Shape
  <2>. QED BY <2>1, <2>2, <2>3 DEF Next, Reconcile, vars, Start, Apply, Refuse, Fail, Finish, Panic, Collect,
               ChangeWorld, Report, Remove, StartPod, Scale
<1>2. CASE DOMAIN objects' \subseteq DOMAIN objects
  BY <1>1, <1>2 DEF OwnedInv
<1>3. CASE \E o \in Owner : Apply(o)
  <2>1. PICK o \in Owner : Apply(o)
    BY <1>3
  <2>2. PICK key : key = BuilderOrder[o][job[o].step]
    OBVIOUS
  <2>3. /\ job[o].step \in DOMAIN BuilderOrder[o] /\ Running(o)
        /\ DOMAIN objects' \subseteq DOMAIN objects \cup {key}
    BY <2>1, <2>2, ApplyFacts DEF NetworkInv, OperatorInv
  <2>4. resource[o] # None
    BY <2>3 DEF NetworkInv, JobInv
  <2>5. ASSUME NEW p \in Owner \ {"server"}, NEW i \in DOMAIN BuilderOrder[p],
               BuilderOrder[p][i] \in DOMAIN objects'
        PROVE  resource[p] # None
    <3>1. CASE BuilderOrder[p][i] = key
      <4>1. p = o
        BY <2>2, <2>3, <3>1, KeysApart
      <4>. QED BY <2>4, <4>1
    <3>2. CASE BuilderOrder[p][i] # key
      BY <2>3, <2>5, <3>2 DEF OwnedInv
    <3>. QED BY <3>1, <3>2
  <2>. QED BY <1>1, <2>5 DEF OwnedInv
<1>4. CASE \E o \in {"proxy", "fleet"} : Scale(o)
  <2>1. DOMAIN objects' = DOMAIN objects
    BY <1>4 DEF Scale
  <2>. QED BY <1>2, <2>1
<1>5. CASE \E o \in Owner : Collect(o)
  BY <1>2, <1>5 DEF Collect
<1>6. CASE \E o \in WithPods : Remove(o)
  BY <1>2, <1>6 DEF Remove
<1>7. CASE UNCHANGED objects
  BY <1>2, <1>7
<1>. QED BY <1>3, <1>4, <1>5, <1>6, <1>7
     DEF Next, Reconcile, vars, Start, Refuse, Fail, Finish, Panic, Delete, Edit, ChangeWorld, Report, StartPod

LEMMA OwnedAlways == Spec => [](NetworkInv /\ OwnedInv)
<1>1. Init => NetworkInv /\ OwnedInv
  BY InitNetwork DEF Init, OwnedInv
<1>2. NetworkInv /\ OwnedInv /\ [Next]_vars => (NetworkInv /\ OwnedInv)'
  BY NetworkNext, OwnedNext
<1>. QED BY <1>1, <1>2, PTL DEF Spec

\* The ConfigMap and the Service of the proxies, if they are there.
LEMMA ProxyObjects ==
    ASSUME NetworkInv, OwnedInv, Settled
    PROVE  LET s == resource["proxy"] IN
           /\ <<"Service", <<"proxy">> >> \in DOMAIN objects =>
                 s \in Specs["proxy"] /\ objects[<<"Service", <<"proxy">> >>] = ProxyService("proxy", s)
           /\ "proxy" \in Deployed =>
                 LET key == <<"ConfigMap", ProxyConfigName("proxy")>> IN
                 IF ProxyConfigMapNeeded(s)
                 THEN key \in DOMAIN objects /\ objects[key] = ProxyConfigMap("proxy", s)
                 ELSE key \notin DOMAIN objects
<1>1. PICK s : s = resource["proxy"]
  OBVIOUS
<1>2. PICK service : service = <<"Service", <<"proxy">> >>
  OBVIOUS
<1>3. PICK config : config = <<"ConfigMap", ProxyConfigName("proxy")>>
  OBVIOUS
<1>4. /\ 1 \in DOMAIN BuilderOrder["proxy"] /\ BuilderOrder["proxy"][1] = config
      /\ 2 \in DOMAIN BuilderOrder["proxy"] /\ BuilderOrder["proxy"][2] = service
      /\ "proxy" \in Owner \ {"server"}
  BY <1>2, <1>3, OtherKeys DEF ProxyConfigName, Owner
<1>5. /\ config # SecretKey /\ service # SecretKey
      /\ ~RunsPods("proxy", config) /\ ~RunsPods("proxy", service)
  BY <1>2, <1>3 DEF SecretKey, ForwardingSecretKey, RunsPods, PodsKey
<1>6. Needed(s, config) = ProxyConfigMapNeeded(s) /\ Plain("proxy", s, config) = ProxyConfigMap("proxy", s)
  BY <1>3 DEF Needed, Plain, RedisName, ExternalServersName, ProxyConfigName, ServerConfigName,
              ProxyConfigMapNeeded
<1>7. Plain("proxy", s, service) = ProxyService("proxy", s)
  BY <1>2 DEF Plain
<1>8. resource["proxy"] # None => MadeUpTo("proxy", 11) /\ s \in Specs["proxy"]
  BY <1>1, <1>4 DEF Settled, NetworkInv, SyncInv, RangeInv, Optional
<1>9. resource["proxy"] # None => Made("proxy", s, resource["cluster"], config)
                                  /\ Made("proxy", s, resource["cluster"], service)
  BY <1>1, <1>4, <1>8 DEF MadeUpTo
<1>10. service \in DOMAIN objects => s \in Specs["proxy"] /\ objects[service] = ProxyService("proxy", s)
  <2>1. service \in DOMAIN objects => resource["proxy"] # None
    BY <1>4 DEF OwnedInv
  <2>. QED BY <1>5, <1>7, <1>8, <1>9, <2>1 DEF Made
<1>11. "proxy" \in Deployed => IF ProxyConfigMapNeeded(s)
                               THEN config \in DOMAIN objects /\ objects[config] = ProxyConfigMap("proxy", s)
                               ELSE config \notin DOMAIN objects
  BY <1>5, <1>6, <1>9 DEF Made, Deployed
<1>. QED BY <1>1, <1>2, <1>3, <1>10, <1>11

LEMMA ProxyListens ==
    ASSUME NetworkInv, OwnedInv, Settled, "proxy" \in Deployed,
           <<"ConfigMap", ProxyConfigName("proxy")>> \in DOMAIN objects
    PROVE  ListeningPort("proxy") = 25577
<1>1. PICK s : s = resource["proxy"]
  OBVIOUS
<1>2. objects[<<"ConfigMap", ProxyConfigName("proxy")>>].data = ProxyConfigData(s)
  BY <1>1, ProxyObjects DEF ProxyConfigMap
<1>3. PICK data : data = ProxyConfigData(s)
  OBVIOUS
<1>4. CASE s.template.version.channel = "Velocity"
  <2>1. "velocity-config.toml" \in DOMAIN data
        /\ data["velocity-config.toml"] = VelocityToml(s.template.config, s.service)
    BY <1>3, <1>4, ProxyFiles
  <2>2. data["velocity-config.toml"].bind = 25577
    BY <2>1 DEF VelocityToml
  <2>. QED BY <1>2, <1>3, <2>1, <2>2 DEF ListeningPort
<1>5. CASE s.template.version.channel # "Velocity"
  <2>1. /\ DOMAIN data = {"init-fs.sh", "probe-readiness.sh", "server-icon.png", "bungeecord-config.yml"}
        /\ data["bungeecord-config.yml"] = BungeeCordYml(s.template.config, s.service)
    BY <1>3, <1>5, ProxyFiles
  <2>2. data["bungeecord-config.yml"].listener = 25577
    BY <2>1 DEF BungeeCordYml
  <2>3. "velocity-config.toml" \notin DOMAIN data
    BY <2>1
  <2>. QED BY <1>2, <1>3, <2>2, <2>3 DEF ListeningPort
<1>. QED BY <1>4, <1>5

LEMMA PodLabels ==
    ASSUME NetworkInv, Settled, NEW o \in Deployed
    PROVE  /\ o = "proxy" =>
                 LET own == ProxyLabels("proxy", resource["proxy"])
                 IN  /\ \A k \in DOMAIN own : k \in DOMAIN Pod(o).labels /\ Pod(o).labels[k] = own[k]
                     /\ GameServerLabels(o).component = "proxy"
           /\ o # "proxy" => /\ Pod(o).labels["name"] = "minecraft-server"
                             /\ GameServerLabels(o).component = "minecraft-server"
<1>1. CASE o = "proxy"
  <2>1. PICK s : s = resource["proxy"]
    OBVIOUS
  <2>2. PICK own : own = ProxyLabels("proxy", s)
    OBVIOUS
  <2>3. PICK users : users = s.metadata.labels
    OBVIOUS
  <2>4. Pod(o).labels = users @@ own /\ GameServerLabels(o) = Pod(o).labels
    BY <1>1, <2>1, <2>2, <2>3, ProxyPodFacts
  <2>5. s \in Specs["proxy"]
    BY <1>1, <2>1, SettledFacts
  <2>6. DOMAIN users \cap DOMAIN own = {}
    BY <2>2, <2>3, <2>5, LabelsAssumption
  <2>7. \A k \in DOMAIN own : k \in DOMAIN (users @@ own) /\ (users @@ own)[k] = own[k]
    BY <2>6 DEF @@
  <2>8. "component" \in DOMAIN own /\ own["component"] = "proxy"
    BY <2>2 DEF ProxyLabels, ProxyFleetLabels
  <2>. QED BY <1>1, <2>1, <2>2, <2>4, <2>7, <2>8
<1>2. CASE o # "proxy"
  <2>1. PICK labels : Pod(o).labels = MinecraftServerLabels(o, "cluster", "minecraft-server",
                                                            "minecraft-server") @@ labels
    BY <1>2, PodFacts DEF IsServerPod
  <2>2. PICK own : own = MinecraftServerLabels(o, "cluster", "minecraft-server", "minecraft-server")
    OBVIOUS
  <2>3. /\ "name" \in DOMAIN own /\ own["name"] = "minecraft-server"
        /\ own["component"] = "minecraft-server"
    BY <2>2 DEF MinecraftServerLabels
  <2>4. (own @@ labels)["name"] = own["name"]
    BY <2>3 DEF @@
  <2>5. CASE o = "server"
    BY <1>2, <2>1, <2>2, <2>3, <2>4, <2>5, ServerPodFacts
  <2>6. CASE o = "fleet"
    <3>1. PICK s : s = resource["fleet"]
      OBVIOUS
    <3>2. PICK users, fleet : /\ users = s.metadata.labels
                              /\ fleet = MinecraftServerFleetLabels("fleet", s, "minecraft-server",
                                                                    "minecraft-server")
      OBVIOUS
    <3>3. GameServerLabels(o) = users @@ fleet
      BY <2>6, <3>1, <3>2, FleetPodFacts DEF ServerTemplateMetadata
    <3>4. "component" \notin DOMAIN users
      BY <2>6, <3>1, <3>2, SettledFacts, LabelsAssumption
    <3>5. "component" \in DOMAIN fleet /\ fleet["component"] = "minecraft-server"
      BY <3>2 DEF MinecraftServerFleetLabels
    <3>6. (users @@ fleet)["component"] = fleet["component"]
      BY <3>4, <3>5 DEF @@
    <3>. QED BY <1>2, <2>1, <2>2, <2>3, <2>4, <3>3, <3>5, <3>6
  <2>. QED BY <1>2, <2>5, <2>6 DEF Deployed, WithPods, Owner
<1>. QED BY <1>1, <1>2

(* Once all is reconciled, the Service of the proxies selects the pods of   *)
(* the proxies and no other, targets the port that their configuration      *)
(* makes them listen on, and the component label tells servers from proxies.*)
THEOREM ProxiesAreReachable == Spec => []ProxiesReachable
<1>1. NetworkInv /\ OwnedInv => ProxiesReachable
  <2> SUFFICES ASSUME NetworkInv, OwnedInv, Settled, <<"Service", <<"proxy">> >> \in DOMAIN objects,
                      NEW service, service = objects[<<"Service", <<"proxy">> >>]
               PROVE  /\ \A o \in Deployed : Selects(service.selector, Pod(o).labels) <=> o = "proxy"
                      /\ \A o \in Deployed :
                            GameServerLabels(o).component = "minecraft-server" <=> o # "proxy"
                      /\ /\ "proxy" \in Deployed
                         /\ <<"ConfigMap", ProxyConfigName("proxy")>> \in DOMAIN objects
                         => \A p \in service.ports :
                               <<p.target, ListeningPort("proxy")>> \in Pod("proxy").container.ports
    BY DEF ProxiesReachable
  <2>1. PICK s : s = resource["proxy"]
    OBVIOUS
  <2>2. service = ProxyService("proxy", s)
    BY <2>1, ProxyObjects
  <2>3. PICK own : own = ProxyLabels("proxy", s)
    OBVIOUS
  <2>4. service.selector = own /\ service.ports = {[port |-> 25565, target |-> "minecraft"]}
    BY <2>2, <2>3 DEF ProxyService
  <2>5. "name" \in DOMAIN own /\ own["name"] = "proxy"
    BY <2>3 DEF ProxyLabels, ProxyFleetLabels
  <2>6. ASSUME NEW o \in Deployed
        PROVE  /\ Selects(service.selector, Pod(o).labels) <=> o = "proxy"
               /\ GameServerLabels(o).component = "minecraft-server" <=> o # "proxy"
    <3>1. CASE o = "proxy"
      <4>1. \A k \in DOMAIN own : k \in DOMAIN Pod(o).labels /\ Pod(o).labels[k] = own[k]
        BY <2>1, <2>3, <3>1, PodLabels
      <4>2. GameServerLabels(o).component = "proxy"
        BY <3>1, PodLabels
      <4>. QED BY <2>4, <3>1, <4>1, <4>2 DEF Selects
    <3>2. CASE o # "proxy"
      <4>1. /\ Pod(o).labels["name"] = "minecraft-server"
            /\ GameServerLabels(o).component = "minecraft-server"
        BY <3>2, PodLabels
      <4>. QED BY <2>4, <2>5, <3>2, <4>1 DEF Selects
    <3>. QED BY <3>1, <3>2
  <2>7. ASSUME "proxy" \in Deployed, <<"ConfigMap", ProxyConfigName("proxy")>> \in DOMAIN objects,
               NEW p \in service.ports
        PROVE  <<p.target, ListeningPort("proxy")>> \in Pod("proxy").container.ports
    <3>1. p.target = "minecraft"
      BY <2>4, <2>7
    <3>2. ListeningPort("proxy") = 25577
      BY <2>7, ProxyListens
    <3>3. <<"minecraft", 25577>> \in Pod("proxy").container.ports
      BY <2>7, ProxyPodFacts
    <3>. QED BY <3>1, <3>2, <3>3
  <2>. QED BY <2>6, <2>7
<1>. QED BY <1>1, OwnedAlways, PTL

(***************************************************************************)
(* What the environment of a pod says of Redis and of the forwarding key.  *)
(***************************************************************************)
Reserved == RedisEnv \cup FromSecrets

RedisSettings(c) ==
    LET redis == RedisRef("cluster", c)
    IN  RedisCredentials(redis)
        @@ [ SHULKER_CLUSTER_NAME |-> "cluster",
             SHULKER_REDIS_HOST |-> redis.host, SHULKER_REDIS_PORT |-> redis.port ]

\* The environment has the settings of Redis that the cluster has, and no other.
Tells(env, c, variables) ==
    LET settings == RedisSettings(c)
    IN  \A v \in variables : /\ v \in DOMAIN env <=> v \in DOMAIN settings
                             /\ v \in DOMAIN settings => env[v] = settings[v]

LEMMA CredentialNames ==
    ASSUME NEW redis
    PROVE  LET credentials == RedisCredentials(redis)
           IN  IF redis.credentials_secret_name = None THEN DOMAIN credentials = {}
               ELSE /\ DOMAIN credentials = {"SHULKER_REDIS_USERNAME", "SHULKER_REDIS_PASSWORD"}
                    /\ credentials["SHULKER_REDIS_USERNAME"]
                          = FromSecret(<<redis.credentials_secret_name>>, "username")
                    /\ credentials["SHULKER_REDIS_PASSWORD"]
                          = FromSecret(<<redis.credentials_secret_name>>, "password")
<1>1. CASE redis.credentials_secret_name = None
  <2>1. RedisCredentials(redis) = <<>>
    BY <1>1 DEF RedisCredentials
  <2>. QED BY <1>1, <2>1
<1>2. CASE redis.credentials_secret_name # None
  BY <1>2 DEF RedisCredentials
<1>. QED BY <1>1, <1>2

LEMMA Settings ==
    ASSUME NEW c
    PROVE  LET redis == RedisRef("cluster", c)
               settings == RedisSettings(c)
           IN  /\ DOMAIN settings = DOMAIN RedisCredentials(redis)
                                    \cup {"SHULKER_CLUSTER_NAME", "SHULKER_REDIS_HOST",
                                          "SHULKER_REDIS_PORT"}
               /\ \A v \in DOMAIN RedisCredentials(redis) : settings[v] = RedisCredentials(redis)[v]
               /\ settings["SHULKER_CLUSTER_NAME"] = "cluster"
               /\ settings["SHULKER_REDIS_HOST"] = redis.host
               /\ settings["SHULKER_REDIS_PORT"] = redis.port
<1>1. PICK redis : redis = RedisRef("cluster", c)
  OBVIOUS
<1>2. PICK credentials : credentials = RedisCredentials(redis)
  OBVIOUS
<1>3. DOMAIN credentials \subseteq {"SHULKER_REDIS_USERNAME", "SHULKER_REDIS_PASSWORD"}
  BY <1>2, CredentialNames
<1>4. PICK rest : rest = [ SHULKER_CLUSTER_NAME |-> "cluster",
                           SHULKER_REDIS_HOST |-> redis.host, SHULKER_REDIS_PORT |-> redis.port ]
  OBVIOUS
<1>5. /\ DOMAIN rest = {"SHULKER_CLUSTER_NAME", "SHULKER_REDIS_HOST", "SHULKER_REDIS_PORT"}
      /\ rest["SHULKER_CLUSTER_NAME"] = "cluster"
      /\ rest["SHULKER_REDIS_HOST"] = redis.host /\ rest["SHULKER_REDIS_PORT"] = redis.port
  BY <1>4
<1>6. PICK settings : settings = credentials @@ rest
  OBVIOUS
<1>7. RedisSettings(c) = settings
  BY <1>1, <1>2, <1>4, <1>6 DEF RedisSettings
<1>8. /\ DOMAIN settings = DOMAIN credentials \cup DOMAIN rest
      /\ \A v \in DOMAIN credentials : settings[v] = credentials[v]
      /\ \A v \in DOMAIN rest : settings[v] = rest[v]
  BY <1>3, <1>5, <1>6 DEF @@
<1>. QED BY <1>1, <1>2, <1>5, <1>7, <1>8

LEMMA ProxyTells ==
    ASSUME NEW c, NEW s, s.cluster_ref = "cluster",
           s.template.version.channel \in ProxyFleetTemplateVersion,
           DOMAIN s.template.pod_overrides.env \cap Reserved = {},
           ProxyEnv(c, "proxy", s) # Error
    PROVE  Tells(ProxyEnv(c, "proxy", s), c, Reserved)
<1>1. PICK redis : redis = RedisRef("cluster", c)
  OBVIOUS
<1>2. PICK credentials : credentials = RedisCredentials(redis)
  OBVIOUS
<1>3. DOMAIN credentials \subseteq {"SHULKER_REDIS_USERNAME", "SHULKER_REDIS_PASSWORD"}
  BY <1>2, CredentialNames
<1>4. PICK users : users = s.template.pod_overrides.env
  OBVIOUS
<1>5. PICK address : address = IF s.service = None \/ s.service.preferred_reconnection_address = None
                 THEN <<>>
                 ELSE [SHULKER_PROXY_PREFERRED_RECONNECT_ADDRESS |->
                            s.service.preferred_reconnection_address]
  OBVIOUS
<1>6. PICK admins : admins = IF c.network_admins = None THEN <<>>
                 ELSE [SHULKER_NETWORK_ADMINS |-> c.network_admins]
  OBVIOUS
<1>7. PICK rest : rest =
         [ SHULKER_CLUSTER_NAME |-> "cluster",
           SHULKER_OWNING_FLEET_NAME |-> "proxy",
           SHULKER_REDIS_HOST |-> redis.host, SHULKER_REDIS_PORT |-> redis.port,
           SHULKER_PROXY_TTL_SECONDS |-> s.template.config.ttl_seconds,
           SHULKER_PROXY_PLAYER_DELTA_BEFORE_EXCLUSION |->
               s.template.config.players_delta_before_exclusion,
           TYPE |-> ProxyType[s.template.version.channel],
           HEALTH_USE_PROXY |-> s.template.config.proxy_protocol ]
  OBVIOUS
<1>8. PICK build, name : build = VersionVariable[s.template.version.channel]
                         /\ name = s.template.version.name
  OBVIOUS
<1>9. PICK e1 : e1 = users @@ credentials
  OBVIOUS
<1>10. PICK e2 : e2 = e1 @@ address
  OBVIOUS
<1>11. PICK e3 : e3 = e2 @@ admins
  OBVIOUS
<1>12. PICK e4 : e4 = e3 @@ rest
  OBVIOUS
<1>13. PICK last : last = build :> name
  OBVIOUS
<1>14. PICK e5 : e5 = e4 @@ last
  OBVIOUS
<1>15. ProxyEnv(c, "proxy", s) = e5
  <2>1. ProxyEnv(c, "proxy", s) = IF redis = Error THEN Error ELSE e5
    BY <1>1, <1>2, <1>4, <1>5, <1>6, <1>7, <1>8, <1>9, <1>10, <1>11, <1>12, <1>13, <1>14
       DEF ProxyEnv, IfOk
  <2>. QED BY <2>1
<1>16. \A v \in Reserved : /\ v \notin DOMAIN users /\ v \notin DOMAIN address
                           /\ v \notin DOMAIN admins /\ v \notin DOMAIN last
  <2>1. DOMAIN users \cap Reserved = {}
    BY <1>4
  <2>2. DOMAIN address \subseteq {"SHULKER_PROXY_PREFERRED_RECONNECT_ADDRESS"}
    BY <1>5
  <2>3. DOMAIN admins \subseteq {"SHULKER_NETWORK_ADMINS"}
    BY <1>6
  <2>4. DOMAIN last \subseteq {"VELOCITY_BUILD_ID", "BUNGEE_JOB_ID", "WATERFALL_BUILD_ID"}
    BY <1>8, <1>13 DEF :>, VersionVariable, ProxyFleetTemplateVersion
  <2>. QED BY <2>1, <2>2, <2>3, <2>4 DEF Reserved, RedisEnv, FromSecrets
<1>17. \A v \in Reserved :
          /\ v \in DOMAIN rest <=>
                v \in {"SHULKER_CLUSTER_NAME", "SHULKER_REDIS_HOST", "SHULKER_REDIS_PORT"}
          /\ rest["SHULKER_CLUSTER_NAME"] = "cluster"
          /\ rest["SHULKER_REDIS_HOST"] = redis.host /\ rest["SHULKER_REDIS_PORT"] = redis.port
  BY <1>7 DEF Reserved, RedisEnv, FromSecrets
<1>18. \A v \in Reserved : /\ v \in DOMAIN e1 <=> v \in DOMAIN credentials
                           /\ v \in DOMAIN credentials => e1[v] = credentials[v]
  BY <1>9, <1>16 DEF @@
<1>19. \A v \in Reserved : /\ v \in DOMAIN e3 <=> v \in DOMAIN credentials
                           /\ v \in DOMAIN credentials => e3[v] = credentials[v]
  <2>1. \A v \in Reserved : /\ v \in DOMAIN e2 <=> v \in DOMAIN credentials
                            /\ v \in DOMAIN credentials => e2[v] = credentials[v]
    BY <1>10, <1>16, <1>18 DEF @@
  <2>. QED BY <1>11, <1>16, <2>1 DEF @@
<1>20. \A v \in Reserved : /\ v \in DOMAIN e4 <=> v \in DOMAIN credentials \cup DOMAIN rest
                           /\ v \in DOMAIN credentials => e4[v] = credentials[v]
                           /\ v \in DOMAIN rest /\ v \notin DOMAIN credentials => e4[v] = rest[v]
  BY <1>12, <1>19 DEF @@
<1>21. \A v \in Reserved : /\ v \in DOMAIN e5 <=> v \in DOMAIN credentials \cup DOMAIN rest
                           /\ v \in DOMAIN credentials => e5[v] = credentials[v]
                           /\ v \in DOMAIN rest /\ v \notin DOMAIN credentials => e5[v] = rest[v]
  BY <1>14, <1>16, <1>20 DEF @@
<1>22. PICK settings : settings = RedisSettings(c)
  OBVIOUS
<1>23. /\ DOMAIN settings = DOMAIN credentials
                            \cup {"SHULKER_CLUSTER_NAME", "SHULKER_REDIS_HOST", "SHULKER_REDIS_PORT"}
       /\ \A v \in DOMAIN credentials : settings[v] = credentials[v]
       /\ settings["SHULKER_CLUSTER_NAME"] = "cluster"
       /\ settings["SHULKER_REDIS_HOST"] = redis.host /\ settings["SHULKER_REDIS_PORT"] = redis.port
  BY <1>1, <1>2, <1>22, Settings
<1>24. \A v \in Reserved : /\ v \in DOMAIN e5 <=> v \in DOMAIN settings
                           /\ v \in DOMAIN settings => e5[v] = settings[v]
  BY <1>3, <1>17, <1>21, <1>23
<1>. QED BY <1>15, <1>22, <1>24 DEF Tells

LEMMA JarNames ==
    ASSUME NEW w, NEW spec
    PROVE  LET jar == AllOk(ServerJar(w, spec))
           IN  jar # Error => DOMAIN jar \subseteq {"TYPE", "CUSTOM_SERVER", "VERSION"}
<1>1. PICK jar : jar = ServerJar(w, spec)
  OBVIOUS
<1>2. DOMAIN jar \subseteq {"TYPE", "CUSTOM_SERVER", "VERSION"}
  BY <1>1 DEF ServerJar
<1>. QED BY <1>1, <1>2 DEF AllOk

LEMMA ServerTells ==
    ASSUME NEW w, NEW c, NEW spec, NEW fleet, spec.cluster_ref = "cluster",
           DOMAIN spec.pod_overrides.env \cap Reserved = {},
           get_env(w, "cluster", c, spec, fleet) # Error
    PROVE  LET env == get_env(w, "cluster", c, spec, fleet)
           IN  /\ Tells(env, c, Reserved \ {"CFG_VELOCITY_FORWARDING_SECRET"})
               /\ "CFG_VELOCITY_FORWARDING_SECRET" \in DOMAIN env
               /\ env["CFG_VELOCITY_FORWARDING_SECRET"]
                     = FromSecret(ForwardingSecretName("cluster"), SecretDataKey)
<1>1. PICK redis : redis = RedisRef("cluster", c)
  OBVIOUS
<1>2. PICK credentials : credentials = RedisCredentials(redis)
  OBVIOUS
<1>3. DOMAIN credentials \subseteq {"SHULKER_REDIS_USERNAME", "SHULKER_REDIS_PASSWORD"}
  BY <1>2, CredentialNames
<1>4. PICK users : users = spec.pod_overrides.env
  OBVIOUS
<1>5. PICK jar : jar = AllOk(ServerJar(w, spec))
  OBVIOUS
<1>6. PICK owning : owning = IF fleet = None THEN <<>> ELSE [SHULKER_OWNING_FLEET_NAME |-> fleet]
  OBVIOUS
<1>7. PICK rest : rest =
         [ SHULKER_CLUSTER_NAME |-> "cluster",
           SHULKER_REDIS_HOST |-> redis.host, SHULKER_REDIS_PORT |-> redis.port,
           SHULKER_NETWORK_ADMINS |-> OrElse(c.network_admins, {}),
           SHULKER_SERVER_LIFECYCLE_STRATEGY |-> spec.config.lifecycle_strategy,
           SKIP_SERVER_PROPERTIES |-> TRUE, REPLACE_ENV_IN_PLACE |-> TRUE,
           CFG_VELOCITY_FORWARDING_SECRET |->
               FromSecret(ForwardingSecretName("cluster"), SecretDataKey),
           CFG_RCON_PASSWORD |-> DefaultRconPassword,
           RCON_PASSWORD |-> DefaultRconPassword ]
  OBVIOUS
<1>8. PICK e1 : e1 = users @@ jar
  OBVIOUS
<1>9. PICK e2 : e2 = e1 @@ owning
  OBVIOUS
<1>10. PICK e3 : e3 = e2 @@ credentials
  OBVIOUS
<1>11. PICK e4 : e4 = e3 @@ rest
  OBVIOUS
<1>12. jar # Error /\ get_env(w, "cluster", c, spec, fleet) = e4
  <2>1. get_env(w, "cluster", c, spec, fleet)
           = IF redis = Error THEN Error ELSE IF jar = Error THEN Error ELSE e4
    BY <1>1, <1>2, <1>4, <1>5, <1>6, <1>7, <1>8, <1>9, <1>10, <1>11 DEF get_env, IfOk
  <2>. QED BY <2>1
<1>13. \A v \in Reserved : v \notin DOMAIN users /\ v \notin DOMAIN jar /\ v \notin DOMAIN owning
  <2>1. DOMAIN users \cap Reserved = {}
    BY <1>4
  <2>2. DOMAIN jar \subseteq {"TYPE", "CUSTOM_SERVER", "VERSION"}
    BY <1>5, <1>12, JarNames
  <2>3. DOMAIN owning \subseteq {"SHULKER_OWNING_FLEET_NAME"}
    BY <1>6
  <2>. QED BY <2>1, <2>2, <2>3 DEF Reserved, RedisEnv, FromSecrets
<1>14. /\ \A v \in Reserved : v \in DOMAIN rest <=>
             v \in {"SHULKER_CLUSTER_NAME", "SHULKER_REDIS_HOST", "SHULKER_REDIS_PORT",
                    "CFG_VELOCITY_FORWARDING_SECRET"}
       /\ rest["SHULKER_CLUSTER_NAME"] = "cluster"
       /\ rest["SHULKER_REDIS_HOST"] = redis.host /\ rest["SHULKER_REDIS_PORT"] = redis.port
       /\ rest["CFG_VELOCITY_FORWARDING_SECRET"]
             = FromSecret(ForwardingSecretName("cluster"), SecretDataKey)
  BY <1>7 DEF Reserved, RedisEnv, FromSecrets
<1>15. \A v \in Reserved : v \notin DOMAIN e2
  BY <1>8, <1>9, <1>13 DEF @@
<1>16. \A v \in Reserved : /\ v \in DOMAIN e3 <=> v \in DOMAIN credentials
                           /\ v \in DOMAIN credentials => e3[v] = credentials[v]
  BY <1>10, <1>15 DEF @@
<1>17. \A v \in Reserved : /\ v \in DOMAIN e4 <=> v \in DOMAIN credentials \cup DOMAIN rest
                           /\ v \in DOMAIN credentials => e4[v] = credentials[v]
                           /\ v \in DOMAIN rest /\ v \notin DOMAIN credentials => e4[v] = rest[v]
  BY <1>11, <1>16 DEF @@
<1>18. PICK settings : settings = RedisSettings(c)
  OBVIOUS
<1>19. /\ DOMAIN settings = DOMAIN credentials
                            \cup {"SHULKER_CLUSTER_NAME", "SHULKER_REDIS_HOST", "SHULKER_REDIS_PORT"}
       /\ \A v \in DOMAIN credentials : settings[v] = credentials[v]
       /\ settings["SHULKER_CLUSTER_NAME"] = "cluster"
       /\ settings["SHULKER_REDIS_HOST"] = redis.host /\ settings["SHULKER_REDIS_PORT"] = redis.port
  BY <1>1, <1>2, <1>18, Settings
<1>20. \A v \in Reserved \ {"CFG_VELOCITY_FORWARDING_SECRET"} :
          /\ v \in DOMAIN e4 <=> v \in DOMAIN settings
          /\ v \in DOMAIN settings => e4[v] = settings[v]
  BY <1>3, <1>14, <1>17, <1>19
<1>21. /\ "CFG_VELOCITY_FORWARDING_SECRET" \in DOMAIN e4
       /\ e4["CFG_VELOCITY_FORWARDING_SECRET"]
             = FromSecret(ForwardingSecretName("cluster"), SecretDataKey)
  <2>1. "CFG_VELOCITY_FORWARDING_SECRET" \in Reserved \ DOMAIN credentials
    BY <1>3 DEF Reserved, FromSecrets
  <2>. QED BY <1>14, <1>17, <2>1
<1>22. Tells(e4, c, Reserved \ {"CFG_VELOCITY_FORWARDING_SECRET"})
  BY <1>18, <1>20 DEF Tells
<1>. QED BY <1>12, <1>21, <1>22

LEMMA SettingNames == \A c : DOMAIN RedisSettings(c) \subseteq RedisEnv
<1> TAKE c
<1>1. PICK credentials : credentials = RedisCredentials(RedisRef("cluster", c))
  OBVIOUS
<1>2. DOMAIN credentials \subseteq {"SHULKER_REDIS_USERNAME", "SHULKER_REDIS_PASSWORD"}
  BY <1>1, CredentialNames
<1>3. DOMAIN RedisSettings(c) = DOMAIN credentials
          \cup {"SHULKER_CLUSTER_NAME", "SHULKER_REDIS_HOST", "SHULKER_REDIS_PORT"}
  BY <1>1, Settings
<1>. QED BY <1>2, <1>3 DEF RedisEnv

LEMMA PodTells ==
    ASSUME NetworkInv, Settled, NEW o \in Deployed
    PROVE  LET env == Pod(o).container.env
               forwarding == "CFG_VELOCITY_FORWARDING_SECRET"
           IN  /\ Tells(env, resource["cluster"], Reserved \ {forwarding})
               /\ RedisRef("cluster", resource["cluster"]) # Error
               /\ IF o = "proxy" THEN forwarding \notin DOMAIN env
                  ELSE /\ forwarding \in DOMAIN env
                       /\ env[forwarding] = FromSecret(ForwardingSecretName("cluster"), SecretDataKey)
<1>1. PICK c, s : c = resource["cluster"] /\ s = resource[o]
  OBVIOUS
<1>2. o \in WithPods /\ s \in Specs[o]
  BY <1>1, SettledFacts
<1>3. DOMAIN PodOverrides(o, s).env \cap Reserved = {}
  BY <1>2, EnvAssumption DEF Reserved
<1>4. CASE o = "proxy"
  <2>1. PICK env : env = ProxyEnv(c, "proxy", s)
    OBVIOUS
  <2>2. env # Error /\ Pod(o).container.env = env
    BY <1>1, <1>4, <2>1, ProxyPodFacts
  <2>3. s.cluster_ref = "cluster" /\ s.template.version.channel \in ProxyFleetTemplateVersion
    BY <1>2, <1>4, OneClusterAssumption, SpecsAssumption DEF IsProxyFleetSpec
  <2>4. DOMAIN s.template.pod_overrides.env \cap Reserved = {}
    BY <1>3, <1>4 DEF PodOverrides
  <2>5. Tells(env, c, Reserved)
    BY <2>1, <2>2, <2>3, <2>4, ProxyTells
  <2>6. RedisRef("cluster", c) # Error
    BY <2>1, <2>2, <2>3 DEF ProxyEnv, IfOk
  <2>7. "CFG_VELOCITY_FORWARDING_SECRET" \in Reserved
        /\ "CFG_VELOCITY_FORWARDING_SECRET" \notin DOMAIN RedisSettings(c)
    BY SettingNames DEF Reserved, FromSecrets, RedisEnv
  <2>8. /\ "CFG_VELOCITY_FORWARDING_SECRET" \notin DOMAIN env
        /\ Tells(env, c, Reserved \ {"CFG_VELOCITY_FORWARDING_SECRET"})
    BY <2>5, <2>7 DEF Tells
  <2>. QED BY <1>1, <1>4, <2>2, <2>6, <2>8
<1>5. CASE o # "proxy"
  <2>1. PICK spec : IsServerPod(Pod(o), o, s, world, c, spec)
    BY <1>1, <1>5, PodFacts
  <2>2. PICK fleet : /\ get_env(world, "cluster", c, spec, fleet) # Error
                     /\ Pod(o).container.env = get_env(world, "cluster", c, spec, fleet)
    BY <2>1 DEF IsServerPod
  <2>3. spec.cluster_ref = "cluster" /\ spec.pod_overrides = PodOverrides(o, s)
    BY <2>1 DEF IsServerPod
  <2>4. DOMAIN spec.pod_overrides.env \cap Reserved = {}
    BY <1>3, <2>3
  <2>5. RedisRef("cluster", c) # Error
    BY <2>2 DEF get_env, IfOk
  <2>6. PICK env : env = get_env(world, "cluster", c, spec, fleet)
    OBVIOUS
  <2>7. /\ Tells(env, c, Reserved \ {"CFG_VELOCITY_FORWARDING_SECRET"})
        /\ "CFG_VELOCITY_FORWARDING_SECRET" \in DOMAIN env
        /\ env["CFG_VELOCITY_FORWARDING_SECRET"]
              = FromSecret(ForwardingSecretName("cluster"), SecretDataKey)
    BY <2>2, <2>3, <2>4, <2>6, ServerTells
  <2>. QED BY <1>1, <1>5, <2>2, <2>5, <2>6, <2>7
<1>. QED BY <1>4, <1>5

LEMMA BackendIs ==
    ASSUME NetworkInv, Settled, NEW o \in Deployed
    PROVE  LET settings == RedisSettings(resource["cluster"])
           IN  Backend(o) = [v \in DOMAIN settings |-> settings[v]]
<1>1. PICK c : c = resource["cluster"]
  OBVIOUS
<1>2. PICK settings : settings = RedisSettings(c)
  OBVIOUS
<1>3. PICK env : env = Pod(o).container.env
  OBVIOUS
<1>4. DOMAIN settings \subseteq RedisEnv
  BY <1>2, SettingNames
<1>5. \A v \in Reserved \ {"CFG_VELOCITY_FORWARDING_SECRET"} :
         /\ v \in DOMAIN env <=> v \in DOMAIN settings
         /\ v \in DOMAIN settings => env[v] = settings[v]
  BY <1>1, <1>2, <1>3, PodTells DEF Tells
<1>6. RedisEnv \subseteq Reserved \ {"CFG_VELOCITY_FORWARDING_SECRET"}
  BY DEF Reserved, RedisEnv
<1>7. RedisEnv \cap DOMAIN env = DOMAIN settings
  BY <1>4, <1>5, <1>6
<1>8. [v \in RedisEnv \cap DOMAIN env |-> env[v]] = [v \in DOMAIN settings |-> settings[v]]
  BY <1>4, <1>5, <1>6, <1>7
<1>. QED BY <1>1, <1>2, <1>3, <1>8 DEF Backend

\* Where a path is mounted once, and a volume has its name alone.
LEMMA Mounted ==
    ASSUME NEW mounts, NEW name, NEW path, <<name, path>> \in mounts,
           \A m \in mounts : m[2] = path => m = <<name, path>>
    PROVE  VolumeOf(mounts, path) = name
<1>1. (CHOOSE m \in mounts : m[2] = path) = <<name, path>>
  OBVIOUS
<1>. QED BY <1>1 DEF VolumeOf

LEMMA NamedVolume ==
    ASSUME NEW volumes, NEW name, NEW source, <<name, source>> \in volumes,
           \A v \in volumes : v[1] = name => v = <<name, source>>
    PROVE  (CHOOSE v \in volumes : v[1] = name)[2] = source
<1>1. (CHOOSE v \in volumes : v[1] = name) = <<name, source>>
  OBVIOUS
<1>. QED BY <1>1

LEMMA ProxyVolumeNames ==
    ASSUME NEW c, NEW s, s \in Specs["proxy"]
    PROVE  LET po == s.template.pod_overrides
               volumes == ProxyVolumes(c, "proxy", s) \cup po.volumes
               mounts == ProxyMounts(c) \cup po.volume_mounts
           IN  /\ \A v \in po.volumes : v[1] \notin ReservedVolumes("proxy")
               /\ \A m \in po.volume_mounts : m[2] \notin ReservedPaths("proxy")
               /\ VolumeOf(mounts, ForwardingSecretDir) = "shulker-forwarding-secret"
               /\ VolumeOf(mounts, ProxyDataDir) = "proxy-data"
               /\ (CHOOSE v \in volumes : v[1] = "shulker-forwarding-secret")[2]
                     = SecretSource(ForwardingSecretName(s.cluster_ref))
               /\ (CHOOSE v \in volumes : v[1] = "shulker-config")[2]
                     = ConfigMapSource(OrElse(s.template.config.existing_config_map_name,
                                              ProxyConfigName("proxy")))
<1>1. PICK po : po = s.template.pod_overrides
  OBVIOUS
<1>2. /\ \A v \in po.volumes : v[1] \notin ReservedVolumes("proxy")
      /\ \A m \in po.volume_mounts : m[2] \notin ReservedPaths("proxy")
  <2>1. PodOverrides("proxy", s) = po
    BY <1>1 DEF PodOverrides
  <2>. QED BY <2>1, VolumesAssumption DEF WithPods, Owner
<1>3. PICK volumes : volumes = ProxyVolumes(c, "proxy", s) \cup po.volumes
  OBVIOUS
<1>4. PICK mounts : mounts = ProxyMounts(c) \cup po.volume_mounts
  OBVIOUS
<1>5. VolumeOf(mounts, ForwardingSecretDir) = "shulker-forwarding-secret"
  <2>1. <<"shulker-forwarding-secret", ForwardingSecretDir>> \in mounts
    BY <1>4 DEF ProxyMounts
  <2>2. \A m \in ProxyMounts(c) :
           m[2] = ForwardingSecretDir => m = <<"shulker-forwarding-secret", ForwardingSecretDir>>
    BY DEF ProxyMounts, ForwardingSecretDir, ExternalServersDir, ProxyDataDir, DrainLockDir
  <2>3. ForwardingSecretDir \in ReservedPaths("proxy")
    BY DEF ReservedPaths
  <2>. QED BY <1>2, <1>4, <2>1, <2>2, <2>3, Mounted
<1>6. VolumeOf(mounts, ProxyDataDir) = "proxy-data"
  <2>1. <<"proxy-data", ProxyDataDir>> \in mounts
    BY <1>4 DEF ProxyMounts
  <2>2. \A m \in ProxyMounts(c) : m[2] = ProxyDataDir => m = <<"proxy-data", ProxyDataDir>>
    BY DEF ProxyMounts, ForwardingSecretDir, ExternalServersDir, ProxyDataDir, DrainLockDir
  <2>3. ProxyDataDir \in ReservedPaths("proxy")
    BY DEF ReservedPaths
  <2>. QED BY <1>2, <1>4, <2>1, <2>2, <2>3, Mounted
<1>7. (CHOOSE v \in volumes : v[1] = "shulker-forwarding-secret")[2]
         = SecretSource(ForwardingSecretName(s.cluster_ref))
  <2>1. PICK source : source = SecretSource(ForwardingSecretName(s.cluster_ref))
    OBVIOUS
  <2>2. <<"shulker-forwarding-secret", source>> \in volumes
    BY <1>3, <2>1 DEF ProxyVolumes
  <2>3. \A v \in ProxyVolumes(c, "proxy", s) :
           v[1] = "shulker-forwarding-secret" => v = <<"shulker-forwarding-secret", source>>
    BY <2>1 DEF ProxyVolumes
  <2>4. "shulker-forwarding-secret" \in ReservedVolumes("proxy")
    BY DEF ReservedVolumes
  <2>5. \A v \in volumes : v[1] = "shulker-forwarding-secret" => v = <<"shulker-forwarding-secret", source>>
    BY <1>2, <1>3, <2>3, <2>4
  <2>. QED BY <2>1, <2>2, <2>5, NamedVolume
<1>8. (CHOOSE v \in volumes : v[1] = "shulker-config")[2]
         = ConfigMapSource(OrElse(s.template.config.existing_config_map_name,
                                  ProxyConfigName("proxy")))
  <2>1. PICK source : source = ConfigMapSource(OrElse(s.template.config.existing_config_map_name,
                                              ProxyConfigName("proxy")))
    OBVIOUS
  <2>2. <<"shulker-config", source>> \in volumes
    BY <1>3, <2>1 DEF ProxyVolumes
  <2>3. \A v \in ProxyVolumes(c, "proxy", s) :
           v[1] = "shulker-config" => v = <<"shulker-config", source>>
    BY <2>1 DEF ProxyVolumes
  <2>4. "shulker-config" \in ReservedVolumes("proxy")
    BY DEF ReservedVolumes
  <2>5. \A v \in volumes : v[1] = "shulker-config" => v = <<"shulker-config", source>>
    BY <1>2, <1>3, <2>3, <2>4
  <2>. QED BY <2>1, <2>2, <2>5, NamedVolume
<1>. QED BY <1>1, <1>2, <1>3, <1>4, <1>5, <1>6, <1>7, <1>8

LEMMA ForwardingIs ==
    ASSUME NetworkInv, Settled, NEW o \in Deployed
    PROVE  ForwardingSource(o) = <<ForwardingSecretName("cluster"), SecretDataKey>>
<1>1. PICK c, s : c = resource["cluster"] /\ s = resource[o]
  OBVIOUS
<1>2. s \in Specs[o] /\ s.cluster_ref = "cluster"
  BY <1>1, SettledFacts, OneClusterAssumption
<1>3. CASE o = "proxy"
  <2>1. PICK volumes : volumes = ProxyVolumes(c, "proxy", s) \cup s.template.pod_overrides.volumes
    OBVIOUS
  <2>2. PICK mounts : mounts = ProxyMounts(c) \cup s.template.pod_overrides.volume_mounts
    OBVIOUS
  <2>3. Pod(o).volumes = volumes /\ Pod(o).container.mounts = mounts
    BY <1>1, <1>3, <2>1, <2>2, ProxyPodFacts
  <2>4. VolumeOf(mounts, ForwardingSecretDir) = "shulker-forwarding-secret"
    BY <1>2, <1>3, <2>2, ProxyVolumeNames
  <2>5. (CHOOSE v \in volumes : v[1] = "shulker-forwarding-secret")[2]
           = SecretSource(ForwardingSecretName("cluster"))
    BY <1>2, <1>3, <2>1, ProxyVolumeNames
  <2>6. VelocityToml(resource[o].template.config, resource[o].service).forwarding_secret_file[2]
           = SecretDataKey
    BY DEF VelocityToml, SecretDataKey
  <2>7. SecretSource(ForwardingSecretName("cluster"))[2] = ForwardingSecretName("cluster")
    BY DEF SecretSource
  <2>. QED BY <1>3, <2>3, <2>4, <2>5, <2>6, <2>7 DEF ForwardingSource
<1>4. CASE o # "proxy"
  <2>1. Pod(o).container.env["CFG_VELOCITY_FORWARDING_SECRET"]
           = FromSecret(ForwardingSecretName("cluster"), SecretDataKey)
    BY <1>4, PodTells
  <2>. QED BY <1>4, <2>1 DEF ForwardingSource, FromSecret
<1>. QED BY <1>3, <1>4

\* Only Services of the operator, which all have names that it made up.
LEMMA ServiceNames ==
    ASSUME NetworkInv, NEW name, <<"Service", name>> \in DOMAIN objects
    PROVE  name \in {HeadlessServiceName("cluster"), RedisName("cluster"), <<"proxy">>}
<1>1. PICK o \in Owner : \E i \in DOMAIN BuilderOrder[o] : <<"Service", name>> = BuilderOrder[o][i]
  BY DEF NetworkInv, RangeInv
<1>2. PICK i \in DOMAIN BuilderOrder[o] : <<"Service", name>> = BuilderOrder[o][i]
  BY <1>1
<1>3. CASE o = "cluster"
  BY <1>2, <1>3 DEF BuilderOrder, SecretKey, ForwardingSecretKey
<1>4. CASE o = "proxy"
  BY <1>2, <1>4 DEF BuilderOrder
<1>5. CASE o = "fleet"
  BY <1>2, <1>5 DEF BuilderOrder
<1>6. CASE o = "server"
  BY <1>2, <1>6 DEF BuilderOrder
<1>. QED BY <1>3, <1>4, <1>5, <1>6 DEF Owner

LEMMA RedisIs ==
    ASSUME NetworkInv, Settled, Deployed # {},
           NEW redis, redis = RedisRef("cluster", resource["cluster"]), redis # Error
    PROVE  /\ RedisServed(redis.host, redis.port)
           /\ RedisManaged(resource["cluster"]) => <<"Service", redis.host>> \in DOMAIN objects
<1>1. PICK c : c = resource["cluster"]
  OBVIOUS
<1>2. CASE RedisManaged(c)
  <2>1. redis.host = RedisName("cluster") /\ redis.port = 6379
    BY <1>1, <1>2 DEF RedisRef
  <2>2. PICK key, set : key = <<"Service", RedisName("cluster")>>
                        /\ set = <<"StatefulSet", RedisName("cluster")>>
    OBVIOUS
  <2>3. BuilderOrder["cluster"][9] = key /\ BuilderOrder["cluster"][10] = set
        /\ 9 \in 2 .. 11 /\ 10 \in 2 .. 11
    BY <2>2, ClusterKeys DEF RedisName
  <2>4. Needed(c, key) /\ Needed(c, set)
    BY <1>2, <2>2, ClusterNeeds
  <2>5. key \in DOMAIN objects /\ objects[key] = RedisService("cluster")
    BY <1>1, <2>2, <2>3, <2>4, ClusterMade, ClusterMakes
  <2>6. set \in DOMAIN objects /\ objects[set] = RedisStatefulSet("cluster")
    BY <1>1, <2>2, <2>3, <2>4, ClusterMade, ClusterMakes
  <2>7. set[1] = "StatefulSet"
        /\ Selects(objects[key].selector, objects[set].pod.labels)
    BY <2>2, <2>5, <2>6 DEF Selects, RedisService, RedisStatefulSet
  <2>8. \E p \in objects[key].ports : p.port = 6379 /\ p.target \in DOMAIN objects[set].pod.ports
    <3> DEFINE p == [port |-> 6379, target |-> "redis"]
    <3>1. objects[key].ports = {p}
      BY <2>5 DEF RedisService
    <3>2. p \in objects[key].ports /\ p.port = 6379 /\ p.target = "redis"
      BY <3>1
    <3> HIDE DEF p
    <3>3. "redis" \in DOMAIN objects[set].pod.ports
      BY <2>6 DEF RedisStatefulSet
    <3>. QED BY <3>2, <3>3
  <2>9. RedisServed(redis.host, redis.port)
    BY <2>1, <2>2, <2>6, <2>7, <2>8 DEF RedisServed
  <2>. QED BY <2>1, <2>2, <2>5, <2>9
<1>3. CASE ~RedisManaged(c)
  <2>1. c.redis.provided # None /\ redis.host = <<c.redis.provided.host>>
    BY <1>1, <1>3 DEF RedisRef
  <2>2. c \in Specs["cluster"]
    BY <1>1, SettledFacts
  <2>3. c.redis.provided.host # "proxy"
    BY <1>3, <2>1, <2>2, ExistingAssumption
  <2>4. redis.host \notin {HeadlessServiceName("cluster"), RedisName("cluster"), <<"proxy">>}
    BY <2>1, <2>3 DEF HeadlessServiceName, RedisName
  <2>5. <<"Service", redis.host>> \notin DOMAIN objects
    BY <2>4, ServiceNames
  <2>. QED BY <1>1, <1>3, <2>5 DEF RedisServed
<1>. QED BY <1>2, <1>3

(* Once all is reconciled, all pods have the same Redis, cluster name and   *)
(* forwarding key, whichever controller wrote them, and a Redis that the    *)
(* operator manages is there under the name and port they are given.        *)
THEOREM BackendIsOne == Spec => []OneBackend
<1>1. NetworkInv => OneBackend
  <2> SUFFICES ASSUME NetworkInv, Settled
               PROVE  /\ \A o, p \in Deployed :
                            Backend(o) = Backend(p) /\ ForwardingSource(o) = ForwardingSource(p)
                      /\ \A o \in Deployed :
                            /\ Backend(o)["SHULKER_CLUSTER_NAME"] = resource[o].cluster_ref
                            /\ RedisServed(Backend(o)["SHULKER_REDIS_HOST"],
                                           Backend(o)["SHULKER_REDIS_PORT"])
                            /\ RedisManaged(resource["cluster"]) =>
                                  <<"Service", Backend(o)["SHULKER_REDIS_HOST"]>> \in DOMAIN objects
    BY DEF OneBackend
  <2>1. PICK c : c = resource["cluster"]
    OBVIOUS
  <2>2. PICK settings : settings = RedisSettings(c)
    OBVIOUS
  <2>3. \A o \in Deployed : /\ Backend(o) = [v \in DOMAIN settings |-> settings[v]]
                            /\ ForwardingSource(o) = <<ForwardingSecretName("cluster"), SecretDataKey>>
    BY <2>1, <2>2, BackendIs, ForwardingIs
  <2>4. PICK redis : redis = RedisRef("cluster", c)
    OBVIOUS
  <2>5. /\ {"SHULKER_CLUSTER_NAME", "SHULKER_REDIS_HOST", "SHULKER_REDIS_PORT"} \subseteq DOMAIN settings
        /\ settings["SHULKER_CLUSTER_NAME"] = "cluster"
        /\ settings["SHULKER_REDIS_HOST"] = redis.host
        /\ settings["SHULKER_REDIS_PORT"] = redis.port
    BY <2>2, <2>4, Settings
  <2>6. ASSUME NEW o \in Deployed
        PROVE  /\ Backend(o)["SHULKER_CLUSTER_NAME"] = resource[o].cluster_ref
               /\ RedisServed(Backend(o)["SHULKER_REDIS_HOST"], Backend(o)["SHULKER_REDIS_PORT"])
               /\ RedisManaged(resource["cluster"]) =>
                     <<"Service", Backend(o)["SHULKER_REDIS_HOST"]>> \in DOMAIN objects
    <3>1. /\ Backend(o)["SHULKER_CLUSTER_NAME"] = "cluster"
          /\ Backend(o)["SHULKER_REDIS_HOST"] = redis.host
          /\ Backend(o)["SHULKER_REDIS_PORT"] = redis.port
      BY <2>3, <2>5
    <3>2. resource[o].cluster_ref = "cluster"
      BY SettledFacts, OneClusterAssumption
    <3>3. redis # Error
      BY <2>1, <2>4, PodTells
    <3>4. /\ RedisServed(redis.host, redis.port)
          /\ RedisManaged(resource["cluster"]) => <<"Service", redis.host>> \in DOMAIN objects
      BY <2>1, <2>4, <3>3, RedisIs
    <3>. QED BY <3>1, <3>2, <3>4
  <2>. QED BY <2>3, <2>6
<1>. QED BY <1>1, NetworkAlways, PTL

(***************************************************************************)
(* What the pods of a settled network name is there.                       *)
(***************************************************************************)
LEMMA ServerFiles ==
    ASSUME NEW config
    PROVE  DOMAIN get_data_from_spec(config)
              = {"init-fs.sh", "server.properties", "bukkit-config.yml", "spigot-config.yml",
                 "paper-global-config.yml"}
<1>1. PICK a : a = "init-fs.sh" :> <<"server-init-fs.sh">>
  OBVIOUS
<1>2. PICK b : b = "server.properties" :> VanillaProperties(config)
  OBVIOUS
<1>3. PICK c : c = "bukkit-config.yml" :> BukkitYml(config)
  OBVIOUS
<1>4. PICK d : d = "spigot-config.yml" :> SpigotYml(config)
  OBVIOUS
<1>5. PICK e : e = "paper-global-config.yml" :> PaperGlobalYml(config)
  OBVIOUS
<1>6. /\ DOMAIN a = {"init-fs.sh"} /\ DOMAIN b = {"server.properties"}
      /\ DOMAIN c = {"bukkit-config.yml"} /\ DOMAIN d = {"spigot-config.yml"}
      /\ DOMAIN e = {"paper-global-config.yml"}
  BY <1>1, <1>2, <1>3, <1>4, <1>5 DEF :>
<1>7. DOMAIN (a @@ b @@ c @@ d @@ e)
         = DOMAIN a \cup DOMAIN b \cup DOMAIN c \cup DOMAIN d \cup DOMAIN e
  BY DEF @@
<1>8. get_data_from_spec(config) = a @@ b @@ c @@ d @@ e
  BY <1>1, <1>2, <1>3, <1>4, <1>5 DEF get_data_from_spec
<1>. QED BY <1>6, <1>7, <1>8

\* The ConfigMap of a pod is one that a user wrote, or the one of its owner.
LEMMA ProxyConfigThere ==
    ASSUME NetworkInv, OwnedInv, Settled, "proxy" \in Deployed
    PROVE  LET s == resource["proxy"]
               name == OrElse(s.template.config.existing_config_map_name, ProxyConfigName("proxy"))
               key == <<"ConfigMap", name>>
           IN  \/ name \in world.config_maps
               \/ key \in DOMAIN objects /\ objects[key].data = ProxyConfigData(s)
<1>1. PICK s : s = resource["proxy"]
  OBVIOUS
<1>2. PICK existing : existing = s.template.config.existing_config_map_name
  OBVIOUS
<1>3. s \in Specs["proxy"] /\ world \in Worlds
  BY <1>1, SettledFacts
<1>4. CASE existing = None
  <2>1. ProxyConfigMapNeeded(s)
    BY <1>2, <1>4 DEF ProxyConfigMapNeeded
  <2>2. PICK key : key = <<"ConfigMap", ProxyConfigName("proxy")>>
    OBVIOUS
  <2>3. key \in DOMAIN objects /\ objects[key] = ProxyConfigMap("proxy", s)
    BY <1>1, <2>1, <2>2, ProxyObjects
  <2>4. objects[key].data = ProxyConfigData(s)
    BY <2>3 DEF ProxyConfigMap
  <2>. QED BY <1>1, <1>2, <1>4, <2>2, <2>3, <2>4 DEF OrElse
<1>5. CASE existing # None
  <2>1. existing \in world.config_maps
    BY <1>2, <1>3, <1>5, ExistingAssumption DEF Optional
  <2>. QED BY <1>1, <1>2, <1>5, <2>1 DEF OrElse
<1>. QED BY <1>4, <1>5

LEMMA ServerConfigThere ==
    ASSUME NetworkInv, Settled, NEW o \in Deployed, o # "proxy"
    PROVE  LET name == ServerConfigSource(o, resource[o])
               key == <<"ConfigMap", name>>
           IN  \/ name \in world.config_maps
               \/ key \in DOMAIN objects /\ \E config : objects[key].data = get_data_from_spec(config)
<1>1. PICK s : s = resource[o]
  OBVIOUS
<1>2. /\ s \in Specs[o] /\ world \in Worlds
      /\ \A i \in DOMAIN BuilderOrder[o] : Made(o, s, resource["cluster"], BuilderOrder[o][i])
  BY <1>1, SettledFacts
<1>3. CASE o = "fleet"
  <2>1. PICK key : key = <<"ConfigMap", ServerConfigName("fleet")>>
    OBVIOUS
  <2>2. 1 \in DOMAIN BuilderOrder["fleet"] /\ BuilderOrder["fleet"][1] = key
    BY <2>1, OtherKeys DEF ServerConfigName
  <2>3. key # SecretKey /\ ~RunsPods("fleet", key)
    BY <2>1 DEF SecretKey, ForwardingSecretKey, RunsPods, PodsKey
  <2>4. Needed(s, key) /\ Plain("fleet", s, key) = ServerFleetConfigMap("fleet", s)
    BY <2>1 DEF Needed, Plain, RedisName, ExternalServersName, ProxyConfigName, ServerConfigName
  <2>5. key \in DOMAIN objects /\ objects[key] = ServerFleetConfigMap("fleet", s)
    BY <1>2, <1>3, <2>2, <2>3, <2>4 DEF Made
  <2>6. objects[key].data = get_data_from_spec(s.template.config)
    BY <2>5 DEF ServerFleetConfigMap
  <2>. QED BY <1>1, <1>3, <2>1, <2>5, <2>6 DEF ServerConfigSource
<1>4. CASE o = "server"
  <2>1. PICK existing : existing = s.config.existing_config_map_name
    OBVIOUS
  <2>2. CASE existing = None
    <3>1. PICK key : key = <<"ConfigMap", ServerConfigName("server")>>
      OBVIOUS
    <3>2. 1 \in DOMAIN BuilderOrder["server"] /\ BuilderOrder["server"][1] = key
      BY <3>1, OtherKeys DEF ServerConfigName
    <3>3. key # SecretKey /\ ~RunsPods("server", key)
      BY <3>1 DEF SecretKey, ForwardingSecretKey, RunsPods, PodsKey
    <3>4. Needed(s, key) = ConfigMapNeeded(s) /\ Plain("server", s, key) = ServerConfigMap("server", s)
      BY <3>1 DEF Needed, Plain, RedisName, ExternalServersName, ProxyConfigName, ServerConfigName,
                  ConfigMapNeeded
    <3>5. key \in DOMAIN objects /\ objects[key] = ServerConfigMap("server", s)
      BY <1>2, <1>4, <2>1, <2>2, <3>2, <3>3, <3>4 DEF Made, ConfigMapNeeded
    <3>6. objects[key].data = get_data_from_spec(s.config)
      BY <3>5 DEF ServerConfigMap
    <3>. QED BY <1>1, <1>4, <2>1, <2>2, <3>1, <3>5, <3>6 DEF ServerConfigSource, OrElse
  <2>3. CASE existing # None
    <3>1. existing \in world.config_maps
      BY <1>2, <1>4, <2>1, <2>3, ExistingAssumption DEF Optional
    <3>. QED BY <1>1, <1>4, <2>1, <2>3, <3>1 DEF ServerConfigSource, OrElse
  <2>. QED BY <2>2, <2>3
<1>. QED BY <1>3, <1>4 DEF Deployed, WithPods, Owner

LEMMA ConfigMapExists ==
    ASSUME NEW name, name \in world.config_maps \/ <<"ConfigMap", name>> \in DOMAIN objects
    PROVE  SourceExists(ConfigMapSource(name))
  BY DEF SourceExists, ConfigMapSource

LEMMA OverrideVolumes ==
    ASSUME NetworkInv, Settled, NEW o \in Deployed
    PROVE  LET po == PodOverrides(o, resource[o])
           IN  /\ \A v \in po.volumes : SourceExists(v[2])
               /\ \A m \in po.volume_mounts : \E v \in po.volumes : v[1] = m[1]
<1>1. PICK po : po = PodOverrides(o, resource[o])
  OBVIOUS
<1>2. o \in WithPods /\ resource[o] \in Specs[o] /\ world \in Worlds
  BY SettledFacts
<1>3. \A v \in po.volumes : \/ v[2][1] = "emptyDir"
                            \/ v[2][1] = "configMap" /\ v[2][2] \in world.config_maps
  BY <1>1, <1>2, VolumesAssumption
<1>4. \A m \in po.volume_mounts : \E v \in po.volumes : v[1] = m[1]
  BY <1>1, <1>2, VolumesAssumption
<1>5. \A v \in po.volumes : SourceExists(v[2])
  BY <1>3 DEF SourceExists
<1>. QED BY <1>1, <1>4, <1>5

\* The variables that Kubernetes reads from a Secret.
LEMMA SecretsThere ==
    ASSUME NetworkInv, Settled, NEW o \in Deployed
    PROVE  LET env == Pod(o).container.env
           IN  \A v \in FromSecrets \cap DOMAIN env : SecretHolds(env[v][2], env[v][3])
<1>1. PICK env : env = Pod(o).container.env
  OBVIOUS
<1>2. PICK c, redis : c = resource["cluster"] /\ redis = RedisRef("cluster", c)
  OBVIOUS
<1>3. c \in Specs["cluster"] /\ world \in Worlds /\ redis # Error
  BY <1>2, SettledFacts, PodTells
<1>4. SecretHolds(ForwardingSecretName("cluster"), SecretDataKey)
  <2>1. SecretKey \in DOMAIN objects
    BY ClusterMade
  <2>2. SecretDataKey \in DOMAIN objects[SecretKey].data
    BY <2>1 DEF NetworkInv, OperatorInv, KeyInv
  <2>. QED BY <2>1, <2>2 DEF SecretHolds, SecretKey, ForwardingSecretKey
<1>5. ASSUME NEW v \in FromSecrets \cap DOMAIN env PROVE SecretHolds(env[v][2], env[v][3])
  <2>1. CASE v = "CFG_VELOCITY_FORWARDING_SECRET"
    <3>1. env[v] = FromSecret(ForwardingSecretName("cluster"), SecretDataKey)
      BY <1>1, <1>5, <2>1, PodTells
    <3>2. env[v][2] = ForwardingSecretName("cluster") /\ env[v][3] = SecretDataKey
      BY <3>1 DEF FromSecret
    <3>. QED BY <1>4, <3>2
  <2>2. CASE v # "CFG_VELOCITY_FORWARDING_SECRET"
    <3>1. PICK settings : settings = RedisSettings(c)
      OBVIOUS
    <3>2. v \in Reserved \ {"CFG_VELOCITY_FORWARDING_SECRET"}
      BY <1>5, <2>2 DEF Reserved
    <3>3. v \in DOMAIN settings /\ env[v] = settings[v]
      BY <1>1, <1>2, <1>5, <3>1, <3>2, PodTells DEF Tells
    <3>4. PICK credentials : credentials = RedisCredentials(redis)
      OBVIOUS
    <3>5. v \in {"SHULKER_REDIS_USERNAME", "SHULKER_REDIS_PASSWORD"}
      BY <1>5, <2>2 DEF FromSecrets
    <3>6. v \in DOMAIN credentials /\ settings[v] = credentials[v]
      BY <1>2, <3>1, <3>3, <3>4, <3>5, Settings
    <3>7. PICK secret : secret = redis.credentials_secret_name
      OBVIOUS
    <3>8. secret # None
      BY <3>4, <3>6, <3>7, CredentialNames
    <3>9. \E part \in {"username", "password"} : env[v] = FromSecret(<<secret>>, part)
      BY <3>3, <3>4, <3>5, <3>6, <3>7, <3>8, CredentialNames
    <3>10. PICK part \in {"username", "password"} : env[v][2] = <<secret>> /\ env[v][3] = part
      BY <3>9 DEF FromSecret
    <3>11. ~RedisManaged(c) /\ c.redis.provided # None
           /\ secret = c.redis.provided.credentials_secret_name
      BY <1>2, <1>3, <3>7, <3>8 DEF RedisRef
    <3>12. /\ <<Namespace, secret>> \in DOMAIN world.secrets
           /\ part \in DOMAIN world.secrets[<<Namespace, secret>>]
      BY <1>3, <3>8, <3>10, <3>11, ExistingAssumption
    <3>13. Len(<<secret>>) = 1 /\ <<secret>>[1] = secret
      OBVIOUS
    <3>. QED BY <3>10, <3>12, <3>13 DEF SecretHolds
  <2>. QED BY <2>1, <2>2
<1>. QED BY <1>1, <1>5

LEMMA ProxyScheduled ==
    ASSUME NetworkInv, OwnedInv, Settled, "proxy" \in Deployed
    PROVE  Scheduled("proxy")
<1>1. PICK c, s : c = resource["cluster"] /\ s = resource["proxy"]
  OBVIOUS
<1>2. PICK pod : pod = Pod("proxy")
  OBVIOUS
<1>3. PICK po : po = s.template.pod_overrides
  OBVIOUS
<1>4. /\ pod.init.mounts = {<<"shulker-config", ProxyConfigDir>>, <<"proxy-data", ProxyDataDir>>}
      /\ pod.container.mounts = ProxyMounts(c) \cup po.volume_mounts
      /\ pod.volumes = ProxyVolumes(c, "proxy", s) \cup po.volumes
      /\ pod.subdomain = None /\ pod.service_account = AccountName("cluster", "proxy")
  BY <1>1, <1>2, <1>3, ProxyPodFacts
<1>5. s.cluster_ref = "cluster" /\ PodOverrides("proxy", s) = po
  BY <1>1, <1>3, SettledFacts, OneClusterAssumption DEF PodOverrides
<1>6. /\ \A v \in po.volumes : SourceExists(v[2])
      /\ \A m \in po.volume_mounts : \E v \in po.volumes : v[1] = m[1]
  BY <1>1, <1>5, OverrideVolumes
<1>7. PICK external : external = <<"ConfigMap", ExternalServersName("cluster")>>
  OBVIOUS
<1>8. HasExternalServers(c) => external \in DOMAIN objects
  <2>1. BuilderOrder["cluster"][11] = external /\ 11 \in 2 .. 11
    BY <1>7, ClusterKeys DEF ExternalServersName
  <2>2. Needed(c, external) = HasExternalServers(c)
    BY <1>7, ClusterNeeds
  <2>. QED BY <1>1, <2>1, <2>2, ClusterMade
<1>9. PICK config, secret, empty, extra :
         /\ config = ConfigMapSource(OrElse(s.template.config.existing_config_map_name,
                                            ProxyConfigName("proxy")))
         /\ secret = SecretSource(ForwardingSecretName("cluster"))
         /\ empty = EmptyDir
         /\ extra = ConfigMapSource(ExternalServersName("cluster"))
  OBVIOUS
<1>10. ProxyVolumes(c, "proxy", s)
         = {<<"shulker-config", config>>, <<"shulker-forwarding-secret", secret>>,
            <<"proxy-data", empty>>, <<"proxy-drain-lock", empty>>, <<"proxy-tmp", empty>>}
           \cup (IF HasExternalServers(c) THEN {<<"shulker-external-servers", extra>>} ELSE {})
  BY <1>5, <1>9 DEF ProxyVolumes
<1>11. \A m \in pod.init.mounts \cup pod.container.mounts : \E v \in pod.volumes : v[1] = m[1]
  <2>1. PICK own : own = ProxyVolumes(c, "proxy", s)
    OBVIOUS
  <2>2. \A n \in {"shulker-config", "shulker-forwarding-secret", "proxy-data", "proxy-drain-lock",
                   "proxy-tmp"} : \E v \in own : v[1] = n
    <3>1. /\ <<"shulker-config", config>> \in own /\ <<"proxy-data", empty>> \in own
          /\ <<"proxy-drain-lock", empty>> \in own /\ <<"proxy-tmp", empty>> \in own
          /\ <<"shulker-forwarding-secret", secret>> \in own
      BY <1>10, <2>1
    <3>2. \A n, x : <<n, x>> \in own => \E v \in own : v[1] = n
      OBVIOUS
    <3>. QED BY <3>1, <3>2
  <2>3. HasExternalServers(c) => \E v \in own : v[1] = "shulker-external-servers"
    <3>1. HasExternalServers(c) => <<"shulker-external-servers", extra>> \in own
      BY <1>10, <2>1
    <3>. QED BY <3>1
  <2>4. \A m \in pod.init.mounts : m[1] \in {"shulker-config", "proxy-data"}
    BY <1>4
  <2>5. \A m \in ProxyMounts(c) :
           \/ m[1] \in {"shulker-forwarding-secret", "proxy-data", "proxy-drain-lock", "proxy-tmp"}
           \/ HasExternalServers(c) /\ m[1] = "shulker-external-servers"
    BY DEF ProxyMounts
  <2>6. \A m \in pod.init.mounts \cup ProxyMounts(c) : \E v \in own : v[1] = m[1]
    BY <2>2, <2>3, <2>4, <2>5
  <2>. QED BY <1>4, <1>6, <2>1, <2>6
<1>12. SourceExists(config)
  BY <1>1, <1>9, ProxyConfigThere, ConfigMapExists
<1>13. SourceExists(secret)
  <2>1. SecretKey \in DOMAIN objects
    BY ClusterMade
  <2>. QED BY <1>9, <2>1 DEF SourceExists, SecretSource, SecretKey, ForwardingSecretKey
<1>14. SourceExists(empty)
  BY <1>9 DEF SourceExists, EmptyDir
<1>15. HasExternalServers(c) => SourceExists(extra)
  BY <1>7, <1>8, <1>9, ConfigMapExists
<1>16. \A v \in pod.volumes : SourceExists(v[2])
  BY <1>4, <1>6, <1>10, <1>12, <1>13, <1>14, <1>15
<1>17. <<"ServiceAccount", pod.service_account>> \in DOMAIN objects
  BY <1>4, RolesMade
<1>18. \A v \in FromSecrets \cap DOMAIN pod.container.env :
          SecretHolds(pod.container.env[v][2], pod.container.env[v][3])
  BY <1>2, SecretsThere
<1>. QED BY <1>2, <1>4, <1>11, <1>16, <1>17, <1>18 DEF Scheduled

LEMMA ServerScheduled ==
    ASSUME NetworkInv, Settled, NEW o \in Deployed, o # "proxy"
    PROVE  Scheduled(o)
<1>1. PICK c, s : c = resource["cluster"] /\ s = resource[o]
  OBVIOUS
<1>2. PICK pod : pod = Pod(o)
  OBVIOUS
<1>3. PICK po : po = PodOverrides(o, s)
  OBVIOUS
<1>4. PICK config, empty : /\ config = ConfigMapSource(ServerConfigSource(o, s))
                           /\ empty = EmptyDir
  OBVIOUS
<1>5. /\ pod.init.mounts = {<<"shulker-config", ServerConfigDir>>, <<"server-config", <<"/config">> >>}
      /\ pod.container.mounts = {<<"server-config", <<"/config">> >>, <<"server-data", <<"/data">> >>,
                                 <<"server-tmp", <<"/tmp">> >>} \cup po.volume_mounts
      /\ pod.volumes = {<<"shulker-config", config>>, <<"server-config", empty>>,
                        <<"server-data", empty>>, <<"server-tmp", empty>>} \cup po.volumes
      /\ pod.subdomain = HeadlessServiceName("cluster")
      /\ pod.service_account = AccountName("cluster", "server")
  <2>1. PICK spec : IsServerPod(pod, o, s, world, c, spec)
    BY <1>1, <1>2, PodFacts
  <2>. QED BY <1>3, <1>4, <2>1 DEF IsServerPod
<1>6. /\ \A v \in po.volumes : SourceExists(v[2])
      /\ \A m \in po.volume_mounts : \E v \in po.volumes : v[1] = m[1]
  BY <1>1, <1>3, OverrideVolumes
<1>7. \A m \in pod.init.mounts \cup pod.container.mounts : \E v \in pod.volumes : v[1] = m[1]
  <2>1. PICK volumes : volumes = pod.volumes
    OBVIOUS
  <2>2. \A n \in {"shulker-config", "server-config", "server-data", "server-tmp"} :
           \E v \in volumes : v[1] = n
    <3>1. /\ <<"shulker-config", config>> \in volumes /\ <<"server-config", empty>> \in volumes
          /\ <<"server-data", empty>> \in volumes /\ <<"server-tmp", empty>> \in volumes
      BY <1>5, <2>1
    <3>2. \A n, x : <<n, x>> \in volumes => \E v \in volumes : v[1] = n
      OBVIOUS
    <3>. QED BY <3>1, <3>2
  <2>3. \A m \in pod.init.mounts \cup pod.container.mounts :
           \/ m[1] \in {"shulker-config", "server-config", "server-data", "server-tmp"}
           \/ m \in po.volume_mounts
    BY <1>5
  <2>4. \A v \in po.volumes : v \in volumes
    BY <1>5, <2>1
  <2>. QED BY <1>6, <2>1, <2>2, <2>3, <2>4
<1>8. SourceExists(config)
  BY <1>1, <1>4, ServerConfigThere, ConfigMapExists
<1>9. SourceExists(empty)
  BY <1>4 DEF SourceExists, EmptyDir
<1>10. \A v \in pod.volumes : SourceExists(v[2])
  BY <1>5, <1>6, <1>8, <1>9
<1>11. <<"ServiceAccount", pod.service_account>> \in DOMAIN objects
  BY <1>5, RolesMade
<1>12. <<"Service", HeadlessServiceName("cluster")>> \in DOMAIN objects
  <2>1. PICK key : key = <<"Service", HeadlessServiceName("cluster")>>
    OBVIOUS
  <2>2. BuilderOrder["cluster"][2] = key /\ 2 \in 2 .. 11
    BY <2>1, ClusterKeys DEF HeadlessServiceName
  <2>3. Needed(c, key)
    BY <2>1, ClusterNeeds
  <2>. QED BY <1>1, <2>1, <2>2, <2>3, ClusterMade
<1>13. \A v \in FromSecrets \cap DOMAIN pod.container.env :
          SecretHolds(pod.container.env[v][2], pod.container.env[v][3])
  BY <1>2, SecretsThere
<1>. QED BY <1>2, <1>5, <1>7, <1>10, <1>11, <1>12, <1>13 DEF Scheduled

\* What the init scripts read from their environment.
LEMMA ProxyInitEnvIs ==
    ASSUME NEW w, NEW s, ProxyInitEnv(w, AgentConfig, s) # Error
    PROVE  LET env == ProxyInitEnv(w, AgentConfig, s)
           IN  /\ env["SHULKER_CONFIG_DIR"] = ProxyConfigDir
               /\ env["SHULKER_PROXY_DATA_DIR"] = ProxyDataDir
               /\ env["SHULKER_VERSION_CHANNEL"] = s.template.version.channel
<1>1. PICK plugins : plugins = ProxyPluginUrls(w, AgentConfig, s)
  OBVIOUS
<1>2. PICK patches : patches = resolve_all(w, Namespace, s.template.config.patches)
  OBVIOUS
<1>3. PICK env : env = [ SHULKER_CONFIG_DIR |-> ProxyConfigDir,
                         SHULKER_PROXY_DATA_DIR |-> ProxyDataDir,
                         SHULKER_VERSION_CHANNEL |-> s.template.version.channel,
                         SHULKER_PROXY_PLUGIN_URLS |-> plugins,
                         SHULKER_PROXY_PATCH_URLS |-> patches ]
  OBVIOUS
<1>4. ProxyInitEnv(w, AgentConfig, s)
         = IF plugins = Error THEN Error ELSE IF patches = Error THEN Error ELSE env
  BY <1>1, <1>2, <1>3 DEF ProxyInitEnv, IfOk
<1>5. ProxyInitEnv(w, AgentConfig, s) = env
  BY <1>4
<1>. QED BY <1>3, <1>5

LEMMA ServerInitEnvIs ==
    ASSUME NEW w, NEW spec, get_init_env(w, AgentConfig, spec) # Error
    PROVE  LET env == get_init_env(w, AgentConfig, spec)
           IN  /\ env["SHULKER_CONFIG_DIR"] = ServerConfigDir
               /\ env["SHULKER_SERVER_CONFIG_DIR"] = <<"/config">>
<1>1. PICK plugins : plugins = get_plugin_urls(w, AgentConfig, spec)
  OBVIOUS
<1>2. PICK patches : patches = resolve_all(w, Namespace, spec.config.patches)
  OBVIOUS
<1>3. PICK url : url = IF spec.config.world = None THEN <<>> ELSE Url(w, Namespace, spec.config.world)
  OBVIOUS
<1>4. PICK env : env = [ SHULKER_CONFIG_DIR |-> ServerConfigDir,
                         SHULKER_SERVER_CONFIG_DIR |-> <<"/config">>,
                         SHULKER_SERVER_DATA_DIR |-> <<"/data">>,
                         SHULKER_VERSION_CHANNEL |-> spec.version.channel,
                         SHULKER_SERVER_WORLD_URL |-> url,
                         SHULKER_SERVER_PLUGIN_URLS |-> plugins,
                         SHULKER_SERVER_PATCH_URLS |-> patches ]
  OBVIOUS
<1>5. get_init_env(w, AgentConfig, spec)
         = IF url = Error THEN Error ELSE IF plugins = Error THEN Error
           ELSE IF patches = Error THEN Error ELSE env
  BY <1>1, <1>2, <1>3, <1>4 DEF get_init_env, IfOk
<1>6. get_init_env(w, AgentConfig, spec) = env
  BY <1>5
<1>. QED BY <1>4, <1>6

\* What an init script needs of the pod it runs in, by what it is given.
FindsFiles(o, pod, env, name, target, volume) ==
    /\ pod = Pod(o) /\ env = pod.init.env /\ target = InitTarget(o, env)
    /\ \E m \in pod.init.mounts : m[2] = env["SHULKER_CONFIG_DIR"]
    /\ \E m \in pod.init.mounts : m[2] = target
    /\ VolumeOf(pod.init.mounts, env["SHULKER_CONFIG_DIR"]) = "shulker-config"
    /\ (CHOOSE v \in pod.volumes : v[1] = "shulker-config")[2] = ConfigMapSource(name)
    /\ \/ name \in world.config_maps
       \/ /\ <<"ConfigMap", name>> \in DOMAIN objects
          /\ InitFiles(o, env) \cup {"init-fs.sh"} \subseteq DOMAIN objects[<<"ConfigMap", name>>].data
    /\ pod.init.script = env["SHULKER_CONFIG_DIR"] \o <<"init-fs.sh">>
    /\ VolumeOf(pod.init.mounts, target) = volume
    /\ VolumeOf(pod.container.mounts, target) = volume

LEMMA Inits ==
    ASSUME NEW o, NEW pod, NEW env, NEW name, NEW target, NEW volume,
           FindsFiles(o, pod, env, name, target, volume)
    PROVE  InitSucceeds(o)
<1>1. PICK source : source = ConfigMapSource(name)
  OBVIOUS
<1>2. source[2] = name
  BY <1>1 DEF ConfigMapSource
<1>3. (CHOOSE v \in pod.volumes : v[1] = VolumeOf(pod.init.mounts, env["SHULKER_CONFIG_DIR"]))[2] = source
  BY <1>1 DEF FindsFiles
<1>. QED BY <1>2, <1>3 DEF InitSucceeds, FindsFiles

LEMMA ProxyInits ==
    ASSUME NetworkInv, OwnedInv, Settled, "proxy" \in Deployed
    PROVE  InitSucceeds("proxy")
<1>1. PICK c, s : c = resource["cluster"] /\ s = resource["proxy"]
  OBVIOUS
<1>2. PICK pod, env : pod = Pod("proxy") /\ env = ProxyInitEnv(world, AgentConfig, s)
  OBVIOUS
<1>3. s \in Specs["proxy"]
  BY <1>1, SettledFacts
<1>4. PICK volumes, mounts : /\ volumes = ProxyVolumes(c, "proxy", s) \cup s.template.pod_overrides.volumes
                             /\ mounts = ProxyMounts(c) \cup s.template.pod_overrides.volume_mounts
  OBVIOUS
<1>5. PICK inits : inits = {<<"shulker-config", ProxyConfigDir>>, <<"proxy-data", ProxyDataDir>>}
  OBVIOUS
<1>6. /\ env # Error /\ pod.init.env = env /\ pod.init.mounts = inits
      /\ pod.init.script = ProxyConfigDir \o <<"init-fs.sh">>
      /\ pod.container.mounts = mounts /\ pod.volumes = volumes
  BY <1>1, <1>2, <1>4, <1>5, ProxyPodFacts
<1>7. /\ env["SHULKER_CONFIG_DIR"] = ProxyConfigDir
      /\ env["SHULKER_VERSION_CHANNEL"] = s.template.version.channel
      /\ InitTarget("proxy", env) = ProxyDataDir
  BY <1>2, <1>6, ProxyInitEnvIs DEF InitTarget
<1>8. ProxyConfigDir # ProxyDataDir
  BY DEF ProxyConfigDir, ProxyDataDir
<1>9. /\ VolumeOf(inits, ProxyConfigDir) = "shulker-config"
      /\ VolumeOf(inits, ProxyDataDir) = "proxy-data"
  <2>1. /\ <<"shulker-config", ProxyConfigDir>> \in inits
        /\ \A m \in inits : m[2] = ProxyConfigDir => m = <<"shulker-config", ProxyConfigDir>>
    BY <1>5, <1>8
  <2>2. /\ <<"proxy-data", ProxyDataDir>> \in inits
        /\ \A m \in inits : m[2] = ProxyDataDir => m = <<"proxy-data", ProxyDataDir>>
    BY <1>5, <1>8
  <2>. QED BY <2>1, <2>2, Mounted
<1>10. VolumeOf(mounts, ProxyDataDir) = "proxy-data"
  BY <1>3, <1>4, ProxyVolumeNames
<1>11. PICK name : name = OrElse(s.template.config.existing_config_map_name, ProxyConfigName("proxy"))
  OBVIOUS
<1>12. (CHOOSE v \in volumes : v[1] = "shulker-config")[2] = ConfigMapSource(name)
  <2>1. (CHOOSE v \in volumes : v[1] = "shulker-config")[2]
           = ConfigMapSource(OrElse(s.template.config.existing_config_map_name,
                                    ProxyConfigName("proxy")))
    BY <1>3, <1>4, ProxyVolumeNames
  <2>. QED BY <1>11, <2>1
<1>13. InitFiles("proxy", env) \cup {"init-fs.sh"} = DOMAIN ProxyConfigData(s)
  BY <1>7, ProxyFiles DEF InitFiles
<1>14. \/ name \in world.config_maps
       \/ /\ <<"ConfigMap", name>> \in DOMAIN objects
          /\ InitFiles("proxy", env) \cup {"init-fs.sh"}
                \subseteq DOMAIN objects[<<"ConfigMap", name>>].data
  BY <1>1, <1>11, <1>13, ProxyConfigThere
<1>15. /\ \E m \in inits : m[2] = ProxyConfigDir
       /\ \E m \in inits : m[2] = ProxyDataDir
  <2>1. <<"shulker-config", ProxyConfigDir>> \in inits /\ <<"proxy-data", ProxyDataDir>> \in inits
    BY <1>5
  <2>. QED BY <2>1
<1>16. pod = Pod("proxy") /\ env = pod.init.env /\ ProxyDataDir = InitTarget("proxy", env)
  BY <1>2, <1>6, <1>7
<1>17. /\ \E m \in pod.init.mounts : m[2] = env["SHULKER_CONFIG_DIR"]
       /\ \E m \in pod.init.mounts : m[2] = ProxyDataDir
  BY <1>6, <1>7, <1>15
<1>18. VolumeOf(pod.init.mounts, env["SHULKER_CONFIG_DIR"]) = "shulker-config"
  BY <1>6, <1>7, <1>9
<1>19. (CHOOSE v \in pod.volumes : v[1] = "shulker-config")[2] = ConfigMapSource(name)
  BY <1>6, <1>12
<1>20. pod.init.script = env["SHULKER_CONFIG_DIR"] \o <<"init-fs.sh">>
  BY <1>6, <1>7
<1>21. /\ VolumeOf(pod.init.mounts, ProxyDataDir) = "proxy-data"
       /\ VolumeOf(pod.container.mounts, ProxyDataDir) = "proxy-data"
  BY <1>6, <1>9, <1>10
<1>22. FindsFiles("proxy", pod, env, name, ProxyDataDir, "proxy-data")
  BY <1>14, <1>16, <1>17, <1>18, <1>19, <1>20, <1>21 DEF FindsFiles
<1>. QED BY <1>22, Inits

LEMMA ServerInits ==
    ASSUME NetworkInv, Settled, NEW o \in Deployed, o # "proxy"
    PROVE  InitSucceeds(o)
<1>1. PICK c, s : c = resource["cluster"] /\ s = resource[o]
  OBVIOUS
<1>2. PICK pod : pod = Pod(o)
  OBVIOUS
<1>3. PICK spec : IsServerPod(pod, o, s, world, c, spec)
  BY <1>1, <1>2, PodFacts
<1>4. PICK env : env = get_init_env(world, AgentConfig, spec)
  OBVIOUS
<1>5. PICK po : po = PodOverrides(o, s)
  OBVIOUS
<1>6. PICK inits, mounts, volumes :
         /\ inits = {<<"shulker-config", ServerConfigDir>>, <<"server-config", <<"/config">> >>}
         /\ mounts = {<<"server-config", <<"/config">> >>, <<"server-data", <<"/data">> >>,
                      <<"server-tmp", <<"/tmp">> >>} \cup po.volume_mounts
         /\ volumes = {<<"shulker-config", ConfigMapSource(ServerConfigSource(o, s))>>,
                       <<"server-config", EmptyDir>>, <<"server-data", EmptyDir>>,
                       <<"server-tmp", EmptyDir>>} \cup po.volumes
  OBVIOUS
<1>7. /\ env # Error /\ pod.init.env = env /\ pod.init.mounts = inits
      /\ pod.init.script = ServerConfigDir \o <<"init-fs.sh">>
      /\ pod.container.mounts = mounts /\ pod.volumes = volumes
  BY <1>3, <1>4, <1>5, <1>6 DEF IsServerPod
<1>8. env["SHULKER_CONFIG_DIR"] = ServerConfigDir /\ InitTarget(o, env) = <<"/config">>
  BY <1>4, <1>7, ServerInitEnvIs DEF InitTarget
<1>9. PICK target : target = <<"/config">>
  OBVIOUS
<1>10. /\ \A v \in po.volumes : v[1] \notin ReservedVolumes(o)
       /\ \A m \in po.volume_mounts : m[2] \notin ReservedPaths(o)
  BY <1>1, <1>5, SettledFacts, VolumesAssumption
<1>11. /\ target # ServerConfigDir /\ target # <<"/data">> /\ target # <<"/tmp">>
       /\ target \in ReservedPaths(o) /\ "shulker-config" \in ReservedVolumes(o)
  BY <1>9 DEF ServerConfigDir, ReservedPaths, ReservedVolumes
<1>12. VolumeOf(inits, ServerConfigDir) = "shulker-config" /\ VolumeOf(inits, target) = "server-config"
  <2>1. /\ <<"shulker-config", ServerConfigDir>> \in inits
        /\ \A m \in inits : m[2] = ServerConfigDir => m = <<"shulker-config", ServerConfigDir>>
    BY <1>6, <1>9, <1>11
  <2>2. /\ <<"server-config", target>> \in inits
        /\ \A m \in inits : m[2] = target => m = <<"server-config", target>>
    BY <1>6, <1>9, <1>11
  <2>. QED BY <2>1, <2>2, Mounted
<1>13. VolumeOf(mounts, target) = "server-config"
  <2>1. <<"server-config", target>> \in mounts
    BY <1>6, <1>9
  <2>2. \A m \in mounts : m[2] = target => m = <<"server-config", target>>
    BY <1>6, <1>9, <1>10, <1>11
  <2>. QED BY <2>1, <2>2, Mounted
<1>14. PICK name : name = ServerConfigSource(o, s)
  OBVIOUS
<1>15. (CHOOSE v \in volumes : v[1] = "shulker-config")[2] = ConfigMapSource(name)
  <2>1. PICK source : source = ConfigMapSource(name)
    OBVIOUS
  <2>2. <<"shulker-config", source>> \in volumes
    BY <1>6, <1>14, <2>1
  <2>3. \A v \in volumes : v[1] = "shulker-config" => v = <<"shulker-config", source>>
    BY <1>6, <1>10, <1>11, <1>14, <2>1
  <2>. QED BY <2>1, <2>2, <2>3, NamedVolume
<1>16. \/ name \in world.config_maps
       \/ /\ <<"ConfigMap", name>> \in DOMAIN objects
          /\ InitFiles(o, env) \cup {"init-fs.sh"} \subseteq DOMAIN objects[<<"ConfigMap", name>>].data
  <2>1. PICK key : key = <<"ConfigMap", name>>
    OBVIOUS
  <2>2. \A config : InitFiles(o, env) \cup {"init-fs.sh"} = DOMAIN get_data_from_spec(config)
    BY ServerFiles DEF InitFiles
  <2>. QED BY <1>1, <1>14, <2>1, <2>2, ServerConfigThere
<1>17. pod = Pod(o) /\ env = pod.init.env /\ target = InitTarget(o, env)
  BY <1>2, <1>7, <1>8, <1>9
<1>18. /\ \E m \in pod.init.mounts : m[2] = env["SHULKER_CONFIG_DIR"]
       /\ \E m \in pod.init.mounts : m[2] = target
  <2>1. <<"shulker-config", ServerConfigDir>> \in inits /\ <<"server-config", target>> \in inits
    BY <1>6, <1>9
  <2>. QED BY <1>7, <1>8, <2>1
<1>19. VolumeOf(pod.init.mounts, env["SHULKER_CONFIG_DIR"]) = "shulker-config"
  BY <1>7, <1>8, <1>12
<1>20. (CHOOSE v \in pod.volumes : v[1] = "shulker-config")[2] = ConfigMapSource(name)
  BY <1>7, <1>15
<1>21. pod.init.script = env["SHULKER_CONFIG_DIR"] \o <<"init-fs.sh">>
  BY <1>7, <1>8
<1>22. VolumeOf(pod.init.mounts, target) = "server-config"
       /\ VolumeOf(pod.container.mounts, target) = "server-config"
  BY <1>7, <1>12, <1>13
<1>23. FindsFiles(o, pod, env, name, target, "server-config")
  BY <1>16, <1>17, <1>18, <1>19, <1>20, <1>21, <1>22 DEF FindsFiles
<1>. QED BY <1>23, Inits

(* Once all is reconciled, every pod can start: the ConfigMaps, Secrets and *)
(* keys, accounts and Services it names are there, its mounts have volumes, *)
(* and its init script finds the files of its channel and copies them to    *)
(* the volume that the container reads.                                     *)
THEOREM PodsAllStart == Spec => []PodsStart
<1>1. NetworkInv /\ OwnedInv => PodsStart
  <2> SUFFICES ASSUME NetworkInv, OwnedInv, Settled, NEW o \in Deployed
               PROVE  Scheduled(o) /\ InitSucceeds(o)
    BY DEF PodsStart
  <2>1. CASE o = "proxy"
    BY <2>1, ProxyScheduled, ProxyInits
  <2>2. CASE o # "proxy"
    BY <2>2, ServerScheduled, ServerInits
  <2>. QED BY <2>1, <2>2
<1>. QED BY <1>1, OwnedAlways, PTL
=============================================================================
