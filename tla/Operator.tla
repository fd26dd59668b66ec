------------------------------- MODULE Operator -------------------------------
(***************************************************************************)
(* The controllers of the operator, composed: a MinecraftCluster, a        *)
(* ProxyFleet, a MinecraftServerFleet and a MinecraftServer, reconciled    *)
(* concurrently (reconcilers/*/mod.rs), the objects they leave in the API  *)
(* server, and Agones, which starts pods from those objects and reports.   *)
(*                                                                         *)
(* One call of reconcile_builder is one step here; BuilderReconcile opens  *)
(* it.  Users edit the resources and the outside world changes at any      *)
(* moment, also between two steps of a reconciliation, which goes on with  *)
(* the resources it read.                                                  *)
(***************************************************************************)
EXTENDS ProxyManifests

CONSTANTS Specs,         \* what users may write in the resource of each owner
          Worlds,        \* Secrets and Maven repositories: what resolve may find
          Keys,          \* forwarding keys that may be generated
          AgentConfig,   \* the operator's own settings
          MaxEdits,      \* bounds the edits of users and the changes of the world
          MaxEvents      \* bounds the calls that fail and the reports of Agones

Owner == {"cluster", "proxy", "fleet", "server"}
WithPods == Owner \ {"cluster"}

ASSUME OperatorAssumption ==
    /\ DOMAIN Specs = Owner
    /\ None \notin Nat \cup {"Shutdown"} \cup UNION {Specs[o] : o \in Owner}
    /\ MaxEdits \in Nat /\ MaxEvents \in Nat

(* The API server only admits resources of the types of the CRDs. *)
ASSUME SpecsAssumption ==
    /\ Specs["cluster"] \subseteq MinecraftClusterSpec
    /\ \A s \in Specs["proxy"] : IsProxyFleetSpec(s)
    /\ \A s \in Specs["fleet"] : IsServerFleetSpec(s)
    /\ \A s \in Specs["server"] : IsServerSpec(s)

VARIABLES resource,      \* the resource of each owner in the API server, None if absent
          objects,   \* the objects made by the builders: <<kind, name>> |-> manifest
          world,     \* what the operator does not make
          job,       \* the reconciliation of each owner, or Idle
          synced,    \* owners whose builders have all run on what is now in the API
                     \* server and the world
          agones,    \* what Agones reports on the Fleet or GameServer of each owner
          status,    \* the condition in the status of each owner: TRUE, FALSE or None
          keys,      \* forwarding keys that pods read when they started
          edits, events

vars == <<resource, objects, world, job, synced, agones, status, keys, edits, events>>

-----------------------------------------------------------------------------
(* The order of the builders in each reconcile function. *)

SecretKey == ForwardingSecretKey("cluster")

BuilderOrder ==
  [ cluster |-> << SecretKey,
                   <<"Service", HeadlessServiceName("cluster")>>,
                   <<"ServiceAccount", AccountName("cluster", "proxy")>>,
                   <<"Role", RoleName("cluster", "proxy")>>,
                   <<"RoleBinding", RoleName("cluster", "proxy")>>,
                   <<"ServiceAccount", AccountName("cluster", "server")>>,
                   <<"Role", RoleName("cluster", "server")>>,
                   <<"RoleBinding", RoleName("cluster", "server")>>,
                   <<"Service", RedisName("cluster")>>,
                   <<"StatefulSet", RedisName("cluster")>>,
                   <<"ConfigMap", ExternalServersName("cluster")>> >>,
    proxy |-> << <<"ConfigMap", ProxyConfigName("proxy")>>, <<"Service", <<"proxy">> >>,
                 <<"Fleet", <<"proxy">> >>, <<"FleetAutoscaler", <<"proxy">> >> >>,
    fleet |-> << <<"ConfigMap", ServerConfigName("fleet")>>, <<"Fleet", <<"fleet">> >>,
                 <<"FleetAutoscaler", <<"fleet">> >> >>,
    server |-> << <<"ConfigMap", ServerConfigName("server")>>, <<"GameServer", <<"server">> >> >> ]

(* The object that Agones runs pods from. *)
PodsKey == [ proxy |-> <<"Fleet", <<"proxy">> >>, fleet |-> <<"Fleet", <<"fleet">> >>,
             server |-> <<"GameServer", <<"server">> >> ]

RunsPods(o, key) == o \in WithPods /\ key = PodsKey[o]

(* What the builder of the Fleet or GameServer of an owner makes, Error if  *)
(* it cannot, from each state of the world, the cluster and the owner.      *)
(* This is a constant, so that TLC computes it once.                        *)
Built ==
  [ proxy |-> [w \in Worlds |-> [c \in Specs.cluster |-> [s \in Specs.proxy |->
                  ProxyFleetFleet(w, AgentConfig, c, "proxy", s, None)]]],
    fleet |-> [w \in Worlds |-> [c \in Specs.cluster |-> [s \in Specs.fleet |->
                  ServerFleetFleet(w, AgentConfig, c, "fleet", s, None)]]],
    server |-> [w \in Worlds |-> [c \in Specs.cluster |-> [s \in Specs.server |->
                  ServerGameServer(w, AgentConfig, "cluster", c, "server", s,
                                   [labels |-> <<>>, annotations |-> <<>>])]]] ]

Refused(o, s, cluster) == Built[o][world][cluster][s] = Error

ExistingSize(key) == IF key \in DOMAIN objects THEN objects[key].replicas ELSE None

(* The size of a Fleet also depends on the one that is there. *)
Sized(o, s, cluster) ==
    LET object == Built[o][world][cluster][s]
    IN  IF o = "server" THEN object
        ELSE [object EXCEPT !.replicas = Replicas(s, ExistingSize(PodsKey[o]))]

(* is_needed of the builders: what is not needed is deleted.                *)
Needed(s, key) ==
    CASE key \in {"Service", "StatefulSet"} \X {RedisName("cluster")} -> RedisManaged(s)
      [] key = <<"ConfigMap", ExternalServersName("cluster")>> -> HasExternalServers(s)
      [] key = <<"ConfigMap", ProxyConfigName("proxy")>> -> ProxyConfigMapNeeded(s)
      [] key = <<"Service", <<"proxy">> >> -> ServiceNeeded(s)
      [] key = <<"ConfigMap", ServerConfigName("server")>> -> ConfigMapNeeded(s)
      [] key[1] = "FleetAutoscaler" -> AutoscalerNeeded(s)
      [] OTHER -> TRUE

(* What the other builders make of their owner. *)
Plain(o, s, key) ==
    CASE o = "cluster" -> ClusterObject("cluster", s, key)
      [] o = "proxy" /\ key[1] = "ConfigMap" -> ProxyConfigMap("proxy", s)
      [] o = "proxy" /\ key[1] = "Service" -> ProxyService("proxy", s)
      [] o = "proxy" /\ key[1] = "FleetAutoscaler" -> ProxyFleetAutoscaler("proxy", s)
      [] o = "fleet" /\ key[1] = "ConfigMap" -> ServerFleetConfigMap("fleet", s)
      [] o = "fleet" /\ key[1] = "FleetAutoscaler" -> ServerFleetAutoscaler("fleet", s)
      [] o = "server" -> ServerConfigMap("server", s)

(* What a reconciliation asks for, given the owner and the cluster it read: *)
(* the key in the Secret and the size of a Fleet depend on what is there.   *)
Asked(o, s, cluster, new, key) ==
    IF key = SecretKey THEN ForwardingSecret("cluster", objects, new)
    ELSE IF RunsPods(o, key) THEN Sized(o, s, cluster)
    ELSE Plain(o, s, key)

-----------------------------------------------------------------------------

Idle == [step |-> 0]

Init ==
    /\ resource \in [ cluster : Optional(Specs.cluster), proxy : Optional(Specs.proxy),
                  fleet : Optional(Specs.fleet), server : Optional(Specs.server) ]
    /\ world \in Worlds
    /\ objects = <<>>
    /\ job = [o \in Owner |-> Idle]
    /\ synced = {}
    /\ agones = [o \in WithPods |-> None]
    /\ status = [o \in WithPods |-> None]
    /\ keys = {}
    /\ edits = 0 /\ events = 0

Running(o) == job[o].step > 0

(* A reconciliation reads the owner, and the cluster it names: without the  *)
(* cluster it ends with InvalidClusterRef and is retried.                   *)
Start(o) ==
    /\ ~Running(o)
    /\ resource[o] # None /\ resource["cluster"] # None
    /\ job' = [job EXCEPT ![o] = [step |-> 1, owner |-> resource[o], cluster |-> resource["cluster"],
                                  fresh |-> TRUE, seen |-> None]]
    /\ UNCHANGED <<resource, objects, world, synced, agones, status, keys, edits, events>>

(* reconcile_builder on the next builder: the object is applied, or deleted *)
(* if it is not needed.  The Fleet or GameServer comes back with its status.*)
Apply(o) ==
    /\ job[o].step \in DOMAIN BuilderOrder[o]
    /\ \E new \in Keys :
         LET key == BuilderOrder[o][job[o].step]
             s == job[o].owner
         IN  /\ RunsPods(o, key) => ~Refused(o, s, job[o].cluster)
             /\ objects' = IF Needed(s, key)
                           THEN With(objects, key, Asked(o, s, job[o].cluster, new, key))
                           ELSE [k \in DOMAIN objects \ {key} |-> objects[k]]
             /\ job' = [job EXCEPT
                   ![o].step = @ + 1,
                   ![o].seen = IF RunsPods(o, key) THEN agones[o] ELSE @]
    /\ UNCHANGED <<resource, world, synced, agones, status, keys, edits, events>>

(* Mutant: an error ends the controller of the owner. *)
NeverRequeued(o) ==
    /\ o \in WithPods
    /\ job[o].step \in DOMAIN BuilderOrder[o]
    /\ BuilderOrder[o][job[o].step] = PodsKey[o]
    /\ Refused(o, job[o].owner, job[o].cluster)
    /\ job' = [job EXCEPT ![o].step = Len(BuilderOrder[o]) + 2]
    /\ UNCHANGED <<resource, objects, world, synced, agones, status, keys, edits, events>>

(* A builder cannot build its object: the rest of the reconciliation is dropped. *)
Refuse(o) ==
    /\ o \in WithPods
    /\ job[o].step \in DOMAIN BuilderOrder[o]
    /\ BuilderOrder[o][job[o].step] = PodsKey[o]
    /\ Refused(o, job[o].owner, job[o].cluster)
    /\ job' = [job EXCEPT ![o] = Idle]
    /\ UNCHANGED <<resource, objects, world, synced, agones, status, keys, edits, events>>

(* A call to the API server fails, or the operator is restarted. *)
Fail(o) ==
    /\ Running(o) /\ events < MaxEvents
    /\ events' = events + 1
    /\ job' = [job EXCEPT ![o] = Idle]
    /\ UNCHANGED <<resource, objects, world, synced, agones, status, keys, edits>>

Available(o, seen) == IF o = "server" THEN seen \in {"Ready", "Allocated"} ELSE seen > 0

(* Mutant: a GameServer that is not ready yet counts as shut down. *)
NotReady(o, seen) == o = "server" /\ seen \in {"Scheduled", "Shutdown"}

ShutDown(o, seen) == o = "server" /\ seen = "Shutdown"

Done(o) == job[o].step = Len(BuilderOrder[o]) + 1

(* The status of a server takes the first port of its GameServer.           *)
Unwraps(o) ==
    o = "server" /\ ~ShutDown(o, job[o].seen) /\ job[o].seen # None /\ GameServerPorts = {}

(* Mutant: the condition is only ever set to true. *)
OnceAvailable(o) ==
    /\ Done(o)
    /\ o \in WithPods => ~ShutDown(o, job[o].seen) /\ ~Unwraps(o)
    /\ status' = IF o \notin WithPods \/ job[o].seen = None \/ ~Available(o, job[o].seen)
                 THEN status ELSE [status EXCEPT ![o] = TRUE]
    /\ synced' = IF job[o].fresh THEN synced \cup {o} ELSE synced
    /\ job' = [job EXCEPT ![o] = Idle]
    /\ UNCHANGED <<resource, objects, world, agones, keys, edits, events>>

(* The status of the owner is patched from the status that came back. *)
patch_status(o, available) == status' = [status EXCEPT ![o] = available]

Finish(o) ==
    /\ Done(o)
    /\ o \in WithPods => ~ShutDown(o, job[o].seen) /\ ~Unwraps(o)
    /\ IF o \notin WithPods \/ job[o].seen = None THEN UNCHANGED status
       ELSE patch_status(o, Available(o, job[o].seen))
    /\ synced' = IF job[o].fresh THEN synced \cup {o} ELSE synced
    /\ job' = [job EXCEPT ![o] = Idle]
    /\ UNCHANGED <<resource, objects, world, agones, keys, edits, events>>

(* There is none, and unwrap panics.  The operator polls its controllers in *)
(* one task, so that all of them end; the operator is then started again.   *)
Panic(o) ==
    /\ Done(o) /\ o \in WithPods /\ Unwraps(o)
    /\ synced' = IF job[o].fresh THEN synced \cup {o} ELSE synced
    /\ job' = [p \in Owner |-> Idle]
    /\ UNCHANGED <<resource, objects, world, agones, status, keys, edits, events>>

(* The MinecraftServer of a GameServer that was shut down is deleted, by name. *)
Delete(o) ==
    /\ Done(o) /\ o \in WithPods /\ ShutDown(o, job[o].seen)
    /\ resource' = [resource EXCEPT ![o] = None]
    /\ job' = [job EXCEPT ![o] = Idle]
    /\ synced' = synced \ {o}
    /\ status' = [status EXCEPT ![o] = None]
    /\ UNCHANGED <<objects, world, agones, keys, edits, events>>

-----------------------------------------------------------------------------
(* The environment. *)

(* What was read before is no longer what is there. *)
Outdated(owners) ==
    /\ synced' = synced \ owners
    /\ job' = [o \in Owner |-> IF o \in owners /\ Running(o)
                               THEN [job[o] EXCEPT !.fresh = FALSE] ELSE job[o]]

(* A user creates or edits a resource.  A change of the cluster concerns all. *)
Edit(o) ==
    /\ edits < MaxEdits
    /\ resource[o] = None => \A i \in DOMAIN BuilderOrder[o] : BuilderOrder[o][i] \notin DOMAIN objects
    /\ \E s \in Specs[o] \ {resource[o]} : resource' = [resource EXCEPT ![o] = s]
    /\ Outdated(IF o = "cluster" THEN Owner ELSE {o})
    /\ edits' = edits + 1
    /\ UNCHANGED <<objects, world, agones, status, keys, events>>

ChangeWorld ==
    /\ edits < MaxEdits
    /\ world' \in Worlds \ {world}
    /\ Outdated(WithPods)
    /\ edits' = edits + 1
    /\ UNCHANGED <<resource, objects, agones, status, keys, events>>

GameServerStates == {"Scheduled", "Ready", "Allocated", "Shutdown"}

Ended(o) == o = "server" /\ agones[o] = "Shutdown"

(* Agones reports the number of ready pods of a Fleet, or the state of a GameServer. *)
Report(o) ==
    /\ events < MaxEvents
    /\ PodsKey[o] \in DOMAIN objects /\ ~Ended(o)
    /\ \E r \in (IF o = "server" THEN GameServerStates ELSE 0..1) \ {agones[o]} :
         agones' = [agones EXCEPT ![o] = r]
    /\ events' = events + 1
    /\ UNCHANGED <<resource, objects, world, job, synced, status, keys, edits>>

(* A FleetAutoscaler changes the size of its Fleet. *)
Scale(o) ==
    /\ events < MaxEvents
    /\ <<"FleetAutoscaler", <<o>> >> \in DOMAIN objects
    /\ \E n \in (0..1) \ {objects[PodsKey[o]].replicas} :
         objects' = [objects EXCEPT ![PodsKey[o]].replicas = n]
    /\ events' = events + 1
    /\ UNCHANGED <<resource, world, job, synced, agones, status, keys, edits>>

(* A GameServer that was shut down is removed. *)
Remove(o) ==
    /\ Ended(o)
    /\ objects' = [k \in DOMAIN objects \ {PodsKey[o]} |-> objects[k]]
    /\ agones' = [agones EXCEPT ![o] = None]
    /\ UNCHANGED <<resource, world, job, synced, status, keys, edits, events>>

OwnedBy(o) == {BuilderOrder[o][i] : i \in DOMAIN BuilderOrder[o]} \cap DOMAIN objects

(* The objects of a resource that was deleted are collected. *)
Collect(o) ==
    /\ resource[o] = None /\ ~Running(o) /\ OwnedBy(o) # {}
    /\ objects' = [k \in DOMAIN objects \ OwnedBy(o) |-> objects[k]]
    /\ agones' = [agones EXCEPT ![o] = None]
    /\ UNCHANGED <<resource, world, job, synced, status, keys, edits, events>>

(* A pod starts, and reads the forwarding key. *)
StartPod(o) ==
    /\ PodsKey[o] \in DOMAIN objects /\ SecretKey \in DOMAIN objects
    /\ keys' = keys \cup {objects[SecretKey].data[SecretDataKey]}
    /\ UNCHANGED <<resource, objects, world, job, synced, agones, status, edits, events>>

Reconcile(o) == Start(o) \/ Apply(o) \/ Refuse(o) \/ Finish(o) \/ Panic(o) \/ Delete(o)

Next ==
    \/ \E o \in Owner : Reconcile(o) \/ Fail(o)
    \/ \E o \in Owner : Edit(o) \/ Collect(o)
    \/ ChangeWorld
    \/ \E o \in WithPods : Report(o) \/ Remove(o) \/ StartPod(o)
    \/ \E o \in {"proxy", "fleet"} : Scale(o)

Spec == Init /\ [][Next]_vars

(* Every owner is queued again: after a success in five minutes, after an   *)
(* error in five seconds.                                                   *)
Fairness == \A o \in Owner : WF_vars(Reconcile(o))

FairSpec == Spec /\ Fairness
-----------------------------------------------------------------------------

TypeOK ==
    /\ resource["cluster"] \in Optional(MinecraftClusterSpec)
    /\ resource["proxy"] # None => IsProxyFleetSpec(resource["proxy"])
    /\ resource["fleet"] # None => IsServerFleetSpec(resource["fleet"])
    /\ resource["server"] # None => IsServerSpec(resource["server"])
    /\ \A o \in {"proxy", "fleet"} :
          PodsKey[o] \in DOMAIN objects => objects[PodsKey[o]].replicas \in Nat
    /\ DOMAIN objects = UNION {OwnedBy(o) : o \in Owner}
    /\ \A o \in Owner : job[o].step \in 0..(Len(BuilderOrder[o]) + 1)
    /\ synced \subseteq Owner
    /\ keys \subseteq Keys
    /\ edits \in 0..MaxEdits /\ events \in 0..MaxEvents
=============================================================================
