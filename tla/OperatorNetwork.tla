---------------------------- MODULE OperatorNetwork ----------------------------
(***************************************************************************)
(* What the objects of a network must be to each other, once every         *)
(* resource was reconciled from what is in the API server: the manifests   *)
(* of one controller refer by name, label, key and port to those of        *)
(* another one, which was written from another resource at another time.   *)
(***************************************************************************)
EXTENDS Operator

Settled == \A o \in Owner : resource[o] # None => o \in synced

Deployed == {o \in WithPods : resource[o] # None /\ PodsKey[o] \in DOMAIN objects}

GameServerSpec(o) ==
    IF o = "server" THEN objects[PodsKey[o]].spec ELSE objects[PodsKey[o]].template.spec

Pod(o) == GameServerSpec(o).pod

(* Agones puts these labels on the GameServers. *)
GameServerLabels(o) ==
    IF o = "server" THEN objects[PodsKey[o]].labels ELSE objects[PodsKey[o]].template.metadata.labels

-----------------------------------------------------------------------------
(* What users are relied on for: the operator copies what they write, also  *)
(* over what it wrote itself, and names what they say is there.             *)

(* A fleet of servers names its cluster twice, in its template too.         *)
ASSUME OneClusterAssumption ==
    /\ \A o \in WithPods : \A s \in Specs[o] : s.cluster_ref = "cluster"
    /\ \A s \in Specs["fleet"] : s.template.cluster_ref = "cluster"

(* The labels of a template do not replace those of the operator. *)
ASSUME LabelsAssumption ==
    /\ \A s \in Specs["proxy"] : DOMAIN s.metadata.labels \cap DOMAIN ProxyLabels("proxy", s) = {}
    /\ \A s \in Specs["fleet"] : "component" \notin DOMAIN s.metadata.labels

RedisEnv == {"SHULKER_REDIS_HOST", "SHULKER_REDIS_PORT", "SHULKER_REDIS_USERNAME",
             "SHULKER_REDIS_PASSWORD", "SHULKER_CLUSTER_NAME"}

FromSecrets == {"SHULKER_REDIS_USERNAME", "SHULKER_REDIS_PASSWORD", "CFG_VELOCITY_FORWARDING_SECRET"}

PodOverrides(o, s) == IF o = "server" THEN s.pod_overrides ELSE s.template.pod_overrides

(* Nor do the variables of podOverrides. *)
ASSUME EnvAssumption ==
    \A o \in WithPods : \A s \in Specs[o] :
        DOMAIN PodOverrides(o, s).env \cap (RedisEnv \cup FromSecrets) = {}

ReservedVolumes(o) ==
    IF o = "proxy" THEN {"shulker-config", "shulker-forwarding-secret", "shulker-external-servers",
                         "proxy-data", "proxy-drain-lock", "proxy-tmp"}
    ELSE {"shulker-config", "server-config", "server-data", "server-tmp"}

ReservedPaths(o) ==
    IF o = "proxy" THEN {ForwardingSecretDir, ExternalServersDir, ProxyDataDir, DrainLockDir, <<"/tmp">>}
    ELSE {<<"/config">>, <<"/data">>, <<"/tmp">>}

(* Kubernetes takes no pod with two volumes of one name, two mounts on one  *)
(* path, or a mount of no volume; what a volume is made from exists.        *)
ASSUME VolumesAssumption ==
    \A o \in WithPods : \A s \in Specs[o] :
        LET po == PodOverrides(o, s) IN
        /\ \A v \in po.volumes :
              /\ v[1] \notin ReservedVolumes(o)
              /\ \/ v[2][1] = "emptyDir"
                 \/ v[2][1] = "configMap" /\ \A w \in Worlds : v[2][2] \in w.config_maps
        /\ \A m \in po.volume_mounts :
              m[2] \notin ReservedPaths(o) /\ \E v \in po.volumes : v[1] = m[1]

(* The ConfigMaps that resources name exist, and so does the Secret of a    *)
(* provided Redis, which does not have the name of the Service of the proxies. *)
ASSUME ExistingAssumption ==
    /\ \A w \in Worlds :
          /\ \A s \in Specs["proxy"] :
                s.template.config.existing_config_map_name \in Optional(w.config_maps)
          /\ \A s \in Specs["server"] : s.config.existing_config_map_name \in Optional(w.config_maps)
    /\ \A c \in Specs["cluster"] :
          ~RedisManaged(c) /\ c.redis.provided # None =>
              LET secret == c.redis.provided.credentials_secret_name IN
              /\ c.redis.provided.host # "proxy"
              /\ secret # None => \A w \in Worlds :
                    /\ <<Namespace, secret>> \in DOMAIN w.secrets
                    /\ {"username", "password"} \subseteq DOMAIN w.secrets[<<Namespace, secret>>]

-----------------------------------------------------------------------------
(* The scripts of shulker-operator/assets, with set -euo pipefail. *)

InitFiles(o, env) ==
    IF o = "proxy"
    THEN {"probe-readiness.sh", "server-icon.png",
          IF env["SHULKER_VERSION_CHANNEL"] = "Velocity" THEN "velocity-config.toml"
                                                         ELSE "bungeecord-config.yml"}
    ELSE {"server.properties", "bukkit-config.yml", "spigot-config.yml", "paper-global-config.yml"}

(* Where the script copies them to, which the server then reads. *)
InitTarget(o, env) ==
    IF o = "proxy" THEN env["SHULKER_PROXY_DATA_DIR"] ELSE env["SHULKER_SERVER_CONFIG_DIR"]

VolumeOf(mounts, path) == (CHOOSE m \in mounts : m[2] = path)[1]

InitSucceeds(o) ==
    LET pod == Pod(o)
        env == pod.init.env
        mounted(path) == \E m \in pod.init.mounts : m[2] = path
        name == VolumeOf(pod.init.mounts, env["SHULKER_CONFIG_DIR"])
        source == (CHOOSE v \in pod.volumes : v[1] = name)[2]
        user_provided == source[2] \in world.config_maps
    IN  /\ mounted(env["SHULKER_CONFIG_DIR"]) /\ mounted(InitTarget(o, env))
        /\ user_provided \/ <<"ConfigMap", source[2]>> \in DOMAIN objects
        /\ ~user_provided =>
              /\ InitFiles(o, env) \cup {"init-fs.sh"}
                    \subseteq DOMAIN objects[<<"ConfigMap", source[2]>>].data
              /\ pod.init.script = env["SHULKER_CONFIG_DIR"] \o <<"init-fs.sh">>
        /\ VolumeOf(pod.init.mounts, InitTarget(o, env))
              = VolumeOf(pod.container.mounts, InitTarget(o, env))

-----------------------------------------------------------------------------
(* Kubernetes keeps a pod waiting for whatever it names and is not there. *)

SecretHolds(name, key) ==
    \/ <<"Secret", name>> \in DOMAIN objects /\ key \in DOMAIN objects[<<"Secret", name>>].data
    \/ /\ Len(name) = 1 /\ <<Namespace, name[1]>> \in DOMAIN world.secrets
       /\ key \in DOMAIN world.secrets[<<Namespace, name[1]>>]

SourceExists(source) ==
    CASE source[1] = "emptyDir"  -> TRUE
      [] source[1] = "configMap" -> \/ <<"ConfigMap", source[2]>> \in DOMAIN objects
                                    \/ source[2] \in world.config_maps
      [] source[1] = "secret"    -> <<"Secret", source[2]>> \in DOMAIN objects

Scheduled(o) ==
    LET pod == Pod(o)
    IN  /\ \A m \in pod.init.mounts \cup pod.container.mounts : \E v \in pod.volumes : v[1] = m[1]
        /\ \A v \in pod.volumes : SourceExists(v[2])
        /\ \A v \in FromSecrets \cap DOMAIN pod.container.env :
              SecretHolds(pod.container.env[v][2], pod.container.env[v][3])
        /\ <<"ServiceAccount", pod.service_account>> \in DOMAIN objects
        /\ pod.subdomain # None => <<"Service", pod.subdomain>> \in DOMAIN objects

(* Every pod of a settled network can start: what it names was made by this *)
(* or by another controller, and its init script finds the files of its     *)
(* channel.  (ConfigMap, Fleet and cluster are written separately.)         *)
PodsStart == Settled => \A o \in Deployed : Scheduled(o) /\ InitSucceeds(o)

-----------------------------------------------------------------------------
(* The agents watch GameServers, the proxies also read Services; the Agones *)
(* sidecar updates its GameServer and records events.                       *)

Calls(o) ==
    ({"gameservers"} \X {"list", "watch", "update"}) \cup ({"events"} \X {"create", "patch"})
        \cup (IF o = "proxy" THEN {"services"} \X {"get", "list", "watch"} ELSE {})

GrantedTo(account) ==
    UNION { objects[<<"Role", objects[k].role_ref>>].rules :
            k \in {b \in DOMAIN objects : /\ b[1] = "RoleBinding"
                                          /\ account \in objects[b].subjects
                                          /\ <<"Role", objects[b].role_ref>> \in DOMAIN objects} }

(* The account of every pod is bound to a role that allows what runs in it. *)
PodsAuthorised == Settled => \A o \in Deployed : Calls(o) \subseteq GrantedTo(Pod(o).service_account)

-----------------------------------------------------------------------------

ListeningPort(o) ==
    LET data == objects[<<"ConfigMap", ProxyConfigName(o)>>].data
    IN  IF "velocity-config.toml" \in DOMAIN data THEN data["velocity-config.toml"].bind
        ELSE data["bungeecord-config.yml"].listener

(* The Service of the proxies leads to the proxies alone, on the port they  *)
(* listen on; and the informers of the agents tell servers from proxies.    *)
ProxiesReachable ==
    Settled /\ <<"Service", <<"proxy">> >> \in DOMAIN objects =>
        LET service == objects[<<"Service", <<"proxy">> >>]
        IN  /\ \A o \in Deployed : Selects(service.selector, Pod(o).labels) <=> o = "proxy"
            /\ \A o \in Deployed : GameServerLabels(o).component = "minecraft-server" <=> o # "proxy"
            /\ "proxy" \in Deployed /\ <<"ConfigMap", ProxyConfigName("proxy")>> \in DOMAIN objects =>
                  \A p \in service.ports :
                      <<p.target, ListeningPort("proxy")>> \in Pod("proxy").container.ports

Backend(o) == [v \in RedisEnv \cap DOMAIN Pod(o).container.env |-> Pod(o).container.env[v]]

(* The Secret and key that hold the forwarding key of a pod. *)
ForwardingSource(o) ==
    IF o = "proxy"
    THEN LET name == VolumeOf(Pod(o).container.mounts, ForwardingSecretDir)
         IN  <<(CHOOSE v \in Pod(o).volumes : v[1] = name)[2][2],
               VelocityToml(resource[o].template.config, resource[o].service).forwarding_secret_file[2]>>
    ELSE <<Pod(o).container.env["CFG_VELOCITY_FORWARDING_SECRET"][2],
           Pod(o).container.env["CFG_VELOCITY_FORWARDING_SECRET"][3]>>

(* A Redis that the operator manages runs behind the name the pods are given. *)
RedisServed(host, port) ==
    <<"Service", host>> \in DOMAIN objects =>
        LET service == objects[<<"Service", host>>]
        IN  \E k \in DOMAIN objects :
              /\ k[1] = "StatefulSet" /\ Selects(service.selector, objects[k].pod.labels)
              /\ \E p \in service.ports : p.port = port /\ p.target \in DOMAIN objects[k].pod.ports

(* All pods of a settled network share one Redis, one cluster name and one  *)
(* forwarding key, whatever controller and whichever version of the cluster *)
(* made them; and that Redis is the one of the cluster.                     *)
OneBackend ==
    Settled =>
        /\ \A o, p \in Deployed : Backend(o) = Backend(p) /\ ForwardingSource(o) = ForwardingSource(p)
        /\ \A o \in Deployed :
              /\ Backend(o)["SHULKER_CLUSTER_NAME"] = resource[o].cluster_ref
              /\ RedisServed(Backend(o)["SHULKER_REDIS_HOST"], Backend(o)["SHULKER_REDIS_PORT"])
              /\ RedisManaged(resource["cluster"]) =>
                    <<"Service", Backend(o)["SHULKER_REDIS_HOST"]>> \in DOMAIN objects

-----------------------------------------------------------------------------

(* All pods ever started hold the same forwarding key: no reconciliation of *)
(* the cluster, complete or not, replaces the key it finds.                 *)
OneForwardingKey == Cardinality(keys) <= 1

(* A MinecraftServer is deleted only when its GameServer is shut down or    *)
(* removed: never under a server that runs.                                 *)
DeletedAfterShutdown ==
    [][resource["server"] # None /\ resource'["server"] = None => agones["server"] \in {None, "Shutdown"}]_vars

Autoscaled(o) == Running(o) /\ job[o].owner.autoscaling # None

(* A reconciliation leaves the size of an autoscaled fleet to its autoscaler. *)
ScaleKept ==
    [][\A o \in {"proxy", "fleet"} :
          Autoscaled(o) /\ job'[o] # job[o] /\ PodsKey[o] \in DOMAIN objects =>
              objects'[PodsKey[o]].replicas = objects[PodsKey[o]].replicas]_vars

Buildable(o) ==
    /\ resource[o] # None /\ resource["cluster"] # None
    /\ o \in WithPods => ~Refused(o, resource[o], resource["cluster"])

(* No MinecraftServer has a GameServer on which Agones reports: where one   *)
(* has, each of its reconciliations ends the operator (Panic).              *)
NothingUnwrapped == agones["server"] \in {None, "Shutdown"}

(* Once users, the world and the failures are quiet, the builders of every  *)
(* resource that can be built have run on the last version of it and of its *)
(* cluster, for good; unless a server with a running GameServer keeps       *)
(* ending the operator.                                                     *)
Settles ==
    <>[]NothingUnwrapped => <>[](\A o \in Owner : Buildable(o) => o \in synced)

(* The condition in the status of a fleet ends up as what Agones reports,   *)
(* although it is read two calls before it is written; with the same        *)
(* exception.  The status of a server is never written (Panic).             *)
StatusFollows ==
    <>[]NothingUnwrapped =>
        <>[](\A o \in WithPods \ {"server"} :
                Buildable(o) /\ agones[o] # None => status[o] = Available(o, agones[o]))
=============================================================================
