--------------------------- MODULE ClusterManifests ---------------------------
(***************************************************************************)
(* The objects that the operator makes for a MinecraftCluster: the         *)
(* builders of shulker-operator/src/reconcilers/minecraft_cluster, and the *)
(* reference to Redis that the pods are given.  A manifest is reduced to   *)
(* what other objects and the agents depend on: names, labels, selectors,  *)
(* keys, ports, permissions.                                               *)
(***************************************************************************)
EXTENDS Resources

MinecraftClusterRedisProvidedSpec ==
    [ host : STRING, port : Nat, credentials_secret_name : Optional(STRING) ]

MinecraftClusterRedisSpec ==
    [ type_ : {"ManagedSingleNode", "Provided"},
      provided : Optional(MinecraftClusterRedisProvidedSpec) ]

MinecraftClusterSpec ==
    [ network_admins : Optional(SUBSET STRING),
      redis : Optional(MinecraftClusterRedisSpec),
      external_servers : SUBSET STRING ]

(* get_labels of MinecraftClusterReconciler. *)
ClusterLabels(c, name, component) ==
    [ name |-> name, instance |-> <<name, c>>, component |-> component,
      partOf |-> <<"cluster", c>>, managedBy |-> "shulker-operator", cluster |-> c ]

Selects(selector, labels) ==
    \A k \in DOMAIN selector : k \in DOMAIN labels /\ labels[k] = selector[k]

-----------------------------------------------------------------------------
(* Names, as the clusters and their fleets and servers compute them. *)

ForwardingSecretName(c) == <<c, "forwarding-secret">>
ForwardingSecretKey(c) == <<"Secret", ForwardingSecretName(c)>>
HeadlessServiceName(c) == <<c, "cluster">>
AccountName(c, side) == <<"shulker", c, side>>
RoleName(c, side) == <<"shulker:", c, side>>
RedisName(c) == <<c, "redis-managed">>
ExternalServersName(c) == <<c, "external-servers">>

-----------------------------------------------------------------------------
(* The builders, in the order of the reconciler.  old are the objects in    *)
(* the API server.                                                          *)

SecretDataKey == "key"

(* Mutant: each reconciliation makes a key. *)
AlwaysNew(c, old, new) == new

(* The key survives as long as its Secret is there and holds one. *)
get_existing_or_new_forwarding_secret(c, old, new) ==
    LET secret == ForwardingSecretKey(c)
    IN  IF secret \in DOMAIN old /\ SecretDataKey \in DOMAIN old[secret].data
        THEN old[secret].data[SecretDataKey] ELSE new

ForwardingSecret(c, old, new) ==
    [ labels |-> ClusterLabels(c, "forwarding-secret", "proxy"),
      data |-> [key \in {SecretDataKey} |-> get_existing_or_new_forwarding_secret(c, old, new)] ]

HeadlessService(c) ==
    [ labels |-> ClusterLabels(c, "service", "minecraft-server-headless"),
      selector |-> [cluster |-> c], ports |-> {} ]

ProxyServiceAccount(c) ==
    [ labels |-> ClusterLabels(c, "service-account", "proxy-rbac") ]

MinecraftServerServiceAccount(c) ==
    [ labels |-> ClusterLabels(c, "service-account", "minecraft-server-rbac") ]

GameServerVerbs == {"list", "watch", "update", "patch"}

(* Mutant: the proxies may not look the Services up. *)
GameServersOnly(c) ==
    [ labels |-> ClusterLabels(c, "role", "proxy-rbac"),
      rules |-> ({"gameservers"} \X GameServerVerbs) \cup ({"events"} \X {"create", "patch"}) ]

ProxyRole(c) ==
    [ labels |-> ClusterLabels(c, "role", "proxy-rbac"),
      rules |-> ({"gameservers"} \X GameServerVerbs)
           \cup ({"services"} \X {"list", "get", "watch"})
           \cup ({"events"} \X {"create", "patch"}) ]

MinecraftServerRole(c) ==
    [ labels |-> ClusterLabels(c, "role", "minecraft-server-rbac"),
      rules |-> ({"gameservers"} \X GameServerVerbs)
           \cup ({"events"} \X {"create", "patch"}) ]

ProxyRoleBinding(c) ==
    [ labels |-> ClusterLabels(c, "role-binding", "proxy-rbac"),
      role_ref |-> RoleName(c, "proxy"),
      subjects |-> {AccountName(c, "proxy")} ]

MinecraftServerRoleBinding(c) ==
    [ labels |-> ClusterLabels(c, "role-binding", "mincraft-server-rbac"),
      role_ref |-> RoleName(c, "server"),
      subjects |-> {AccountName(c, "server")} ]

RedisManaged(spec) == spec.redis = None \/ spec.redis.type_ = "ManagedSingleNode"

RedisService(c) ==
    [ labels |-> ClusterLabels(c, "redis", "redis"),
      selector |-> ClusterLabels(c, "redis", "redis"),
      ports |-> {[port |-> 6379, target |-> "redis"]} ]

(* Its pod mounts the volume that the claim template "data" makes. *)
RedisStatefulSet(c) ==
    [ labels |-> ClusterLabels(c, "redis", "redis"),
      selector |-> ClusterLabels(c, "redis", "redis"),
      service |-> RedisName(c),
      replicas |-> 1,
      claims |-> {"data"},
      pod |-> [ labels |-> ClusterLabels(c, "redis", "redis"),
                ports |-> [redis |-> 6379],
                mounts |-> [data |-> <<"/data">>] ] ]

HasExternalServers(spec) == spec.external_servers # {}

ExternalServersConfigMap(c, spec) ==
    [ labels |-> ClusterLabels(c, "external-servers", "proxy"),
      data |-> "external-servers.yaml" :> spec.external_servers ]

-----------------------------------------------------------------------------

(* Mutant: the settings of a provided Redis are used whatever the type says. *)
ProvidedFirst(c, spec) ==
    IF spec.redis = None \/ spec.redis.provided = None
    THEN [host |-> RedisName(c), port |-> 6379, credentials_secret_name |-> None]
    ELSE [ host |-> <<spec.redis.provided.host>>, port |-> spec.redis.provided.port,
           credentials_secret_name |-> spec.redis.provided.credentials_secret_name ]

(* RedisRef::from_cluster: what every pod is told about Redis. *)
RedisRef(c, spec) ==
    IF RedisManaged(spec)
    THEN [host |-> RedisName(c), port |-> 6379, credentials_secret_name |-> None]
    ELSE IF spec.redis.provided = None THEN Error
    ELSE [ host |-> <<spec.redis.provided.host>>, port |-> spec.redis.provided.port,
           credentials_secret_name |-> spec.redis.provided.credentials_secret_name ]

(* What the builders make of the cluster, but for the Secret.               *)
ClusterObject(c, spec, key) ==
    CASE key = <<"Service", HeadlessServiceName(c)>> -> HeadlessService(c)
      [] key = <<"ServiceAccount", AccountName(c, "proxy")>> -> ProxyServiceAccount(c)
      [] key = <<"Role", RoleName(c, "proxy")>> -> ProxyRole(c)
      [] key = <<"RoleBinding", RoleName(c, "proxy")>> -> ProxyRoleBinding(c)
      [] key = <<"ServiceAccount", AccountName(c, "server")>> -> MinecraftServerServiceAccount(c)
      [] key = <<"Role", RoleName(c, "server")>> -> MinecraftServerRole(c)
      [] key = <<"RoleBinding", RoleName(c, "server")>> -> MinecraftServerRoleBinding(c)
      [] key = <<"Service", RedisName(c)>> -> RedisService(c)
      [] key = <<"StatefulSet", RedisName(c)>> -> RedisStatefulSet(c)
      [] key = <<"ConfigMap", ExternalServersName(c)>> -> ExternalServersConfigMap(c, spec)
=============================================================================
