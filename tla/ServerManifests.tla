--------------------------- MODULE ServerManifests ---------------------------
(***************************************************************************)
(* The objects that the operator makes for a MinecraftServer and for a     *)
(* MinecraftServerFleet: the builders of                                   *)
(* shulker-operator/src/reconcilers/minecraft_server and                   *)
(* minecraft_server_fleet.  The environment of a container is a function   *)
(* from names to values, because the last of several entries of one name   *)
(* counts; FromSecret is a value that Kubernetes reads from a Secret.      *)
(***************************************************************************)
EXTENDS ClusterManifests

FromSecret(name, key) == <<"secretKeyRef", name, key>>
ConfigMapSource(name) == <<"configMap", name>>
SecretSource(name) == <<"secret", name>>
EmptyDir == <<"emptyDir">>

Namespace == "default"     \* the namespace of the custom resources

(* An Option, or what replaces it. *)
OrElse(option, default) == IF option = None THEN default ELSE option

-----------------------------------------------------------------------------
(* The custom resources. *)

MinecraftServerVersion == {"Paper", "Folia", "Minestom"}

MinecraftServerVersionSpec ==
    [channel : MinecraftServerVersion, name : STRING, custom_jar : Optional(ResourceRefSpec)]

MinecraftServerConfigurationSpec ==
    [ existing_config_map_name : Optional(Seq(STRING)),
      world : Optional(ResourceRefSpec),
      plugins : Seq(ResourceRefSpec), patches : Seq(ResourceRefSpec),
      max_players : Nat, disable_nether : BOOLEAN, disable_end : BOOLEAN,
      proxy_forwarding_mode : {"Velocity", "BungeeCord"},
      lifecycle_strategy : {"AllocateWhenNotEmpty", "Manual"},
      skip_agent_download : BOOLEAN ]

GameServerHealthSpec ==
    [disabled : Optional(BOOLEAN), initial_delay_seconds : Optional(Nat),
     period_seconds : Optional(Nat), failure_threshold : Optional(Nat)]

ProbeOverrideSpec ==
    [initial_delay_seconds : Optional(Nat), period_seconds : Optional(Nat),
     timeout_seconds : Optional(Nat), failure_threshold : Optional(Nat),
     success_threshold : Optional(Nat)]

(* NoOverrides stands for an absent podOverrides: every part of it is None or empty. *)
NoOverrides ==
    [ image |-> None, pull_policy |-> None, image_pull_secrets |-> None, env |-> <<>>,
      resources |-> None, affinity |-> None, node_selector |-> None, tolerations |-> None,
      service_account_name |-> None, volume_mounts |-> {}, volumes |-> {}, ports |-> {},
      health |-> None, readiness_probe |-> None ]

IsServerSpec(s) ==
    /\ DOMAIN s = {"cluster_ref", "tags", "version", "config", "pod_overrides"}
    /\ s.cluster_ref \in STRING
    /\ s.tags \in SUBSET STRING
    /\ s.version \in MinecraftServerVersionSpec
    /\ s.config \in MinecraftServerConfigurationSpec
    /\ DOMAIN s.pod_overrides = DOMAIN NoOverrides
    /\ s.pod_overrides.health \in Optional(GameServerHealthSpec)
    /\ s.pod_overrides.readiness_probe \in Optional(ProbeOverrideSpec)

IsServerFleetSpec(f) ==
    /\ f.cluster_ref \in STRING
    /\ f.replicas \in Nat
    /\ DOMAIN f.metadata = {"labels", "annotations"}
    /\ IsServerSpec(f.template)
    /\ f.autoscaling \in Optional([agones_policy : Optional(STRING)])

-----------------------------------------------------------------------------
(* Labels. *)

MinecraftServerLabels(server, cluster_ref, name, component) ==
    [ name |-> name, instance |-> <<name, server>>, component |-> component,
      partOf |-> <<"cluster", cluster_ref>>, managedBy |-> "shulker-operator",
      cluster |-> cluster_ref ]

MinecraftServerFleetLabels(fleet, spec, name, component) ==
    [ name |-> name, instance |-> <<name, fleet>>, component |-> component,
      partOf |-> <<"cluster", spec.cluster_ref>>, managedBy |-> "shulker-operator",
      cluster |-> spec.cluster_ref, serverFleet |-> fleet ]

-----------------------------------------------------------------------------
(* The ConfigMap of a server: the files that its init script copies. *)

ServerConfigName(server) == <<server, "config">>

ConfigMapNeeded(spec) == spec.config.existing_config_map_name = None

(* A value that REPLACE_ENV_IN_PLACE fills in when the pod starts. *)
Placeholder(variable) == <<"${}", variable>>

VanillaProperties(config) ==
    [ max_players |-> config.max_players, allow_nether |-> ~config.disable_nether,
      online_mode |-> FALSE, prevent_proxy_connections |-> FALSE,
      enable_rcon |-> TRUE, rcon_password |-> Placeholder("CFG_RCON_PASSWORD") ]

BukkitYml(config) == [allow_end |-> ~config.disable_end, auto_updater |-> FALSE]

SpigotYml(config) ==
    [ bungeecord |-> config.proxy_forwarding_mode = "BungeeCord",
      restart_on_crash |-> FALSE, disable_saving |-> TRUE ]

PaperGlobalYml(config) ==
    [ bungee_online_mode |-> config.proxy_forwarding_mode = "BungeeCord",
      velocity_enabled |-> config.proxy_forwarding_mode = "Velocity",
      secret |-> Placeholder("CFG_VELOCITY_FORWARDING_SECRET"),
      enable_nether |-> ~config.disable_nether ]

get_data_from_spec(config) ==
       "init-fs.sh" :> <<"server-init-fs.sh">>
    @@ "server.properties" :> VanillaProperties(config)
    @@ "bukkit-config.yml" :> BukkitYml(config)
    @@ "spigot-config.yml" :> SpigotYml(config)
    @@ "paper-global-config.yml" :> PaperGlobalYml(config)

ServerConfigMap(server, spec) ==
    [ labels |-> MinecraftServerLabels(server, spec.cluster_ref, "config", "minecraft-server"),
      data |-> get_data_from_spec(spec.config) ]

-----------------------------------------------------------------------------
(* The GameServer of a server.  fleet is the owning fleet, or None.          *)

DefaultRconPassword == <<"shulker-internal-rcon">>

ServerConfigDir == <<"/mnt/shulker/config">>

get_type_from_version_channel(channel) == IF channel = "Folia" THEN "FOLIA" ELSE "PAPER"

(* The agent first, then the plugins of the spec. *)
get_plugin_urls(w, agent_config, spec) ==
    IfOk(resolve_all(w, Namespace, spec.config.plugins), LAMBDA plugins :
        IF spec.config.skip_agent_download \/ spec.version.channel = "Minestom" THEN plugins
        ELSE IfOk(get_agent_plugin_url(w, agent_config, "Server", "paper"),
                  LAMBDA agent : <<agent>> \o plugins))

(* An empty list of URLs is a variable that is not set: the script tests for it. *)
get_init_env(w, agent_config, spec) ==
    IfOk(IF spec.config.world = None THEN <<>> ELSE Url(w, Namespace, spec.config.world),
         LAMBDA world_url :
    IfOk(get_plugin_urls(w, agent_config, spec), LAMBDA plugins :
    IfOk(resolve_all(w, Namespace, spec.config.patches), LAMBDA patches :
        [ SHULKER_CONFIG_DIR |-> ServerConfigDir,
          SHULKER_SERVER_CONFIG_DIR |-> <<"/config">>,
          SHULKER_SERVER_DATA_DIR |-> <<"/data">>,
          SHULKER_VERSION_CHANNEL |-> spec.version.channel,
          SHULKER_SERVER_WORLD_URL |-> world_url,
          SHULKER_SERVER_PLUGIN_URLS |-> plugins,
          SHULKER_SERVER_PATCH_URLS |-> patches ])))

RedisCredentials(redis) ==
    IF redis.credentials_secret_name = None THEN <<>>
    ELSE [ SHULKER_REDIS_USERNAME |-> FromSecret(<<redis.credentials_secret_name>>, "username"),
           SHULKER_REDIS_PASSWORD |-> FromSecret(<<redis.credentials_secret_name>>, "password") ]

ServerJar(w, spec) ==
    IF spec.version.custom_jar # None
    THEN [TYPE |-> "CUSTOM", CUSTOM_SERVER |-> Url(w, Namespace, spec.version.custom_jar)]
    ELSE [ TYPE |-> get_type_from_version_channel(spec.version.channel),
           VERSION |-> spec.version.name ]

(* The entries of podOverrides come last, so they win. *)
get_env(w, c, cluster, spec, fleet) ==
    IfOk(RedisRef(c, cluster), LAMBDA redis :
    IfOk(AllOk(ServerJar(w, spec)), LAMBDA jar :
                spec.pod_overrides.env
             @@ jar
             @@ (IF fleet = None THEN <<>> ELSE [SHULKER_OWNING_FLEET_NAME |-> fleet])
             @@ RedisCredentials(redis)
             @@ [ SHULKER_CLUSTER_NAME |-> c,
                  SHULKER_REDIS_HOST |-> redis.host, SHULKER_REDIS_PORT |-> redis.port,
                  SHULKER_NETWORK_ADMINS |-> OrElse(cluster.network_admins, {}),
                  SHULKER_SERVER_LIFECYCLE_STRATEGY |-> spec.config.lifecycle_strategy,
                  SKIP_SERVER_PROPERTIES |-> TRUE, REPLACE_ENV_IN_PLACE |-> TRUE,
                  CFG_VELOCITY_FORWARDING_SECRET |->
                      FromSecret(ForwardingSecretName(spec.cluster_ref), SecretDataKey),
                  CFG_RCON_PASSWORD |-> DefaultRconPassword,
                  RCON_PASSWORD |-> DefaultRconPassword ]))

(* What podOverrides replaces or adds.  Neither service_account_name nor *)
(* readiness_probe is read.                                              *)
OverriddenContainer(container, po) ==
    [container EXCEPT !.image = OrElse(po.image, @), !.pull_policy = OrElse(po.pull_policy, @),
                      !.resources = OrElse(po.resources, @),
                      !.mounts = @ \cup po.volume_mounts, !.ports = @ \cup po.ports]

WithOverrides(pod, po) ==
    [pod EXCEPT
        !.container = OverriddenContainer(@, po),
        !.image_pull_secrets = OrElse(po.image_pull_secrets, @),
        !.affinity = OrElse(po.affinity, @),
        !.node_selector = OrElse(po.node_selector, @),
        !.tolerations = po.tolerations,
        !.volumes = @ \cup po.volumes]

ServerVolumes(server, spec) ==
    { <<"shulker-config", ConfigMapSource(OrElse(spec.config.existing_config_map_name,
                                                 ServerConfigName(server)))>>,
      <<"server-config", EmptyDir>>, <<"server-data", EmptyDir>>, <<"server-tmp", EmptyDir>> }

(* The labels of the pod are those of the server, where Shulker's own win. *)
get_pod_template_spec(w, agent_config, c, cluster, server, spec, fleet, metadata) ==
    IfOk(get_init_env(w, agent_config, spec), LAMBDA init_env :
    IfOk(get_env(w, c, cluster, spec, fleet), LAMBDA env :
        WithOverrides(
               [ init |-> [ script |-> ServerConfigDir \o <<"init-fs.sh">>,
                            env |-> init_env,
                            mounts |-> { <<"shulker-config", ServerConfigDir>>,
                                         <<"server-config", <<"/config">> >> } ],
                 container |-> [ image |-> "itzg/minecraft-server", pull_policy |-> "IfNotPresent",
                                 env |-> env, ports |-> {<<"minecraft", 25565>>},
                                 resources |-> None, probe |-> None,
                                 mounts |-> { <<"server-config", <<"/config">> >>,
                                              <<"server-data", <<"/data">> >>,
                                              <<"server-tmp", <<"/tmp">> >> } ],
                 volumes |-> ServerVolumes(server, spec),
                 subdomain |-> HeadlessServiceName(spec.cluster_ref),
                 service_account |-> AccountName(spec.cluster_ref, "server"),
                 image_pull_secrets |-> None, affinity |-> None, node_selector |-> None,
                 tolerations |-> None,
                 labels |-> MinecraftServerLabels(server, spec.cluster_ref,
                                "minecraft-server", "minecraft-server") @@ metadata.labels,
                 annotations |-> metadata.annotations ],
               spec.pod_overrides)))

MergedHealth(health, default) ==
    IF health = None THEN default ELSE [f \in DOMAIN default |-> OrElse(health[f], default[f])]

ServerDefaultHealth ==
    [disabled |-> FALSE, initial_delay_seconds |-> 30, period_seconds |-> 15,
     failure_threshold |-> 5]

(* The ports that Agones is asked for, of which a GameServer reports each. *)
GameServerPorts == {}

get_game_server_spec(w, agent_config, c, cluster, server, spec, fleet, metadata) ==
    IfOk(get_pod_template_spec(w, agent_config, c, cluster, server, spec, fleet, metadata),
         LAMBDA pod : [ health |-> MergedHealth(spec.pod_overrides.health, ServerDefaultHealth),
                        eviction |-> "OnUpgrade", ports |-> GameServerPorts, pod |-> pod ])

validate_spec(spec) == spec.version.channel = "Minestom" => spec.version.custom_jar # None

(* metadata is what the user wrote on the MinecraftServer. *)
ServerGameServer(w, agent_config, c, cluster, server, spec, metadata) ==
    IF ~validate_spec(spec) THEN Error
    ELSE IfOk(get_game_server_spec(w, agent_config, c, cluster, server, spec, None, metadata),
              LAMBDA game_server :
                  [ labels |-> MinecraftServerLabels(server, spec.cluster_ref,
                                   "minecraft-server", "minecraft-server"),
                    annotations |-> [tags |-> spec.tags],
                    spec |-> game_server ])

-----------------------------------------------------------------------------
(* The objects of a fleet of servers. *)

(* Always made, whether or not the template names another ConfigMap. *)
ServerFleetConfigMap(fleet, spec) ==
    [ labels |-> MinecraftServerFleetLabels(fleet, spec, "config", "minecraft-server"),
      data |-> get_data_from_spec(spec.template.config) ]

(* Mutants: no size without a Fleet to take it from; the size of the resource. *)
UnsetReplicas(spec, existing) == IF spec.autoscaling = None THEN spec.replicas ELSE existing

SpecReplicas(spec, existing) == spec.replicas

(* existing is the size of the Fleet that is there, if there is one. *)
Replicas(spec, existing) ==
    IF spec.autoscaling = None THEN spec.replicas ELSE OrElse(existing, 0)

(* Labels and annotations of the template, where the user's win. *)
ServerTemplateMetadata(fleet, spec) ==
    [ labels |-> spec.metadata.labels
                 @@ MinecraftServerFleetLabels(fleet, spec, "minecraft-server", "minecraft-server"),
      annotations |-> spec.metadata.annotations @@ [tags |-> spec.template.tags] ]

(* The template is built like a server with the name of the fleet. *)
ServerFleetFleet(w, agent_config, cluster, fleet, spec, existing) ==
    LET metadata == ServerTemplateMetadata(fleet, spec)
        fake == [spec.template EXCEPT !.config.existing_config_map_name = ServerConfigName(fleet)]
    IN  IfOk(get_game_server_spec(w, agent_config, spec.cluster_ref, cluster,
                                  fleet, fake, fleet, metadata),
             LAMBDA game_server :
                 [ labels |-> MinecraftServerFleetLabels(fleet, spec,
                                  "minecraft-server", "minecraft-server"),
                   replicas |-> Replicas(spec, existing),
                   strategy |-> "Recreate",
                   template |-> [metadata |-> metadata, spec |-> game_server] ])

AutoscalerNeeded(spec) == spec.autoscaling # None /\ spec.autoscaling.agones_policy # None

ServerFleetAutoscaler(fleet, spec) ==
    [ labels |-> MinecraftServerFleetLabels(fleet, spec, "fleet-autoscaler", "minecraft-server"),
      fleet_name |-> fleet,
      policy |-> spec.autoscaling.agones_policy ]
=============================================================================
