--------------------------- MODULE ProxyManifests ---------------------------
(***************************************************************************)
(* The objects that the operator makes for a ProxyFleet: the builders of   *)
(* shulker-operator/src/reconcilers/proxy_fleet.                           *)
(***************************************************************************)
EXTENDS ServerManifests

-----------------------------------------------------------------------------
(* The custom resource. *)

ProxyFleetTemplateVersion == {"Velocity", "BungeeCord", "Waterfall"}

ProxyFleetTemplateConfigurationSpec ==
    [ existing_config_map_name : Optional(Seq(STRING)),
      plugins : Seq(ResourceRefSpec), patches : Seq(ResourceRefSpec),
      max_players : Nat, proxy_protocol : BOOLEAN, ttl_seconds : Nat,
      players_delta_before_exclusion : Nat, skip_agent_download : BOOLEAN ]

ProxyFleetServiceType == {"ClusterIP", "NodePort", "LoadBalancer"}

ProxyFleetServiceSpec ==
    [ type_ : ProxyFleetServiceType,
      external_traffic_policy : Optional({"Cluster", "Local"}),
      preferred_reconnection_address : Optional(STRING) ]

IsProxyFleetSpec(f) ==
    /\ f.cluster_ref \in STRING
    /\ f.replicas \in Nat
    /\ DOMAIN f.metadata = {"labels", "annotations"}
    /\ f.template.version \in [channel : ProxyFleetTemplateVersion, name : STRING]
    /\ f.template.config \in ProxyFleetTemplateConfigurationSpec
    /\ DOMAIN f.template.pod_overrides = DOMAIN NoOverrides
    /\ f.template.pod_overrides.readiness_probe \in Optional(ProbeOverrideSpec)
    /\ f.service \in Optional(ProxyFleetServiceSpec)
    /\ f.autoscaling \in Optional([agones_policy : Optional(STRING)])

-----------------------------------------------------------------------------

ProxyFleetLabels(fleet, spec, name, component) ==
    [ name |-> name, instance |-> <<name, fleet>>, component |-> component,
      partOf |-> <<"cluster", spec.cluster_ref>>, managedBy |-> "shulker-operator",
      cluster |-> spec.cluster_ref, proxyFleet |-> fleet ]

(* The labels of the pods of the fleet, and the selector of its Service. *)
ProxyLabels(fleet, spec) == ProxyFleetLabels(fleet, spec, "proxy", "proxy")

-----------------------------------------------------------------------------
(* The ConfigMap. *)

ProxyConfigName(fleet) == <<fleet, "config">>

ProxyConfigMapNeeded(spec) == spec.template.config.existing_config_map_name = None

DisallowProxyConnections(service) ==
    service # None /\ service.type_ \in {"LoadBalancer", "NodePort"}

VelocityToml(config, service) ==
    [ bind |-> 25577, show_max_players |-> config.max_players, online_mode |-> TRUE,
      prevent_client_proxy_connections |-> DisallowProxyConnections(service),
      player_info_forwarding_mode |-> "modern",
      forwarding_secret_file |-> <<"/mnt/shulker/forwarding-secret", "key">>,
      haproxy_protocol |-> config.proxy_protocol ]

BungeeCordYml(config, service) ==
    [ listener |-> 25577, max_players |-> config.max_players, online_mode |-> TRUE,
      ip_forward |-> TRUE,
      prevent_proxy_connections |-> DisallowProxyConnections(service),
      proxy_protocol |-> config.proxy_protocol ]

(* Mutant: Waterfall and BungeeCord are given the file of Velocity. *)
VelocityOnly(spec) ==
       "init-fs.sh" :> <<"proxy-init-fs.sh">>
    @@ "probe-readiness.sh" :> <<"proxy-probe-readiness.sh">>
    @@ "server-icon.png" :> <<"icon">>
    @@ "velocity-config.toml" :> VelocityToml(spec.template.config, spec.service)

ProxyConfigData(spec) ==
       "init-fs.sh" :> <<"proxy-init-fs.sh">>
    @@ "probe-readiness.sh" :> <<"proxy-probe-readiness.sh">>
    @@ "server-icon.png" :> <<"icon">>
    @@ (IF spec.template.version.channel = "Velocity"
        THEN "velocity-config.toml" :> VelocityToml(spec.template.config, spec.service)
        ELSE "bungeecord-config.yml" :> BungeeCordYml(spec.template.config, spec.service))

ProxyConfigMap(fleet, spec) ==
    [ labels |-> ProxyFleetLabels(fleet, spec, "config", "proxy"),
      data |-> ProxyConfigData(spec) ]

-----------------------------------------------------------------------------
(* The Service. *)

ServiceNeeded(spec) == spec.service # None

(* Mutant: the Service selects all pods of the cluster. *)
ClusterWide(fleet, spec) ==
    [ labels |-> ProxyLabels(fleet, spec),
      selector |-> [cluster |-> spec.cluster_ref],
      type |-> spec.service.type_,
      external_traffic_policy |-> spec.service.external_traffic_policy,
      ports |-> {[port |-> 25565, target |-> "minecraft"]} ]

ProxyService(fleet, spec) ==
    [ labels |-> ProxyLabels(fleet, spec),
      selector |-> ProxyLabels(fleet, spec),
      type |-> spec.service.type_,
      external_traffic_policy |-> spec.service.external_traffic_policy,
      ports |-> {[port |-> 25565, target |-> "minecraft"]} ]

-----------------------------------------------------------------------------
(* The Fleet. *)

ProxyConfigDir == <<"/mnt/shulker/config">>
ProxyDataDir == <<"/server">>
ForwardingSecretDir == <<"/mnt/shulker/forwarding-secret">>
ExternalServersDir == <<"/mnt/shulker/external-servers">>
DrainLockDir == <<"/mnt/drain-lock">>

ProxyAgentPlatform(channel) == IF channel = "Velocity" THEN "velocity" ELSE "bungeecord"

ProxyPluginUrls(w, agent_config, spec) ==
    IfOk(resolve_all(w, Namespace, spec.template.config.plugins), LAMBDA plugins :
        IF spec.template.config.skip_agent_download THEN plugins
        ELSE IfOk(get_agent_plugin_url(w, agent_config, "Proxy",
                                       ProxyAgentPlatform(spec.template.version.channel)),
                  LAMBDA agent : <<agent>> \o plugins))

ProxyInitEnv(w, agent_config, spec) ==
    IfOk(ProxyPluginUrls(w, agent_config, spec), LAMBDA plugins :
    IfOk(resolve_all(w, Namespace, spec.template.config.patches), LAMBDA patches :
        [ SHULKER_CONFIG_DIR |-> ProxyConfigDir,
          SHULKER_PROXY_DATA_DIR |-> ProxyDataDir,
          SHULKER_VERSION_CHANNEL |-> spec.template.version.channel,
          SHULKER_PROXY_PLUGIN_URLS |-> plugins,
          SHULKER_PROXY_PATCH_URLS |-> patches ]))

VersionVariable == [Velocity |-> "VELOCITY_BUILD_ID", BungeeCord |-> "BUNGEE_JOB_ID",
                    Waterfall |-> "WATERFALL_BUILD_ID"]

ProxyType == [Velocity |-> "VELOCITY", BungeeCord |-> "BUNGEECORD", Waterfall |-> "WATERFALL"]

ProxyEnv(cluster, fleet, spec) ==
    LET config == spec.template.config
        version == spec.template.version
    IN  IfOk(RedisRef(spec.cluster_ref, cluster), LAMBDA redis :
                spec.template.pod_overrides.env
             @@ RedisCredentials(redis)
             @@ (IF spec.service = None \/ spec.service.preferred_reconnection_address = None
                 THEN <<>>
                 ELSE [SHULKER_PROXY_PREFERRED_RECONNECT_ADDRESS |->
                            spec.service.preferred_reconnection_address])
             @@ (IF cluster.network_admins = None THEN <<>>
                 ELSE [SHULKER_NETWORK_ADMINS |-> cluster.network_admins])
             @@ [ SHULKER_CLUSTER_NAME |-> spec.cluster_ref,
                  SHULKER_OWNING_FLEET_NAME |-> fleet,
                  SHULKER_REDIS_HOST |-> redis.host, SHULKER_REDIS_PORT |-> redis.port,
                  SHULKER_PROXY_TTL_SECONDS |-> config.ttl_seconds,
                  SHULKER_PROXY_PLAYER_DELTA_BEFORE_EXCLUSION |->
                      config.players_delta_before_exclusion,
                  TYPE |-> ProxyType[version.channel],
                  HEALTH_USE_PROXY |-> config.proxy_protocol ]
             @@ VersionVariable[version.channel] :> version.name)

ProxyVolumes(cluster, fleet, spec) ==
    { <<"shulker-config",
        ConfigMapSource(OrElse(spec.template.config.existing_config_map_name,
                               ProxyConfigName(fleet)))>>,
      <<"shulker-forwarding-secret", SecretSource(ForwardingSecretName(spec.cluster_ref))>>,
      <<"proxy-data", EmptyDir>>, <<"proxy-drain-lock", EmptyDir>>, <<"proxy-tmp", EmptyDir>> }
    \cup (IF HasExternalServers(cluster)
          THEN {<<"shulker-external-servers",
                  ConfigMapSource(ExternalServersName(spec.cluster_ref))>>} ELSE {})

(* Mutant: the external servers are mounted even if there are none. *)
AlwaysMounted(cluster) ==
    { <<"shulker-forwarding-secret", ForwardingSecretDir>>, <<"proxy-data", ProxyDataDir>>,
      <<"proxy-drain-lock", DrainLockDir>>, <<"proxy-tmp", <<"/tmp">> >>,
      <<"shulker-external-servers", ExternalServersDir>> }

ProxyMounts(cluster) ==
    { <<"shulker-forwarding-secret", ForwardingSecretDir>>, <<"proxy-data", ProxyDataDir>>,
      <<"proxy-drain-lock", DrainLockDir>>, <<"proxy-tmp", <<"/tmp">> >> }
    \cup (IF HasExternalServers(cluster)
          THEN {<<"shulker-external-servers", ExternalServersDir>>} ELSE {})

merged_over(override, base) == [f \in DOMAIN base |-> OrElse(override[f], base[f])]

resolve_readiness_probe(override) ==
    LET hardcoded_default ==
            [ initial_delay_seconds |-> 10, period_seconds |-> 10, timeout_seconds |-> 5,
              failure_threshold |-> 3, success_threshold |-> 1 ]
    IN  IF override = None THEN hardcoded_default ELSE merged_over(override, hardcoded_default)

ReadinessProbe(po) ==
    [ command |-> ProxyDataDir \o <<"probe-readiness.sh">>,
      timing |-> resolve_readiness_probe(po.readiness_probe) ]

ProxyOverrides(pod, po) == WithOverrides(pod, po)

(* Here the labels of the user win over those of Shulker. *)
ProxyPodTemplate(w, agent_config, cluster, fleet, spec) ==
    LET po == spec.template.pod_overrides IN
    IfOk(ProxyInitEnv(w, agent_config, spec), LAMBDA init_env :
    IfOk(ProxyEnv(cluster, fleet, spec), LAMBDA env :
        ProxyOverrides(
               [ init |-> [ script |-> ProxyConfigDir \o <<"init-fs.sh">>,
                            env |-> init_env,
                            mounts |-> { <<"shulker-config", ProxyConfigDir>>,
                                         <<"proxy-data", ProxyDataDir>> } ],
                 container |-> [ image |-> "itzg/mc-proxy", pull_policy |-> "IfNotPresent",
                                 env |-> env, ports |-> {<<"minecraft", 25577>>},
                                 resources |-> None, probe |-> ReadinessProbe(po),
                                 mounts |-> ProxyMounts(cluster) ],
                 volumes |-> ProxyVolumes(cluster, fleet, spec),
                 subdomain |-> None,
                 service_account |-> AccountName(spec.cluster_ref, "proxy"),
                 image_pull_secrets |-> None, affinity |-> None, node_selector |-> None,
                 tolerations |-> None,
                 labels |-> spec.metadata.labels @@ ProxyLabels(fleet, spec),
                 annotations |-> spec.metadata.annotations ],
               po)))

ProxyDefaultHealth ==
    [disabled |-> FALSE, initial_delay_seconds |-> 30, period_seconds |-> 10,
     failure_threshold |-> 5]

ProxyGameServerSpec(w, agent_config, cluster, fleet, spec) ==
    IfOk(ProxyPodTemplate(w, agent_config, cluster, fleet, spec), LAMBDA pod :
        [ health |-> MergedHealth(spec.template.pod_overrides.health, ProxyDefaultHealth),
          eviction |-> "OnUpgrade", pod |-> pod ])

ProxyFleetFleet(w, agent_config, cluster, fleet, spec, existing) ==
    IfOk(ProxyGameServerSpec(w, agent_config, cluster, fleet, spec), LAMBDA game_server :
        [ labels |-> ProxyLabels(fleet, spec),
          replicas |-> Replicas(spec, existing),
          strategy |-> "RollingUpdate",
          template |-> [ metadata |-> [ labels |-> game_server.pod.labels,
                                        annotations |-> game_server.pod.annotations ],
                         spec |-> game_server ] ])

ProxyFleetAutoscaler(fleet, spec) ==
    [ labels |-> ProxyFleetLabels(fleet, spec, "fleet-autoscaler", "proxy"),
      fleet_name |-> fleet,
      policy |-> spec.autoscaling.agones_policy ]
=============================================================================
