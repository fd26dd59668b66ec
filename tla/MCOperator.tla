------------------------------ MODULE MCOperator ------------------------------
(* Instances of the operator: a few resources that exercise every branch of *)
(* the builders.                                                            *)
EXTENDS OperatorNetwork

CONSTANTS k1, k2

MCKeys == {k1, k2}
OneKey == {k1}

(* The keys are random: nothing tells one from another. *)
T == INSTANCE TLC
KeySymmetry == T!Permutations(MCKeys)

Maven(artifact, snapshot, classifier, secret) ==
    [ url |-> None,
      url_from |-> [maven_ref |->
          [ repository_url |-> "repo", group_id |-> "io.shulkermc", artifact_id |-> artifact,
            version |-> [name |-> IF snapshot THEN "1-SNAPSHOT" ELSE "1", snapshot |-> snapshot],
            classifier |-> classifier, credentials_secret_name |-> secret ]] ]

AnUrl == [url |-> "https://host/file.jar", url_from |-> None]

MCAgentConfig ==
    [maven_repository |-> "repo", version |-> [name |-> "1-SNAPSHOT", snapshot |-> TRUE]]

Listed(updated) == [extension |-> "jar", value |-> "1-2", updated |-> updated, classifier |-> None]

AgentPath(side) == <<"repo", "io.shulkermc", get_artifact_name(side), "1-SNAPSHOT">>

Login == [username |-> "user", password |-> "pass"]

(* The repository lists the private plugin to those who log in, or is down. *)
ARepository(answer) ==
    [ secrets |-> <<"default", "redis-login">> :> Login @@ <<"default", "maven-login">> :> Login,
      maven |-> AgentPath("Proxy") :> [credentials |-> None, answer |-> <<Listed(1), Listed(2)>>]
             @@ AgentPath("Server") :> [credentials |-> None, answer |-> None]
             @@ <<"repo", "io.shulkermc", "plugin", "1-SNAPSHOT">> :>
                    [credentials |-> Login, answer |-> answer],
      config_maps |-> {<<"mine">>} ]

Up == ARepository(<<Listed(1)>>)
Down == ARepository(Error)

-----------------------------------------------------------------------------

Bare == [network_admins |-> None, redis |-> None, external_servers |-> {}]

Full == [ network_admins |-> {"admin"},
          redis |-> [ type_ |-> "Provided",
                      provided |-> [ host |-> "redis", port |-> 6380,
                                     credentials_secret_name |-> "redis-login" ] ],
          external_servers |-> {"lobby"} ]

(* A managed Redis, and the settings of one that is not used. *)
Managed == [Full EXCEPT !.redis.type_ = "ManagedSingleNode"]

Broken == [Bare EXCEPT !.redis = [type_ |-> "Provided", provided |-> None]]

NoLabels == [labels |-> <<>>, annotations |-> <<>>]

Velocity ==
    [ cluster_ref |-> "cluster", replicas |-> 1, metadata |-> NoLabels,
      template |-> [ version |-> [channel |-> "Velocity", name |-> "3"],
                     config |-> [ existing_config_map_name |-> None, plugins |-> <<>>,
                                  patches |-> <<>>, max_players |-> 100, proxy_protocol |-> FALSE,
                                  ttl_seconds |-> 60, players_delta_before_exclusion |-> 5,
                                  skip_agent_download |-> FALSE ],
                     pod_overrides |-> NoOverrides ],
      service |-> None, autoscaling |-> None ]

Bungee ==
    [Velocity EXCEPT
        !.template.version.channel = "BungeeCord",
        !.template.config.plugins = <<AnUrl, Maven("plugin", TRUE, None, "maven-login")>>,
        !.template.config.proxy_protocol = TRUE,
        !.template.pod_overrides.volumes = {<<"extra", EmptyDir>>},
        !.template.pod_overrides.volume_mounts = {<<"extra", <<"/extra">> >>},
        !.template.pod_overrides.env = "JVM" :> "-Xmx",
        !.metadata.labels = [team |-> "network"],
        !.service = [ type_ |-> "LoadBalancer", external_traffic_policy |-> None,
                      preferred_reconnection_address |-> "play.host" ],
        !.autoscaling = [agones_policy |-> "buffer"]]

Waterfall ==
    [Velocity EXCEPT
        !.template.version.channel = "Waterfall",
        !.template.config.existing_config_map_name = <<"mine">>,
        !.template.config.skip_agent_download = TRUE,
        !.service = [ type_ |-> "ClusterIP", external_traffic_policy |-> "Local",
                      preferred_reconnection_address |-> None ]]

Paper ==
    [ cluster_ref |-> "cluster", tags |-> {"lobby"},
      version |-> [channel |-> "Paper", name |-> "1.20", custom_jar |-> None],
      config |-> [ existing_config_map_name |-> None, world |-> None, plugins |-> <<>>,
                   patches |-> <<>>, max_players |-> 20, disable_nether |-> FALSE,
                   disable_end |-> FALSE, proxy_forwarding_mode |-> "Velocity",
                   lifecycle_strategy |-> "AllocateWhenNotEmpty", skip_agent_download |-> FALSE ],
      pod_overrides |-> NoOverrides ]

Folia == [Paper EXCEPT !.version.channel = "Folia",
                       !.config.plugins = <<Maven("plugin", TRUE, None, "maven-login")>>,
                       !.config.world = AnUrl]

Minestom == [Paper EXCEPT !.version.channel = "Minestom",
                          !.version.custom_jar = AnUrl,
                          !.config.existing_config_map_name = <<"mine">>]

NoJar == [Minestom EXCEPT !.version.custom_jar = None]

AFleet(template) ==
    [ cluster_ref |-> "cluster", replicas |-> 1, metadata |-> NoLabels,
      template |-> template, autoscaling |-> None ]

Scaled(fleet) == [fleet EXCEPT !.autoscaling = [agones_policy |-> "buffer"]]

-----------------------------------------------------------------------------
(* The resources of the runs. *)

AllSpecs == [ cluster |-> {Bare, Full, Managed, Broken},
              proxy |-> {Velocity, Bungee, Waterfall},
              fleet |-> {AFleet(Paper), Scaled(AFleet(Folia)), AFleet(Minestom)},
              server |-> {Paper, Minestom, NoJar} ]

FewSpecs == [ cluster |-> {Bare, Full}, proxy |-> {Bungee}, fleet |-> {}, server |-> {Folia} ]

BothWorlds == {Up, Down}
UpOnly == {Up}

(* A cluster and one or two of its fleets and servers. *)
PairsInit ==
    /\ Init /\ resource["cluster"] # None
    /\ Cardinality({o \in WithPods : resource[o] # None}) \in 1..2

PairsSpec == PairsInit /\ [][Next]_vars

(* A cluster and its proxies, or a server, from the start. *)
BothInit ==
    Init /\ resource["cluster"] # None /\ (resource["proxy"] = None <=> resource["server"] # None)

BothSpec == BothInit /\ [][Next]_vars /\ Fairness

(* Nobody adds a resource of another kind, and beside a server nothing is edited. *)
OneKind ==
    /\ Cardinality({o \in WithPods : resource[o] # None}) <= 1
    /\ resource["server"] # None => edits = 0

(* One reconciliation at a time. *)
OneAtATime == Cardinality({o \in Owner : Running(o)}) <= 1
=============================================================================
