------------------------------ MODULE Resources ------------------------------
(***************************************************************************)
(* References to files that pods download (plugins, worlds, patches, jars) *)
(* and how the operator turns them into URLs: shulker-crds/src/resourceref *)
(* and shulker-operator/src/resources.  What is outside of the operator is *)
(* the argument w: the Secrets, and what each Maven repository answers.    *)
(* A composed name or URL is the tuple of its parts.                       *)
(***************************************************************************)
EXTENDS Naturals, Sequences, FiniteSets

CONSTANTS None,       \* an Option that is not set
          Error,      \* a function returned Err
          Malformed   \* the strings that do not parse as a URL

ASSUME ResourcesAssumption == None # Error

Optional(S) == S \cup {None}

(* Functions by their entries, the left one where both have one: as in the  *)
(* module TLC, whose definitions the provers do not read.                   *)
d :> e == [x \in {d} |-> e]
f @@ g == [x \in DOMAIN f \cup DOMAIN g |-> IF x \in DOMAIN f THEN f[x] ELSE g[x]]

(* The function f with the value v for k. *)
With(f, k, v) == [x \in DOMAIN f \cup {k} |-> IF x = k THEN v ELSE f[x]]

(* The question mark of Rust: an error ends the function that meets it. *)
IfOk(result, Then(_)) == IF result = Error THEN Error ELSE Then(result)

-----------------------------------------------------------------------------
(* The references, as written in a custom resource. *)

Version == [name : STRING, snapshot : BOOLEAN]     \* ends with -SNAPSHOT or not

ResourceRefFromMavenSpec ==
    [ repository_url : STRING, group_id : STRING, artifact_id : STRING,
      version : Version, classifier : Optional(STRING),
      credentials_secret_name : Optional(STRING) ]

ResourceRefFromSpec == [maven_ref : Optional(ResourceRefFromMavenSpec)]

ResourceRefSpec == [url : Optional(STRING), url_from : Optional(ResourceRefFromSpec)]

-----------------------------------------------------------------------------
(* Maven. *)

SnapshotVersion ==
    [extension : STRING, value : STRING, updated : Nat, classifier : Optional(STRING)]

(* The newest file with this extension and classifier; the first one listed *)
(* if several are as new, since the sort is stable.                         *)
find_latest_snapshot_version_for_classifier(versions, extension, classifier) ==
    LET Newer(i, j) == \/ versions[i].updated > versions[j].updated
                       \/ versions[i].updated = versions[j].updated /\ i <= j
        Matching == {i \in DOMAIN versions : /\ versions[i].extension = extension
                                             /\ versions[i].classifier = classifier}
    IN  IF Matching = {} THEN None
        ELSE versions[CHOOSE i \in Matching : \A j \in Matching : Newer(i, j)].value

(* A repository answers with the list of snapshot versions (None if it has none), *)
(* None for a 404, or an error: unreachable, refused, or not Maven metadata.      *)
try_resolve_metadata(w, path, credentials) ==
    IF path \notin DOMAIN w.maven THEN None
    ELSE IF w.maven[path].credentials \notin {None, credentials} THEN Error
    ELSE w.maven[path].answer

try_resolve_version_metadata(w, m, credentials) ==
    try_resolve_metadata(w, <<m.repository_url, m.group_id, m.artifact_id, m.version.name>>,
                         credentials)

-----------------------------------------------------------------------------
(* Credentials and URLs. *)

from_kubernetes_secret(data) ==
    IF data # None /\ {"username", "password"} \subseteq DOMAIN data
    THEN [username |-> data["username"], password |-> data["password"]]
    ELSE Error

Credentials(w, ns, m) ==
    IF m.credentials_secret_name = None THEN None
    ELSE IF <<ns, m.credentials_secret_name>> \notin DOMAIN w.secrets THEN Error
    ELSE from_kubernetes_secret(w.secrets[<<ns, m.credentials_secret_name>>])

(* A ResourceRef is <<"Url", url>> or <<"MavenArtifact", spec, snapshot, credentials>>. *)
resolve_maven(w, ns, m) ==
    IfOk(Credentials(w, ns, m), LAMBDA credentials :
    IfOk(IF m.version.snapshot THEN try_resolve_version_metadata(w, m, credentials) ELSE None,
         LAMBDA metadata :
             << "MavenArtifact", m,
                IF metadata = None THEN None
                ELSE find_latest_snapshot_version_for_classifier(metadata, "jar", m.classifier),
                credentials >>))

resolve(w, ns, spec) ==
    IF spec.url # None THEN <<"Url", spec.url>>
    ELSE IF spec.url_from # None /\ spec.url_from.maven_ref # None
    THEN resolve_maven(w, ns, spec.url_from.maven_ref)
    ELSE Error

(* The file of a snapshot is named after the snapshot, its directory after the version. *)
as_url(ref) ==
    IF ref = Error THEN Error
    ELSE IF ref[1] = "Url" THEN (IF ref[2] \in Malformed THEN Error ELSE <<ref[2]>>)
    ELSE LET m == ref[2]
             file_version == IF ref[3] = None THEN m.version.name ELSE ref[3]
         IN  IF m.repository_url \in Malformed THEN Error
             ELSE << ref[4], m.repository_url, m.group_id, m.artifact_id, m.version.name,
                     <<m.artifact_id, file_version, m.classifier>> >>

Url(w, ns, spec) == as_url(resolve(w, ns, spec))

(* All or nothing: the first reference that fails, fails the list. *)
AllOk(results) ==
    IF \E i \in DOMAIN results : results[i] = Error THEN Error ELSE results

resolve_all(w, ns, refs) == AllOk([i \in DOMAIN refs |-> Url(w, ns, refs[i])])

-----------------------------------------------------------------------------
(* The agents, which the operator adds to the plugins. *)

get_artifact_name(side) ==
    IF side = "Proxy" THEN "shulker-proxy-agent" ELSE "shulker-server-agent"

get_agent_plugin_url(w, agent_config, side, platform) ==
    Url(w, "shulker-system",
        [ url |-> None,
          url_from |-> [maven_ref |->
              [ repository_url |-> agent_config.maven_repository,
                group_id |-> "io.shulkermc",
                artifact_id |-> get_artifact_name(side),
                version |-> agent_config.version,
                classifier |-> platform,
                credentials_secret_name |-> None ]] ])
=============================================================================
