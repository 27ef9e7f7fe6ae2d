----------------------------- MODULE RuntimeEngines -----------------------------
(***************************************************************************)
(* The runtime engines as their callers see them (runtime/mod.rs,          *)
(* runtime/mock.rs, runtime/engines): which engine the registry hands out, *)
(* and what an operation of an engine may answer and leave running.        *)
(*                                                                         *)
(* Podman and Docker are commands the node runs: whether one succeeds, and *)
(* what a failed one leaves behind, is any of the outcomes the engine's    *)
(* code accepts.  The mock engine is a map in memory and is exact.  A      *)
(* workload is named after its engine and manifest, so a manifest has one  *)
(* workload in each engine.  `run' is the set of the manifests that have   *)
(* containers in an engine.                                                *)
(***************************************************************************)

\* The engines of the registry: the mock only in debug builds, and nothing else in
\* the registry of the tests (create_mock_only_registry).
CONSTANT Registered

Engine == {"podman", "docker", "mock"}

ASSUME EngineAssumption == Registered \in SUBSET Engine

\* A manifest is a Kubernetes one, a Compose one, other YAML, or no YAML.
Content == {"kube", "compose", "yaml", "invalid"}

\* is_available: the mock always is, the others if their command answers.
Availability == {a \in SUBSET Registered : "mock" \in Registered => "mock" \in a}

\* create_default_registry: the engine registered first, unless a better one
\* answers at start-up.
DefaultEngine(available) ==
    IF "podman" \in available THEN "podman"
    ELSE IF "docker" \in available THEN "docker"
    ELSE IF "mock" \in Registered THEN "mock" ELSE "podman"

\* validate_manifest of the engines: Podman wants apiVersion and kind, Docker
\* wants services, the mock wants YAML.
PodmanValidates(content) == content = "kube"
DockerValidates(content) == content = "compose"
MockValidates(content) == content # "invalid"

validate_manifest(e, content) ==
    \/ e = "podman" /\ PodmanValidates(content)
    \/ e = "docker" /\ DockerValidates(content)
    \/ e = "mock" /\ MockValidates(content)

Outcome(ok, runs) == [ok : ok, run : runs]

\* execute_command: an error may follow the effect, or part of it.
Command(effect, partial) == Outcome({TRUE}, {effect}) \union Outcome({FALSE}, partial)

\* kube play --replace: a failed one may have stopped the predecessor.
PodmanDeploy(content, m, run) ==
    IF PodmanValidates(content)
    THEN Command(run \union {m}, {run, run \union {m}, run \ {m}})
    ELSE Outcome({FALSE}, {run})

\* compose up -d
DockerDeploy(content, m, run) ==
    IF DockerValidates(content)
    THEN Command(run \union {m}, {run, run \union {m}})
    ELSE Outcome({FALSE}, {run})

\* An entry of a map; it fails where a test asks it to.
MockDeploy(content, m, run) ==
    IF MockValidates(content)
    THEN Command(run \union {m}, {run})
    ELSE Outcome({FALSE}, {run})

deploy_workload(e, content, m, run) ==
    CASE e = "podman" -> PodmanDeploy(content, m, run)
      [] e = "docker" -> DockerDeploy(content, m, run)
      [] e = "mock" -> MockDeploy(content, m, run)

\* What a listing answers: an error, or the workloads it found.
Listing(ok, found) == [ok : ok, found : found]

\* Output that is no JSON counts as no pods.
PodmanList(run) == Listing({TRUE}, {run, {}}) \union Listing({FALSE}, {{}})

\* Every container is listed under the manifest id "unknown".
DockerList == Listing(BOOLEAN, {{}})
MockList(run) == Listing({TRUE}, {run})

list_workloads(e, run) ==
    CASE e = "podman" -> PodmanList(run)
      [] e = "docker" -> DockerList
      [] e = "mock" -> MockList(run)

\* An error only if the pod is removed by neither of its names and the pods
\* cannot be listed; what the removal of a listed pod answers is ignored.
PodmanRemove(m, run) == Outcome(BOOLEAN, {run, run \ {m}})

\* compose down -v, or else rm -f: success whatever they answer.
DockerRemove(m, run) == Outcome({TRUE}, {run, run \ {m}})

\* A workload it does not have is an error.
MockRemove(m, run) == Outcome({m \in run}, {run \ {m}})

remove_workload(e, m, run) ==
    CASE e = "podman" -> PodmanRemove(m, run)
      [] e = "docker" -> DockerRemove(m, run)
      [] e = "mock" -> MockRemove(m, run)

\* Whether a status is answered: by Podman and Docker whenever the command
\* succeeds, whether or not there is such a workload.
PodmanStatus == BOOLEAN
DockerStatus == BOOLEAN
MockStatus(m, run) == {m \in run}

get_workload_status(e, m, run) ==
    CASE e = "podman" -> PodmanStatus
      [] e = "docker" -> DockerStatus
      [] e = "mock" -> MockStatus(m, run)
=================================================================================
