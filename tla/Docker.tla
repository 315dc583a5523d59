------------------------------- MODULE Docker -------------------------------
(***************************************************************************)
(* The fifteen checks of internal/checks/docker/module.go.  Eight of them  *)
(* judge the same listing, made by docker ps and docker inspect and kept,  *)
(* its failure included, for all of them.                                  *)
(*                                                                         *)
(* The host runs no container or two, one of which has the facts below     *)
(* while the other is as strict as can be.                                 *)
(***************************************************************************)
EXTENDS Ratings

DockerCommands ==
  {"docker", "docker inspect", "docker system df", "ss", "systemctl"}
DockerFiles ==
  {"docker.sock", "daemon.json", "/var/lib/docker", "containers", "overlay2"}

(* Sizes in GiB at and above the thresholds.  `api` is where dockerd       *)
(* listens, `published` where the ports of containers do.                  *)
DockerScale ==
  [socketMode |-> <<"0600", "0620", "0660", "0666">>,
   socketGroup |-> <<"docker", "other">>,
   socketOwner |-> <<"root", "other">>,
   socketType |-> <<"socket", "file">>,
   api        |-> <<"none", "loopback", "public">>,
   published  |-> <<"none", "loopback", "public">>,
   privileged |-> <<"no", "yes">>,
   mount      |-> <<"none", "/etc", "/">>,
   network    |-> <<"bridge", "host">>,
   capability |-> <<"none", "SYS_ADMIN">>,
   privileges |-> <<"no-new", "new">>,
   user       |-> <<"app", "root">>,
   tag        |-> <<"pinned", "latest">>,
   restart    |-> <<"always", "no">>,
   reclaimable |-> <<0, 20, 21>>,
   log        |-> <<0, 1, 2>>,
   overlay2   |-> <<0, 30, 31, 80, 81>>]

(* detect: any trace is enough, and a trace that cannot be looked at is    *)
(* none.  The binary is there unless its command is missing.               *)
DockerDetected(h, p) ==
  /\ h.os # "none"
  /\ \/ p["unit list"] = "ok" /\ h.dockerd = "running"
     \/ p["docker.sock"] = "ok"
     \/ p["docker"] # "missing"
     \/ p["/var/lib/docker"] = "ok"

(* ensureDockerDetected, the first step of most checks.                    *)
WhenDetected(h, p, rating) == IF DockerDetected(h, p) THEN rating ELSE NotApplicable

DaemonDetected(h, p) == WhenDetected(h, p, Unseen("info", "info"))

DockerVersion(h, p) ==
  WhenDetected(h, p, IF p["docker"] = "ok" THEN Unseen("info", "info")
                                           ELSE Unverified("medium"))

(* A published port has a docker-proxy behind it, which makes its line one *)
(* about docker.                                                           *)
ListeningEndpoints(h, p) ==
  IF p["ss"] # "ok" THEN {}
  ELSE {e \in {[host |-> h.api, port |-> h.apiPort],
               [host |-> h.published, port |-> "other"]} :
          /\ e.host # "none"
          /\ h.dockerd = "running"}

(* What the daemon is told, by its file or by its unit; options from an    *)
(* environment file are not followed.                                      *)
ConfiguredEndpoints(h, p) ==
  {[host |-> h.api, port |-> h.apiPort] : via \in
     {v \in {"daemon.json", "systemctl"} :
        h.apiVia = v /\ h.api # "none" /\ p[v] = "ok"}}

PublicAPI(endpoints) ==
  {e \in endpoints : e.port = "standard" /\ e.host # "loopback"}

(* The cases in the order of the code, in which each hides those below it. *)
SocketPermissions(h, p) ==
  IF p["docker.sock"] = "missing"     THEN NotApplicable
  ELSE IF p["docker.sock"] = "broken" THEN Unverified("medium")
  ELSE IF PublicAPI(ListeningEndpoints(h, p)) # {} THEN Shown("fail", "high")
  ELSE IF \/ h.socketMode = "0666"
          \/ h.socketOwner # "root"
          \/ h.socketType # "socket"  THEN Shown("warn", "high")
  ELSE IF \/ h.socketMode = "0660" /\ h.socketGroup = "docker"
          \/ h.socketMode = "0600"    THEN Shown("pass", "low")
  ELSE IF h.socketGroup = "docker"    THEN Shown("info", "low")
                                      ELSE Shown("warn", "medium")

ExposedTCPSocket(h, p) ==
  LET endpoints == ListeningEndpoints(h, p) \union ConfiguredEndpoints(h, p)
  IN  WhenDetected(h, p,
        IF endpoints = {}                 THEN Shown("pass", "high")
        ELSE IF PublicAPI(endpoints) # {} THEN Shown("fail", "high")
                                          ELSE Shown("warn", "medium"))

(* loadContainers: an empty list is not inspected, and a container that    *)
(* is gone by then makes the whole listing fail.                           *)
ContainersListed(h, p) ==
  p["docker"] = "ok" /\ (h.containers = "none" \/ p["docker inspect"] = "ok")

(* containersForResult and the loop over the containers that follows it.   *)
ContainerCheck(h, p, found, quiet, finding) ==
  WhenDetected(h, p,
    IF ~ ContainersListed(h, p)            THEN Unverified("medium")
    ELSE IF h.containers # "none" /\ found THEN finding
                                           ELSE quiet)

PrivilegedContainers(h, p) ==
  ContainerCheck(h, p, h.privileged = "yes", Shown("pass", "high"), Shown("warn", "high"))

HostMounts(h, p) ==
  ContainerCheck(h, p, h.mount # "none", Shown("pass", "high"),
                 Shown("warn", IF h.mount = "/" THEN "high" ELSE "medium"))

HostNetwork(h, p) ==
  ContainerCheck(h, p, h.network = "host", Shown("pass", "medium"), Shown("warn", "medium"))

DangerousCapabilities(h, p) ==
  ContainerCheck(h, p, h.capability # "none", Shown("pass", "high"), Shown("warn", "high"))

NoNewPrivileges(h, p) ==
  ContainerCheck(h, p, h.privileges = "new", Shown("pass", "medium"), Shown("warn", "medium"))

ContainerUserRoot(h, p) ==
  ContainerCheck(h, p, h.user = "root", Shown("pass", "medium"), Shown("warn", "medium"))

ImageTagLatest(h, p) ==
  ContainerCheck(h, p, h.tag = "latest", Shown("pass", "low"), Shown("warn", "low"))

RestartPolicy(h, p) ==
  ContainerCheck(h, p, h.restart = "no", Shown("info", "low"), Shown("warn", "low"))

UnusedData(h, p) ==
  WhenDetected(h, p,
    IF p["docker system df"] # "ok" THEN Unverified("medium")
    ELSE IF h.reclaimable > 20      THEN Shown("warn", "low")
                                    ELSE Shown("info", "low"))

(* ensureReadablePath for the data directory, then for one below it; a     *)
(* directory whose walk fails is rated like one that cannot be looked at.  *)
WhenReadable(p, below, rating) ==
  IF p["/var/lib/docker"] = "missing"     THEN NotApplicable
  ELSE IF p["/var/lib/docker"] = "broken" THEN Unverified("medium")
  ELSE IF p[below] = "missing"            THEN NotApplicable
  ELSE IF p[below] = "broken"             THEN Unverified("medium")
                                          ELSE rating

ContainerLogsLarge(h, p) ==
  WhenReadable(p, "containers", Shown(IF h.log > 1 THEN "warn" ELSE "pass", "medium"))

Overlay2Usage(h, p) ==
  WhenReadable(p, "overlay2",
    IF h.overlay2 > 80      THEN Shown("warn", "high")
    ELSE IF h.overlay2 > 30 THEN Shown("warn", "medium")
                            ELSE Shown("pass", "medium"))

DockerRating(h, p) ==
  [daemon_detected        |-> DaemonDetected(h, p),
   version                |-> DockerVersion(h, p),
   socket_permissions     |-> SocketPermissions(h, p),
   exposed_tcp_socket     |-> ExposedTCPSocket(h, p),
   privileged_containers  |-> PrivilegedContainers(h, p),
   host_mounts            |-> HostMounts(h, p),
   host_network           |-> HostNetwork(h, p),
   dangerous_capabilities |-> DangerousCapabilities(h, p),
   no_new_privileges      |-> NoNewPrivileges(h, p),
   container_user_root    |-> ContainerUserRoot(h, p),
   image_tag_latest       |-> ImageTagLatest(h, p),
   restart_policy         |-> RestartPolicy(h, p),
   unused_data            |-> UnusedData(h, p),
   container_logs_large   |-> ContainerLogsLarge(h, p),
   overlay2_usage         |-> Overlay2Usage(h, p)]
=============================================================================
