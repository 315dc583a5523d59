---------------------------- MODULE SearchEngine ----------------------------
(***************************************************************************)
(* The ten checks of internal/checks/searchengine/module.go, for a host    *)
(* with Elasticsearch or OpenSearch, not both: the two differ in the names *)
(* of files, units and settings only.  Seven checks judge one discovery:   *)
(* configuration, JVM options and sockets, whose read errors are kept and  *)
(* never looked at.                                                        *)
(***************************************************************************)
EXTENDS Ratings

SearchCommands == {"pgrep", "server --version", "curl", "ss", "systemctl", "ps"}
SearchFiles    == {"config", "share", "jvm.options", "jvm.options.d", "meminfo"}

(* "localhost" stands for a name of the loopback interface, _local_ too;   *)
(* "private" for an address of it or of a private network.  A heap is      *)
(* uneven also if the files name none.  Two facts stay as they are: the    *)
(* heap in a drop-in (h.heapDropIn, "unset" if it names none), and whether *)
(* a snapshot repository is registered (h.registered).                     *)
SearchScale ==
  [networkHost |-> <<"private", "localhost", "unset", "public">>,
   httpHost    |-> <<"private", "localhost", "unset", "public">>,
   transportHost |-> <<"private", "localhost", "unset", "public">>,
   listening   |-> <<"none", "private", "public">>,
   heap        |-> <<"fit", "large", "uneven">>,
   security    |-> <<"enabled", "unset", "disabled">>,
   httpTLS     |-> <<"enabled", "other">>,
   pathRepo    |-> <<"set", "unset">>,
   destructive |-> <<"by-name", "any">>,
   user        |-> <<"own", "root">>,
   health      |-> <<"green", "other", "yellow", "red">>,
   mode        |-> <<"tight", "group", "world">>,
   modeJVM     |-> <<"tight", "group", "world">>,
   modeDropIn  |-> <<"tight", "group", "world">>]

SearchDetected(h, p) ==
  /\ h.os # "none"
  /\ \/ p["unit list"] = "ok" /\ h.server = "running" /\ h.unit
     \/ p["pgrep"] = "ok" /\ h.server = "running"
     \/ p["config"] # "missing" \/ p["share"] # "missing"

(* ensureDetected and loadForResult answer alike.                          *)
WhenSearch(h, p, rating) == IF SearchDetected(h, p) THEN rating ELSE NotApplicable

SearchConfigured(h, p, setting) == IF p["config"] = "ok" THEN h[setting] ELSE "unset"

(* loadJVMOptionsFromPatterns stops at the first file it cannot read.      *)
JVMFilesRead(p) ==
  IF p["jvm.options"] = "broken"
  THEN {} ELSE {f \in {"jvm.options", "jvm.options.d"} : p[f] = "ok"}

(* What the last file that names a heap says of it.                        *)
Heap(h, p) ==
  IF "jvm.options.d" \in JVMFilesRead(p) /\ h.heapDropIn # "unset" THEN h.heapDropIn
  ELSE IF "jvm.options" \in JVMFilesRead(p)                        THEN h.heap
                                                                   ELSE "uneven"

(* bindValues.                                                             *)
BindSettings == {"networkHost", "httpHost", "transportHost"}
BindValues(h, p) == {SearchConfigured(h, p, f) : f \in BindSettings} \ {"unset"}

SearchListensOn(h, p) ==
  IF h.server = "running" /\ p["ss"] = "ok" THEN h.listening ELSE "none"

(* isPublicAddress is asked first, and knows no name but _site_: localhost *)
(* is public to it, although isRestrictedAddress would accept it.          *)
PublicAddresses == {"public", "localhost"}

(* networkExposure: a socket counts only if no address is configured, and  *)
(* no socket at all, or none that could be listed, counts as restricted.   *)
SearchIsPublic(h, p) ==
  IF BindValues(h, p) # {} THEN BindValues(h, p) \intersect PublicAddresses # {}
                           ELSE SearchListensOn(h, p) = "public"

(* curlLocal has no password: the API answers while security is off, or    *)
(* where not asking for security leaves it off.                            *)
SecurityIsOff(h) == \/ h.security = "disabled"
                    \/ h.security = "unset" /\ h.openByDefault
APIAnswers(h, p) == h.server = "running" /\ p["curl"] = "ok" /\ SecurityIsOff(h)

SearchVersion(h, p) ==
  WhenSearch(h, p, IF p["server --version"] = "ok" \/ APIAnswers(h, p)
                   THEN Unseen("info", "info") ELSE Unverified("medium"))

ClusterHealth(h, p) ==
  WhenSearch(h, p, IF ~ APIAnswers(h, p) THEN NotApplicable
                   ELSE CASE h.health = "green"  -> Shown("pass", "high")
                          [] h.health = "yellow" -> Shown("warn", "medium")
                          [] h.health = "red"    -> Shown("fail", "high")
                          [] OTHER               -> Shown("info", "info"))

(* exposureUnknown takes an address that is neither public nor restricted, *)
(* and there is none.                                                      *)
SearchBindLocalhost(h, p) ==
  WhenSearch(h, p, IF SearchIsPublic(h, p) THEN Shown("warn", "high")
                                           ELSE Shown("pass", "high"))

(* A large heap is more than half of the memory, if that is known.         *)
JVMMemory(h, p) ==
  WhenSearch(h, p, IF \/ Heap(h, p) = "uneven"
                      \/ Heap(h, p) = "large" /\ p["meminfo"] = "ok"
                   THEN Shown("warn", "medium") ELSE Shown("pass", "medium"))

SecurityEnabled(h, p) ==
  WhenSearch(h, p, CASE SearchConfigured(h, p, "security") = "unset"    -> Shown("info", "info")
                     [] SearchConfigured(h, p, "security") = "disabled" -> Shown("warn", "high")
                     [] OTHER                                           -> Shown("pass", "high"))

(* processUser: `systemctl show` succeeds for a unit that does not exist,  *)
(* and prints nothing, which is read as root.                              *)
ProcessUser(h, p) ==
  IF p["systemctl"] = "ok" THEN IF h.unit THEN h.user ELSE "root"
  ELSE IF p["ps"] = "ok" /\ h.server = "running" THEN h.user ELSE "unknown"

RunsAsRoot(h, p) ==
  WhenSearch(h, p, CASE ProcessUser(h, p) = "unknown" -> Unseen("info", "info")
                     [] ProcessUser(h, p) = "root"    -> Shown("fail", "high")
                     [] OTHER                         -> Shown("pass", "high"))

BackupsSnapshots(h, p) ==
  WhenSearch(h, p, IF \/ SearchConfigured(h, p, "pathRepo") = "set"
                      \/ APIAnswers(h, p) /\ h.registered
                   THEN Shown("pass", "medium") ELSE Shown("warn", "medium"))

TLSConfigured(h, p) ==
  WhenSearch(h, p, IF SearchConfigured(h, p, "httpTLS") = "enabled" THEN Shown("pass", "low")
                   ELSE IF SearchIsPublic(h, p) THEN Shown("warn", "high")
                                                ELSE Shown("info", "info"))

DestructiveActions(h, p) ==
  WhenSearch(h, p, IF SearchConfigured(h, p, "destructive") = "by-name"
                   THEN Shown("pass", "medium") ELSE Shown("warn", "medium"))

(* The modes of the files that were read.                                  *)
SearchModes(h, p) ==
  (IF p["config"] = "ok" THEN {h.mode} ELSE {})
    \union {IF f = "jvm.options" THEN h.modeJVM ELSE h.modeDropIn : f \in JVMFilesRead(p)}

SearchFilePermissions(h, p) ==
  WhenSearch(h, p, IF SearchModes(h, p) = {}             THEN NotApplicable
                   ELSE IF "world" \in SearchModes(h, p) THEN Shown("fail", "high")
                   ELSE IF "group" \in SearchModes(h, p) THEN Shown("warn", "medium")
                                                         ELSE Shown("pass", "medium"))

SearchRating(h, p) ==
  [version                       |-> SearchVersion(h, p),
   cluster_health                |-> ClusterHealth(h, p),
   bind_localhost                |-> SearchBindLocalhost(h, p),
   jvm_memory                    |-> JVMMemory(h, p),
   security_enabled              |-> SecurityEnabled(h, p),
   runs_as_root                  |-> RunsAsRoot(h, p),
   backups_snapshots             |-> BackupsSnapshots(h, p),
   tls_configured                |-> TLSConfigured(h, p),
   dangerous_destructive_actions |-> DestructiveActions(h, p),
   file_permissions              |-> SearchFilePermissions(h, p)]
=============================================================================
