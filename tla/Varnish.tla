------------------------------ MODULE Varnish ------------------------------
(***************************************************************************)
(* The six checks of internal/checks/varnish/module.go.  None of them      *)
(* shares what it read with another: each looks for varnish again, and the *)
(* three that read counters run varnishstat three times.                   *)
(***************************************************************************)
EXTENDS Ratings

VarnishCommands == {"varnishd", "varnishstat", "systemctl", "ss"}
VarnishFiles    == {"default.vcl", "default/varnish", "varnish.params"}

(* Where -s may be given: in the unit and in two files that older packages *)
(* read their options from.                                                *)
StorageSources == {"systemctl", "default/varnish", "varnish.params"}

VarnishScale ==
  [storageUnit    |-> <<"malloc", "none", "file">>,
   storageDefault |-> <<"malloc", "none", "file">>,
   storageParams  |-> <<"malloc", "none", "file">>,
   hitRatio       |-> <<"high", "no-data", "low">>,
   nuked          |-> <<"none", "absent", "some", "many">>,
   backends       |-> <<"healthy", "none", "unhealthy">>,
   adminPort      |-> <<"none", "loopback", "public">>]

VarnishDetected(h, p) ==
  \/ p["unit list"] = "ok" /\ h.varnishd = "running"
  \/ \E s \in {"varnishd", "varnishstat"} \union VarnishFiles : p[s] # "missing"

WhenVarnish(h, p, rating) == IF VarnishDetected(h, p) THEN rating ELSE NotApplicable

(* ensureVarnishDetected, then a command that may fail.                    *)
WhenAnswered(h, p, answers, rating) ==
  WhenVarnish(h, p, IF answers THEN rating ELSE Unverified("medium"))

VarnishVersion(h, p) ==
  WhenAnswered(h, p, p["varnishd"] = "ok", Unseen("info", "info"))

StorageFact(s) == CASE s = "systemctl"       -> "storageUnit"
                    [] s = "default/varnish" -> "storageDefault"
                    [] s = "varnish.params"  -> "storageParams"

(* storageConfigs: what the sources that could be read say, whether or not *)
(* varnishd was started from them; malloc is preferred.                    *)
StorageKinds(h, p) == {h[StorageFact(s)] : s \in {t \in StorageSources : p[t] = "ok"}}

StorageMalloc(h, p) ==
  WhenVarnish(h, p, IF "malloc" \in StorageKinds(h, p) THEN Shown("pass", "medium")
                                                       ELSE Shown("warn", "medium"))

(* varnishstat attaches to a running varnishd.                             *)
WhenCounted(h, p, rating) ==
  WhenAnswered(h, p, p["varnishstat"] = "ok" /\ h.varnishd = "running", rating)

CacheHitRatio(h, p) ==
  WhenCounted(h, p, CASE h.hitRatio = "no-data" -> Shown("info", "info")
                      [] h.hitRatio = "low"     -> Shown("warn", "medium")
                      [] OTHER                  -> Shown("pass", "low"))

(* More than 1000 are many.                                                *)
LRUNukedObjects(h, p) ==
  WhenCounted(h, p, CASE h.nuked = "absent" -> Shown("info", "info")
                      [] h.nuked = "some"   -> Shown("warn", "medium")
                      [] h.nuked = "many"   -> Shown("warn", "high")
                      [] OTHER              -> Shown("pass", "medium"))

BackendHealth(h, p) ==
  WhenCounted(h, p, CASE h.backends = "none"      -> NotApplicable
                      [] h.backends = "unhealthy" -> Shown("warn", "medium")
                      [] OTHER                    -> Shown("info", "info"))

(* Only the administration port, 6082, is judged.                          *)
VarnishListenPorts(h, p) ==
  WhenAnswered(h, p, p["ss"] = "ok",
    IF h.varnishd = "running" /\ h.adminPort = "public" THEN Shown("warn", "high")
                                                        ELSE Shown("info", "info"))

VarnishRating(h, p) ==
  [version           |-> VarnishVersion(h, p),
   storage_malloc    |-> StorageMalloc(h, p),
   cache_hit_ratio   |-> CacheHitRatio(h, p),
   lru_nuked_objects |-> LRUNukedObjects(h, p),
   backend_health    |-> BackendHealth(h, p),
   listen_ports      |-> VarnishListenPorts(h, p)]
=============================================================================
