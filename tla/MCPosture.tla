----------------------------- MODULE MCPosture -----------------------------
(***************************************************************************)
(* Setups from which a few changes reach what the properties are about:    *)
(* strict ones, bare ones where one source alone vouches for a check, and  *)
(* lax ones that have much to gain.                                        *)
(***************************************************************************)
EXTENDS Posture

Strictest(pkg) == [f \in DOMAIN Scale(pkg) |-> Scale(pkg)[f][1]]

Bare == [periodic |-> "off", nproc |-> "unset", nprocDropIn |-> "unset",
         firewallUnit |-> "stopped", nft |-> "empty", iptables |-> "empty"]

Listening == [skipNetworking |-> "off", listening |-> "loopback"]

Exposed == [skipNetworking |-> "off", listening |-> "public", bind |-> "public",
            bindDropIn |-> "unset", rootAuth |-> "empty", requireSecure |-> "off"]

LinuxSetups ==
  {[os |-> "debian", hasAppArmor |-> TRUE, aaFailure |-> "silent", geoip |-> TRUE]
      @@ Strictest("linux"),
   [os |-> "debian", hasAppArmor |-> TRUE, aaFailure |-> "told", geoip |-> FALSE]
      @@ Bare @@ Strictest("linux"),
   [os |-> "other", hasAppArmor |-> FALSE, aaFailure |-> "uninstalled", geoip |-> TRUE,
    ufw |-> "inactive", pids |-> "max", nprocDropIn |-> "set", firewallUnit |-> "running"]
      @@ Bare @@ Strictest("linux"),
   [os |-> "none", hasAppArmor |-> FALSE, aaFailure |-> "silent", geoip |-> FALSE]
      @@ Bare @@ Strictest("linux")}

SSHSetups ==
  {[known |-> k] @@ Strictest("sshd") : k \in {DOMAIN SSHScale, {"permitrootlogin"}}}

DockerSetups ==
  {[os |-> "other", dockerd |-> d, containers |-> c, apiVia |-> via, apiPort |-> port]
      @@ Strictest("docker") :
     d \in {"running", "stopped"}, c \in {"none", "running"},
     via \in {"daemon.json", "systemctl", "environment"}, port \in {"standard", "other"}}

MySQLSetups ==
  {[os |-> "other", server |-> s, maxIsConfigured |-> m] @@ extra @@ Strictest("mysql") :
     s \in {"running", "stopped"}, m \in {TRUE, FALSE},
     extra \in {Strictest("mysql"), Listening, Exposed}}

(* Both engines on the host, the judged one running or not, and the other  *)
(* configured the opposite way.                                            *)
Strictly(strict) == [f \in DOMAIN RedisScale |->
                       RedisScale[f][IF strict THEN 1 ELSE Len(RedisScale[f])]]

RedisSetups ==
  {[os |-> "other", own |-> e, installed |-> Engines, running |-> run,
    other |-> Strictly(~ strict)] @@ Strictly(strict) :
     e \in Engines, run \in {{}, {"valkey"}, Engines}, strict \in BOOLEAN}

NginxSetups ==
  {[nginx |-> n] @@ Strictest("nginx") : n \in {"running", "stopped"}}
    \union {[nginx |-> "running", tlsFirst |-> "old", tlsSecond |-> "other"]
              @@ Strictest("nginx")}

VarnishSetups ==
  {[varnishd |-> v, storageUnit |-> kind, storageDefault |-> "none", storageParams |-> "none"]
      @@ Strictest("varnish") : v \in {"running", "stopped"}, kind \in {"malloc", "file"}}

PhpSetups ==
  {[fpm |-> "running", poolGroup |-> g, poolUser |-> u, children |-> c]
      @@ extra @@ Strictest("phpfpm") :
     g \in BOOLEAN, u \in {"own", "unset"}, c \in {"few", "many", "unset"},
     extra \in {Strictest("phpfpm"),
               [errorLogCLI |-> "unset", secureCLI |-> "unset", httpOnlyCLI |-> "unset",
                sameSiteCLI |-> "unset", basedirPool |-> "unset"]}}

Open == [security |-> "unset", pathRepo |-> "unset", networkHost |-> "unset",
         httpHost |-> "unset", transportHost |-> "unset", httpTLS |-> "other"]

SearchSetups ==
  {[os |-> "other", server |-> s, unit |-> u, openByDefault |-> u, heapDropIn |-> d,
    registered |-> (d = "uneven")] @@ extra @@ Strictest("searchengine") :
     s \in {"running", "stopped"}, u \in BOOLEAN, d \in {"unset", "uneven"},
     extra \in {Strictest("searchengine"), Open}}

MCSetups(pkg) == CASE pkg = "linux"        -> LinuxSetups
                   [] pkg = "sshd"         -> SSHSetups
                   [] pkg = "docker"       -> DockerSetups
                   [] pkg = "mysql"        -> MySQLSetups
                   [] pkg = "redis"        -> RedisSetups
                   [] pkg = "nginx"        -> NginxSetups
                   [] pkg = "varnish"      -> VarnishSetups
                   [] pkg = "phpfpm"       -> PhpSetups
                   [] pkg = "searchengine" -> SearchSetups
=============================================================================
