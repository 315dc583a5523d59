------------------------------ MODULE Posture ------------------------------
(***************************************************************************)
(* A host that is audited again after every change, and the report of one  *)
(* package of checks about it.  The host gets stricter or laxer in one     *)
(* fact, or a source stops or starts to answer.                            *)
(*                                                                         *)
(* What changes during an audit is in Audit; here an audit is one step,    *)
(* and the question is how the verdicts of two audits relate.              *)
(***************************************************************************)
EXTENDS Scoring, Linux, SSH, Docker, MySQL, Redis, Nginx, Varnish, PhpFpm, SearchEngine

CONSTANTS Packages,    \* the packages looked at, one in each behaviour
          Setups(_),   \* the hosts a package may be confronted with at first
          MaxChanges   \* how far from its setup a host may get, the bound

AllPackages ==
  {"linux", "sshd", "docker", "mysql", "redis", "nginx", "varnish", "phpfpm", "searchengine"}

ASSUME PackagesAssumption == Packages \subseteq AllPackages
ASSUME ChangesAssumption  == MaxChanges \in Nat

(* The program runs on another system than Linux too, dockerd does not.    *)
DaemonOnLinux(h) == /\ {"os", "dockerd"} \subseteq DOMAIN h
                    /\ h.dockerd = "running" => h.os # "none"

VARIABLES package,  \* the package whose checks are looked at
          setup,    \* the host as it was at first
          host,     \* the facts about the host, and what it runs
          probe,    \* how each source answers
          report    \* the ratings of the last audit, by check
vars == <<package, setup, host, probe, report>>

Scale(pkg) ==
  CASE pkg = "linux"        -> LinuxScale
    [] pkg = "sshd"         -> SSHScale
    [] pkg = "docker"       -> DockerScale
    [] pkg = "mysql"        -> MySQLScale
    [] pkg = "redis"        -> RedisScale
    [] pkg = "nginx"        -> NginxScale
    [] pkg = "varnish"      -> VarnishScale
    [] pkg = "phpfpm"       -> PhpScale
    [] pkg = "searchengine" -> SearchScale

(* The facts that stay as they are: which system, what is installed, what  *)
(* runs, and what a drop-in or the other engine says.                      *)
Givens(pkg) ==
  CASE pkg = "linux"        -> {"os", "hasAppArmor", "aaFailure", "geoip"}
    [] pkg = "sshd"         -> {"known"}
    [] pkg = "docker"       -> {"os", "dockerd", "containers", "apiVia", "apiPort"}
    [] pkg = "mysql"        -> {"os", "server", "maxIsConfigured"}
    [] pkg = "redis"        -> {"os", "own", "other", "installed", "running"}
    [] pkg = "nginx"        -> {"nginx"}
    [] pkg = "varnish"      -> {"varnishd"}
    [] pkg = "phpfpm"       -> {"fpm", "poolGroup"}
    [] pkg = "searchengine" -> {"os", "server", "unit", "openByDefault", "heapDropIn",
                                "registered"}

Facts(pkg) == DOMAIN Scale(pkg) \union Givens(pkg)

(* A host has every fact that the checks of the package look at.           *)
ASSUME SetupsAssumption ==
  /\ \A pkg \in Packages : \A h \in Setups(pkg) : Facts(pkg) \subseteq DOMAIN h
  /\ "docker" \in Packages => \A h \in Setups("docker") : DaemonOnLinux(h)

Commands(pkg) ==
  CASE pkg = "linux"        -> LinuxCommands
    [] pkg = "sshd"         -> SSHCommands
    [] pkg = "docker"       -> DockerCommands
    [] pkg = "mysql"        -> MySQLCommands
    [] pkg = "redis"        -> RedisCommands
    [] pkg = "nginx"        -> NginxCommands
    [] pkg = "varnish"      -> VarnishCommands
    [] pkg = "phpfpm"       -> PhpCommands
    [] pkg = "searchengine" -> SearchCommands

Files(pkg) ==
  CASE pkg = "linux"        -> LinuxFiles
    [] pkg = "sshd"         -> SSHFiles
    [] pkg = "docker"       -> DockerFiles
    [] pkg = "mysql"        -> MySQLFiles
    [] pkg = "redis"        -> RedisFiles
    [] pkg = "nginx"        -> NginxFiles
    [] pkg = "varnish"      -> VarnishFiles
    [] pkg = "phpfpm"       -> PhpFiles
    [] pkg = "searchengine" -> SearchFiles

Sources(pkg) == Commands(pkg) \union Files(pkg) \union {UnitList}

(* The Run of every check of the package.                                  *)
Rate(pkg, h, p) ==
  CASE pkg = "linux"        -> LinuxRating(h, p)
    [] pkg = "sshd"         -> SSHRating(h, p)
    [] pkg = "docker"       -> DockerRating(h, p)
    [] pkg = "mysql"        -> MySQLRating(h, p)
    [] pkg = "redis"        -> RedisRating(h, p)
    [] pkg = "nginx"        -> NginxRating(h, p)
    [] pkg = "varnish"      -> VarnishRating(h, p)
    [] pkg = "phpfpm"       -> PhpRating(h, p)
    [] pkg = "searchengine" -> SearchRating(h, p)

Init ==
  /\ package \in Packages
  /\ setup \in Setups(package)
  /\ host = setup
  /\ probe = [s \in Sources(package) |-> "ok"]
  /\ report = Rate(package, host, probe)

(* How far the host is from its setup: facts that differ, silent sources.  *)
Distance(h, p) ==
  Cardinality({f \in DOMAIN h : h[f] # setup[f]})
    + Cardinality({s \in DOMAIN p : p[s] # "ok"})

AuditAgain ==
  /\ Distance(host', probe') <= MaxChanges
  /\ report' = Rate(package, host', probe')
  /\ UNCHANGED <<package, setup>>

Turn(f, i, j) ==
  /\ host[f] = Scale(package)[f][i]
  /\ host' = [host EXCEPT ![f] = Scale(package)[f][j]]
  /\ UNCHANGED probe

Harden == \E f \in DOMAIN Scale(package) : \E i, j \in DOMAIN Scale(package)[f] :
            j < i /\ Turn(f, i, j) /\ AuditAgain

Weaken == \E f \in DOMAIN Scale(package) : \E i, j \in DOMAIN Scale(package)[f] :
            i < j /\ Turn(f, i, j) /\ AuditAgain

Answer(s, a) == probe' = [probe EXCEPT ![s] = a] /\ UNCHANGED host

(* A command or file fails, or a command goes.                             *)
Fails(s) == /\ probe[s] = "ok"
            /\ Answer(s, "broken") \/ (s \in Commands(package) /\ Answer(s, "missing"))

Lose == \E s \in Sources(package) : Fails(s) /\ AuditAgain

(* A file that goes is a change of the host, not a loss of sight.          *)
RemoveFile == \E s \in Files(package) :
            probe[s] = "ok" /\ Answer(s, "missing") /\ AuditAgain

Regain == \E s \in Sources(package) :
            probe[s] # "ok" /\ Answer(s, "ok") /\ AuditAgain

Next == Harden \/ Weaken \/ Lose \/ RemoveFile \/ Regain

Spec == Init /\ [][Next]_vars
-----------------------------------------------------------------------------
(* Every source has an answer, and every check rates with a status and a   *)
(* severity that the report knows.                                         *)
TypeOK ==
  /\ package \in Packages
  /\ probe \in [Sources(package) -> Answers]
  /\ \A c \in DOMAIN report : report[c] \in RatingValues

(* A failure or a warning is on the client's page and among the issues it  *)
(* counts: every check that starts hidden and without a severity, because  *)
(* it usually only takes stock, gets both once it finds something          *)
(* (HiddenInClientReport and Severity in every Run).                       *)
RiskIsShown ==
  \A c \in DOMAIN report : IsRisk(report[c]) => ~ report[c].hidden /\ report[c].severity # "info"

(* The checks that judge the same reading: the listing of the containers,  *)
(* the dump of nginx, the pool files, varnish's counters.                  *)
JudgeTogether(pkg) ==
  CASE pkg = "docker"  ->
         {"privileged_containers", "host_mounts", "host_network",
          "dangerous_capabilities", "no_new_privileges", "container_user_root",
          "image_tag_latest", "restart_policy"}
    [] pkg = "nginx"   -> DOMAIN report \ {"service_detected"}
    [] pkg = "phpfpm"  -> DOMAIN report \ {"available_versions"}
    [] pkg = "varnish" -> {"cache_hit_ratio", "lru_nuked_objects", "backend_health"}
    [] OTHER           -> {}

(* Checks of one report that look at the same thing do not contradict each *)
(* other: those that judge the same reading fail to read it together,      *)
(* docker's socket check knows of no public API that the check for it      *)
(* misses, the TLS checks of mysql and searchengine take no server for     *)
(* public whose bind address passes, and redis without authentication is   *)
(* critical only if its bind address is reported as public.                *)
ChecksAgree ==
  /\ \A c, d \in JudgeTogether(package) :
       report[c].status = "error" <=> report[d].status = "error"
  /\ package = "docker" =>
       (report.socket_permissions.status = "fail"
          => report.exposed_tcp_socket.status = "fail")
  /\ package = "mysql" =>
       (report.tls_enabled.status = "warn" => report.bind_localhost.status = "warn")
  /\ package = "searchengine" =>
       (report.tls_configured.status = "warn" => report.bind_localhost.status = "warn")
  /\ package = "nginx" =>
       (report.directory_listing_risk.status = "warn" => report.autoindex.status = "warn")
  /\ package = "redis" =>
       (report.authentication.severity = "critical"
          => report.bind_localhost = Shown("warn", "high"))

(* A root account that lets in only the system's root user has the socket   *)
(* policy that the check of its password recommends (RemediationSteps of   *)
(* checkRootPassword), and should satisfy that check.                      *)
SocketPolicyAccepted ==
  package = "mysql" /\ host.rootAuth = "socket" => report.root_password.status # "fail"

(* A search engine that is bound to names of the loopback interface and    *)
(* private addresses has what the check of its bind address recommends     *)
(* (RemediationSteps of checkBindLocalhost), and should satisfy it.        *)
LocalhostAccepted ==
  /\ package = "searchengine"
  /\ BindValues(host, probe) # {} /\ "public" \notin BindValues(host, probe)
  => report.bind_localhost.status # "warn"

(* Sources whose loss may make redis's program look at the other engine,   *)
(* and the checks that then judge the other engine's configuration.        *)
EngineSources == RedisCommands \union {UnitList}
EngineChecks  == {"bind_localhost", "protected_mode", "maxmemory", "persistence",
                  "authentication"}

(* The checks of phpfpm that judge each php.ini.                           *)
PerFile == {"disabled_functions", "expose_php", "display_errors"}

(* Where a silent source is taken for one that has nothing to report, so   *)
(* that losing it may clear a check, or where another is asked in its      *)
(* place: the other engine's trace, the next php.ini, ps for systemctl.    *)
Trusted ==
  {<<"linux", "sudoers_risky_entries", "list sudoers.d">>,
   <<"docker", "socket_permissions", "ss">>,
   <<"docker", "exposed_tcp_socket", "ss">>,
   <<"docker", "exposed_tcp_socket", "daemon.json">>,
   <<"docker", "exposed_tcp_socket", "systemctl">>,
   <<"mysql", "bind_localhost", "ss">>,
   <<"mysql", "bind_localhost", "my.cnf">>,
   <<"mysql", "bind_localhost", "conf.d">>,
   <<"mysql", "config_permissions", "conf.d">>}
    \union
  {<<"redis", c, s>> : c \in EngineChecks, s \in EngineSources}
    \union
  {<<"phpfpm", c, f>> : c \in PerFile \union {"logs_configured"}, f \in IniFiles}
    \union
  {<<"phpfpm", "session_cookie_security", "cli/php.ini">>,
   <<"phpfpm", "pm_max_children", "meminfo">>}
    \union
  {<<"searchengine", "file_permissions", f>> : f \in {"config", "jvm.options", "jvm.options.d"}}
    \union
  {<<"searchengine", "bind_localhost", "ss">>,
   <<"searchengine", "bind_localhost", "config">>,
   <<"searchengine", "jvm_memory", "jvm.options.d">>,
   <<"searchengine", "jvm_memory", "meminfo">>,
   <<"searchengine", "runs_as_root", "systemctl">>}

(* Losing a source never turns a finding into a pass, except in Trusted: a *)
(* check that cannot look says so (StatusError and its like) instead of    *)
(* reporting that it saw nothing.                                          *)
LossClearsNobody ==
  [][\A s \in Sources(package) : Fails(s) =>
       \A c \in DOMAIN report :
         IsRisk(report[c]) /\ report'[c].status = "pass"
           => <<package, c, s>> \in Trusted]_vars

(* Where the absence of a proof counts against the host, so that losing a  *)
(* source may accuse it.                                                   *)
Presumed ==
  {<<"linux", "apparmor_status", s>> : s \in {"aa-status", "systemctl"}}
    \union
  {<<"linux", "forkbomb_limits", s>> : s \in {"list limits.d", "pids.max"}}
    \union
  {<<"linux", "firewall_status", s>> : s \in {UnitList, "ufw", "nft", "iptables"}}
    \union
  {<<"linux", "protection_daemon", UnitList>>,
   <<"linux", "sudoers_risky_entries", "list sudoers.d">>}
    \union
  {<<"linux", "unattended_upgrades", s>> : s \in {"dpkg-query", "apt.conf.d", "systemctl"}}
    \union
  {<<"mysql", c, s>> : c \in {"bind_localhost", "tls_enabled"}, s \in {"my.cnf", "conf.d"}}
    \union
  {<<"mysql", c, "my.cnf">> : c \in {"innodb_buffer_pool", "logs_configured", "max_connections"}}
    \union
  {<<"mysql", c, "mysql">> : c \in {"max_connections", "tls_enabled"}}
    \union
  {<<"redis", c, s>> : c \in EngineChecks, s \in EngineSources}
    \union
  {<<"varnish", "storage_malloc", s>> : s \in StorageSources}
    \union
  {<<"phpfpm", c, f>> : c \in {"logs_configured", "session_cookie_security"}, f \in IniFiles}
    \union
  {<<"phpfpm", "open_basedir", "fpm/php.ini">>}
    \union
  {<<"searchengine", c, "config">> :
     c \in {"bind_localhost", "tls_configured", "backups_snapshots",
            "dangerous_destructive_actions"}}
    \union
  {<<"searchengine", "jvm_memory", f>> : f \in {"jvm.options", "jvm.options.d"}}
    \union
  {<<"searchengine", "backups_snapshots", "curl">>}

(* Losing a source never makes a finding of what was none, except in       *)
(* Presumed, where the absence of a proof counts against the host.         *)
LossAccusesNobody ==
  [][\A s \in Sources(package) : Fails(s) =>
       \A c \in DOMAIN report :
         IsRisk(report'[c]) /\ ~ IsRisk(report[c])
           => <<package, c, s>> \in Presumed]_vars

(* What a root password costs: the program, which logs in without one, no  *)
(* longer learns what only the running server knows.                       *)
Blinding(c) == /\ package = "mysql" /\ c \in {"max_connections", "tls_enabled"}
               /\ host'.rootAuth = "password" /\ host.rootAuth # "password"

(* What is held against the host although it got stricter: for nginx,      *)
(* TLSv1 in the place of SSLv3; for phpfpm, the limit on its children that *)
(* a pool lacks or exceeds, once it counts as a worker; for searchengine,  *)
(* the name localhost, and a password that hides its version and its       *)
(* registered repositories.                                                *)
Misjudged(c) ==
  \/ /\ package = "nginx" /\ c = "tls_protocols"
     /\ \E f \in {"tlsFirst", "tlsSecond"} : host[f] = "other" /\ host'[f] = "old"
  \/ /\ package = "phpfpm" /\ c = "pm_max_children"
     /\ ~ IsWorker(host) /\ IsWorker(host')
  \/ /\ package = "searchengine" /\ c \in {"bind_localhost", "tls_configured"}
     /\ \E f \in BindSettings :
          host[f] # "localhost" /\ host'[f] = "localhost"
  \/ /\ package = "searchengine" /\ c \in {"version", "backups_snapshots"}
     /\ SecurityIsOff(host) /\ ~ SecurityIsOff(host')

(* A stricter setting is never held against the host: no check rates it    *)
(* worse, but for Blinding and Misjudged, and with Blinding the score does *)
(* not fall even then.                                                     *)
HardeningPays ==
  [][Harden =>
       /\ \A c \in DOMAIN report :
            \/ ScorePenalty(report'[c]) <= ScorePenalty(report[c])
            \/ Blinding(c) \/ Misjudged(c)
       /\ \/ CalculateScore(report') >= CalculateScore(report)
          \/ \E c \in DOMAIN report : Misjudged(c)]_vars
=============================================================================
