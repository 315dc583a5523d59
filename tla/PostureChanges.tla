--------------------------- MODULE PostureChanges ---------------------------
(***************************************************************************)
(* What two audits in a row may say differently, for every host and every  *)
(* way its sources may answer.  The loss of a source accuses the host only *)
(* where Presumed says so, the other half of LossesClearNobody; and a host *)
(* that gets stricter is not rated worse.  As in PostureProofs, there is   *)
(* one lemma for each package and one step for each of its checks.         *)
(***************************************************************************)
EXTENDS PostureProofs, ListProofs

Accused(before, after) == IsRisk(after) /\ ~ IsRisk(before)

(* What a loss means for single sources.                                   *)
LEMMA LostFacts ==
  ASSUME NEW pkg, NEW p, NEW q, NEW s, Lost(pkg, p, q, s)
  PROVE  /\ \A t \in Sources(pkg) : q[t] = "ok" => p[t] = "ok"
         /\ \A t \in Sources(pkg) : p[t] = "missing" => q[t] = "missing"
         /\ \A t \in Sources(pkg) : p[t] = "broken" => q[t] = "broken"
         /\ \A t \in Sources(pkg) : t # s => q[t] = p[t]
         /\ \A t \in Sources(pkg) \ Commands(pkg) : q[t] = "missing" => p[t] = "missing"
BY DEF Lost

(* The losses that Presumed names, one by one.                             *)
LEMMA PresumedLosses ==
  /\ \A s \in {"aa-status", "systemctl"} : <<"linux", "apparmor_status", s>> \in Presumed
  /\ \A s \in {"list limits.d", "pids.max"} : <<"linux", "forkbomb_limits", s>> \in Presumed
  /\ \A s \in {UnitList, "ufw", "nft", "iptables"} :
       <<"linux", "firewall_status", s>> \in Presumed
  /\ <<"linux", "protection_daemon", UnitList>> \in Presumed
  /\ <<"linux", "sudoers_risky_entries", "list sudoers.d">> \in Presumed
  /\ \A s \in {"dpkg-query", "apt.conf.d", "systemctl"} :
       <<"linux", "unattended_upgrades", s>> \in Presumed
  /\ \A s \in {"my.cnf", "conf.d"} : <<"mysql", "bind_localhost", s>> \in Presumed
  /\ \A s \in {"my.cnf", "conf.d", "mysql"} : <<"mysql", "tls_enabled", s>> \in Presumed
  /\ \A c \in {"innodb_buffer_pool", "logs_configured", "max_connections"} :
       <<"mysql", c, "my.cnf">> \in Presumed
  /\ <<"mysql", "max_connections", "mysql">> \in Presumed
  /\ \A c \in EngineChecks, s \in EngineSources : <<"redis", c, s>> \in Presumed
  /\ \A s \in StorageSources : <<"varnish", "storage_malloc", s>> \in Presumed
  /\ \A c \in {"logs_configured", "session_cookie_security"}, s \in IniFiles :
       <<"phpfpm", c, s>> \in Presumed
  /\ <<"phpfpm", "open_basedir", "fpm/php.ini">> \in Presumed
  /\ \A c \in {"bind_localhost", "tls_configured", "backups_snapshots",
               "dangerous_destructive_actions"} : <<"searchengine", c, "config">> \in Presumed
  /\ \A s \in {"jvm.options", "jvm.options.d"} : <<"searchengine", "jvm_memory", s>> \in Presumed
  /\ <<"searchengine", "backups_snapshots", "curl">> \in Presumed
  BY DEF Presumed

-----------------------------------------------------------------------------
(* When the loss of s makes check c find something.                        *)
LEMMA LinuxAccuses ==
  ASSUME NEW h, NEW p, NEW q, NEW s, Lost("linux", p, q, s),
         NEW c \in DOMAIN LinuxRating(h, p),
         Accused(LinuxRating(h, p)[c], LinuxRating(h, q)[c])
  PROVE  <<"linux", c, s>> \in Presumed
<1> USE DEF Accused, IsRisk, Shown, Unseen, NotApplicable, Unverified, Lost,
            Sources, Commands, Files, LinuxCommands, LinuxFiles, UnitList
<1>0. c \in {"os_version", "kernel_version", "security_updates_available",
           "unattended_upgrades", "firewall_status", "protection_daemon",
           "listening_ports", "config_permissions",
           "sudoers_risky_entries", "unknown_users", "apparmor_status",
           "auth_log_recent_logins", "forkbomb_limits",
           "process_anomalies", "xt_geoip_module"}
  BY DEF LinuxRating
<1>1. CASE c = "os_version"
  BY <1>1 DEF LinuxRating, OSVersion
<1>2. CASE c = "kernel_version"
  BY <1>2 DEF LinuxRating, KernelVersion
<1>3. CASE c = "security_updates_available"
  BY <1>3 DEF LinuxRating, SecurityUpdates
<1>4. CASE c = "unattended_upgrades"
  <2>1. Accused(UnattendedUpgrades(h, p), UnattendedUpgrades(h, q))
          => s \in {"dpkg-query", "apt.conf.d", "systemctl"}
    BY DEF UnattendedUpgrades, UnattendedInstalled, UnattendedEnabled
  <2> HIDE DEF Accused
  <2> QED BY <1>4, <2>1, PresumedLosses DEF LinuxRating
<1>5. CASE c = "firewall_status"
  <2>1. Accused(FirewallStatus(h, p), FirewallStatus(h, q))
          => s \in {UnitList, "ufw", "nft", "iptables"}
    BY DEF FirewallStatus, FirewallActive, FirewallUnprobed
  <2> HIDE DEF Accused
  <2> QED BY <1>5, <2>1, PresumedLosses DEF LinuxRating
<1>6. CASE c = "protection_daemon"
  <2>1. Accused(ProtectionDaemon(h, p), ProtectionDaemon(h, q)) => s = UnitList
    BY DEF ProtectionDaemon
  <2> HIDE DEF Accused
  <2> QED BY <1>6, <2>1, PresumedLosses DEF LinuxRating
<1>7. CASE c = "listening_ports"
  BY <1>7 DEF LinuxRating, ListeningPorts
<1>8. CASE c = "config_permissions"
  <2>1. \A t \in PermissionTargets : q[t] = "ok" => p[t] = "ok"
    BY DEF PermissionTargets
  <2>2. ~ Accused(ConfigPermissions(h, p), ConfigPermissions(h, q))
    BY <2>1 DEF ConfigPermissions
  <2> HIDE DEF Accused
  <2> QED BY <1>8, <2>2 DEF LinuxRating
<1>9. CASE c = "sudoers_risky_entries"
  <2>1. Accused(SudoersRiskyEntries(h, p), SudoersRiskyEntries(h, q))
         => s = "list sudoers.d"
    BY DEF SudoersRiskyEntries, SudoersUnread, RiskySudoersEntries
  <2> HIDE DEF Accused
  <2> QED BY <1>9, <2>1, PresumedLosses DEF LinuxRating
<1>10. CASE c = "unknown_users"
  BY <1>10 DEF LinuxRating, UnknownUsers
<1>11. CASE c = "apparmor_status"
  <2>1. Accused(AppArmorStatus(h, p), AppArmorStatus(h, q))
          => s \in {"aa-status", "systemctl"}
    BY DEF AppArmorStatus, AppArmorState, AAStatusSpeaks, AAStatusSilent
  <2> HIDE DEF Accused
  <2> QED BY <1>11, <2>1, PresumedLosses DEF LinuxRating
<1>12. CASE c = "auth_log_recent_logins"
  <2>1. ~ Accused(AuthLogRecentLogins(h, p), AuthLogRecentLogins(h, q))
    BY DEF AuthLogRecentLogins
  <2> HIDE DEF Accused
  <2> QED BY <1>12, <2>1 DEF LinuxRating
<1>13. CASE c = "forkbomb_limits"
  <2> SUFFICES ASSUME s \notin {"list limits.d", "pids.max"}  PROVE FALSE
    BY <1>13, PresumedLosses
  <2>1. ASSUME s \notin {"limits.conf", "limits.d"}
        PROVE  /\ ProcessLimitEntries(h, q) = ProcessLimitEntries(h, p)
               /\ LimitsUnread(q) = LimitsUnread(p)
    <3>1. \A t \in {"limits.conf", "limits.d", "pids.max", "list limits.d"} : q[t] = p[t]
      BY <2>1
    <3>2. /\ q["limits.conf"] = p["limits.conf"]
          /\ q["limits.d"] = p["limits.d"]
          /\ q["pids.max"] = p["pids.max"]
          /\ q["list limits.d"] = p["list limits.d"]
      BY ONLY <3>1
    <3>3. ProcessLimitEntries(h, q) = ProcessLimitEntries(h, p)
      BY ONLY <3>2 DEF ProcessLimitEntries
    <3>4. LimitsUnread(q) = LimitsUnread(p)
      BY ONLY <3>2 DEF LimitsUnread
    <3> QED BY <3>3, <3>4
  <2>2. ASSUME s \in {"limits.conf", "limits.d"}
        PROVE  LimitsUnread(q) \/ ProcessLimitEntries(h, q) = ProcessLimitEntries(h, p)
    <3>1. q[s] = "broken" /\ q["list limits.d"] = p["list limits.d"]
      BY <2>2
    <3>2. CASE s = "limits.conf" \/ p["list limits.d"] = "ok"
      BY <2>2, <3>1, <3>2 DEF LimitsUnread
    <3>3. CASE s = "limits.d" /\ p["list limits.d"] # "ok"
      BY <3>1, <3>3 DEF ProcessLimitEntries
    <3> QED BY <2>2, <3>2, <3>3
  <2>3. LimitsUnread(p) => LimitsUnread(q)
    BY DEF LimitsUnread
  <2>4. ~ Accused(ForkbombLimits(h, p), ForkbombLimits(h, q))
    BY <2>1, <2>2, <2>3 DEF ForkbombLimits
  <2> HIDE DEF Accused
  <2> QED BY <1>13, <2>4 DEF LinuxRating
<1>14. CASE c = "process_anomalies"
  BY <1>14 DEF LinuxRating, ProcessAnomalies
<1>15. CASE c = "xt_geoip_module"
  BY <1>15 DEF LinuxRating, XTGeoIPModule
<1> QED BY <1>0, <1>1, <1>2, <1>3, <1>4, <1>5, <1>6, <1>7, <1>8, <1>9, <1>10,
   <1>11, <1>12, <1>13, <1>14, <1>15

(* Without its one source, sshd is judged by nothing.                      *)
LEMMA SSHAccuses ==
  ASSUME NEW h, NEW p, NEW q, NEW s, Lost("sshd", p, q, s),
         NEW c \in DOMAIN SSHRating(h, p),
         Accused(SSHRating(h, p)[c], SSHRating(h, q)[c])
  PROVE  <<"sshd", c, s>> \in Presumed
<1>1. \A option, rating :
        ~ Accused(WhenKnown(h, p, option, rating), WhenKnown(h, q, option, rating))
  BY DEF WhenKnown, Accused, IsRisk, Unverified, Unseen, Lost, Sources, Commands, Files,
     SSHCommands, SSHFiles
<1>2. c \in {"permit_root_login", "password_authentication", "permit_empty_passwords"}
  BY DEF SSHRating
<1>3. CASE c = "permit_root_login"
  BY <1>1, <1>3 DEF SSHRating, PermitRootLogin
<1>4. CASE c = "password_authentication"
  BY <1>1, <1>4 DEF SSHRating, PasswordAuthentication
<1>5. CASE c = "permit_empty_passwords"
  BY <1>1, <1>5 DEF SSHRating, PermitEmptyPasswords
<1> QED BY <1>2, <1>3, <1>4, <1>5

(* For docker a trace that is lost only hides it, and an endpoint that is  *)
(* lost only leaves fewer.                                                 *)
LEMMA DockerAccuses ==
  ASSUME NEW h, NEW p, NEW q, NEW s, Lost("docker", p, q, s),
         NEW c \in DOMAIN DockerRating(h, p),
         Accused(DockerRating(h, p)[c], DockerRating(h, q)[c])
  PROVE  <<"docker", c, s>> \in Presumed
<1> DEFINE All == DockerCommands \union DockerFiles \union {UnitList}
<1>1. /\ \A t \in All : q[t] = "ok" => p[t] = "ok"
      /\ \A t \in All : p[t] = "missing" => q[t] = "missing"
      /\ \A t \in All : p[t] = "broken" => q[t] = "broken"
      /\ \A t \in DockerFiles : q[t] = "missing" => p[t] = "missing"
  <2>1. All = Sources("docker") /\ DockerFiles \subseteq Sources("docker") \ Commands("docker")
    BY DEF Sources, Commands, Files, DockerCommands, DockerFiles, UnitList
  <2> QED BY <2>1, LostFacts
<1> USE DEF DockerCommands, DockerFiles, UnitList
<1>2. DockerDetected(h, q) => DockerDetected(h, p)
  BY <1>1 DEF DockerDetected
<1>3. \A a, b : Accused(WhenDetected(h, p, a), WhenDetected(h, q, b)) => Accused(a, b)
  BY <1>2 DEF WhenDetected, Accused, IsRisk, NotApplicable, Unseen
<1>4. \A a : ~ Accused(a, a)
  BY DEF Accused
<1>5. ContainersListed(h, q) => ContainersListed(h, p)
  BY <1>1 DEF ContainersListed
<1>6. \A found \in BOOLEAN : \A a, b :
        ~ Accused(ContainerCheck(h, p, found, a, b), ContainerCheck(h, q, found, a, b))
  BY <1>3, <1>4, <1>5 DEF ContainerCheck, Accused, IsRisk, Unverified, Unseen
<1>7. \A below \in {"containers", "overlay2"} : \A a :
        ~ Accused(WhenReadable(p, below, a), WhenReadable(q, below, a))
  BY <1>1 DEF WhenReadable, Accused, IsRisk, Unverified, NotApplicable, Unseen
<1>8. /\ ListeningEndpoints(h, q) \subseteq ListeningEndpoints(h, p)
      /\ ConfiguredEndpoints(h, q) \subseteq ConfiguredEndpoints(h, p)
  BY <1>1 DEF ListeningEndpoints, ConfiguredEndpoints
<1>0. c \in {"daemon_detected", "version", "socket_permissions",
           "exposed_tcp_socket", "privileged_containers", "host_mounts",
           "host_network", "dangerous_capabilities", "no_new_privileges",
           "container_user_root", "image_tag_latest", "restart_policy",
           "unused_data", "container_logs_large", "overlay2_usage"}
  BY DEF DockerRating
<1>9. CASE c = "daemon_detected"
  BY <1>3, <1>4, <1>9 DEF DockerRating, DaemonDetected
<1>10. CASE c = "version"
  <2>1. ~ IsRisk(DockerVersion(h, q))
    BY DEF DockerVersion, WhenDetected, IsRisk, NotApplicable, Unverified, Unseen
  <2> QED BY <1>10, <2>1 DEF DockerRating, Accused
<1>11. CASE c = "socket_permissions"
  <2>1. PublicAPI(ListeningEndpoints(h, q)) # {} => PublicAPI(ListeningEndpoints(h, p)) # {}
    BY <1>8 DEF PublicAPI
  <2>2. ~ Accused(SocketPermissions(h, p), SocketPermissions(h, q))
    BY <1>1, <2>1 DEF SocketPermissions, Accused, IsRisk, Shown, NotApplicable, Unverified,
       Unseen
  <2> QED BY <1>11, <2>2 DEF DockerRating
<1>12. CASE c = "exposed_tcp_socket"
  <2>1. ListeningEndpoints(h, p) \union ConfiguredEndpoints(h, p) = {}
          => ListeningEndpoints(h, q) \union ConfiguredEndpoints(h, q) = {}
    BY <1>8
  <2>2. ~ Accused(ExposedTCPSocket(h, p), ExposedTCPSocket(h, q))
    BY <1>3, <2>1 DEF ExposedTCPSocket, Accused, IsRisk, Shown
  <2> QED BY <1>12, <2>2 DEF DockerRating
<1>13. CASE c = "privileged_containers"
  BY <1>6, <1>13 DEF DockerRating, PrivilegedContainers
<1>14. CASE c = "host_mounts"
  BY <1>6, <1>14 DEF DockerRating, HostMounts
<1>15. CASE c = "host_network"
  BY <1>6, <1>15 DEF DockerRating, HostNetwork
<1>16. CASE c = "dangerous_capabilities"
  BY <1>6, <1>16 DEF DockerRating, DangerousCapabilities
<1>17. CASE c = "no_new_privileges"
  BY <1>6, <1>17 DEF DockerRating, NoNewPrivileges
<1>18. CASE c = "container_user_root"
  BY <1>6, <1>18 DEF DockerRating, ContainerUserRoot
<1>19. CASE c = "image_tag_latest"
  BY <1>6, <1>19 DEF DockerRating, ImageTagLatest
<1>20. CASE c = "restart_policy"
  BY <1>6, <1>20 DEF DockerRating, RestartPolicy
<1>21. CASE c = "unused_data"
  <2>1. q["docker system df"] = "ok" => p["docker system df"] = "ok"
    BY <1>1
  <2>2. ~ Accused(UnusedData(h, p), UnusedData(h, q))
    <3>1. CASE q["docker system df"] = "ok"
      BY <1>3, <1>4, <2>1, <3>1 DEF UnusedData
    <3>2. CASE q["docker system df"] # "ok"
      <4>1. ~ IsRisk(UnusedData(h, q))
        BY <3>2 DEF UnusedData, WhenDetected, IsRisk, NotApplicable, Unverified, Unseen
      <4> QED BY <4>1 DEF Accused
    <3> QED BY <3>1, <3>2
  <2> QED BY <1>21, <2>2 DEF DockerRating
<1>22. CASE c = "container_logs_large"
  BY <1>7, <1>22 DEF DockerRating, ContainerLogsLarge
<1>23. CASE c = "overlay2_usage"
  BY <1>7, <1>23 DEF DockerRating, Overlay2Usage
<1> QED BY <1>0, <1>9, <1>10, <1>11, <1>12, <1>13, <1>14, <1>15, <1>16, <1>17, <1>18,
           <1>19, <1>20, <1>21, <1>22, <1>23

(* For mysql the absence of a file, or of a client, is taken for the       *)
(* absence of what they would have said.                                   *)
LEMMA MySQLAccuses ==
  ASSUME NEW h, NEW p, NEW q, NEW s, Lost("mysql", p, q, s),
         NEW c \in DOMAIN MySQLRating(h, p),
         Accused(MySQLRating(h, p)[c], MySQLRating(h, q)[c])
  PROVE  <<"mysql", c, s>> \in Presumed
<1> DEFINE All == MySQLCommands \union MySQLFiles \union {UnitList}
<1>1. /\ \A t \in All : q[t] = "ok" => p[t] = "ok"
      /\ \A t \in All : p[t] = "missing" => q[t] = "missing"
      /\ \A t \in All : p[t] = "broken" => q[t] = "broken"
      /\ \A t \in All : t # s => q[t] = p[t]
      /\ \A t \in MySQLFiles : q[t] = "missing" => p[t] = "missing"
      /\ s \in All
  <2>1. All = Sources("mysql") /\ MySQLFiles \subseteq Sources("mysql") \ Commands("mysql")
    BY DEF Sources, Commands, Files, MySQLCommands, MySQLFiles, UnitList
  <2> QED BY <2>1, LostFacts DEF Lost
<1> USE DEF MySQLCommands, MySQLFiles, UnitList
<1>2. MySQLDetected(h, q) => MySQLDetected(h, p)
  BY <1>1 DEF MySQLDetected
<1>3. \A a, b : Accused(WhenMySQL(h, p, a), WhenMySQL(h, q, b)) => Accused(a, b)
  BY <1>2 DEF WhenMySQL, Accused, IsRisk, NotApplicable, Unseen
<1>4. \A a : ~ Accused(a, a)
  BY DEF Accused
<1>5. LoginWorks(h, q) => LoginWorks(h, p)
  BY <1>1 DEF LoginWorks, ServerAnswers
<1>6. s # "mysql" => LoginWorks(h, q) = LoginWorks(h, p)
  BY <1>1 DEF LoginWorks, ServerAnswers
<1>7. s \notin {"my.cnf", "conf.d"} => LoadedFiles(q) = LoadedFiles(p)
  <2>1. s \notin {"my.cnf", "conf.d"} => q["my.cnf"] = p["my.cnf"] /\ q["conf.d"] = p["conf.d"]
    BY <1>1
  <2> QED BY <2>1 DEF LoadedFiles
<1>8. s # "my.cnf" => ("my.cnf" \in LoadedFiles(q) <=> "my.cnf" \in LoadedFiles(p))
  BY <1>1 DEF LoadedFiles
<1>9. LoadedFiles(q) \subseteq LoadedFiles(p)
  BY <1>1 DEF LoadedFiles
<1>10. s \notin {"my.cnf", "conf.d"} => (ExposedToPublic(h, q) => ExposedToPublic(h, p))
  BY <1>1, <1>7 DEF ExposedToPublic, BindAddress, ListensOn, Configured
<1>0. c \in {"version", "bind_localhost", "remote_access", "root_password",
           "anonymous_users", "innodb_buffer_pool", "max_connections",
           "tls_enabled", "logs_configured", "backups_detected",
           "config_permissions", "skip_name_resolve"}
  BY DEF MySQLRating
<1>11. CASE c = "version"
  <2>1. ~ IsRisk(MySQLVersion(h, q))
    BY DEF MySQLVersion, WhenMySQL, IsRisk, NotApplicable, Unverified, Unseen
  <2> QED BY <1>11, <2>1 DEF MySQLRating, Accused
<1>12. CASE c = "bind_localhost"
  <2> SUFFICES ASSUME s \notin {"my.cnf", "conf.d"}  PROVE FALSE
    BY <1>12, PresumedLosses
  <2>1. ~ Accused(BindLocalhost(h, p), BindLocalhost(h, q))
    BY <1>3, <1>10 DEF BindLocalhost, Accused, IsRisk, Shown
  <2> QED BY <1>12, <2>1 DEF MySQLRating
<1>13. CASE c = "remote_access"
  <2>1. ~ Accused(RemoteAccess(h, p), RemoteAccess(h, q))
    BY <1>3, <1>5 DEF RemoteAccess, Accused, IsRisk, Shown, Unseen
  <2> QED BY <1>13, <2>1 DEF MySQLRating
<1>14. CASE c = "root_password"
  <2>1. ~ Accused(RootPassword(h, p), RootPassword(h, q))
    BY <1>3, <1>5 DEF RootPassword, Accused, IsRisk, Shown, Unseen, NotApplicable
  <2> QED BY <1>14, <2>1 DEF MySQLRating
<1>15. CASE c = "anonymous_users"
  <2>1. ~ Accused(AnonymousUsers(h, p), AnonymousUsers(h, q))
    BY <1>3, <1>5 DEF AnonymousUsers, Accused, IsRisk, Shown, Unseen, NotApplicable
  <2> QED BY <1>15, <2>1 DEF MySQLRating
<1>16. CASE c = "innodb_buffer_pool"
  <2> SUFFICES ASSUME s # "my.cnf"  PROVE FALSE
    BY <1>16, PresumedLosses
  <2>1. q["meminfo"] = "ok" => p["meminfo"] = "ok"
    BY <1>1
  <2>2. ~ Accused(InnoDBBufferPool(h, p), InnoDBBufferPool(h, q))
    BY <1>3, <1>8, <2>1 DEF InnoDBBufferPool, Accused, IsRisk, Shown
  <2> QED BY <1>16, <2>2 DEF MySQLRating
<1>17. CASE c = "max_connections"
  <2> SUFFICES ASSUME s \notin {"my.cnf", "mysql"}  PROVE FALSE
    BY <1>17, PresumedLosses
  <2>1. Configured(h, q, "maxIsConfigured", TRUE) <=> Configured(h, p, "maxIsConfigured", TRUE)
    BY <1>8 DEF Configured
  <2>2. LoginWorks(h, q) <=> LoginWorks(h, p)
    BY <1>6
  <2>3. ~ Accused(MaxConnections(h, p), MaxConnections(h, q))
    <3> DEFINE Graded == IF h.maxConnections > 1000 THEN Shown("warn", "medium")
                                                    ELSE Shown("pass", "low")
               Known(z) == Configured(h, z, "maxIsConfigured", TRUE) \/ LoginWorks(h, z)
    <3>0. /\ MaxConnections(h, p)
                = WhenMySQL(h, p, IF ~ Known(p) THEN Shown("warn", "low") ELSE Graded)
          /\ MaxConnections(h, q)
                = WhenMySQL(h, q, IF ~ Known(q) THEN Shown("warn", "low") ELSE Graded)
      BY DEF MaxConnections
    <3>1. Known(q) <=> Known(p)
      BY <2>1, <2>2
    <3> HIDE DEF Graded, Known
    <3>2. (IF ~ Known(p) THEN Shown("warn", "low") ELSE Graded)
            = (IF ~ Known(q) THEN Shown("warn", "low") ELSE Graded)
      BY <3>1
    <3> QED BY <1>3, <1>4, <3>0, <3>2
  <2> QED BY <1>17, <2>3 DEF MySQLRating
<1>18. CASE c = "tls_enabled"
  <2> SUFFICES ASSUME s \notin {"my.cnf", "conf.d", "mysql"}  PROVE FALSE
    BY <1>18, PresumedLosses
  <2>1. TLSOK(h, q) <=> TLSOK(h, p)
    BY <1>6, <1>7 DEF TLSOK, Configured
  <2>2. ~ Accused(TLSEnabled(h, p), TLSEnabled(h, q))
    BY <1>3, <1>10, <2>1 DEF TLSEnabled, Accused, IsRisk, Shown
  <2> QED BY <1>18, <2>2 DEF MySQLRating
<1>19. CASE c = "logs_configured"
  <2> SUFFICES ASSUME s # "my.cnf"  PROVE FALSE
    BY <1>19, PresumedLosses
  <2>1. ~ Accused(LogsConfigured(h, p), LogsConfigured(h, q))
    BY <1>3, <1>8 DEF LogsConfigured, Configured, Accused, IsRisk, Shown
  <2> QED BY <1>19, <2>1 DEF MySQLRating
<1>20. CASE c = "backups_detected"
  <2>1. q["backups"] = p["backups"] \/ q["backups"] = "broken"
    <3>1. s = "backups" => q["backups"] = "broken"
      BY DEF Lost, Commands
    <3> QED BY <1>1, <3>1
  <2>2. ~ Accused(BackupsDetected(h, p), BackupsDetected(h, q))
    BY <1>3, <2>1 DEF BackupsDetected, Accused, IsRisk, Shown, Unseen, NotApplicable
  <2> QED BY <1>20, <2>2 DEF MySQLRating
<1>21. CASE c = "config_permissions"
  <2>1. LoadedModes(h, q) \subseteq LoadedModes(h, p)
    BY <1>9 DEF LoadedModes
  <2>2. LoadedFiles(p) = {} => LoadedFiles(q) = {}
    BY <1>9
  <2>3. ~ Accused(MySQLConfigPermissions(h, p), MySQLConfigPermissions(h, q))
    BY <1>3, <2>1, <2>2 DEF MySQLConfigPermissions, Accused, IsRisk, Shown, Unseen,
       NotApplicable
  <2> QED BY <1>21, <2>3 DEF MySQLRating
<1>22. CASE c = "skip_name_resolve"
  <2>1. ~ IsRisk(SkipNameResolve(h, q))
    BY DEF SkipNameResolve, WhenMySQL, IsRisk, Shown, Unseen, NotApplicable
  <2> QED BY <1>22, <2>1 DEF MySQLRating, Accused
<1> QED BY <1>0, <1>11, <1>12, <1>13, <1>14, <1>15, <1>16, <1>17, <1>18, <1>19, <1>20,
           <1>21, <1>22

(* For nginx, losing anything leaves each check its verdict or an excuse.  *)
LEMMA NginxAccuses ==
  ASSUME NEW h, NEW p, NEW q, NEW s, Lost("nginx", p, q, s),
         NEW c \in DOMAIN NginxRating(h, p),
         Accused(NginxRating(h, p)[c], NginxRating(h, q)[c])
  PROVE  <<"nginx", c, s>> \in Presumed
<1>1. NginxDetected(h, q) => NginxDetected(h, p)
  BY DEF NginxDetected, Lost, Sources, Commands, Files, NginxCommands, NginxFiles, UnitList
<1>2. /\ q["nginx"] = "ok" => p["nginx"] = "ok"
      /\ q["nginx.conf"] = "ok" => p["nginx.conf"] = "ok"
  BY DEF Lost, Sources, Commands, Files, NginxCommands, NginxFiles, UnitList
<1>3. \A a : ~ Accused(WhenDumped(h, p, a), WhenDumped(h, q, a))
  BY <1>1, <1>2 DEF WhenDumped, Accused, IsRisk, NotApplicable, Unverified, Unseen
<1>c. c \in {"service_detected", "server_tokens", "autoindex",
           "hidden_files_access", "directory_listing_risk",
           "tls_protocols", "security_headers", "default_vhost"}
  BY DEF NginxRating
<1>4. CASE c = "service_detected"
  BY <1>4 DEF NginxRating, ServiceDetected, Accused, IsRisk, Unseen
<1>5. CASE c = "server_tokens"
  BY <1>3, <1>5 DEF NginxRating, ServerTokens
<1>6. CASE c = "autoindex"
  BY <1>3, <1>6 DEF NginxRating, Autoindex
<1>7. CASE c = "hidden_files_access"
  BY <1>3, <1>7 DEF NginxRating, HiddenFilesAccess
<1>8. CASE c = "directory_listing_risk"
  BY <1>3, <1>8 DEF NginxRating, DirectoryListingRisk
<1>9. CASE c = "tls_protocols"
  BY <1>3, <1>9 DEF NginxRating, TLSProtocols
<1>10. CASE c = "security_headers"
  BY <1>3, <1>10 DEF NginxRating, SecurityHeaders
<1>11. CASE c = "default_vhost"
  BY <1>3, <1>11 DEF NginxRating, DefaultVhost
<1> QED BY <1>c, <1>4, <1>5, <1>6, <1>7, <1>8, <1>9, <1>10, <1>11

(* For varnish, only the storage is presumed to be missing.                *)
LEMMA VarnishAccuses ==
  ASSUME NEW h, NEW p, NEW q, NEW s, Lost("varnish", p, q, s),
         NEW c \in DOMAIN VarnishRating(h, p),
         Accused(VarnishRating(h, p)[c], VarnishRating(h, q)[c])
  PROVE  <<"varnish", c, s>> \in Presumed
<1> DEFINE All == VarnishCommands \union VarnishFiles \union {UnitList}
<1>1. /\ \A t \in All : q[t] = "ok" => p[t] = "ok"
      /\ \A t \in All : p[t] = "missing" => q[t] = "missing"
      /\ \A t \in All : t # s => q[t] = p[t]
  <2>1. All = Sources("varnish")
    BY DEF Sources, Commands, Files
  <2> QED BY <2>1, LostFacts
<1> USE DEF VarnishCommands, VarnishFiles, UnitList
<1>2. VarnishDetected(h, q) => VarnishDetected(h, p)
  BY <1>1 DEF VarnishDetected
<1>3. \A a, b : Accused(WhenVarnish(h, p, a), WhenVarnish(h, q, b)) => Accused(a, b)
  BY <1>2 DEF WhenVarnish, Accused, IsRisk, NotApplicable, Unseen
<1>4. \A x, y, a : (y => x) =>
        ~ Accused(WhenAnswered(h, p, x, a), WhenAnswered(h, q, y, a))
  BY <1>3 DEF WhenAnswered, Accused, IsRisk, Unverified, Unseen
<1>5. /\ q["varnishd"] = "ok" => p["varnishd"] = "ok"
      /\ q["varnishstat"] = "ok" => p["varnishstat"] = "ok"
      /\ q["ss"] = "ok" => p["ss"] = "ok"
  BY <1>1
<1>6. \A a : ~ Accused(WhenCounted(h, p, a), WhenCounted(h, q, a))
  BY <1>4, <1>5 DEF WhenCounted
<1>c. c \in {"version", "storage_malloc", "cache_hit_ratio",
           "lru_nuked_objects", "backend_health", "listen_ports"}
  BY DEF VarnishRating
<1>7. CASE c = "version"
  BY <1>4, <1>5, <1>7 DEF VarnishRating, VarnishVersion
<1>8. CASE c = "storage_malloc"
  <2> SUFFICES ASSUME s \notin StorageSources  PROVE FALSE
    BY <1>8, PresumedLosses
  <2>1. StorageKinds(h, q) = StorageKinds(h, p)
    <3>1. \A t \in StorageSources : q[t] = p[t]
      BY <1>1 DEF StorageSources
    <3> QED BY <3>1 DEF StorageKinds
  <2>2. ~ Accused(StorageMalloc(h, p), StorageMalloc(h, q))
    BY <1>3, <2>1 DEF StorageMalloc, Accused
  <2> QED BY <1>8, <2>2 DEF VarnishRating
<1>9. CASE c = "cache_hit_ratio"
  BY <1>6, <1>9 DEF VarnishRating, CacheHitRatio
<1>10. CASE c = "lru_nuked_objects"
  BY <1>6, <1>10 DEF VarnishRating, LRUNukedObjects
<1>11. CASE c = "backend_health"
  BY <1>6, <1>11 DEF VarnishRating, BackendHealth
<1>12. CASE c = "listen_ports"
  BY <1>4, <1>5, <1>12 DEF VarnishRating, VarnishListenPorts
<1> QED BY <1>c, <1>7, <1>8, <1>9, <1>10, <1>11, <1>12

(* For redis, a source that is no trace of an engine is its configuration, *)
(* without which nothing is judged.                                        *)
LEMMA RedisAccuses ==
  ASSUME NEW h, NEW p, NEW q, NEW s, Lost("redis", p, q, s),
         NEW c \in DOMAIN RedisRating(h, p),
         Accused(RedisRating(h, p)[c], RedisRating(h, q)[c])
  PROVE  <<"redis", c, s>> \in Presumed
<1>c. c \in {"version", "bind_localhost", "protected_mode", "maxmemory",
           "persistence", "authentication"}
  BY DEF RedisRating
<1>1. CASE c = "version"
  <2>1. ~ IsRisk(RedisVersion(h, q))
    BY DEF RedisVersion, IsRisk, NotApplicable, Unverified, Unseen
  <2> QED BY <1>1, <2>1 DEF RedisRating, Accused
<1> SUFFICES ASSUME c # "version", s \notin EngineSources  PROVE FALSE
  BY <1>1, <1>c, PresumedLosses DEF EngineChecks
<1>2. /\ s \in RedisFiles /\ q[s] = "broken" /\ p[s] = "ok"
      /\ \A t \in Sources("redis") : t # s => q[t] = p[t]
  BY DEF Lost, Sources, Files, Commands, EngineSources, RedisFiles, RedisCommands
<1>3. \A e \in Engines : TraceFoundAt(h, q, e) = TraceFoundAt(h, p, e)
  BY <1>2 DEF TraceFoundAt, RedisPresent, Engines, Server, Client, Conf, Sources,
     Files, Commands, RedisFiles, RedisCommands, UnitList
<1>4. EngineJudged(h, q) = EngineJudged(h, p)
  BY <1>3 DEF EngineJudged, Engines
<1>5. \A fact : RedisSetting(h, q, fact) = RedisSetting(h, p, fact)
  BY <1>4 DEF RedisSetting
<1>6. \A a : ~ Accused(WhenRedisConfigured(h, p, a), WhenRedisConfigured(h, q, a))
  <2>1. EngineJudged(h, q) \in Engines \union {"none"}
    BY DEF EngineJudged, Engines
  <2>2. \A e \in Engines : /\ q[Conf(e)] = "broken" \/ q[Conf(e)] = p[Conf(e)]
                           /\ RedisPresent(h, q, e, Conf(e)) = RedisPresent(h, p, e, Conf(e))
    BY <1>2 DEF Engines, Conf, RedisPresent, Sources, Files, Commands, RedisFiles
  <2> QED BY <1>4, <2>1, <2>2
      DEF WhenRedisConfigured, Accused, IsRisk, NotApplicable, Unverified, Unseen
<1>7. CASE c = "bind_localhost"
  <2>1. ~ Accused(RedisBindLocalhost(h, p), RedisBindLocalhost(h, q))
    BY <1>5, <1>6 DEF RedisBindLocalhost
  <2> QED BY <1>7, <2>1 DEF RedisRating
<1>8. CASE c = "protected_mode"
  <2>1. ~ Accused(ProtectedMode(h, p), ProtectedMode(h, q))
    BY <1>5, <1>6 DEF ProtectedMode
  <2> QED BY <1>8, <2>1 DEF RedisRating
<1>9. CASE c = "maxmemory"
  <2>1. ~ Accused(MaxMemory(h, p), MaxMemory(h, q))
    BY <1>5, <1>6 DEF MaxMemory
  <2> QED BY <1>9, <2>1 DEF RedisRating
<1>10. CASE c = "persistence"
  <2>1. ~ Accused(Persistence(h, p), Persistence(h, q))
    BY <1>5, <1>6 DEF Persistence
  <2> QED BY <1>10, <2>1 DEF RedisRating
<1>11. CASE c = "authentication"
  <2>1. ~ Accused(Authentication(h, p), Authentication(h, q))
    BY <1>5, <1>6 DEF Authentication
  <2> QED BY <1>11, <2>1 DEF RedisRating
<1> QED BY <1>c, <1>7, <1>8, <1>9, <1>10, <1>11

(* For phpfpm, a pool file that is lost leaves every check unverified, and *)
(* a php.ini that is lost accuses where only one of the files must have a  *)
(* setting.                                                                *)
LEMMA PhpAccuses ==
  ASSUME NEW h, NEW p, NEW q, NEW s, Lost("phpfpm", p, q, s),
         NEW c \in DOMAIN PhpRating(h, p),
         Accused(PhpRating(h, p)[c], PhpRating(h, q)[c])
  PROVE  <<"phpfpm", c, s>> \in Presumed
<1> DEFINE All == PhpCommands \union PhpFiles \union {UnitList}
<1>1. /\ \A t \in All : q[t] = "ok" => p[t] = "ok"
      /\ \A t \in All : p[t] = "missing" => q[t] = "missing"
      /\ \A t \in All : p[t] = "broken" => q[t] = "broken"
      /\ \A t \in All : t # s => q[t] = p[t]
      /\ \A t \in PhpFiles : q[t] = "missing" => p[t] = "missing"
      /\ s \in PhpFiles => q[s] = "broken"
  <2>1. All = Sources("phpfpm") /\ PhpFiles \subseteq Sources("phpfpm") \ Commands("phpfpm")
    BY DEF Sources, Commands, Files, PhpCommands, PhpFiles, IniFiles, UnitList
  <2> QED BY <2>1, LostFacts DEF Lost
<1>2. PhpDetected(h, q) => PhpDetected(h, p)
  <2>1. p["unit list"] = "ok" \/ q["unit list"] # "ok"
    BY <1>1 DEF UnitList
  <2>2. \A t \in PhpCommands \union IniFiles \union {"pool"} : q[t] # "missing" => p[t] # "missing"
    BY <1>1 DEF PhpFiles
  <2> QED BY <2>1, <2>2 DEF PhpDetected
<1>3. \A a, b : Accused(WhenDiscovered(h, p, a), WhenDiscovered(h, q, b))
                  => Accused(a, b) /\ q["pool"] = p["pool"] /\ q["pool"] # "broken"
  <2>1. q["pool"] # "broken" => q["pool"] = p["pool"]
    BY <1>1 DEF PhpFiles
  <2>2. p["pool"] = "broken" => q["pool"] = "broken"
    BY <1>1 DEF PhpFiles
  <2> QED BY <1>2, <2>1, <2>2 DEF WhenDiscovered, Accused, IsRisk, NotApplicable, Unverified, Unseen
<1>4. \A a : ~ Accused(a, a)
  BY DEF Accused
<1>5. InisRead(q) \subseteq InisRead(p)
  BY <1>1 DEF InisRead, PhpFiles
<1>6. s \notin IniFiles => InisRead(q) = InisRead(p)
  BY <1>1 DEF InisRead, PhpFiles
<1>7. \A x, y : IniValues(q, x, y) \subseteq IniValues(p, x, y)
  BY <1>5 DEF IniValues
<1>8. \A x, y : InisRead(q) # {} => IniValues(q, x, y) # {}
  BY DEF IniValues
<1>9. \A a, b : Accused(WhenIniFound(h, p, a), WhenIniFound(h, q, b))
                  => Accused(a, b) /\ InisRead(q) # {}
  BY <1>3, <1>5 DEF WhenIniFound, Accused, IsRisk, NotApplicable, Unseen
<1>10. \A a, b : Accused(WhenPoolFound(h, p, a), WhenPoolFound(h, q, b)) => Accused(a, b)
  BY <1>3 DEF WhenPoolFound, Accused, IsRisk, NotApplicable, Unseen
<1>11. \A a, b : Accused(WhenWorkerFound(h, p, a), WhenWorkerFound(h, q, b)) => Accused(a, b)
  BY <1>10 DEF WhenWorkerFound, Accused, IsRisk, NotApplicable, Unseen
<1>c. c \in {"available_versions", "pm_max_children", "disabled_functions", "open_basedir",
           "logs_configured", "session_cookie_security", "expose_php", "display_errors",
           "pool_user", "pool_socket_security"}
  BY DEF PhpRating
<1>12. CASE c = "available_versions"
  BY <1>12 DEF PhpRating, AvailableVersions, Accused, IsRisk, Unseen
<1>13. CASE c = "pm_max_children"
  <2>1. q["meminfo"] = "ok" => p["meminfo"] = "ok"
    BY <1>1 DEF PhpFiles
  <2>2. ~ Accused(PMMaxChildren(h, p), PMMaxChildren(h, q))
    BY <1>11, <2>1 DEF PMMaxChildren, Accused, IsRisk, Shown
  <2> QED BY <1>13, <2>2 DEF PhpRating
<1>14. CASE c = "disabled_functions"
  <2>1. ~ Accused(DisabledFunctions(h, p), DisabledFunctions(h, q))
    BY <1>7, <1>9 DEF DisabledFunctions, Accused, IsRisk, Shown
  <2> QED BY <1>14, <2>1 DEF PhpRating
<1>15. CASE c = "open_basedir"
  <2> SUFFICES ASSUME s # "fpm/php.ini"  PROVE FALSE
    BY <1>15, PresumedLosses
  <2>1. "fpm/php.ini" \in InisRead(q) <=> "fpm/php.ini" \in InisRead(p)
    BY <1>1 DEF InisRead, PhpFiles, IniFiles
  <2>2. \A x : "set" \in IniValues(q, "unset", x) <=> "set" \in IniValues(p, "unset", x)
    BY <2>1 DEF IniValues, InisRead, IniFiles
  <2>3. ~ Accused(OpenBasedir(h, p), OpenBasedir(h, q))
    BY <1>3, <2>2 DEF OpenBasedir, Accused, IsRisk, Shown
  <2> QED BY <1>15, <2>3 DEF PhpRating
<1>16. CASE c = "logs_configured"
  <2> SUFFICES ASSUME s \notin IniFiles  PROVE FALSE
    BY <1>16, PresumedLosses
  <2>1. q["pool"] = p["pool"] => ErrorLog(h, q) = ErrorLog(h, p)
    BY <1>6 DEF ErrorLog, FirstSet
  <2>2. ~ Accused(PhpLogsConfigured(h, p), PhpLogsConfigured(h, q))
    BY <1>3, <2>1 DEF PhpLogsConfigured, Accused, IsRisk, Shown
  <2> QED BY <1>16, <2>2 DEF PhpRating
<1>17. CASE c = "session_cookie_security"
  <2> SUFFICES ASSUME s \notin IniFiles  PROVE FALSE
    BY <1>17, PresumedLosses
  <2>1. \A x, y : FirstSet(q, x, y) = FirstSet(p, x, y)
    BY <1>6 DEF FirstSet
  <2>2. ~ Accused(SessionCookieSecurity(h, p), SessionCookieSecurity(h, q))
    BY <1>3, <2>1 DEF SessionCookieSecurity, CookiesHardened, Accused, IsRisk, Shown
  <2> QED BY <1>17, <2>2 DEF PhpRating
<1>18. CASE c = "expose_php"
  <2>1. \A x, y : InisRead(q) # {} /\ IniValues(p, x, y) = {"off"} => IniValues(q, x, y) = {"off"}
    BY <1>7, <1>8
  <2>2. ~ Accused(ExposePHP(h, p), ExposePHP(h, q))
    BY <1>9, <2>1 DEF ExposePHP, Accused, IsRisk, Shown
  <2> QED BY <1>18, <2>2 DEF PhpRating
<1>19. CASE c = "display_errors"
  <2>1. ~ Accused(DisplayErrors(h, p), DisplayErrors(h, q))
    BY <1>7, <1>9 DEF DisplayErrors, Accused, IsRisk, Shown
  <2> QED BY <1>19, <2>1 DEF PhpRating
<1>20. CASE c = "pool_user"
  <2>1. ~ Accused(PoolUser(h, p), PoolUser(h, q))
    BY <1>4, <1>11 DEF PoolUser
  <2> QED BY <1>20, <2>1 DEF PhpRating
<1>21. CASE c = "pool_socket_security"
  <2>1. ~ Accused(PoolSocketSecurity(h, p), PoolSocketSecurity(h, q))
    BY <1>4, <1>10 DEF PoolSocketSecurity
  <2> QED BY <1>21, <2>1 DEF PhpRating
<1> QED BY <1>c, <1>12, <1>13, <1>14, <1>15, <1>16, <1>17, <1>18, <1>19, <1>20, <1>21

(* For searchengine, a lost setting counts as one that was never made, and *)
(* without systemd the process itself tells its user.                      *)
LEMMA SearchAccuses ==
  ASSUME NEW h, NEW p, NEW q, NEW s, Lost("searchengine", p, q, s),
         NEW c \in DOMAIN SearchRating(h, p),
         Accused(SearchRating(h, p)[c], SearchRating(h, q)[c])
  PROVE  <<"searchengine", c, s>> \in Presumed
<1> DEFINE All == SearchCommands \union SearchFiles \union {UnitList}
<1>1. /\ \A t \in All : q[t] = "ok" => p[t] = "ok"
      /\ \A t \in All : p[t] = "missing" => q[t] = "missing"
      /\ \A t \in All : p[t] = "broken" => q[t] = "broken"
      /\ \A t \in All : t # s => q[t] = p[t]
      /\ \A t \in SearchFiles : q[t] = "missing" => p[t] = "missing"
  <2>1. All = Sources("searchengine")
    BY DEF Sources, Commands, Files
  <2>2. SearchFiles \subseteq Sources("searchengine") \ Commands("searchengine")
    BY DEF Sources, Commands, Files, SearchCommands, SearchFiles
  <2> QED BY <2>1, <2>2, LostFacts
<1> USE DEF SearchCommands, SearchFiles, UnitList
<1>2. SearchDetected(h, q) => SearchDetected(h, p)
  BY <1>1 DEF SearchDetected
<1>3. \A a, b : Accused(WhenSearch(h, p, a), WhenSearch(h, q, b)) => Accused(a, b)
  BY <1>2 DEF WhenSearch, Accused, IsRisk, NotApplicable, Unseen
<1>4. s # "config" => \A f : SearchConfigured(h, q, f) = SearchConfigured(h, p, f)
  <2>1. s # "config" => q["config"] = p["config"]
    BY <1>1
  <2> QED BY <2>1 DEF SearchConfigured
<1>5. SearchListensOn(h, q) = SearchListensOn(h, p) \/ SearchListensOn(h, q) = "none"
  BY <1>1 DEF SearchListensOn
<1>6. s # "config" => (SearchIsPublic(h, q) => SearchIsPublic(h, p))
  BY <1>4, <1>5 DEF SearchIsPublic, BindValues
<1>7. APIAnswers(h, q) => APIAnswers(h, p)
  BY <1>1 DEF APIAnswers
<1>8. s # "curl" => APIAnswers(h, q) = APIAnswers(h, p)
  <2>1. s # "curl" => q["curl"] = p["curl"]
    BY <1>1
  <2> QED BY <2>1 DEF APIAnswers
<1>9. JVMFilesRead(q) \subseteq JVMFilesRead(p)
  BY <1>1 DEF JVMFilesRead
<1>10. s \notin {"jvm.options", "jvm.options.d"} => JVMFilesRead(q) = JVMFilesRead(p)
  <2>1. ASSUME s \notin {"jvm.options", "jvm.options.d"}
        PROVE  q["jvm.options"] = p["jvm.options"] /\ q["jvm.options.d"] = p["jvm.options.d"]
    BY <1>1, <2>1
  <2> QED BY <2>1 DEF JVMFilesRead
<1>c. c \in {"version", "cluster_health", "bind_localhost", "jvm_memory", "security_enabled",
           "runs_as_root", "backups_snapshots", "tls_configured",
           "dangerous_destructive_actions", "file_permissions"}
  BY DEF SearchRating
<1>11. CASE c = "version"
  <2>1. ~ IsRisk(SearchVersion(h, q))
    BY DEF SearchVersion, WhenSearch, IsRisk, NotApplicable, Unverified, Unseen
  <2> QED BY <1>11, <2>1 DEF SearchRating, Accused
<1>12. CASE c = "cluster_health"
  <2>1. ~ Accused(ClusterHealth(h, p), ClusterHealth(h, q))
    BY <1>3, <1>7 DEF ClusterHealth, Accused, IsRisk, NotApplicable, Unseen
  <2> QED BY <1>12, <2>1 DEF SearchRating
<1>13. CASE c = "bind_localhost"
  <2> SUFFICES ASSUME s # "config"  PROVE FALSE
    BY <1>13, PresumedLosses
  <2>1. ~ Accused(SearchBindLocalhost(h, p), SearchBindLocalhost(h, q))
    BY <1>3, <1>6 DEF SearchBindLocalhost, Accused, IsRisk, Shown
  <2> QED BY <1>13, <2>1 DEF SearchRating
<1>14. CASE c = "jvm_memory"
  <2> SUFFICES ASSUME s \notin {"jvm.options", "jvm.options.d"}  PROVE FALSE
    BY <1>14, PresumedLosses
  <2>1. Heap(h, q) = Heap(h, p) /\ (q["meminfo"] = "ok" => p["meminfo"] = "ok")
    BY <1>1, <1>10 DEF Heap
  <2>2. ~ Accused(JVMMemory(h, p), JVMMemory(h, q))
    BY <1>3, <2>1 DEF JVMMemory, Accused, IsRisk, Shown
  <2> QED BY <1>14, <2>2 DEF SearchRating
<1>15. CASE c = "security_enabled"
  <2>1. \/ SearchConfigured(h, q, "security") = SearchConfigured(h, p, "security")
        \/ SearchConfigured(h, q, "security") = "unset"
    BY <1>1 DEF SearchConfigured
  <2>2. ~ Accused(SecurityEnabled(h, p), SecurityEnabled(h, q))
    BY <1>3, <2>1 DEF SecurityEnabled, Accused, IsRisk, Shown
  <2> QED BY <1>15, <2>2 DEF SearchRating
<1>16. CASE c = "runs_as_root"
  <2>1. ProcessUser(h, q) = "root" => ProcessUser(h, p) = "root"
    BY <1>1 DEF ProcessUser
  <2>2. ~ Accused(RunsAsRoot(h, p), RunsAsRoot(h, q))
    BY <1>3, <2>1 DEF RunsAsRoot, Accused, IsRisk, Shown, Unseen
  <2> QED BY <1>16, <2>2 DEF SearchRating
<1>17. CASE c = "backups_snapshots"
  <2> SUFFICES ASSUME s \notin {"config", "curl"}  PROVE FALSE
    BY <1>17, PresumedLosses
  <2>1. ~ Accused(BackupsSnapshots(h, p), BackupsSnapshots(h, q))
    BY <1>3, <1>4, <1>8 DEF BackupsSnapshots, Accused, IsRisk, Shown
  <2> QED BY <1>17, <2>1 DEF SearchRating
<1>18. CASE c = "tls_configured"
  <2> SUFFICES ASSUME s # "config"  PROVE FALSE
    BY <1>18, PresumedLosses
  <2>1. ~ Accused(TLSConfigured(h, p), TLSConfigured(h, q))
    BY <1>3, <1>4, <1>6 DEF TLSConfigured, Accused, IsRisk, Shown
  <2> QED BY <1>18, <2>1 DEF SearchRating
<1>19. CASE c = "dangerous_destructive_actions"
  <2> SUFFICES ASSUME s # "config"  PROVE FALSE
    BY <1>19, PresumedLosses
  <2>1. ~ Accused(DestructiveActions(h, p), DestructiveActions(h, q))
    BY <1>3, <1>4 DEF DestructiveActions, Accused, IsRisk, Shown
  <2> QED BY <1>19, <2>1 DEF SearchRating
<1>20. CASE c = "file_permissions"
  <2>1. SearchModes(h, q) \subseteq SearchModes(h, p)
    <3>1. q["config"] = "ok" => p["config"] = "ok"
      BY <1>1
    <3> QED BY <3>1, <1>9 DEF SearchModes
  <2>2. ~ Accused(SearchFilePermissions(h, p), SearchFilePermissions(h, q))
    BY <1>3, <2>1 DEF SearchFilePermissions, Accused, IsRisk, Shown, NotApplicable, Unseen
  <2> QED BY <1>20, <2>2 DEF SearchRating
<1> QED BY <1>c, <1>11, <1>12, <1>13, <1>14, <1>15, <1>16, <1>17, <1>18, <1>19, <1>20

-----------------------------------------------------------------------------
(* A source that fails never turns a check that found nothing into one     *)
(* that finds something, except where Presumed says that the check takes   *)
(* the missing proof for a fault (LossAccusesNobody): for any hosts, any   *)
(* number of failures and any order of steps.                              *)
THEOREM LossesAccuseNobody == Spec => LossAccusesNobody
<1> DEFINE Typed == package \in Packages /\ probe \in [Sources(package) -> Answers]
           Kept == \A s \in Sources(package) : Fails(s) =>
                     \A c \in DOMAIN report :
                       IsRisk(report'[c]) /\ ~ IsRisk(report[c])
                         => <<package, c, s>> \in Presumed
<1>1. Typed /\ Audited /\ [Next]_vars => [Kept]_vars
  <2> SUFFICES ASSUME Typed, Audited, Next,
                      NEW s \in Sources(package), Fails(s),
                      NEW c \in DOMAIN report,
                      IsRisk(report'[c]), ~ IsRisk(report[c])
               PROVE  <<package, c, s>> \in Presumed
    OBVIOUS
  <2>1. Lost(package, probe, probe', s) /\ host' = host
    BY DEF Fails, Answer, Lost
  <2>2. report' = Rate(package, host, probe')
    BY <2>1 DEF Next, Harden, Weaken, Lose, RemoveFile, Regain, AuditAgain
  <2>3. report = Rate(package, host, probe)
    BY DEF Audited
  <2>4. package \in AllPackages
    BY PackagesAssumption
  <2>5. Accused(Rate(package, host, probe)[c], Rate(package, host, probe')[c])
    BY <2>2, <2>3 DEF Accused
  <2>6. CASE package = "linux"
    BY <2>1, <2>3, <2>5, <2>6, LinuxAccuses DEF Rate
  <2>7. CASE package = "docker"
    BY <2>1, <2>3, <2>5, <2>7, DockerAccuses DEF Rate
  <2>8. CASE package = "mysql"
    BY <2>1, <2>3, <2>5, <2>8, MySQLAccuses DEF Rate
  <2>9. CASE package = "redis"
    BY <2>1, <2>3, <2>5, <2>9, RedisAccuses DEF Rate
  <2>10. CASE package = "nginx"
    BY <2>1, <2>3, <2>5, <2>10, NginxAccuses DEF Rate
  <2>11. CASE package = "varnish"
    BY <2>1, <2>3, <2>5, <2>11, VarnishAccuses DEF Rate
  <2>12. CASE package = "phpfpm"
    BY <2>1, <2>3, <2>5, <2>12, PhpAccuses DEF Rate
  <2>13. CASE package = "searchengine"
    BY <2>1, <2>3, <2>5, <2>13, SearchAccuses DEF Rate
  <2>14. CASE package = "sshd"
    BY <2>1, <2>3, <2>5, <2>14, SSHAccuses DEF Rate
  <2> QED BY <2>4, <2>6, <2>7, <2>8, <2>9, <2>10, <2>11, <2>12, <2>13, <2>14 DEF AllPackages
<1> QED BY <1>1, AnswersStay, AlwaysAudited, PTL DEF Spec, LossAccusesNobody
-----------------------------------------------------------------------------
Caps(r) == r.status = "fail" \/ IsHighWarn(r)

NoWorse(before, after) == /\ ScorePenalty(after) <= ScorePenalty(before)
                          /\ Caps(after) => Caps(before)

(* y stands before x on the scale, where the stricter values are.          *)
Lower(scale, x, y) == \/ x = y
                      \/ \E i, j \in DOMAIN scale : j < i /\ x = scale[i] /\ y = scale[j]

(* Of a fact on a short scale: it is as before, or a stricter one of its   *)
(* values.                                                                 *)
LEMMA TwoSteps ==
  ASSUME NEW a, NEW b, NEW x, NEW y, Lower(<<a, b>>, x, y)
  PROVE  x = y \/ (x = b /\ y = a)
BY DEF Lower

LEMMA ThreeSteps ==
  ASSUME NEW a, NEW b, NEW c, NEW x, NEW y, Lower(<<a, b, c>>, x, y)
  PROVE  x = y \/ (x = b /\ y = a) \/ (x = c /\ y \in {a, b})
BY DEF Lower

LEMMA FourSteps ==
  ASSUME NEW a, NEW b, NEW c, NEW d, NEW x, NEW y, Lower(<<a, b, c, d>>, x, y)
  PROVE  x = y \/ (x = b /\ y = a) \/ (x = c /\ y \in {a, b}) \/ (x = d /\ y \in {a, b, c})
BY DEF Lower

LEMMA FiveSteps ==
  ASSUME NEW a, NEW b, NEW c, NEW d, NEW e, NEW x, NEW y, Lower(<<a, b, c, d, e>>, x, y)
  PROVE  x = y \/ (x = b /\ y = a) \/ (x = c /\ y \in {a, b}) \/ (x = d /\ y \in {a, b, c})
           \/ (x = e /\ y \in {a, b, c, d})
BY DEF Lower

(* What the ratings that the checks give cost, and which of them cap the   *)
(* score.                                                                  *)
LEMMA Prices ==
  /\ \A s : ScorePenalty(Shown("pass", s)) = 0 /\ ~ Caps(Shown("pass", s))
  /\ \A s : ScorePenalty(Shown("info", s)) = 0 /\ ~ Caps(Shown("info", s))
  /\ \A s : ScorePenalty(Unseen("info", s)) = 0 /\ ~ Caps(Unseen("info", s))
  /\ ScorePenalty(NotApplicable) = 0 /\ ~ Caps(NotApplicable)
  /\ \A s : ScorePenalty(Unverified(s)) \in Nat
  /\ ScorePenalty(Unverified("medium")) = 2 /\ ~ Caps(Unverified("medium"))
  /\ ScorePenalty(Shown("fail", "critical")) = 25 /\ Caps(Shown("fail", "critical"))
  /\ ScorePenalty(Shown("fail", "high")) = 15 /\ Caps(Shown("fail", "high"))
  /\ ScorePenalty(Shown("fail", "medium")) = 7 /\ Caps(Shown("fail", "medium"))
  /\ ScorePenalty(Shown("warn", "critical")) = 10 /\ Caps(Shown("warn", "critical"))
  /\ ScorePenalty(Shown("warn", "high")) = 6 /\ Caps(Shown("warn", "high"))
  /\ ScorePenalty(Shown("warn", "medium")) = 3 /\ ~ Caps(Shown("warn", "medium"))
  /\ ScorePenalty(Shown("warn", "low")) = 1 /\ ~ Caps(Shown("warn", "low"))
BY DEF ScorePenalty, Caps, IsHighWarn, Shown, Unseen, NotApplicable, Unverified,
       FailPenalty, WarnPenalty, ErrorPenalty

(* The pairs of ratings of which the second is no worse.                   *)
LEMMA Milder ==
  /\ \A r : ScorePenalty(r) \in Nat /\ NoWorse(r, r)
  /\ \A r, s : /\ NoWorse(r, Shown("pass", s)) /\ NoWorse(r, Shown("info", s))
               /\ NoWorse(r, Unseen("info", s)) /\ NoWorse(r, NotApplicable)
  /\ NoWorse(Shown("fail", "high"), Shown("warn", "high"))
  /\ NoWorse(Shown("fail", "high"), Shown("warn", "medium"))
  /\ NoWorse(Shown("fail", "medium"), Shown("warn", "medium"))
  /\ NoWorse(Shown("warn", "critical"), Shown("warn", "high"))
  /\ NoWorse(Shown("warn", "high"), Shown("warn", "medium"))
  /\ NoWorse(Shown("warn", "medium"), Shown("warn", "low"))
<1>1. \A r : ScorePenalty(r) \in Nat
  BY DEF ScorePenalty, FailPenalty, WarnPenalty, ErrorPenalty
<1> QED BY <1>1, Prices DEF NoWorse

(* g is h, but that facts of the scale are stricter.                       *)
Stricter(pkg, h, g) == /\ \A f \in DOMAIN Scale(pkg) : Lower(Scale(pkg)[f], h[f], g[f])
                       /\ \A f \in Givens(pkg) : g[f] = h[f]

(* Of each package: no check of a stricter host is rated worse.            *)
LEMMA LinuxPays ==
  ASSUME NEW h, NEW g, NEW p, Stricter("linux", h, g), NEW c \in DOMAIN LinuxRating(h, p)
  PROVE  NoWorse(LinuxRating(h, p)[c], LinuxRating(g, p)[c])
<1>f. \A f \in DOMAIN LinuxScale : Lower(LinuxScale[f], h[f], g[f])
  BY DEF Stricter, Scale
<1>g. /\ g.os = h.os /\ g.hasAppArmor = h.hasAppArmor
      /\ g.aaFailure = h.aaFailure /\ g.geoip = h.geoip
  BY DEF Stricter, Givens
<1>1. /\ g.updates = "pending" => h.updates = "pending"
      /\ h.upgrader = "installed" => g.upgrader = "installed"
      /\ h.periodic = "on" => g.periodic = "on"
      /\ h.timer = "enabled" => g.timer = "enabled"
  BY <1>f, TwoSteps DEF LinuxScale
<1>2. /\ g.ports = "other" => h.ports = "other"
      /\ g.passwdMode # "tight" => h.passwdMode # "tight"
      /\ g.passwdMode = "world" => h.passwdMode = "world"
      /\ g.shadowMode # "tight" => h.shadowMode # "tight"
      /\ g.sudoersMode # "tight" => h.sudoersMode # "tight"
      /\ g.sshdMode # "tight" => h.sshdMode # "tight"
      /\ g.sshdMode = "world" => h.sshdMode = "world"
  BY <1>f, ThreeSteps DEF LinuxScale
<1>3. /\ g.sudoRule = "nopasswd" => h.sudoRule = "nopasswd"
      /\ g.sudoDropIn = "nopasswd" => h.sudoDropIn = "nopasswd"
      /\ g.users = "unknown" => h.users = "unknown"
      /\ h.apparmor = "active" => g.apparmor = "active"
      /\ g.apparmor = "missing" => h.apparmor = "missing"
      /\ h.apparmor = "missing" => g.apparmor = "missing"
  BY <1>f, TwoSteps DEF LinuxScale
<1>4. (g.failed > 100 => h.failed > 100) /\ (g.invalid > 20 => h.invalid > 20)
  BY <1>f, ThreeSteps DEF LinuxScale
<1>5. /\ h.nproc = "set" => g.nproc = "set"
      /\ h.nprocDropIn = "set" => g.nprocDropIn = "set"
      /\ h.pids = "bounded" => g.pids = "bounded"
      /\ g.rootProcess = "temporary" => h.rootProcess = "temporary"
      /\ h.daemon = "running" => g.daemon = "running"
  BY <1>f, TwoSteps DEF LinuxScale
<1>6. /\ h.firewallUnit = "running" => g.firewallUnit = "running"
      /\ h.ufw = "active" => g.ufw = "active"
      /\ h.nft = "rules" => g.nft = "rules"
      /\ h.iptables = "rules" => g.iptables = "rules"
  BY <1>f, TwoSteps DEF LinuxScale
<1> USE Milder DEF IsLinuxHost, IsDebianLike
<1>c. c \in {"os_version", "kernel_version", "security_updates_available",
           "unattended_upgrades", "firewall_status", "protection_daemon",
           "listening_ports", "config_permissions",
           "sudoers_risky_entries", "unknown_users", "apparmor_status",
           "auth_log_recent_logins", "forkbomb_limits",
           "process_anomalies", "xt_geoip_module"}
  BY DEF LinuxRating
<1>7. CASE c \in {"os_version", "kernel_version", "xt_geoip_module"}
  BY <1>7, <1>g DEF LinuxRating, OSVersion, KernelVersion, XTGeoIPModule, GeoIPFound
<1>8. CASE c = "security_updates_available"
  BY <1>8, <1>1, <1>g DEF LinuxRating, SecurityUpdates
<1>9. CASE c = "unattended_upgrades"
  BY <1>9, <1>1, <1>g DEF LinuxRating, UnattendedUpgrades, UnattendedInstalled, UnattendedEnabled
<1>10. CASE c = "firewall_status"
  BY <1>10, <1>6, <1>g DEF LinuxRating, FirewallStatus, FirewallActive
<1>11. CASE c = "protection_daemon"
  BY <1>11, <1>5, <1>g DEF LinuxRating, ProtectionDaemon
<1>12. CASE c = "listening_ports"
  BY <1>12, <1>2, <1>g DEF LinuxRating, ListeningPorts
<1>13. CASE c = "config_permissions"
  BY <1>13, <1>2, <1>g DEF LinuxRating, ConfigPermissions, TooBroad, HasCritical
<1>14. CASE c = "sudoers_risky_entries"
  BY <1>14, <1>3, <1>g DEF LinuxRating, SudoersRiskyEntries, RiskySudoersEntries
<1>15. CASE c = "unknown_users"
  BY <1>15, <1>3, <1>g DEF LinuxRating, UnknownUsers
<1>16. CASE c = "apparmor_status"
  BY <1>16, <1>3, <1>g DEF LinuxRating, AppArmorStatus, AppArmorState,
                            AAStatusSpeaks, AAStatusSilent
<1>17. CASE c = "auth_log_recent_logins"
  <2>1. CASE h.failed > 100 \/ h.invalid > 20
    BY <1>17, <1>g, <2>1 DEF LinuxRating, AuthLogRecentLogins
  <2>2. CASE ~ (h.failed > 100 \/ h.invalid > 20)
    BY <1>17, <1>4, <1>g, <2>2 DEF LinuxRating, AuthLogRecentLogins
  <2> QED BY <2>1, <2>2
<1>18. CASE c = "forkbomb_limits"
  <2>1. ProcessLimitEntries(h, p) # {} => ProcessLimitEntries(g, p) # {}
    BY <1>5 DEF ProcessLimitEntries
  <2> QED BY <1>18, <1>g, <2>1 DEF LinuxRating, ForkbombLimits
<1>19. CASE c = "process_anomalies"
  BY <1>19, <1>5, <1>g DEF LinuxRating, ProcessAnomalies
<1> QED BY <1>c, <1>7, <1>8, <1>9, <1>10, <1>11, <1>12, <1>13, <1>14, <1>15, <1>16,
           <1>17, <1>18, <1>19

LEMMA SSHPays ==
  ASSUME NEW h, NEW g, NEW p, Stricter("sshd", h, g), NEW c \in DOMAIN SSHRating(h, p)
  PROVE  NoWorse(SSHRating(h, p)[c], SSHRating(g, p)[c])
<1>f. \A f \in DOMAIN SSHScale : Lower(SSHScale[f], h[f], g[f])
  BY DEF Stricter, Scale
<1>g. g.known = h.known
  BY DEF Stricter, Givens
<1>1. /\ h.permitrootlogin = "no" => g.permitrootlogin = "no"
      /\ g.permitrootlogin = "yes" => h.permitrootlogin = "yes"
  BY <1>f, FourSteps DEF SSHScale
<1>2. /\ g.passwordauthentication = "yes" => h.passwordauthentication = "yes"
      /\ h.permitemptypasswords = "no" => g.permitemptypasswords = "no"
  BY <1>f, TwoSteps DEF SSHScale
<1> USE Milder DEF WhenKnown
<1>c. c \in {"permit_root_login", "password_authentication", "permit_empty_passwords"}
  BY DEF SSHRating
<1>3. CASE c = "permit_root_login"
  BY <1>3, <1>1, <1>g DEF SSHRating, PermitRootLogin
<1>4. CASE c = "password_authentication"
  BY <1>4, <1>2, <1>g DEF SSHRating, PasswordAuthentication
<1>5. CASE c = "permit_empty_passwords"
  BY <1>5, <1>2, <1>g DEF SSHRating, PermitEmptyPasswords
<1> QED BY <1>c, <1>3, <1>4, <1>5

LEMMA DockerPays ==
  ASSUME NEW h, NEW g, NEW p, Stricter("docker", h, g), NEW c \in DOMAIN DockerRating(h, p)
  PROVE  NoWorse(DockerRating(h, p)[c], DockerRating(g, p)[c])
<1>f. \A f \in DOMAIN DockerScale : Lower(DockerScale[f], h[f], g[f])
  BY DEF Stricter, Scale
<1>g. /\ g.os = h.os /\ g.dockerd = h.dockerd /\ g.containers = h.containers
      /\ g.apiVia = h.apiVia /\ g.apiPort = h.apiPort
  BY DEF Stricter, Givens
<1>1. /\ g.socketMode = "0666" => h.socketMode = "0666"
      /\ h.socketMode = "0600" => g.socketMode = "0600"
  BY <1>f, FourSteps DEF DockerScale
<1>2. /\ h.socketGroup = "docker" => g.socketGroup = "docker"
      /\ g.socketOwner # "root" => h.socketOwner # "root"
      /\ g.socketType # "socket" => h.socketType # "socket"
  BY <1>f, TwoSteps DEF DockerScale
<1>3. /\ g.api = h.api \/ g.api = "none" \/ (g.api = "loopback" /\ h.api = "public")
      /\ \/ g.published = h.published \/ g.published = "none"
         \/ g.published = "loopback" /\ h.published = "public"
      /\ g.mount = h.mount \/ g.mount = "none" \/ (g.mount = "/etc" /\ h.mount = "/")
  BY <1>f, ThreeSteps DEF DockerScale
<1>4. /\ g.privileged = "yes" => h.privileged = "yes"
      /\ g.network = "host" => h.network = "host"
      /\ g.capability # "none" => h.capability # "none"
      /\ g.privileges = "new" => h.privileges = "new"
      /\ g.user = "root" => h.user = "root"
      /\ g.tag = "latest" => h.tag = "latest"
      /\ g.restart = "no" => h.restart = "no"
  BY <1>f, TwoSteps DEF DockerScale
<1>5. (g.reclaimable > 20 => h.reclaimable > 20) /\ (g.log > 1 => h.log > 1)
  BY <1>f, ThreeSteps DEF DockerScale
<1>6. (g.overlay2 > 80 => h.overlay2 > 80) /\ (g.overlay2 > 30 => h.overlay2 > 30)
  BY <1>f, FiveSteps DEF DockerScale
<1>7. DockerDetected(g, p) <=> DockerDetected(h, p)
  BY <1>g DEF DockerDetected
<1>8. ContainersListed(g, p) <=> ContainersListed(h, p)
  BY <1>g DEF ContainersListed
<1> USE Milder DEF WhenDetected
<1>c. c \in {"daemon_detected", "version", "socket_permissions",
           "exposed_tcp_socket", "privileged_containers", "host_mounts",
           "host_network", "dangerous_capabilities", "no_new_privileges",
           "container_user_root", "image_tag_latest", "restart_policy",
           "unused_data", "container_logs_large", "overlay2_usage"}
  BY DEF DockerRating
<1>11. CASE c \in {"daemon_detected", "version"}
  BY <1>11, <1>7 DEF DockerRating, DaemonDetected, DockerVersion
<1>12. PublicAPI(ListeningEndpoints(g, p)) # {} => PublicAPI(ListeningEndpoints(h, p)) # {}
  BY <1>3, <1>g DEF ListeningEndpoints, PublicAPI
<1>13. PublicAPI(ConfiguredEndpoints(g, p)) # {} => PublicAPI(ConfiguredEndpoints(h, p)) # {}
  BY <1>3, <1>g DEF ConfiguredEndpoints, PublicAPI
<1>14. CASE c = "socket_permissions"
  <2>1. NoWorse(SocketPermissions(h, p), SocketPermissions(g, p))
    BY <1>1, <1>2, <1>12 DEF SocketPermissions
  <2> QED BY <1>14, <2>1 DEF DockerRating
<1>15. CASE c = "exposed_tcp_socket"
  <2>0. /\ g.api # "none" => h.api # "none"
        /\ g.published # "none" => h.published # "none"
    BY <1>3
  <2>1. ListeningEndpoints(g, p) # {} => ListeningEndpoints(h, p) # {}
    <3>1. SUFFICES ASSUME NEW e \in ListeningEndpoints(g, p)
                   PROVE  ListeningEndpoints(h, p) # {}
      OBVIOUS
    <3>2. /\ p["ss"] = "ok" /\ g.dockerd = "running"
          /\ g.api # "none" \/ g.published # "none"
      BY DEF ListeningEndpoints
    <3>3. \/ [host |-> h.api, port |-> h.apiPort] \in ListeningEndpoints(h, p)
          \/ [host |-> h.published, port |-> "other"] \in ListeningEndpoints(h, p)
      BY <1>g, <2>0, <3>2 DEF ListeningEndpoints
    <3> QED BY <3>3
  <2>2. ConfiguredEndpoints(g, p) # {} => ConfiguredEndpoints(h, p) # {}
    BY <1>3, <1>g DEF ConfiguredEndpoints
  <2>3. \A A, B : PublicAPI(A \union B) # {} <=> PublicAPI(A) # {} \/ PublicAPI(B) # {}
    BY DEF PublicAPI
  <2>4. NoWorse(ExposedTCPSocket(h, p), ExposedTCPSocket(g, p))
    BY <1>7, <1>12, <1>13, <2>1, <2>2, <2>3 DEF ExposedTCPSocket
  <2> QED BY <1>15, <2>4 DEF DockerRating
<1>16a. CASE c = "privileged_containers"
  BY <1>16a, <1>4, <1>7, <1>8, <1>g DEF DockerRating, PrivilegedContainers, ContainerCheck
<1>16b. CASE c = "host_network"
  BY <1>16b, <1>4, <1>7, <1>8, <1>g DEF DockerRating, HostNetwork, ContainerCheck
<1>16c. CASE c = "dangerous_capabilities"
  BY <1>16c, <1>4, <1>7, <1>8, <1>g DEF DockerRating, DangerousCapabilities, ContainerCheck
<1>17. CASE c = "host_mounts"
  BY <1>17, <1>3, <1>7, <1>8, <1>g DEF DockerRating, HostMounts, ContainerCheck
<1>18a. CASE c = "no_new_privileges"
  BY <1>18a, <1>4, <1>7, <1>8, <1>g DEF DockerRating, NoNewPrivileges, ContainerCheck
<1>18b. CASE c = "container_user_root"
  BY <1>18b, <1>4, <1>7, <1>8, <1>g DEF DockerRating, ContainerUserRoot, ContainerCheck
<1>18c. CASE c = "image_tag_latest"
  BY <1>18c, <1>4, <1>7, <1>8, <1>g DEF DockerRating, ImageTagLatest, ContainerCheck
<1>18d. CASE c = "restart_policy"
  BY <1>18d, <1>4, <1>7, <1>8, <1>g DEF DockerRating, RestartPolicy, ContainerCheck
<1>19. CASE c = "unused_data"
  BY <1>19, <1>5, <1>7 DEF DockerRating, UnusedData
<1>20. CASE c = "container_logs_large"
  BY <1>20, <1>5 DEF DockerRating, ContainerLogsLarge, WhenReadable
<1>21. CASE c = "overlay2_usage"
  BY <1>21, <1>6 DEF DockerRating, Overlay2Usage, WhenReadable
<1> QED BY <1>c, <1>11, <1>14, <1>15, <1>16a, <1>16b, <1>16c,
           <1>17, <1>18a, <1>18b, <1>18c, <1>18d, <1>19, <1>20, <1>21

LEMMA NginxPays ==
  ASSUME NEW h, NEW g, NEW p, Stricter("nginx", h, g), NEW c \in DOMAIN NginxRating(h, p),
         c = "tls_protocols" => \A f \in {"tlsFirst", "tlsSecond"} :
                                  ~ (h[f] = "other" /\ g[f] = "old")
  PROVE  NoWorse(NginxRating(h, p)[c], NginxRating(g, p)[c])
<1>f. \A f \in DOMAIN NginxScale : Lower(NginxScale[f], h[f], g[f])
  BY DEF Stricter, Scale
<1>g. g.nginx = h.nginx
  BY DEF Stricter, Givens
<1>1. /\ \A f \in {"tokensFirst", "tokensSecond"} :
           (h[f] = "off" => g[f] = "off") /\ (g[f] = "on" => h[f] = "on")
      /\ g.autoindex # "off" => h.autoindex # "off"
      /\ g.autoindex = "served" => h.autoindex = "served"
  BY <1>f, ThreeSteps DEF NginxScale
<1>2. /\ \A f \in {"hiddenFirst", "hiddenSecond"} : h[f] = "denied" => g[f] = "denied"
      /\ g.defaultVhost = "default" => h.defaultVhost = "default"
  BY <1>f, TwoSteps DEF NginxScale
<1>3. (h.headers >= 3 => g.headers >= 3) /\ (g.headers = 0 => h.headers = 0)
  BY <1>f, FiveSteps DEF NginxScale
<1>4. \A f \in {"tlsFirst", "tlsSecond"} :
        /\ h[f] = "modern" => g[f] = "modern"
        /\ g[f] = "other" => h[f] = "other"
        /\ h[f] = "unset" => g[f] \in {"unset", "modern"}
        /\ g[f] = "old" => h[f] \in {"old", "other"}
        /\ h[f] = "old" => g[f] \in {"modern", "unset", "old"}
  BY <1>f, FourSteps DEF NginxScale
<1>5. NginxDetected(g, p) <=> NginxDetected(h, p)
  BY <1>g DEF NginxDetected
<1> USE Milder
<1>6. \A a, b : NoWorse(a, b) => NoWorse(WhenDumped(h, p, a), WhenDumped(g, p, b))
  BY <1>5 DEF WhenDumped
<1>c. c \in {"service_detected", "server_tokens", "autoindex",
           "hidden_files_access", "directory_listing_risk",
           "tls_protocols", "security_headers", "default_vhost"}
  BY DEF NginxRating
<1>7. CASE c = "service_detected"
  BY <1>7 DEF NginxRating
<1>8. CASE c = "server_tokens"
  BY <1>8, <1>1, <1>6 DEF NginxRating, ServerTokens
<1>9. CASE c \in {"autoindex", "directory_listing_risk"}
  BY <1>9, <1>1, <1>6 DEF NginxRating, Autoindex, DirectoryListingRisk
<1>10. CASE c \in {"hidden_files_access", "default_vhost"}
  BY <1>10, <1>2, <1>6 DEF NginxRating, HiddenFilesAccess, DefaultVhost
<1>11. CASE c = "security_headers"
  BY <1>11, <1>3, <1>6 DEF NginxRating, SecurityHeaders
<1>12. CASE c = "tls_protocols"
  <2> DEFINE N(x) == {x.tlsFirst, x.tlsSecond} \ {"unset"}
             R(x) == CASE "old" \in N(x)      -> Shown("fail", "high")
                       [] N(x) = {"modern"}   -> Shown("pass", "high")
                       [] OTHER               -> Shown("warn", "medium")
  <2>1. "old" \in N(g) => "old" \in N(h)
    BY <1>12, <1>4
  <2>2. N(h) = {"modern"} => N(g) = {"modern"}
    BY <1>4
  <2>3. NoWorse(R(h), R(g))
    <3> HIDE DEF N
    <3> QED BY <2>1, <2>2
  <2> QED BY <1>12, <1>6, <2>3 DEF NginxRating, TLSProtocols
<1> QED BY <1>c, <1>7, <1>8, <1>9, <1>10, <1>11, <1>12

LEMMA VarnishPays ==
  ASSUME NEW h, NEW g, NEW p, Stricter("varnish", h, g), NEW c \in DOMAIN VarnishRating(h, p)
  PROVE  NoWorse(VarnishRating(h, p)[c], VarnishRating(g, p)[c])
<1>f. \A f \in DOMAIN VarnishScale : Lower(VarnishScale[f], h[f], g[f])
  BY DEF Stricter, Scale
<1>g. g.varnishd = h.varnishd
  BY DEF Stricter, Givens
<1>1. /\ h.storageUnit = "malloc" => g.storageUnit = "malloc"
      /\ h.storageDefault = "malloc" => g.storageDefault = "malloc"
      /\ h.storageParams = "malloc" => g.storageParams = "malloc"
      /\ g.hitRatio = "low" => h.hitRatio = "low"
      /\ g.backends = "unhealthy" => h.backends = "unhealthy"
      /\ g.adminPort = "public" => h.adminPort = "public"
  BY <1>f, ThreeSteps DEF VarnishScale
<1>2. \/ g.nuked = h.nuked \/ g.nuked \in {"none", "absent"}
      \/ g.nuked = "some" /\ h.nuked = "many"
  <2>1. Lower(<<"none", "absent", "some", "many">>, h.nuked, g.nuked)
    BY <1>f DEF VarnishScale
  <2> QED BY <2>1 DEF Lower
<1>3. VarnishDetected(g, p) <=> VarnishDetected(h, p)
  BY <1>g DEF VarnishDetected
<1> USE Milder
<1>4. \A a, b : NoWorse(a, b) => NoWorse(WhenVarnish(h, p, a), WhenVarnish(g, p, b))
  BY <1>3 DEF WhenVarnish
<1>5. \A x \in BOOLEAN : \A a, b :
        NoWorse(a, b) => NoWorse(WhenAnswered(h, p, x, a), WhenAnswered(g, p, x, b))
  BY <1>3 DEF WhenAnswered, WhenVarnish
<1>6. \A a, b : NoWorse(a, b) => NoWorse(WhenCounted(h, p, a), WhenCounted(g, p, b))
  BY <1>5, <1>g DEF WhenCounted
<1>c. c \in {"version", "storage_malloc", "cache_hit_ratio",
           "lru_nuked_objects", "backend_health", "listen_ports"}
  BY DEF VarnishRating
<1>7. CASE c = "version"
  BY <1>7, <1>5 DEF VarnishRating, VarnishVersion
<1>8. CASE c = "storage_malloc"
  <2>1. "malloc" \in StorageKinds(h, p) => "malloc" \in StorageKinds(g, p)
    BY <1>1 DEF StorageKinds, StorageSources, StorageFact
  <2> QED BY <1>8, <1>4, <2>1 DEF VarnishRating, StorageMalloc
<1>9. CASE c = "cache_hit_ratio"
  BY <1>9, <1>1, <1>6 DEF VarnishRating, CacheHitRatio
<1>10. CASE c = "lru_nuked_objects"
  BY <1>10, <1>2, <1>6 DEF VarnishRating, LRUNukedObjects
<1>11. CASE c = "backend_health"
  BY <1>11, <1>1, <1>6 DEF VarnishRating, BackendHealth
<1>12. CASE c = "listen_ports"
  BY <1>12, <1>1, <1>5, <1>g DEF VarnishRating, VarnishListenPorts
<1> QED BY <1>c, <1>7, <1>8, <1>9, <1>10, <1>11, <1>12

LEMMA RedisPays ==
  ASSUME NEW h, NEW g, NEW p, Stricter("redis", h, g), NEW c \in DOMAIN RedisRating(h, p)
  PROVE  NoWorse(RedisRating(h, p)[c], RedisRating(g, p)[c])
<1>f. \A f \in DOMAIN RedisScale : Lower(RedisScale[f], h[f], g[f])
  BY DEF Stricter, Scale
<1>g. /\ g.os = h.os /\ g.own = h.own /\ g.other = h.other
      /\ g.installed = h.installed /\ g.running = h.running
  BY DEF Stricter, Givens
<1>1. \A e : TraceFoundAt(g, p, e) = TraceFoundAt(h, p, e)
  BY <1>g DEF TraceFoundAt, RedisPresent
<1>2. EngineJudged(g, p) = EngineJudged(h, p)
  BY <1>1, <1>g DEF EngineJudged
<1> DEFINE S(x, f) == RedisSetting(x, p, f)
<1>3. \A f : \/ S(h, f) = h[f] /\ S(g, f) = g[f]
             \/ S(h, f) = S(g, f)
  BY <1>2, <1>g DEF RedisSetting
<1>4. /\ g.bindTo = "unset" => h.bindTo \in {"unset", "public"}
      /\ g.bindTo = "public" => h.bindTo = "public"
      /\ g.protected = "no" => h.protected = "no"
      /\ h.maxmemory = "set" => g.maxmemory = "set"
      /\ h.save # "none" => g.save # "none"
      /\ h.auth # "none" => g.auth # "none"
  BY <1>f, ThreeSteps DEF RedisScale
<1>5. h.appendonly = "yes" => g.appendonly = "yes"
  BY <1>f, TwoSteps DEF RedisScale
<1> HIDE DEF S
<1>6. /\ S(g, "bindTo") = "unset" => S(h, "bindTo") \in {"unset", "public"}
      /\ S(g, "bindTo") = "public" => S(h, "bindTo") = "public"
      /\ S(g, "protected") = "no" => S(h, "protected") = "no"
      /\ S(h, "maxmemory") = "set" => S(g, "maxmemory") = "set"
      /\ S(h, "save") # "none" => S(g, "save") # "none"
      /\ S(h, "auth") # "none" => S(g, "auth") # "none"
      /\ S(h, "appendonly") = "yes" => S(g, "appendonly") = "yes"
  BY <1>3, <1>4, <1>5
<1> USE Milder
<1>7. \A a, b : NoWorse(a, b)
                  => NoWorse(WhenRedisConfigured(h, p, a), WhenRedisConfigured(g, p, b))
  BY <1>2, <1>g DEF WhenRedisConfigured, RedisPresent
<1>c. c \in {"version", "bind_localhost", "protected_mode", "maxmemory",
           "persistence", "authentication"}
  BY DEF RedisRating
<1>8. CASE c = "version"
  <2>1. RedisVersion(g, p) = RedisVersion(h, p)
    BY <1>2, <1>g DEF RedisVersion
  <2> QED BY <1>8, <2>1 DEF RedisRating
<1>9. CASE c = "bind_localhost"
  BY <1>9, <1>6, <1>7 DEF RedisRating, RedisBindLocalhost, S
<1>10. CASE c = "protected_mode"
  BY <1>10, <1>6, <1>7 DEF RedisRating, ProtectedMode, S
<1>11. CASE c = "maxmemory"
  BY <1>11, <1>6, <1>7 DEF RedisRating, MaxMemory, S
<1>12. CASE c = "persistence"
  BY <1>12, <1>6, <1>7 DEF RedisRating, Persistence, S
<1>13. CASE c = "authentication"
  BY <1>13, <1>6, <1>7 DEF RedisRating, Authentication, S
<1> QED BY <1>c, <1>8, <1>9, <1>10, <1>11, <1>12, <1>13

(* A pool may be held to its limit once it counts as a worker.             *)
LEMMA PhpPays ==
  ASSUME NEW h, NEW g, NEW p, Stricter("phpfpm", h, g), NEW c \in DOMAIN PhpRating(h, p),
         c = "pm_max_children" => ~ (~ IsWorker(h) /\ IsWorker(g))
  PROVE  NoWorse(PhpRating(h, p)[c], PhpRating(g, p)[c])
<1>f. \A f \in DOMAIN PhpScale : Lower(PhpScale[f], h[f], g[f])
  BY DEF Stricter, Scale
<1>g. g.fpm = h.fpm /\ g.poolGroup = h.poolGroup
  BY DEF Stricter, Givens
<1>1. /\ g.functionsCLI = "unset" => h.functionsCLI = "unset"
      /\ g.functionsFPM = "unset" => h.functionsFPM = "unset"
      /\ h.basedirFPM = "set" => g.basedirFPM = "set"
      /\ h.basedirPool = "set" => g.basedirPool = "set"
      /\ g.poolSocket = "wide" => h.poolSocket = "wide"
  BY <1>f, TwoSteps DEF PhpScale
<1>2. /\ h.errorLogCLI = "file" => g.errorLogCLI = "file"
      /\ h.errorLogCLI = "unset" => g.errorLogCLI \in {"unset", "file"}
      /\ h.errorLogFPM = "file" => g.errorLogFPM = "file"
      /\ h.errorLogFPM = "unset" => g.errorLogFPM \in {"unset", "file"}
      /\ h.errorLogPool = "file" => g.errorLogPool = "file"
  BY <1>f, ThreeSteps DEF PhpScale
<1>3. /\ h.secureCLI = "on" => g.secureCLI = "on"
      /\ h.secureCLI = "unset" => g.secureCLI \in {"unset", "on"}
      /\ h.secureFPM = "on" => g.secureFPM = "on"
      /\ h.httpOnlyCLI = "on" => g.httpOnlyCLI = "on"
      /\ h.httpOnlyCLI = "unset" => g.httpOnlyCLI \in {"unset", "on"}
      /\ h.httpOnlyFPM = "on" => g.httpOnlyFPM = "on"
      /\ h.sameSiteCLI = "set" => g.sameSiteCLI = "set"
      /\ h.sameSiteCLI = "unset" => g.sameSiteCLI \in {"unset", "set"}
      /\ h.sameSiteFPM = "set" => g.sameSiteFPM = "set"
      /\ g.poolUser = "root" => h.poolUser = "root"
  BY <1>f, ThreeSteps DEF PhpScale
<1>4. /\ h.exposeCLI = "off" => g.exposeCLI = "off"
      /\ h.exposeFPM = "off" => g.exposeFPM = "off"
      /\ g.displayCLI = "on" => h.displayCLI = "on"
      /\ g.displayFPM = "on" => h.displayFPM = "on"
  BY <1>f, ThreeSteps DEF PhpScale
<1>5. /\ g.children \in {"unset", "over-500"} => h.children \in {"unset", "over-500"}
      /\ g.children = "many" => h.children \in {"unset", "over-500", "many"}
  BY <1>f, FourSteps DEF PhpScale
<1>6. PhpDetected(g, p) <=> PhpDetected(h, p)
  BY <1>g DEF PhpDetected
<1> USE Milder
<1>7. \A a, b : NoWorse(a, b) => NoWorse(WhenDiscovered(h, p, a), WhenDiscovered(g, p, b))
  BY <1>6 DEF WhenDiscovered
<1>8. \A a, b : NoWorse(a, b) => NoWorse(WhenIniFound(h, p, a), WhenIniFound(g, p, b))
  BY <1>7 DEF WhenIniFound
<1>9. \A a, b : NoWorse(a, b) => NoWorse(WhenPoolFound(h, p, a), WhenPoolFound(g, p, b))
  BY <1>7 DEF WhenPoolFound
<1>10. \A a, b : /\ NoWorse(a, b)
                 /\ IsWorker(g) => IsWorker(h) \/ NoWorse(NotApplicable, b)
                 => NoWorse(WhenWorkerFound(h, p, a), WhenWorkerFound(g, p, b))
  <2> SUFFICES ASSUME NEW a, NEW b, NoWorse(a, b),
                      IsWorker(g) => IsWorker(h) \/ NoWorse(NotApplicable, b)
               PROVE  NoWorse(WhenWorkerFound(h, p, a), WhenWorkerFound(g, p, b))
    OBVIOUS
  <2>1. CASE ~ IsWorker(g)
    BY <1>9, <2>1 DEF WhenWorkerFound
  <2>2. CASE IsWorker(g) /\ IsWorker(h)
    BY <1>9, <2>2 DEF WhenWorkerFound
  <2>3. CASE IsWorker(g) /\ ~ IsWorker(h)
    BY <1>9, <2>3 DEF WhenWorkerFound
  <2> QED BY <2>1, <2>2, <2>3
<1>c. c \in {"available_versions", "pm_max_children", "disabled_functions",
           "open_basedir", "logs_configured", "session_cookie_security",
           "expose_php", "display_errors", "pool_user", "pool_socket_security"}
  BY DEF PhpRating
<1>11. CASE c = "available_versions"
  BY <1>11 DEF PhpRating
<1>12. CASE c = "pm_max_children"
  BY <1>12, <1>5, <1>10 DEF PhpRating, PMMaxChildren
<1>13. CASE c = "disabled_functions"
  <2>1. "unset" \in IniValues(p, g.functionsCLI, g.functionsFPM)
          => "unset" \in IniValues(p, h.functionsCLI, h.functionsFPM)
    BY <1>1 DEF IniValues
  <2> QED BY <1>13, <1>8, <2>1 DEF PhpRating, DisabledFunctions
<1>14. CASE c = "open_basedir"
  <2>1. "set" \in IniValues(p, "unset", h.basedirFPM)
          => "set" \in IniValues(p, "unset", g.basedirFPM)
    BY <1>1 DEF IniValues
  <2> QED BY <1>14, <1>1, <1>7, <2>1 DEF PhpRating, OpenBasedir
<1>15. CASE c = "logs_configured"
  <2>1. ErrorLog(h, p) = "file" => ErrorLog(g, p) = "file"
    BY <1>2 DEF ErrorLog, FirstSet
  <2> QED BY <1>15, <1>7, <2>1 DEF PhpRating, PhpLogsConfigured
<1>16. CASE c = "session_cookie_security"
  <2>1. CookiesHardened(h, p) => CookiesHardened(g, p)
    BY <1>3 DEF CookiesHardened, FirstSet
  <2> QED BY <1>16, <1>7, <2>1 DEF PhpRating, SessionCookieSecurity
<1>17. CASE c = "expose_php"
  <2>1. IniValues(p, h.exposeCLI, h.exposeFPM) = {"off"}
          => IniValues(p, g.exposeCLI, g.exposeFPM) = {"off"}
    BY <1>4 DEF IniValues
  <2> QED BY <1>17, <1>8, <2>1 DEF PhpRating, ExposePHP
<1>18. CASE c = "display_errors"
  <2>1. "on" \in IniValues(p, g.displayCLI, g.displayFPM)
          => "on" \in IniValues(p, h.displayCLI, h.displayFPM)
    BY <1>4 DEF IniValues
  <2> QED BY <1>18, <1>8, <2>1 DEF PhpRating, DisplayErrors
<1>19. CASE c = "pool_user"
  <2>1. g.poolUser # "root" => NoWorse(NotApplicable, Shown("pass", "high"))
    OBVIOUS
  <2>2. IsWorker(g) /\ ~ IsWorker(h) => g.poolUser # "root"
    BY <1>3 DEF IsWorker
  <2> QED BY <1>19, <1>3, <1>10, <2>1, <2>2 DEF PhpRating, PoolUser
<1>20. CASE c = "pool_socket_security"
  BY <1>20, <1>1, <1>9 DEF PhpRating, PoolSocketSecurity
<1> QED BY <1>c, <1>11, <1>12, <1>13, <1>14, <1>15, <1>16, <1>17, <1>18, <1>19, <1>20

(* What a search engine may be held to although it got stricter.           *)
LEMMA SearchPays ==
  ASSUME NEW h, NEW g, NEW p, Stricter("searchengine", h, g),
         NEW c \in DOMAIN SearchRating(h, p),
         c \in {"bind_localhost", "tls_configured"} =>
           \A f \in BindSettings : ~ (h[f] # "localhost" /\ g[f] = "localhost"),
         c \in {"version", "backups_snapshots"} => ~ (SecurityIsOff(h) /\ ~ SecurityIsOff(g))
  PROVE  NoWorse(SearchRating(h, p)[c], SearchRating(g, p)[c])
<1>f. \A f \in DOMAIN SearchScale : Lower(SearchScale[f], h[f], g[f])
  BY DEF Stricter, Scale
<1>g. /\ g.os = h.os /\ g.server = h.server /\ g.unit = h.unit
      /\ g.openByDefault = h.openByDefault /\ g.heapDropIn = h.heapDropIn
      /\ g.registered = h.registered
  BY DEF Stricter, Givens
<1>1. \A f \in BindSettings :
        /\ g[f] = "public" => h[f] = "public"
        /\ h[f] = "private" => g[f] = "private"
        /\ h[f] = "localhost" => g[f] \in {"private", "localhost"}
        /\ g[f] = "unset" => h[f] \in {"unset", "public"}
        /\ h[f] = "unset" => g[f] \in {"unset", "private", "localhost"}
        /\ g[f] # h[f] => g[f] \in {"private", "localhost", "unset"}
  BY <1>f, FourSteps DEF SearchScale, BindSettings
<1>2. /\ g.listening = "public" => h.listening = "public"
      /\ h.heap = "fit" => g.heap = "fit"
      /\ g.heap = "uneven" => h.heap = "uneven"
      /\ h.heap = "large" => g.heap \in {"fit", "large"}
      /\ g.heap = "large" => h.heap \in {"large", "uneven"}
  BY <1>f, ThreeSteps DEF SearchScale
<1>3. /\ g.security = "disabled" => h.security = "disabled"
      /\ g.security = "unset" => h.security \in {"unset", "disabled"}
      /\ g.security \notin {"unset", "disabled"} \/ h.security \in {"unset", "disabled"}
  BY <1>f, ThreeSteps DEF SearchScale
<1>4. /\ h.httpTLS = "enabled" => g.httpTLS = "enabled"
      /\ h.pathRepo = "set" => g.pathRepo = "set"
      /\ h.destructive = "by-name" => g.destructive = "by-name"
      /\ g.user = h.user \/ (g.user = "own" /\ h.user = "root")
  BY <1>f, TwoSteps DEF SearchScale
<1>5. /\ g.health = "yellow" => h.health \in {"yellow", "red"}
      /\ g.health = "red" => h.health = "red"
  BY <1>f, FourSteps DEF SearchScale
<1>6. \A f \in {"mode", "modeJVM", "modeDropIn"} :
        /\ g[f] = "world" => h[f] = "world"
        /\ g[f] = "group" => h[f] \in {"group", "world"}
  BY <1>f, ThreeSteps DEF SearchScale
<1>7. SearchDetected(g, p) <=> SearchDetected(h, p)
  BY <1>g DEF SearchDetected
<1> USE Milder
<1>8. \A a, b : NoWorse(a, b) => NoWorse(WhenSearch(h, p, a), WhenSearch(g, p, b))
  BY <1>7 DEF WhenSearch
<1>9. SecurityIsOff(g) => SecurityIsOff(h)
  BY <1>3, <1>g DEF SecurityIsOff
<1>10. APIAnswers(g, p) => APIAnswers(h, p)
  BY <1>9, <1>g DEF APIAnswers
<1>11. c \in {"bind_localhost", "tls_configured"} =>
         (SearchIsPublic(g, p) => SearchIsPublic(h, p))
  <2> SUFFICES ASSUME c \in {"bind_localhost", "tls_configured"}, SearchIsPublic(g, p)
               PROVE  SearchIsPublic(h, p)
    OBVIOUS
  <2>1. \A f \in BindSettings : g[f] = "localhost" => h[f] = "localhost"
    OBVIOUS
  <2>2. CASE p["config"] = "ok"
    <3>1. \A x, v : v \in BindValues(x, p) <=> v # "unset" /\ \E f \in BindSettings : v = x[f]
      BY <2>2 DEF BindValues, SearchConfigured
    <3>2. CASE BindValues(g, p) # {}
      <4>1. PICK v \in BindValues(g, p) : v \in {"public", "localhost"}
        BY <3>2 DEF SearchIsPublic, PublicAddresses
      <4>2. v \in BindValues(h, p)
        BY <4>1, <3>1, <2>1, <1>1
      <4> QED BY <4>1, <4>2 DEF SearchIsPublic, PublicAddresses
    <3>3. CASE BindValues(g, p) = {}
      <4>1. \A f \in BindSettings : g[f] = "unset"
        BY <3>1, <3>3
      <4>2. \A f \in BindSettings : h[f] \in {"unset", "public"}
        BY <4>1, <1>1
      <4>3. SearchListensOn(h, p) = "public"
        BY <3>3, <1>2, <1>g DEF SearchIsPublic, SearchListensOn
      <4>4. CASE "public" \in BindValues(h, p)
        BY <4>4 DEF SearchIsPublic, PublicAddresses
      <4>5. CASE "public" \notin BindValues(h, p)
        <5>1. BindValues(h, p) = {}
          BY <4>2, <4>5, <3>1
        <5> QED BY <5>1, <4>3 DEF SearchIsPublic
      <4> QED BY <4>4, <4>5
    <3> QED BY <3>2, <3>3
  <2>3. CASE p["config"] # "ok"
    <3>1. \A x : BindValues(x, p) = {}
      BY <2>3 DEF BindValues, SearchConfigured
    <3> QED BY <3>1, <1>2, <1>g DEF SearchIsPublic, SearchListensOn
  <2> QED BY <2>2, <2>3
<1>c. c \in {"version", "cluster_health", "bind_localhost", "jvm_memory",
           "security_enabled", "runs_as_root", "backups_snapshots",
           "tls_configured", "dangerous_destructive_actions", "file_permissions"}
  BY DEF SearchRating
<1>12. CASE c = "version"
  <2>1. SecurityIsOff(g) <=> SecurityIsOff(h)
    BY <1>12, <1>9
  <2>2. APIAnswers(g, p) <=> APIAnswers(h, p)
    BY <2>1, <1>g DEF APIAnswers
  <2> QED BY <1>12, <1>8, <2>2 DEF SearchRating, SearchVersion
<1>13. CASE c = "cluster_health"
  BY <1>13, <1>8, <1>5, <1>10 DEF SearchRating, ClusterHealth
<1>14. CASE c = "bind_localhost"
  BY <1>14, <1>8, <1>11 DEF SearchRating, SearchBindLocalhost
<1>15. CASE c = "jvm_memory"
  <2>1. /\ Heap(g, p) = "uneven" => Heap(h, p) = "uneven"
        /\ Heap(g, p) = "large" => Heap(h, p) \in {"large", "uneven"}
    BY <1>2, <1>g DEF Heap
  <2> QED BY <1>15, <1>8, <2>1 DEF SearchRating, JVMMemory
<1>16. CASE c = "security_enabled"
  <2>1. /\ SearchConfigured(g, p, "security") = "disabled"
             => SearchConfigured(h, p, "security") = "disabled"
        /\ SearchConfigured(g, p, "security") = "unset"
             => SearchConfigured(h, p, "security") \in {"unset", "disabled"}
    BY <1>3 DEF SearchConfigured
  <2> QED BY <1>16, <1>8, <2>1 DEF SearchRating, SecurityEnabled
<1>17. CASE c = "runs_as_root"
  <2>1. \/ ProcessUser(g, p) = ProcessUser(h, p)
        \/ ProcessUser(g, p) = "own" /\ ProcessUser(h, p) = "root"
    BY <1>4, <1>g DEF ProcessUser
  <2> QED BY <1>17, <1>8, <2>1 DEF SearchRating, RunsAsRoot
<1>18. CASE c = "backups_snapshots"
  <2>1. APIAnswers(h, p) => APIAnswers(g, p)
    BY <1>18, <1>g DEF APIAnswers
  <2>2. SearchConfigured(h, p, "pathRepo") = "set" => SearchConfigured(g, p, "pathRepo") = "set"
    BY <1>4 DEF SearchConfigured
  <2> QED BY <1>18, <1>8, <1>g, <2>1, <2>2 DEF SearchRating, BackupsSnapshots
<1>19. CASE c = "tls_configured"
  <2>1. SearchConfigured(h, p, "httpTLS") = "enabled"
          => SearchConfigured(g, p, "httpTLS") = "enabled"
    BY <1>4 DEF SearchConfigured
  <2> QED BY <1>19, <1>8, <1>11, <2>1 DEF SearchRating, TLSConfigured
<1>20. CASE c = "dangerous_destructive_actions"
  <2>1. SearchConfigured(h, p, "destructive") = "by-name"
          => SearchConfigured(g, p, "destructive") = "by-name"
    BY <1>4 DEF SearchConfigured
  <2> QED BY <1>20, <1>8, <2>1 DEF SearchRating, DestructiveActions
<1>21. CASE c = "file_permissions"
  <2>1. "world" \in SearchModes(g, p) => "world" \in SearchModes(h, p)
    BY <1>6 DEF SearchModes
  <2>2. "group" \in SearchModes(g, p)
          => "group" \in SearchModes(h, p) \/ "world" \in SearchModes(h, p)
    BY <1>6 DEF SearchModes
  <2> QED BY <1>21, <1>8, <2>1, <2>2 DEF SearchRating, SearchFilePermissions
<1> QED BY <1>c, <1>12, <1>13, <1>14, <1>15, <1>16, <1>17, <1>18, <1>19, <1>20, <1>21

(* What the root password hides from the checks.                           *)
LoginLost(h, g) == g.rootAuth = "password" /\ h.rootAuth # "password"

LEMMA MySQLPays ==
  ASSUME NEW h, NEW g, NEW p, Stricter("mysql", h, g), NEW c \in DOMAIN MySQLRating(h, p)
  PROVE  \/ NoWorse(MySQLRating(h, p)[c], MySQLRating(g, p)[c])
         \/ /\ c \in {"max_connections", "tls_enabled"} /\ LoginLost(h, g)
            /\ MySQLDetected(h, p) /\ LoginWorks(h, p)
<1>f. \A f \in DOMAIN MySQLScale : Lower(MySQLScale[f], h[f], g[f])
  BY DEF Stricter, Scale
<1>g. g.os = h.os /\ g.server = h.server /\ g.maxIsConfigured = h.maxIsConfigured
  BY DEF Stricter, Givens
<1>1. /\ h.rootAuth = "password" => g.rootAuth = "password"
      /\ h.bind = "unset" => g.bind \in {"unset", "loopback"}
      /\ g.bind = "unset" => h.bind \in {"unset", "public"}
      /\ g.bind = "public" => h.bind = "public"
      /\ h.bindDropIn = "unset" => g.bindDropIn \in {"unset", "loopback"}
      /\ g.bindDropIn = "unset" => h.bindDropIn \in {"unset", "public"}
      /\ g.bindDropIn = "public" => h.bindDropIn = "public"
      /\ g.listening = "public" => h.listening = "public"
  BY <1>f, ThreeSteps DEF MySQLScale
<1>2. /\ h.skipNetworking = "on" => g.skipNetworking = "on"
      /\ h.remoteHosts = "local" => g.remoteHosts = "local"
      /\ g.anonymous = "some" => h.anonymous = "some"
      /\ h.requireSecure = "on" => g.requireSecure = "on"
      /\ h.haveSSL = "yes" => g.haveSSL = "yes"
      /\ h.certs = "set" => g.certs = "set"
  BY <1>f, TwoSteps DEF MySQLScale
<1>3. /\ h.logError = "set" => g.logError = "set"
      /\ h.slowLog = "set" => g.slowLog = "set"
      /\ h.backup = "found" => g.backup = "found"
      /\ h.nameResolve = "skip" => g.nameResolve = "skip"
  BY <1>f, TwoSteps DEF MySQLScale
<1>4. /\ g.bufferPool = "unset" => h.bufferPool = "unset"
      /\ g.bufferPool = "large" => h.bufferPool \in {"large", "unset"}
      /\ g.bufferPool = "small" => h.bufferPool \in {"small", "large", "unset"}
  BY <1>f, FourSteps DEF MySQLScale
<1>5. g.maxConnections > 1000 => h.maxConnections > 1000
  BY <1>f, ThreeSteps DEF MySQLScale
<1>6. \A f \in {"mode", "modeDropIn"} :
        /\ g[f] = "world" => h[f] = "world"
        /\ g[f] = "group" => h[f] \in {"group", "world"}
  BY <1>f, ThreeSteps DEF MySQLScale
<1>7. MySQLDetected(g, p) <=> MySQLDetected(h, p)
  BY <1>g DEF MySQLDetected
<1> USE Milder
<1>8. \A a, b : NoWorse(a, b) => NoWorse(WhenMySQL(h, p, a), WhenMySQL(g, p, b))
  BY <1>7 DEF WhenMySQL
<1>9. /\ LoginWorks(g, p) => LoginWorks(h, p)
      /\ LoginWorks(h, p) => LoginWorks(g, p) \/ LoginLost(h, g)
      /\ ServerAnswers(g, p) <=> ServerAnswers(h, p)
  BY <1>1, <1>g DEF LoginWorks, ServerAnswers, LoginLost
<1>10. ExposedToPublic(g, p) => ExposedToPublic(h, p)
  <2>1. \A x, s, v : Configured(x, p, s, v) <=> "my.cnf" \in LoadedFiles(p) /\ x[s] = v
    BY DEF Configured
  <2>2. Configured(h, p, "skipNetworking", "on") => Configured(g, p, "skipNetworking", "on")
    BY <1>2, <2>1
  <2>3. /\ BindAddress(g, p) = "public" => BindAddress(h, p) = "public"
        /\ BindAddress(g, p) = "unset" => BindAddress(h, p) \in {"unset", "public"}
    BY <1>1 DEF BindAddress
  <2>4. ListensOn(g, p) = "public" => ListensOn(h, p) = "public"
    BY <1>1, <1>g DEF ListensOn
  <2> QED BY <2>2, <2>3, <2>4 DEF ExposedToPublic
<1>c. c \in {"version", "bind_localhost", "remote_access", "root_password",
           "anonymous_users", "innodb_buffer_pool", "max_connections",
           "tls_enabled", "logs_configured", "backups_detected",
           "config_permissions", "skip_name_resolve"}
  BY DEF MySQLRating
<1>11. CASE c = "version"
  BY <1>11, <1>8 DEF MySQLRating, MySQLVersion
<1>12. CASE c = "bind_localhost"
  BY <1>12, <1>8, <1>10 DEF MySQLRating, BindLocalhost
<1>13. CASE c = "remote_access"
  BY <1>13, <1>8, <1>2, <1>9 DEF MySQLRating, RemoteAccess
<1>14. CASE c = "root_password"
  BY <1>14, <1>8, <1>9 DEF MySQLRating, RootPassword
<1>15. CASE c = "anonymous_users"
  BY <1>15, <1>8, <1>2, <1>9 DEF MySQLRating, AnonymousUsers
<1>16. CASE c = "innodb_buffer_pool"
  BY <1>16, <1>8, <1>4 DEF MySQLRating, InnoDBBufferPool
<1>17. CASE c = "max_connections"
  <2>1. Configured(g, p, "maxIsConfigured", TRUE) <=> Configured(h, p, "maxIsConfigured", TRUE)
    BY <1>g DEF Configured
  <2>0. ~ MySQLDetected(h, p)
          => MaxConnections(h, p) = NotApplicable /\ MaxConnections(g, p) = NotApplicable
    BY <1>7, Zenon DEF MaxConnections, WhenMySQL
  <2> SUFFICES ASSUME MySQLDetected(h, p), LoginWorks(h, p) => LoginWorks(g, p)
               PROVE  NoWorse(MaxConnections(h, p), MaxConnections(g, p))
    BY <1>17, <1>9, <2>0 DEF MySQLRating
  <2>2. LoginWorks(g, p) <=> LoginWorks(h, p)
    BY <1>9
  <2> DEFINE Known(x) == Configured(x, p, "maxIsConfigured", TRUE) \/ LoginWorks(x, p)
             Many(x) == x.maxConnections > 1000
             Rated(x) == IF ~ Known(x) THEN Shown("warn", "low")
                         ELSE IF Many(x) THEN Shown("warn", "medium")
                                         ELSE Shown("pass", "low")
  <2>3. MaxConnections(h, p) = Rated(h) /\ MaxConnections(g, p) = Rated(g)
    BY <1>7 DEF MaxConnections, WhenMySQL
  <2>4. (Known(g) <=> Known(h)) /\ (Many(g) => Many(h))
    BY <1>5, <2>1, <2>2
  <2> HIDE DEF Known, Many
  <2> QED BY <2>3, <2>4
<1>18. CASE c = "tls_enabled"
  <2> SUFFICES ASSUME MySQLDetected(h, p), LoginWorks(h, p) => LoginWorks(g, p)
               PROVE  NoWorse(TLSEnabled(h, p), TLSEnabled(g, p))
    BY <1>18, <1>7, <1>9 DEF MySQLRating, TLSEnabled, WhenMySQL
  <2>1. TLSOK(h, p) => TLSOK(g, p)
    BY <1>2 DEF TLSOK, Configured
  <2> QED BY <1>8, <1>10, <2>1 DEF TLSEnabled
<1>19. CASE c = "logs_configured"
  BY <1>19, <1>8, <1>3 DEF MySQLRating, LogsConfigured, Configured
<1>20. CASE c = "backups_detected"
  BY <1>20, <1>8, <1>3 DEF MySQLRating, BackupsDetected
<1>21. CASE c = "config_permissions"
  <2>1. "world" \in LoadedModes(g, p) => "world" \in LoadedModes(h, p)
    BY <1>6 DEF LoadedModes
  <2>2. "group" \in LoadedModes(g, p)
          => "group" \in LoadedModes(h, p) \/ "world" \in LoadedModes(h, p)
    BY <1>6 DEF LoadedModes
  <2> QED BY <1>21, <1>8, <2>1, <2>2 DEF MySQLRating, MySQLConfigPermissions
<1>22. CASE c = "skip_name_resolve"
  BY <1>22, <1>8, <1>3 DEF MySQLRating, SkipNameResolve, Configured
<1> QED BY <1>c, <1>11, <1>12, <1>13, <1>14, <1>15, <1>16, <1>17, <1>18, <1>19, <1>20,
           <1>21, <1>22

(* With the login, more is lost of the penalty than the blinded checks add. *)
LEMMA PasswordPays ==
  ASSUME NEW h, NEW g, NEW p, LoginLost(h, g), MySQLDetected(h, p), LoginWorks(h, p),
         MySQLDetected(g, p), g.server = h.server
  PROVE  LET before == MySQLRating(h, p)
             after  == MySQLRating(g, p)
         IN  /\ before.root_password.status = "fail"
             /\ ScorePenalty(before.root_password) = 25
             /\ ScorePenalty(after.root_password) = 0
             /\ ScorePenalty(after.max_connections) <= 3
             /\ ScorePenalty(after.tls_enabled) <= 6
<1>1. RootPassword(h, p) = Shown("fail", "critical")
  BY DEF RootPassword, WhenMySQL
<1>2. RootPassword(g, p) = Shown("pass", "critical")
  BY DEF RootPassword, WhenMySQL, LoginLost, LoginWorks, ServerAnswers
<1>3. MaxConnections(g, p) \in {Shown("warn", "low"), Shown("warn", "medium"), Shown("pass", "low")}
  BY DEF MaxConnections, WhenMySQL
<1>4. TLSEnabled(g, p) \in {Shown("pass", "low"), Shown("warn", "high"), Shown("info", "info")}
  BY DEF TLSEnabled, WhenMySQL
<1>5. RootPassword(h, p).status = "fail"
  BY <1>1 DEF Shown
<1> QED BY <1>1, <1>2, <1>3, <1>4, <1>5, Prices DEF MySQLRating

(* A package has the same checks whatever the host, and finitely many.     *)
LEMMA ChecksOfPackage ==
  ASSUME NEW pkg \in AllPackages, NEW h, NEW g, NEW p
  PROVE  /\ DOMAIN Rate(pkg, g, p) = DOMAIN Rate(pkg, h, p)
         /\ IsFiniteSet(DOMAIN Rate(pkg, h, p))
<1>l. CASE pkg = "linux"
  <2> DEFINE A == {"os_version", "kernel_version",
                   "security_updates_available", "unattended_upgrades",
                   "firewall_status"}
             B == {"protection_daemon", "listening_ports",
                   "config_permissions", "sudoers_risky_entries",
                   "unknown_users"}
             C == {"apparmor_status", "auth_log_recent_logins",
                   "forkbomb_limits", "process_anomalies", "xt_geoip_module"}
  <2>1. \A x : DOMAIN LinuxRating(x, p) = A \union B \union C
    BY DEF LinuxRating
  <2>2. IsFiniteSet(A) /\ IsFiniteSet(B) /\ IsFiniteSet(C)
    BY FewAreFinite
  <2> HIDE DEF A, B, C
  <2>3. IsFiniteSet(A \union B \union C)
    BY <2>2, UnionsAreFinite
  <2> QED BY <1>l, <2>1, <2>3 DEF Rate
<1>s. CASE pkg = "sshd"
  <2> DEFINE A == {"permit_root_login", "password_authentication",
                   "permit_empty_passwords"}
  <2>1. \A x : DOMAIN SSHRating(x, p) = A
    BY DEF SSHRating
  <2>2. IsFiniteSet(A)
    BY FewAreFinite
  <2> HIDE DEF A
  <2> QED BY <1>s, <2>1, <2>2 DEF Rate
<1>d. CASE pkg = "docker"
  <2> DEFINE A == {"daemon_detected", "version", "socket_permissions",
                   "exposed_tcp_socket", "privileged_containers"}
             B == {"host_mounts", "host_network", "dangerous_capabilities",
                   "no_new_privileges", "container_user_root"}
             C == {"image_tag_latest", "restart_policy", "unused_data",
                   "container_logs_large", "overlay2_usage"}
  <2>1. \A x : DOMAIN DockerRating(x, p) = A \union B \union C
    BY DEF DockerRating
  <2>2. IsFiniteSet(A) /\ IsFiniteSet(B) /\ IsFiniteSet(C)
    BY FewAreFinite
  <2> HIDE DEF A, B, C
  <2>3. IsFiniteSet(A \union B \union C)
    BY <2>2, UnionsAreFinite
  <2> QED BY <1>d, <2>1, <2>3 DEF Rate
<1>m. CASE pkg = "mysql"
  <2> DEFINE A == {"version", "bind_localhost", "remote_access",
                   "root_password", "anonymous_users"}
             B == {"innodb_buffer_pool", "max_connections", "tls_enabled",
                   "logs_configured", "backups_detected"}
             C == {"tls_enabled", "logs_configured", "backups_detected",
                   "config_permissions", "skip_name_resolve"}
  <2>1. \A x : DOMAIN MySQLRating(x, p) = A \union B \union C
    BY DEF MySQLRating
  <2>2. IsFiniteSet(A) /\ IsFiniteSet(B) /\ IsFiniteSet(C)
    BY FewAreFinite
  <2> HIDE DEF A, B, C
  <2>3. IsFiniteSet(A \union B \union C)
    BY <2>2, UnionsAreFinite
  <2> QED BY <1>m, <2>1, <2>3 DEF Rate
<1>r. CASE pkg = "redis"
  <2> DEFINE A == {"version", "bind_localhost", "protected_mode", "maxmemory",
                   "persistence"}
             B == {"bind_localhost", "protected_mode", "maxmemory",
                   "persistence", "authentication"}
  <2>1. \A x : DOMAIN RedisRating(x, p) = A \union B
    BY DEF RedisRating
  <2>2. IsFiniteSet(A) /\ IsFiniteSet(B)
    BY FewAreFinite
  <2> HIDE DEF A, B
  <2>3. IsFiniteSet(A \union B)
    BY <2>2, FS_Union
  <2> QED BY <1>r, <2>1, <2>3 DEF Rate
<1>n. CASE pkg = "nginx"
  <2> DEFINE A == {"service_detected", "server_tokens", "autoindex",
                   "hidden_files_access", "directory_listing_risk"}
             B == {"hidden_files_access", "directory_listing_risk",
                   "tls_protocols", "security_headers", "default_vhost"}
  <2>1. \A x : DOMAIN NginxRating(x, p) = A \union B
    BY DEF NginxRating
  <2>2. IsFiniteSet(A) /\ IsFiniteSet(B)
    BY FewAreFinite
  <2> HIDE DEF A, B
  <2>3. IsFiniteSet(A \union B)
    BY <2>2, FS_Union
  <2> QED BY <1>n, <2>1, <2>3 DEF Rate
<1>v. CASE pkg = "varnish"
  <2> DEFINE A == {"version", "storage_malloc", "cache_hit_ratio",
                   "lru_nuked_objects", "backend_health"}
             B == {"storage_malloc", "cache_hit_ratio", "lru_nuked_objects",
                   "backend_health", "listen_ports"}
  <2>1. \A x : DOMAIN VarnishRating(x, p) = A \union B
    BY DEF VarnishRating
  <2>2. IsFiniteSet(A) /\ IsFiniteSet(B)
    BY FewAreFinite
  <2> HIDE DEF A, B
  <2>3. IsFiniteSet(A \union B)
    BY <2>2, FS_Union
  <2> QED BY <1>v, <2>1, <2>3 DEF Rate
<1>p. CASE pkg = "phpfpm"
  <2> DEFINE A == {"available_versions", "pm_max_children",
                   "disabled_functions", "open_basedir", "logs_configured"}
             B == {"session_cookie_security", "expose_php", "display_errors",
                   "pool_user", "pool_socket_security"}
  <2>1. \A x : DOMAIN PhpRating(x, p) = A \union B
    BY DEF PhpRating
  <2>2. IsFiniteSet(A) /\ IsFiniteSet(B)
    BY FewAreFinite
  <2> HIDE DEF A, B
  <2>3. IsFiniteSet(A \union B)
    BY <2>2, FS_Union
  <2> QED BY <1>p, <2>1, <2>3 DEF Rate
<1>e. CASE pkg = "searchengine"
  <2> DEFINE A == {"version", "cluster_health", "bind_localhost", "jvm_memory",
                   "security_enabled"}
             B == {"runs_as_root", "backups_snapshots", "tls_configured",
                   "dangerous_destructive_actions", "file_permissions"}
  <2>1. \A x : DOMAIN SearchRating(x, p) = A \union B
    BY DEF SearchRating
  <2>2. IsFiniteSet(A) /\ IsFiniteSet(B)
    BY FewAreFinite
  <2> HIDE DEF A, B
  <2>3. IsFiniteSet(A \union B)
    BY <2>2, FS_Union
  <2> QED BY <1>e, <2>1, <2>3 DEF Rate
<1> QED BY <1>l, <1>s, <1>d, <1>m, <1>r, <1>n, <1>v, <1>p, <1>e DEF AllPackages

(* Blinding and Misjudged, of any two hosts.                               *)
Blinded(pkg, h, g, c) ==
  pkg = "mysql" /\ c \in {"max_connections", "tls_enabled"} /\ LoginLost(h, g)

Wronged(pkg, h, g, c) ==
  \/ /\ pkg = "nginx" /\ c = "tls_protocols"
     /\ \E f \in {"tlsFirst", "tlsSecond"} : h[f] = "other" /\ g[f] = "old"
  \/ /\ pkg = "phpfpm" /\ c = "pm_max_children"
     /\ ~ IsWorker(h) /\ IsWorker(g)
  \/ /\ pkg = "searchengine" /\ c \in {"bind_localhost", "tls_configured"}
     /\ \E f \in BindSettings : h[f] # "localhost" /\ g[f] = "localhost"
  \/ /\ pkg = "searchengine" /\ c \in {"version", "backups_snapshots"}
     /\ SecurityIsOff(h) /\ ~ SecurityIsOff(g)

(* The lemmas of the packages together.                                    *)
LEMMA CheckPays ==
  ASSUME NEW pkg \in AllPackages, NEW h, NEW g, NEW p, Stricter(pkg, h, g),
         NEW c \in DOMAIN Rate(pkg, h, p)
  PROVE  \/ NoWorse(Rate(pkg, h, p)[c], Rate(pkg, g, p)[c])
         \/ Blinded(pkg, h, g, c) \/ Wronged(pkg, h, g, c)
<1>1. CASE pkg = "linux"
  BY <1>1, LinuxPays DEF Rate
<1>2. CASE pkg = "sshd"
  BY <1>2, SSHPays DEF Rate
<1>3. CASE pkg = "docker"
  BY <1>3, DockerPays DEF Rate
<1>4. CASE pkg = "mysql"
  BY <1>4, MySQLPays DEF Rate, Blinded
<1>5. CASE pkg = "redis"
  BY <1>5, RedisPays DEF Rate
<1>6. CASE pkg = "nginx"
  BY <1>6, NginxPays DEF Rate, Wronged
<1>7. CASE pkg = "varnish"
  BY <1>7, VarnishPays DEF Rate
<1>8. CASE pkg = "phpfpm"
  BY <1>8, PhpPays DEF Rate, Wronged
<1>9. CASE pkg = "searchengine"
  BY <1>9, SearchPays DEF Rate, Wronged
<1> QED BY <1>1, <1>2, <1>3, <1>4, <1>5, <1>6, <1>7, <1>8, <1>9 DEF AllPackages

(* The penalty of each check, and whether one of them caps the score.      *)
Costs(r) == [k \in DOMAIN r |-> ScorePenalty(r[k])]

Capped(r) == \E k \in DOMAIN r : Caps(r[k])

(* A lower total scores no less, unless only now a finding caps the score. *)
LEMMA ScoreGrows ==
  ASSUME NEW a, NEW b, Total(Costs(a)) \in Nat, Total(Costs(b)) \in Nat,
         Total(Costs(b)) <= Total(Costs(a)), Capped(b) => Capped(a)
  PROVE  CalculateScore(b) >= CalculateScore(a)
<1> DEFINE m == Total(Costs(a))
           n == Total(Costs(b))
           Score(t, x) == LET s == 100 - t
                              w == IF x /\ s > 90 THEN 90 ELSE s
                          IN  IF w < 0 THEN 0 ELSE IF w > 100 THEN 100 ELSE w
<1>1. \A r : CalculateScore(r) = Score(Total(Costs(r)), Capped(r))
  BY DEF CalculateScore, CappedScore, Costs, Capped, Caps
<1>2. m \in Nat /\ n \in Nat /\ n <= m
  OBVIOUS
<1>3. Score(n, Capped(b)) >= Score(m, Capped(a))
  <2> HIDE DEF m, n
  <2>1. CASE Capped(a) /\ Capped(b)  BY <1>2, <2>1
  <2>2. CASE ~ Capped(b) /\ Capped(a)  BY <1>2, <2>2
  <2>3. CASE ~ Capped(b) /\ ~ Capped(a)  BY <1>2, <2>3
  <2> QED BY <2>1, <2>2, <2>3
<1> HIDE DEF Score
<1> QED BY <1>1, <1>3

(* The penalties of a report have a total.                                 *)
LEMMA CostFacts ==
  ASSUME NEW r, IsFiniteSet(DOMAIN r)
  PROVE  Costs(r) \in [DOMAIN r -> Nat] /\ Total(Costs(r)) \in Nat
<1>1. Costs(r) \in [DOMAIN r -> Nat]
  BY Milder DEF Costs
<1> QED BY <1>1, UnitsFacts

(* A stricter host scores no less: where the login is what makes it        *)
(* stricter, root_password alone pays for what can be asked no more.       *)
LEMMA ScorePays ==
  ASSUME NEW pkg \in AllPackages, NEW h, NEW g, NEW p, Stricter(pkg, h, g),
         \A c \in DOMAIN Rate(pkg, h, p) : ~ Wronged(pkg, h, g, c)
  PROVE  CalculateScore(Rate(pkg, g, p)) >= CalculateScore(Rate(pkg, h, p))
<1> DEFINE a == Rate(pkg, h, p)
           b == Rate(pkg, g, p)
           S == DOMAIN a
<1>1. DOMAIN b = S /\ IsFiniteSet(S)
  BY ChecksOfPackage
<1>2. \A c \in S : NoWorse(a[c], b[c]) \/ Blinded(pkg, h, g, c)
  BY CheckPays
<1>4. CASE \A c \in S : NoWorse(a[c], b[c])
  <2> HIDE DEF a, b
  <2>1. /\ Costs(a) \in [S -> Nat] /\ Total(Costs(a)) \in Nat
        /\ Costs(b) \in [S -> Nat] /\ Total(Costs(b)) \in Nat
    BY <1>1, CostFacts
  <2>2. \A c \in S : Costs(b)[c] <= Costs(a)[c]
    BY <1>1, <1>4 DEF Costs, NoWorse
  <2>3. Capped(b) => Capped(a)
    BY <1>1, <1>4 DEF Capped, NoWorse
  <2>4. Total(Costs(b)) <= Total(Costs(a))
    <3> HIDE DEF S
    <3> QED BY <1>1, <2>1, <2>2, SmallerTerms
  <2>5. CalculateScore(b) >= CalculateScore(a)
    BY <2>1, <2>3, <2>4, ScoreGrows
  <2> QED BY <2>5 DEF a, b
<1>5. CASE ~ \A c \in S : NoWorse(a[c], b[c])
  <2>1. PICK d \in S : ~ NoWorse(a[d], b[d])
    BY <1>5
  <2>2. /\ pkg = "mysql" /\ LoginLost(h, g)
        /\ a = MySQLRating(h, p) /\ b = MySQLRating(g, p)
    BY <1>2, <2>1 DEF Blinded, Rate
  <2>3. MySQLDetected(h, p) /\ LoginWorks(h, p)
    BY <2>1, <2>2, MySQLPays
  <2>4. MySQLDetected(g, p) /\ g.server = h.server
    BY <2>2, <2>3 DEF Stricter, Givens, MySQLDetected
  <2>5. /\ a.root_password.status = "fail"
        /\ ScorePenalty(a.root_password) = 25 /\ ScorePenalty(b.root_password) = 0
        /\ ScorePenalty(b.max_connections) <= 3 /\ ScorePenalty(b.tls_enabled) <= 6
    BY <2>2, <2>3, <2>4, PasswordPays
  <2>6. {"root_password", "max_connections", "tls_enabled"} \subseteq S
    BY <2>2 DEF MySQLRating
  <2>7. \A c \in S \ {"root_password", "max_connections", "tls_enabled"} : NoWorse(a[c], b[c])
    BY <1>2 DEF Blinded
  <2> HIDE DEF a, b
  <2>8. /\ Costs(a) \in [S -> Nat] /\ Total(Costs(a)) \in Nat
        /\ Costs(b) \in [S -> Nat] /\ Total(Costs(b)) \in Nat
    BY <1>1, CostFacts
  <2>9. /\ \A c \in S : Costs(a)[c] = ScorePenalty(a[c]) /\ Costs(b)[c] = ScorePenalty(b[c])
        /\ \A r : ScorePenalty(r) \in Nat
    BY <1>1, Milder DEF Costs
  <2>10. /\ Costs(a)["root_password"] = 25 /\ Costs(b)["root_password"] = 0
         /\ Costs(b)["max_connections"] <= 3 /\ Costs(b)["tls_enabled"] <= 6
    BY <2>5, <2>6, <2>9
  <2>11. \A c \in S \ {"root_password", "max_connections", "tls_enabled"} :
           Costs(b)[c] <= Costs(a)[c]
    BY <2>7, <2>9 DEF NoWorse
  <2>12. Total(Costs(b)) <= Total(Costs(a))
    <3> DEFINE F == Costs(a)
               G == Costs(b)
               x == "root_password"
               y == "max_connections"
               z == "tls_enabled"
    <3>1. /\ IsFiniteSet(S) /\ F \in [S -> Nat] /\ G \in [S -> Nat]
          /\ x \in S /\ y \in S /\ z \in S /\ x # y /\ x # z /\ y # z
      BY <1>1, <2>6, <2>8
    <3>2. G[x] + G[y] + G[z] <= F[x]
      <4>1. G[x] \in Nat /\ G[y] \in Nat /\ G[z] \in Nat
        BY <3>1
      <4> QED BY <2>10, <4>1
    <3>3. \A k \in S \ {x, y, z} : G[k] <= F[k]
      BY <2>11
    <3> HIDE DEF S, F, G, x, y, z
    <3>4. Total(G) <= Total(F)
      BY <3>1, <3>2, <3>3, OneTermPays
    <3> QED BY <3>4 DEF F, G
  <2>13. Capped(a)
    BY <2>5, <2>6 DEF Capped, Caps
  <2>14. CalculateScore(b) >= CalculateScore(a)
    BY <2>8, <2>12, <2>13, ScoreGrows
  <2> QED BY <2>14 DEF a, b
<1> QED BY <1>4, <1>5

-----------------------------------------------------------------------------
(* What is given stays as it is.                                           *)
LEMMA GivensAreFixed ==
  ASSUME NEW pkg \in AllPackages
  PROVE  Givens(pkg) \cap DOMAIN Scale(pkg) = {}
<1>1. CASE pkg \in {"linux", "sshd", "docker"}
  BY <1>1 DEF Givens, Scale, LinuxScale, SSHScale, DockerScale
<1>2. CASE pkg \in {"mysql", "redis", "nginx"}
  BY <1>2 DEF Givens, Scale, MySQLScale, RedisScale, NginxScale
<1>3. CASE pkg \in {"varnish", "phpfpm", "searchengine"}
  BY <1>3 DEF Givens, Scale, VarnishScale, PhpScale, SearchScale
<1> QED BY <1>1, <1>2, <1>3 DEF AllPackages

(* A host has every fact of its package, at any time.                      *)
LEMMA FactsStay == Spec => [](Facts(package) \subseteq DOMAIN host)
<1> DEFINE Inv == package \in Packages /\ Facts(package) \subseteq DOMAIN host
<1>1. Init => Inv
  <2> SUFFICES ASSUME Init  PROVE Facts(package) \subseteq DOMAIN host
    BY DEF Init
  <2>1. package \in Packages /\ host = setup /\ setup \in Setups(package)
    BY DEF Init
  <2> QED BY <2>1, SetupsAssumption
<1>2. Inv /\ [Next]_vars => Inv'
  <2> SUFFICES ASSUME Inv, [Next]_vars  PROVE package' = package /\ DOMAIN host' = DOMAIN host
    OBVIOUS
  <2>1. CASE Harden  BY <2>1 DEF Harden, Turn, AuditAgain
  <2>2. CASE Weaken  BY <2>2 DEF Weaken, Turn, AuditAgain
  <2>3. CASE Lose    BY <2>3 DEF Lose, Fails, Answer, AuditAgain
  <2>4. CASE RemoveFile  BY <2>4 DEF RemoveFile, Answer, AuditAgain
  <2>5. CASE Regain  BY <2>5 DEF Regain, Answer, AuditAgain
  <2>6. CASE UNCHANGED vars  BY <2>6 DEF vars
  <2> QED BY <2>1, <2>2, <2>3, <2>4, <2>5, <2>6 DEF Next
<1> QED BY <1>1, <1>2, PTL DEF Spec

(* Whatever the sources answer, a stricter setting costs no check more than*)
(* before and lowers no score, but for what Blinding and Misjudged name.   *)
THEOREM HardeningAlwaysPays == Spec => HardeningPays
<1> DEFINE Typed == package \in Packages /\ probe \in [Sources(package) -> Answers]
           Equipped == Facts(package) \subseteq DOMAIN host
           Paid == Harden =>
                     /\ \A c \in DOMAIN report :
                          \/ ScorePenalty(report'[c]) <= ScorePenalty(report[c])
                          \/ Blinding(c) \/ Misjudged(c)
                     /\ \/ CalculateScore(report') >= CalculateScore(report)
                        \/ \E c \in DOMAIN report : Misjudged(c)
<1>1. Typed /\ Equipped /\ Audited /\ [Next]_vars => [Paid]_vars
  <2> SUFFICES ASSUME Typed, Equipped, Audited, Harden
               PROVE  /\ \A c \in DOMAIN report :
                           \/ ScorePenalty(report'[c]) <= ScorePenalty(report[c])
                           \/ Blinding(c) \/ Misjudged(c)
                      /\ \/ CalculateScore(report') >= CalculateScore(report)
                         \/ \E c \in DOMAIN report : Misjudged(c)
    OBVIOUS
  <2>1. package \in AllPackages
    BY PackagesAssumption
  <2>2. PICK f \in DOMAIN Scale(package) : \E i, j \in DOMAIN Scale(package)[f] :
          j < i /\ Turn(f, i, j) /\ AuditAgain
    BY DEF Harden
  <2>3. PICK i \in DOMAIN Scale(package)[f], j \in DOMAIN Scale(package)[f] :
          j < i /\ Turn(f, i, j) /\ AuditAgain
    BY <2>2
  <2>4. /\ host[f] = Scale(package)[f][i]
        /\ host' = [host EXCEPT ![f] = Scale(package)[f][j]] /\ probe' = probe
        /\ report' = Rate(package, host', probe')
    BY <2>3 DEF Turn, AuditAgain
  <2>5. PICK g : g = host'
    OBVIOUS
  <2>6. Stricter(package, host, g)
    <3>1. \A k \in Facts(package) : g[k] = IF k = f THEN Scale(package)[f][j] ELSE host[k]
      BY <2>4, <2>5
    <3>2. Lower(Scale(package)[f], host[f], g[f])
      BY <2>3, <2>4, <3>1 DEF Lower, Facts
    <3>3. \A k \in DOMAIN Scale(package) : Lower(Scale(package)[k], host[k], g[k])
      BY <3>1, <3>2 DEF Lower, Facts
    <3>4. \A k \in Givens(package) : g[k] = host[k]
      BY <2>1, <3>1, GivensAreFixed DEF Facts
    <3> QED BY <3>3, <3>4 DEF Stricter
  <2>7. report = Rate(package, host, probe) /\ report' = Rate(package, g, probe)
    BY <2>4, <2>5 DEF Audited
  <2>8. \A c : /\ Blinding(c) <=> Blinded(package, host, g, c)
               /\ Misjudged(c) <=> Wronged(package, host, g, c)
    BY <2>5 DEF Blinding, Blinded, LoginLost, Misjudged, Wronged
  <2>9. \A c \in DOMAIN report :
          \/ ScorePenalty(report'[c]) <= ScorePenalty(report[c])
          \/ Blinding(c) \/ Misjudged(c)
    BY <2>1, <2>6, <2>7, <2>8, CheckPays DEF NoWorse
  <2>10. \/ CalculateScore(report') >= CalculateScore(report)
         \/ \E c \in DOMAIN report : Misjudged(c)
    BY <2>1, <2>6, <2>7, <2>8, ScorePays
  <2> QED BY <2>9, <2>10
<1> QED BY <1>1, AnswersStay, FactsStay, AlwaysAudited, PTL DEF Spec, HardeningPays
=============================================================================
