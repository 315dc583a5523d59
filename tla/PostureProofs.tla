--------------------------- MODULE PostureProofs ---------------------------
(***************************************************************************)
(* For every host and every way its sources may answer: the checks of the  *)
(* nine packages show what they find, and the loss of a source clears a   *)
(* check only where Trusted says so.  Both follow from lemmas about single *)
(* checks, one step each, because the report is always what the checks     *)
(* make of the present host (Audited).                                     *)
(***************************************************************************)
EXTENDS Posture, TLAPS

Honest(r) == r \in RatingValues /\ (IsRisk(r) => ~ r.hidden /\ r.severity # "info")

Cleared(before, after) == IsRisk(before) /\ after.status = "pass"

(* q answers as p does, but for s, which fails.                            *)
Lost(pkg, p, q, s) ==
  /\ s \in Sources(pkg)
  /\ p[s] = "ok" /\ q[s] # "ok"
  /\ q[s] = "broken" \/ s \in Commands(pkg)
  /\ \A t \in Sources(pkg) : t # s => q[t] = p[t]

Audited == report = Rate(package, host, probe)
-----------------------------------------------------------------------------
(* Every check of every package rates within the vocabulary of the report, *)
(* and hides no finding, whatever the host is like and whatever answers.   *)
LEMMA LinuxHonest ==
  ASSUME NEW h, NEW p
  PROVE  \A c \in DOMAIN LinuxRating(h, p) : Honest(LinuxRating(h, p)[c])
<1> USE DEF Honest, RatingValues, Statuses, Severities, IsRisk, Shown, Unseen,
            NotApplicable, Unverified
<1>1. /\ Honest(OSVersion(h, p))
      /\ Honest(KernelVersion(h, p))
      /\ Honest(XTGeoIPModule(h, p))
  BY DEF OSVersion, KernelVersion, XTGeoIPModule
<1>2. Honest(SecurityUpdates(h, p)) /\ Honest(UnattendedUpgrades(h, p))
  BY DEF SecurityUpdates, UnattendedUpgrades
<1>3. /\ Honest(FirewallStatus(h, p))
      /\ Honest(ProtectionDaemon(h, p))
      /\ Honest(ListeningPorts(h, p))
  BY DEF FirewallStatus, ProtectionDaemon, ListeningPorts
<1>4. /\ Honest(ConfigPermissions(h, p))
      /\ Honest(SudoersRiskyEntries(h, p))
      /\ Honest(UnknownUsers(h, p))
  BY DEF ConfigPermissions, SudoersRiskyEntries, UnknownUsers
<1>5. Honest(AppArmorStatus(h, p)) /\ Honest(AuthLogRecentLogins(h, p))
  BY DEF AppArmorStatus, AuthLogRecentLogins
<1>6. Honest(ForkbombLimits(h, p)) /\ Honest(ProcessAnomalies(h, p))
  BY DEF ForkbombLimits, ProcessAnomalies
<1> QED BY <1>1, <1>2, <1>3, <1>4, <1>5, <1>6 DEF LinuxRating

LEMMA SSHHonest ==
  ASSUME NEW h, NEW p
  PROVE  \A c \in DOMAIN SSHRating(h, p) : Honest(SSHRating(h, p)[c])
<1> USE DEF Honest, RatingValues, Statuses, Severities, IsRisk, Shown, Unseen,
            Unverified, WhenKnown
<1>1. /\ Honest(PermitRootLogin(h, p))
      /\ Honest(PasswordAuthentication(h, p))
      /\ Honest(PermitEmptyPasswords(h, p))
  BY DEF PermitRootLogin, PasswordAuthentication, PermitEmptyPasswords
<1> QED BY <1>1 DEF SSHRating

LEMMA DockerHonest ==
  ASSUME NEW h, NEW p
  PROVE  \A c \in DOMAIN DockerRating(h, p) : Honest(DockerRating(h, p)[c])
<1> USE DEF Honest, RatingValues, Statuses, Severities, IsRisk, Shown, Unseen,
            NotApplicable, Unverified, WhenDetected, ContainerCheck, WhenReadable
<1>1. Honest(DaemonDetected(h, p)) /\ Honest(DockerVersion(h, p))
  BY DEF DaemonDetected, DockerVersion
<1>2. Honest(SocketPermissions(h, p)) /\ Honest(ExposedTCPSocket(h, p))
  BY DEF SocketPermissions, ExposedTCPSocket
<1>3. /\ Honest(PrivilegedContainers(h, p))
      /\ Honest(HostMounts(h, p))
      /\ Honest(HostNetwork(h, p))
  BY DEF PrivilegedContainers, HostMounts, HostNetwork
<1>4. Honest(DangerousCapabilities(h, p)) /\ Honest(NoNewPrivileges(h, p))
  BY DEF DangerousCapabilities, NoNewPrivileges
<1>5. /\ Honest(ContainerUserRoot(h, p))
      /\ Honest(ImageTagLatest(h, p))
      /\ Honest(RestartPolicy(h, p))
  BY DEF ContainerUserRoot, ImageTagLatest, RestartPolicy
<1>6. /\ Honest(UnusedData(h, p))
      /\ Honest(ContainerLogsLarge(h, p))
      /\ Honest(Overlay2Usage(h, p))
  BY DEF UnusedData, ContainerLogsLarge, Overlay2Usage
<1> QED BY <1>1, <1>2, <1>3, <1>4, <1>5, <1>6 DEF DockerRating

LEMMA MySQLHonest ==
  ASSUME NEW h, NEW p
  PROVE  \A c \in DOMAIN MySQLRating(h, p) : Honest(MySQLRating(h, p)[c])
<1> USE DEF Honest, RatingValues, Statuses, Severities, IsRisk, Shown, Unseen,
            NotApplicable, Unverified, WhenMySQL
<1>1. /\ Honest(MySQLVersion(h, p))
      /\ Honest(BindLocalhost(h, p))
      /\ Honest(RemoteAccess(h, p))
  BY DEF MySQLVersion, BindLocalhost, RemoteAccess
<1>2. /\ Honest(RootPassword(h, p))
      /\ Honest(AnonymousUsers(h, p))
      /\ Honest(InnoDBBufferPool(h, p))
  BY DEF RootPassword, AnonymousUsers, InnoDBBufferPool
<1>3. /\ Honest(MaxConnections(h, p))
      /\ Honest(TLSEnabled(h, p))
      /\ Honest(LogsConfigured(h, p))
  BY DEF MaxConnections, TLSEnabled, LogsConfigured
<1>4. /\ Honest(BackupsDetected(h, p))
      /\ Honest(MySQLConfigPermissions(h, p))
      /\ Honest(SkipNameResolve(h, p))
  BY DEF BackupsDetected, MySQLConfigPermissions, SkipNameResolve
<1> QED BY <1>1, <1>2, <1>3, <1>4 DEF MySQLRating

LEMMA RedisHonest ==
  ASSUME NEW h, NEW p
  PROVE  \A c \in DOMAIN RedisRating(h, p) : Honest(RedisRating(h, p)[c])
<1> USE DEF Honest, RatingValues, Statuses, Severities, IsRisk, Shown, Unseen,
            NotApplicable, Unverified, WhenRedisConfigured
<1>1. /\ Honest(RedisVersion(h, p))
      /\ Honest(RedisBindLocalhost(h, p))
      /\ Honest(ProtectedMode(h, p))
  BY DEF RedisVersion, RedisBindLocalhost, ProtectedMode
<1>2. /\ Honest(MaxMemory(h, p))
      /\ Honest(Persistence(h, p))
      /\ Honest(Authentication(h, p))
  BY DEF MaxMemory, Persistence, Authentication
<1> QED BY <1>1, <1>2 DEF RedisRating

LEMMA NginxHonest ==
  ASSUME NEW h, NEW p
  PROVE  \A c \in DOMAIN NginxRating(h, p) : Honest(NginxRating(h, p)[c])
<1> USE DEF Honest, RatingValues, Statuses, Severities, IsRisk, Shown, Unseen,
            NotApplicable, Unverified, WhenDumped
<1>1. /\ Honest(ServiceDetected)
      /\ Honest(ServerTokens(h, p))
      /\ Honest(Autoindex(h, p))
  BY DEF ServiceDetected, ServerTokens, Autoindex
<1>2. /\ Honest(HiddenFilesAccess(h, p))
      /\ Honest(DirectoryListingRisk(h, p))
      /\ Honest(TLSProtocols(h, p))
  BY DEF HiddenFilesAccess, DirectoryListingRisk, TLSProtocols
<1>3. Honest(SecurityHeaders(h, p)) /\ Honest(DefaultVhost(h, p))
  BY DEF SecurityHeaders, DefaultVhost
<1> QED BY <1>1, <1>2, <1>3 DEF NginxRating

LEMMA VarnishHonest ==
  ASSUME NEW h, NEW p
  PROVE  \A c \in DOMAIN VarnishRating(h, p) : Honest(VarnishRating(h, p)[c])
<1> USE DEF Honest, RatingValues, Statuses, Severities, IsRisk, Shown, Unseen,
            NotApplicable, Unverified, WhenVarnish, WhenAnswered, WhenCounted
<1>1. /\ Honest(VarnishVersion(h, p))
      /\ Honest(StorageMalloc(h, p))
      /\ Honest(CacheHitRatio(h, p))
  BY DEF VarnishVersion, StorageMalloc, CacheHitRatio
<1>2. /\ Honest(LRUNukedObjects(h, p))
      /\ Honest(BackendHealth(h, p))
      /\ Honest(VarnishListenPorts(h, p))
  BY DEF LRUNukedObjects, BackendHealth, VarnishListenPorts
<1> QED BY <1>1, <1>2 DEF VarnishRating

LEMMA PhpHonest ==
  ASSUME NEW h, NEW p
  PROVE  \A c \in DOMAIN PhpRating(h, p) : Honest(PhpRating(h, p)[c])
<1> USE DEF Honest, RatingValues, Statuses, Severities, IsRisk, Shown, Unseen,
            NotApplicable, Unverified, WhenDiscovered, WhenIniFound, WhenPoolFound, WhenWorkerFound
<1>1. /\ Honest(AvailableVersions)
      /\ Honest(PMMaxChildren(h, p))
      /\ Honest(DisabledFunctions(h, p))
  BY DEF AvailableVersions, PMMaxChildren, DisabledFunctions
<1>2. /\ Honest(OpenBasedir(h, p))
      /\ Honest(PhpLogsConfigured(h, p))
      /\ Honest(SessionCookieSecurity(h, p))
  BY DEF OpenBasedir, PhpLogsConfigured, SessionCookieSecurity
<1>3. /\ Honest(ExposePHP(h, p))
      /\ Honest(DisplayErrors(h, p))
      /\ Honest(PoolUser(h, p))
  BY DEF ExposePHP, DisplayErrors, PoolUser
<1>4. Honest(PoolSocketSecurity(h, p))
  BY DEF PoolSocketSecurity
<1> QED BY <1>1, <1>2, <1>3, <1>4 DEF PhpRating

LEMMA SearchHonest ==
  ASSUME NEW h, NEW p
  PROVE  \A c \in DOMAIN SearchRating(h, p) : Honest(SearchRating(h, p)[c])
<1> USE DEF Honest, RatingValues, Statuses, Severities, IsRisk, Shown, Unseen,
            NotApplicable, Unverified, WhenSearch
<1>1. /\ Honest(SearchVersion(h, p))
      /\ Honest(ClusterHealth(h, p))
      /\ Honest(SearchBindLocalhost(h, p))
  BY DEF SearchVersion, ClusterHealth, SearchBindLocalhost
<1>2. /\ Honest(JVMMemory(h, p))
      /\ Honest(SecurityEnabled(h, p))
      /\ Honest(RunsAsRoot(h, p))
  BY DEF JVMMemory, SecurityEnabled, RunsAsRoot
<1>3. /\ Honest(BackupsSnapshots(h, p))
      /\ Honest(TLSConfigured(h, p))
      /\ Honest(DestructiveActions(h, p))
  BY DEF BackupsSnapshots, TLSConfigured, DestructiveActions
<1>4. Honest(SearchFilePermissions(h, p))
  BY DEF SearchFilePermissions
<1> QED BY <1>1, <1>2, <1>3, <1>4 DEF SearchRating
-----------------------------------------------------------------------------
(* The losses that Trusted names, one by one.                              *)
LEMMA TrustedLosses ==
  /\ <<"linux", "sudoers_risky_entries", "list sudoers.d">> \in Trusted
  /\ <<"docker", "socket_permissions", "ss">> \in Trusted
  /\ \A s \in {"ss", "daemon.json", "systemctl"} :
       <<"docker", "exposed_tcp_socket", s>> \in Trusted
  /\ \A s \in {"ss", "my.cnf", "conf.d"} : <<"mysql", "bind_localhost", s>> \in Trusted
  /\ <<"mysql", "config_permissions", "conf.d">> \in Trusted
  /\ \A c \in EngineChecks, s \in EngineSources : <<"redis", c, s>> \in Trusted
  /\ \A c \in PerFile \union {"logs_configured"}, s \in IniFiles :
       <<"phpfpm", c, s>> \in Trusted
  /\ <<"phpfpm", "session_cookie_security", "cli/php.ini">> \in Trusted
  /\ <<"phpfpm", "pm_max_children", "meminfo">> \in Trusted
  /\ \A s \in {"config", "jvm.options", "jvm.options.d"} :
       <<"searchengine", "file_permissions", s>> \in Trusted
  /\ \A s \in {"ss", "config"} : <<"searchengine", "bind_localhost", s>> \in Trusted
  /\ \A s \in {"jvm.options.d", "meminfo"} : <<"searchengine", "jvm_memory", s>> \in Trusted
  /\ <<"searchengine", "runs_as_root", "systemctl">> \in Trusted
  BY DEF Trusted

(* When the loss of s turns a finding of check c into a pass.              *)
LEMMA LinuxLoss ==
  ASSUME NEW h, NEW p, NEW q, NEW s, Lost("linux", p, q, s),
         NEW c \in DOMAIN LinuxRating(h, p),
         Cleared(LinuxRating(h, p)[c], LinuxRating(h, q)[c])
  PROVE  <<"linux", c, s>> \in Trusted
<1> USE DEF Cleared, IsRisk, Shown, Unseen, NotApplicable, Unverified, Lost,
            Sources, Commands, Files, LinuxCommands, LinuxFiles, UnitList
<1>0. c \in {"os_version", "kernel_version", "security_updates_available",
           "unattended_upgrades", "firewall_status", "protection_daemon",
           "listening_ports", "config_permissions",
           "sudoers_risky_entries", "unknown_users", "apparmor_status",
           "auth_log_recent_logins", "forkbomb_limits",
           "process_anomalies", "xt_geoip_module"}
  BY DEF LinuxRating
<1>1. CASE c = "os_version"
  BY <1>1 DEF LinuxRating, OSVersion
<1>2. CASE c = "kernel_version"
  BY <1>2 DEF LinuxRating, KernelVersion
<1>3. CASE c = "security_updates_available"
  BY <1>3 DEF LinuxRating, SecurityUpdates
<1>4. CASE c = "unattended_upgrades"
  <2>1. ~ Cleared(UnattendedUpgrades(h, p), UnattendedUpgrades(h, q))
    BY DEF UnattendedUpgrades, UnattendedInstalled, UnattendedEnabled
  <2> HIDE DEF Cleared
  <2> QED BY <1>4, <2>1 DEF LinuxRating
<1>5. CASE c = "firewall_status"
  <2>1. ~ Cleared(FirewallStatus(h, p), FirewallStatus(h, q))
    BY DEF FirewallStatus, FirewallActive
  <2> HIDE DEF Cleared
  <2> QED BY <1>5, <2>1 DEF LinuxRating
<1>6. CASE c = "protection_daemon"
  <2>1. ~ Cleared(ProtectionDaemon(h, p), ProtectionDaemon(h, q))
    BY DEF ProtectionDaemon
  <2> HIDE DEF Cleared
  <2> QED BY <1>6, <2>1 DEF LinuxRating
<1>7. CASE c = "listening_ports"
  <2>1. ~ Cleared(ListeningPorts(h, p), ListeningPorts(h, q))
    BY DEF ListeningPorts
  <2> HIDE DEF Cleared
  <2> QED BY <1>7, <2>1 DEF LinuxRating
<1>8. CASE c = "config_permissions"
  BY <1>8 DEF LinuxRating, ConfigPermissions
<1>9. CASE c = "sudoers_risky_entries"
  <2>1. Cleared(SudoersRiskyEntries(h, p), SudoersRiskyEntries(h, q))
         => s = "list sudoers.d"
    BY DEF SudoersRiskyEntries, SudoersUnread, RiskySudoersEntries
  <2> HIDE DEF Cleared
  <2> QED BY <1>9, <2>1, TrustedLosses DEF LinuxRating
<1>10. CASE c = "unknown_users"
  BY <1>10 DEF LinuxRating, UnknownUsers
<1>11. CASE c = "apparmor_status"
  <2>1. ~ Cleared(AppArmorStatus(h, p), AppArmorStatus(h, q))
    BY DEF AppArmorStatus, AppArmorState, AAStatusSpeaks, AAStatusSilent
  <2> HIDE DEF Cleared
  <2> QED BY <1>11, <2>1 DEF LinuxRating
<1>12. CASE c = "auth_log_recent_logins"
  BY <1>12 DEF LinuxRating, AuthLogRecentLogins
<1>13. CASE c = "forkbomb_limits"
  <2>1. \A t \in {"limits.conf", "limits.d", "pids.max", "list limits.d"} :
           q[t] = "ok" => p[t] = "ok"
    OBVIOUS
  <2>2. ProcessLimitEntries(h, q) \subseteq ProcessLimitEntries(h, p)
    BY <2>1 DEF ProcessLimitEntries
  <2>3. ~ Cleared(ForkbombLimits(h, p), ForkbombLimits(h, q))
    BY <2>2 DEF ForkbombLimits
  <2> HIDE DEF Cleared
  <2> QED BY <1>13, <2>3 DEF LinuxRating
<1>14. CASE c = "process_anomalies"
  BY <1>14 DEF LinuxRating, ProcessAnomalies
<1>15. CASE c = "xt_geoip_module"
  BY <1>15 DEF LinuxRating, XTGeoIPModule
<1> QED BY <1>0, <1>1, <1>2, <1>3, <1>4, <1>5, <1>6, <1>7, <1>8, <1>9, <1>10,
   <1>11, <1>12, <1>13, <1>14, <1>15

(* For sshd there is one source, without which nothing is judged.          *)
LEMMA SSHLoss ==
  ASSUME NEW h, NEW p, NEW q, NEW s, Lost("sshd", p, q, s),
         NEW c \in DOMAIN SSHRating(h, p),
         Cleared(SSHRating(h, p)[c], SSHRating(h, q)[c])
  PROVE  <<"sshd", c, s>> \in Trusted
<1>1. \A option, rating :
        ~ Cleared(WhenKnown(h, p, option, rating), WhenKnown(h, q, option, rating))
  BY DEF WhenKnown, Cleared, IsRisk, Unverified, Unseen
<1>2. c \in {"permit_root_login", "password_authentication", "permit_empty_passwords"}
  BY DEF SSHRating
<1>3. CASE c = "permit_root_login"
  BY <1>1, <1>3 DEF SSHRating, PermitRootLogin
<1>4. CASE c = "password_authentication"
  BY <1>1, <1>4 DEF SSHRating, PasswordAuthentication
<1>5. CASE c = "permit_empty_passwords"
  BY <1>1, <1>5 DEF SSHRating, PermitEmptyPasswords
<1> QED BY <1>2, <1>3, <1>4, <1>5

(* The same for docker.  Without ss and the two sources of its options, the *)
(* daemon is taken to listen nowhere.                                      *)
LEMMA DockerLoss ==
  ASSUME NEW h, NEW p, NEW q, NEW s, Lost("docker", p, q, s),
         NEW c \in DOMAIN DockerRating(h, p),
         Cleared(DockerRating(h, p)[c], DockerRating(h, q)[c])
  PROVE  <<"docker", c, s>> \in Trusted
<1> USE DEF Cleared, IsRisk, Shown, Unseen, NotApplicable, Unverified, Lost,
            Sources, Commands, Files, DockerCommands, DockerFiles, UnitList,
            WhenDetected, ContainerCheck, WhenReadable
<1>0. c \in {"daemon_detected", "version", "socket_permissions",
           "exposed_tcp_socket", "privileged_containers", "host_mounts",
           "host_network", "dangerous_capabilities", "no_new_privileges",
           "container_user_root", "image_tag_latest", "restart_policy",
           "unused_data", "container_logs_large", "overlay2_usage"}
  BY DEF DockerRating
<1>1. CASE c = "daemon_detected"
  BY <1>1 DEF DockerRating, DaemonDetected
<1>2. CASE c = "version"
  BY <1>2 DEF DockerRating, DockerVersion
<1>3. CASE c = "socket_permissions"
  <2>1. Cleared(SocketPermissions(h, p), SocketPermissions(h, q))
         => s = "ss"
    BY DEF SocketPermissions, ListeningEndpoints
  <2> HIDE DEF Cleared
  <2> QED BY <1>3, <2>1, TrustedLosses DEF DockerRating
<1>4. CASE c = "exposed_tcp_socket"
  <2> SUFFICES ASSUME s \notin {"ss", "daemon.json", "systemctl"}  PROVE FALSE
    BY <1>4, TrustedLosses
  <2>1. ListeningEndpoints(h, q) = ListeningEndpoints(h, p)
    BY DEF ListeningEndpoints
  <2>2. q["daemon.json"] = p["daemon.json"] /\ q["systemctl"] = p["systemctl"]
    OBVIOUS
  <2>3. ConfiguredEndpoints(h, q) = ConfiguredEndpoints(h, p)
    BY <2>2 DEF ConfiguredEndpoints
  <2>4. ~ Cleared(ExposedTCPSocket(h, p), ExposedTCPSocket(h, q))
    BY <2>1, <2>3 DEF ExposedTCPSocket
  <2> HIDE DEF Cleared
  <2> QED BY <1>4, <2>4 DEF DockerRating
<1>5. CASE c = "privileged_containers"
  BY <1>5 DEF DockerRating, PrivilegedContainers
<1>6. CASE c = "host_mounts"
  BY <1>6 DEF DockerRating, HostMounts
<1>7. CASE c = "host_network"
  BY <1>7 DEF DockerRating, HostNetwork
<1>8. CASE c = "dangerous_capabilities"
  BY <1>8 DEF DockerRating, DangerousCapabilities
<1>9. CASE c = "no_new_privileges"
  BY <1>9 DEF DockerRating, NoNewPrivileges
<1>10. CASE c = "container_user_root"
  BY <1>10 DEF DockerRating, ContainerUserRoot
<1>11. CASE c = "image_tag_latest"
  BY <1>11 DEF DockerRating, ImageTagLatest
<1>12. CASE c = "restart_policy"
  BY <1>12 DEF DockerRating, RestartPolicy
<1>13. CASE c = "unused_data"
  BY <1>13 DEF DockerRating, UnusedData
<1>14. CASE c = "container_logs_large"
  BY <1>14 DEF DockerRating, ContainerLogsLarge
<1>15. CASE c = "overlay2_usage"
  BY <1>15 DEF DockerRating, Overlay2Usage
<1> QED BY <1>0, <1>1, <1>2, <1>3, <1>4, <1>5, <1>6, <1>7, <1>8, <1>9, <1>10,
   <1>11, <1>12, <1>13, <1>14, <1>15

(* The same for mysql, where a lost file takes with it what it sets and how *)
(* it is protected.                                                        *)
LEMMA MySQLLoss ==
  ASSUME NEW h, NEW p, NEW q, NEW s, Lost("mysql", p, q, s),
         NEW c \in DOMAIN MySQLRating(h, p),
         Cleared(MySQLRating(h, p)[c], MySQLRating(h, q)[c])
  PROVE  <<"mysql", c, s>> \in Trusted
<1> USE DEF Cleared, IsRisk, Shown, Unseen, NotApplicable, Unverified, Lost,
            Sources, Commands, Files, MySQLCommands, MySQLFiles, UnitList, WhenMySQL
<1>0. c \in {"version", "bind_localhost", "remote_access", "root_password",
           "anonymous_users", "innodb_buffer_pool", "max_connections",
           "tls_enabled", "logs_configured", "backups_detected",
           "config_permissions", "skip_name_resolve"}
  BY DEF MySQLRating
<1>1. CASE c = "version"
  BY <1>1 DEF MySQLRating, MySQLVersion
<1>2. CASE c = "bind_localhost"
  <2>1. Cleared(BindLocalhost(h, p), BindLocalhost(h, q))
         => s \in {"ss", "my.cnf", "conf.d"}
    BY DEF BindLocalhost, ExposedToPublic, BindAddress, ListensOn, Configured,
       LoadedFiles
  <2> HIDE DEF Cleared
  <2> QED BY <1>2, <2>1, TrustedLosses DEF MySQLRating
<1>3. CASE c = "remote_access"
  BY <1>3 DEF MySQLRating, RemoteAccess
<1>4. CASE c = "root_password"
  <2>1. ~ Cleared(RootPassword(h, p), RootPassword(h, q))
    BY DEF RootPassword, LoginWorks, ServerAnswers
  <2> HIDE DEF Cleared
  <2> QED BY <1>4, <2>1 DEF MySQLRating
<1>5. CASE c = "anonymous_users"
  BY <1>5 DEF MySQLRating, AnonymousUsers
<1>6. CASE c = "innodb_buffer_pool"
  <2>1. ~ Cleared(InnoDBBufferPool(h, p), InnoDBBufferPool(h, q))
    BY DEF InnoDBBufferPool, LoadedFiles
  <2> HIDE DEF Cleared
  <2> QED BY <1>6, <2>1 DEF MySQLRating
<1>7. CASE c = "max_connections"
  <2>1. LoginWorks(h, q) => LoginWorks(h, p)
    BY DEF LoginWorks, ServerAnswers
  <2>2. Configured(h, q, "maxIsConfigured", TRUE)
          => Configured(h, p, "maxIsConfigured", TRUE)
    BY DEF Configured, LoadedFiles
  <2>3. ~ Cleared(MaxConnections(h, p), MaxConnections(h, q))
    <3>1. CASE h.maxConnections > 1000
      BY <3>1 DEF MaxConnections
    <3>2. CASE ~ (h.maxConnections > 1000)
      BY <2>1, <2>2, <3>2 DEF MaxConnections
    <3> QED BY <3>1, <3>2
  <2> HIDE DEF Cleared
  <2> QED BY <1>7, <2>3 DEF MySQLRating
<1>8. CASE c = "tls_enabled"
  <2>1. ~ Cleared(TLSEnabled(h, p), TLSEnabled(h, q))
    BY DEF TLSEnabled, TLSOK, LoginWorks, ServerAnswers, Configured, LoadedFiles
  <2> HIDE DEF Cleared
  <2> QED BY <1>8, <2>1 DEF MySQLRating
<1>9. CASE c = "logs_configured"
  <2>1. ~ Cleared(LogsConfigured(h, p), LogsConfigured(h, q))
    BY DEF LogsConfigured, Configured, LoadedFiles
  <2> HIDE DEF Cleared
  <2> QED BY <1>9, <2>1 DEF MySQLRating
<1>10. CASE c = "backups_detected"
  BY <1>10 DEF MySQLRating, BackupsDetected
<1>11. CASE c = "config_permissions"
  <2> SUFFICES ASSUME s # "conf.d"  PROVE FALSE
    BY <1>11, TrustedLosses
  <2>1. LoadedFiles(q) = {} \/ LoadedFiles(q) = LoadedFiles(p)
    BY DEF LoadedFiles
  <2>2. ~ Cleared(MySQLConfigPermissions(h, p), MySQLConfigPermissions(h, q))
    BY <2>1 DEF MySQLConfigPermissions, LoadedModes
  <2> HIDE DEF Cleared
  <2> QED BY <1>11, <2>2 DEF MySQLRating
<1>12. CASE c = "skip_name_resolve"
  BY <1>12 DEF MySQLRating, SkipNameResolve
<1> QED BY <1>0, <1>1, <1>2, <1>3, <1>4, <1>5, <1>6, <1>7, <1>8, <1>9, <1>10,
   <1>11, <1>12

(* For nginx, losing anything leaves each check its verdict or an excuse.  *)
LEMMA NginxLoss ==
  ASSUME NEW h, NEW p, NEW q, NEW s, Lost("nginx", p, q, s),
         NEW c \in DOMAIN NginxRating(h, p),
         Cleared(NginxRating(h, p)[c], NginxRating(h, q)[c])
  PROVE  <<"nginx", c, s>> \in Trusted
<1>1. \A rating : ~ Cleared(WhenDumped(h, p, rating), WhenDumped(h, q, rating))
  BY DEF WhenDumped, Cleared, IsRisk, NotApplicable, Unverified, Unseen
<1>c. c \in {"service_detected", "server_tokens", "autoindex",
           "hidden_files_access", "directory_listing_risk",
           "tls_protocols", "security_headers", "default_vhost"}
  BY DEF NginxRating
<1>2. CASE c = "service_detected"
  BY <1>2 DEF NginxRating, ServiceDetected, Cleared, IsRisk, Unseen
<1>3. CASE c = "server_tokens"
  BY <1>1, <1>3 DEF NginxRating, ServerTokens
<1>4. CASE c = "autoindex"
  BY <1>1, <1>4 DEF NginxRating, Autoindex
<1>5. CASE c = "hidden_files_access"
  BY <1>1, <1>5 DEF NginxRating, HiddenFilesAccess
<1>6. CASE c = "directory_listing_risk"
  BY <1>1, <1>6 DEF NginxRating, DirectoryListingRisk
<1>7. CASE c = "tls_protocols"
  BY <1>1, <1>7 DEF NginxRating, TLSProtocols
<1>8. CASE c = "security_headers"
  BY <1>1, <1>8 DEF NginxRating, SecurityHeaders
<1>9. CASE c = "default_vhost"
  BY <1>1, <1>9 DEF NginxRating, DefaultVhost
<1> QED BY <1>c, <1>2, <1>3, <1>4, <1>5, <1>6, <1>7, <1>8, <1>9

(* The same for varnish: storage settings are only lost, and a counter that *)
(* is not read is not judged.                                              *)
LEMMA VarnishLoss ==
  ASSUME NEW h, NEW p, NEW q, NEW s, Lost("varnish", p, q, s),
         NEW c \in DOMAIN VarnishRating(h, p),
         Cleared(VarnishRating(h, p)[c], VarnishRating(h, q)[c])
  PROVE  <<"varnish", c, s>> \in Trusted
<1>1. \A a, b : Cleared(WhenVarnish(h, p, a), WhenVarnish(h, q, b)) => Cleared(a, b)
  BY DEF WhenVarnish, Cleared, IsRisk, NotApplicable, Unseen
<1>2. \A x, y, a : ~ Cleared(WhenAnswered(h, p, x, a), WhenAnswered(h, q, y, a))
  BY <1>1 DEF WhenAnswered, Cleared, IsRisk, Unverified, Unseen
<1>3. \A a : ~ Cleared(WhenCounted(h, p, a), WhenCounted(h, q, a))
  BY <1>2 DEF WhenCounted
<1>c. c \in {"version", "storage_malloc", "cache_hit_ratio",
           "lru_nuked_objects", "backend_health", "listen_ports"}
  BY DEF VarnishRating
<1>4. CASE c = "version"
  BY <1>2, <1>4 DEF VarnishRating, VarnishVersion
<1>5. CASE c = "storage_malloc"
  <2>1. StorageKinds(h, q) \subseteq StorageKinds(h, p)
    BY DEF StorageKinds, StorageSources, Lost, Sources, Commands, Files, UnitList,
       VarnishCommands, VarnishFiles
  <2>2. ~ Cleared(StorageMalloc(h, p), StorageMalloc(h, q))
    BY <1>1, <2>1 DEF StorageMalloc, Cleared, IsRisk, Shown
  <2> QED BY <1>5, <2>2 DEF VarnishRating
<1>6. CASE c = "cache_hit_ratio"
  BY <1>3, <1>6 DEF VarnishRating, CacheHitRatio
<1>7. CASE c = "lru_nuked_objects"
  BY <1>3, <1>7 DEF VarnishRating, LRUNukedObjects
<1>8. CASE c = "backend_health"
  BY <1>3, <1>8 DEF VarnishRating, BackendHealth
<1>9. CASE c = "listen_ports"
  BY <1>2, <1>9 DEF VarnishRating, VarnishListenPorts
<1> QED BY <1>c, <1>4, <1>5, <1>6, <1>7, <1>8, <1>9

(* The same for redis.  A file that cannot be read still names its engine, *)
(* so that what else is lost is the trace of one.                          *)
LEMMA RedisLoss ==
  ASSUME NEW h, NEW p, NEW q, NEW s, Lost("redis", p, q, s),
         NEW c \in DOMAIN RedisRating(h, p),
         Cleared(RedisRating(h, p)[c], RedisRating(h, q)[c])
  PROVE  <<"redis", c, s>> \in Trusted
<1>c. c \in {"version", "bind_localhost", "protected_mode", "maxmemory",
           "persistence", "authentication"}
  BY DEF RedisRating
<1>1. CASE c = "version"
  BY <1>1 DEF RedisRating, RedisVersion, Cleared, IsRisk, NotApplicable, Unverified, Unseen
<1> SUFFICES ASSUME c # "version", s \notin EngineSources  PROVE FALSE
  BY <1>1, <1>c, TrustedLosses DEF EngineChecks
<1>2. /\ s \in RedisFiles /\ q[s] = "broken" /\ p[s] = "ok"
      /\ \A t \in Sources("redis") : t # s => q[t] = p[t]
  BY DEF Lost, Sources, Files, Commands, EngineSources, RedisFiles, RedisCommands
<1>3. \A e \in Engines : TraceFoundAt(h, q, e) = TraceFoundAt(h, p, e)
  <2>1. \A t \in RedisCommands \union {UnitList} : q[t] = p[t]
    BY <1>2 DEF Sources, Files, Commands, RedisFiles, RedisCommands, UnitList
  <2>2. \A t \in RedisFiles : (q[t] = "missing") <=> (p[t] = "missing")
    BY <1>2 DEF Sources, Files
  <2> QED
    BY ONLY <2>1, <2>2 DEF TraceFoundAt, RedisPresent, Engines, Server, Client, Conf,
       RedisFiles, RedisCommands, UnitList
<1>4. EngineJudged(h, q) = EngineJudged(h, p)
  BY <1>3 DEF EngineJudged, Engines
<1>5. \A fact : RedisSetting(h, q, fact) = RedisSetting(h, p, fact)
  BY <1>4 DEF RedisSetting
<1>6. \A a : ~ Cleared(WhenRedisConfigured(h, p, a), WhenRedisConfigured(h, q, a))
  BY DEF WhenRedisConfigured, Cleared, IsRisk, NotApplicable, Unverified, Unseen
<1>7. CASE c = "bind_localhost"
  <2>1. ~ Cleared(RedisBindLocalhost(h, p), RedisBindLocalhost(h, q))
    BY <1>5, <1>6 DEF RedisBindLocalhost
  <2> QED BY <1>7, <2>1 DEF RedisRating
<1>8. CASE c = "protected_mode"
  <2>1. ~ Cleared(ProtectedMode(h, p), ProtectedMode(h, q))
    BY <1>5, <1>6 DEF ProtectedMode
  <2> QED BY <1>8, <2>1 DEF RedisRating
<1>9. CASE c = "maxmemory"
  <2>1. ~ Cleared(MaxMemory(h, p), MaxMemory(h, q))
    BY <1>5, <1>6 DEF MaxMemory
  <2> QED BY <1>9, <2>1 DEF RedisRating
<1>10. CASE c = "persistence"
  <2>1. ~ Cleared(Persistence(h, p), Persistence(h, q))
    BY <1>5, <1>6 DEF Persistence
  <2> QED BY <1>10, <2>1 DEF RedisRating
<1>11. CASE c = "authentication"
  <2>1. ~ Cleared(Authentication(h, p), Authentication(h, q))
    BY <1>5, <1>6 DEF Authentication
  <2> QED BY <1>11, <2>1 DEF RedisRating
<1> QED BY <1>c, <1>7, <1>8, <1>9, <1>10, <1>11

(* The same for phpfpm.                                                    *)
LEMMA PhpLoss ==
  ASSUME NEW h, NEW p, NEW q, NEW s, Lost("phpfpm", p, q, s),
         NEW c \in DOMAIN PhpRating(h, p),
         Cleared(PhpRating(h, p)[c], PhpRating(h, q)[c])
  PROVE  <<"phpfpm", c, s>> \in Trusted
<1>1. /\ p[s] = "ok" /\ q[s] # "ok"
      /\ q[s] = "broken" \/ s \in PhpCommands
      /\ s \in PhpCommands \union PhpFiles \union {UnitList}
      /\ \A t \in PhpCommands \union PhpFiles : t # s => q[t] = p[t]
  BY DEF Lost, Sources, Commands, Files
<1>2. InisRead(q) \subseteq InisRead(p)
  BY <1>1 DEF InisRead, PhpFiles
<1>3. s \notin IniFiles => InisRead(q) = InisRead(p)
  BY <1>1 DEF InisRead, PhpFiles
<1>4. \A a, b : Cleared(WhenDiscovered(h, p, a), WhenDiscovered(h, q, b))
                => Cleared(a, b) /\ q["pool"] # "broken"
  BY DEF WhenDiscovered, Cleared, IsRisk, NotApplicable, Unverified, Unseen
<1>5. \A a, b : Cleared(WhenIniFound(h, p, a), WhenIniFound(h, q, b)) => Cleared(a, b)
  BY <1>4 DEF WhenIniFound, Cleared, IsRisk, NotApplicable, Unseen
<1>6. \A a, b : Cleared(WhenPoolFound(h, p, a), WhenPoolFound(h, q, b)) => Cleared(a, b)
  BY <1>4 DEF WhenPoolFound, Cleared, IsRisk, NotApplicable, Unseen
<1>7. \A a, b : Cleared(WhenWorkerFound(h, p, a), WhenWorkerFound(h, q, b)) => Cleared(a, b)
  BY <1>6 DEF WhenWorkerFound, Cleared, IsRisk, NotApplicable, Unseen
<1>8. \A a : ~ Cleared(a, a)
  BY DEF Cleared, IsRisk
<1>c. c \in {"available_versions", "pm_max_children",
           "disabled_functions", "open_basedir", "logs_configured",
           "session_cookie_security", "expose_php", "display_errors",
           "pool_user", "pool_socket_security"}
  BY DEF PhpRating
<1>9. CASE c = "available_versions"
  BY <1>9 DEF PhpRating, AvailableVersions, Cleared, IsRisk, Unseen
<1>10. CASE c = "pm_max_children"
  <2> SUFFICES ASSUME s # "meminfo"  PROVE FALSE
    BY <1>10, TrustedLosses
  <2>1. q["meminfo"] = p["meminfo"]
    BY <1>1 DEF PhpFiles
  <2>2. ~ Cleared(PMMaxChildren(h, p), PMMaxChildren(h, q))
    BY <1>7, <1>8, <2>1 DEF PMMaxChildren
  <2> QED BY <1>10, <2>2 DEF PhpRating
<1>11. CASE c = "disabled_functions"
  <2> SUFFICES ASSUME s \notin IniFiles  PROVE FALSE
    BY <1>11, TrustedLosses DEF PerFile
  <2>1. ~ Cleared(DisabledFunctions(h, p), DisabledFunctions(h, q))
    BY <1>3, <1>5, <1>8 DEF DisabledFunctions, IniValues
  <2> QED BY <1>11, <2>1 DEF PhpRating
<1>12. CASE c = "open_basedir"
  <2>1. IniValues(q, "unset", h.basedirFPM) \subseteq IniValues(p, "unset", h.basedirFPM)
    BY <1>2 DEF IniValues
  <2>2. q["pool"] = "ok" => p["pool"] = "ok"
    BY <1>1 DEF PhpFiles
  <2>3. ~ Cleared(OpenBasedir(h, p), OpenBasedir(h, q))
    BY <1>4, <2>1, <2>2 DEF OpenBasedir, Cleared, IsRisk, Shown
  <2> QED BY <1>12, <2>3 DEF PhpRating
<1>13. CASE c = "logs_configured"
  <2> SUFFICES ASSUME s \notin IniFiles  PROVE FALSE
    BY <1>13, TrustedLosses
  <2>1. CASE s = "pool"
    <3>1. q["pool"] = "broken"
      BY <1>1, <2>1 DEF PhpCommands
    <3> QED BY <1>4, <1>13, <3>1 DEF PhpRating, PhpLogsConfigured
  <2>2. CASE s # "pool"
    <3>1. q["pool"] = p["pool"]
      BY <1>1, <2>2 DEF PhpFiles
    <3>2. ErrorLog(h, q) = ErrorLog(h, p)
      BY <1>3, <3>1 DEF ErrorLog, FirstSet
    <3>3. ~ Cleared(PhpLogsConfigured(h, p), PhpLogsConfigured(h, q))
      BY <1>4, <1>8, <3>2 DEF PhpLogsConfigured
    <3> QED BY <1>13, <3>3 DEF PhpRating
  <2> QED BY <2>1, <2>2
<1>14. CASE c = "session_cookie_security"
  <2> SUFFICES ASSUME s # "cli/php.ini"  PROVE FALSE
    BY <1>14, TrustedLosses
  <2>1. /\ "cli/php.ini" \in InisRead(q) <=> "cli/php.ini" \in InisRead(p)
        /\ "fpm/php.ini" \in InisRead(q) => "fpm/php.ini" \in InisRead(p)
    BY <1>1 DEF InisRead, IniFiles, PhpFiles
  <2>2. CookiesHardened(h, q) => CookiesHardened(h, p)
    BY <2>1 DEF CookiesHardened, FirstSet
  <2>3. ~ Cleared(SessionCookieSecurity(h, p), SessionCookieSecurity(h, q))
    BY <1>4, <2>2 DEF SessionCookieSecurity, Cleared, IsRisk, Shown
  <2> QED BY <1>14, <2>3 DEF PhpRating
<1>15. CASE c = "expose_php"
  <2> SUFFICES ASSUME s \notin IniFiles  PROVE FALSE
    BY <1>15, TrustedLosses DEF PerFile
  <2>1. ~ Cleared(ExposePHP(h, p), ExposePHP(h, q))
    BY <1>3, <1>5, <1>8 DEF ExposePHP, IniValues
  <2> QED BY <1>15, <2>1 DEF PhpRating
<1>16. CASE c = "display_errors"
  <2> SUFFICES ASSUME s \notin IniFiles  PROVE FALSE
    BY <1>16, TrustedLosses DEF PerFile
  <2>1. ~ Cleared(DisplayErrors(h, p), DisplayErrors(h, q))
    BY <1>3, <1>5, <1>8 DEF DisplayErrors, IniValues
  <2> QED BY <1>16, <2>1 DEF PhpRating
<1>17. CASE c = "pool_user"
  <2>1. ~ Cleared(PoolUser(h, p), PoolUser(h, q))
    BY <1>7, <1>8 DEF PoolUser
  <2> QED BY <1>17, <2>1 DEF PhpRating
<1>18. CASE c = "pool_socket_security"
  <2>1. ~ Cleared(PoolSocketSecurity(h, p), PoolSocketSecurity(h, q))
    BY <1>6, <1>8 DEF PoolSocketSecurity
  <2> QED BY <1>18, <2>1 DEF PhpRating
<1> QED BY <1>c, <1>9, <1>10, <1>11, <1>12, <1>13, <1>14, <1>15, <1>16, <1>17, <1>18

(* The same for searchengine, where without a trace of the engine nothing  *)
(* is judged at all.                                                       *)
LEMMA SearchLoss ==
  ASSUME NEW h, NEW p, NEW q, NEW s, Lost("searchengine", p, q, s),
         NEW c \in DOMAIN SearchRating(h, p),
         Cleared(SearchRating(h, p)[c], SearchRating(h, q)[c])
  PROVE  <<"searchengine", c, s>> \in Trusted
<1>1. /\ p[s] = "ok" /\ q[s] # "ok"
      /\ q[s] = "broken" \/ s \in SearchCommands
      /\ s \in SearchCommands \union SearchFiles \union {UnitList}
      /\ \A t \in SearchCommands \union SearchFiles : t # s => q[t] = p[t]
  BY DEF Lost, Sources, Commands, Files
<1> USE DEF SearchCommands, SearchFiles
<1>2. \A a, b : Cleared(WhenSearch(h, p, a), WhenSearch(h, q, b)) => Cleared(a, b)
  BY DEF WhenSearch, Cleared, IsRisk, NotApplicable, Unseen
<1>3. \A a : ~ Cleared(a, a)
  BY DEF Cleared, IsRisk
<1>4. APIAnswers(h, q) => APIAnswers(h, p)
  BY <1>1 DEF APIAnswers
<1>5. \A f : SearchConfigured(h, q, f) \in {SearchConfigured(h, p, f), "unset"}
  BY <1>1 DEF SearchConfigured
<1>6. s \notin {"jvm.options", "jvm.options.d"} => JVMFilesRead(q) = JVMFilesRead(p)
  BY <1>1 DEF JVMFilesRead
<1>c. c \in {"version", "cluster_health", "bind_localhost", "jvm_memory",
           "security_enabled", "runs_as_root", "backups_snapshots",
           "tls_configured", "dangerous_destructive_actions",
           "file_permissions"}
  BY DEF SearchRating
<1>7. CASE c = "version"
  BY <1>7 DEF SearchRating, SearchVersion, WhenSearch, Cleared, IsRisk, NotApplicable,
     Unverified, Unseen
<1>8. CASE c = "cluster_health"
  <2>1. ~ Cleared(ClusterHealth(h, p), ClusterHealth(h, q))
    BY <1>2, <1>4 DEF ClusterHealth, Cleared, IsRisk, NotApplicable, Shown, Unseen
  <2> QED BY <1>8, <2>1 DEF SearchRating
<1>9. CASE c = "bind_localhost"
  <2> SUFFICES ASSUME s \notin {"ss", "config"}  PROVE FALSE
    BY <1>9, TrustedLosses
  <2> q["ss"] = p["ss"] /\ q["config"] = p["config"]
    BY <1>1
  <2>0. /\ \A f : SearchConfigured(h, q, f) = SearchConfigured(h, p, f)
        /\ SearchListensOn(h, q) = SearchListensOn(h, p)
    BY DEF SearchConfigured, SearchListensOn
  <2>1. SearchIsPublic(h, q) = SearchIsPublic(h, p)
    <3>1. BindValues(h, q) = BindValues(h, p)
      BY <2>0 DEF BindValues
    <3> QED BY <2>0, <3>1 DEF SearchIsPublic
  <2>2. ~ Cleared(SearchBindLocalhost(h, p), SearchBindLocalhost(h, q))
    BY <1>2, <1>3, <2>1 DEF SearchBindLocalhost
  <2> QED BY <1>9, <2>2 DEF SearchRating
<1>10. CASE c = "jvm_memory"
  <2> SUFFICES ASSUME s \notin {"jvm.options.d", "meminfo"}  PROVE FALSE
    BY <1>10, TrustedLosses
  <2>1. Heap(h, q) = Heap(h, p) \/ Heap(h, q) = "uneven"
    <3>1. CASE s = "jvm.options"
      <4>1. q["jvm.options"] = "broken"
        BY ONLY <3>1, <1>1 DEF SearchCommands
      <4>2. JVMFilesRead(q) = {}
        BY ONLY <4>1 DEF JVMFilesRead
      <4> QED BY ONLY <4>2 DEF Heap
    <3>2. CASE s # "jvm.options"
      <4>1. /\ q["jvm.options"] = p["jvm.options"]
            /\ q["jvm.options.d"] = p["jvm.options.d"]
        BY <3>2, <1>1
      <4>2. JVMFilesRead(q) = JVMFilesRead(p)
        BY ONLY <4>1 DEF JVMFilesRead
      <4> QED BY ONLY <4>2 DEF Heap
    <3> QED BY <3>1, <3>2
  <2>2. ~ Cleared(JVMMemory(h, p), JVMMemory(h, q))
    <3>1. q["meminfo"] = p["meminfo"]
      BY <1>1
    <3>2. SUFFICES ASSUME Cleared(JVMMemory(h, p), JVMMemory(h, q))  PROVE FALSE
      OBVIOUS
    <3>3. CASE Heap(h, q) = Heap(h, p)
      BY ONLY <1>2, <1>3, <3>1, <3>2, <3>3 DEF JVMMemory
    <3>4. CASE Heap(h, q) = "uneven"
      <4>1. \E y : Cleared(y, Shown("warn", "medium"))
        BY ONLY <1>2, <3>2, <3>4 DEF JVMMemory
      <4> QED BY ONLY <4>1 DEF Cleared, IsRisk, Shown
    <3> QED BY <2>1, <3>3, <3>4
  <2> QED BY <1>10, <2>2 DEF SearchRating
<1>11. CASE c = "security_enabled"
  <2>1. ~ Cleared(SecurityEnabled(h, p), SecurityEnabled(h, q))
    BY <1>2, <1>5 DEF SecurityEnabled, Cleared, IsRisk, Shown
  <2> QED BY <1>11, <2>1 DEF SearchRating
<1>12. CASE c = "runs_as_root"
  <2> SUFFICES ASSUME s # "systemctl"  PROVE FALSE
    BY <1>12, TrustedLosses
  <2> q["systemctl"] = p["systemctl"] /\ (q["ps"] = "ok" => p["ps"] = "ok")
    BY <1>1
  <2>1. ProcessUser(h, q) \in {ProcessUser(h, p), "unknown"}
    <3>1. CASE p["systemctl"] = "ok"
      BY <3>1 DEF ProcessUser
    <3>2. CASE p["systemctl"] # "ok"
      BY <3>2 DEF ProcessUser
    <3> QED BY <3>1, <3>2
  <2>2. ~ Cleared(RunsAsRoot(h, p), RunsAsRoot(h, q))
    BY <1>2, <1>3, <2>1 DEF RunsAsRoot, Cleared, IsRisk, Shown, Unseen
  <2> QED BY <1>12, <2>2 DEF SearchRating
<1>13. CASE c = "backups_snapshots"
  <2>1. ~ Cleared(BackupsSnapshots(h, p), BackupsSnapshots(h, q))
    BY <1>2, <1>4, <1>5 DEF BackupsSnapshots, Cleared, IsRisk, Shown
  <2> QED BY <1>13, <2>1 DEF SearchRating
<1>14. CASE c = "tls_configured"
  <2>1. CASE SearchConfigured(h, q, "httpTLS") = "enabled"
    <3>1. SearchConfigured(h, p, "httpTLS") = "enabled"
      BY <1>5, <2>1
    <3>2. ~ Cleared(TLSConfigured(h, p), TLSConfigured(h, q))
      BY <1>2, <1>3, <2>1, <3>1 DEF TLSConfigured
    <3> QED BY <1>14, <3>2 DEF SearchRating
  <2>2. CASE SearchConfigured(h, q, "httpTLS") # "enabled"
    <3>1. TLSConfigured(h, q).status # "pass"
      BY <2>2 DEF TLSConfigured, WhenSearch, NotApplicable, Shown, Unseen
    <3> QED BY <1>14, <3>1 DEF SearchRating, Cleared
  <2> QED BY <2>1, <2>2
<1>15. CASE c = "dangerous_destructive_actions"
  <2>1. ~ Cleared(DestructiveActions(h, p), DestructiveActions(h, q))
    BY <1>2, <1>5 DEF DestructiveActions, Cleared, IsRisk, Shown
  <2> QED BY <1>15, <2>1 DEF SearchRating
<1>16. CASE c = "file_permissions"
  <2> SUFFICES ASSUME s \notin {"config", "jvm.options", "jvm.options.d"}  PROVE FALSE
    BY <1>16, TrustedLosses
  <2>1. SearchModes(h, q) = SearchModes(h, p)
    BY <1>1, <1>6 DEF SearchModes
  <2>2. ~ Cleared(SearchFilePermissions(h, p), SearchFilePermissions(h, q))
    BY <1>2, <1>3, <2>1 DEF SearchFilePermissions
  <2> QED BY <1>16, <2>2 DEF SearchRating
<1> QED BY <1>c, <1>7, <1>8, <1>9, <1>10, <1>11, <1>12, <1>13, <1>14, <1>15, <1>16
-----------------------------------------------------------------------------
(* The report in the state is the one the checks make of the present host. *)
LEMMA AlwaysAudited == Spec => []Audited
<1>1. Init => Audited
  BY DEF Init, Audited
<1>2. Audited /\ [Next]_vars => Audited'
  BY DEF Audited, Next, Harden, Weaken, Lose, RemoveFile, Regain, AuditAgain, vars
<1> QED BY <1>1, <1>2, PTL DEF Spec

(* A package is one of the nine, and its report the rating of its checks. *)
LEMMA HonestReport ==
  ASSUME package \in Packages, Audited
  PROVE  \A c \in DOMAIN report : Honest(report[c])
<1>1. package \in AllPackages
  BY PackagesAssumption
<1>2. CASE package = "linux"
  BY <1>2, LinuxHonest DEF Audited, Rate
<1>3. CASE package = "docker"
  BY <1>3, DockerHonest DEF Audited, Rate
<1>4. CASE package = "mysql"
  BY <1>4, MySQLHonest DEF Audited, Rate
<1>5. CASE package = "redis"
  BY <1>5, RedisHonest DEF Audited, Rate
<1>6. CASE package = "nginx"
  BY <1>6, NginxHonest DEF Audited, Rate
<1>7. CASE package = "varnish"
  BY <1>7, VarnishHonest DEF Audited, Rate
<1>8. CASE package = "phpfpm"
  BY <1>8, PhpHonest DEF Audited, Rate
<1>9. CASE package = "searchengine"
  BY <1>9, SearchHonest DEF Audited, Rate
<1>10. CASE package = "sshd"
  BY <1>10, SSHHonest DEF Audited, Rate
<1> QED BY <1>1, <1>2, <1>3, <1>4, <1>5, <1>6, <1>7, <1>8, <1>9, <1>10 DEF AllPackages

(* What a source answers is one of the three answers, and the package is   *)
(* the same in all audits of a behaviour.                                  *)
LEMMA AnswersStay ==
  Spec => [](package \in Packages /\ probe \in [Sources(package) -> Answers])
<1> DEFINE Typed == package \in Packages /\ probe \in [Sources(package) -> Answers]
<1> USE DEF Answers
<1>1. Init => Typed
  BY DEF Init
<1>2. Typed /\ [Next]_vars => Typed'
  <2> SUFFICES ASSUME Typed, [Next]_vars  PROVE Typed'
    OBVIOUS
  <2>1. CASE Harden  BY <2>1 DEF Harden, Turn, AuditAgain
  <2>2. CASE Weaken  BY <2>2 DEF Weaken, Turn, AuditAgain
  <2>3. CASE Lose    BY <2>3 DEF Lose, Fails, Answer, AuditAgain
  <2>4. CASE RemoveFile  BY <2>4 DEF RemoveFile, Answer, AuditAgain
  <2>5. CASE Regain  BY <2>5 DEF Regain, Answer, AuditAgain
  <2>6. CASE UNCHANGED vars  BY <2>6 DEF vars
  <2> QED BY <2>1, <2>2, <2>3, <2>4, <2>5, <2>6 DEF Next
<1> QED BY <1>1, <1>2, PTL DEF Spec

(* The ratings are ones a report knows (Posture's types), whatever is      *)
(* audited.                                                                *)
THEOREM TypeCorrect == Spec => []TypeOK
<1>1. /\ package \in Packages /\ Audited
      /\ probe \in [Sources(package) -> Answers]
      => TypeOK
  BY HonestReport DEF TypeOK, Honest
<1> QED BY <1>1, AnswersStay, AlwaysAudited, PTL

(* No check of the nine packages keeps a failure or a warning from the    *)
(* client's page.                                                          *)
THEOREM RisksAreShown == Spec => []RiskIsShown
<1>1. package \in Packages /\ Audited => RiskIsShown
  BY HonestReport DEF RiskIsShown, Honest
<1> QED BY <1>1, AnswersStay, AlwaysAudited, PTL

(* A check that cannot look says so, except where Trusted names it: the    *)
(* loss of a source never turns a finding into a pass.                     *)
THEOREM LossesClearNobody == Spec => LossClearsNobody
<1> DEFINE Typed == package \in Packages /\ probe \in [Sources(package) -> Answers]
           Kept == \A s \in Sources(package) : Fails(s) =>
                     \A c \in DOMAIN report :
                       IsRisk(report[c]) /\ report'[c].status = "pass"
                         => <<package, c, s>> \in Trusted
<1>1. Typed /\ Audited /\ [Next]_vars => [Kept]_vars
  <2> SUFFICES ASSUME Typed, Audited, Next,
                      NEW s \in Sources(package), Fails(s),
                      NEW c \in DOMAIN report,
                      IsRisk(report[c]), report'[c].status = "pass"
               PROVE  <<package, c, s>> \in Trusted
    OBVIOUS
  <2>1. Lost(package, probe, probe', s) /\ host' = host
    BY DEF Fails, Answer, Lost
  <2>2. report' = Rate(package, host, probe')
    BY <2>1 DEF Next, Harden, Weaken, Lose, RemoveFile, Regain, AuditAgain
  <2>3. report = Rate(package, host, probe)
    BY DEF Audited
  <2>4. package \in AllPackages
    BY PackagesAssumption
  <2>5. Cleared(Rate(package, host, probe)[c], Rate(package, host, probe')[c])
    BY <2>2, <2>3 DEF Cleared
  <2>6. CASE package = "linux"
    BY <2>1, <2>3, <2>5, <2>6, LinuxLoss DEF Rate
  <2>7. CASE package = "docker"
    BY <2>1, <2>3, <2>5, <2>7, DockerLoss DEF Rate
  <2>8. CASE package = "mysql"
    BY <2>1, <2>3, <2>5, <2>8, MySQLLoss DEF Rate
  <2>9. CASE package = "redis"
    BY <2>1, <2>3, <2>5, <2>9, RedisLoss DEF Rate
  <2>10. CASE package = "nginx"
    BY <2>1, <2>3, <2>5, <2>10, NginxLoss DEF Rate
  <2>11. CASE package = "varnish"
    BY <2>1, <2>3, <2>5, <2>11, VarnishLoss DEF Rate
  <2>12. CASE package = "phpfpm"
    BY <2>1, <2>3, <2>5, <2>12, PhpLoss DEF Rate
  <2>13. CASE package = "searchengine"
    BY <2>1, <2>3, <2>5, <2>13, SearchLoss DEF Rate
  <2>14. CASE package = "sshd"
    BY <2>1, <2>3, <2>5, <2>14, SSHLoss DEF Rate
  <2> QED BY <2>4, <2>6, <2>7, <2>8, <2>9, <2>10, <2>11, <2>12, <2>13, <2>14 DEF AllPackages
<1> QED BY <1>1, AnswersStay, AlwaysAudited, PTL DEF Spec, LossClearsNobody
-----------------------------------------------------------------------------
(* Checks that look at the same thing, package by package.                 *)
Errs(r) == r.status = "error"

LEMMA DockerAgrees ==
  ASSUME NEW h, NEW p, DaemonOnLinux(h), p["docker.sock"] \in Answers
  PROVE  LET r == DockerRating(h, p)
         IN  /\ \A c, d \in {"privileged_containers", "host_mounts", "host_network",
                "dangerous_capabilities", "no_new_privileges", "container_user_root",
                "image_tag_latest", "restart_policy"} : Errs(r[c]) <=> Errs(r[d])
             /\ r.socket_permissions.status = "fail" => r.exposed_tcp_socket.status = "fail"
<1> DEFINE Unlisted == DockerDetected(h, p) /\ ~ ContainersListed(h, p)
<1>1. \A found \in BOOLEAN : \A quiet, finding :
        ~ Errs(quiet) /\ ~ Errs(finding) =>
          (Errs(ContainerCheck(h, p, found, quiet, finding)) <=> Unlisted)
  BY DEF ContainerCheck, WhenDetected, Errs, NotApplicable, Unverified, Unseen
<1>2. \A status, severity : status # "error" => ~ Errs(Shown(status, severity))
  BY DEF Errs, Shown
<1>3. /\ Errs(PrivilegedContainers(h, p)) <=> Unlisted
      /\ Errs(HostNetwork(h, p)) <=> Unlisted
      /\ Errs(HostMounts(h, p)) <=> Unlisted
      /\ Errs(DangerousCapabilities(h, p)) <=> Unlisted
  BY <1>1, <1>2 DEF PrivilegedContainers, HostNetwork, HostMounts, DangerousCapabilities
<1>4. /\ Errs(NoNewPrivileges(h, p)) <=> Unlisted
      /\ Errs(ContainerUserRoot(h, p)) <=> Unlisted
      /\ Errs(ImageTagLatest(h, p)) <=> Unlisted
      /\ Errs(RestartPolicy(h, p)) <=> Unlisted
  BY <1>1, <1>2 DEF NoNewPrivileges, ContainerUserRoot, ImageTagLatest, RestartPolicy
<1>5. ASSUME SocketPermissions(h, p).status = "fail"
      PROVE  ExposedTCPSocket(h, p).status = "fail"
  <2>1. p["docker.sock"] \notin {"missing", "broken"}
        /\ PublicAPI(ListeningEndpoints(h, p)) # {}
    BY <1>5 DEF SocketPermissions, NotApplicable, Unverified, Unseen, Shown
  <2>2. h.dockerd = "running" /\ ListeningEndpoints(h, p) # {}
    BY <2>1 DEF PublicAPI, ListeningEndpoints
  <2>3. PublicAPI(ListeningEndpoints(h, p) \union ConfiguredEndpoints(h, p)) # {}
    BY <2>1 DEF PublicAPI
  <2>4. DockerDetected(h, p)
    BY <2>1, <2>2 DEF DockerDetected, DaemonOnLinux, Answers
  <2>5. ListeningEndpoints(h, p) \union ConfiguredEndpoints(h, p) # {}
    BY <2>2
  <2> HIDE DEF Unlisted
  <2> QED BY <2>3, <2>4, <2>5 DEF ExposedTCPSocket, WhenDetected, Shown
<1> QED BY <1>3, <1>4, <1>5 DEF DockerRating

LEMMA MySQLAgrees ==
  ASSUME NEW h, NEW p
  PROVE  LET r == MySQLRating(h, p)
         IN  r.tls_enabled.status = "warn" => r.bind_localhost.status = "warn"
<1>1. TLSEnabled(h, p).status = "warn" => BindLocalhost(h, p).status = "warn"
  BY DEF TLSEnabled, BindLocalhost, WhenMySQL, NotApplicable, Unseen, Shown
<1> QED BY <1>1 DEF MySQLRating

LEMMA SearchAgrees ==
  ASSUME NEW h, NEW p
  PROVE  LET r == SearchRating(h, p)
         IN  r.tls_configured.status = "warn" => r.bind_localhost.status = "warn"
<1>1. TLSConfigured(h, p).status = "warn" => SearchBindLocalhost(h, p).status = "warn"
  BY DEF TLSConfigured, SearchBindLocalhost, WhenSearch, NotApplicable, Unseen, Shown
<1> QED BY <1>1 DEF SearchRating

LEMMA RedisAgrees ==
  ASSUME NEW h, NEW p
  PROVE  LET r == RedisRating(h, p)
         IN  r.authentication.severity = "critical" => r.bind_localhost = Shown("warn", "high")
<1>1. Authentication(h, p).severity = "critical"
        => RedisBindLocalhost(h, p) = Shown("warn", "high")
  BY DEF Authentication, RedisBindLocalhost, WhenRedisConfigured, NotApplicable,
     Unverified, Unseen, Shown
<1> QED BY <1>1 DEF RedisRating

LEMMA NginxAgrees ==
  ASSUME NEW h, NEW p
  PROVE  LET r == NginxRating(h, p)
         IN  /\ \A c, d \in DOMAIN r \ {"service_detected"} : Errs(r[c]) <=> Errs(r[d])
             /\ r.directory_listing_risk.status = "warn" => r.autoindex.status = "warn"
<1> DEFINE Undumped == NginxDetected(h, p) /\ (p["nginx"] # "ok" \/ p["nginx.conf"] # "ok")
<1>1. \A a : ~ Errs(a) => (Errs(WhenDumped(h, p, a)) <=> Undumped)
  BY DEF WhenDumped, Errs, NotApplicable, Unverified, Unseen
<1>2. \A status, severity : status # "error" => ~ Errs(Shown(status, severity))
  BY DEF Errs, Shown
<1> HIDE DEF Undumped
<1>3. Errs(ServerTokens(h, p)) <=> Undumped
  BY <1>1, <1>2 DEF ServerTokens
<1>4. Errs(Autoindex(h, p)) <=> Undumped
  BY <1>1, <1>2 DEF Autoindex
<1>5. Errs(HiddenFilesAccess(h, p)) <=> Undumped
  BY <1>1, <1>2 DEF HiddenFilesAccess
<1>6. Errs(DirectoryListingRisk(h, p)) <=> Undumped
  BY <1>1, <1>2 DEF DirectoryListingRisk
<1>7. Errs(TLSProtocols(h, p)) <=> Undumped
  BY <1>1, <1>2 DEF TLSProtocols
<1>8. Errs(SecurityHeaders(h, p)) <=> Undumped
  BY <1>1, <1>2 DEF SecurityHeaders
<1>9. Errs(DefaultVhost(h, p)) <=> Undumped
  BY <1>1, <1>2 DEF DefaultVhost
<1>10. DirectoryListingRisk(h, p).status = "warn" => Autoindex(h, p).status = "warn"
  BY DEF DirectoryListingRisk, Autoindex, WhenDumped, NotApplicable, Unverified, Unseen, Shown
<1> QED BY <1>3, <1>4, <1>5, <1>6, <1>7, <1>8, <1>9, <1>10 DEF NginxRating

LEMMA VarnishAgrees ==
  ASSUME NEW h, NEW p
  PROVE  LET r == VarnishRating(h, p)
         IN  \A c, d \in {"cache_hit_ratio", "lru_nuked_objects", "backend_health"} :
               Errs(r[c]) <=> Errs(r[d])
<1> DEFINE Uncounted == /\ VarnishDetected(h, p)
                        /\ ~ (p["varnishstat"] = "ok" /\ h.varnishd = "running")
<1>1. \A a : ~ Errs(a) => (Errs(WhenCounted(h, p, a)) <=> Uncounted)
  BY DEF WhenCounted, WhenAnswered, WhenVarnish, Errs, NotApplicable, Unverified, Unseen
<1>2. \A status, severity : status # "error" => ~ Errs(Shown(status, severity))
  BY DEF Errs, Shown
<1>3. ~ Errs(NotApplicable)
  BY DEF Errs, NotApplicable, Unseen
<1> HIDE DEF Uncounted
<1>4. Errs(CacheHitRatio(h, p)) <=> Uncounted
  BY <1>1, <1>2 DEF CacheHitRatio
<1>5. Errs(LRUNukedObjects(h, p)) <=> Uncounted
  BY <1>1, <1>2 DEF LRUNukedObjects
<1>6. Errs(BackendHealth(h, p)) <=> Uncounted
  BY <1>1, <1>2, <1>3 DEF BackendHealth
<1> QED BY <1>4, <1>5, <1>6 DEF VarnishRating

LEMMA PhpAgrees ==
  ASSUME NEW h, NEW p
  PROVE  LET r == PhpRating(h, p)
         IN  \A c, d \in DOMAIN r \ {"available_versions"} : Errs(r[c]) <=> Errs(r[d])
<1> DEFINE Undiscovered == PhpDetected(h, p) /\ p["pool"] = "broken"
<1>1. \A a : ~ Errs(a) => (Errs(WhenDiscovered(h, p, a)) <=> Undiscovered)
  BY DEF WhenDiscovered, Errs, NotApplicable, Unverified, Unseen
<1>2. \A status, severity : status # "error" => ~ Errs(Shown(status, severity))
  BY DEF Errs, Shown
<1>3. ~ Errs(NotApplicable)
  BY DEF Errs, NotApplicable, Unseen
<1> HIDE DEF Undiscovered
<1>4. \A a : ~ Errs(a) => (Errs(WhenIniFound(h, p, a)) <=> Undiscovered)
  BY <1>1, <1>3 DEF WhenIniFound
<1>5. \A a : ~ Errs(a) => (Errs(WhenPoolFound(h, p, a)) <=> Undiscovered)
  BY <1>1, <1>3 DEF WhenPoolFound
<1>6. \A a : ~ Errs(a) => (Errs(WhenWorkerFound(h, p, a)) <=> Undiscovered)
  BY <1>5, <1>3 DEF WhenWorkerFound
<1>7. /\ Errs(PMMaxChildren(h, p)) <=> Undiscovered
      /\ Errs(PoolUser(h, p)) <=> Undiscovered
  BY <1>2, <1>6 DEF PMMaxChildren, PoolUser
<1>8. /\ Errs(DisabledFunctions(h, p)) <=> Undiscovered
      /\ Errs(ExposePHP(h, p)) <=> Undiscovered
      /\ Errs(DisplayErrors(h, p)) <=> Undiscovered
  BY <1>2, <1>4 DEF DisabledFunctions, ExposePHP, DisplayErrors
<1>9. /\ Errs(OpenBasedir(h, p)) <=> Undiscovered
      /\ Errs(PhpLogsConfigured(h, p)) <=> Undiscovered
      /\ Errs(SessionCookieSecurity(h, p)) <=> Undiscovered
  BY <1>1, <1>2 DEF OpenBasedir, PhpLogsConfigured, SessionCookieSecurity
<1>10. Errs(PoolSocketSecurity(h, p)) <=> Undiscovered
  BY <1>2, <1>5 DEF PoolSocketSecurity
<1> QED BY <1>7, <1>8, <1>9, <1>10 DEF PhpRating

(* The daemon stays where it is.                                           *)
LEMMA DaemonStays == Spec => [](package = "docker" => DaemonOnLinux(host))
<1> DEFINE Fixed == package \in Packages /\ (package = "docker" => DaemonOnLinux(host))
<1>1. Init => Fixed
  <2> SUFFICES ASSUME Init, package = "docker"  PROVE DaemonOnLinux(host)
    BY DEF Init
  <2>1. "docker" \in Packages
    BY DEF Init
  <2>2. setup \in Setups(package) /\ host = setup
    BY DEF Init
  <2>3. Setups(package) = Setups("docker")
    BY Zenon
  <2>4. host \in Setups("docker")
    BY <2>2, <2>3
  <2> QED BY <2>1, <2>4, SetupsAssumption
<1>2. Fixed /\ [Next]_vars => Fixed'
  <2>1. ASSUME Fixed, package = "docker", NEW f \in DOMAIN Scale(package), NEW i, NEW j,
               Turn(f, i, j)
        PROVE  DaemonOnLinux(host')
    <3>1. f \notin {"os", "dockerd"}
      BY <2>1 DEF Scale, DockerScale
    <3>2. host' = [host EXCEPT ![f] = Scale(package)[f][j]]
      BY <2>1 DEF Turn
    <3>3. /\ DOMAIN host' = DOMAIN host
          /\ \A g \in {"os", "dockerd"} : host'[g] = host[g]
      BY <2>1, <3>1, <3>2 DEF DaemonOnLinux
    <3> QED BY <2>1, <3>3 DEF DaemonOnLinux
  <2>2. ASSUME Fixed, Harden \/ Weaken  PROVE Fixed'
    BY <2>1, <2>2 DEF Harden, Weaken, AuditAgain
  <2>3. ASSUME Fixed, Lose \/ RemoveFile \/ Regain  PROVE Fixed'
    BY <2>3 DEF Lose, RemoveFile, Regain, Fails, Answer, AuditAgain
  <2>4. ASSUME Fixed, UNCHANGED vars  PROVE Fixed'
    BY <2>4 DEF vars
  <2> QED BY <2>2, <2>3, <2>4 DEF Next
<1> QED BY <1>1, <1>2, PTL DEF Spec

(* The checks of one report do not contradict each other, whatever the     *)
(* host is like and whatever answers.                                      *)
THEOREM ChecksAlwaysAgree == Spec => []ChecksAgree
<1> DEFINE Typed == package \in Packages /\ probe \in [Sources(package) -> Answers]
           Daemon == package = "docker" => DaemonOnLinux(host)
<1>1. ASSUME Typed, Daemon, Audited  PROVE ChecksAgree
  <2>1. package \in AllPackages /\ report = Rate(package, host, probe)
    BY <1>1, PackagesAssumption DEF Audited
  <2>2. CASE package = "docker"
    <3>1. probe["docker.sock"] \in Answers
      BY <1>1, <2>2 DEF Sources, Files, DockerFiles
    <3>2. report = DockerRating(host, probe)
      BY <2>1, <2>2 DEF Rate
    <3> QED BY <1>1, <2>2, <3>1, <3>2, DockerAgrees DEF ChecksAgree, JudgeTogether, Errs
  <2>3. CASE package = "mysql"
    <3>1. report = MySQLRating(host, probe)
      BY <2>1, <2>3 DEF Rate
    <3> QED BY <2>3, <3>1, MySQLAgrees DEF ChecksAgree, JudgeTogether
  <2>4. CASE package = "searchengine"
    <3>1. report = SearchRating(host, probe)
      BY <2>1, <2>4 DEF Rate
    <3> QED BY <2>4, <3>1, SearchAgrees DEF ChecksAgree, JudgeTogether
  <2>5. CASE package = "redis"
    <3>1. report = RedisRating(host, probe)
      BY <2>1, <2>5 DEF Rate
    <3> QED BY <2>5, <3>1, RedisAgrees DEF ChecksAgree, JudgeTogether
  <2>6. CASE package = "nginx"
    <3>1. report = NginxRating(host, probe)
      BY <2>1, <2>6 DEF Rate
    <3> QED BY <2>6, <3>1, NginxAgrees DEF ChecksAgree, JudgeTogether, Errs
  <2>7. CASE package = "varnish"
    <3>1. report = VarnishRating(host, probe)
      BY <2>1, <2>7 DEF Rate
    <3> QED BY <2>7, <3>1, VarnishAgrees DEF ChecksAgree, JudgeTogether, Errs
  <2>8. CASE package = "phpfpm"
    <3>1. report = PhpRating(host, probe)
      BY <2>1, <2>8 DEF Rate
    <3> QED BY <2>8, <3>1, PhpAgrees DEF ChecksAgree, JudgeTogether, Errs
  <2>9. CASE package \in {"linux", "sshd"}
    BY <2>9 DEF ChecksAgree, JudgeTogether
  <2> QED BY <2>1, <2>2, <2>3, <2>4, <2>5, <2>6, <2>7, <2>8, <2>9 DEF AllPackages
<1> QED BY <1>1, AnswersStay, DaemonStays, AlwaysAudited, PTL
=============================================================================
