------------------------------- MODULE Linux -------------------------------
(***************************************************************************)
(* The fifteen checks of internal/checks/linux/module.go.  They keep no    *)
(* state and share nothing but the host, its commands and its unit list.   *)
(*                                                                         *)
(* A directory of drop-in files is two sources: listing it, whose failure  *)
(* filepath.Glob does not report, and reading the files in it.             *)
(***************************************************************************)
EXTENDS Ratings

LinuxCommands ==
  {"uname", "apt-get", "dpkg-query", "systemctl", "ss", "aa-status", "ps",
   "ufw", "nft", "iptables", "lsmod"}
LinuxFiles ==
  {"/etc/passwd", "/etc/shadow", "/etc/sudoers", "sshd_config",
   "list sudoers.d", "sudoers.d", "limits.conf", "list limits.d", "limits.d",
   "pids.max", "auth.log", "apt.conf.d", "ip_tables_matches", "/lib/modules"}
UnitList == "unit list"  \* systemctl list-units, asked once for all modules

(* What the checks tell apart, from strict to lax.  The log counts stand   *)
(* at nothing, at the threshold and above it.                              *)
LinuxScale ==
  [updates    |-> <<"none", "pending">>,
   upgrader   |-> <<"installed", "absent">>,
   periodic   |-> <<"on", "off">>,
   timer      |-> <<"enabled", "disabled">>,
   ports      |-> <<"none", "allowed", "other">>,
   passwdMode |-> <<"tight", "broad", "world">>,
   shadowMode |-> <<"tight", "broad", "world">>,
   sudoersMode |-> <<"tight", "broad", "world">>,
   sshdMode   |-> <<"tight", "broad", "world">>,
   sudoRule   |-> <<"scoped", "nopasswd">>,
   sudoDropIn |-> <<"scoped", "nopasswd">>,
   users      |-> <<"known", "unknown">>,
   apparmor   |-> <<"active", "inactive">>,
   failed     |-> <<0, 100, 101>>,
   invalid    |-> <<0, 20, 21>>,
   nproc      |-> <<"set", "unset">>,
   nprocDropIn |-> <<"set", "unset">>,
   pids       |-> <<"bounded", "max">>,
   rootProcess |-> <<"usual", "temporary">>,
   firewallUnit |-> <<"running", "stopped">>,
   ufw        |-> <<"active", "inactive">>,
   nft        |-> <<"rules", "empty">>,
   iptables   |-> <<"rules", "empty">>,
   daemon     |-> <<"running", "stopped">>]

IsLinuxHost(h)  == h.os # "none"
IsDebianLike(h) == h.os = "debian"

OSVersion(h, p) == Unseen("info", "info")

KernelVersion(h, p) ==
  IF ~ IsLinuxHost(h)       THEN NotApplicable
  ELSE IF p["uname"] # "ok" THEN Unverified("info")
                            ELSE Unseen("info", "info")

SecurityUpdates(h, p) ==
  IF ~ IsDebianLike(h)          THEN NotApplicable
  ELSE IF p["apt-get"] # "ok"   THEN Unverified("medium")
  ELSE IF h.updates = "pending" THEN Shown("warn", "medium")
                                ELSE Shown("pass", "medium")

(* dpkg-query fails also when the package is not there, so that a failure  *)
(* counts as not installed.                                                *)
UnattendedInstalled(h, p) == p["dpkg-query"] = "ok" /\ h.upgrader = "installed"

UnattendedEnabled(h, p) ==
  \/ p["apt.conf.d"] = "ok" /\ h.periodic = "on"
  \/ p["systemctl"] = "ok" /\ h.timer = "enabled"

UnattendedUpgrades(h, p) ==
  IF ~ IsDebianLike(h) THEN NotApplicable
  ELSE IF UnattendedInstalled(h, p) /\ UnattendedEnabled(h, p)
       THEN Shown("pass", "medium") ELSE Shown("fail", "medium")

(* A mutant of ListeningPorts: the finding stays hidden like the inventory. *)
ListeningPortsHidden(h, p) ==
  IF ~ IsLinuxHost(h)       THEN NotApplicable
  ELSE IF p["ss"] # "ok"    THEN Unverified("medium")
  ELSE IF h.ports = "other" THEN Unseen("warn", "medium")
                            ELSE Unseen("info", "info")

(* A wildcard listener outside the list of allowed ports is a finding; all *)
(* else is inventory.                                                      *)
ListeningPorts(h, p) ==
  IF ~ IsLinuxHost(h)       THEN NotApplicable
  ELSE IF p["ss"] # "ok"    THEN Unverified("medium")
  ELSE IF h.ports = "other" THEN Shown("warn", "medium")
                            ELSE Unseen("info", "info")

(* inspectConfigPermissions: one target that cannot be looked at makes the *)
(* answer an error, whatever was found at the others.                      *)
PermissionTargets == {"/etc/passwd", "/etc/shadow", "/etc/sudoers", "sshd_config"}

TooBroad(h) == {f \in {"passwdMode", "shadowMode", "sudoersMode", "sshdMode"} :
                  h[f] # "tight"}

HasCritical(h) == \/ h.shadowMode # "tight" \/ h.sudoersMode # "tight"
                  \/ h.passwdMode = "world" \/ h.sshdMode = "world"

ConfigPermissions(h, p) ==
  IF ~ IsLinuxHost(h)                              THEN NotApplicable
  ELSE IF \E t \in PermissionTargets : p[t] # "ok" THEN Unverified("medium")
  ELSE IF TooBroad(h) = {}                         THEN Shown("pass", "medium")
  ELSE IF HasCritical(h)                           THEN Shown("fail", "high")
                                                   ELSE Shown("warn", "medium")

(* The main file is read even if it does not exist; a directory that       *)
(* cannot be listed has no files.                                          *)
SudoersUnread(p) ==
  \/ p["/etc/sudoers"] # "ok"
  \/ p["list sudoers.d"] = "ok" /\ p["sudoers.d"] = "broken"

RiskySudoersEntries(h, p) ==
  \/ h.sudoRule = "nopasswd"
  \/ /\ p["list sudoers.d"] = "ok" /\ p["sudoers.d"] = "ok"
     /\ h.sudoDropIn = "nopasswd"

SudoersRiskyEntries(h, p) ==
  IF ~ IsLinuxHost(h)               THEN NotApplicable
  ELSE IF SudoersUnread(p)          THEN Unverified("medium")
  ELSE IF RiskySudoersEntries(h, p) THEN Shown("warn", "medium")
                                    ELSE Shown("pass", "medium")

UnknownUsers(h, p) ==
  IF ~ IsLinuxHost(h)             THEN NotApplicable
  ELSE IF p["/etc/passwd"] # "ok" THEN Unverified("info")
  ELSE IF h.users = "unknown"     THEN Shown("warn", "medium")
                                  ELSE Unseen("info", "info")

(* aa-status is believed when it fails, too: what its error, which carries *)
(* the output, says of the module counts ("told", of h.aaFailure), and one *)
(* that says nothing of it ("silent") means "not confirmed".  Only a       *)
(* failure that says AppArmor is not installed ("uninstalled") is not      *)
(* believed.                                                               *)
AAStatusSpeaks(h, p) == \/ p["aa-status"] = "ok"
                        \/ p["aa-status"] = "broken" /\ h.aaFailure = "told"
AAStatusSilent(h, p) == p["aa-status"] = "broken" /\ h.aaFailure = "silent"

(* detectAppArmorStatus.  Where aa-status is not believed or not there,    *)
(* systemd is asked, and AppArmor is missing when systemd does not know    *)
(* the unit or is missing itself.                                          *)
AppArmorState(h, p) ==
  IF AAStatusSpeaks(h, p)            THEN h.apparmor
  ELSE IF AAStatusSilent(h, p)       THEN "inactive"
  ELSE IF p["systemctl"] = "ok"      THEN IF h.hasAppArmor THEN h.apparmor ELSE "missing"
  ELSE IF p["systemctl"] = "missing" THEN "missing"
                                     ELSE "inactive"

AppArmorStatus(h, p) ==
  IF ~ IsLinuxHost(h)                     THEN NotApplicable
  ELSE IF AppArmorState(h, p) = "active"  THEN Shown("pass", "medium")
  ELSE IF AppArmorState(h, p) = "missing" THEN NotApplicable
                                          ELSE Shown("warn", "medium")

AuthLogRecentLogins(h, p) ==
  IF ~ IsLinuxHost(h)                      THEN NotApplicable
  ELSE IF p["auth.log"] = "broken"         THEN Unverified("info")
  ELSE IF p["auth.log"] = "missing"        THEN NotApplicable
  ELSE IF h.failed > 100 \/ h.invalid > 20 THEN Shown("warn", "medium")
                                           ELSE Unseen("info", "info")

(* A limits file that does not exist is no error, one that cannot be read  *)
(* is; the cgroup limit counts when it can be read.                        *)
LimitsUnread(p) ==
  \/ p["limits.conf"] = "broken"
  \/ p["list limits.d"] = "ok" /\ p["limits.d"] = "broken"

ProcessLimitEntries(h, p) ==
  {s \in {"limits.conf", "limits.d", "pids.max"} :
     /\ p[s] = "ok"
     /\ IF s = "limits.conf"   THEN h.nproc = "set"
        ELSE IF s = "limits.d" THEN p["list limits.d"] = "ok" /\ h.nprocDropIn = "set"
                               ELSE h.pids = "bounded"}

ForkbombLimits(h, p) ==
  IF ~ IsLinuxHost(h)                    THEN NotApplicable
  ELSE IF LimitsUnread(p)                THEN Unverified("medium")
  ELSE IF ProcessLimitEntries(h, p) = {} THEN Shown("warn", "medium")
                                         ELSE Shown("pass", "medium")

ProcessAnomalies(h, p) ==
  IF ~ IsLinuxHost(h)                 THEN NotApplicable
  ELSE IF p["ps"] # "ok"              THEN Unverified("info")
  ELSE IF h.rootProcess = "temporary" THEN Shown("warn", "medium")
                                      ELSE Unseen("info", "info")

(* detectFirewallStatus: one active signal is enough, whatever failed.     *)
FirewallActive(h, p) ==
  \/ p[UnitList] = "ok"   /\ h.firewallUnit = "running"
  \/ p["ufw"] = "ok"      /\ h.ufw = "active"
  \/ p["nft"] = "ok"      /\ h.nft = "rules"
  \/ p["iptables"] = "ok" /\ h.iptables = "rules"

(* A probe that is not installed proves nothing and is no error.           *)
FirewallUnprobed(p) == \E c \in {"ufw", "nft", "iptables"} : p[c] = "broken"

FirewallStatus(h, p) ==
  IF ~ IsLinuxHost(h)          THEN NotApplicable
  ELSE IF FirewallActive(h, p) THEN Shown("pass", "medium")
  ELSE IF FirewallUnprobed(p)  THEN Unverified("medium")
                               ELSE Shown("warn", "medium")

ProtectionDaemon(h, p) ==
  IF ~ IsLinuxHost(h)                                THEN NotApplicable
  ELSE IF p[UnitList] = "ok" /\ h.daemon = "running" THEN Shown("pass", "medium")
                                                     ELSE Shown("warn", "medium")

(* Any of three places names the kernel module; none is asked for errors.  *)
GeoIPFound(h, p) ==
  h.geoip /\ \E s \in {"lsmod", "ip_tables_matches", "/lib/modules"} : p[s] = "ok"

XTGeoIPModule(h, p) ==
  IF IsLinuxHost(h) /\ GeoIPFound(h, p) THEN Unseen("info", "info") ELSE NotApplicable

LinuxRating(h, p) ==
  [os_version                 |-> OSVersion(h, p),
   kernel_version             |-> KernelVersion(h, p),
   security_updates_available |-> SecurityUpdates(h, p),
   unattended_upgrades        |-> UnattendedUpgrades(h, p),
   firewall_status            |-> FirewallStatus(h, p),
   protection_daemon          |-> ProtectionDaemon(h, p),
   listening_ports            |-> ListeningPorts(h, p),
   config_permissions         |-> ConfigPermissions(h, p),
   sudoers_risky_entries      |-> SudoersRiskyEntries(h, p),
   unknown_users              |-> UnknownUsers(h, p),
   apparmor_status            |-> AppArmorStatus(h, p),
   auth_log_recent_logins     |-> AuthLogRecentLogins(h, p),
   forkbomb_limits            |-> ForkbombLimits(h, p),
   process_anomalies          |-> ProcessAnomalies(h, p),
   xt_geoip_module            |-> XTGeoIPModule(h, p)]
=============================================================================
