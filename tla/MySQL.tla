------------------------------- MODULE MySQL -------------------------------
(***************************************************************************)
(* The twelve checks of internal/checks/mysql/module.go.  Eight of them    *)
(* judge one discovery: the configuration files, loaded until the first    *)
(* that cannot be read, and the listening sockets.  The others ask the     *)
(* server, as the user who runs the program, root as the README says.      *)
(*                                                                         *)
(* There are two configuration files, of which "conf.d" comes later; the   *)
(* settings without a fact of their own for it are in "my.cnf".            *)
(***************************************************************************)
EXTENDS Ratings

MySQLCommands == {"mysql", "mysqld", "ss"}
MySQLFiles    == {"my.cnf", "conf.d", "meminfo", "backups"}

(* How root logs in: with a password, through the socket as the user of    *)
(* the same name, or without a password.                                   *)
MySQLScale ==
  [rootAuth   |-> <<"password", "socket", "empty">>,
   bind       |-> <<"loopback", "unset", "public">>,
   bindDropIn |-> <<"loopback", "unset", "public">>,
   listening  |-> <<"none", "loopback", "public">>,
   skipNetworking |-> <<"on", "off">>,
   remoteHosts |-> <<"local", "any">>,
   anonymous  |-> <<"none", "some">>,
   bufferPool |-> <<"fit", "small", "large", "unset">>,
   maxConnections |-> <<250, 1000, 1001>>,
   requireSecure |-> <<"on", "off">>,
   haveSSL    |-> <<"yes", "no">>,
   certs      |-> <<"set", "unset">>,
   logError   |-> <<"set", "unset">>,
   slowLog    |-> <<"set", "unset">>,
   backup     |-> <<"found", "none">>,
   mode       |-> <<"tight", "group", "world">>,
   modeDropIn |-> <<"tight", "group", "world">>,
   nameResolve |-> <<"skip", "resolve">>]

MySQLDetected(h, p) ==
  /\ h.os # "none"
  /\ \/ p["unit list"] = "ok" /\ h.server = "running"
     \/ p["mysql"] # "missing" \/ p["mysqld"] # "missing"
     \/ p["my.cnf"] # "missing"

(* ensureDetected and loadForResult answer alike.                          *)
WhenMySQL(h, p, rating) == IF MySQLDetected(h, p) THEN rating ELSE NotApplicable

(* loadConfigFromPatterns: the files that count.  The error of the one     *)
(* that stops the loading is kept, but nobody asks for it.                 *)
LoadedFiles(p) ==
  IF p["my.cnf"] = "broken" THEN {}
                            ELSE {f \in {"my.cnf", "conf.d"} : p[f] = "ok"}

Configured(h, p, setting, value) == "my.cnf" \in LoadedFiles(p) /\ h[setting] = value

(* serverSetting of the bind address: the last file that has one wins.     *)
BindAddress(h, p) ==
  IF "conf.d" \in LoadedFiles(p) /\ h.bindDropIn # "unset" THEN h.bindDropIn
  ELSE IF "my.cnf" \in LoadedFiles(p)                      THEN h.bind
                                                           ELSE "unset"

ListensOn(h, p) ==
  IF h.server = "running" /\ p["ss"] = "ok" THEN h.listening ELSE "none"

(* networkExposure: the configuration is believed before the sockets, and  *)
(* no socket at all, or none that could be listed, counts as restricted.   *)
ExposedToPublic(h, p) ==
  /\ ~ Configured(h, p, "skipNetworking", "on")
  /\ IF BindAddress(h, p) # "unset" THEN BindAddress(h, p) = "public"
                                    ELSE ListensOn(h, p) = "public"

(* A client without a password: accepted for an empty one and, since root  *)
(* asks, through the socket.                                               *)
ServerAnswers(h, p) == h.server = "running" /\ p["mysql"] = "ok"
LoginWorks(h, p)    == ServerAnswers(h, p) /\ h.rootAuth # "password"

(* The server and the client are asked in turn, each under two names.      *)
MySQLVersion(h, p) ==
  WhenMySQL(h, p, IF \E c \in {"mysqld", "mysql"} : p[c] = "ok"
                  THEN Unseen("info", "info") ELSE Unverified("medium"))

BindLocalhost(h, p) ==
  WhenMySQL(h, p, IF ExposedToPublic(h, p) THEN Shown("warn", "high")
                                           ELSE Shown("pass", "medium"))

(* A mutant of RemoteAccess: grants that cannot be listed are suspicious.  *)
RemoteAccessSuspicious(h, p) ==
  WhenMySQL(h, p, IF LoginWorks(h, p) /\ h.remoteHosts = "local"
                  THEN Shown("pass", "high") ELSE Shown("warn", "high"))

RemoteAccess(h, p) ==
  WhenMySQL(h, p,
    IF ~ LoginWorks(h, p)           THEN Unseen("info", "info")
    ELSE IF h.remoteHosts = "local" THEN Shown("pass", "high")
                                    ELSE Shown("warn", "high"))

(* A mutant of RootPassword: any failure of the login counts as a refusal. *)
RootPasswordTrusting(h, p) ==
  WhenMySQL(h, p, IF LoginWorks(h, p) THEN Shown("fail", "critical")
                                      ELSE Shown("pass", "critical"))

RootPassword(h, p) ==
  WhenMySQL(h, p,
    IF LoginWorks(h, p)         THEN Shown("fail", "critical")
    ELSE IF ServerAnswers(h, p) THEN Shown("pass", "critical")
                                ELSE NotApplicable)

AnonymousUsers(h, p) ==
  WhenMySQL(h, p,
    IF ~ LoginWorks(h, p)        THEN NotApplicable
    ELSE IF h.anonymous = "some" THEN Shown("warn", "high")
                                 ELSE Shown("pass", "high"))

(* The pool is judged against the memory: more than 80 percent is large,   *)
(* less than 5 small on a host with at least 2 GiB.                        *)
InnoDBBufferPool(h, p) ==
  WhenMySQL(h, p,
    IF "my.cnf" \notin LoadedFiles(p) \/ h.bufferPool = "unset"
                                     THEN Shown("warn", "medium")
    ELSE IF p["meminfo"] # "ok"      THEN Shown("info", "info")
    ELSE IF h.bufferPool = "large"   THEN Shown("warn", "medium")
    ELSE IF h.bufferPool = "small"   THEN Shown("warn", "low")
                                     ELSE Shown("pass", "low"))

(* The configured value or, without one, that of the running server.       *)
MaxConnections(h, p) ==
  WhenMySQL(h, p,
    IF ~ (Configured(h, p, "maxIsConfigured", TRUE) \/ LoginWorks(h, p))
                                     THEN Shown("warn", "low")
    ELSE IF h.maxConnections > 1000  THEN Shown("warn", "medium")
                                     ELSE Shown("pass", "low"))

(* Here the running server is asked first; have_ssl is no setting of a     *)
(* file.                                                                   *)
TLSOK(h, p) ==
  \/ /\ h.requireSecure = "on"
     /\ LoginWorks(h, p) \/ "my.cnf" \in LoadedFiles(p)
  \/ /\ LoginWorks(h, p) /\ h.haveSSL = "yes"
     /\ Configured(h, p, "certs", "set")

(* A mutant of TLSEnabled: only the sockets say whether the server is      *)
(* public.                                                                 *)
TLSByListener(h, p) ==
  WhenMySQL(h, p,
    IF TLSOK(h, p)                     THEN Shown("pass", "low")
    ELSE IF ListensOn(h, p) = "public" THEN Shown("warn", "high")
                                       ELSE Shown("info", "info"))

TLSEnabled(h, p) ==
  WhenMySQL(h, p,
    IF TLSOK(h, p)                THEN Shown("pass", "low")
    ELSE IF ExposedToPublic(h, p) THEN Shown("warn", "high")
                                  ELSE Shown("info", "info"))

LogsConfigured(h, p) ==
  WhenMySQL(h, p,
    IF ~ Configured(h, p, "logError", "set")     THEN Shown("warn", "medium")
    ELSE IF ~ Configured(h, p, "slowLog", "set") THEN Shown("info", "info")
                                                 ELSE Shown("pass", "low"))

(* Directories that may not be searched matter only if nothing is found    *)
(* elsewhere.                                                              *)
BackupsDetected(h, p) ==
  WhenMySQL(h, p,
    IF p["backups"] = "ok" /\ h.backup = "found" THEN Shown("pass", "low")
    ELSE IF p["backups"] = "broken"              THEN NotApplicable
                                                 ELSE Shown("warn", "low"))

(* Only the files that were loaded are looked at, the worst mode counts.   *)
LoadedModes(h, p) ==
  {IF f = "my.cnf" THEN h.mode ELSE h.modeDropIn : f \in LoadedFiles(p)}

(* A mutant of MySQLConfigPermissions: group-writable before world-writable. *)
MySQLPermissionsByGroup(h, p) ==
  WhenMySQL(h, p,
    IF LoadedFiles(p) = {}                THEN NotApplicable
    ELSE IF "group" \in LoadedModes(h, p) THEN Shown("warn", "medium")
    ELSE IF "world" \in LoadedModes(h, p) THEN Shown("fail", "high")
                                          ELSE Shown("pass", "medium"))

MySQLConfigPermissions(h, p) ==
  WhenMySQL(h, p,
    IF LoadedFiles(p) = {}                THEN NotApplicable
    ELSE IF "world" \in LoadedModes(h, p) THEN Shown("fail", "high")
    ELSE IF "group" \in LoadedModes(h, p) THEN Shown("warn", "medium")
                                          ELSE Shown("pass", "medium"))

SkipNameResolve(h, p) ==
  WhenMySQL(h, p, Shown(IF Configured(h, p, "nameResolve", "skip") THEN "pass"
                                                                   ELSE "info", "info"))

MySQLRating(h, p) ==
  [version            |-> MySQLVersion(h, p),
   bind_localhost     |-> BindLocalhost(h, p),
   remote_access      |-> RemoteAccess(h, p),
   root_password      |-> RootPassword(h, p),
   anonymous_users    |-> AnonymousUsers(h, p),
   innodb_buffer_pool |-> InnoDBBufferPool(h, p),
   max_connections    |-> MaxConnections(h, p),
   tls_enabled        |-> TLSEnabled(h, p),
   logs_configured    |-> LogsConfigured(h, p),
   backups_detected   |-> BackupsDetected(h, p),
   config_permissions |-> MySQLConfigPermissions(h, p),
   skip_name_resolve  |-> SkipNameResolve(h, p)]
=============================================================================
