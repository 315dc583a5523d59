------------------------------- MODULE PhpFpm -------------------------------
(***************************************************************************)
(* The ten checks of internal/checks/phpfpm/module.go.  All judge one      *)
(* discovery: two php.ini files, that of the command line, which no pool   *)
(* reads, and that of FPM, in the order of their paths, and one pool file. *)
(* An ini file that cannot be read is passed over, a pool file is an error *)
(* of every check.                                                         *)
(***************************************************************************)
EXTENDS Ratings

PhpCommands == {"php", "php-fpm"}
IniFiles    == {"cli/php.ini", "fpm/php.ini"}
PhpFiles    == IniFiles \union {"pool", "meminfo"}

(* A fact about php.ini has a value for each of the two files.  "many"     *)
(* children are over 100 for each GiB of memory, but not over 500.         *)
PhpScale ==
  [functionsCLI   |-> <<"disabled", "unset">>,
   functionsFPM   |-> <<"disabled", "unset">>,
   basedirFPM     |-> <<"set", "unset">>,
   basedirPool    |-> <<"set", "unset">>,
   errorLogCLI    |-> <<"file", "unset", "null">>,
   errorLogFPM    |-> <<"file", "unset", "null">>,
   errorLogPool   |-> <<"file", "unset", "null">>,
   secureCLI      |-> <<"on", "unset", "off">>,
   secureFPM      |-> <<"on", "unset", "off">>,
   httpOnlyCLI    |-> <<"on", "unset", "off">>,
   httpOnlyFPM    |-> <<"on", "unset", "off">>,
   sameSiteCLI    |-> <<"set", "unset", "empty">>,
   sameSiteFPM    |-> <<"set", "unset", "empty">>,
   exposeCLI      |-> <<"off", "unset", "on">>,
   exposeFPM      |-> <<"off", "unset", "on">>,
   displayCLI     |-> <<"off", "unset", "on">>,
   displayFPM     |-> <<"off", "unset", "on">>,
   children       |-> <<"few", "many", "over-500", "unset">>,
   poolUser       |-> <<"own", "unset", "root">>,
   poolSocket     |-> <<"restricted", "wide">>]

(* Binaries and files are looked for by name: what cannot be read counts.  *)
PhpDetected(h, p) ==
  \/ p["unit list"] = "ok" /\ h.fpm = "running"
  \/ \E s \in PhpCommands \union IniFiles \union {"pool"} : p[s] # "missing"

(* stateForResult.                                                         *)
WhenDiscovered(h, p, rating) ==
  IF ~ PhpDetected(h, p)         THEN NotApplicable
  ELSE IF p["pool"] = "broken"   THEN Unverified("medium")
                                 ELSE rating

InisRead(p) == {f \in IniFiles : p[f] = "ok"}

(* The values of one setting in the files that were read.                  *)
IniValues(p, inCLI, inFPM) ==
  {IF f = "cli/php.ini" THEN inCLI ELSE inFPM : f \in InisRead(p)}

(* sessionCookieSecurity and logSettings: the first file that has a value. *)
FirstSet(p, inCLI, inFPM) ==
  IF "cli/php.ini" \in InisRead(p) /\ inCLI # "unset" THEN inCLI
  ELSE IF "fpm/php.ini" \in InisRead(p)               THEN inFPM
                                                      ELSE "unset"

WhenIniFound(h, p, rating) ==
  WhenDiscovered(h, p, IF InisRead(p) = {} THEN NotApplicable ELSE rating)

WhenPoolFound(h, p, rating) ==
  WhenDiscovered(h, p, IF p["pool"] = "missing" THEN NotApplicable ELSE rating)

(* workerPools: the section sets a user, a group (h.poolGroup, a given) or *)
(* pm.max_children.                                                        *)
IsWorker(h) == h.poolUser # "unset" \/ h.poolGroup \/ h.children # "unset"

WhenWorkerFound(h, p, rating) ==
  WhenPoolFound(h, p, IF IsWorker(h) THEN rating ELSE NotApplicable)

AvailableVersions == Unseen("info", "info")

(* Without the size of the memory, only the limit of 500 holds.            *)
PMMaxChildren(h, p) ==
  WhenWorkerFound(h, p, IF \/ h.children \in {"unset", "over-500"}
                           \/ h.children = "many" /\ p["meminfo"] = "ok"
                        THEN Shown("warn", "medium") ELSE Shown("pass", "medium"))

DisabledFunctions(h, p) ==
  WhenIniFound(h, p, IF "unset" \in IniValues(p, h.functionsCLI, h.functionsFPM)
                     THEN Shown("warn", "medium") ELSE Shown("pass", "medium"))

(* One file or pool that sets it is enough; nobody sets it for the command *)
(* line.                                                                   *)
OpenBasedir(h, p) ==
  WhenDiscovered(h, p, IF \/ "set" \in IniValues(p, "unset", h.basedirFPM)
                          \/ p["pool"] = "ok" /\ h.basedirPool = "set"
                       THEN Shown("pass", "medium") ELSE Shown("warn", "medium"))

(* The pool's log counts if no php.ini names one.                          *)
ErrorLog(h, p) ==
  LET inIni == FirstSet(p, h.errorLogCLI, h.errorLogFPM)
  IN  IF inIni = "unset" /\ p["pool"] = "ok" THEN h.errorLogPool ELSE inIni

PhpLogsConfigured(h, p) ==
  WhenDiscovered(h, p, IF ErrorLog(h, p) = "file" THEN Shown("pass", "medium")
                                                  ELSE Shown("warn", "medium"))

(* The file of the command line decides for FPM on each setting it has.    *)
CookiesHardened(h, p) ==
  /\ FirstSet(p, h.secureCLI, h.secureFPM) = "on"
  /\ FirstSet(p, h.httpOnlyCLI, h.httpOnlyFPM) = "on"
  /\ FirstSet(p, h.sameSiteCLI, h.sameSiteFPM) = "set"

SessionCookieSecurity(h, p) ==
  WhenDiscovered(h, p, IF CookiesHardened(h, p) THEN Shown("pass", "medium")
                                                ELSE Shown("warn", "medium"))

ExposePHP(h, p) ==
  WhenIniFound(h, p, IF IniValues(p, h.exposeCLI, h.exposeFPM) = {"off"}
                     THEN Shown("pass", "low") ELSE Shown("warn", "low"))

(* Here a file without the setting passes.                                 *)
DisplayErrors(h, p) ==
  WhenIniFound(h, p, IF "on" \in IniValues(p, h.displayCLI, h.displayFPM)
                     THEN Shown("warn", "medium") ELSE Shown("pass", "medium"))

PoolUser(h, p) ==
  WhenWorkerFound(h, p, IF h.poolUser = "root" THEN Shown("fail", "high")
                                               ELSE Shown("pass", "high"))

(* Every pool counts: wide is a socket in /tmp or one open to others.      *)
PoolSocketSecurity(h, p) ==
  WhenPoolFound(h, p, IF h.poolSocket = "wide" THEN Shown("warn", "medium")
                                               ELSE Shown("pass", "low"))

PhpRating(h, p) ==
  [available_versions      |-> AvailableVersions,
   pm_max_children         |-> PMMaxChildren(h, p),
   disabled_functions      |-> DisabledFunctions(h, p),
   open_basedir            |-> OpenBasedir(h, p),
   logs_configured         |-> PhpLogsConfigured(h, p),
   session_cookie_security |-> SessionCookieSecurity(h, p),
   expose_php              |-> ExposePHP(h, p),
   display_errors          |-> DisplayErrors(h, p),
   pool_user               |-> PoolUser(h, p),
   pool_socket_security    |-> PoolSocketSecurity(h, p)]
=============================================================================
