-------------------------------- MODULE Audit --------------------------------
(***************************************************************************)
(* One run of `secscan audit`, `audit --all` or `detect`                   *)
(* (internal/audit/audit.go) on a host that does not stand still: services *)
(* start and stop, files come and go, an administrator edits a             *)
(* configuration, and the deadline of the command's context may pass       *)
(* between any two steps.                                                  *)
(*                                                                         *)
(* The modules of the registry differ in how they look at the host, and    *)
(* the model keeps one of each kind, with its checks in their order:       *)
(*   sshd   detected from the unit list alone, which is taken once; its    *)
(*          checks do not look again; `sshd -T` runs once per process, and *)
(*          its failure is kept like its output;                           *)
(*   nginx  every check looks for the service or its files again, then     *)
(*          shares one `nginx -T` with the others;                         *)
(*   redis  the same, a `pgrep` among the evidence and a file as source,   *)
(*          which may also not be there;                                   *)
(*   mysql  the discovery the checks share holds the detection too, so a   *)
(*          server missed once is missed by all; it reads the              *)
(*          configuration and, through `ss`, the listening sockets;        *)
(*   exim   a catalogue module: it only says whether it is there.          *)
(* What a configuration says is reduced to "good" or "bad" for the check   *)
(* that asks, "none" when the option or file is missing and "broken" when  *)
(* it cannot be read.                                                      *)
(***************************************************************************)
EXTENDS Integers, Sequences, FiniteSets

CONSTANTS
  Registries,  \* the sequences of modules an audit may be given
  Modes,       \* among "audit", "all" and "detect"
  MaxChanges   \* bound on the changes of the host during the audit

AllModuleNames == {"sshd", "nginx", "redis", "mysql", "exim"}

ASSUME AuditAssumption ==
  /\ \A reg \in Registries :
       /\ reg \in Seq(AllModuleNames)
       /\ \A j, k \in 1 .. Len(reg) : reg[j] = reg[k] => j = k
  /\ Modes \subseteq {"audit", "all", "detect"}
  /\ MaxChanges \in Nat

VARIABLES
  mode,      \* the command and its --all flag
  registry,  \* the modules, in order
  host,      \* the host as it is now, per module
  past,      \* every state of the host since the audit began (history)
  changes,   \* how often it changed
  alive,     \* the deadline of the context has not passed
  services,  \* report.Inventory.Services: the units found running
  errors,    \* report.Errors is not empty
  modules,   \* report.Modules
  results,   \* report.Results
  cache,     \* per module, what its checks share; "empty" before the first
  phase,     \* "start", "module", "check", "read" or "done"
  mi, ci     \* the module and the check the loops have reached

environment == <<host, past, changes>>
vars == <<mode, registry, environment, alive, services, errors, modules,
          results, cache, phase, mi, ci>>

Configs    == {"good", "bad", "none", "broken"}
HostStates == [up : BOOLEAN, present : BOOLEAN, conf : Configs]
Observed   == {"good", "bad", "none", "error", "undetected"}

(* The checks of a module, by how they get at what they report.            *)
ChecksOf(m) ==
  CASE m = "sshd"  -> <<"config", "config">>
    [] m = "nginx" -> <<"inventory", "config", "config">>
    [] m = "redis" -> <<"version", "config", "config">>
    [] m = "mysql" -> <<"version", "config", "config">>
    [] OTHER       -> <<"inventory">>

Here == registry[mi]
Kind == ChecksOf(Here)[ci]

-----------------------------------------------------------------------------
(* Looking at the host *)

(* The five detections.  A command of an expired context fails, which      *)
(* pgrep's caller takes for no process.                                    *)
SSHDetect     == "sshd" \in services
NginxDetect   == "nginx" \in services \/ host["nginx"].present
RedisDetect   == "redis" \in services \/ (alive /\ host["redis"].up)
                   \/ host["redis"].present
MySQLDetect   == "mysql" \in services \/ host["mysql"].present
ServiceDetect == "exim" \in services \/ host["exim"].present

Detected(m) ==
  CASE m = "sshd"  -> SSHDetect
    [] m = "nginx" -> NginxDetect
    [] m = "redis" -> RedisDetect
    [] m = "mysql" -> MySQLDetect
    [] OTHER       -> ServiceDetect

(* Mutants of CommandRead: the exit status ignored; the deadline ignored.  *)
CommandTrusted(m) == IF alive /\ host[m].present THEN host[m].conf ELSE "error"
CommandUndying(m) ==
  IF host[m].present /\ host[m].conf # "broken" THEN host[m].conf ELSE "error"

(* `sshd -T` and `nginx -T` need the binary, the deadline and a            *)
(* configuration they accept.                                              *)
CommandRead(m) ==
  IF alive /\ host[m].present /\ host[m].conf # "broken"
  THEN host[m].conf ELSE "error"

(* The redis configuration file: not found is not an error.                *)
FileRead(m) == IF host[m].conf = "broken" THEN "error" ELSE host[m].conf

(* networkExposure: an explicit bind address decides; without one, the     *)
(* sockets `ss` lists do, and an empty list, whatever made it empty,       *)
(* counts as restricted.  A server without a bind address listens on       *)
(* every interface; of one whose configuration is unreadable the sockets   *)
(* may show either.                                                        *)
Sockets(m) ==
  CASE ~ alive \/ ~ host[m].up  -> {"empty"}
    [] alive /\ host[m].up /\ host[m].conf = "good"   -> {"local"}
    [] alive /\ host[m].up /\ host[m].conf = "broken" -> {"local", "public"}
    [] OTHER                    -> {"public"}

NetworkExposure(conf, sockets) ==
  CASE conf \in {"good", "bad"} -> conf
    [] conf \notin {"good", "bad"} /\ sockets = "public" -> "bad"
    [] OTHER -> "good"

(* buildDiscovery.  The error of the configuration and that of ss are      *)
(* kept and never asked for again.                                         *)
BuildDiscovery ==
  IF ~ MySQLDetect THEN {"undetected"}
  ELSE {NetworkExposure(host["mysql"].conf, sockets) : sockets \in Sockets("mysql")}

(* What the first configuration check of a module finds, for all of them   *)
Load(m) ==
  CASE m \in {"sshd", "nginx"} -> {CommandRead(m)}
    [] m = "redis"             -> {FileRead(m)}
    [] OTHER                   -> BuildDiscovery

(* A mutant of Verdict: a missing directive taken for the secure default.  *)
VerdictTrusting(m, value) ==
  CASE value = "good"  -> "pass"
    [] value = "bad"   -> "warn"
    [] value = "error" -> "error"
    [] value = "none" /\ m = "sshd" -> "error"
    [] OTHER -> IF m = "nginx" THEN "pass" ELSE "not_applicable"

(* The status a check derives from it.  An option sshd -T does not print   *)
(* is an error, a missing redis.conf is not; to nginx a missing directive  *)
(* is its insecure default.                                                *)
Verdict(m, value) ==
  CASE value = "good"  -> "pass"
    [] value = "bad"   -> "warn"
    [] value = "error" -> "error"
    [] value = "none" /\ m = "sshd"  -> "error"
    [] value = "none" /\ m = "nginx" -> "warn"
    [] OTHER -> "not_applicable"

-----------------------------------------------------------------------------
(* The audit *)

Init ==
  /\ mode \in Modes
  /\ registry \in Registries
  /\ host \in [{registry[k] : k \in DOMAIN registry} -> HostStates]
  /\ past = {host}
  /\ changes = 0
  /\ alive = TRUE
  /\ services = {} /\ errors = FALSE
  /\ modules = <<>> /\ results = <<>>
  /\ cache = [m \in DOMAIN host |-> "empty"]
  /\ phase = "start"
  /\ mi = 1 /\ ci = 1

(* A mutant of ListServices: the failure of systemctl goes unrecorded.     *)
ListSilently ==
  /\ phase = "start"
  /\ services' \in {{}, {m \in DOMAIN host : alive /\ host[m].up}}
  /\ phase' = "module"
  /\ UNCHANGED <<mode, registry, environment, alive, errors, modules, results, cache, mi, ci>>

(* RunningServices: systemctl answers, or fails and leaves an error in the *)
(* report and nothing else behind.                                         *)
ListServices ==
  /\ phase = "start"
  /\ \/ /\ alive
        /\ services' = {m \in DOMAIN host : host[m].up}
        /\ errors' = errors
     \/ services' = {} /\ errors' = TRUE
  /\ phase' = "module"
  /\ UNCHANGED <<mode, registry, environment, alive, modules, results, cache, mi, ci>>

(* The head of the loop over the registry.                                 *)
DetectModule ==
  /\ phase = "module" /\ mi <= Len(registry)
  /\ LET detected == Detected(Here)
         selected == detected \/ mode = "all"
     IN  /\ modules' = Append(modules, [module |-> Here, detected |-> detected,
                                        selected |-> selected])
         /\ IF selected THEN phase' = "check" /\ mi' = mi
                        ELSE phase' = "module" /\ mi' = mi + 1
  /\ ci' = 1
  /\ UNCHANGED <<mode, registry, environment, alive, services, errors, results, cache>>

(* A mutant of Report: the last check skipped.                             *)
ReportShort(status) ==
  /\ results' = Append(results, [module |-> Here, check |-> ci, status |-> status])
  /\ IF ci + 1 < Len(ChecksOf(Here))
     THEN phase' = "check"  /\ ci' = ci + 1 /\ mi' = mi
     ELSE phase' = "module" /\ ci' = 1      /\ mi' = mi + 1

(* A check returns: its result is appended and the loops move on.          *)
Report(status) ==
  /\ results' = Append(results, [module |-> Here, check |-> ci, status |-> status])
  /\ IF ci < Len(ChecksOf(Here))
     THEN phase' = "check"  /\ ci' = ci + 1 /\ mi' = mi
     ELSE phase' = "module" /\ ci' = 1      /\ mi' = mi + 1

(* An inventory check reports what it sees, seen or not.                   *)
InventoryCheck ==
  /\ phase = "check" /\ Kind = "inventory"
  /\ Report("info")
  /\ UNCHANGED <<mode, registry, environment, alive, services, errors, modules, cache>>

LooksLess == Kind = "version" \/ (Kind = "config" /\ Here = "redis")  \* mutant
(* Whether a check looks for the service again before it reads: all do but *)
(* those of sshd, and those of mysql that share the discovery.             *)
LooksAgain == Kind = "version" \/ (Kind = "config" /\ Here \in {"nginx", "redis"})

SkipUndetected ==
  /\ phase = "check" /\ LooksAgain /\ ~ Detected(Here)
  /\ Report("not_applicable")
  /\ UNCHANGED <<mode, registry, environment, alive, services, errors, modules, cache>>

GoOnToRead ==
  /\ phase = "check" /\ Kind # "inventory"
  /\ LooksAgain => Detected(Here)
  /\ phase' = "read"
  /\ UNCHANGED <<mode, registry, environment, alive, services, errors, modules,
                 results, cache, mi, ci>>

(* A version check runs its command every time.                            *)
VersionCheck ==
  /\ phase = "read" /\ Kind = "version"
  /\ Report(IF alive /\ host[Here].present THEN "info" ELSE "error")
  /\ UNCHANGED <<mode, registry, environment, alive, services, errors, modules, cache>>

(* A mutant of ConfigCheck: every check reads for itself.                  *)
ConfigUncached ==
  /\ phase = "read" /\ Kind = "config"
  /\ \E value \in Load(Here) : cache' = [cache EXCEPT ![Here] = value]
                               /\ Report(Verdict(Here, value))
  /\ UNCHANGED <<mode, registry, environment, alive, services, errors, modules>>

(* A configuration check fills the cache if it is the first, and judges    *)
(* what the cache holds.                                                   *)
ConfigCheck ==
  /\ phase = "read" /\ Kind = "config"
  /\ \E value \in IF cache[Here] = "empty" THEN Load(Here) ELSE {cache[Here]} :
       /\ cache' = [cache EXCEPT ![Here] = value]
       /\ Report(Verdict(Here, value))
  /\ UNCHANGED <<mode, registry, environment, alive, services, errors, modules>>

(* Past the last module the report is prepared (module Prepare); `detect`  *)
(* then drops what the checks said.                                        *)
Finish ==
  /\ phase = "module" /\ mi > Len(registry)
  /\ results' = IF mode = "detect" THEN <<>> ELSE results
  /\ phase' = "done"
  /\ UNCHANGED <<mode, registry, environment, alive, services, errors, modules,
                 cache, mi, ci>>

Program == ListServices \/ DetectModule \/ InventoryCheck \/ SkipUndetected
             \/ GoOnToRead \/ VersionCheck \/ ConfigCheck \/ Finish

(* The host changes under the audit, at most MaxChanges times.             *)
HostChanges ==
  /\ phase # "done" /\ changes < MaxChanges
  /\ \E m \in DOMAIN host, s \in HostStates :
       /\ s # host[m]
       /\ host' = [host EXCEPT ![m] = s]
  /\ past' = past \union {host'}
  /\ changes' = changes + 1
  /\ UNCHANGED <<mode, registry, alive, services, errors, modules, results,
                 cache, phase, mi, ci>>

(* A mutant of DeadlinePasses: the context covers the unit list alone.     *)
DeadlineOfList ==
  /\ phase = "start" /\ alive
  /\ alive' = FALSE
  /\ UNCHANGED <<mode, registry, environment, services, errors, modules, results,
                 cache, phase, mi, ci>>

(* The context is cancelled when the command's --timeout has passed.       *)
DeadlinePasses ==
  /\ phase # "done" /\ alive
  /\ alive' = FALSE
  /\ UNCHANGED <<mode, registry, environment, services, errors, modules, results,
                 cache, phase, mi, ci>>

Next == Program \/ HostChanges \/ DeadlinePasses

Spec == Init /\ [][Next]_vars
(* Until the deadline any command may hang.  The deadline comes, and kills *)
(* it; the commands of these modules (systemctl, pgrep, ss, sshd, nginx    *)
(* and the servers' --version) have no children that keep their output     *)
(* open, so that each then returns, and later ones are not even started.   *)
(* Module Delivery has the commands that do.                               *)
FairSpec == Spec /\ WF_vars(DeadlinePasses) /\ WF_vars(~ alive /\ Program)

-----------------------------------------------------------------------------
(* Properties *)

TypeOK ==
  /\ host \in [DOMAIN host -> HostStates] /\ host \in past
  /\ changes \in 0 .. MaxChanges
  /\ services \subseteq DOMAIN host
  /\ errors \in BOOLEAN /\ alive \in BOOLEAN
  /\ cache \in [DOMAIN host -> Observed \union {"empty"}]
  /\ phase \in {"start", "module", "check", "read", "done"}
  /\ mi \in 1 .. Len(registry) + 1
  /\ phase \in {"check", "read"} => mi <= Len(registry) /\ ci \in DOMAIN ChecksOf(Here)

(* At every moment the report holds, for the modules already visited in    *)
(* registry order, one entry each, and one result for every check of the   *)
(* selected ones, in order and none twice (audit.go:126-144).              *)
Expected(k) ==
  LET m == modules[k].module
      upto == IF k = mi THEN ci - 1 ELSE Len(ChecksOf(m))
  IN  IF modules[k].selected THEN {<<m, c>> : c \in 1 .. upto} ELSE {}

OneResultPerCheck ==
  /\ \A k \in DOMAIN modules : modules[k].module = registry[k]
  /\ phase # "done" \/ mode # "detect" =>
       /\ {<<results[k].module, results[k].check>> : k \in DOMAIN results}
            = UNION {Expected(k) : k \in DOMAIN modules}
       /\ \A j, k \in DOMAIN results : j < k /\ results[j].module = results[k].module
                                         => results[j].check < results[k].check
       /\ phase = "done" => Len(modules) = Len(registry)

IsConfigResult(r) == ChecksOf(r.module)[r.check] = "config"

(* A module's verdicts come from one look at its configuration: an edit in *)
(* the middle of the audit never makes one check pass and another warn.    *)
(* Where the checks do not look for the service again, they agree          *)
(* altogether; where they do, one may say not_applicable instead           *)
(* (ssh/module.go:50, nginx/module.go:452, redis/module.go:438,            *)
(* mysql/module.go:812).                                                   *)
VerdictsAgree ==
  \A j, k \in DOMAIN results :
    IsConfigResult(results[j]) /\ IsConfigResult(results[k])
      /\ results[j].module = results[k].module =>
        \/ results[j].status = results[k].status
        \/ /\ results[j].module \in {"nginx", "redis"}
           /\ "not_applicable" \in {results[j].status, results[k].status}

(* A pass means that the configuration was good at some time during the    *)
(* audit: neither a failed command nor a missing or unreadable file nor    *)
(* the deadline turns into a pass (ssh/module.go:131, nginx/module.go:478, *)
(* redis/module.go:477-500).  The mysql discovery is another matter, see   *)
(* MySQLPassIsEarned.                                                      *)
PassIsEarned ==
  \A k \in DOMAIN results :
    results[k].status = "pass" /\ results[k].module # "mysql" =>
      \E h \in past : h[results[k].module].conf = "good"

(* The bind check of mysql is written to warn when the bind address is not *)
(* explicit and the listening state could not be confirmed                 *)
(* (mysql/module.go:213): a server without a restricting bind address that *)
(* was up during the whole audit does not pass.                            *)
MySQLPassIsEarned ==
  \A k \in DOMAIN results :
    results[k].status = "pass" /\ results[k].module = "mysql" =>
      \E h \in past : h["mysql"].conf \in {"good", "broken"} \/ ~ h["mysql"].up

(* A service that ran during the whole audit is audited, or the report     *)
(* carries the error that explains why not (audit.go:94-117).              *)
AbsenceExplained ==
  phase = "done" =>
    \A k \in DOMAIN modules :
      ~ modules[k].selected /\ (\A h \in past : h[modules[k].module].up) => errors

(* Under --all, what was never on the host is not judged: its checks give  *)
(* neither pass nor warning nor error (nginx/module.go:467,                *)
(* redis/module.go:468, mysql/module.go:845).  The checks of sshd do not   *)
(* look and are left out.                                                  *)
AbsentNotJudged ==
  \A k \in DOMAIN results :
    LET m == results[k].module
    IN  m # "sshd" /\ (\A h \in past : ~ h[m].up /\ ~ h[m].present)
          => results[k].status \in {"info", "not_applicable"}

(* Past the deadline a check that needs a command says nothing new: a      *)
(* verdict only repeats what was read in time (execx/runner.go:16).        *)
LateVerdictsAreOld ==
  [][~ alive /\ Len(results') > Len(results) =>
       LET r == results'[Len(results')]
       IN  r.module \in {"sshd", "nginx"} /\ r.status \in {"pass", "warn"}
             => cache[r.module] \in {"good", "bad", "none"}]_vars

(* The audit comes to its end although any of its commands may hang: the   *)
(* deadline covers all of them, and what goes on without them is finite    *)
(* (cli.go:78, 96, audit.go:94-147, execx/runner.go:16-18).                *)
Terminates == <>(phase = "done")

(* `secscan detect` is described as detecting host, services and modules   *)
(* only: it executes no check (cli/cli.go:500).                            *)
DetectRunsNoCheck == mode = "detect" => results = <<>>
=============================================================================
