----------------------------- MODULE AuditProofs -----------------------------
(***************************************************************************)
(* For every registry, every command and any number of changes of the      *)
(* host: a pass was earned, the verdicts of a module agree, and none that  *)
(* is given late is new.  These follow from what the caches hold (Inv): a  *)
(* value that was read once, from a host that looked like that at some     *)
(* time of the audit, and from which every verdict given so far derives.   *)
(*                                                                         *)
(* That what never was there is not judged, and what always ran is not     *)
(* passed over in silence, follows from what holds of such modules at      *)
(* every place of the loops (AbsenceInv); that each check has its one      *)
(* result, from which checks the loops have passed (OrderInv).             *)
(***************************************************************************)
EXTENDS Audit, TLAPS, SequenceTheorems

ResultStatuses == {"pass", "warn", "error", "info", "not_applicable"}
ResultRecords  == [module : AllModuleNames, check : 1 .. 3, status : ResultStatuses]

(* Where the loops stand, and over what.                                   *)
Places ==
  /\ registry \in Seq(AllModuleNames)
  /\ DOMAIN host = {registry[k] : k \in DOMAIN registry}
  /\ ci \in Nat

Recorded == results \in Seq(ResultRecords)

(* A result is what its check makes of the cache as it is now.             *)
Justified(r, c) ==
  IF IsConfigResult(r)
  THEN \/ c[r.module] # "empty" /\ r.status = Verdict(r.module, c[r.module])
       \/ r.module \in {"nginx", "redis"} /\ r.status = "not_applicable"
  ELSE r.status \in {"info", "error", "not_applicable"}

AllJustified == \A k \in DOMAIN results : /\ Justified(results[k], cache)
                                          /\ results[k].module \in DOMAIN host

(* A good configuration in a cache was seen on the host.                   *)
CacheEarned ==
  \A m \in DOMAIN host : m # "mysql" /\ cache[m] = "good" =>
    \E h \in past : h[m].conf = "good"

Inv == TypeOK /\ Places /\ Recorded /\ AllJustified /\ CacheEarned

-----------------------------------------------------------------------------
LEMMA ChecksFacts ==
  \A m : /\ Len(ChecksOf(m)) \in 1 .. 3
         /\ DOMAIN ChecksOf(m) = 1 .. Len(ChecksOf(m))
<1> SUFFICES ASSUME NEW m
             PROVE  \/ ChecksOf(m) = <<"config", "config">>
                    \/ ChecksOf(m) = <<"inventory", "config", "config">>
                    \/ ChecksOf(m) = <<"version", "config", "config">>
                    \/ ChecksOf(m) = <<"inventory">>
  OBVIOUS
<1> QED  BY DEF ChecksOf

(* What a configuration check finds is what it looked at: "good" only of a *)
(* good configuration, mysql apart.                                        *)
LEMMA LoadFacts ==
  ASSUME NEW m \in AllModuleNames \ {"exim"}, host[m] \in HostStates,
         NEW value \in Load(m)
  PROVE  /\ value \in Observed
         /\ m # "mysql" /\ value = "good" => host[m].conf = "good"
<1>1. host[m].conf \in Configs  BY DEF HostStates
<1>2. CASE m \in {"sshd", "nginx"}
  BY <1>1, <1>2 DEF Load, CommandRead, Observed, Configs
<1>3. CASE m = "redis"
  BY <1>1, <1>3 DEF Load, FileRead, Observed, Configs
<1>4. CASE m = "mysql"
  <2>1. value \in BuildDiscovery  BY <1>4 DEF Load
  <2>2. value \in {"good", "bad", "undetected"}
    BY <2>1 DEF BuildDiscovery, NetworkExposure
  <2> QED  BY <2>2, <1>4 DEF Observed
<1> QED  BY <1>2, <1>3, <1>4 DEF AllModuleNames

LEMMA VerdictFacts ==
  \A m, value : /\ Verdict(m, value) \in ResultStatuses
                /\ Verdict(m, value) = "pass" <=> value = "good"
BY DEF Verdict, ResultStatuses

(* The current module and check are where they should be.                  *)
LEMMA HereFacts ==
  ASSUME Inv, phase \in {"check", "read"}
  PROVE  /\ Here \in DOMAIN host /\ Here \in AllModuleNames
         /\ mi \in 1 .. Len(registry) /\ ci \in 1 .. Len(ChecksOf(Here))
         /\ Len(registry) \in Nat
<1>1. Len(registry) \in Nat /\ DOMAIN registry = 1 .. Len(registry)
  BY DEF Inv, Places
<1>2. mi \in 1 .. Len(registry) /\ ci \in 1 .. Len(ChecksOf(Here))
  BY <1>1, ChecksFacts DEF Inv, TypeOK
<1>3. registry[mi] \in AllModuleNames /\ registry[mi] \in DOMAIN host
  BY <1>1, <1>2 DEF Inv, Places
<1> QED  BY <1>1, <1>2, <1>3 DEF Here

LEMMA InitInv == Init => Inv
<1> SUFFICES ASSUME Init PROVE Inv  OBVIOUS
<1>1. registry \in Seq(AllModuleNames)  BY AuditAssumption DEF Init
<1>2. TypeOK
  <2>1. host \in [DOMAIN host -> HostStates] /\ host \in past  BY DEF Init
  <2>2. cache \in [DOMAIN host -> Observed \union {"empty"}]  BY DEF Init
  <2>3. Len(registry) \in Nat /\ mi = 1  BY <1>1 DEF Init
  <2>4. mi \in 1 .. Len(registry) + 1  BY <2>3
  <2>5. changes \in 0 .. MaxChanges /\ services \subseteq DOMAIN host
    BY AuditAssumption DEF Init
  <2>6. errors \in BOOLEAN /\ alive \in BOOLEAN /\ phase = "start"  BY DEF Init
  <2> QED  BY <2>1, <2>2, <2>4, <2>5, <2>6 DEF TypeOK
<1> QED
  BY <1>1, <1>2 DEF Init, Inv, Places, Recorded, AllJustified, CacheEarned

(* Appending a justified result and moving on keeps everything but the     *)
(* caches, about which the caller knows more.                              *)
LEMMA ReportInv ==
  ASSUME Inv, phase \in {"check", "read"}, NEW status \in ResultStatuses, Report(status),
         UNCHANGED <<mode, registry, host, past, changes, alive, services, errors, modules>>,
         cache' \in [DOMAIN host -> Observed \union {"empty"}], CacheEarned',
         \A k \in DOMAIN results : Justified(results[k], cache'),
         Justified([module |-> Here, check |-> ci, status |-> status], cache')
  PROVE  Inv'
<1> DEFINE r == [module |-> Here, check |-> ci, status |-> status]
<1>1. /\ Here \in DOMAIN host /\ Here \in AllModuleNames
      /\ mi \in 1 .. Len(registry) /\ ci \in 1 .. Len(ChecksOf(Here))
      /\ Len(registry) \in Nat
  BY HereFacts
<1>2. Len(ChecksOf(Here)) \in 1 .. 3  BY ChecksFacts
<1>3. r \in ResultRecords
  <2>1. ci \in 1 .. 3
    <3>1. \A n \in 1 .. 3 : 1 .. n \subseteq 1 .. 3  OBVIOUS
    <3> QED  BY <1>1, <1>2, <3>1
  <2> QED  BY <1>1, <2>1 DEF ResultRecords
<1>4. results \in Seq(ResultRecords) /\ results' = Append(results, r)
  BY DEF Inv, Recorded, Report
<1> HIDE DEF r
<1>5. Recorded'  BY <1>3, <1>4 DEF Recorded
<1>6. \A k \in DOMAIN results' : results'[k] = r \/ \E j \in DOMAIN results : results'[k] = results[j]
  BY <1>3, <1>4
<1>7. AllJustified'
  <2>1. \A k \in DOMAIN results' : Justified(results'[k], cache')
    BY <1>6 DEF r
  <2>2. r.module \in DOMAIN host  BY <1>1 DEF r
  <2> QED  BY <1>6, <2>1, <2>2 DEF AllJustified, Inv
<1>8. Places'  BY <1>1, <1>2 DEF Inv, Places, Report
<1>9. TypeOK'
  <2>1. phase' \in {"check", "module"} /\ mi' \in 1 .. Len(registry) + 1
    BY <1>1 DEF Report
  <2>2. phase' = "check" => mi' = mi /\ ci' \in 1 .. Len(ChecksOf(Here))
    BY <1>1, <1>2 DEF Report
  <2>3. phase' = "check" => mi' <= Len(registry) /\ ci' \in DOMAIN ChecksOf(Here)'
    BY <1>1, <2>2, ChecksFacts DEF Here
  <2> QED  BY <2>1, <2>3 DEF Inv, TypeOK
<1> QED  BY <1>5, <1>7, <1>8, <1>9 DEF Inv

(* The checks that leave the caches alone.                                 *)
LEMMA UncachedInv ==
  ASSUME Inv, InventoryCheck \/ SkipUndetected \/ VersionCheck
  PROVE  Inv'
<1>1. PICK status \in {"info", "error", "not_applicable"} :
        /\ Report(status) /\ phase \in {"check", "read"}
        /\ UNCHANGED <<mode, registry, host, past, changes, alive, services, errors,
                       modules, cache>>
        /\ \/ Kind # "config"
           \/ Kind = "config" /\ Here \in {"nginx", "redis"} /\ status = "not_applicable"
  BY DEF InventoryCheck, SkipUndetected, VersionCheck, LooksAgain, environment
<1>2. Justified([module |-> Here, check |-> ci, status |-> status], cache)
  BY <1>1 DEF Justified, IsConfigResult, Kind
<1>3. CacheEarned'  BY <1>1 DEF Inv, CacheEarned
<1>4. cache' \in [DOMAIN host -> Observed \union {"empty"}]  BY <1>1 DEF Inv, TypeOK
<1>5. status \in ResultStatuses  BY DEF ResultStatuses
<1>6. cache' = cache /\ \A k \in DOMAIN results : Justified(results[k], cache)
  BY <1>1 DEF Inv, AllJustified
<1> QED  BY <1>1, <1>2, <1>3, <1>4, <1>5, <1>6, ReportInv

(* A configuration check: a first one fills the cache from the host as it  *)
(* is, a later one finds it filled.                                        *)
LEMMA ConfigInv == ASSUME Inv, ConfigCheck PROVE Inv'
<1>1. PICK value \in IF cache[Here] = "empty" THEN Load(Here) ELSE {cache[Here]} :
        /\ cache' = [cache EXCEPT ![Here] = value]
        /\ Report(Verdict(Here, value))
  BY DEF ConfigCheck
<1>2. /\ phase = "read" /\ Kind = "config"
      /\ UNCHANGED <<mode, registry, host, past, changes, alive, services, errors, modules>>
  BY DEF ConfigCheck, environment
<1>3. /\ Here \in DOMAIN host
      /\ cache \in [DOMAIN host -> Observed \union {"empty"}]
      /\ host[Here] \in HostStates /\ host \in past
  BY <1>2, HereFacts DEF Inv, TypeOK
<1>4. /\ value \in Observed
      /\ Here # "mysql" /\ value = "good" => \E h \in past : h[Here].conf = "good"
  <2>1. CASE cache[Here] = "empty"
    <3>1. Here \in AllModuleNames  BY <1>2, HereFacts
    <3>2. Kind = "config" => Here # "exim"
      <4>1. ASSUME Here = "exim" PROVE ChecksOf(Here) = <<"inventory">>
        BY <4>1 DEF ChecksOf
      <4>2. ci \in 1 .. Len(ChecksOf(Here))  BY <1>2, HereFacts
      <4> QED  BY <4>1, <4>2 DEF Kind
    <3> QED  BY <1>1, <1>2, <1>3, <2>1, <3>1, <3>2, LoadFacts
  <2>2. CASE cache[Here] # "empty"
    BY <1>1, <1>3, <2>2 DEF Inv, CacheEarned
  <2> QED  BY <2>1, <2>2
<1>5. cache' \in [DOMAIN host -> Observed \union {"empty"}]
  BY <1>1, <1>3, <1>4
<1>6. \A m \in DOMAIN host : cache'[m] = IF m = Here THEN value ELSE cache[m]
  BY <1>1, <1>3
<1>7. CacheEarned'
  BY <1>2, <1>4, <1>6 DEF Inv, CacheEarned
<1>8. \A k \in DOMAIN results : Justified(results[k], cache')
  <2> SUFFICES ASSUME NEW k \in DOMAIN results PROVE Justified(results[k], cache')
    OBVIOUS
  <2>1. Justified(results[k], cache) /\ results[k].module \in DOMAIN host
    BY DEF Inv, AllJustified
  <2>2. cache[Here] = "empty" \/ cache'[results[k].module] = cache[results[k].module]
    BY <1>1, <1>6, <2>1
  <2>3. results[k].module = Here \/ cache'[results[k].module] = cache[results[k].module]
    BY <1>6, <2>1
  <2> QED  BY <2>1, <2>2, <2>3 DEF Justified
<1>9. Justified([module |-> Here, check |-> ci, status |-> Verdict(Here, value)], cache')
  <2>1. cache'[Here] = value /\ value # "empty"  BY <1>3, <1>4, <1>6 DEF Observed
  <2> QED  BY <1>2, <2>1 DEF Justified, IsConfigResult, Kind
<1>10. Verdict(Here, value) \in ResultStatuses  BY VerdictFacts
<1> QED  BY <1>1, <1>2, <1>5, <1>7, <1>8, <1>9, <1>10, ReportInv

(* The steps of the loops that report nothing.                             *)
LEMMA LoopInv ==
  ASSUME Inv, ListServices \/ DetectModule \/ GoOnToRead \/ Finish
  PROVE  Inv'
<1>1. Len(registry) \in Nat /\ DOMAIN registry = 1 .. Len(registry)
  BY DEF Inv, Places
<1>2. UNCHANGED <<registry, host, past, changes, cache>>
  BY DEF ListServices, DetectModule, GoOnToRead, Finish, environment
<1>3. results' = results \/ results' = <<>>
  BY DEF ListServices, DetectModule, GoOnToRead, Finish
<1>4. Recorded' /\ AllJustified' /\ CacheEarned'
  <2>1. <<>> \in Seq(ResultRecords) /\ DOMAIN <<>> = {}  OBVIOUS
  <2>2. Recorded'  BY <1>3, <2>1 DEF Inv, Recorded
  <2>3. AllJustified'
    <3>1. CASE results' = results  BY <1>2, <3>1 DEF Inv, AllJustified
    <3>2. CASE results' = <<>>  BY <2>1, <3>2 DEF AllJustified
    <3> QED  BY <1>3, <3>1, <3>2
  <2> QED  BY <1>2, <2>2, <2>3 DEF Inv, CacheEarned
<1>5. CASE ListServices
  BY <1>2, <1>4, <1>5 DEF ListServices, Inv, TypeOK, Places
<1>6. CASE DetectModule
  <2>1. Places'  BY <1>2, <1>6 DEF DetectModule, Inv, Places
  <2>2. mi \in 1 .. Len(registry)  BY <1>1, <1>6 DEF DetectModule, Inv, TypeOK
  <2>3. 1 \in DOMAIN ChecksOf(Here)  BY ChecksFacts
  <2>4. \/ phase' = "check" /\ mi' = mi /\ ci' = 1
        \/ phase' = "module" /\ mi' = mi + 1
    BY <1>6 DEF DetectModule
  <2>5. mi' \in 1 .. Len(registry) + 1 /\ phase' \in {"check", "module"}
    BY <1>1, <2>2, <2>4
  <2>6. phase' = "check" => mi' <= Len(registry') /\ ci' \in DOMAIN ChecksOf(Here)'
    BY <1>2, <2>2, <2>3, <2>4 DEF Here
  <2> QED
    BY <1>2, <1>4, <1>6, <2>1, <2>5, <2>6 DEF DetectModule, Inv, TypeOK
<1>7. CASE GoOnToRead
  <2>1. TypeOK'
    BY <1>2, <1>7 DEF GoOnToRead, Inv, TypeOK, Here
  <2> QED  BY <1>2, <1>4, <1>7, <2>1 DEF GoOnToRead, Inv, Places
<1>8. CASE Finish
  BY <1>2, <1>4, <1>8 DEF Finish, Inv, TypeOK, Places
<1> QED  BY <1>5, <1>6, <1>7, <1>8

(* The host may change and time pass: what was seen stays seen.            *)
LEMMA EnvironmentInv ==
  ASSUME Inv, HostChanges \/ DeadlinePasses \/ UNCHANGED vars
  PROVE  Inv'
<1>1. CASE HostChanges
  <2>1. PICK m \in DOMAIN host, s \in HostStates : host' = [host EXCEPT ![m] = s]
    BY <1>1 DEF HostChanges
  <2>2. host' \in [DOMAIN host -> HostStates] /\ DOMAIN host' = DOMAIN host
    BY <2>1 DEF Inv, TypeOK
  <2>3. past \subseteq past' /\ host' \in past'  BY <1>1 DEF HostChanges
  <2>4. changes' \in 0 .. MaxChanges
    BY <1>1, AuditAssumption DEF HostChanges, Inv, TypeOK
  <2>5. UNCHANGED <<mode, registry, alive, services, errors, modules, results, cache,
                    phase, mi, ci>>
    BY <1>1 DEF HostChanges
  <2>6. TypeOK'  BY <2>2, <2>3, <2>4, <2>5 DEF Inv, TypeOK, Here
  <2>7. AllJustified' /\ CacheEarned'
    BY <2>2, <2>3, <2>5 DEF Inv, AllJustified, CacheEarned
  <2> QED  BY <2>2, <2>5, <2>6, <2>7 DEF Inv, Places, Recorded
<1>2. CASE DeadlinePasses
  BY <1>2 DEF DeadlinePasses, environment, Inv, TypeOK, Here, Places, Recorded,
              AllJustified, CacheEarned
<1>3. CASE UNCHANGED vars
  BY <1>3 DEF vars, environment, Inv, TypeOK, Here, Places, Recorded, AllJustified,
              CacheEarned
<1> QED  BY <1>1, <1>2, <1>3

LEMMA Inductive == Spec => []Inv
<1>1. Inv /\ [Next]_vars => Inv'
  BY UncachedInv, ConfigInv, LoopInv, EnvironmentInv DEF Next, Program
<1> QED  BY InitInv, <1>1, PTL DEF Spec

-----------------------------------------------------------------------------
(* Absence: what the audit knows of a module that was not on the host so   *)
(* far, and of one that was up so far.  Both can only cease to be true.    *)
NeverThere(m) == \A h \in past : ~ h[m].up /\ ~ h[m].present
AlwaysUp(m)   == \A h \in past : h[m].up

(* What is not there is neither listed nor read, and mysql's discovery     *)
(* remembers that it was not.                                              *)
Unread ==
  \A m \in DOMAIN host \ {"sshd"} : NeverThere(m) =>
    /\ m \notin services
    /\ phase = "read" /\ Here = m => ~ LooksAgain
    /\ m = "mysql" => cache[m] \in {"empty", "undetected"}

(* What is always up is in the unit list, or the report says why not.      *)
Passed ==
  /\ phase # "start" => \A m \in DOMAIN host : AlwaysUp(m) => m \in services \/ errors
  /\ \A k \in DOMAIN modules :
       ~ modules[k].selected /\ AlwaysUp(modules[k].module) => errors

ModuleRecords == [module : AllModuleNames, detected : BOOLEAN, selected : BOOLEAN]

(* The loops have come as far as the list of modules.                      *)
Visited ==
  /\ modules \in Seq(ModuleRecords)
  /\ Len(modules) = IF phase \in {"check", "read"} THEN mi ELSE mi - 1
  /\ \A k \in DOMAIN modules : modules[k].module = registry[k]
  /\ phase \in {"check", "read"} => modules[mi].selected
  /\ phase = "start" => mi = 1
  /\ phase = "done" => mi = Len(registry) + 1

Spared ==
  \A k \in DOMAIN results :
    results[k].module # "sshd" /\ NeverThere(results[k].module)
      => results[k].status \in {"info", "not_applicable"}

AbsenceInv == Visited /\ Unread /\ Passed /\ Spared

(* What never was on the host is not detected; what always was up and is   *)
(* in the unit list is.                                                    *)
LEMMA DetectedFacts ==
  ASSUME Inv, Unread, NEW m \in DOMAIN host, m \in AllModuleNames
  PROVE  /\ m # "sshd" /\ NeverThere(m) => ~ Detected(m)
         /\ m \in services => Detected(m)
<1>1. NeverThere(m) => ~ host[m].up /\ ~ host[m].present
  BY DEF NeverThere, Inv, TypeOK
<1>2. m # "sshd" /\ NeverThere(m) => m \notin services
  BY DEF Unread
<1> QED
  BY <1>1, <1>2 DEF Detected, SSHDetect, NginxDetect, RedisDetect, MySQLDetect,
     ServiceDetect, AllModuleNames

LEMMA DetectedType ==
  ASSUME NEW m \in AllModuleNames
  PROVE  Detected(m) \in BOOLEAN
<1>1. /\ SSHDetect \in BOOLEAN /\ NginxDetect \in BOOLEAN /\ RedisDetect \in BOOLEAN
      /\ MySQLDetect \in BOOLEAN /\ ServiceDetect \in BOOLEAN
  BY DEF SSHDetect, NginxDetect, RedisDetect, MySQLDetect, ServiceDetect
<1> QED  BY <1>1 DEF Detected

(* The entry that the head of the loop makes.                              *)
LEMMA DetectFacts ==
  ASSUME Inv, DetectModule
  PROVE  \E r \in ModuleRecords :
           /\ modules' = Append(modules, r) /\ r.module = Here /\ r.module = registry[mi]
           /\ r.module \in DOMAIN host /\ r.module \in AllModuleNames
           /\ Detected(Here) => r.selected
           /\ phase = "module" /\ mi \in 1 .. Len(registry)
           /\ \/ r.selected /\ phase' = "check" /\ mi' = mi
              \/ ~ r.selected /\ phase' = "module" /\ mi' = mi + 1
<1> DEFINE d == Detected(Here)
           sel == d \/ mode = "all"
           r == [module |-> Here, detected |-> d, selected |-> sel]
<1>1. phase = "module" /\ mi \in 1 .. Len(registry)
  BY DEF DetectModule, Inv, TypeOK, Places
<1>2. Here = registry[mi] /\ Here \in DOMAIN host /\ Here \in AllModuleNames
  BY <1>1 DEF Here, Inv, Places
<1>3. d \in BOOLEAN  BY <1>2, DetectedType
<1>4. /\ modules' = Append(modules, r)
      /\ IF sel THEN phase' = "check" /\ mi' = mi ELSE phase' = "module" /\ mi' = mi + 1
  BY DEF DetectModule
<1> HIDE DEF d
<1>5. sel \in BOOLEAN  BY <1>3
<1>6. d => sel  OBVIOUS
<1> HIDE DEF sel
<1>7. r \in ModuleRecords  BY <1>2, <1>3, <1>5 DEF ModuleRecords
<1>8. r.module = Here /\ r.selected = sel  OBVIOUS
<1> HIDE DEF r
<1>9. Detected(Here) => r.selected  BY <1>6, <1>8 DEF d
<1> QED  BY <1>1, <1>2, <1>4, <1>7, <1>8, <1>9

(* A result that is appended stands last.                                  *)
LEMMA ReportFacts ==
  ASSUME Inv, phase \in {"check", "read"}, NEW status \in ResultStatuses, Report(status)
  PROVE  LET r == [module |-> Here, check |-> ci, status |-> status]
         IN  /\ results \in Seq(ResultRecords) /\ r \in ResultRecords
             /\ results' = Append(results, r) /\ Len(results') = Len(results) + 1
             /\ results'[Len(results')] = r
             /\ \A k \in DOMAIN results : results'[k] = results[k]
             /\ DOMAIN results' = DOMAIN results \union {Len(results) + 1}
<1> DEFINE r == [module |-> Here, check |-> ci, status |-> status]
<1>1. Here \in AllModuleNames /\ ci \in 1 .. Len(ChecksOf(Here))
  BY HereFacts
<1>2. ci \in 1 .. 3
  <2>1. \A n \in 1 .. 3 : 1 .. n \subseteq 1 .. 3  OBVIOUS
  <2> QED  BY <1>1, <2>1, ChecksFacts
<1>3. r \in ResultRecords  BY <1>1, <1>2 DEF ResultRecords
<1>4. results \in Seq(ResultRecords) /\ results' = Append(results, r)
  BY DEF Inv, Recorded, Report
<1> HIDE DEF r
<1>5. Len(results) \in Nat /\ DOMAIN results = 1 .. Len(results)  BY <1>4
<1>6. /\ Len(results') = Len(results) + 1 /\ results'[Len(results')] = r
      /\ \A k \in 1 .. Len(results) : results'[k] = results[k]
      /\ DOMAIN results' = 1 .. Len(results) + 1
  BY <1>3, <1>4, AppendProperties
<1>7. 1 .. Len(results) + 1 = (1 .. Len(results)) \union {Len(results) + 1}
  BY <1>5
<1> QED  BY <1>3, <1>4, <1>5, <1>6, <1>7 DEF r

(* What the checks can say of a module that never was there.               *)
LEMMA AbsentVerdict ==
  ASSUME Inv, Unread, phase = "read", Kind = "config",
         Here # "sshd", NeverThere(Here),
         NEW value \in IF cache[Here] = "empty" THEN Load(Here) ELSE {cache[Here]}
  PROVE  /\ Verdict(Here, value) = "not_applicable"
         /\ Here = "mysql" => value = "undetected"
<1>1. Here \in DOMAIN host /\ Here \in AllModuleNames  BY HereFacts
<1>2. ~ LooksAgain  BY <1>1 DEF Unread
<1>3. Here # "exim"
  <2>1. ASSUME Here = "exim" PROVE ChecksOf(Here) = <<"inventory">>
    BY <2>1 DEF ChecksOf
  <2>2. ci \in 1 .. Len(ChecksOf(Here))  BY HereFacts
  <2> QED  BY <2>1, <2>2 DEF Kind
<1>4. Here = "mysql"
  BY <1>1, <1>2, <1>3 DEF LooksAgain, AllModuleNames
<1>5. ~ MySQLDetect
  BY <1>1, <1>4, DetectedFacts DEF Detected
<1>6. cache["mysql"] \in {"empty", "undetected"}  BY <1>1, <1>4 DEF Unread
<1>7. value = "undetected"
  BY <1>4, <1>5, <1>6 DEF Load, BuildDiscovery
<1> QED  BY <1>4, <1>7 DEF Verdict

(* Nothing that was seen is forgotten.                                     *)
LEMMA PastGrows ==
  ASSUME Inv, [Next]_vars
  PROVE  /\ DOMAIN host' = DOMAIN host /\ registry' = registry /\ past \subseteq past'
         /\ \A m : (NeverThere(m)' => NeverThere(m)) /\ (AlwaysUp(m)' => AlwaysUp(m))
<1>1. DOMAIN host' = DOMAIN host /\ registry' = registry /\ past \subseteq past'
  <2>1. CASE HostChanges
    BY <2>1 DEF HostChanges, Inv, TypeOK
  <2>2. CASE Program \/ DeadlinePasses \/ UNCHANGED vars
    BY <2>2 DEF Program, ListServices, DetectModule, InventoryCheck, SkipUndetected,
       GoOnToRead, VersionCheck, ConfigCheck, Finish, DeadlinePasses, vars, environment
  <2> QED  BY <2>1, <2>2 DEF Next
<1> QED  BY <1>1 DEF NeverThere, AlwaysUp

(* Every step of the program that reports, and every other step.           *)
LEMMA StepKinds ==
  ASSUME Inv, [Next]_vars
  PROVE  \/ /\ phase \in {"check", "read"}
            /\ \E status \in ResultStatuses : Report(status)
            /\ UNCHANGED <<mode, host, past, alive, services, errors, modules>>
            /\ InventoryCheck \/ SkipUndetected \/ VersionCheck \/ ConfigCheck
         \/ ListServices
         \/ DetectModule
         \/ GoOnToRead
         \/ Finish
         \/ /\ HostChanges \/ DeadlinePasses \/ UNCHANGED vars
            /\ UNCHANGED <<mode, registry, services, errors, modules, results, cache,
                           phase, mi, ci>>
<1>1. CASE InventoryCheck \/ SkipUndetected \/ VersionCheck
  BY <1>1 DEF InventoryCheck, SkipUndetected, VersionCheck, environment, ResultStatuses
<1>2. CASE ConfigCheck
  BY <1>2, VerdictFacts DEF ConfigCheck, environment
<1>3. CASE HostChanges \/ DeadlinePasses \/ UNCHANGED vars
  BY <1>3 DEF HostChanges, DeadlinePasses, vars
<1> QED  BY <1>1, <1>2, <1>3 DEF Next, Program

LEMMA VisitedInit == Init => Visited
<1> SUFFICES ASSUME Init PROVE Visited  OBVIOUS
<1>1. modules = <<>> /\ phase = "start" /\ mi = 1  BY DEF Init
<1>2. <<>> \in Seq(ModuleRecords) /\ Len(<<>>) = 0 /\ DOMAIN <<>> = {}  OBVIOUS
<1> QED  BY <1>1, <1>2 DEF Visited

LEMMA VisitedStep ==
  ASSUME Inv, Visited, [Next]_vars
  PROVE  Visited'
<1>1. Len(registry) \in Nat /\ mi \in 1 .. Len(registry) + 1 /\ registry' = registry
  BY PastGrows DEF Inv, TypeOK, Places
<1>2. CASE \E status \in ResultStatuses : /\ Report(status) /\ modules' = modules
                                          /\ phase \in {"check", "read"}
  <2>1. PICK status \in ResultStatuses : Report(status)  BY <1>2
  <2>2. \/ phase' = "check"  /\ mi' = mi
        \/ phase' = "module" /\ mi' = mi + 1
    BY <2>1 DEF Report
  <2> QED  BY <1>1, <1>2, <2>2 DEF Visited
<1>3. CASE ListServices
  BY <1>1, <1>3 DEF ListServices, Visited
<1>4. CASE DetectModule
  <2>1. PICK r \in ModuleRecords :
          /\ modules' = Append(modules, r) /\ r.module = registry[mi]
          /\ phase = "module" /\ mi \in 1 .. Len(registry)
          /\ \/ r.selected /\ phase' = "check" /\ mi' = mi
             \/ ~ r.selected /\ phase' = "module" /\ mi' = mi + 1
    BY <1>4, DetectFacts
  <2>4. modules \in Seq(ModuleRecords) /\ Len(modules) = mi - 1
    BY <2>1 DEF Visited
  <2>5. /\ modules' \in Seq(ModuleRecords) /\ Len(modules') = mi
        /\ \A k \in 1 .. mi - 1 : modules'[k] = modules[k]
        /\ modules'[mi] = r
    BY <1>1, <2>1, <2>4, AppendProperties
  <2>6. \A k \in DOMAIN modules' : modules'[k].module = registry[k]
    <3> SUFFICES ASSUME NEW k \in 1 .. mi PROVE modules'[k].module = registry[k]
      BY <2>5
    <3>1. CASE k = mi  BY <2>1, <2>5, <3>1
    <3>2. CASE k # mi
      <4>1. k \in 1 .. mi - 1 /\ k \in DOMAIN modules  BY <1>1, <2>4, <3>2
      <4> QED  BY <2>5, <4>1 DEF Visited
    <3> QED  BY <3>1, <3>2
  <2> QED  BY <1>1, <2>1, <2>5, <2>6 DEF Visited
<1>5. CASE GoOnToRead
  <2>1. /\ phase = "check" /\ phase' = "read"
        /\ UNCHANGED <<registry, modules, mi>>
    BY <1>5 DEF GoOnToRead
  <2> QED  BY <2>1 DEF Visited
<1>6. CASE Finish
  <2>1. /\ phase = "module" /\ phase' = "done" /\ mi > Len(registry)
        /\ UNCHANGED <<registry, modules, mi>>
    BY <1>6 DEF Finish
  <2>2. mi = Len(registry) + 1  BY <1>1, <2>1
  <2> QED  BY <2>1, <2>2 DEF Visited
<1>7. CASE UNCHANGED <<modules, phase, mi>>
  BY <1>1, <1>7 DEF Visited
<1> QED  BY <1>2, <1>3, <1>4, <1>5, <1>6, <1>7, StepKinds

LEMMA PassedInit == Init => Passed
<1> SUFFICES ASSUME Init PROVE Passed  OBVIOUS
<1>1. modules = <<>> /\ phase = "start" /\ DOMAIN <<>> = {}  BY DEF Init
<1> QED  BY <1>1 DEF Passed

LEMMA PassedStep ==
  ASSUME Inv, Visited, Unread, Passed, [Next]_vars
  PROVE  Passed'
<1>1. DOMAIN host' = DOMAIN host /\ \A m : AlwaysUp(m)' => AlwaysUp(m)
  BY PastGrows
<1>2. CASE ListServices
  <2>1. modules = <<>> /\ modules' = modules
    <3>1. mi = 1 /\ phase = "start"  BY <1>2 DEF ListServices, Visited
    <3>2. modules \in Seq(ModuleRecords) /\ Len(modules) = 0  BY <3>1 DEF Visited
    <3> QED  BY <1>2, <3>2, EmptySeq DEF ListServices
  <2>2. \A m \in DOMAIN host : AlwaysUp(m) => host[m].up
    BY DEF AlwaysUp, Inv, TypeOK
  <2>3. \A m \in DOMAIN host : AlwaysUp(m) => m \in services' \/ errors'
    BY <1>2, <2>2 DEF ListServices
  <2>4. DOMAIN <<>> = {}  OBVIOUS
  <2> QED  BY <1>1, <2>1, <2>3, <2>4 DEF Passed
<1>3. CASE DetectModule
  <2>1. PICK r \in ModuleRecords :
          /\ modules' = Append(modules, r) /\ r.module = Here
          /\ r.module \in DOMAIN host /\ r.module \in AllModuleNames
          /\ Detected(Here) => r.selected
    BY <1>3, DetectFacts
  <2>2. /\ phase = "module" /\ phase' \in {"check", "module"}
        /\ UNCHANGED <<services, errors>>
    BY <1>3 DEF DetectModule
  <2>3. ~ r.selected /\ AlwaysUp(r.module) => errors
    BY <2>1, <2>2, DetectedFacts DEF Passed
  <2>5. \A k \in DOMAIN modules' : modules'[k] = r \/ \E j \in DOMAIN modules : modules'[k] = modules[j]
    BY <2>1 DEF Visited
  <2> QED  BY <1>1, <2>2, <2>3, <2>5 DEF Passed
<1>4. CASE phase # "start" /\ UNCHANGED <<services, errors, modules>>
  BY <1>1, <1>4 DEF Passed
<1>5. CASE UNCHANGED <<phase, services, errors, modules>>
  BY <1>1, <1>5 DEF Passed
<1>6. CASE GoOnToRead \/ Finish
  BY <1>4, <1>6 DEF GoOnToRead, Finish
<1> QED  BY <1>2, <1>3, <1>4, <1>5, <1>6, StepKinds

LEMMA UnreadInit == Init => Unread /\ Spared
<1> SUFFICES ASSUME Init PROVE Unread /\ Spared  OBVIOUS
<1>1. /\ services = {} /\ phase = "start" /\ results = <<>>
      /\ \A m \in DOMAIN host : cache[m] = "empty"
  BY DEF Init
<1>2. Unread  BY <1>1 DEF Unread
<1>3. DOMAIN <<>> = {}  OBVIOUS
<1> QED  BY <1>1, <1>2, <1>3 DEF Spared

LEMMA UnreadStep ==
  ASSUME Inv, Unread, [Next]_vars
  PROVE  Unread'
<1>1. /\ DOMAIN host' = DOMAIN host /\ registry' = registry
      /\ \A m : NeverThere(m)' => NeverThere(m)
  BY PastGrows
<1> SUFFICES ASSUME NEW m \in DOMAIN host, m # "sshd", NeverThere(m)
             PROVE  /\ m \notin services'
                    /\ phase' = "read" /\ Here' = m => ~ LooksAgain'
                    /\ m = "mysql" => cache'[m] \in {"empty", "undetected"}
  BY <1>1 DEF Unread
<1>2. /\ m \notin services
      /\ phase = "read" /\ Here = m => ~ LooksAgain
      /\ m = "mysql" => cache[m] \in {"empty", "undetected"}
  BY DEF Unread
<1>3. m \in AllModuleNames  BY DEF Inv, Places
<1>4. CASE InventoryCheck \/ SkipUndetected \/ VersionCheck
  <2>1. phase' # "read" /\ UNCHANGED <<services, cache>>
    BY <1>4 DEF InventoryCheck, SkipUndetected, VersionCheck, Report
  <2> QED  BY <1>2, <2>1
<1>5. CASE ConfigCheck
  <2>1. PICK value \in IF cache[Here] = "empty" THEN Load(Here) ELSE {cache[Here]} :
          cache' = [cache EXCEPT ![Here] = value]
    BY <1>5 DEF ConfigCheck
  <2>2. phase = "read" /\ Kind = "config" /\ phase' # "read" /\ services' = services
    BY <1>5 DEF ConfigCheck, Report
  <2>3. Here = "mysql" /\ m = "mysql" => value = "undetected"
    BY <2>2, AbsentVerdict
  <2>4. Here # m => cache'[m] = cache[m]
    BY <2>1 DEF Inv, TypeOK
  <2>5. Here = m => cache'[m] = value
    BY <2>1 DEF Inv, TypeOK
  <2> QED  BY <1>2, <2>2, <2>3, <2>4, <2>5
<1>6. CASE ListServices
  <2>1. ~ host[m].up  BY DEF NeverThere, Inv, TypeOK
  <2> QED  BY <1>2, <1>6, <2>1 DEF ListServices
<1>7. CASE GoOnToRead
  <2>1. UNCHANGED <<services, cache, registry, mi, ci>>
    BY <1>7 DEF GoOnToRead
  <2>2. Here' = Here /\ (LooksAgain' <=> LooksAgain)
    BY <2>1 DEF Here, LooksAgain, Kind
  <2>3. LooksAgain => Detected(Here)
    BY <1>7 DEF GoOnToRead
  <2> QED  BY <1>2, <1>3, <2>1, <2>2, <2>3, DetectedFacts
<1>8. CASE DetectModule \/ Finish
  BY <1>2, <1>8 DEF DetectModule, Finish
<1>9. CASE UNCHANGED <<registry, services, cache, phase, mi, ci>>
  BY <1>2, <1>9 DEF Here, LooksAgain, Kind
<1> QED  BY <1>4, <1>5, <1>6, <1>7, <1>8, <1>9, StepKinds

LEMMA SparedStep ==
  ASSUME Inv, Unread, Spared, [Next]_vars
  PROVE  Spared'
<1>1. \A m : NeverThere(m)' => NeverThere(m)
  BY PastGrows
<1>4. CASE results' = results
  BY <1>1, <1>4 DEF Spared
<1>5. CASE results' = <<>>
  <2>1. DOMAIN <<>> = {}  OBVIOUS
  <2> QED  BY <1>5, <2>1 DEF Spared
<1>6. CASE /\ phase \in {"check", "read"}
           /\ InventoryCheck \/ SkipUndetected \/ VersionCheck \/ ConfigCheck
  <2>1. PICK status \in ResultStatuses :
          /\ Report(status)
          /\ Here # "sshd" /\ NeverThere(Here) => status \in {"info", "not_applicable"}
    <3>1. CASE InventoryCheck \/ SkipUndetected
      BY <3>1 DEF InventoryCheck, SkipUndetected, ResultStatuses
    <3>2. CASE VersionCheck
      <4>1. phase = "read" /\ LooksAgain  BY <3>2 DEF VersionCheck, LooksAgain
      <4>2. Here \in DOMAIN host  BY <4>1, HereFacts
      <4>3. Here # "sshd" => ~ NeverThere(Here)  BY <4>1, <4>2 DEF Unread
      <4>4. PICK status \in {"info", "error"} : Report(status)  BY <3>2 DEF VersionCheck
      <4> QED  BY <4>3, <4>4 DEF ResultStatuses
    <3>3. CASE ConfigCheck
      <4>1. PICK value \in IF cache[Here] = "empty" THEN Load(Here) ELSE {cache[Here]} :
              Report(Verdict(Here, value))
        BY <3>3 DEF ConfigCheck
      <4>2. phase = "read" /\ Kind = "config"  BY <3>3 DEF ConfigCheck
      <4> QED  BY <4>1, <4>2, AbsentVerdict, VerdictFacts
    <3> QED  BY <1>6, <3>1, <3>2, <3>3
  <2> DEFINE r == [module |-> Here, check |-> ci, status |-> status]
  <2>2. /\ results'[Len(results')] = r /\ Len(results') = Len(results) + 1
        /\ \A k \in DOMAIN results : results'[k] = results[k]
        /\ DOMAIN results' = DOMAIN results \union {Len(results) + 1}
    BY <1>6, <2>1, ReportFacts
  <2>3. r.module = Here /\ r.status = status  OBVIOUS
  <2> HIDE DEF r
  <2>4. \A k \in DOMAIN results' :
          results'[k] = r \/ (k \in DOMAIN results /\ results'[k] = results[k])
    BY ONLY <2>2
  <2>5. ASSUME NEW k \in DOMAIN results', results'[k].module # "sshd",
               NeverThere(results'[k].module)
        PROVE  results'[k].status \in {"info", "not_applicable"}
    <3>1. CASE results'[k] = r  BY <2>1, <2>3, <2>5, <3>1
    <3>2. CASE k \in DOMAIN results /\ results'[k] = results[k]
      BY <2>5, <3>2 DEF Spared
    <3> QED  BY <2>4, <3>1, <3>2
  <2> QED  BY <1>1, <2>5 DEF Spared
<1>7. CASE ListServices \/ DetectModule \/ GoOnToRead \/ Finish
  BY <1>4, <1>5, <1>7 DEF ListServices, DetectModule, GoOnToRead, Finish
<1> QED  BY <1>4, <1>6, <1>7, StepKinds

LEMMA AbsenceInductive == Spec => []AbsenceInv
<1>1. Init => AbsenceInv
  BY VisitedInit, PassedInit, UnreadInit DEF AbsenceInv
<1>2. Inv /\ AbsenceInv /\ [Next]_vars => AbsenceInv'
  BY VisitedStep, PassedStep, UnreadStep, SparedStep DEF AbsenceInv
<1> QED  BY <1>1, <1>2, Inductive, PTL DEF Spec

-----------------------------------------------------------------------------
(* Order: the results are those of the checks that were passed, of the     *)
(* selected modules, in their order.  That the registry names no module    *)
(* twice keeps a check from being passed twice.                            *)
Distinct ==
  \A j, k \in DOMAIN registry : registry[j] = registry[k] => j = k

Upto(n) == IF n = mi THEN ci - 1 ELSE Len(ChecksOf(modules[n].module))

Told ==
  phase # "done" \/ mode # "detect" =>
    /\ \A k \in DOMAIN results : \E n \in DOMAIN modules :
         /\ modules[n].selected /\ results[k].module = modules[n].module
         /\ results[k].check \in 1 .. Upto(n)
    /\ \A n \in DOMAIN modules : \A c \in 1 .. Upto(n) :
         modules[n].selected => \E k \in DOMAIN results :
           results[k].module = modules[n].module /\ results[k].check = c
    /\ \A j, k \in DOMAIN results : j < k /\ results[j].module = results[k].module
         => results[j].check < results[k].check

OrderInv == Visited /\ Distinct /\ Told

LEMMA OrderInit == Init => OrderInv
<1> SUFFICES ASSUME Init PROVE OrderInv  OBVIOUS
<1>1. Distinct  BY AuditAssumption DEF Init, Distinct
<1>2. modules = <<>> /\ results = <<>> /\ DOMAIN <<>> = {}  BY DEF Init
<1>3. Told  BY <1>2 DEF Told
<1> QED  BY <1>1, <1>3, VisitedInit DEF OrderInv

(* After a result, its check is the last one passed; what was passed of    *)
(* the other modules stays.                                                *)
LEMMA UptoAfterReport ==
  ASSUME Inv, Visited, phase \in {"check", "read"}, modules' = modules,
         NEW status \in ResultStatuses, Report(status)
  PROVE  /\ DOMAIN modules = 1 .. mi /\ mi \in Nat /\ mi >= 1
         /\ modules[mi].module = Here /\ modules[mi].selected
         /\ Upto(mi) = ci - 1 /\ ci \in Nat /\ ci >= 1
         /\ \A n \in 1 .. mi : Upto(n)' = IF n = mi THEN ci ELSE Upto(n)
<1>1. mi \in 1 .. Len(registry) /\ ci \in 1 .. Len(ChecksOf(Here)) /\ Len(registry) \in Nat
  BY HereFacts
<1>2. Len(ChecksOf(Here)) \in Nat  BY ChecksFacts
<1>3. DOMAIN modules = 1 .. mi  BY <1>1 DEF Visited
<1>4. modules[mi].module = Here /\ modules[mi].selected
  BY <1>1, <1>3 DEF Visited, Here
<1>5. \/ ci < Len(ChecksOf(Here)) /\ ci' = ci + 1 /\ mi' = mi
      \/ ci = Len(ChecksOf(Here)) /\ mi' = mi + 1
  BY <1>1, <1>2 DEF Report
<1>6. ASSUME NEW n \in 1 .. mi, n = mi
      PROVE  Upto(n)' = ci
  <2>1. n = mi' => ci' - 1 = ci
    <3>1. mi \in Int /\ ci \in Int  BY <1>1, <1>2
    <3>3. mi # mi + 1  BY <3>1
    <3>4. mi' = mi => ci' = ci + 1  BY ONLY <1>5, <3>3
    <3>2. n = mi' => ci' = ci + 1  BY ONLY <1>6, <3>4
    <3> QED  BY <3>1, <3>2
  <2>2. n # mi' => Len(ChecksOf(modules'[n].module)) = ci  BY <1>1, <1>4, <1>5, <1>6
  <2> QED  BY <2>1, <2>2 DEF Upto
<1>7. ASSUME NEW n \in 1 .. mi, n # mi
      PROVE  Upto(n)' = Upto(n)
  <2>1. n # mi'  BY <1>1, <1>5, <1>7
  <2>2. UNCHANGED modules  OBVIOUS
  <2> QED  BY <1>7, <2>1, <2>2 DEF Upto
<1> QED  BY <1>1, <1>2, <1>3, <1>4, <1>6, <1>7 DEF Upto

LEMMA ToldAfterReport ==
  ASSUME Inv, OrderInv, phase \in {"check", "read"}, modules' = modules, mode' = mode,
         NEW status \in ResultStatuses, Report(status)
  PROVE  Told'
<1> DEFINE r == [module |-> Here, check |-> ci, status |-> status]
           last == Len(results) + 1
<1>1. r.module = Here /\ r.check = ci  OBVIOUS
<1>2. /\ results'[last] = r /\ last \in Nat \ {0} /\ DOMAIN results = 1 .. last - 1
      /\ \A k \in DOMAIN results : results'[k] = results[k]
      /\ DOMAIN results' = 1 .. last
  <2>1. /\ results \in Seq(ResultRecords) /\ Len(results') = Len(results) + 1
        /\ results' \in Seq(ResultRecords)
        /\ results'[Len(results')] = r
        /\ \A k \in DOMAIN results : results'[k] = results[k]
    BY ReportFacts, AppendProperties
  <2> QED  BY <2>1
<1> HIDE DEF r, last
<1>3. /\ DOMAIN modules = 1 .. mi /\ mi \in Nat /\ mi >= 1
      /\ modules[mi].module = Here /\ modules[mi].selected
      /\ Upto(mi) = ci - 1 /\ ci \in Nat /\ ci >= 1
      /\ \A n \in 1 .. mi : Upto(n)' = IF n = mi THEN ci ELSE Upto(n)
  BY UptoAfterReport DEF OrderInv
<1>4. Told /\ phase # "done"  BY DEF OrderInv
<1>5. \A n \in 1 .. mi : 1 .. Upto(n) \subseteq 1 .. Upto(n)'
  <2>1. 1 .. ci - 1 \subseteq 1 .. ci  BY <1>3
  <2> QED  BY <1>3, <2>1
<1>6. ASSUME NEW k \in DOMAIN results'
      PROVE  \E n \in DOMAIN modules :
               /\ modules[n].selected /\ results'[k].module = modules[n].module
               /\ results'[k].check \in 1 .. Upto(n)'
  <2>1. CASE k = last  BY <1>1, <1>2, <1>3, <2>1
  <2>2. CASE k # last
    <3>1. k \in DOMAIN results  BY <1>2, <2>2
    <3> QED  BY <1>2, <1>3, <1>4, <1>5, <3>1 DEF Told
  <2> QED  BY <2>1, <2>2
<1>7. ASSUME NEW n \in DOMAIN modules, NEW c \in 1 .. Upto(n)', modules[n].selected
      PROVE  \E k \in DOMAIN results' :
               results'[k].module = modules[n].module /\ results'[k].check = c
  <2>1. CASE n = mi /\ c = ci
    <3>1. last \in 1 .. last  BY <1>2
    <3>2. last \in DOMAIN results'  BY <1>2, <3>1
    <3> QED  BY <1>1, <1>2, <1>3, <2>1, <3>2
  <2>2. CASE ~ (n = mi /\ c = ci)
    <3>1. c \in 1 .. Upto(n)  BY <1>3, <2>2
    <3>2. PICK k \in DOMAIN results : results[k].module = modules[n].module /\ results[k].check = c
      BY <1>4, <1>7, <3>1 DEF Told
    <3>3. k \in DOMAIN results'  BY <1>2
    <3> QED  BY <1>2, <3>2, <3>3
  <2> QED  BY <2>1, <2>2
<1>8. ASSUME NEW j \in DOMAIN results', NEW k \in DOMAIN results', j < k,
             results'[j].module = results'[k].module
      PROVE  results'[j].check < results'[k].check
  <2>1. j \in DOMAIN results  BY <1>2, <1>8
  <2>2. CASE k = last
    <3>1. results[j].module = Here  BY <1>1, <1>2, <1>8, <2>1, <2>2
    <3>2. PICK n \in DOMAIN modules : /\ modules[n].module = Here
                                      /\ results[j].check \in 1 .. Upto(n)
      BY <1>4, <2>1, <3>1 DEF Told
    <3>3. n = mi
      <4>1. registry[n] = registry[mi]
        BY <1>3, <3>2 DEF OrderInv, Visited, Here
      <4>2. n \in DOMAIN registry /\ mi \in DOMAIN registry
        <5>1. mi \in 1 .. Len(registry) /\ DOMAIN registry = 1 .. Len(registry)
          BY HereFacts DEF Inv, Places
        <5>2. n \in 1 .. mi /\ Len(registry) \in Nat  BY <1>3, HereFacts
        <5> QED  BY <5>1, <5>2
      <4> QED  BY <4>1, <4>2 DEF OrderInv, Distinct
    <3>4. results[j].check \in 1 .. ci - 1  BY <1>3, <3>2, <3>3
    <3> QED  BY <1>1, <1>2, <1>3, <2>1, <2>2, <3>4
  <2>3. CASE k # last
    <3>1. k \in DOMAIN results  BY <1>2, <2>3
    <3> QED  BY <1>2, <1>4, <1>8, <2>1, <3>1 DEF Told
  <2> QED  BY <2>2, <2>3
<1> QED  BY <1>6, <1>7, <1>8 DEF Told

LEMMA ToldAfterDetect ==
  ASSUME Inv, OrderInv, DetectModule
  PROVE  Told'
<1>1. PICK r \in ModuleRecords :
        /\ modules' = Append(modules, r)
        /\ phase = "module" /\ mi \in 1 .. Len(registry)
        /\ \/ r.selected /\ phase' = "check" /\ mi' = mi
           \/ ~ r.selected /\ phase' = "module" /\ mi' = mi + 1
  BY DetectFacts
<1>2. ci' = 1 /\ results' = results /\ mode' = mode  BY DEF DetectModule
<1>3. modules \in Seq(ModuleRecords) /\ Len(modules) = mi - 1 /\ mi \in Nat /\ mi >= 1
  BY <1>1 DEF OrderInv, Visited, Inv, Places
<1>4. /\ DOMAIN modules = 1 .. mi - 1 /\ DOMAIN modules' = 1 .. mi
      /\ \A n \in 1 .. mi - 1 : modules'[n] = modules[n]
      /\ modules'[mi] = r
  BY <1>1, <1>3, AppendProperties
<1>5. \A n \in 1 .. mi - 1 : Upto(n)' = Upto(n) /\ n \in DOMAIN modules'
  BY <1>1, <1>3, <1>4 DEF Upto
<1>6. \A n \in 1 .. mi : n = mi /\ r.selected => Upto(n)' = 0
  BY <1>1, <1>2 DEF Upto
<1>7. Told /\ phase # "done"  BY <1>1 DEF OrderInv
<1>8. \A k \in DOMAIN results' : \E n \in DOMAIN modules' :
        /\ modules'[n].selected /\ results'[k].module = modules'[n].module
        /\ results'[k].check \in 1 .. Upto(n)'
  BY <1>2, <1>4, <1>5, <1>7 DEF Told
<1>9. ASSUME NEW n \in DOMAIN modules', NEW c \in 1 .. Upto(n)', modules'[n].selected
      PROVE  \E k \in DOMAIN results' :
               results'[k].module = modules'[n].module /\ results'[k].check = c
  <2>1. n # mi  BY <1>4, <1>6, <1>9
  <2>2. n \in 1 .. mi - 1  BY <1>3, <1>4, <2>1
  <2> QED  BY <1>2, <1>4, <1>5, <1>7, <1>9, <2>2 DEF Told
<1> QED  BY <1>2, <1>7, <1>8, <1>9 DEF Told

LEMMA OrderStep ==
  ASSUME Inv, OrderInv, [Next]_vars
  PROVE  OrderInv'
<1>1. Visited'  BY VisitedStep DEF OrderInv
<1>2. Distinct'  BY PastGrows DEF OrderInv, Distinct
<1>3. Told'
  <2>1. CASE /\ phase \in {"check", "read"} /\ UNCHANGED <<mode, modules>>
             /\ \E status \in ResultStatuses : Report(status)
    BY <2>1, ToldAfterReport
  <2>2. CASE DetectModule
    BY <2>2, ToldAfterDetect
  <2>3. CASE ListServices \/ GoOnToRead
    <3>1. /\ UNCHANGED <<mode, modules, results, mi, ci>> /\ phase # "done"
      BY <2>3 DEF ListServices, GoOnToRead
    <3>2. \A n : Upto(n)' = Upto(n)  BY <3>1 DEF Upto
    <3> QED  BY <3>1, <3>2 DEF OrderInv, Told
  <2>4. CASE Finish
    <3>1. /\ UNCHANGED <<mode, modules, mi, ci>> /\ phase # "done"
          /\ mode # "detect" => results' = results
          /\ phase' = "done"
      BY <2>4 DEF Finish
    <3>2. \A n : Upto(n)' = Upto(n)  BY <3>1 DEF Upto
    <3>3. Told  BY DEF OrderInv
    <3>4. CASE mode = "detect"  BY <3>1, <3>4 DEF Told
    <3>5. CASE mode # "detect"
      <4>1. results' = results  BY <3>1, <3>5
      <4> QED  BY <3>1, <3>2, <3>3, <4>1 DEF Told
    <3> QED  BY <3>4, <3>5
  <2>5. CASE UNCHANGED <<mode, modules, results, phase, mi, ci>>
    <3>1. \A n : Upto(n)' = Upto(n)  BY <2>5 DEF Upto
    <3> QED  BY <2>5, <3>1 DEF OrderInv, Told
  <2> QED  BY <2>1, <2>2, <2>3, <2>4, <2>5, StepKinds
<1> QED  BY <1>1, <1>2, <1>3 DEF OrderInv

LEMMA OrderInductive == Spec => []OrderInv
<1> QED  BY OrderInit, OrderStep, Inductive, PTL DEF Spec

-----------------------------------------------------------------------------
(* Every variable keeps its range (audit.go:92-148).                       *)
THEOREM TypeCorrect == Spec => []TypeOK
<1>1. Inv => TypeOK  BY DEF Inv
<1> QED  BY <1>1, Inductive, PTL

(* No failure, no missing file, no deadline turns into a pass              *)
(* (ssh/module.go:131, nginx/module.go:478, redis/module.go:477-500).      *)
THEOREM PassesAreEarned == Spec => []PassIsEarned
<1>1. ASSUME Inv PROVE PassIsEarned
  <2> SUFFICES ASSUME NEW k \in DOMAIN results, results[k].status = "pass",
                      results[k].module # "mysql"
               PROVE  \E h \in past : h[results[k].module].conf = "good"
    BY DEF PassIsEarned
  <2>1. Justified(results[k], cache) /\ results[k].module \in DOMAIN host
    BY <1>1 DEF Inv, AllJustified
  <2>2. Verdict(results[k].module, cache[results[k].module]) = "pass"
    BY <2>1 DEF Justified
  <2>3. cache[results[k].module] = "good"  BY <2>2, VerdictFacts
  <2> QED  BY <1>1, <2>1, <2>3 DEF Inv, CacheEarned
<1> QED  BY <1>1, Inductive, PTL

(* The verdicts of a module derive from one reading (ssh/module.go:50,     *)
(* nginx/module.go:452, redis/module.go:438, mysql/module.go:812).         *)
THEOREM VerdictsDoAgree == Spec => []VerdictsAgree
<1>1. ASSUME Inv PROVE VerdictsAgree
  <2>1. \A k \in DOMAIN results : Justified(results[k], cache)
    BY <1>1 DEF Inv, AllJustified
  <2> QED  BY <2>1 DEF VerdictsAgree, Justified
<1> QED  BY <1>1, Inductive, PTL

(* What never was on the host is not judged, whatever the flags            *)
(* (nginx/module.go:467, redis/module.go:468, mysql/module.go:845).        *)
THEOREM AbsentNeverJudged == Spec => []AbsentNotJudged
<1>1. ASSUME AbsenceInv PROVE AbsentNotJudged
  BY <1>1 DEF AbsenceInv, Spared, NeverThere, AbsentNotJudged
<1> QED  BY <1>1, AbsenceInductive, PTL

(* A service that ran all the time is audited, or the report says why not  *)
(* (audit.go:94-117).                                                      *)
THEOREM AbsenceIsExplained == Spec => []AbsenceExplained
<1>1. ASSUME AbsenceInv PROVE AbsenceExplained
  BY <1>1 DEF AbsenceInv, Passed, AlwaysUp, AbsenceExplained
<1> QED  BY <1>1, AbsenceInductive, PTL

(* One entry for every module in the registry's order, one result for      *)
(* every check of the selected ones, in order and none twice               *)
(* (audit.go:126-144).                                                     *)
THEOREM OneResultForEachCheck == Spec => []OneResultPerCheck
<1>1. ASSUME Inv, OrderInv PROVE OneResultPerCheck
  <2>1. \A k \in DOMAIN modules : modules[k].module = registry[k]
    BY <1>1 DEF OrderInv, Visited
  <2> SUFFICES ASSUME phase # "done" \/ mode # "detect"
               PROVE  /\ {<<results[k].module, results[k].check>> : k \in DOMAIN results}
                           = UNION {Expected(k) : k \in DOMAIN modules}
                      /\ phase = "done" => Len(modules) = Len(registry)
    BY <1>1, <2>1 DEF OneResultPerCheck, OrderInv, Told
  <2>2. phase = "done" => Len(modules) = Len(registry)
    BY <1>1 DEF OrderInv, Visited, Inv, TypeOK, Places
  <2>3. \A n \in DOMAIN modules :
          Expected(n) = IF modules[n].selected
                        THEN {<<modules[n].module, c>> : c \in 1 .. Upto(n)} ELSE {}
    BY DEF Expected, Upto
  <2>4. ASSUME NEW k \in DOMAIN results
        PROVE  \E n \in DOMAIN modules : <<results[k].module, results[k].check>> \in Expected(n)
    BY <1>1, <2>3 DEF OrderInv, Told
  <2>5. ASSUME NEW n \in DOMAIN modules, NEW p \in Expected(n)
        PROVE  \E k \in DOMAIN results : p = <<results[k].module, results[k].check>>
    <3>1. modules[n].selected  BY <2>3
    <3>2. PICK c \in 1 .. Upto(n) : p = <<modules[n].module, c>>  BY <2>3, <3>1
    <3> QED  BY <1>1, <3>1, <3>2 DEF OrderInv, Told
  <2> QED  BY <2>2, <2>4, <2>5
<1> QED  BY <1>1, Inductive, OrderInductive, PTL

(* Past the deadline a command yields no new verdict: what passes or warns *)
(* then was read in time (execx/runner.go:16).                             *)
THEOREM LateVerdictsRepeat == Spec => LateVerdictsAreOld
<1> DEFINE Late == ~ alive /\ Len(results') > Len(results) =>
                     LET r == results'[Len(results')]
                     IN  r.module \in {"sshd", "nginx"} /\ r.status \in {"pass", "warn"}
                           => cache[r.module] \in {"good", "bad", "none"}
<1>1. ASSUME Inv, [Next]_vars PROVE [Late]_vars
  <2> SUFFICES ASSUME ~ alive, Len(results') > Len(results),
                      results'[Len(results')].module \in {"sshd", "nginx"},
                      results'[Len(results')].status \in {"pass", "warn"}
               PROVE  cache[results'[Len(results')].module] \in {"good", "bad", "none"}
    OBVIOUS
  <2>0. Len(results) \in Nat  BY <1>1 DEF Inv, Recorded
  <2>1. CASE ConfigCheck
    <3>1. PICK value \in IF cache[Here] = "empty" THEN Load(Here) ELSE {cache[Here]} :
            Report(Verdict(Here, value))
      BY <2>1 DEF ConfigCheck
    <3>2. phase = "read"  BY <2>1 DEF ConfigCheck
    <3>3. results'[Len(results')] = [module |-> Here, check |-> ci,
                                     status |-> Verdict(Here, value)]
      BY <1>1, <3>1, <3>2, ReportFacts, VerdictFacts
    <3>4. Here \in {"sshd", "nginx"} /\ Verdict(Here, value) \in {"pass", "warn"}
          /\ results'[Len(results')].module = Here
      BY <3>3
    <3>5. value \in {"good", "bad", "none"}
      BY <3>4 DEF Verdict
    <3>6. CASE cache[Here] = "empty"
      <4>1. value = "error"  BY <3>1, <3>4, <3>6 DEF Load, CommandRead
      <4> QED  BY <3>5, <4>1
    <3>7. CASE cache[Here] # "empty"  BY <3>1, <3>4, <3>5, <3>7
    <3> QED  BY <3>6, <3>7
  <2>2. CASE InventoryCheck \/ SkipUndetected \/ VersionCheck
    <3>1. PICK status \in {"info", "error", "not_applicable"} :
            Report(status) /\ phase \in {"check", "read"}
      BY <2>2 DEF InventoryCheck, SkipUndetected, VersionCheck
    <3>2. results'[Len(results')] = [module |-> Here, check |-> ci, status |-> status]
      BY <1>1, <3>1, ReportFacts DEF ResultStatuses
    <3> QED  BY <3>2
  <2>3. CASE results' = results \/ results' = <<>>
    <3>1. Len(<<>>) = 0  OBVIOUS
    <3> QED  BY <2>0, <2>3, <3>1
  <2>4. CASE ListServices \/ DetectModule \/ GoOnToRead \/ Finish
    BY <2>3, <2>4 DEF ListServices, DetectModule, GoOnToRead, Finish
  <2> QED  BY <1>1, <2>1, <2>2, <2>3, <2>4, StepKinds
<1> QED  BY <1>1, Inductive, PTL DEF Spec, LateVerdictsAreOld
=============================================================================
