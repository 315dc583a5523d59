------------------------------- MODULE Compare -------------------------------
(***************************************************************************)
(* `secscan compare` (internal/report/comparereport): what changed between *)
(* an earlier report of a host and a later one.  The host is audited again *)
(* and again; each new report is compared with the one before it, and a    *)
(* reader who never sees the reports themselves keeps a list of open       *)
(* issues by following the comparisons.                                    *)
(*                                                                         *)
(* A result is [id, module, severity, status, evidence]; ids are numbers,  *)
(* for the order sort.Slice gives the strings, and 0 is the empty id.      *)
(***************************************************************************)
EXTENDS Scoring

CONSTANTS
  Ids,         \* the ids of checks, numbers from 1 on
  Ratings,     \* what a check may say: [severity, status, evidence]
  ModuleOf,    \* the module a check belongs to
  MaxAudits    \* bound on the number of comparisons

ASSUME CompareAssumption ==
  /\ Ids \subseteq Nat \ {0} /\ IsFiniteSet(Ids) /\ MaxAudits \in Nat
  /\ DOMAIN ModuleOf = Ids \union {0}

VARIABLES
  previous, current,  \* the Results of the two reports, prepared
  comparison,         \* the comparereport.Report last rendered
  ledger,             \* the issues the reader believes to be open
  audits

vars == <<previous, current, comparison, ledger, audits>>

IsIssue(status)   == status \in {"fail", "warn", "error"}
IsFinding(status) == IsIssue(status) \/ status = "pass"

(* A report is a list of results in the order the checks ran; an audit     *)
(* runs every check once, so no id but the empty one comes twice.          *)
Reports ==
  LET Result == {[id |-> i, module |-> ModuleOf[i], severity |-> r.severity,
                  status |-> r.status, evidence |-> r.evidence] :
                    i \in Ids \union {0}, r \in Ratings}
      distinct(s) == \A j, k \in DOMAIN s : s[j].id = s[k].id => j = k \/ s[j].id = 0
  IN  {s \in UNION {[1 .. n -> Result] : n \in 0 .. Cardinality(Ids)} : distinct(s)}

(* resultMap: by id, the last one wins.                                    *)
ResultMap(results) ==
  [id \in {results[k].id : k \in DOMAIN results} \ {0} |->
     results[CHOOSE k \in DOMAIN results :
               /\ results[k].id = id
               /\ \A j \in DOMAIN results : results[j].id = id => j <= k]]

IssueRank(status) ==
  CASE status = "fail"  -> 4
    [] status = "warn"  -> 3
    [] status = "error" -> 2
    [] status = "pass"  -> 1
    [] OTHER            -> 0

(* Severity first, then status, then the id, ascending.                    *)
CompareKey(r) ==
  (5 * SeverityRank(r.severity) + IssueRank(r.status)) * (Cardinality(Ids) + 1) - r.id

(* A mutant of OnlyIn: errors are not listed.                              *)
RisksOnlyIn(results, others) ==
  StableSort(Chosen(results, LAMBDA r : /\ r.id # 0 /\ IsRisk(r)
                                           /\ r.id \notin DOMAIN others),
             CompareKey)

(* The issues of one report whose check the other report does not name.    *)
OnlyIn(results, others) ==
  StableSort(Chosen(results, LAMBDA r : /\ r.id # 0 /\ IsIssue(r.status)
                                           /\ r.id \notin DOMAIN others),
             CompareKey)

(* Mutants of Differs: only the later side asked; the severity forgotten.  *)
DiffersNow(old, r) ==
  /\ r.id \in DOMAIN old /\ IsFinding(r.status)
  /\ <<old[r.id].status, old[r.id].severity, old[r.id].evidence>>
       # <<r.status, r.severity, r.evidence>>
DiffersInStatus(old, r) ==
  /\ r.id \in DOMAIN old
  /\ IsFinding(old[r.id].status) \/ IsFinding(r.status)
  /\ <<old[r.id].status, old[r.id].evidence>> # <<r.status, r.evidence>>

(* The checks both reports name, one side at least a finding, that differ  *)
(* in status, severity or evidence.                                        *)
Differs(old, r) ==
  /\ r.id \in DOMAIN old
  /\ IsFinding(old[r.id].status) \/ IsFinding(r.status)
  /\ <<old[r.id].status, old[r.id].severity, old[r.id].evidence>>
       # <<r.status, r.severity, r.evidence>>

Changed(old, results) ==
  LET sorted == StableSort(Chosen(results, LAMBDA r : Differs(old, r)), CompareKey)
  IN  [k \in DOMAIN sorted |-> [id |-> sorted[k].id, previous |-> old[sorted[k].id],
                                current |-> sorted[k]]]

(* mapDelta over the severity counts.                                      *)
CountDelta(old, new, Counts(_, _)) ==
  [s \in Severities |-> Cardinality({k \in DOMAIN new : Counts(s, new[k])})
                          - Cardinality({k \in DOMAIN old : Counts(s, old[k])})]

(* compareModules: a row for every module either summary has; one that is  *)
(* missing on a side counts zero there.                                    *)
ModuleDeltas(old, new) ==
  LET named == {old[k].module : k \in DOMAIN old} \union {new[k].module : k \in DOMAIN new}
  IN  [m \in named \ {""} |->
         [f \in {"fail", "warn", "pass"} |->
            ModuleRow(m, new)[f] - ModuleRow(m, old)[f]]]

CompareReports(old, new) ==
  [scoreDelta |-> CalculateScore(new) - CalculateScore(old),
   severityCountsDelta |-> CountDelta(old, new, LAMBDA s, r : r.severity = s),
   severityIssuesDelta |-> CountDelta(old, new, LAMBDA s, r : r.severity = s /\ IsRisk(r)),
   moduleDelta |-> ModuleDeltas(old, new),
   new      |-> OnlyIn(new, ResultMap(old)),
   resolved |-> OnlyIn(old, ResultMap(new)),
   changed  |-> Changed(ResultMap(old), new)]

-----------------------------------------------------------------------------
OpenIssues(results) ==
  {results[k].id : k \in {k \in DOMAIN results : IsIssue(results[k].status)}} \ {0}

Init ==
  /\ previous = <<>>
  /\ current = <<>>
  /\ comparison = CompareReports(<<>>, <<>>)
  /\ ledger = {}
  /\ audits = 0

(* The reader strikes what was resolved, adds what is new, and follows     *)
(* each change to the status it now has.                                   *)
Follow(open, c) ==
  LET ids(list) == {list[k].id : k \in DOMAIN list}
      still == {c.changed[k].id : k \in {k \in DOMAIN c.changed :
                                           IsIssue(c.changed[k].current.status)}}
  IN  ((open \ ids(c.resolved)) \ ids(c.changed)) \union ids(c.new) \union still

(* The host is audited anew and the two reports compared.                  *)
CompareNext ==
  /\ audits < MaxAudits
  /\ previous' = current
  /\ current' \in Reports
  /\ comparison' = CompareReports(previous', current')
  /\ ledger' = Follow(ledger, comparison')
  /\ audits' = audits + 1

Next == CompareNext

Spec == Init /\ [][Next]_vars

-----------------------------------------------------------------------------
(* Properties *)

(* Nothing escapes the three lists: a reader who follows them alone knows  *)
(* the open issues exactly, whether an issue appears with its check,       *)
(* vanishes with it, or comes and goes under the same check                *)
(* (comparereport.go:70-108).                                              *)
LedgerExact == ledger = OpenIssues(current)

(* Comparing the reports the other way round tells the same story          *)
(* backwards: new and resolved issues trade places, the same checks have   *)
(* changed, every difference has the other sign.                           *)
MirrorImage ==
  LET back == CompareReports(current, previous)
      ids(list) == {list[k].id : k \in DOMAIN list}
  IN  /\ back.new = comparison.resolved /\ back.resolved = comparison.new
      /\ ids(back.changed) = ids(comparison.changed)
      /\ back.scoreDelta = - comparison.scoreDelta
      /\ \A s \in Severities :
           back.severityIssuesDelta[s] = - comparison.severityIssuesDelta[s]
      /\ \A m \in DOMAIN comparison.moduleDelta, f \in {"fail", "warn", "pass"} :
           back.moduleDelta[m][f] = - comparison.moduleDelta[m][f]

(* A comparison that lists nothing hides nothing: the score and the number *)
(* of issues of every severity are then the same (for results that have an *)
(* id; one without is never listed).                                       *)
SilenceMeansSame ==
  /\ comparison.new = <<>> /\ comparison.resolved = <<>> /\ comparison.changed = <<>>
  /\ \A r \in ToSet(previous) \union ToSet(current) : r.id # 0
  => /\ comparison.scoreDelta = 0
     /\ \A s \in Severities : comparison.severityIssuesDelta[s] = 0
=============================================================================
