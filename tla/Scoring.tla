------------------------------- MODULE Scoring -------------------------------
(***************************************************************************)
(* The pure part of internal/audit/scoring.go: what one result costs, how  *)
(* findings are ranked and ordered, and the per-module rows of a report.   *)
(* Nothing here is recursive, so that theorems can be stated about it.     *)
(***************************************************************************)
EXTENDS Checks

FailPenalty(severity) ==
  CASE severity = "critical" -> 25
    [] severity = "high"     -> 15
    [] severity = "medium"   -> 7
    [] severity = "low"      -> 3
    [] OTHER                 -> 0

WarnPenalty(severity) ==
  CASE severity = "critical" -> 10
    [] severity = "high"     -> 6
    [] severity = "medium"   -> 3
    [] severity = "low"      -> 1
    [] OTHER                 -> 0

ErrorPenalty(severity) == IF severity \in {"high", "critical"} THEN 5 ELSE 2

ScorePenalty(r) ==
  CASE r.status = "fail"  -> FailPenalty(r.severity)
    [] r.status = "warn"  -> WarnPenalty(r.severity)
    [] r.status = "error" -> ErrorPenalty(r.severity)
    [] OTHER              -> 0

IsHighWarn(r) == r.status = "warn" /\ r.severity \in {"high", "critical"}

(* A mutant of CappedScore: only failures cap the score.                   *)
CapOnFail(penalty, hasFail, hasHighWarn) ==
  LET score == 100 - penalty
  IN  IF hasFail /\ score > 90 THEN 90 ELSE IF score < 0 THEN 0 ELSE score

(* The end of calculateScore.  Every penalty is a whole number, so the     *)
(* rounding of 100 - penalty is the identity.                              *)
CappedScore(penalty, hasFail, hasHighWarn) ==
  LET score  == 100 - penalty
      capped == IF (hasFail \/ hasHighWarn) /\ score > 90 THEN 90 ELSE score
  IN  IF capped < 0 THEN 0 ELSE IF capped > 100 THEN 100 ELSE capped

(* calculateScore as a whole, for the modules that need only its result.   *)
CalculateScore(results) ==
  CappedScore(Total([k \in DOMAIN results |-> ScorePenalty(results[k])]),
              \E k \in DOMAIN results : results[k].status = "fail",
              \E k \in DOMAIN results : IsHighWarn(results[k]))

RiskGrade(score) ==
  CASE score >= 90      -> "A"
    [] score \in 80 .. 89 -> "B"
    [] score \in 70 .. 79 -> "C"
    [] score \in 50 .. 69 -> "D"
    [] OTHER            -> "F"

SeverityRank(severity) ==
  CASE severity = "critical" -> 5
    [] severity = "high"     -> 4
    [] severity = "medium"   -> 3
    [] severity = "low"      -> 2
    [] severity = "info"     -> 1
    [] OTHER                 -> 0

StatusRank(status) ==
  CASE status = "fail" -> 3
    [] status = "warn" -> 2
    [] OTHER           -> 1

(* The two orders as one number each: severity before status for the       *)
(* client, status before severity for the administrator.                   *)
ClientKey(r) == 4 * SeverityRank(r.severity) + StatusRank(r.status)
AdminKey(r)  == 6 * StatusRank(r.status) + SeverityRank(r.severity)

SortByStatus(s)      == StableSort(s, AdminKey)  \* mutant: the other order
SortFindings(s)      == StableSort(s, ClientKey)
SortAdminFindings(s) == StableSort(s, AdminKey)

(* A mutant of TopFindings: cut to the limit before they are sorted.       *)
FirstFindings(results, limit) ==
  LET findings == Chosen(results, IsRisk)
  IN  SortFindings(SubSeq(findings, 1, IF Len(findings) > limit THEN limit
                                                                ELSE Len(findings)))

TopFindings(results, limit) ==
  LET findings == SortFindings(Chosen(results, IsRisk))
  IN  SubSeq(findings, 1, IF Len(findings) > limit THEN limit ELSE Len(findings))

(* A mutant of ModuleRow: hidden results are not counted.                  *)
VisibleRow(id, results) ==
  LET count(status) == Cardinality({k \in DOMAIN results :
                         /\ results[k].module = id /\ results[k].status = status
                         /\ ~ results[k].hidden})
  IN  [module |-> id, fail |-> count("fail"), warn |-> count("warn"),
       pass |-> count("pass")]

(* moduleSummary: a row for every module of the report, in its order, then *)
(* one for every module only its results name; an empty id has no row.     *)
ModuleRow(id, results) ==
  LET count(status) == Cardinality({k \in DOMAIN results :
                         results[k].module = id /\ results[k].status = status})
  IN  [module |-> id, fail |-> count("fail"), warn |-> count("warn"),
       pass |-> count("pass")]

ModuleSummary(modules, results) ==
  LET named == Chosen(modules \o [k \in DOMAIN results |-> results[k].module],
                         LAMBDA id : id # "")
      isNew(k) == \A j \in 1 .. k - 1 : named[j] # named[k]
      first == InOrder({k \in DOMAIN named : isNew(k)})
  IN  [n \in DOMAIN first |-> ModuleRow(named[first[n]], results)]
=============================================================================
