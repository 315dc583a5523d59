------------------------------- MODULE Prepare -------------------------------
(***************************************************************************)
(* PrepareReport (internal/audit/scoring.go): from the raw results of an   *)
(* audit, the tallies, the findings lists, the module rows, the score and  *)
(* the grade.  It runs once at the end of the audit and again in front of  *)
(* every renderer, on a report that was meanwhile read back from a JSON    *)
(* file: its derived fields then hold whatever the file said.              *)
(*                                                                         *)
(* The two loops over the results are modelled one result at a time; the   *)
(* variables penalty, hasFail and hasHighWarn are the locals of            *)
(* calculateScore.                                                         *)
(***************************************************************************)
EXTENDS Scoring

CONSTANTS
  Results,     \* the results a report may hold
  MaxResults,  \* bound on their number
  ModuleIds,   \* the ids a report's module list may hold
  MaxModules,  \* bound on the length of that list
  TopLimit,    \* how many top findings are kept (10 in the code)
  MaxPasses    \* bound on how often one report is prepared

ASSUME ResultsAssumption ==
  \A r \in Results : r.status \in StatusValues /\ r.severity \in SeverityValues
                     /\ r.hidden \in BOOLEAN /\ r.module \in ModuleIds \union {""}
                     /\ r.steps \in Seq(STRING) /\ r.refs \in Seq(STRING)
ASSUME BoundsAssumption == /\ MaxResults \in Nat /\ MaxModules \in Nat
                           /\ TopLimit \in Nat /\ MaxPasses \in Nat

VARIABLES
  results,         \* report.Results
  modules,         \* the ids of report.Modules
  invModules,      \* report.Inventory.Modules
  summary, severityCounts, severityIssues,
  topFindings, clientFindings, adminFindings, moduleSummary,
  score, riskGrade,
  phase,           \* where PrepareReport stands
  i,               \* the index of the loop that runs
  penalty, hasFail, hasHighWarn,
  passes           \* how often this report was prepared before

report  == <<results, modules, invModules>>
tallies == <<summary, severityCounts, severityIssues>>
lists   == <<topFindings, clientFindings, adminFindings, moduleSummary>>
grading == <<score, riskGrade>>
locals  == <<penalty, hasFail, hasHighWarn>>
vars    == <<report, tallies, lists, grading, phase, i, locals, passes>>

ReportsOf(S) == UNION {[1 .. n -> S] : n \in 0 .. MaxResults}

(* The keys of the maps: a missing key counts 0.  Summary grows a key for  *)
(* a status it does not know, the severity maps do not.                    *)
CountedSeverities == Severities
IssueSeverities   == Severities \ {"info"}

Bump(map, key) == [map EXCEPT ![key] = @ + 1]

(* A fresh report holds zero values and a module for each entry of the     *)
(* registry; one read from a file holds anything, here the tallies of      *)
(* another report, findings that are not its own, and modules that repeat  *)
(* or have no id.                                                          *)
Init ==
  /\ results \in ReportsOf(Results)
  /\ modules \in UNION {[1 .. n -> ModuleIds] : n \in 0 .. MaxModules}
  /\ invModules = <<>>
  /\ \E stale \in BOOLEAN :
       LET left == IF stale THEN 7 ELSE 0
       IN  /\ summary = [s \in StatusValues |-> left]
           /\ severityCounts = [s \in CountedSeverities |-> left]
           /\ severityIssues = [s \in IssueSeverities |-> left]
           /\ clientFindings = IF stale THEN results ELSE <<>>
           /\ score = left
  /\ adminFindings = clientFindings
  /\ topFindings = clientFindings
  /\ moduleSummary = <<>>
  /\ riskGrade = ""
  /\ phase = "reset"
  /\ i = 1
  /\ penalty = 0 /\ hasFail = FALSE /\ hasHighWarn = FALSE
  /\ passes = 0

(* emptySummary, emptySeverityCounts, emptySeverityIssues: all keys at 0.  *)
StaleMap(map) == map  \* mutant: what the report held is kept
EmptyMap(map) == [key \in DOMAIN map |-> 0]

(* Everything derived is dropped; the inventory takes the module list when *)
(* it has none.                                                            *)
Reset ==
  /\ phase = "reset"
  /\ summary' = EmptyMap(summary)
  /\ severityCounts' = EmptyMap(severityCounts)
  /\ severityIssues' = EmptyMap(severityIssues)
  /\ topFindings' = <<>> /\ clientFindings' = <<>>
  /\ adminFindings' = <<>> /\ moduleSummary' = <<>>
  /\ invModules' = IF invModules = <<>> THEN modules ELSE invModules
  /\ i' = 1
  /\ phase' = "tally"
  /\ UNCHANGED <<results, modules, grading, locals, passes>>

(* A mutant of CountRated: a severity nobody knows becomes a key.          *)
CountAny(map, r) ==
  [s \in DOMAIN map \union {r.severity} |->
     (IF s \in DOMAIN map THEN map[s] ELSE 0) + (IF s = r.severity THEN 1 ELSE 0)]

(* One turn of the loop: the result is normalised in place, counted under  *)
(* its status and severity, and listed.                                    *)
CountRated(map, r) ==
  IF r.severity \in DOMAIN map THEN Bump(map, r.severity) ELSE map

Tally ==
  /\ phase = "tally" /\ i <= Len(results)
  /\ LET r == Normalize(results[i])
     IN  /\ results' = [results EXCEPT ![i] = r]
         /\ summary' = Bump(summary, r.status)
         /\ severityCounts' = CountRated(severityCounts, r)
         /\ severityIssues' = IF IsRisk(r) THEN CountRated(severityIssues, r)
                                           ELSE severityIssues
         /\ clientFindings' = IF IsRisk(r) /\ ~ r.hidden
                              THEN Append(clientFindings, r) ELSE clientFindings
         /\ adminFindings' = IF IsAdminFinding(r) THEN Append(adminFindings, r)
                                                  ELSE adminFindings
  /\ i' = i + 1
  /\ UNCHANGED <<modules, invModules, topFindings, moduleSummary, grading,
                 phase, locals, passes>>

(* Past the loop: the lists are sorted, the top findings and the module    *)
(* rows computed, and calculateScore starts.                               *)
Arrange ==
  /\ phase = "tally" /\ i > Len(results)
  /\ clientFindings' = SortFindings(clientFindings)
  /\ adminFindings' = SortAdminFindings(adminFindings)
  /\ topFindings' = TopFindings(results, TopLimit)
  /\ moduleSummary' = ModuleSummary(modules, results)
  /\ penalty' = 0 /\ hasFail' = FALSE /\ hasHighWarn' = FALSE
  /\ i' = 1
  /\ phase' = "score"
  /\ UNCHANGED <<report, tallies, grading, passes>>

Penalise ==
  /\ phase = "score" /\ i <= Len(results)
  /\ hasFail' = (hasFail \/ results[i].status = "fail")
  /\ hasHighWarn' = (hasHighWarn \/ IsHighWarn(results[i]))
  /\ penalty' = penalty + ScorePenalty(results[i])
  /\ i' = i + 1
  /\ UNCHANGED <<report, tallies, lists, grading, phase, passes>>

Grade ==
  /\ phase = "score" /\ i > Len(results)
  /\ score' = CappedScore(penalty, hasFail, hasHighWarn)
  /\ riskGrade' = RiskGrade(score')
  /\ phase' = "done"
  /\ UNCHANGED <<report, tallies, lists, i, locals, passes>>

(* A renderer takes the prepared report, as it was written and read back.  *)
PrepareAgain ==
  /\ phase = "done" /\ passes < MaxPasses
  /\ passes' = passes + 1
  /\ phase' = "reset"
  /\ UNCHANGED <<report, tallies, lists, grading, i, locals>>

Next == Reset \/ Tally \/ Arrange \/ Penalise \/ Grade \/ PrepareAgain

Spec == Init /\ [][Next]_vars

-----------------------------------------------------------------------------
(* Properties *)

(* Every variable stays in its range; the score is only bounded once it    *)
(* has been computed, since a file may hold any number.                    *)
TypeOK ==
  /\ Len(results) <= MaxResults
  /\ \A k \in DOMAIN results : /\ results[k].status \in StatusValues
                               /\ results[k].severity \in SeverityValues
  /\ summary \in [StatusValues -> Nat]
  /\ severityCounts \in [CountedSeverities -> Nat]
  /\ severityIssues \in [IssueSeverities -> Nat]
  /\ phase \in {"reset", "tally", "score", "done"}
  /\ i \in 1 .. Len(results) + 1
  /\ penalty \in Nat /\ hasFail \in BOOLEAN /\ hasHighWarn \in BOOLEAN
  /\ passes \in 0 .. MaxPasses

(* The results the tally loop is past, and those among them that satisfy P *)
Tallied == IF phase = "tally" THEN 1 .. i - 1 ELSE 1 .. Len(results)
Those(P(_)) == {k \in Tallied : P(results[k])}

VisibleRisk(r) == IsRisk(r) /\ ~ r.hidden

(* The tallies count exactly the results already passed, whatever the      *)
(* report held before: every result under its normalised status, every     *)
(* known severity, every failure or warning once among the issues, and as  *)
(* many findings listed as there are (scoring.go:22-43).                   *)
CountsExact ==
  phase # "reset" =>
    /\ \A s \in StatusValues :
         summary[s] = Cardinality({k \in Tallied : results[k].status = s})
    /\ \A s \in CountedSeverities :
         severityCounts[s] = Cardinality({k \in Tallied : results[k].severity = s})
    /\ \A s \in IssueSeverities :
         severityIssues[s] = Cardinality({k \in Tallied :
                               results[k].severity = s /\ IsRisk(results[k])})
    /\ Len(clientFindings) = Cardinality(Those(VisibleRisk))
    /\ Len(adminFindings) = Cardinality(Those(IsAdminFinding))

(* What each list of a prepared report must be: the results that belong    *)
(* there, each exactly once, none above a worse one, and results that rank *)
(* alike in the order they were reported (scoring.go:45-46, 142-176).      *)
IsSortedSelection(list, P(_), Key(_)) ==
  \E at \in [DOMAIN list -> {k \in DOMAIN results : P(results[k])}] :
    /\ \A k \in DOMAIN results : P(results[k]) => \E n \in DOMAIN list : at[n] = k
    /\ \A n \in DOMAIN list : list[n] = results[at[n]]
    /\ \A m, n \in DOMAIN list : m < n =>
         \/ Key(list[m]) > Key(list[n])
         \/ Key(list[m]) = Key(list[n]) /\ at[m] < at[n]

FindingsSorted ==
  phase = "done" =>
    /\ IsSortedSelection(clientFindings, VisibleRisk, LAMBDA r :
         10 * SeverityRank(r.severity) + StatusRank(r.status))
    /\ IsSortedSelection(adminFindings, IsAdminFinding, LAMBDA r :
         10 * StatusRank(r.status) + SeverityRank(r.severity))

(* The top findings are the worst ones: a failure or warning that did not  *)
(* make the list is no more severe than any that did, and the list is only *)
(* shorter than its limit when there are no more (scoring.go:126-140).     *)
TopIsWorst ==
  phase = "done" =>
    LET risks == {k \in DOMAIN results : IsRisk(results[k])}
        times(s, r) == Cardinality({k \in DOMAIN s : s[k] = r})
    IN  /\ Len(topFindings) <= TopLimit
        /\ Len(topFindings) < TopLimit => Len(topFindings) = Cardinality(risks)
        /\ \A k \in risks :
             times(topFindings, results[k]) < times(results, results[k]) =>
               \A j \in DOMAIN topFindings :
                 SeverityRank(topFindings[j].severity) >= SeverityRank(results[k].severity)

(* The module rows of a report say what its summary says: no module twice, *)
(* none without a name, a row for every module that was looked at, and,    *)
(* when every result names its module, totals equal to the summary's       *)
(* (scoring.go:191-227).                                                   *)
RowsAgree ==
  phase = "done" =>
    LET ids == {moduleSummary[n].module : n \in DOMAIN moduleSummary}
        total(f) == Total([n \in DOMAIN moduleSummary |-> moduleSummary[n][f]])
    IN  /\ Cardinality(ids) = Len(moduleSummary)
        /\ ids = (ToSet(modules) \union {results[k].module : k \in DOMAIN results}) \ {""}
        /\ (\A k \in DOMAIN results : results[k].module # "") =>
             \A f \in {"fail", "warn", "pass"} : total(f) = summary[f]

(* The score means what the report says of it: 100 exactly when no result  *)
(* costs anything and none fails, at most 90 with any failure or serious   *)
(* warning, never more than the worst single result leaves, and the grade  *)
(* F only below 50 (scoring.go:83-124).                                    *)
ScoreMeans ==
  phase = "done" =>
    /\ score \in 0 .. 100
    /\ score = 100 <=> \A k \in DOMAIN results :
                         ScorePenalty(results[k]) = 0 /\ results[k].status # "fail"
    /\ \A k \in DOMAIN results :
         /\ score <= 100 - ScorePenalty(results[k])
         /\ results[k].status = "fail" \/ IsHighWarn(results[k]) => score <= 90
    /\ riskGrade = "A" <=> score >= 90
    /\ riskGrade = "F" <=> score < 50

(* Preparing a prepared report again, as every renderer does after reading *)
(* it back from its file, changes no result and gives the same score and   *)
(* grade (htmlreport.go:58, batchreport.go, comparereport.go:53).          *)
SecondPassAgrees ==
  [][passes > 0 => /\ UNCHANGED results
                   /\ phase' = "done" => UNCHANGED grading]_vars
=============================================================================
