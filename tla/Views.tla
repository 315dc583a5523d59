------------------------------- MODULE Views -------------------------------
(***************************************************************************)
(* The pages made from a prepared report: the HTML report of one host for  *)
(* the client or the administrator (htmlreport.buildView), and the host's  *)
(* entry on the page about many hosts (batchreport.buildHostView).  Both   *)
(* prepare the report first, and select from what PrepareReport derived.   *)
(* They are functions of the report; nothing here changes it.              *)
(***************************************************************************)
EXTENDS Prepare

CONSTANTS
  PageLimit,  \* how many top findings the HTML report shows (10 in the code)
  HostLimit   \* how many the batch report shows of a host (5 in the code)

ASSUME LimitsAssumption == PageLimit \in Nat /\ HostLimit \in Nat

Audiences == {"client", "admin"}

(* adminReportFindings: what the administrator reads, in result order.     *)
IsReported(r) == r.status \in {"fail", "warn", "error", "pass"}

(* A mutant of PageFindings: the client reads what the administrator does. *)
EverythingReported(audience) == Chosen(results, IsReported)

PageFindings(audience) ==
  IF audience = "client" THEN clientFindings ELSE Chosen(results, IsReported)

(* The sections of a page: the rows that have a name, then the modules     *)
(* that have no row.                                                       *)
Sections ==
  LET named == Chosen(moduleSummary, LAMBDA row : row.module # "")
      rows  == [n \in DOMAIN named |-> named[n].module]
  IN  rows \o Chosen(modules, LAMBDA m : m \notin ToSet(rows))

(* buildModuleSection: problems first, then what passed.                   *)
SectionFindings(audience, m) ==
  LET own == Chosen(PageFindings(audience), LAMBDA r : r.module = m)
  IN  Chosen(own, LAMBDA r : r.status \in {"fail", "warn", "error"})
        \o Chosen(own, LAMBDA r : r.status = "pass")

CutTo(list, limit) == IF Len(list) > limit THEN SubSeq(list, 1, limit) ELSE list

(* A mutant of TopShown: cut before the hidden ones are left out.          *)
TopCutFirst(audience, limit) ==
  LET top == CutTo(topFindings, limit)
  IN  IF audience = "client" THEN Chosen(top, LAMBDA r : ~ r.hidden) ELSE top

TopShown(audience, limit) ==
  CutTo(IF audience = "client" THEN Chosen(topFindings, LAMBDA r : ~ r.hidden)
                               ELSE topFindings, limit)

(* totalIssueCount: failures and warnings that have a severity but info.   *)
IssueCount == Total([s \in IssueSeverities |-> severityIssues[s]])

(* A mutant of ExecutiveText: a good grade counts as no risk.              *)
TextByGrade == IF riskGrade = "A" THEN "no risks" ELSE "good"

ExecutiveText ==
  IF IssueCount = 0 THEN "no risks"
  ELSE CASE riskGrade \in {"A", "B"} -> "good"
         [] riskGrade \in {"D", "F"} -> "high risk"
         [] OTHER                    -> "needs improvement"
-----------------------------------------------------------------------------
(* What every check of the program makes of a failure or a warning         *)
(* (Posture.RiskIsShown), which a file from elsewhere need not.            *)
Usual(r) == IsRisk(r) => ~ r.hidden /\ r.severity \in IssueSeverities

Times(list, r) == Cardinality({k \in DOMAIN list : list[k] = r})

(* A page has every finding meant for its reader once, under its module,   *)
(* and nothing else: the administrator every result that says something,   *)
(* the client every visible risk and never a hidden result, in a section   *)
(* or at the top of either page (htmlreport.go:63-130, 134-170).           *)
PagesComplete ==
  phase = "done" =>
    /\ \A audience \in Audiences : \A r \in ToSet(results) :
         LET meant == IF audience = "client" THEN VisibleRisk(r) ELSE IsReported(r)
             shown == Total([n \in DOMAIN Sections |->
                              Times(SectionFindings(audience, Sections[n]), r)])
         IN  r.module # "" => shown = IF meant THEN Times(results, r) ELSE 0
    /\ \A n \in DOMAIN Sections :
         \A r \in ToSet(SectionFindings("client", Sections[n])) : ~ r.hidden
    /\ \A limit \in {PageLimit, HostLimit} :
         \A r \in ToSet(TopShown("client", limit)) : ~ r.hidden

First(list, n) == SubSeq(list, 1, Min({n, Len(list)}))

(* What stands at the top of a page is what its sections begin with.  If   *)
(* no risk is hidden, the top findings of both readers and of the batch    *)
(* page are the first of all visible risks by rank, although the report    *)
(* keeps only TopLimit of them; and whatever is hidden, a client is shown  *)
(* fewer than fit only if the report keeps no other (scoring.go cuts       *)
(* before htmlreport.go:86-97 and batchreport.go:113-124 filter and cut).  *)
TopHeadsPage ==
  phase = "done" => \A limit \in {PageLimit, HostLimit} :
    /\ (\A r \in ToSet(results) : Usual(r)) =>
         \A audience \in Audiences :
           TopShown(audience, limit) = First(clientFindings, Min({TopLimit, limit}))
    /\ Len(TopShown("client", limit)) < limit =>
         Len(TopShown("client", limit)) = Len(Chosen(topFindings, VisibleRisk))

(* The words fit the page: if no risk is hidden or without a severity, the *)
(* client is told that no risk was found, by the executive summary, by the *)
(* empty list of top findings and by the batch page's issue count alike,   *)
(* exactly when no section has one; and the figures at the head of every   *)
(* section count the findings under it (htmlreport.go:628-654).            *)
WordsFitPage ==
  phase = "done" /\ (\A r \in ToSet(results) : Usual(r)) =>
    LET untroubled == clientFindings = <<>>
    IN  /\ ExecutiveText = "no risks" <=> untroubled
        /\ IssueCount = Len(clientFindings)
        /\ TopLimit > 0 /\ PageLimit > 0 =>
             (TopShown("client", PageLimit) = <<>> <=> untroubled)
        /\ \A n \in DOMAIN moduleSummary : \A status \in {"fail", "warn"} :
             LET row == moduleSummary[n]
             IN  row[status] = Len(Chosen(SectionFindings("client", row.module),
                                             LAMBDA r : r.status = status))
=============================================================================
