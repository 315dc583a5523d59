------------------------------- MODULE Checks -------------------------------
(***************************************************************************)
(* The vocabulary every check shares (internal/checks/types.go): the       *)
(* statuses and severities a result may carry, the result record and the   *)
(* normalisation every report applies to it before counting it.            *)
(*                                                                         *)
(* A text field is abstracted to a token: "" is the empty string, " " a    *)
(* string of blanks, anything else a text that survives trimming.  A       *)
(* status or severity may also be a string the program does not know: a    *)
(* report is read back from a JSON file anybody may have written.          *)
(***************************************************************************)
EXTENDS Lists, SequencesExt

Statuses   == {"pass", "fail", "warn", "info", "error", "not_applicable"}
Severities == {"critical", "high", "medium", "low", "info"}
Alien      == "alien"  \* stands for every string that is none of the above
StatusValues   == Statuses \union {"", Alien}
SeverityValues == Severities \union {"", Alien}

(* NewResult: identity and rating given, the category defaulted, the rest  *)
(* empty.                                                                  *)
NewResult(id, module, severity, status) ==
  [id |-> id, module |-> module, category |-> "system", title |-> id,
   severity |-> severity, status |-> status, hidden |-> FALSE,
   summary |-> "", client |-> "", details |-> <<>>,
   recommendation |-> "", remediation |-> "",
   evidence |-> "", error |-> "", steps |-> <<>>, refs |-> <<>>]

Default(value, fallback) == IF value = "" THEN fallback ELSE value

Trimmed(text) == IF text = " " THEN "" ELSE text

(* compactStrings: trim, drop what is blank, keep the first `limit`.       *)
CompactStrings(values, limit) ==
  LET kept == Chosen(values, LAMBDA v : Trimmed(v) # "")
  IN  IF limit > 0 /\ Len(kept) > limit THEN SubSeq(kept, 1, limit) ELSE kept

(* The parts joined into admin_details: which of them are there, in order. *)
DetailParts(r) ==
  Chosen(<<[label |-> "", text |-> r.summary],
              [label |-> "Evidence", text |-> r.evidence],
              [label |-> "Error", text |-> r.error]>>,
            LAMBDA p : p.text # "")

(* The details are derived once: only when there are none yet.             *)
DetailsAgain(r) == r.details \o DetailParts(r)  \* mutant: derived every time
Details(r) == IF r.details = <<>> THEN DetailParts(r) ELSE r.details

(* Result.Normalize.  The two remediation fields fill each other, the      *)
(* recommendation first; the client summary and the details are derived    *)
(* only when the check left them empty.                                    *)
Normalize(r) ==
  LET recommendation == Default(r.recommendation, r.remediation)
  IN  [id       |-> r.id,
       module   |-> r.module,
       category |-> Default(r.category, "system"),
       title    |-> Default(r.title, r.id),
       severity |-> Default(r.severity, "info"),
       status   |-> Default(r.status, "info"),
       hidden   |-> r.hidden,
       summary  |-> r.summary,
       client   |-> Default(r.client, r.summary),
       details  |-> Details(r),
       recommendation |-> recommendation,
       remediation    |-> Default(r.remediation, recommendation),
       evidence |-> r.evidence,
       error    |-> r.error,
       steps    |-> CompactStrings(r.steps, 5),
       refs     |-> CompactStrings(r.refs, 10)]

IsRisk(r)         == r.status \in {"fail", "warn"}
IsAdminFinding(r) == r.status \in {"fail", "warn", "pass"}
=============================================================================
