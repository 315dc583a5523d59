------------------------------ MODULE MCPrepare ------------------------------
(***************************************************************************)
(* Reports of up to three results out of a dozen shapes, every status and  *)
(* severity class among them, two that rank alike, one nobody rated, one   *)
(* with strings no check writes, one with every text field to derive.      *)
(***************************************************************************)
EXTENDS Views, TLC

R(id, module, severity, status, hidden) ==
  [NewResult(id, module, severity, status) EXCEPT !.hidden = hidden]

Wordy ==
  [NewResult("wordy", "ssh", "medium", "warn") EXCEPT
     !.title = "", !.summary = "s", !.evidence = "e", !.remediation = "do",
     !.steps = <<"1", " ", "2", "3", "4", "", "5", "6">>, !.refs = <<" ">>]

MCResults ==
  { R("root", "ssh", "critical", "fail", FALSE), R("low", "web", "low", "fail", FALSE),
    R("info", "web", "info", "fail", FALSE),
    R("tls", "web", "high", "warn", FALSE),  R("tls2", "ssh", "high", "warn", FALSE),
    R("hid", "ssh", "low", "warn", TRUE),    R("pass", "ssh", "high", "pass", FALSE),
    R("err", "web", "high", "error", TRUE),  R("unrated", "", "", "", FALSE),
    R("odd", "", Alien, Alien, FALSE), Wordy }

MCModuleIds == {"ssh", "web", ""}
=============================================================================
