------------------------------ MODULE MCCompare ------------------------------
(***************************************************************************)
(* Two checks of two modules, a result without an id, and one rating for   *)
(* every way of treating a status, two of them differing in evidence only. *)
(***************************************************************************)
EXTENDS Compare, TLC

Rating(severity, status, evidence) ==
  [severity |-> severity, status |-> status, evidence |-> evidence]

MCRatings ==
  { Rating("high", "fail", "e1"), Rating("high", "fail", "e2"),
    Rating("low", "fail", "e1"),  Rating("high", "warn", "e1"),
    Rating("high", "pass", "e1"), Rating("high", "error", "e1"),
    Rating("info", "info", "e1"), Rating("info", "not_applicable", "e1") }

MCModuleOf == 0 :> "ssh" @@ 1 :> "ssh" @@ 2 :> "web"
=============================================================================
