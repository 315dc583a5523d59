------------------------------ MODULE Ratings ------------------------------
(***************************************************************************)
(* What the modules about single packages of checks (Linux, SSH, Docker,   *)
(* MySQL, Redis, Nginx, Varnish, PhpFpm and SearchEngine) share.           *)
(*                                                                         *)
(* A check is an operator from what it looks at to a rating: the   *)
(* status, severity and visibility of its result (checks.NewResult and the *)
(* assignments that follow it in every Run).                               *)
(*                                                                         *)
(* `h` is the host: a record of facts, each a value of a scale from strict *)
(* to lax.  `p` says how each source answers the program: "ok", "missing"  *)
(* (the command is not installed, the file does not exist) or "broken"     *)
(* (the command fails or is killed at the deadline, the file cannot be     *)
(* read).                                                                  *)
(***************************************************************************)
EXTENDS Checks

Answers == {"ok", "missing", "broken"}

Shown(status, severity) ==
  [status |-> status, severity |-> severity, hidden |-> FALSE]
Unseen(status, severity) ==
  [status |-> status, severity |-> severity, hidden |-> TRUE]

RatingValues == [status : Statuses, severity : Severities, hidden : BOOLEAN]

(* A mutant of NotApplicable: a status the report does not know.           *)
Skipped == Unseen("skipped", "info")

(* The answers most checks give when they do not apply or cannot look.     *)
NotApplicable        == Unseen("not_applicable", "info")
Unverified(severity) == Unseen("error", severity)
=============================================================================
