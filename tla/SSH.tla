-------------------------------- MODULE SSH --------------------------------
(***************************************************************************)
(* The three checks of internal/checks/ssh/module.go.  They judge one run  *)
(* of `sshd -T`, the effective configuration, which prints the options     *)
(* that this version of sshd knows (h.known).  None of them asks whether   *)
(* sshd was detected: that decides only if they run at all (Audit).        *)
(***************************************************************************)
EXTENDS Ratings

SSHCommands == {"sshd"}
SSHFiles    == {}

(* "keys" is prohibit-password; "unexpected" a value that the check does   *)
(* not know, such as forced-commands-only.                                 *)
SSHScale ==
  [permitrootlogin        |-> <<"no", "unexpected", "keys", "yes">>,
   passwordauthentication |-> <<"no", "yes">>,
   permitemptypasswords   |-> <<"no", "yes">>]

(* EffectiveConfig.Values, configErrorResult and missingKeyResult.         *)
WhenKnown(h, p, option, rating) ==
  IF p["sshd"] # "ok"        THEN Unverified("high")
  ELSE IF option \in h.known THEN rating
                             ELSE Unverified("medium")

PermitRootLogin(h, p) ==
  WhenKnown(h, p, "permitrootlogin",
    CASE h.permitrootlogin = "no"  -> Shown("pass", "high")
      [] h.permitrootlogin = "yes" -> Shown("fail", "high")
      [] OTHER                     -> Shown("warn", "medium"))

PasswordAuthentication(h, p) ==
  WhenKnown(h, p, "passwordauthentication",
    IF h.passwordauthentication = "yes" THEN Shown("warn", "medium")
                                        ELSE Shown("pass", "medium"))

PermitEmptyPasswords(h, p) ==
  WhenKnown(h, p, "permitemptypasswords",
    IF h.permitemptypasswords = "no" THEN Shown("pass", "high") ELSE Shown("fail", "high"))

SSHRating(h, p) ==
  [permit_root_login       |-> PermitRootLogin(h, p),
   password_authentication |-> PasswordAuthentication(h, p),
   permit_empty_passwords  |-> PermitEmptyPasswords(h, p)]
=============================================================================
