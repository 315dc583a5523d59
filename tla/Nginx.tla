------------------------------- MODULE Nginx -------------------------------
(***************************************************************************)
(* The eight checks of internal/checks/nginx/module.go.  All but the first *)
(* judge one text, the output of `nginx -T`, which holds every server      *)
(* block and does not say which directive belongs to which.  That matters  *)
(* with two server blocks, as modelled here: "first" and "second".         *)
(*                                                                         *)
(* Audit has the cache that the checks share; here it is filled at once.   *)
(***************************************************************************)
EXTENDS Ratings

NginxCommands == {"nginx"}
NginxFiles    == {"nginx.conf"}

(* "listed": autoindex on in a block that sets no root; "served": in one   *)
(* that has its root where pages are served from.  Old protocols are TLSv1 *)
(* and TLSv1.1; "other" stands for SSLv2 and SSLv3.                        *)
NginxScale ==
  [tokensFirst  |-> <<"off", "unset", "on">>,
   tokensSecond |-> <<"off", "unset", "on">>,
   autoindex    |-> <<"off", "listed", "served">>,
   hiddenFirst  |-> <<"denied", "open">>,
   hiddenSecond |-> <<"denied", "open">>,
   tlsFirst     |-> <<"modern", "unset", "old", "other">>,
   tlsSecond    |-> <<"modern", "unset", "old", "other">>,
   headers      |-> <<4, 3, 2, 1, 0>>,
   defaultVhost |-> <<"named", "default">>]

NginxDetected(h, p) ==
  \/ p["unit list"] = "ok" /\ h.nginx = "running"
  \/ p["nginx"] # "missing" \/ p["nginx.conf"] # "missing"

(* loadConfigForResult: nginx -T fails without the binary or a file that   *)
(* it can read.                                                            *)
WhenDumped(h, p, rating) ==
  IF ~ NginxDetected(h, p)                             THEN NotApplicable
  ELSE IF p["nginx"] # "ok" \/ p["nginx.conf"] # "ok"  THEN Unverified("medium")
                                                       ELSE rating

ServiceDetected == Unseen("info", "info")

(* One "on" anywhere wins over any "off".                                  *)
ServerTokens(h, p) ==
  LET settings == {h.tokensFirst, h.tokensSecond}
  IN  WhenDumped(h, p, IF "on" \notin settings /\ "off" \in settings
                       THEN Shown("pass", "low") ELSE Shown("warn", "low"))

Autoindex(h, p) ==
  WhenDumped(h, p, IF h.autoindex = "off" THEN Shown("pass", "medium")
                                          ELSE Shown("warn", "medium"))

(* One server block that denies them vouches for the others.               *)
HiddenFilesAccess(h, p) ==
  WhenDumped(h, p, IF "denied" \in {h.hiddenFirst, h.hiddenSecond}
                   THEN Shown("pass", "high") ELSE Shown("warn", "high"))

DirectoryListingRisk(h, p) ==
  WhenDumped(h, p, IF h.autoindex = "served" THEN Shown("warn", "medium")
                                             ELSE Shown("pass", "medium"))

(* A block without ssl_protocols is passed over, if another has one.       *)
TLSProtocols(h, p) ==
  LET named == {h.tlsFirst, h.tlsSecond} \ {"unset"}
  IN  WhenDumped(h, p, CASE "old" \in named      -> Shown("fail", "high")
                         [] named = {"modern"}   -> Shown("pass", "high")
                         [] OTHER                -> Shown("warn", "medium"))

(* Different headers of the four, no matter in which block.                *)
SecurityHeaders(h, p) ==
  WhenDumped(h, p, CASE h.headers >= 3 -> Shown("pass", "medium")
                     [] h.headers = 0  -> Shown("fail", "medium")
                     [] OTHER          -> Shown("warn", "medium"))

DefaultVhost(h, p) ==
  WhenDumped(h, p, IF h.defaultVhost = "default" THEN Shown("warn", "low")
                                                 ELSE Shown("pass", "low"))

NginxRating(h, p) ==
  [service_detected       |-> ServiceDetected,
   server_tokens          |-> ServerTokens(h, p),
   autoindex              |-> Autoindex(h, p),
   hidden_files_access    |-> HiddenFilesAccess(h, p),
   directory_listing_risk |-> DirectoryListingRisk(h, p),
   tls_protocols          |-> TLSProtocols(h, p),
   security_headers       |-> SecurityHeaders(h, p),
   default_vhost          |-> DefaultVhost(h, p)]
=============================================================================
