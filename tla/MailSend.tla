------------------------------ MODULE MailSend ------------------------------
(***************************************************************************)
(* What the rest of the program may rely on when it sends a mail           *)
(* (smtpreport.Send): the server takes the message for all recipients or   *)
(* for none, and at most once; "sent" is only reported when it did.  An    *)
(* error does not say that it did not.                                     *)
(***************************************************************************)
CONSTANT Recipients

VARIABLES
  accepted,  \* the recipients the server took a complete message for
  outcome    \* what Send returned: "none" yet, "sent" or "error"

Init == accepted = {} /\ outcome = "none"

Accept == outcome = "none" /\ accepted = {} /\ accepted' = Recipients
            /\ UNCHANGED outcome
Sent   == outcome = "none" /\ accepted = Recipients /\ outcome' = "sent"
            /\ UNCHANGED accepted
Fail   == outcome = "none" /\ outcome' = "error" /\ UNCHANGED accepted

Next == Accept \/ Sent \/ Fail

Spec == Init /\ [][Next]_<<accepted, outcome>>
=============================================================================
