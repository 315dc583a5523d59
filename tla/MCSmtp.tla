------------------------------- MODULE MCSmtp -------------------------------
(* A mail to two recipients in every mode.                                 *)
EXTENDS Smtp, TLC

MCRecipients == <<"client", "admin">>
=============================================================================
