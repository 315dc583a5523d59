------------------------------- MODULE MCAudit -------------------------------
(***************************************************************************)
(* Audits of one module of each kind on a host that may change, and of     *)
(* two modules that see the same unit list.                                *)
(***************************************************************************)
EXTENDS Audit, TLC

MCSingle == {<<m>> : m \in AllModuleNames}
MCPair   == {<<"sshd", "exim">>, <<"exim", "sshd">>}
MCMySQL  == {<<"mysql">>}
=============================================================================
