-------------------------------- MODULE Smtp --------------------------------
(***************************************************************************)
(* smtpreport.Send (internal/report/smtpreport): one mail, one connection, *)
(* one command at a time, against a server that may refuse any command,    *)
(* drop the connection before or after it acted, or never answer.  No      *)
(* command has a deadline; only the dial has.                              *)
(*                                                                         *)
(* What net/smtp does on the client's behalf is modelled from how Send     *)
(* uses it: EHLO, or the HELO it falls back to (one command here, refused   *)
(* when both are), goes out before the first command that needs it, PLAIN  *)
(* authentication refuses to speak on an open channel to a host that is    *)
(* not local, and a failed write leaves the message without its final dot. *)
(***************************************************************************)
EXTENDS Integers, Sequences

CONSTANTS
  Recipients,  \* message.To, in order; none of them twice
  TLSModes     \* values of the tls option, among "starttls", "implicit", "none", "odd"

RecipientSet == {Recipients[k] : k \in DOMAIN Recipients}

ASSUME SmtpAssumption ==
  /\ Recipients \in Seq(STRING)
  /\ TLSModes \subseteq {"starttls", "implicit", "none", "odd"}

VARIABLES
  tls, login, local, valid,  \* the configuration: mode, a username, a local
                             \* host, everything required is there
  step,      \* the step Send is at
  outcome,   \* what it returned
  link,      \* the connection: "down", "plain", "tls" or "lost"
  cmd,       \* the command waiting for the server, "none" or
             \* "greeting" when it is the server's turn to greet
  reply,     \* "none", "ok" or "bad"
  asked,     \* how many recipients were named
  starttls,  \* the server advertises STARTTLS
  envelope,  \* the recipients of the server's current transaction
  accepted   \* the recipients of the messages the server took

config == <<tls, login, local, valid>>
server == <<starttls, envelope, accepted>>
vars   == <<config, step, outcome, link, cmd, reply, asked, server>>

Commands == {"greeting", "ehlo", "starttls", "auth", "mail", "rcpt", "data", "dot", "quit"}

Init ==
  /\ tls \in TLSModes /\ login \in BOOLEAN /\ local \in BOOLEAN
  /\ valid \in (IF Recipients = <<>> THEN {FALSE} ELSE BOOLEAN)
  /\ step = "validate" /\ outcome = "none"
  /\ link = "down" /\ cmd = "none" /\ reply = "none"
  /\ asked = 0
  /\ starttls \in BOOLEAN
  /\ envelope = {} /\ accepted = {}

-----------------------------------------------------------------------------
(* The client *)

(* Send returns; the deferred Close drops the connection.                  *)
Return(result) ==
  /\ outcome' = result
  /\ step' = "returned"
  /\ link' = "down" /\ cmd' = "none" /\ reply' = "none"
  /\ UNCHANGED <<config, asked, server>>

(* The next command goes out.                                              *)
Issue(command, next) ==
  /\ cmd' = command /\ reply' = "none"
  /\ step' = next
  /\ UNCHANGED <<config, outcome, link, server>>

Validate ==
  /\ step = "validate"
  /\ IF valid THEN /\ step' = "dial"
                   /\ UNCHANGED <<config, outcome, link, cmd, reply, asked, server>>
              ELSE Return("error")

(* smtpClient: dial within 30 seconds, the TLS handshake included in mode  *)
(* "implicit"; a mode it does not know is an error before any connection.  *)
Dial ==
  /\ step = "dial" /\ tls # "odd"
  /\ link' = IF tls = "implicit" THEN "tls" ELSE "plain"
  /\ cmd' = "greeting" /\ reply' = "none" /\ step' = "greeting"
  /\ UNCHANGED <<config, outcome, asked, server>>

DialFails == step = "dial" /\ Return("error")

(* A step that waits for a reply goes on when it is the one expected; any  *)
(* other reply, or the loss of the connection, ends Send with an error.    *)
Waits == step \in Commands
GiveUpRefused == Waits /\ reply = "bad" /\ Return("error")  \* mutant: no loss noticed
GiveUp == Waits /\ (reply = "bad" \/ link = "lost") /\ Return("error")

Answered(command) == step = command /\ reply = "ok" /\ link # "lost"

Greeted == Answered("greeting") /\ Issue("ehlo", "ehlo") /\ UNCHANGED asked

(* With STARTTLS nothing more is said before the channel is encrypted; the *)
(* handshake is followed by an EHLO of its own.                            *)
NeedsTLSIfOffered == tls = "starttls" /\ link = "plain" /\ starttls  \* mutant
NeedsTLS == tls = "starttls" /\ link = "plain"

EncryptFirst ==
  /\ Answered("ehlo") /\ NeedsTLS
  /\ IF starttls THEN Issue("starttls", "starttls") /\ UNCHANGED asked
                 ELSE Return("error")

Encrypted ==
  /\ Answered("starttls")
  /\ \/ /\ link' = "tls"
        /\ cmd' = "ehlo" /\ reply' = "none" /\ step' = "ehlo"
        /\ UNCHANGED <<config, outcome, asked, server>>
     \/ Return("error")

Login ==
  /\ Answered("ehlo") /\ ~ NeedsTLS /\ login
  /\ IF link = "tls" \/ local THEN Issue("auth", "auth") /\ UNCHANGED asked
                              ELSE Return("error")

MailFrom ==
  /\ \/ Answered("ehlo") /\ ~ NeedsTLS /\ ~ login
     \/ Answered("auth")
  /\ Issue("mail", "mail") /\ UNCHANGED asked

(* Mutants of RcptTo: one recipient too few, one too many.                 *)
RcptToLong ==
  /\ Answered("mail") \/ Answered("rcpt")
  /\ IF asked <= Len(Recipients)
     THEN Issue("rcpt", "rcpt") /\ asked' = asked + 1
     ELSE Issue("data", "data") /\ UNCHANGED asked
RcptToShort ==
  /\ Answered("mail") \/ Answered("rcpt")
  /\ IF asked + 1 < Len(Recipients)
     THEN Issue("rcpt", "rcpt") /\ asked' = asked + 1
     ELSE Issue("data", "data") /\ UNCHANGED asked

RcptTo ==
  /\ Answered("mail") \/ Answered("rcpt")
  /\ IF asked < Len(Recipients)
     THEN Issue("rcpt", "rcpt") /\ asked' = asked + 1
     ELSE Issue("data", "data") /\ UNCHANGED asked

(* A mutant of WriteMessage: the writer is not closed.                     *)
WriteUnclosed ==
  Answered("data") /\ (Return("sent") \/ Return("error"))

(* The payload and its final dot; a payload that cannot be written whole   *)
(* gets no dot.                                                            *)
WriteMessage ==
  /\ Answered("data")
  /\ \/ Issue("dot", "dot") /\ UNCHANGED asked
     \/ Return("error")

Quit == Answered("dot") /\ Issue("quit", "quit") /\ UNCHANGED asked

Done == Answered("quit") /\ Return("sent")

Client == Validate \/ Dial \/ DialFails \/ GiveUp \/ Greeted \/ EncryptFirst
            \/ Encrypted \/ Login \/ MailFrom \/ RcptTo \/ WriteMessage
            \/ Quit \/ Done

-----------------------------------------------------------------------------
(* The server and the network *)

(* The server acts on the command it was sent, or refuses it.              *)
Obey ==
  /\ cmd # "none" /\ link \in {"plain", "tls"}
  /\ reply' = "ok" /\ cmd' = "none"
  /\ envelope' = CASE cmd \in {"ehlo", "mail", "dot"} -> {}
                   [] cmd = "rcpt" -> envelope \union {Recipients[asked]}
                   [] OTHER -> envelope
  /\ accepted' = IF cmd = "dot" THEN accepted \union envelope ELSE accepted
  /\ UNCHANGED <<config, step, outcome, link, asked, starttls>>

Refuse ==
  /\ cmd # "none" /\ link \in {"plain", "tls"}
  /\ reply' = "bad" /\ cmd' = "none"
  /\ UNCHANGED <<config, step, outcome, link, asked, server>>

(* The connection breaks, an answer on its way included; what the server   *)
(* did not take before is gone with it.                                    *)
Break ==
  /\ link \in {"plain", "tls"}
  /\ link' = "lost" /\ reply' = "none" /\ cmd' = "none"
  /\ envelope' = {}
  /\ UNCHANGED <<config, step, outcome, asked, starttls, accepted>>

Next == Client \/ Obey \/ Refuse \/ Break

Spec == Init /\ [][Next]_vars
(* Send does not stop between two steps; nobody makes the server answer.   *)
FairSpec == Spec /\ WF_vars(Client)

-----------------------------------------------------------------------------
(* Properties *)

TypeOK ==
  /\ step \in Commands \union {"validate", "dial", "returned"}
  /\ outcome \in {"none", "sent", "error"}
  /\ link \in {"down", "plain", "tls", "lost"}
  /\ cmd \in Commands \union {"none"} /\ reply \in {"none", "ok", "bad"}
  /\ asked \in 0 .. Len(Recipients)
  /\ envelope \subseteq RecipientSet /\ accepted \subseteq RecipientSet

(* Send keeps the promise of MailSend: all recipients or none, at most     *)
(* once, and "sent" only when the server took it, whatever was refused or  *)
(* broke on the way (smtpreport.go:71-120).                                *)
Promise == INSTANCE MailSend WITH Recipients <- RecipientSet
KeepsPromise == Promise!Spec

(* In mode starttls neither the login nor an address nor a word of the     *)
(* mail is said before the channel is encrypted, in mode implicit nothing  *)
(* at all, and in every mode the password stays off an open channel to     *)
(* another host (smtpreport.go:129-161, 88-93).                            *)
NothingInTheClear ==
  /\ tls = "starttls" /\ cmd \in Commands \ {"greeting", "ehlo", "starttls"}
       => link = "tls"
  /\ tls = "implicit" /\ cmd # "none" => link = "tls"
  /\ cmd = "auth" => link = "tls" \/ local

(* What the server has noted when the mail is handed over is the whole     *)
(* list: a refused recipient ends the session before the data              *)
(* (smtpreport.go:98-102).                                                  *)
WholeEnvelope == cmd \in {"data", "dot"} => envelope = RecipientSet

(* Send comes back, or it waits for ever for an answer the server owes it: *)
(* nothing else can hold it (smtpreport.go:71-120).                        *)
OnlyServerHolds == <>(step = "returned" \/ [](cmd # "none"))
=============================================================================
