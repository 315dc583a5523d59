----------------------------- MODULE SmtpProofs -----------------------------
(***************************************************************************)
(* For every list of recipients and every set of TLS modes, Send keeps the *)
(* promise of MailSend, says nothing in the clear it must not, and hands   *)
(* the mail over with the whole list.  One inductive invariant carries all *)
(* of it: who is waiting for whom, what the server has noted by then, and  *)
(* which channel the session is on.                                        *)
(***************************************************************************)
EXTENDS Smtp, TLAPS

Named(k) == {Recipients[j] : j \in 1 .. k}

(* A command in flight is the one of this step, and has no reply yet; the  *)
(* connection is there while a reply may come.                             *)
Waiting ==
  /\ cmd # "none" => cmd = step /\ reply = "none" /\ link \in {"plain", "tls"}
  /\ step \notin Commands => cmd = "none" /\ reply = "none" /\ link = "down"
  /\ step \in Commands => link # "down"
  /\ link = "lost" => reply = "none" /\ cmd = "none"
  /\ outcome = "none" <=> step # "returned"

(* What the server has noted, as far as the client relies on it.           *)
Noted ==
  /\ step \in Commands \ {"rcpt", "data", "dot", "quit"} => asked = 0
  /\ link # "lost" =>
       /\ step = "mail" /\ reply = "ok" => envelope = {}
       /\ step = "rcpt" => /\ asked >= 1
                           /\ reply = "ok" => envelope = Named(asked)
                           /\ reply # "ok" => envelope = Named(asked - 1)
       /\ step = "data" => envelope = RecipientSet
       /\ step = "dot" /\ cmd = "dot" => envelope = RecipientSet

(* When the server took the mail.                                          *)
Taken ==
  /\ accepted \in {{}, RecipientSet}
  /\ step \notin {"dot", "quit", "returned"} => accepted = {}
  /\ cmd = "dot" => accepted = {}
  /\ step = "dot" /\ reply = "ok" => accepted = RecipientSet
  /\ step = "quit" \/ outcome = "sent" => accepted = RecipientSet

(* The channel of the later commands, and of all with implicit TLS.        *)
Channel ==
  /\ tls = "starttls" /\ step \in Commands \ {"greeting", "ehlo", "starttls"}
       => link # "plain"
  /\ tls = "implicit" => link # "plain"
  /\ step = "auth" /\ link = "plain" => local

Asked ==
  /\ step \in {"validate", "dial"} => asked = 0

Inv == TypeOK /\ Waiting /\ Noted /\ Taken /\ Channel /\ Asked

-----------------------------------------------------------------------------
(* The recipients named so far grow one at a time and are all in the end.  *)
LEMMA NamedFacts ==
  /\ Named(0) = {} /\ Named(Len(Recipients)) = RecipientSet
  /\ Len(Recipients) \in Nat
  /\ \A k \in 1 .. Len(Recipients) :
       /\ Named(k - 1) \union {Recipients[k]} = Named(k)
       /\ Recipients[k] \in RecipientSet
<1>1. Len(Recipients) \in Nat /\ DOMAIN Recipients = 1 .. Len(Recipients)
  BY SmtpAssumption
<1>2. Named(0) = {}  BY DEF Named
<1>3. Named(Len(Recipients)) = RecipientSet  BY <1>1 DEF Named, RecipientSet
<1>4. ASSUME NEW k \in 1 .. Len(Recipients)
      PROVE  /\ Named(k - 1) \union {Recipients[k]} = Named(k)
             /\ Recipients[k] \in RecipientSet
  <2>1. 1 .. k = (1 .. k - 1) \union {k}  BY <1>1
  <2>2. Recipients[k] \in RecipientSet  BY <1>1 DEF RecipientSet
  <2> QED  BY <2>1, <2>2 DEF Named
<1> QED  BY <1>1, <1>2, <1>3, <1>4

LEMMA InitInv == Init => Inv
<1> SUFFICES ASSUME Init PROVE Inv  OBVIOUS
<1>1. TypeOK  BY NamedFacts DEF Init, TypeOK
<1> QED
  BY <1>1 DEF Init, Inv, Waiting, Noted, Taken, Channel, Asked, Commands

(* Returning keeps the invariant, when "sent" is only said of a mail the   *)
(* server took.                                                            *)
LEMMA ReturnInv ==
  ASSUME Inv, NEW result \in {"sent", "error"}, Return(result),
         result = "sent" => accepted = RecipientSet
  PROVE  Inv'
<1>1. TypeOK'  BY DEF Inv, TypeOK, Return, config, server
<1>2. Waiting'  BY DEF Inv, Waiting, Return, Commands
<1>3. Noted' /\ Channel' /\ Asked'
  BY DEF Inv, Noted, Channel, Asked, Return, Commands
<1>4. Taken'  BY DEF Inv, Taken, Return, server
<1> QED  BY <1>1, <1>2, <1>3, <1>4 DEF Inv

LEMMA SessionInv ==
  ASSUME Inv, \/ Validate \/ Dial \/ DialFails \/ GiveUp \/ Greeted
              \/ EncryptFirst \/ Encrypted \/ Login \/ MailFrom
  PROVE  Inv'
<1> USE DEF Inv
<1> DEFINE unchanged == asked' = asked /\ envelope' = envelope /\ accepted' = accepted
<1>1. CASE \E result \in {"error"} : Return(result)
  BY <1>1, ReturnInv
<1>2. CASE Validate /\ ~ Return("error")
  BY <1>2 DEF Validate, TypeOK, Waiting, Noted, Taken, Channel, Asked, config, server,
              Commands
<1>3. CASE Dial
  BY <1>3 DEF Dial, TypeOK, Waiting, Noted, Taken, Channel, Asked, config, server,
              Commands
<1>4. CASE Greeted
  BY <1>4 DEF Greeted, Answered, Issue, TypeOK, Waiting, Noted, Taken, Channel, Asked,
              config, server, Commands
<1>5. CASE EncryptFirst /\ ~ Return("error")
  BY <1>5 DEF EncryptFirst, Answered, Issue, TypeOK, Waiting, Noted, Taken, Channel,
              Asked, config, server, Commands
<1>6. CASE Encrypted /\ ~ Return("error")
  BY <1>6 DEF Encrypted, Answered, TypeOK, Waiting, Noted, Taken, Channel, Asked,
              config, server, Commands
<1>7. CASE Login /\ ~ Return("error")
  BY <1>7 DEF Login, NeedsTLS, Answered, Issue, TypeOK, Waiting, Noted, Taken, Channel,
              Asked, config, server, Commands
<1>8. CASE MailFrom
  BY <1>8 DEF MailFrom, NeedsTLS, Answered, Issue, TypeOK, Waiting, Noted, Taken,
              Channel, Asked, config, server, Commands
<1> QED
  BY <1>1, <1>2, <1>3, <1>4, <1>5, <1>6, <1>7, <1>8 DEF DialFails, GiveUp

LEMMA TransferInv ==
  ASSUME Inv, RcptTo \/ WriteMessage \/ Quit \/ Done
  PROVE  Inv'
<1> USE DEF Inv
<1>1. CASE WriteMessage /\ Return("error")
  BY <1>1, ReturnInv
<1>2. CASE Done
  BY <1>2, ReturnInv DEF Done, Answered, Taken
<1>3. CASE RcptTo /\ asked < Len(Recipients)
  <2>1. /\ Issue("rcpt", "rcpt") /\ asked' = asked + 1 /\ link # "lost"
        /\ step \in {"mail", "rcpt"} /\ reply = "ok"
    BY <1>3 DEF RcptTo, Answered
  <2>2. asked \in Nat /\ asked' \in 1 .. Len(Recipients) /\ asked' - 1 = asked
    BY <2>1, <1>3, NamedFacts DEF TypeOK
  <2>3. envelope' = Named(asked' - 1)
    <3>1. CASE step = "mail"
      BY <3>1, <2>1, <2>2, NamedFacts DEF Noted, Issue, server, Commands
    <3>2. CASE step = "rcpt"
      BY <3>2, <2>1, <2>2 DEF Noted, Issue, server
    <3> QED  BY <2>1, <3>1, <3>2
  <2>4. TypeOK'  BY <2>1, <2>2 DEF Issue, TypeOK, server, Commands
  <2>5. Noted'  BY <2>1, <2>2, <2>3 DEF Noted, Issue
  <2>6. Waiting' /\ Taken' /\ Channel' /\ Asked'
    BY <2>1 DEF Issue, TypeOK, Waiting, Taken, Channel, Asked, config, server, Commands
  <2> QED  BY <2>4, <2>5, <2>6
<1>4. CASE RcptTo /\ ~ asked < Len(Recipients)
  <2>1. /\ Issue("data", "data") /\ asked' = asked /\ link # "lost"
        /\ step \in {"mail", "rcpt"} /\ reply = "ok"
    BY <1>4 DEF RcptTo, Answered
  <2>2. asked = Len(Recipients)
    BY <1>4, NamedFacts DEF TypeOK
  <2>3. envelope = RecipientSet
    <3>1. CASE step = "mail"
      BY <3>1, <2>1, <2>2, NamedFacts DEF Noted, Commands
    <3>2. CASE step = "rcpt"
      BY <3>2, <2>1, <2>2, NamedFacts DEF Noted
    <3> QED  BY <2>1, <3>1, <3>2
  <2>4. TypeOK'  BY <2>1 DEF Issue, TypeOK, server, Commands
  <2>5. Noted'  BY <2>1, <2>3 DEF Noted, Issue, server
  <2>6. Waiting' /\ Taken' /\ Channel' /\ Asked'
    BY <2>1 DEF Issue, TypeOK, Waiting, Taken, Channel, Asked, config, server, Commands
  <2> QED  BY <2>4, <2>5, <2>6
<1>5. CASE WriteMessage /\ ~ Return("error")
  BY <1>5 DEF WriteMessage, Answered, Issue, TypeOK, Waiting, Noted, Taken, Channel,
              Asked, config, server, Commands
<1>6. CASE Quit
  BY <1>6 DEF Quit, Answered, Issue, TypeOK, Waiting, Noted, Taken, Channel, Asked,
              config, server, Commands
<1> QED  BY <1>1, <1>2, <1>3, <1>4, <1>5, <1>6

LEMMA ServerInv ==
  ASSUME Inv, Obey \/ Refuse \/ Break
  PROVE  Inv'
<1> USE DEF Inv
<1>1. CASE Obey /\ cmd = "rcpt"
  <2>1. /\ step = "rcpt" /\ reply = "none" /\ link # "lost"
        /\ asked \in 1 .. Len(Recipients)
    BY <1>1, NamedFacts DEF Obey, Waiting, Noted, TypeOK
  <2>2. envelope' = Named(asked)
    BY <1>1, <2>1, NamedFacts DEF Obey, Noted
  <2>3. envelope' \subseteq RecipientSet
    BY <1>1, <2>1, NamedFacts DEF Obey, TypeOK
  <2>4. TypeOK'  BY <1>1, <2>3 DEF Obey, TypeOK, config
  <2>5. Noted'  BY <1>1, <2>1, <2>2 DEF Obey, Noted, Commands
  <2>6. Waiting' /\ Taken' /\ Channel' /\ Asked'
    BY <1>1, <2>1 DEF Obey, Waiting, Taken, Channel, Asked, config, Commands
  <2> QED  BY <2>4, <2>5, <2>6
<1>2. CASE Obey /\ cmd = "dot"
  <2>1. step = "dot" /\ envelope = RecipientSet /\ accepted = {}
    BY <1>2 DEF Obey, Waiting, Noted, Taken
  <2> QED
    BY <1>2, <2>1 DEF Obey, TypeOK, Waiting, Noted, Taken, Channel, Asked, config,
                      Commands
<1>3. CASE Obey /\ cmd \notin {"rcpt", "dot"}
  BY <1>3 DEF Obey, TypeOK, Waiting, Noted, Taken, Channel, Asked, config, Commands
<1>4. CASE Refuse
  BY <1>4 DEF Refuse, TypeOK, Waiting, Noted, Taken, Channel, Asked, config, server,
              Commands
<1>5. CASE Break
  BY <1>5 DEF Break, TypeOK, Waiting, Noted, Taken, Channel, Asked, config, Commands
<1> QED  BY <1>1, <1>2, <1>3, <1>4, <1>5

LEMMA StutterInv == ASSUME Inv, UNCHANGED vars PROVE Inv'
BY DEF Inv, TypeOK, Waiting, Noted, Taken, Channel, Asked, vars, config, server

LEMMA Inductive == Spec => []Inv
<1>1. Inv /\ [Next]_vars => Inv'
  BY SessionInv, TransferInv, ServerInv, StutterInv DEF Next, Client
<1> QED  BY InitInv, <1>1, PTL DEF Spec

-----------------------------------------------------------------------------
(* Every variable keeps its range (smtpreport.go:71-120).                  *)
THEOREM TypeCorrect == Spec => []TypeOK
<1>1. Inv => TypeOK  BY DEF Inv
<1> QED  BY <1>1, Inductive, PTL

(* The channel is encrypted before anything private is said on it          *)
(* (smtpreport.go:152-160).                                                *)
THEOREM SaysNothingInTheClear == Spec => []NothingInTheClear
<1>1. Inv => NothingInTheClear
  BY DEF Inv, Waiting, Channel, NothingInTheClear, TypeOK, Commands
<1> QED  BY <1>1, Inductive, PTL

(* The data follows the whole list of recipients (smtpreport.go:98-104).  *)
THEOREM EnvelopeIsWhole == Spec => []WholeEnvelope
<1>1. Inv => WholeEnvelope
  BY DEF Inv, Waiting, Noted, WholeEnvelope, TypeOK, Commands
<1> QED  BY <1>1, Inductive, PTL

(* Send implements MailSend: its initial states are initial states there,  *)
(* and each of its steps is the server taking the mail for everybody, or   *)
(* the return, or nothing (smtpreport.go:71-120).                          *)
THEOREM SendKeepsPromise == Spec => KeepsPromise
<1>1. Init => Promise!Init
  BY DEF Init, Promise!Init
<1>2. Inv /\ [Next]_vars => [Promise!Next]_<<accepted, outcome>>
  <2> SUFFICES ASSUME Inv, [Next]_vars
               PROVE  [Promise!Next]_<<accepted, outcome>>
    OBVIOUS
  <2> USE DEF Inv
  <2>0. Client => outcome = "none"
    BY DEF Waiting, Client, Validate, Dial, DialFails, GiveUp, Waits, Greeted,
           EncryptFirst, Encrypted, Login, MailFrom, RcptTo, WriteMessage, Quit, Done,
           Answered, Commands
  <2>1. CASE Client /\ Return("error")
    BY <2>0, <2>1 DEF Return, server, Promise!Next, Promise!Fail
  <2>2. CASE Done
    <3>1. /\ accepted = RecipientSet /\ outcome = "none"
          /\ accepted' = accepted /\ outcome' = "sent"
      BY <2>0, <2>2 DEF Client, Done, Answered, Return, server, Taken
    <3> QED  BY <3>1 DEF Promise!Next, Promise!Sent
  <2>3. CASE Obey /\ cmd = "dot"
    <3>1. step = "dot" /\ outcome = "none" /\ link # "lost"
      BY <2>3 DEF Obey, Waiting
    <3>2. envelope = RecipientSet /\ accepted = {}
      BY <2>3, <3>1 DEF Noted, Taken
    <3>3. accepted' = RecipientSet /\ outcome' = outcome
      BY <2>3, <3>2 DEF Obey
    <3> QED  BY <3>1, <3>2, <3>3 DEF Promise!Next, Promise!Accept
  <2>4. CASE Obey /\ cmd # "dot"
    BY <2>4 DEF Obey
  <2>5. CASE Refuse \/ Break \/ UNCHANGED vars
    BY <2>5 DEF Refuse, Break, server, vars
  <2>6. CASE Client /\ ~ Return("error") /\ ~ Done
    BY <2>6 DEF Client, Validate, Dial, DialFails, GiveUp, Greeted, EncryptFirst,
                Encrypted, Login, MailFrom, RcptTo, WriteMessage, Quit, Issue, server
  <2> QED  BY <2>1, <2>2, <2>3, <2>4, <2>5, <2>6 DEF Next
<1> QED  BY <1>1, <1>2, Inductive, PTL DEF Spec, KeepsPromise, Promise!Spec
=============================================================================
