--------------------------- MODULE DeliveryProofs ---------------------------
(***************************************************************************)
(* Proofs about module Delivery, for every number of invocations, every    *)
(* set of options and every bound of the clock.                            *)
(*                                                                         *)
(* Each invariant rests on those before it: the types; what the place an   *)
(* invocation has reached says of its name, its options and its open file  *)
(* (Place); what is on the web server (Served); what was done on the way   *)
(* (Reached, Announced); and what the files of a minute hold (Owned), with *)
(* or without a rival in it (Undisturbed).                                 *)
(***************************************************************************)
EXTENDS Delivery, TLAPS, FiniteSetTheorems

Unnamed == {"validate", "audit"}
Later    == {"render", "upload", "latest", "email", "send", "cleanup"}
Labels  == Ended \union Writing \union Unnamed \union Later
Names   == (1 .. MaxMinute) \X Kinds
Content == [inode : Invocations \union {None}, data : SUBSET Invocations]
Mail    == [from : Invocations, link : BOOLEAN, pdf : SUBSET Invocations]

Types ==
  /\ opt \in [Invocations -> Options]
  /\ pc \in [Invocations -> Labels]
  /\ alive \in [Invocations -> BOOLEAN]
  /\ minute \in 1 .. MaxMinute
  /\ stem \in [Invocations -> 0 .. MaxMinute]
  /\ file \in [Names -> Content]
  /\ fd \in [Invocations -> Invocations \union {None}]
  /\ temp \subseteq Invocations
  /\ web \subseteq Invocations
  /\ latest \in Invocations \union {None}
  /\ url \subseteq Invocations
  /\ attached \in [Invocations -> SUBSET Invocations]
  /\ mails \subseteq Mail
  /\ command \in [Invocations -> {"none", "running", "killed"}]

(* Names are given once, files are open only while they are written, and   *)
(* nobody gets where its options do not lead.                              *)
Place ==
  \A p \in Invocations :
    /\ pc[p] \in Unnamed => stem[p] = 0
    /\ pc[p] \in Writing \union Later \union {"ok"} => stem[p] # 0
    /\ fd[p] # None => pc[p] \in Writing \union {"killed"}
    /\ pc[p] = "pdf" => opt[p].pdf
    /\ pc[p] \in {"render", "upload", "latest"} => opt[p].publish
    /\ pc[p] = "latest" => opt[p].latest

(* What happens to commands touches the web server at most.                *)
LEMMA WaitingAlone ==
  ASSUME NEW p, Waiting(p)
  PROVE  UNCHANGED <<opt, alive, minute, stem, pc, file, fd, temp, url, attached, mails>>
BY DEF Waiting, Start, Observe, KillCommand, Orphan, local, disk, post

LEMMA TypesStep == Types /\ Place /\ [Next]_vars => Types'
<1> SUFFICES ASSUME Types, Place, [Next]_vars PROVE Types'
  OBVIOUS
<1> USE DeliveryAssumption DEF Types, Place, Labels, Unnamed, Later, Writing, Ended,
        Names, Kinds, local, disk, remote, post, Returned, Placed
<1>1. CASE UNCHANGED vars
  BY <1>1 DEF vars
<1>2. CASE Tick
  BY <1>2 DEF Tick
<1>3. ASSUME NEW p \in Invocations, Step(p) \/ Waiting(p) \/ DeadlinePasses(p) \/ Kill(p)
      PROVE  Types'
  <2>1. CASE Validate(p)
    BY <2>1 DEF Validate, Goto
  <2>2. CASE Collect(p)
    BY <2>2 DEF Collect
  <2>3. CASE Create(p)
    BY <2>3 DEF Create, Name, Content, NoFile
  <2>4. CASE CannotCreate(p)
    BY <2>4 DEF CannotCreate, Goto
  <2>5. CASE Write(p)
    <3>1. PICK content \in Filled(p, file[Name(p, pc[p])]) :
            file' = [file EXCEPT ![Name(p, pc[p])] = content]
      BY <2>5 DEF Write
    <3>2. Name(p, pc[p]) \in Names
      BY <2>5 DEF Write, Name
    <3>3. content \in Content
      <4>1. file[Name(p, pc[p])] \in Content
        BY <3>2
      <4> QED BY ONLY p \in Invocations, <3>1, <4>1 DEF Filled, Content
    <3>4. file' \in [Names -> Content]
      BY <3>1, <3>3
    <3>5. pc' \in [Invocations -> Labels]
      BY <2>5 DEF Write, Goto, After, Publishing
    <3> QED BY <2>5, <3>4, <3>5 DEF Write
  <2>6. CASE CannotWrite(p)
    BY <2>6 DEF CannotWrite, Goto
  <2>7. CASE RenderPage(p)
    BY <2>7 DEF RenderPage, Goto
  <2>8. CASE Upload(p)
    <3>1. CASE opt[p].latest
      BY <2>8, <3>1 DEF Upload, Goto
    <3>2. CASE ~ opt[p].latest
      BY <2>8, <3>2 DEF Upload, Published, TempAfter, Goto
    <3> QED BY <3>1, <3>2
  <2>9. CASE UploadLatest(p)
    BY <2>9 DEF UploadLatest, Published, TempAfter, Goto
  <2>10. CASE UploadFails(p)
    BY <2>10 DEF UploadFails, TempAfter, Goto
  <2>11. CASE PrepareMail(p)
    <3>1. Name(p, "pdf") \in Names
      BY <2>11 DEF PrepareMail, Name
    <3>2. file[Name(p, "pdf")].data \in SUBSET Invocations
      BY <3>1 DEF Content
    <3> QED BY <2>11, <3>2 DEF PrepareMail, Goto
  <2>12. CASE SendMail(p)
    <3>1. PICK taken, sent \in BOOLEAN :
            /\ mails' = IF taken THEN mails \union {[from |-> p, link |-> p \in url,
                                                     pdf |-> attached[p]]}
                                 ELSE mails
            /\ Goto(p, IF sent THEN "cleanup" ELSE "failed")
      BY <2>12 DEF SendMail
    <3>2. [from |-> p, link |-> p \in url, pdf |-> attached[p]] \in Mail
      BY DEF Mail
    <3>3. mails' \subseteq Mail
      BY <3>1, <3>2
    <3>4. pc' \in [Invocations -> Labels]
      BY <3>1 DEF Goto
    <3> QED BY <2>12, <3>3, <3>4 DEF SendMail
  <2>13. CASE CleanUp(p)
    BY <2>13 DEF CleanUp, NoFile, Content, Goto
  <2>14. CASE DeadlinePasses(p)
    BY <2>14 DEF DeadlinePasses
  <2>15. CASE Kill(p)
    BY <2>15 DEF Kill, Goto
  <2>16. CASE Waiting(p)
    BY <2>16 DEF Waiting, Start, Observe, KillCommand, Orphan
  <2> QED BY <1>3, <2>1, <2>2, <2>3, <2>4, <2>5, <2>6, <2>7, <2>8, <2>9, <2>10,
             <2>11, <2>12, <2>13, <2>14, <2>15, <2>16 DEF Step
<1> QED BY <1>1, <1>2, <1>3 DEF Next

LEMMA PlaceStep == Types /\ Place /\ [Next]_vars => Place'
<1> SUFFICES ASSUME Types, Place, [Next]_vars PROVE Place'
  OBVIOUS
<1> USE DeliveryAssumption DEF Types, Place, Labels, Unnamed, Later, Writing, Ended,
        local, disk, remote, post, Returned, Placed
<1>1. CASE UNCHANGED vars
  BY <1>1 DEF vars
<1>2. CASE Tick
  BY <1>2 DEF Tick
<1>3. ASSUME NEW p \in Invocations, Step(p) \/ Waiting(p) \/ DeadlinePasses(p) \/ Kill(p)
      PROVE  Place'
  <2>1. CASE Validate(p)
    BY <2>1 DEF Validate, Goto
  <2>2. CASE Collect(p)
    BY <2>2 DEF Collect
  <2>3. CASE Create(p)
    BY <2>3 DEF Create, Name
  <2>4. CASE CannotCreate(p)
    BY <2>4 DEF CannotCreate, Goto
  <2>5. CASE Write(p)
    BY <2>5 DEF Write, Goto, After, Publishing
  <2>6. CASE CannotWrite(p)
    BY <2>6 DEF CannotWrite, Goto
  <2>7. CASE RenderPage(p)
    BY <2>7 DEF RenderPage, Goto
  <2>8. CASE Upload(p)
    <3>1. CASE opt[p].latest
      BY <2>8, <3>1 DEF Upload, Goto
    <3>2. CASE ~ opt[p].latest
      BY <2>8, <3>2 DEF Upload, Published, Goto
    <3> QED BY <3>1, <3>2
  <2>9. CASE UploadLatest(p)
    BY <2>9 DEF UploadLatest, Published, Goto
  <2>10. CASE UploadFails(p)
    BY <2>10 DEF UploadFails, Goto
  <2>11. CASE PrepareMail(p)
    BY <2>11 DEF PrepareMail, Goto
  <2>12. CASE SendMail(p)
    BY <2>12 DEF SendMail, Goto
  <2>13. CASE CleanUp(p)
    BY <2>13 DEF CleanUp, Goto
  <2>14. CASE DeadlinePasses(p)
    BY <2>14 DEF DeadlinePasses
  <2>15. CASE Kill(p)
    BY <2>15 DEF Kill, Goto
  <2>16. CASE Waiting(p)
    BY <2>16 DEF Waiting, Start, Observe, KillCommand, Orphan
  <2> QED BY <1>3, <2>1, <2>2, <2>3, <2>4, <2>5, <2>6, <2>7, <2>8, <2>9, <2>10,
             <2>11, <2>12, <2>13, <2>14, <2>15, <2>16 DEF Step
<1> QED BY <1>1, <1>2, <1>3 DEF Next

LEMMA InitTyped == Init => Types /\ Place
<1> SUFFICES ASSUME Init PROVE Types /\ Place
  OBVIOUS
<1>1. NoFile \in Content
  BY DEF NoFile, Content
<1> QED
  BY <1>1, DeliveryAssumption DEF Init, Types, Place, Labels, Unnamed, Later, Writing,
     Ended, Names

(* Every invocation is at a place its options lead to, with names and      *)
(* files of its own kind (runreport.go:70-129).                            *)
THEOREM Typed == Spec => [](Types /\ Place)
<1>1. Types /\ Place /\ [Next]_vars => (Types /\ Place)'
  BY TypesStep, PlaceStep
<1> QED BY InitTyped, <1>1, PTL DEF Spec

(* The type invariant of the runs.                                         *)
THEOREM TypeCorrect == Spec => []TypeOK
<1>1. Types => TypeOK
  BY DEF Types, TypeOK, Labels, Unnamed, Later, Writing, Ended, Names, Kinds, Content
<1> QED BY Typed, <1>1, PTL

-----------------------------------------------------------------------------
(* The web server *)

(* latest.html follows the page it shows, and a temporary page is only     *)
(* there while it is uploaded.                                             *)
Served ==
  /\ LinksResolve
  /\ TempRemoved
  /\ \A p \in Invocations : pc[p] = "latest" => p \in web

LEMMA ServedStep == Types /\ Place /\ Served /\ [Next]_vars => Served'
<1> SUFFICES ASSUME Types, Place, Served, [Next]_vars PROVE Served'
  OBVIOUS
<1> USE DeliveryAssumption DEF Types, Served, LinksResolve, TempRemoved, Labels,
        Unnamed, Later, Writing, Ended, local, disk, remote, post, Returned, Placed
<1>1. CASE UNCHANGED vars
  BY <1>1 DEF vars
<1>2. CASE Tick
  BY <1>2 DEF Tick
<1>3. ASSUME NEW p \in Invocations, Step(p) \/ Waiting(p) \/ DeadlinePasses(p) \/ Kill(p)
      PROVE  Served'
  <2>1. CASE Validate(p)
    BY <2>1 DEF Validate, Goto
  <2>2. CASE Collect(p)
    BY <2>2 DEF Collect
  <2>3. CASE Create(p)
    BY <2>3 DEF Create
  <2>4. CASE CannotCreate(p)
    BY <2>4 DEF CannotCreate, Goto
  <2>5. CASE Write(p)
    BY <2>5 DEF Write, Goto, After, Publishing
  <2>6. CASE CannotWrite(p)
    BY <2>6 DEF CannotWrite, Goto
  <2>7. CASE RenderPage(p)
    BY <2>7 DEF RenderPage, Goto
  <2>8. CASE Upload(p)
    <3>1. CASE opt[p].latest
      BY <2>8, <3>1 DEF Upload, Goto
    <3>2. CASE ~ opt[p].latest
      <4>1. /\ web' = web \union {p} /\ url' = url \union {p} /\ temp' = temp \ {p}
            /\ pc' = [pc EXCEPT ![p] = "email"] /\ latest' = latest /\ mails' = mails
        BY <2>8, <3>2 DEF Upload, Published, TempAfter, Goto
      <4>2. LinksResolve'
        BY <4>1
      <4>3. TempRemoved'
        BY <4>1
      <4> QED BY <4>1, <4>2, <4>3
    <3> QED BY <3>1, <3>2
  <2>9. CASE UploadLatest(p)
    BY <2>9 DEF UploadLatest, Published, TempAfter, Goto
  <2>10. CASE UploadFails(p)
    BY <2>10 DEF UploadFails, TempAfter, Goto
  <2>11. CASE PrepareMail(p)
    BY <2>11 DEF PrepareMail, Goto
  <2>12. CASE SendMail(p)
    <3>1. mails' \subseteq mails \union {[from |-> p, link |-> p \in url,
                                         pdf |-> attached[p]]}
      BY <2>12 DEF SendMail
    <3>2. ASSUME NEW m \in mails', m.link PROVE m.from \in web
      <4>1. CASE m \in mails
        BY <4>1, <3>2
      <4>2. CASE m = [from |-> p, link |-> p \in url, pdf |-> attached[p]]
        <5>1. m.link = (p \in url) /\ m.from = p
          BY <4>2
        <5> QED BY <5>1, <3>2
      <4> QED BY <3>1, <4>1, <4>2
    <3> QED BY <2>12, <3>2 DEF SendMail, Goto
  <2>13. CASE CleanUp(p)
    BY <2>13 DEF CleanUp, Goto
  <2>14. CASE DeadlinePasses(p)
    BY <2>14 DEF DeadlinePasses
  <2>15. CASE Kill(p)
    BY <2>15 DEF Kill, Goto
  <2>16. CASE Waiting(p)
    BY <2>16 DEF Waiting, Start, Observe, KillCommand, Orphan
  <2> QED BY <1>3, <2>1, <2>2, <2>3, <2>4, <2>5, <2>6, <2>7, <2>8, <2>9, <2>10,
             <2>11, <2>12, <2>13, <2>14, <2>15, <2>16 DEF Step
<1> QED BY <1>1, <1>2, <1>3 DEF Next

THEOREM ServedAlways == Spec => []Served
<1>1. Init => Served
  BY DEF Init, Served, LinksResolve, TempRemoved
<1> QED BY <1>1, ServedStep, Typed, PTL DEF Spec

(* No link leads nowhere, whoever uploads when, and whatever fails or is   *)
(* killed in between (publishreport.go:95-108).                            *)
THEOREM LinksAlwaysResolve == Spec => []LinksResolve
<1>1. Served => LinksResolve
  BY DEF Served
<1> QED BY ServedAlways, <1>1, PTL

(* Only a killed invocation leaves its temporary page (publishreport.go:85).*)
THEOREM TempAlwaysRemoved == Spec => []TempRemoved
<1>1. Served => TempRemoved
  BY DEF Served
<1> QED BY ServedAlways, <1>1, PTL

-----------------------------------------------------------------------------
(* Success *)

(* What the options ask for is done when the step that does it is left, by *)
(* everyone who goes on.                                                   *)
Reached ==
  \A p \in Invocations :
    /\ p \in url => opt[p].publish
    /\ pc[p] \in {"email", "send", "cleanup", "ok"} /\ opt[p].publish
         => /\ p \in url
            /\ opt[p].latest => latest # None
    /\ pc[p] = "send" => opt[p].publish \/ opt[p].pdf
    /\ pc[p] \in {"cleanup", "ok"} /\ opt[p].mail => \E m \in mails : m.from = p

Announced ==
  \A m \in mails : /\ opt[m.from].publish = m.link
                   /\ m.link \/ opt[m.from].pdf

LEMMA ReachedStep == Types /\ Place /\ Reached /\ [Next]_vars => Reached'
<1> SUFFICES ASSUME Types, Place, Reached, [Next]_vars PROVE Reached'
  OBVIOUS
<1> USE DeliveryAssumption DEF Types, Reached, Labels, Unnamed, Later, Writing, Ended,
        local, disk, remote, post, Returned, Placed
<1>1. CASE UNCHANGED vars
  BY <1>1 DEF vars
<1>2. CASE Tick
  BY <1>2 DEF Tick
<1>3. ASSUME NEW p \in Invocations, Step(p) \/ Waiting(p) \/ DeadlinePasses(p) \/ Kill(p)
      PROVE  Reached'
  <2>1. CASE Validate(p)
    BY <2>1 DEF Validate, Goto
  <2>2. CASE Collect(p)
    BY <2>2 DEF Collect
  <2>3. CASE Create(p)
    BY <2>3 DEF Create
  <2>4. CASE CannotCreate(p)
    BY <2>4 DEF CannotCreate, Goto
  <2>5. CASE Write(p)
    BY <2>5 DEF Write, Goto, After, Publishing
  <2>6. CASE CannotWrite(p)
    BY <2>6 DEF CannotWrite, Goto
  <2>7. CASE RenderPage(p)
    BY <2>7 DEF RenderPage, Goto
  <2>8. CASE Upload(p)
    <3>1. CASE opt[p].latest
      BY <2>8, <3>1 DEF Upload, Goto
    <3>2. CASE ~ opt[p].latest
      BY <2>8, <3>2 DEF Upload, Published, Goto, Place
    <3> QED BY <3>1, <3>2
  <2>9. CASE UploadLatest(p)
    BY <2>9 DEF UploadLatest, Published, Goto, Place
  <2>10. CASE UploadFails(p)
    BY <2>10 DEF UploadFails, Goto
  <2>11. CASE PrepareMail(p)
    BY <2>11 DEF PrepareMail, Goto
  <2>12. CASE SendMail(p)
    <3>1. PICK taken, sent \in BOOLEAN :
            /\ sent => taken
            /\ mails' = IF taken THEN mails \union {[from |-> p, link |-> p \in url,
                                                     pdf |-> attached[p]]}
                                 ELSE mails
            /\ Goto(p, IF sent THEN "cleanup" ELSE "failed")
      BY <2>12 DEF SendMail
    <3>2. ASSUME sent PROVE \E m \in mails' : m.from = p
      <4> DEFINE mail == [from |-> p, link |-> p \in url, pdf |-> attached[p]]
      <4>1. mail \in mails'
        BY <3>1, <3>2
      <4>2. mail.from = p
        OBVIOUS
      <4> QED BY <4>1, <4>2
    <3>3. mails \subseteq mails'
      BY <3>1
    <3> QED BY <2>12, <3>1, <3>2, <3>3 DEF SendMail, Goto
  <2>13. CASE CleanUp(p)
    BY <2>13 DEF CleanUp, Goto
  <2>14. CASE DeadlinePasses(p)
    BY <2>14 DEF DeadlinePasses
  <2>15. CASE Kill(p)
    BY <2>15 DEF Kill, Goto
  <2>16. CASE Waiting(p)
    BY <2>16 DEF Waiting, Start, Observe, KillCommand, Orphan
  <2> QED BY <1>3, <2>1, <2>2, <2>3, <2>4, <2>5, <2>6, <2>7, <2>8, <2>9, <2>10,
             <2>11, <2>12, <2>13, <2>14, <2>15, <2>16 DEF Step
<1> QED BY <1>1, <1>2, <1>3 DEF Next

(* Only SendMail adds a mail, and no step changes the options.             *)
LEMMA MailsGrow ==
  ASSUME [Next]_vars
  PROVE  /\ opt' = opt
         /\ \/ mails' = mails
            \/ \E p \in Invocations :
                 /\ SendMail(p)
                 /\ mails' = mails \union {[from |-> p, link |-> p \in url,
                                           pdf |-> attached[p]]}
<1> USE DEF local, disk, remote, post, Returned, Placed
<1>1. ASSUME NEW p \in Invocations, SendMail(p)
      PROVE  /\ opt' = opt
             /\ \/ mails' = mails
                \/ mails' = mails \union {[from |-> p, link |-> p \in url,
                                          pdf |-> attached[p]]}
  BY <1>1 DEF SendMail
<1>2. ASSUME NEW p \in Invocations, Step(p) \/ Waiting(p) \/ DeadlinePasses(p) \/ Kill(p),
             ~ SendMail(p)
      PROVE  opt' = opt /\ mails' = mails
  BY <1>2, WaitingAlone DEF Step, Validate, Collect, Create, CannotCreate, Write,
     CannotWrite, RenderPage, Upload, UploadLatest, UploadFails, Published, PrepareMail, CleanUp,
     DeadlinePasses, Kill
<1>3. UNCHANGED vars \/ Tick => opt' = opt /\ mails' = mails
  BY DEF vars, Tick
<1> QED BY <1>1, <1>2, <1>3 DEF Next

LEMMA AnnouncedStep ==
  Types /\ Reached /\ Announced /\ [Next]_vars => Announced'
<1> SUFFICES ASSUME Types, Reached, Announced, [Next]_vars, NEW m \in mails'
             PROVE  /\ opt'[m.from].publish = m.link
                    /\ m.link \/ opt'[m.from].pdf
  BY DEF Announced
<1>1. CASE m \in mails
  BY <1>1, MailsGrow DEF Announced
<1>2. CASE m \notin mails
  <2>1. PICK p \in Invocations :
          SendMail(p) /\ m = [from |-> p, link |-> p \in url, pdf |-> attached[p]]
    BY <1>2, MailsGrow
  <2>2. m.from = p /\ m.link = (p \in url) /\ pc[p] = "send"
    BY <2>1 DEF SendMail
  <2>3. opt[p].publish \in BOOLEAN /\ opt[p].pdf \in BOOLEAN
    BY DeliveryAssumption DEF Types
  <2>4. /\ p \in url => opt[p].publish
        /\ opt[p].publish => p \in url
        /\ opt[p].publish \/ opt[p].pdf
    BY <2>2 DEF Reached
  <2> QED BY <2>2, <2>3, <2>4, MailsGrow
<1> QED BY <1>1, <1>2

(* Success means that all was done that was asked for, whatever the other  *)
(* invocations do (runreport.go:100-121).                                  *)
THEOREM SuccessAlwaysComplete == Spec => []SuccessIsComplete
<1>1. Init => Reached /\ Announced
  BY DEF Init, Reached, Announced
<1>2. (Types /\ Place) /\ (Reached /\ Announced) /\ [Next]_vars
        => (Reached /\ Announced)'
  BY ReachedStep, AnnouncedStep
<1>3. Reached /\ Announced => SuccessIsComplete
  BY DEF Reached, Announced, SuccessIsComplete
<1> QED BY <1>1, <1>2, <1>3, Typed, PTL DEF Spec

-----------------------------------------------------------------------------
(* The artifacts *)

(* Who made a file, and whose data is in it, has its minute in the name of *)
(* its artifacts; so has all a mail carries.                               *)
Owned ==
  /\ \A n \in Names :
       /\ file[n] # NoFile =>
            file[n].inode \in Invocations /\ stem[file[n].inode] = n[1]
       /\ \A q \in file[n].data : stem[q] = n[1]
  /\ \A p \in Invocations : pc[p] = "send" /\ opt[p].pdf =>
       \A q \in attached[p] : stem[q] = stem[p]
  /\ \A m \in mails : /\ stem[m.from] # 0
                      /\ opt[m.from].pdf => \A q \in m.pdf : stem[q] = stem[m.from]

Asked(p) == IF opt[p].pdf THEN Kinds ELSE Kinds \ {"pdf"}

(* Where the artifact of a kind is written.                                *)
Past == [kind \in Kinds |->
           CASE kind = "json" -> {"html", "pdf"} \union Later
             [] kind = "html" -> {"pdf"} \union Later
             [] kind = "pdf"  -> Later]

(* What an invocation without a rival holds.                               *)
Whole(p, kind) == file[Name(p, kind)].data = {p}
Held(p) ==
  /\ pc[p] \in Writing /\ fd[p] # None => file[Name(p, pc[p])].inode = fd[p]
  /\ \A kind \in Asked(p) :
       /\ pc[p] \in Past[kind] => Whole(p, kind)
       /\ pc[p] = "ok" /\ opt[p].keep => Whole(p, kind)
       /\ pc[p] = "ok" /\ ~ opt[p].keep => file[Name(p, kind)] = NoFile
  /\ pc[p] = "send" /\ opt[p].pdf => attached[p] = {p}

Undisturbed ==
  /\ \A p \in Invocations : Alone(p) => Held(p)
  /\ \A m \in mails : opt[m.from].pdf /\ Alone(m.from) => m.pdf = {m.from}

(* A name that was given stays; a rival of the same minute may still come, *)
(* but none goes.                                                          *)
LEMMA StemsStay ==
  ASSUME Types, Place, [Next]_vars
  PROVE  /\ \A i \in Invocations : stem[i] # 0 => stem'[i] = stem[i]
         /\ \A i \in Invocations : stem[i] # 0 /\ Alone(i)' => Alone(i)
<1> USE DEF Types, Place, Unnamed, local, disk, remote, post, Returned, Placed
<1>1. \A i \in Invocations : stem[i] # 0 => stem'[i] = stem[i]
  <2>1. UNCHANGED vars \/ Tick => stem' = stem
    BY DEF vars, Tick
  <2>2. ASSUME NEW p \in Invocations, Collect(p)
        PROVE  \A i \in Invocations : stem[i] # 0 => stem'[i] = stem[i]
    BY <2>2 DEF Collect
  <2>3. ASSUME NEW p \in Invocations,
               Step(p) \/ Waiting(p) \/ DeadlinePasses(p) \/ Kill(p),
               ~ Collect(p)
        PROVE  stem' = stem
    BY <2>3, WaitingAlone DEF Step, Validate, Create, CannotCreate, Write, CannotWrite,
       RenderPage, Upload, UploadLatest, UploadFails, Published, PrepareMail, SendMail,
       CleanUp, DeadlinePasses, Kill
  <2> QED BY <2>1, <2>2, <2>3 DEF Next
<1>2. ASSUME NEW i \in Invocations, stem[i] # 0, Alone(i)',
             NEW q \in Invocations \ {i}
      PROVE  stem[q] # stem[i]
  <2>1. stem'[i] = stem[i] /\ stem'[q] # stem'[i]
    BY <1>1, <1>2 DEF Alone
  <2>2. CASE stem[q] = 0
    BY <2>2, <1>2
  <2>3. CASE stem[q] # 0
    BY <2>1, <2>3, <1>1
  <2> QED BY <2>2, <2>3
<1> QED BY <1>1, <1>2 DEF Alone

(* A file changes in one of three ways, and only in those of the minute of *)
(* the invocation that changes it.                                         *)
LEMMA FilesChange ==
  ASSUME Types, Place, [Next]_vars
  PROVE  \/ file' = file
         \/ \E p \in Invocations : Create(p) \/ Write(p) \/ CleanUp(p)
<1> USE DEF local, disk, remote, post, Returned, Placed
<1>1. UNCHANGED vars \/ Tick => file' = file
  BY DEF vars, Tick
<1>2. ASSUME NEW p \in Invocations, Step(p) \/ Waiting(p) \/ DeadlinePasses(p) \/ Kill(p),
             ~ Create(p), ~ Write(p), ~ CleanUp(p)
      PROVE  file' = file
  BY <1>2, WaitingAlone DEF Step, Validate, Collect, CannotCreate, CannotWrite,
     RenderPage, Upload, UploadLatest, UploadFails, Published, PrepareMail, SendMail,
     DeadlinePasses, Kill
<1> QED BY <1>1, <1>2 DEF Next

(* What becomes of one file.                                               *)
LEMMA FileAfter ==
  ASSUME Types, Place, NEW p \in Invocations, Create(p) \/ Write(p) \/ CleanUp(p),
         NEW n \in Names
  PROVE  /\ n[1] # stem[p] => file'[n] = file[n]
         /\ Create(p) /\ n = Name(p, pc[p]) =>
              file'[n] = [inode |-> IF file[n] = NoFile THEN p ELSE file[n].inode,
                          data |-> {}]
         /\ Write(p) /\ n = Name(p, pc[p]) => file'[n] \in Filled(p, file[n])
         /\ ~ CleanUp(p) /\ n # Name(p, pc[p]) => file'[n] = file[n]
         /\ CleanUp(p) => file'[n] = IF ~ opt[p].keep /\ n \in RemovedBy(p)
                                     THEN NoFile ELSE file[n]
<1> USE DEF Types
<1>1. Name(p, pc[p])[1] = stem[p] /\ \A k \in RemovedBy(p) : k[1] = stem[p]
  BY DEF Name, RemovedBy
<1>2. CASE Create(p)
  <2>1. pc[p] # "cleanup"
    BY <1>2 DEF Create, Writing
  <2>2. file' = [file EXCEPT ![Name(p, pc[p])] =
                   [inode |-> IF file[Name(p, pc[p])] = NoFile
                              THEN p ELSE file[Name(p, pc[p])].inode,
                    data |-> {}]]
    BY <1>2 DEF Create
  <2>3. ~ Write(p)
    BY <1>2 DEF Create, Write
  <2> QED BY <1>1, <1>2, <2>1, <2>2, <2>3 DEF CleanUp
<1>3. CASE Write(p)
  <2>1. pc[p] # "cleanup" /\ ~ Create(p)
    BY <1>3 DEF Write, Create, Writing
  <2>2. PICK content \in Filled(p, file[Name(p, pc[p])]) :
          file' = [file EXCEPT ![Name(p, pc[p])] = content]
    BY <1>3 DEF Write
  <2> QED BY <1>1, <1>3, <2>1, <2>2 DEF CleanUp
<1>4. CASE CleanUp(p)
  <2>1. ~ Create(p) /\ ~ Write(p)
    BY <1>4 DEF CleanUp, Create, Write, Writing
  <2>2. DOMAIN file = Names
    OBVIOUS
  <2>3. file'[n] = IF ~ opt[p].keep /\ n \in RemovedBy(p) THEN NoFile ELSE file[n]
    BY <1>4, <2>2 DEF CleanUp
  <2> QED BY <1>1, <1>4, <2>1, <2>3
<1> QED BY <1>2, <1>3, <1>4

(* A mail that is about to be sent carries what was just read back.        *)
LEMMA AttachedAfter ==
  ASSUME Types, [Next]_vars, NEW i \in Invocations, pc'[i] = "send"
  PROVE  \/ pc[i] = "send" /\ attached'[i] = attached[i]
         \/ /\ pc[i] = "email" /\ stem' = stem /\ file' = file
            /\ opt[i].pdf => attached'[i] = file[Name(i, "pdf")].data
<1> USE DEF Types, local, disk, remote, post, Returned, Placed
<1>1. UNCHANGED vars \/ Tick => pc' = pc /\ attached' = attached
  BY DEF vars, Tick
<1>2. ASSUME NEW p \in Invocations, PrepareMail(p)
      PROVE  \/ pc[i] = "send" /\ attached'[i] = attached[i]
             \/ /\ pc[i] = "email" /\ stem' = stem /\ file' = file
                /\ opt[i].pdf => attached'[i] = file[Name(i, "pdf")].data
  <2>1. CASE i = p
    BY <1>2, <2>1 DEF PrepareMail, Goto
  <2>2. CASE i # p
    BY <1>2, <2>2 DEF PrepareMail, Goto
  <2> QED BY <2>1, <2>2
<1>3. ASSUME NEW p \in Invocations, Step(p) \/ Waiting(p) \/ DeadlinePasses(p) \/ Kill(p),
             ~ PrepareMail(p)
      PROVE  pc[i] = "send" /\ attached'[i] = attached[i]
  <2>1. attached' = attached
    BY <1>3, WaitingAlone DEF Step, Validate, Collect, Create, CannotCreate, Write,
       CannotWrite,
       RenderPage, Upload, UploadLatest, UploadFails, Published, SendMail, CleanUp,
       DeadlinePasses, Kill
  <2>2. \E label \in Labels \ {"send"} : pc' = pc \/ pc' = [pc EXCEPT ![p] = label]
    <3> USE DEF Labels, Ended, Writing, Unnamed, Later
    <3>1. CASE Validate(p) \/ Collect(p) \/ Create(p) \/ CannotCreate(p)
      BY <3>1 DEF Validate, Collect, Create, CannotCreate, Goto
    <3>2. CASE Write(p) \/ CannotWrite(p)
      BY <3>2 DEF Write, CannotWrite, Goto, After, Publishing
    <3>3. CASE Upload(p)
      BY <3>3 DEF Upload, Published, Goto
    <3>4. CASE RenderPage(p) \/ UploadLatest(p) \/ UploadFails(p)
      BY <3>4 DEF RenderPage, UploadLatest, UploadFails, Published, Goto
    <3>5. CASE SendMail(p) \/ CleanUp(p) \/ DeadlinePasses(p) \/ Kill(p)
      BY <3>5 DEF SendMail, CleanUp, DeadlinePasses, Kill, Goto
    <3>6. CASE Waiting(p)
      BY <3>6, WaitingAlone
    <3> QED BY <1>3, <3>1, <3>2, <3>3, <3>4, <3>5, <3>6 DEF Step
  <2> QED BY <2>1, <2>2
<1> QED BY <1>1, <1>2, <1>3 DEF Next

LEMMA OwnedStep == Types /\ Place /\ Owned /\ [Next]_vars => Owned'
<1> SUFFICES ASSUME Types, Place, Owned, [Next]_vars PROVE Owned'
  OBVIOUS
<1>1. ASSUME NEW n \in Names
      PROVE  /\ file'[n] # NoFile => /\ file'[n].inode \in Invocations
                                     /\ stem'[file'[n].inode] = n[1]
             /\ \A q \in file'[n].data : stem'[q] = n[1]
  <2> DEFINE Mine(f) == /\ f # NoFile => f.inode \in Invocations /\ stem[f.inode] = n[1]
                        /\ f.data \subseteq Invocations
                        /\ \A q \in f.data : stem[q] = n[1]
  <2>1. n[1] # 0
    BY DeliveryAssumption DEF Names
  <2>2. file[n] \in Content /\ Mine(file[n])
    BY DEF Types, Content, Owned
  <2>3. Mine(file'[n])
    <3>1. CASE file' = file
      BY <2>2, <3>1
    <3>2. ASSUME NEW p \in Invocations, Create(p), n = Name(p, pc[p]) PROVE Mine(file'[n])
      <4>1. file'[n] = [inode |-> IF file[n] = NoFile THEN p ELSE file[n].inode,
                        data |-> {}]
        BY <3>2, FileAfter
      <4>2. stem[p] = n[1]
        BY <3>2 DEF Name
      <4> QED BY <2>2, <4>1, <4>2
    <3>3. ASSUME NEW p \in Invocations, Write(p), n = Name(p, pc[p]) PROVE Mine(file'[n])
      <4>1. file'[n] \in Filled(p, file[n])
        BY <3>3, FileAfter
      <4>2. stem[p] = n[1]
        BY <3>3 DEF Name
      <4>3. file'[n] = file[n] \/ /\ file[n].inode = fd[p] /\ file'[n].inode = fd[p]
                                  /\ file'[n].data \in {{p}, file[n].data \union {p}}
        BY <2>2, <4>1 DEF Filled, Content
      <4>4. fd[p] # None
        BY <3>3 DEF Write
      <4>5. file[n].inode = fd[p] => file[n] # NoFile
        BY <4>4 DEF NoFile
      <4> QED BY <2>2, <4>2, <4>3, <4>5
    <3>4. ASSUME NEW p \in Invocations, CleanUp(p) PROVE Mine(file'[n])
      <4>1. file'[n] \in {NoFile, file[n]}
        BY <3>4, FileAfter
      <4>2. Mine(NoFile)
        BY DEF NoFile
      <4> QED BY <2>2, <4>1, <4>2
    <3>5. ASSUME NEW p \in Invocations, Create(p) \/ Write(p), n # Name(p, pc[p])
          PROVE  Mine(file'[n])
      <4>1. ~ CleanUp(p)
        BY <3>5 DEF Create, Write, CleanUp, Writing
      <4>2. file'[n] = file[n]
        BY <3>5, <4>1, FileAfter
      <4> QED BY <2>2, <4>2
    <3> QED BY <3>1, <3>2, <3>3, <3>4, <3>5, FilesChange
  <2>4. \A q \in Invocations : stem[q] = n[1] => stem'[q] = n[1]
    BY <2>1, StemsStay
  <2> QED BY <2>3, <2>4
<1>2. ASSUME NEW i \in Invocations, pc'[i] = "send", opt'[i].pdf,
             NEW q \in attached'[i]
      PROVE  stem'[q] = stem'[i]
  <2>1. opt' = opt
    BY MailsGrow
  <2>2. CASE pc[i] = "send" /\ attached'[i] = attached[i]
    <3>1. stem[i] # 0 /\ stem[q] = stem[i] /\ q \in Invocations
      BY <1>2, <2>1, <2>2 DEF Place, Owned, Later, Types
    <3> QED BY <3>1, StemsStay
  <2>3. CASE /\ pc[i] = "email" /\ stem' = stem /\ file' = file
             /\ opt[i].pdf => attached'[i] = file[Name(i, "pdf")].data
    <3>1. stem[i] # 0
      BY <2>3 DEF Place, Later
    <3>2. Name(i, "pdf") \in Names /\ Name(i, "pdf")[1] = stem[i]
      BY <3>1, DeliveryAssumption DEF Name, Names, Kinds, Types
    <3>3. stem[q] = stem[i]
      BY <1>2, <2>1, <2>3, <3>2 DEF Owned
    <3> QED BY <2>3, <3>3
  <2> QED BY <1>2, <2>2, <2>3, AttachedAfter
<1>3. ASSUME NEW m \in mails'
      PROVE  /\ stem'[m.from] # 0
             /\ opt'[m.from].pdf => \A q \in m.pdf : stem'[q] = stem'[m.from]
  <2> DEFINE Old == /\ m.from \in Invocations /\ m.pdf \subseteq Invocations
                    /\ stem[m.from] # 0
                    /\ opt[m.from].pdf => \A q \in m.pdf : stem[q] = stem[m.from]
  <2>1. Old
    <3>1. CASE m \in mails
      BY <3>1 DEF Owned, Types, Mail
    <3>2. CASE m \notin mails
      <4>1. PICK p \in Invocations :
              SendMail(p) /\ m = [from |-> p, link |-> p \in url, pdf |-> attached[p]]
        BY <3>2, MailsGrow
      <4>2. m.from = p /\ m.pdf = attached[p] /\ pc[p] = "send"
        BY <4>1 DEF SendMail
      <4> QED BY <4>2 DEF Owned, Place, Later, Types
    <3> QED BY <3>1, <3>2
  <2> QED BY <2>1, StemsStay, MailsGrow
<1> QED BY <1>1, <1>2, <1>3 DEF Owned

-----------------------------------------------------------------------------
(* An invocation without a rival in its minute *)

LEMMA Kindly ==
  /\ Past["json"] = {"html", "pdf"} \union Later
  /\ Past["html"] = {"pdf"} \union Later
  /\ Past["pdf"] = Later
BY DEF Past, Kinds

LEMMA NamesApart ==
  ASSUME Types, NEW p \in Invocations, stem[p] # 0, NEW kind \in Kinds, NEW k \in Kinds
  PROVE  /\ Name(p, kind) \in Names
         /\ Name(p, kind)[1] = stem[p]
         /\ Name(p, kind) = Name(p, k) => kind = k
BY DeliveryAssumption DEF Name, Names, Types

(* Nothing an invocation holds is changed by the steps of others.          *)
LEMMA Bystander ==
  ASSUME Types, Place, [Next]_vars, NEW i \in Invocations,
         ~ Step(i), ~ Kill(i), stem[i] # 0, Alone(i)
  PROVE  /\ pc'[i] = pc[i] /\ fd'[i] = fd[i] /\ attached'[i] = attached[i]
         /\ \A kind \in Kinds : file'[Name(i, kind)] = file[Name(i, kind)]
<1> USE DEF Types, local, disk, remote, post, Returned, Placed
<1>1. CASE \/ UNCHANGED vars \/ Tick
           \/ \E p \in Invocations : DeadlinePasses(p) \/ Waiting(p)
  BY <1>1, WaitingAlone DEF vars, Tick, DeadlinePasses
<1>2. ASSUME NEW p \in Invocations \ {i}, Step(p) \/ Kill(p)
      PROVE  /\ pc'[i] = pc[i] /\ fd'[i] = fd[i] /\ attached'[i] = attached[i]
             /\ \A kind \in Kinds : file'[Name(i, kind)] = file[Name(i, kind)]
  <2>1. stem[p] # stem[i]
    BY DEF Alone
  <2>2. CASE Create(p) \/ Write(p) \/ CleanUp(p)
    <3>1. \A kind \in Kinds : file'[Name(i, kind)] = file[Name(i, kind)]
      <4> SUFFICES ASSUME NEW kind \in Kinds
                   PROVE  file'[Name(i, kind)] = file[Name(i, kind)]
        OBVIOUS
      <4>1. Name(i, kind) \in Names /\ Name(i, kind)[1] # stem[p]
        BY <2>1, NamesApart
      <4> HIDE DEF Types
      <4> QED BY <4>1, <2>2, FileAfter
    <3>2. pc'[i] = pc[i] /\ fd'[i] = fd[i] /\ attached'[i] = attached[i]
      BY <2>2 DEF Create, Write, CleanUp, Goto
    <3> QED BY <3>1, <3>2
  <2>3. CASE Validate(p) \/ Collect(p) \/ CannotCreate(p) \/ CannotWrite(p) \/ Kill(p)
    BY <2>3 DEF Validate, Collect, CannotCreate, CannotWrite, Kill, Goto
  <2>4. CASE RenderPage(p) \/ Upload(p)
    BY <2>4 DEF RenderPage, Upload, Published, Goto
  <2>5. CASE UploadLatest(p) \/ UploadFails(p)
    BY <2>5 DEF UploadLatest, UploadFails, Published, Goto
  <2>6. CASE PrepareMail(p) \/ SendMail(p)
    BY <2>6 DEF PrepareMail, SendMail, Goto
  <2> QED BY <1>2, <2>2, <2>3, <2>4, <2>5, <2>6 DEF Step
<1> QED BY <1>1, <1>2 DEF Next

(* Nor does it lose anything by its own steps.                             *)
LEMMA OwnSteps ==
  ASSUME Types, Place, Owned, Undisturbed, [Next]_vars,
         NEW p \in Invocations, Step(p) \/ Kill(p), Alone(p)'
  PROVE  Held(p)'
<1> DEFINE label == pc'[p]
<1> USE DEF local, disk, remote, post, Returned, Placed
<1>1. opt' = opt /\ p \in DOMAIN pc /\ p \in DOMAIN fd /\ p \in DOMAIN attached
  BY MailsGrow DEF Types
<1>2. ASSUME label \notin Writing \union Later \union {"ok"} PROVE Held(p)'
  <2>1. \A kind \in Asked(p) : label \notin Past[kind]
    BY <1>2, Kindly DEF Asked, Kinds, Writing, Later
  <2> QED BY <1>2, <2>1, <1>1 DEF Held, Asked, Later, Writing
<1>3. ASSUME stem[p] # 0
      PROVE  /\ stem'[p] = stem[p] /\ Alone(p) /\ Held(p)
             /\ \A kind \in Kinds : Name(p, kind)' = Name(p, kind)
  BY <1>3, StemsStay DEF Undisturbed, Name
<1>4. CASE Validate(p) \/ CannotCreate(p) \/ CannotWrite(p) \/ UploadFails(p) \/ Kill(p)
  <2>1. label \in {"audit", "failed", "killed"}
    BY <1>4, <1>1 DEF Validate, CannotCreate, CannotWrite, UploadFails, Kill, Goto
  <2> QED BY <2>1, <1>2 DEF Writing, Later
<1>5. CASE Collect(p)
  <2>1. label \in {"json", "failed"} /\ fd'[p] = None
    BY <1>5, <1>1 DEF Collect, Place, Writing
  <2>2. \A kind \in Asked(p) : label \notin Past[kind]
    BY <2>1, Kindly DEF Asked, Kinds, Later
  <2> QED BY <2>1, <2>2, <1>1 DEF Held, Asked
<1>6. CASE Create(p)
  <2>1. stem[p] # 0 /\ pc[p] \in Kinds /\ pc' = pc
    BY <1>6 DEF Create, Place, Writing, Kinds
  <2>2. file'[Name(p, pc[p])].inode = fd'[p]
    <3>1. Name(p, pc[p]) \in DOMAIN file
      BY <2>1, NamesApart DEF Types
    <3> QED BY <1>1, <1>6, <3>1 DEF Create
  <2>3. ASSUME NEW kind \in Asked(p), pc[p] \in Past[kind] PROVE Whole(p, kind)'
    <3>1. kind \in Kinds /\ pc[p] # kind
      BY <2>3, <2>1, Kindly DEF Asked, Kinds, Later
    <3>2. Name(p, kind) # Name(p, pc[p]) /\ Name(p, kind) \in Names
      BY <2>1, <3>1, NamesApart
    <3>3. ~ CleanUp(p)
      BY <1>6 DEF Create, CleanUp, Writing
    <3>4. file'[Name(p, kind)] = file[Name(p, kind)]
      BY <1>6, <3>2, <3>3, FileAfter
    <3>5. Whole(p, kind)
      BY <1>3, <2>1, <2>3 DEF Held
    <3> QED BY <1>3, <2>1, <3>1, <3>4, <3>5 DEF Whole
  <2> QED BY <1>1, <1>3, <2>1, <2>2, <2>3 DEF Held, Asked, Kinds
<1>7. CASE Write(p)
  <2>1. stem[p] # 0 /\ pc[p] \in Kinds /\ fd[p] # None /\ pc[p] \in Writing
    BY <1>7 DEF Write, Place, Writing, Kinds
  <2>2. fd'[p] = None /\ label = After(p)
    BY <1>1, <1>7 DEF Write, Goto
  <2>3. Name(p, pc[p]) \in Names /\ Name(p, pc[p])[1] = stem[p]
    BY <2>1, NamesApart
  <2>4. file'[Name(p, pc[p])].data = {p}
    <3>1. file[Name(p, pc[p])].inode = fd[p]
      BY <1>3, <2>1 DEF Held
    <3>2. file[Name(p, pc[p])].data \subseteq {p}
      <4>1. \A q \in file[Name(p, pc[p])].data : q \in Invocations /\ stem[q] = stem[p]
        BY <2>3 DEF Owned, Types, Content
      <4> QED BY <4>1, <1>3, <2>1 DEF Alone
    <3>3. file'[Name(p, pc[p])] \in Filled(p, file[Name(p, pc[p])])
      BY <1>7, <2>3, FileAfter
    <3>4. file[Name(p, pc[p])] \in Content
      BY <2>3 DEF Types
    <3>5. file'[Name(p, pc[p])].data \in {{p}, file[Name(p, pc[p])].data \union {p}}
      BY <3>1, <3>3, <3>4 DEF Filled, Content
    <3> QED BY <3>2, <3>5
  <2>5. ASSUME NEW kind \in Asked(p), label \in Past[kind] PROVE Whole(p, kind)'
    <3>1. kind \in Kinds
      BY DEF Asked
    <3>2. CASE kind = pc[p]
      BY <1>3, <2>1, <2>4, <3>1, <3>2 DEF Whole
    <3>3. CASE kind # pc[p]
      <4>1. pc[p] \in Past[kind]
        BY <2>1, <2>2, <2>5, <3>1, <3>3, Kindly
           DEF After, Publishing, Asked, Kinds, Later
      <4>2. ~ CleanUp(p)
        BY <1>7 DEF Write, CleanUp, Writing
      <4>3. Name(p, kind) # Name(p, pc[p]) /\ Name(p, kind) \in Names
        BY <2>1, <3>1, <3>3, NamesApart
      <4>4. file'[Name(p, kind)] = file[Name(p, kind)]
        BY <1>7, <4>2, <4>3, FileAfter
      <4>5. Whole(p, kind)
        BY <1>3, <2>1, <4>1 DEF Held
      <4> QED BY <1>3, <2>1, <3>1, <4>4, <4>5 DEF Whole
    <3> QED BY <3>2, <3>3
  <2>6. label \notin {"send", "ok"}
    BY <2>2 DEF After, Publishing
  <2> QED BY <1>1, <2>2, <2>5, <2>6 DEF Held, Asked
<1>8. CASE RenderPage(p) \/ Upload(p) \/ UploadLatest(p) \/ PrepareMail(p) \/ SendMail(p)
  <2>1. stem[p] # 0 /\ pc[p] \in Later
    BY <1>8 DEF RenderPage, Upload, UploadLatest, PrepareMail, SendMail, Place, Later
  <2>2. file' = file /\ label \in (Later \union {"failed"}) \ {"ok"}
    BY <1>1, <1>8 DEF RenderPage, Upload, UploadLatest, Published, PrepareMail,
       SendMail, Goto, Later
  <2>3. \A kind \in Asked(p) : kind \in Kinds /\ Whole(p, kind)
    BY <1>3, <2>1, Kindly DEF Held, Asked, Kinds
  <2>4. \A kind \in Asked(p) : Whole(p, kind)'
    BY <1>3, <2>1, <2>2, <2>3 DEF Whole
  <2>5. ASSUME label = "send", opt[p].pdf PROVE attached'[p] = {p}
    <3>1. pc[p] # "send"
      BY <1>1, <1>8, <2>5 DEF RenderPage, Upload, UploadLatest, Published, PrepareMail,
         SendMail, Goto
    <3>2. attached'[p] = file[Name(p, "pdf")].data
      BY <2>5, <3>1, AttachedAfter
    <3>3. "pdf" \in Asked(p)
      BY <2>5 DEF Asked, Kinds
    <3> QED BY <2>3, <3>2, <3>3 DEF Whole
  <2>6. label \notin Writing
    BY <2>2 DEF Writing, Later
  <2> QED BY <1>1, <2>2, <2>4, <2>5, <2>6 DEF Held, Asked
<1>9. CASE CleanUp(p)
  <2>1. stem[p] # 0 /\ pc[p] \in Later /\ label = "ok"
    BY <1>1, <1>9 DEF CleanUp, Goto, Place, Later
  <2>2. ASSUME NEW kind \in Asked(p)
        PROVE  /\ opt[p].keep => Whole(p, kind)'
               /\ ~ opt[p].keep => file'[Name(p, kind)] = NoFile
    <3>1. kind \in Kinds /\ Name(p, kind) \in Names /\ Whole(p, kind)
      BY <1>3, <2>1, Kindly, NamesApart DEF Held, Asked, Kinds
    <3>2. Name(p, kind) \in RemovedBy(p)
      BY DEF RemovedBy, Asked, Kinds
    <3>3. file'[Name(p, kind)] = IF ~ opt[p].keep /\ Name(p, kind) \in RemovedBy(p)
                                 THEN NoFile ELSE file[Name(p, kind)]
      BY <1>9, <3>1, FileAfter
    <3> QED BY <1>3, <2>1, <3>1, <3>2, <3>3 DEF Whole
  <2>3. \A kind \in Asked(p) : kind \in Kinds /\ label \notin Past[kind]
    BY <2>1, Kindly DEF Asked, Kinds, Later
  <2>4. label \notin Writing /\ label # "send"
    BY <2>1 DEF Writing
  <2> QED BY <1>1, <1>3, <2>1, <2>2, <2>3, <2>4 DEF Held, Asked
<1> QED BY <1>4, <1>5, <1>6, <1>7, <1>8, <1>9 DEF Step

LEMMA UndisturbedStep ==
  Types /\ Place /\ Owned /\ Undisturbed /\ [Next]_vars => Undisturbed'
<1> SUFFICES ASSUME Types, Place, Owned, Undisturbed, [Next]_vars PROVE Undisturbed'
  OBVIOUS
<1>1. ASSUME NEW i \in Invocations, Alone(i)' PROVE Held(i)'
  <2>1. CASE Step(i) \/ Kill(i)
    BY <1>1, <2>1, OwnSteps
  <2>2. CASE ~ Step(i) /\ ~ Kill(i) /\ stem[i] # 0
    <3>1. Alone(i) /\ Held(i) /\ stem'[i] = stem[i] /\ opt' = opt
      BY <1>1, <2>2, StemsStay, MailsGrow DEF Undisturbed
    <3>2. /\ pc'[i] = pc[i] /\ fd'[i] = fd[i] /\ attached'[i] = attached[i]
          /\ \A kind \in Kinds : file'[Name(i, kind)] = file[Name(i, kind)]
      BY <2>2, <3>1, Bystander
    <3>3. \A kind \in Kinds : Name(i, kind)' = Name(i, kind)
      BY <3>1 DEF Name
    <3>4. pc[i] \in Writing => pc[i] \in Kinds /\ Name(i, pc[i])' = Name(i, pc[i])
      BY <3>1, <3>2 DEF Writing, Kinds, Name
    <3>5. \A kind \in Asked(i) : kind \in Kinds /\ Asked(i)' = Asked(i)
      BY <3>1 DEF Asked
    <3> QED BY <3>1, <3>2, <3>3, <3>4, <3>5 DEF Held, Whole, Asked
  <2>3. CASE ~ Step(i) /\ ~ Kill(i) /\ stem[i] = 0
    <3>1. pc[i] \notin Writing \union Later \union {"ok"}
      BY <2>3 DEF Place
    <3>2. pc'[i] = pc[i]
      <4> USE DEF Types, local, disk, remote, post, Returned, Placed
      <4>1. CASE \/ UNCHANGED vars \/ Tick
                 \/ \E p \in Invocations : DeadlinePasses(p) \/ Waiting(p)
        BY <4>1, WaitingAlone DEF vars, Tick, DeadlinePasses
      <4>2. ASSUME NEW p \in Invocations \ {i}, Step(p) \/ Kill(p)
            PROVE  pc'[i] = pc[i]
        <5>1. CASE Validate(p) \/ Collect(p) \/ Create(p) \/ CannotCreate(p) \/ Kill(p)
          BY <5>1 DEF Validate, Collect, Create, CannotCreate, Kill, Goto
        <5>2. CASE Write(p) \/ CannotWrite(p) \/ CleanUp(p)
          BY <5>2 DEF Write, CannotWrite, CleanUp, Goto
        <5>3. CASE RenderPage(p) \/ Upload(p)
          BY <5>3 DEF RenderPage, Upload, Published, Goto
        <5>4. CASE UploadLatest(p) \/ UploadFails(p)
          BY <5>4 DEF UploadLatest, UploadFails, Published, Goto
        <5>5. CASE PrepareMail(p) \/ SendMail(p)
          BY <5>5 DEF PrepareMail, SendMail, Goto
        <5> QED BY <4>2, <5>1, <5>2, <5>3, <5>4, <5>5 DEF Step
      <4> QED BY <2>3, <4>1, <4>2 DEF Next
    <3>3. \A kind \in Asked(i)' : pc'[i] \notin Past[kind]
      BY <3>1, <3>2, Kindly DEF Asked, Kinds, Writing, Later
    <3> QED BY <3>1, <3>2, <3>3 DEF Held, Writing, Later
  <2> QED BY <2>1, <2>2, <2>3
<1>2. ASSUME NEW m \in mails', opt'[m.from].pdf, Alone(m.from)' PROVE m.pdf = {m.from}
  <2>1. opt' = opt
    BY MailsGrow
  <2>2. CASE m \in mails
    <3>1. m.from \in Invocations /\ stem[m.from] # 0
      BY <2>2 DEF Types, Mail, Owned
    <3>2. Alone(m.from)
      BY <1>2, <3>1, StemsStay
    <3> QED BY <1>2, <2>1, <2>2, <3>2 DEF Undisturbed
  <2>3. CASE m \notin mails
    <3>1. PICK p \in Invocations :
            SendMail(p) /\ m = [from |-> p, link |-> p \in url, pdf |-> attached[p]]
      BY <2>3, MailsGrow
    <3>2. m.from = p /\ m.pdf = attached[p] /\ pc[p] = "send"
      BY <3>1 DEF SendMail
    <3>3. stem[p] # 0
      BY <3>2 DEF Place, Later
    <3>4. Alone(p) /\ Held(p)
      BY <1>2, <3>2, <3>3, StemsStay DEF Undisturbed
    <3> QED BY <1>2, <2>1, <3>2, <3>4 DEF Held
  <2> QED BY <2>2, <2>3
<1> QED BY <1>1, <1>2 DEF Undisturbed

LEMMA FilesAlways == Spec => [](Types /\ Place /\ Owned /\ Undisturbed)
<1>1. ASSUME Init PROVE Owned
  <2>1. \A n \in Names : file[n] = NoFile
    BY <1>1 DEF Init, Names
  <2>2. mails = {} /\ \A p \in Invocations : pc[p] = "validate"
    BY <1>1 DEF Init
  <2>3. NoFile.data = {}
    BY DEF NoFile
  <2> QED BY <2>1, <2>2, <2>3 DEF Owned
<1>2. Init => Undisturbed
  <2>1. Init => /\ \A p \in Invocations : pc[p] = "validate"
                /\ mails = {}
    BY DEF Init
  <2>2. \A kind \in Kinds : "validate" \notin Past[kind]
    BY Kindly DEF Kinds, Later
  <2> QED BY <2>1, <2>2 DEF Undisturbed, Held, Asked, Writing
<1>3. (Types /\ Place) /\ (Owned /\ Undisturbed) /\ [Next]_vars => (Owned /\ Undisturbed)'
  BY OwnedStep, UndisturbedStep
<1> QED BY <1>1, <1>2, <1>3, Typed, PTL DEF Spec

(* The PDF somebody receives is, whole, that of the invocation that mails  *)
(* it, or holds nothing of another minute (runreport.go:243-269).          *)
THEOREM AttachmentAlwaysOwn == Spec => []AttachmentIsOwn
<1>1. Owned /\ Undisturbed => AttachmentIsOwn
  BY DEF Owned, Undisturbed, AttachmentIsOwn
<1> QED BY <1>1, FilesAlways, PTL

(* Who succeeds alone leaves the artifacts it was to leave, whole, or none *)
(* (runreport.go:123-127).                                                 *)
THEOREM ArtifactsAlwaysAsAsked == Spec => []ArtifactsAsAsked
<1>1. ASSUME Undisturbed PROVE ArtifactsAsAsked
  <2> SUFFICES ASSUME NEW p \in Invocations, pc[p] = "ok", Alone(p), NEW kind \in Asked(p)
               PROVE  IF opt[p].keep THEN Whole(p, kind) ELSE file[Name(p, kind)] = NoFile
    BY DEF ArtifactsAsAsked, Asked, Whole
  <2> QED BY <1>1 DEF Undisturbed, Held
<1> QED BY <1>1, FilesAlways, PTL

(* A success never leaves a file that fails the batch report of all hosts, *)
(* a rival in the same minute apart (batchreport.go:57-59).                *)
THEOREM BatchAlwaysFailsForAReason == Spec => []BatchFailsForAReason
<1>1. ASSUME Types, Place, Owned, Undisturbed, NEW n \in Unparsable
      PROVE  \E p \in Invocations :
               /\ stem[p] = n[1]
               /\ pc[p] \in {"json", "failed", "killed"} \/ ~ Alone(p)
  <2>1. n \in Names /\ n[2] = "json" /\ file[n] # NoFile /\ Cardinality(file[n].data) # 1
    BY <1>1 DEF Unparsable, JSONFiles, Types
  <2> DEFINE p == file[n].inode
  <2>2. p \in Invocations /\ stem[p] = n[1] /\ stem[p] # 0
    BY <1>1, <2>1, DeliveryAssumption DEF Owned, Names
  <2>3. ASSUME Alone(p) PROVE pc[p] \in {"json", "failed", "killed"}
    <3>1. Name(p, "json") = n /\ "json" \in Asked(p) /\ "json" \in Kinds
      BY <2>1, <2>2 DEF Name, Names, Asked, Kinds
    <3>2. ~ Whole(p, "json")
      BY <2>1, <3>1, FS_Singleton DEF Whole
    <3>3. Held(p)
      BY <1>1, <2>2, <2>3 DEF Undisturbed
    <3>4. pc[p] \notin {"html", "pdf"} \union Later
      BY <3>1, <3>2, <3>3, Kindly DEF Held
    <3>5. pc[p] # "ok"
      BY <2>1, <3>1, <3>2, <3>3 DEF Held
    <3>6. pc[p] \in Labels /\ pc[p] \notin Unnamed
      BY <1>1, <2>2 DEF Types, Place
    <3> QED BY <3>4, <3>5, <3>6 DEF Labels, Ended, Writing
  <2> QED BY <2>2, <2>3
<1>2. Types /\ Place /\ Owned /\ Undisturbed => BatchFailsForAReason
  BY <1>1 DEF BatchFailsForAReason
<1> QED BY <1>2, FilesAlways, PTL
=============================================================================
