------------------------------ MODULE Delivery ------------------------------
(***************************************************************************)
(* `secscan run` (internal/report/runreport): audit, save the artifacts,   *)
(* publish the page with rsync (internal/report/publishreport), send the   *)
(* mail, clean up.  Several invocations may run on one host at a time, say *)
(* one from cron and one by hand.  They share the output directory, where  *)
(* the names of the artifacts carry nothing but the host and the minute,   *)
(* and the web server, where the name of a page carries a random suffix    *)
(* too.  Any step may fail, any invocation may be killed, and its deadline *)
(* may pass; the deadline kills the commands of the audit and rsync, not   *)
(* the renderer of the PDF and not the mail.  A killed command returns     *)
(* only when the children it left behind, such as the ssh of rsync, let go *)
(* of its output: CombinedOutput waits for that, and no WaitDelay is set.  *)
(*                                                                         *)
(* The content of an artifact is the set of invocations whose data is in   *)
(* it: {} after it was created, {p} when p wrote it, more when writers of  *)
(* one file overwrote each other.                                          *)
(***************************************************************************)
EXTENDS Integers, FiniteSets

CONSTANTS
  Invocations, None,
  Options,     \* option records an invocation may be given
  MaxMinute    \* bound on the clock

ASSUME DeliveryAssumption ==
  /\ None \notin Invocations
  /\ Options \subseteq [valid : BOOLEAN, publish : BOOLEAN, latest : BOOLEAN,
                        pdf : BOOLEAN, mail : BOOLEAN, keep : BOOLEAN]
  /\ MaxMinute \in Nat \ {0}

Kinds  == {"json", "html", "pdf"}
NoFile == [inode |-> None, data |-> {}]

VARIABLES
  opt,       \* its options; mail: recipients are given, and no --no-email
  pc,        \* where it stands
  alive,     \* its deadline has not passed
  minute,    \* the clock
  stem,      \* the minute in the names of its artifacts, 0 before
  file,      \* by minute and kind: [inode, data], or NoFile
  fd,        \* the inode it writes to
  temp,      \* the invocations whose temporary page exists
  web,       \* the invocations whose page is on the web server
  latest,    \* the invocation latest.html is from, or None
  url,       \* the invocations that know their public URL
  command,   \* the command of the audit, or the rsync, it waits for
  attached,  \* the content of the PDF it has read
  mails      \* what the mail server took

local  == <<opt, alive, minute, stem>>
disk   == <<file, fd>>
remote == <<temp, web, latest, url, command>>
post   == <<attached, mails>>
vars   == <<local, pc, disk, remote, post>>

Writing == {"json", "html", "pdf"}
Ended   == {"ok", "failed", "killed"}
Calling == {"audit", "upload", "latest"}

Init ==
  /\ opt \in [Invocations -> Options]
  /\ pc = [p \in Invocations |-> "validate"]
  /\ alive = [p \in Invocations |-> TRUE]
  /\ minute = 1
  /\ stem = [p \in Invocations |-> 0]
  /\ file = [n \in (1 .. MaxMinute) \X Kinds |-> NoFile]
  /\ fd = [p \in Invocations |-> None]
  /\ temp = {} /\ web = {} /\ latest = None /\ url = {}
  /\ command = [p \in Invocations |-> "none"]
  /\ attached = [p \in Invocations |-> {}]
  /\ mails = {}

Goto(p, label) == pc' = [pc EXCEPT ![p] = label]

(* The step behind the last artifact.                                      *)
Publishing(p) == IF opt[p].publish THEN "render" ELSE "email"

(* Options that contradict each other, or lack what publishing needs, are  *)
(* refused before anything happens.                                        *)
Validate(p) ==
  /\ pc[p] = "validate"
  /\ Goto(p, IF opt[p].valid THEN "audit" ELSE "failed")
  /\ UNCHANGED <<local, disk, remote, post>>

-----------------------------------------------------------------------------
(* Commands: LocalRunner.Run of execx and of publishreport *)

(* exec.CommandContext starts nothing once the deadline has passed.        *)
Start(p) ==
  /\ pc[p] \in Calling /\ command[p] = "none" /\ alive[p]
  /\ command' = [command EXCEPT ![p] = "running"]
  /\ UNCHANGED <<local, pc, disk, temp, web, latest, url, post>>

(* The deadline kills the command it finds running, and nothing else.      *)
KillCommand(p) ==
  /\ pc[p] \in Calling /\ command[p] = "running" /\ ~ alive[p]
  /\ command' = [command EXCEPT ![p] = "killed"]
  /\ UNCHANGED <<local, pc, disk, temp, web, latest, url, post>>

Returned(p) == command' = [command EXCEPT ![p] = "none"]

(* A command of the audit ends by itself, or was killed and nobody holds   *)
(* its output any more; its error is an observation of the audit.          *)
Observe(p) ==
  /\ pc[p] = "audit" /\ command[p] # "none"
  /\ Returned(p)
  /\ UNCHANGED <<local, pc, disk, temp, web, latest, url, post>>

(* A mutant of Collect: the time rounded to the next minute.               *)
CollectRounded(p) ==
  /\ pc[p] = "audit" /\ command[p] = "none"
  /\ stem' = [stem EXCEPT ![p] = minute + 1]
  /\ pc' \in {[pc EXCEPT ![p] = next] : next \in {"json", "failed"}}
  /\ UNCHANGED <<opt, alive, minute, disk, remote, post>>

(* The audit ends (module Audit), and the artifacts get their names and    *)
(* the directory is made.                                                  *)
Collect(p) ==
  /\ pc[p] = "audit" /\ command[p] = "none"
  /\ stem' = [stem EXCEPT ![p] = minute]
  /\ pc' \in {[pc EXCEPT ![p] = next] : next \in {"json", "failed"}}
  /\ UNCHANGED <<opt, alive, minute, disk, remote, post>>

-----------------------------------------------------------------------------
(* Artifacts *)

FixedName(p, kind) == <<1, kind>>  \* mutant of Name: without the minute
Name(p, kind) == <<stem[p], kind>>

(* os.Create empties the file of that name, or makes a new one.            *)
Create(p) ==
  /\ pc[p] \in Writing /\ fd[p] = None
  /\ LET n == Name(p, pc[p])
         inode == IF file[n] = NoFile THEN p ELSE file[n].inode
     IN  /\ file' = [file EXCEPT ![n] = [inode |-> inode, data |-> {}]]
         /\ fd' = [fd EXCEPT ![p] = inode]
  /\ UNCHANGED <<local, pc, remote, post>>

CannotCreate(p) ==
  /\ pc[p] \in Writing /\ fd[p] = None
  /\ Goto(p, "failed")
  /\ UNCHANGED <<local, disk, remote, post>>

(* A file removed in the meantime takes the data with it; one that another *)
(* invocation wrote to is overwritten, of which a longer rest may stay.    *)
Filled(p, content) ==
  IF content.inode = fd[p]
  THEN {[content EXCEPT !.data = d] : d \in {{p}, content.data \union {p}}}
  ELSE {content}

After(p) ==
  CASE pc[p] = "json" -> "html"
    [] pc[p] = "html" -> IF opt[p].pdf THEN "pdf" ELSE Publishing(p)
    [] OTHER          -> Publishing(p)

Write(p) ==
  /\ pc[p] \in Writing /\ fd[p] # None
  /\ \E content \in Filled(p, file[Name(p, pc[p])]) :
       file' = [file EXCEPT ![Name(p, pc[p])] = content]
  /\ fd' = [fd EXCEPT ![p] = None]
  /\ Goto(p, After(p))
  /\ UNCHANGED <<local, remote, post>>

(* A mutant of CannotWrite: the error is dropped.                          *)
WriteIgnored(p) ==
  /\ pc[p] \in Writing /\ fd[p] # None
  /\ fd' = [fd EXCEPT ![p] = None]
  /\ Goto(p, After(p))
  /\ UNCHANGED <<local, file, remote, post>>

(* Rendering or writing fails, wkhtmltopdf is not there: the file stays as *)
(* it was created.                                                         *)
CannotWrite(p) ==
  /\ pc[p] \in Writing /\ fd[p] # None
  /\ fd' = [fd EXCEPT ![p] = None]
  /\ Goto(p, "failed")
  /\ UNCHANGED <<local, file, remote, post>>

-----------------------------------------------------------------------------
(* publishreport.Publish *)

RenderPage(p) ==
  /\ pc[p] = "render"
  /\ \/ temp' = temp \union {p} /\ Goto(p, "upload")
     \/ temp' = temp /\ Goto(p, "failed")
  /\ UNCHANGED <<local, disk, web, latest, url, command, post>>

(* os.Remove, deferred: however Publish returns.                           *)
TempKept(p) == temp  \* mutant: the temporary page forgotten
TempAfter(p) == temp \ {p}

(* The page is on the server: the URL is printed, and the temporary page   *)
(* removed on return.                                                      *)
Published(p) ==
  /\ url' = url \union {p}
  /\ temp' = TempAfter(p)
  /\ Goto(p, "email")

Upload(p) ==
  /\ pc[p] = "upload" /\ command[p] = "running"
  /\ Returned(p)
  /\ web' = web \union {p}
  /\ IF opt[p].latest THEN Goto(p, "latest") /\ UNCHANGED <<temp, url>>
                      ELSE Published(p)
  /\ UNCHANGED <<local, disk, latest, post>>

UploadLatest(p) ==
  /\ pc[p] = "latest" /\ command[p] = "running"
  /\ Returned(p)
  /\ latest' = p
  /\ Published(p)
  /\ UNCHANGED <<local, disk, web, post>>

(* The page is put in its place on the server, or over latest.html.        *)
Placed(p) == IF pc[p] = "upload" THEN web' = web \union {p} /\ UNCHANGED latest
                                 ELSE latest' = p /\ UNCHANGED web

(* A mutant of UploadFails: the error of rsync is dropped.                 *)
UploadIgnored(p) ==
  /\ pc[p] \in {"upload", "latest"}
  /\ Returned(p)
  /\ Published(p)
  /\ UNCHANGED <<local, disk, web, latest, post>>

(* rsync cannot be started, fails, or was killed by the deadline, before   *)
(* or after the file was put in its place.                                 *)
UploadFails(p) ==
  /\ pc[p] \in {"upload", "latest"}
  /\ \/ UNCHANGED <<web, latest>>
     \/ command[p] # "none" /\ Placed(p)
  /\ Returned(p)
  /\ temp' = TempAfter(p)
  /\ Goto(p, "failed")
  /\ UNCHANGED <<local, disk, url, post>>

(* The rsync of an invocation that was killed from outside goes on without *)
(* it, and may still put the file in its place.                            *)
Orphan(p) ==
  /\ pc[p] = "killed" /\ command[p] # "none" /\ p \in temp
  /\ Returned(p)
  /\ \/ p \in web /\ latest' = p /\ UNCHANGED web
     \/ p \notin web /\ web' = web \union {p} /\ UNCHANGED latest
     \/ UNCHANGED <<web, latest>>
  /\ UNCHANGED <<local, pc, disk, temp, url, post>>

-----------------------------------------------------------------------------
(* sendEmail and the end *)

(* Without recipients there is nothing to send.  A mail needs a link or an *)
(* attachment, which is only noticed here; the SMTP configuration may not  *)
(* be readable.  The attachment is read back from the output directory.    *)
PrepareMail(p) ==
  /\ pc[p] = "email"
  /\ LET pdf == file[Name(p, "pdf")]
     IN  \/ ~ opt[p].mail /\ Goto(p, "cleanup") /\ UNCHANGED attached
         \/ opt[p].mail /\ Goto(p, "failed") /\ UNCHANGED attached
         \/ /\ opt[p].mail /\ p \in url /\ ~ opt[p].pdf
            /\ Goto(p, "send") /\ UNCHANGED attached
         \/ /\ opt[p].mail /\ opt[p].pdf /\ pdf # NoFile
            /\ Goto(p, "send")
            /\ attached' = [attached EXCEPT ![p] = pdf.data]
  /\ UNCHANGED <<local, disk, remote, mails>>

(* smtpreport.Send as module MailSend has it: an error leaves open whether *)
(* the server took the mail.                                               *)
SendMail(p) ==
  /\ pc[p] = "send"
  /\ \E taken, sent \in BOOLEAN :
       /\ sent => taken
       /\ mails' = IF taken THEN mails \union {[from |-> p, link |-> p \in url,
                                                pdf |-> attached[p]]}
                            ELSE mails
       /\ Goto(p, IF sent THEN "cleanup" ELSE "failed")
  /\ UNCHANGED <<local, disk, remote, attached>>

RemovedText(p) == {Name(p, "json"), Name(p, "html")}  \* mutant of RemovedBy
(* Only an invocation that got here removes its artifacts, by name.        *)
RemovedBy(p) == {Name(p, "json"), Name(p, "html")}
                  \union (IF opt[p].pdf THEN {Name(p, "pdf")} ELSE {})

CleanUp(p) ==
  /\ pc[p] = "cleanup"
  /\ file' = [n \in DOMAIN file |->
                IF ~ opt[p].keep /\ n \in RemovedBy(p) THEN NoFile ELSE file[n]]
  /\ Goto(p, "ok")
  /\ UNCHANGED <<local, fd, remote, post>>

-----------------------------------------------------------------------------
(* The batch report *)

(* batchreport.LoadReports, at any time and over all JSON files: one that  *)
(* is empty, or has a rest of another behind it, does not parse, and fails *)
(* the whole batch.                                                        *)
JSONFiles  == {n \in DOMAIN file : n[2] = "json" /\ file[n] # NoFile}
Unparsable == {n \in JSONFiles : Cardinality(file[n].data) # 1}

-----------------------------------------------------------------------------
(* The environment *)

(* A mutant of DeadlinePasses: the context covers the audit alone.         *)
DeadlineOfAudit(p) ==
  /\ alive[p] /\ pc[p] \in {"validate", "audit"}
  /\ alive' = [alive EXCEPT ![p] = FALSE]
  /\ UNCHANGED <<opt, pc, minute, stem, disk, remote, post>>

DeadlinePasses(p) ==
  /\ alive[p] /\ pc[p] \notin Ended
  /\ alive' = [alive EXCEPT ![p] = FALSE]
  /\ UNCHANGED <<opt, pc, minute, stem, disk, remote, post>>

(* Killed from outside, it cleans up nothing.                              *)
Kill(p) ==
  /\ pc[p] \notin Ended
  /\ Goto(p, "killed")
  /\ UNCHANGED <<local, disk, remote, post>>

Tick ==
  /\ minute < MaxMinute
  /\ minute' = minute + 1
  /\ UNCHANGED <<opt, pc, alive, stem, disk, remote, post>>

Step(p) == Validate(p) \/ Collect(p) \/ Create(p) \/ CannotCreate(p) \/ Write(p)
             \/ CannotWrite(p) \/ RenderPage(p) \/ Upload(p) \/ UploadLatest(p)
             \/ UploadFails(p) \/ PrepareMail(p) \/ SendMail(p) \/ CleanUp(p)

Waiting(p) == Start(p) \/ Observe(p) \/ KillCommand(p) \/ Orphan(p)

Next == \/ Tick
        \/ \E p \in Invocations :
             Step(p) \/ Waiting(p) \/ DeadlinePasses(p) \/ Kill(p)

Spec == Init /\ [][Next]_vars

(* What nobody but the program and the passing of time decides: its own    *)
(* steps, the deadline, and the kill the deadline sends.  Nobody promises  *)
(* that a command ends in time, that the children of a killed one let go   *)
(* of its output, that wkhtmltopdf ends, or that the mail server answers.  *)
OwnStep(p) ==
  \/ Validate(p) \/ RenderPage(p) \/ PrepareMail(p) \/ CleanUp(p)
  \/ pc[p] # "pdf" /\ (Create(p) \/ CannotCreate(p) \/ Write(p) \/ CannotWrite(p))
  \/ command[p] = "none" /\ (Start(p) \/ Collect(p) \/ UploadFails(p))
  \/ KillCommand(p)

FairSpec == Spec /\ \A p \in Invocations : WF_vars(OwnStep(p)) /\ WF_vars(DeadlinePasses(p))

-----------------------------------------------------------------------------
(* Properties *)

Alone(p) == \A q \in Invocations \ {p} : stem[q] # stem[p]

TypeOK ==
  /\ pc \in [Invocations -> Ended \union Writing \union {"validate", "audit",
               "render", "upload", "latest", "email", "send", "cleanup"}]
  /\ stem \in [Invocations -> 0 .. MaxMinute]
  /\ \A n \in DOMAIN file : /\ file[n].inode \in Invocations \union {None}
                             /\ file[n].data \subseteq Invocations
  /\ fd \in [Invocations -> Invocations \union {None}]
  /\ temp \subseteq Invocations /\ web \subseteq Invocations
  /\ command \in [Invocations -> {"none", "running", "killed"}]

(* Every link that was printed or mailed leads to the page of the report   *)
(* it announces, and latest.html shows a report that has a page of its own *)
(* (publishreport.go:95-108, runreport.go:113-121).                        *)
LinksResolve ==
  /\ url \subseteq web
  /\ \A m \in mails : m.link => m.from \in web
  /\ latest # None => latest \in web

(* Success means that all was done that was asked for: published, also as  *)
(* latest.html if wanted, and mailed with what was promised, and nothing   *)
(* is mailed that announces neither a link nor a PDF                       *)
(* (runreport.go:100-121).                                                 *)
SuccessIsComplete ==
  /\ \A p \in Invocations :
       pc[p] = "ok" => /\ opt[p].publish => p \in url
                       /\ opt[p].publish /\ opt[p].latest => latest # None
                       /\ opt[p].mail => \E m \in mails : m.from = p
  /\ \A m \in mails : /\ opt[m.from].publish = m.link
                      /\ m.link \/ opt[m.from].pdf

(* The PDF somebody receives is, complete, that of the invocation that     *)
(* mails it, unless another invocation of the same minute meddles with the *)
(* file; then it holds at least nothing of another minute                  *)
(* (runreport.go:243-250, 257-269).                                        *)
AttachmentIsOwn ==
  \A m \in mails : opt[m.from].pdf =>
    /\ Alone(m.from) => m.pdf = {m.from}
    /\ \A q \in m.pdf : stem[q] = stem[m.from]

(* An invocation that succeeded left its artifacts whole if it was to keep *)
(* them and none if it was not, another of the same minute apart           *)
(* (runreport.go:123-127).                                                 *)
ArtifactsAsAsked ==
  \A p \in Invocations : pc[p] = "ok" /\ Alone(p) =>
    \A kind \in IF opt[p].pdf THEN Kinds ELSE Kinds \ {"pdf"} :
      LET f == file[Name(p, kind)]
      IN  IF opt[p].keep THEN f.data = {p} ELSE f = NoFile

(* Every file that fails the batch report of all hosts is one whose        *)
(* invocation is still writing it, failed, was killed or had a rival in    *)
(* the same minute: success leaves nothing behind that spoils the reports  *)
(* of others (batchreport.go:57-59).                                       *)
BatchFailsForAReason ==
  \A n \in Unparsable : \E p \in Invocations :
    /\ stem[p] = n[1]
    /\ pc[p] \in {"json", "failed", "killed"} \/ ~ Alone(p)

(* The temporary page outlives the publishing only of an invocation that   *)
(* was killed (publishreport.go:85).                                       *)
TempRemoved == \A p \in temp : pc[p] \in {"upload", "latest", "killed"}

(* An invocation that renders no PDF and sends no mail ends, however long  *)
(* the audited host or the web server keeps silent, unless the deadline    *)
(* killed a command whose child holds the output for ever                  *)
(* (cli.go:282, publishreport.go:48-50, 95-99).                            *)
OnlyChildHolds ==
  \A p \in Invocations :
    ~ opt[p].pdf /\ ~ opt[p].mail =>
      <>(pc[p] \in Ended \/ [](command[p] = "killed"))
=============================================================================
