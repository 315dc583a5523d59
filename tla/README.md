# secscan in TLA+

Models, checks and proofs of `secscan` (github `secscan-go`), a command-line
scanner that audits a Linux host, rates what it finds and delivers the report as
HTML, PDF, web page or mail. Paths below are relative to `src/`.

How to run: `tlc -config MCAudit.cfg MCAudit` checks one instance (a `.cfg` and
its module are listed under *Runs*), `tlapm AuditProofs.tla` checks the proofs of
one module.

## 1. The system: inventory

`secscan` is one process without goroutines of its own. What makes it hard is
around it: the host changes while it is being audited, every command may fail or
hang until the deadline, report files are written by one invocation and read by
another, several invocations share a directory and a web server, and the mail
server may refuse or vanish at every command.

| component | state | operations | talks to | what makes it correct |
|---|---|---|---|---|
| audit run (`internal/audit/audit.go`, `execx`, `checks/registry.go`) | the report under construction, the unit list, the context's deadline | `RunWithOptions`, `Detect`, `LocalRunner.Run` | every check module; `systemctl` | one result per selected check, in order; an end; an explanation for what was passed over |
| service checks (`internal/checks/{ssh,nginx,redis,mysql,service}`) | per module a cache of configuration or discovery, its error included | `Detect`, `Checks`, `Run` per check, `load` | the host's files, `sshd -T`, `nginx -T`, `ss`, `mysql` | a pass is earned; absent services are not judged; checks of one module agree |
| more service checks (`docker`, `phpfpm`, `searchengine`, `varnish`) | the same kind of caches, none for `varnish` | the same | `docker`, `ss`, `curl`, `varnishstat`, files | the same; a lost source neither clears nor accuses; a stricter setting is never held against the host |
| linux checks (`internal/checks/linux`) | none | fifteen checks | files, `ss`, `lsmod`, firewall and package tools | each by itself |
| parsers (`*/parser.go`) | none | text to directives | the checks | precedence of repeated and included directives |
| host discovery (`internal/system`) | none | `DetectInfo`, `RunningServices` | os-release, interfaces, `systemctl` | failure is reported |
| report preparation (`internal/audit/scoring.go`, `checks/types.go`) | the derived half of a report | `PrepareReport`, `Normalize`, scoring, sorting | the audit, every renderer | counts, lists, score and grade agree with the results; idempotent |
| comparison (`internal/report/comparereport`) | none | `Compare`, `Render` | two report files | nothing escapes the three lists; symmetric |
| HTML, batch, PDF (`htmlreport`, `batchreport`, `pdfreport`) | temporary files | `Render`, `LoadReports`, `RenderHTML` | `PrepareReport`, `wkhtmltopdf` | pages show what the report says |
| publishing (`publishreport`) | a temporary page, pages on the server | `Publish`, `Validate`, `Filename` | `rsync` | a printed link resolves; the temporary page goes |
| mail (`smtpreport`) | a connection | `Send`, `LoadConfig` | an SMTP server | all recipients or none; nothing in the clear; no false success |
| end-to-end run (`runreport`) | artifacts in the output directory | `Run` | audit, renderers, publishing, mail | success means all was done; own attachment; clean-up as asked |
| command line (`internal/cli`) | none | one function per subcommand | everything | contexts with deadlines, exit codes |

Hard behaviours, in the words of `PROJECT.json`'s hazards: state that is stale
when used (detection before checks, caches, report files), partial failures
(`systemctl`, `ss`, `rsync` for `latest.html`, one recipient of several),
deadlines between steps, interleaved invocations that share names, answers lost
on the wire, limits and caps, and an order of steps that must not change (STARTTLS
before anything else, sort before cut).

## 2. Modules

| module | models | its state and actions in the code |
|---|---|---|
| `Lists` | the three things the report does with lists: the filtering loop, `sort.SliceStable`, the sum | `Chosen`, `StableSort`, `Total`, without recursion: the order of a sort is found by counting what goes before each position |
| `Checks` | `checks/types.go` | operators: statuses, severities, `NewResult`, `Normalize` |
| `Scoring` | the pure half of `audit/scoring.go` | operators: penalties, caps, grades, both sort orders, `TopFindings`, `ModuleSummary` |
| `Prepare` | `PrepareReport` and `calculateScore` | the report's fields are the variables; `Reset` (lines 11-20), `Tally` and `Penalise` one turn of a loop each, `Arrange` the sorts, `Grade` score and grade, `PrepareAgain` a renderer that starts over on the same report |
| `Audit` | `RunWithOptions`, `Detect` and the way modules look at the host | the report is `services`, `errors`, `modules`, `results`; `cache` is what the modules' structs keep; one action per step of the loops (`DetectModule`, `SkipUndetected`, `GoOnToRead`, `ConfigCheck`, ...); `HostChanges` and `DeadlinePasses` are the environment |
| `Compare` | `comparereport.Compare` | operators in the order of the code; `CompareNext` audits again and compares; `ledger` is a reader who sees only the comparisons |
| `Views` | `htmlreport.buildView`, `batchreport.buildHostView`; extends `Prepare` | operators over the prepared report: the findings of a page, its sections, its top list, its executive summary |
| `Ratings` | what the nine packages of checks share | operators: how sources answer, the rating of a result (status, severity, visibility) |
| `Linux`, `SSH`, `Docker`, `MySQL`, `Redis`, `Nginx`, `Varnish`, `PhpFpm`, `SearchEngine` | `checks/*/module.go`, a package each | one operator per check, from the facts of the host `h` and the answers of the sources `p` to a rating, its conditions in the order of the code; `LinuxRating` and its like are the lists of `Checks()` |
| `Posture` | an audit after every change of the host | `host` and `probe` are what the checks look at, `report` their ratings; `Harden`, `Weaken`, `Lose`, `RemoveFile`, `Regain` change one thing, and `AuditAgain` in each of them runs all checks |
| `MailSend` | what a caller of `smtpreport.Send` may rely on | abstract: `accepted` and `outcome`, three actions |
| `Smtp` | `smtpreport.Send` and the server | the client's position `step`, the command in flight `cmd`, its `reply`, the connection `link`, and what the server knows (`envelope`, `accepted`); `Obey`, `Refuse` and `Break` are server and network |
| `Delivery` | `runreport.Run` with `publishreport.Publish`, and `batchreport.LoadReports` over the directory they share | per invocation a program counter; files as inodes with the set of writers whose data they hold; web server, temporary pages, mails; `command` is the command it waits for, which `Start` starts and `KillCommand` kills at the deadline, and which returns when its children let go of its output; `Kill`, `Tick`, `DeadlinePasses`; `Unparsable` is what makes the batch report fail at any moment |
| `ListProofs`, `PrepareProofs`, `AuditProofs`, `CompareProofs`, `SmtpProofs`, `DeliveryProofs`, `PostureProofs`, `PostureChanges` | theorems | section 5 |
| `MC*` | constants for TLC | section 3 |

`Prepare` and `Compare` extend `Scoring`, which extends `Checks`, which extends `Lists`. `Delivery` uses
the promise of `MailSend` as its step `SendMail`, and `Smtp` is checked and
proved to keep that promise. `Audit` ends where `Prepare` begins: `Finish` stands
for the call of `PrepareReport`, and `Delivery!Collect` for the whole audit.
`Posture` takes an audit as one step and all its sources as steady: what changes
within an audit is the subject of `Audit`, which in turn knows nothing of what a
check decides. Two properties of `Views` hold for results whose risks are neither
hidden nor without a severity (`Usual`), and `RiskIsShown` of `Posture`, proved for
every host, says that the program's own checks report no others.

What is abstracted, and why it does not matter for the properties:

- A configuration is reduced to what the check that asks for it sees: good, bad,
  not there, unreadable. One registry module stands for each way the code looks at
  a host (unit list only; re-detection and a shared command; re-detection and a
  shared file; a shared discovery; inventory only).
- In the nine packages a fact is a value of a scale from strict to lax:
  the values that the code tells apart, and the thresholds with a neighbour. One
  container, one log and one file of a kind stand for all; two stand for many where
  one may vouch for the other or come before it: nginx's server blocks, the php.ini
  of the command line and of FPM, a JVM file and its drop-in, Redis and Valkey on
  one host. A directory of drop-in
  files is two sources, its listing and its files, because the code treats their
  failures differently.
- Texts are tokens: empty, blank, or something. Penalties are whole numbers in
  the code too, so that no rounding is lost.
- Some settings are given with the host and never turned: whether a pool names a group,
  what the error of a failing aa-status says (`aaFailure`), whether systemd knows
  AppArmor. Whether a pool is a worker follows from its user, group and limit.
- The content of an artifact is the set of invocations whose data is in it.
- The mail is not spelled out; its recipients are. EHLO stands for EHLO and the
  HELO that net/smtp falls back to, which advertises nothing.

Names ending up as operators directly before the definition they vary, commented
*mutant*, are the plausible bugs used to make sure that each property can fail.

## 3. Runs

| run | configuration | checks | bounds |
|---|---|---|---|
| `prepare` | `MCPrepare.cfg` | `TypeOK`, `CountsExact`, `FindingsSorted`, `TopIsWorst`, `RowsAgree`, `ScoreMeans`, `SecondPassAgrees`, `PagesComplete`, `TopHeadsPage`, `WordsFitPage` | reports of up to 3 results out of 11 shapes and up to 2 modules, repeated and nameless ones included, 2 kept as top findings, 2 and 1 shown of them, prepared twice |
| `audit` | `MCAudit.cfg` | `TypeOK`, `VerdictsAgree`, `PassIsEarned`, `AbsentNotJudged`, `LateVerdictsAreOld` | each kind of module alone, all three modes, two changes of the host, the deadline anywhere |
| `audit_pair` | `MCAuditPair.cfg` | `OneResultPerCheck`, `AbsenceExplained`, `Terminates` | two modules in both orders, one change |
| `audit_detect` | `MCAuditDetect.cfg` | `DetectRunsNoCheck`, violated | finding 1 |
| `audit_mysql` | `MCAuditMySQL.cfg` | `MySQLPassIsEarned`, violated | finding 2 |
| `posture` | `MCPosture.cfg` | `TypeOK`, `RiskIsShown`, `ChecksAgree`, `LossClearsNobody`, `LossAccusesNobody`, `HardeningPays` | nine packages, 101 setups, hosts at most two changes away |
| `posture_socket` | `MCPostureSocket.cfg` | `SocketPolicyAccepted`, violated | finding 3 |
| `posture_localhost` | `MCPostureLocalhost.cfg` | `LocalhostAccepted`, violated | finding 4 |
| `compare` | `MCCompare.cfg` | `LedgerExact`, `MirrorImage`, `SilenceMeansSame` | two checks and results without id, 8 ratings, two comparisons |
| `smtp` | `MCSmtp.cfg` | `TypeOK`, `NothingInTheClear`, `WholeEnvelope`, `KeepsPromise`, `OnlyServerHolds` | two recipients, all TLS modes, an unknown one included |
| `delivery` | `MCDelivery.cfg` | `TypeOK`, `LinksResolve`, `AttachmentIsOwn`, `ArtifactsAsAsked`, `BatchFailsForAReason` | two invocations with four sets of options, two minutes |
| `delivery_alone` | `MCDeliveryAlone.cfg` | `SuccessIsComplete`, `TempRemoved`, `OnlyChildHolds` | one invocation, all options |

Why the bounds are enough. Three results are the least with which two may rank
alike while a third is worse and the top list of two overflows; the eleven shapes
hold every status and every class of severity. Two modules are the least that can
stand in either order or repeat each other (a fresh report holds one entry for each
module of the registry, a report file may hold any list). A page limit that equals the
report's and one below it are the two cases of the code (10 and 5 of 10). Two
changes of a host are the
least that let a configuration be good and bad again between detection and
verdict; modules do not share anything but the unit list and the deadline, so that
one module at a time shows their verdicts, and two show the loops. The properties
of `Posture` relate two audits with one change between them; `MaxChanges = 2` adds
one more change before it, in either order, and the setups are those where one
more is enough: strict ones, bare ones in which a single source vouches for a
check, lax ones, with and without a running server. With
`MaxChanges = 3` the properties hold as well for linux, docker and mysql, package by
package (914,276 states, five minutes), and all of them are proved for all
hosts. Two comparisons
are the least in which an issue appears and then vanishes or changes. Two
recipients are the least of which one can be refused. Two invocations suffice for
every conflict over a name, since files are compared in pairs; they are symmetric
(`Permuted` exchanges them, and no liveness is checked under symmetry). A deadlock
is checked for `posture`, where there is always something left to change. Every
other of these systems would be reported when it is done, since the program ends:
that is why their configurations switch it off.

What the runs found:

1. `detect` is described as "detect host/services/modules only"
   (`internal/cli/cli.go:500`), and `Detect` runs all checks of the detected
   modules and drops their results (`internal/audit/audit.go:151`).
2. The bind check of MySQL passes when `ss` fails or is cut off and the
   configuration has no bind address (`internal/checks/mysql/module.go:981`): an
   empty list of sockets counts as "restricted". The answer meant for this case
   ("listening state could not be confirmed", line 213) cannot be reached.
   `PassIsEarned` therefore speaks of the other modules.
3. The password check of MySQL reports `root_empty_password=true`, critical, for a
   root account with socket authentication (`internal/checks/mysql/module.go:298`),
   since the program runs as the system's root (`README.md:51`), whom that policy
   lets in. The remediation of the same check recommends it (line 288).
4. A search engine bound to `localhost` or `_local_` is reported as one that may
   bind to a public interface, high, and its missing TLS with it:
   `isPublicAddress` takes every name but `_site_` for public
   (`internal/checks/searchengine/module.go:1089`) and is asked before
   `isRestrictedAddress`, which accepts both names (line 1101). The remediation
   recommends localhost (line 200), and the answer for addresses that could not be
   classified (line 218) cannot be reached.

Worth knowing, and not violations of anything the repository says: a check that
sshd's module runs under `--all` without sshd reports errors, where other modules
say `not_applicable`; an error of `Send` does not mean that the mail was not taken,
so a rerun may mail twice; invocations of the same minute overwrite each other's
artifacts (`AttachmentIsOwn` and `ArtifactsAsAsked` say exactly how far that goes);
the deadline may not end a run, because it kills the command it finds and not the
command's children: the ssh that rsync started keeps the output pipe open,
`CombinedOutput` waits for it as long as the web server keeps silent, and neither
`publishreport.go:48-50` nor `execx/runner.go:16-18` sets a `WaitDelay`
(`OnlyChildHolds` says that nothing else outlives the deadline, PDF and mail aside).
A JSON file of a failed, killed or still writing invocation makes the batch report
of all hosts fail (`BatchFailsForAReason` says that nothing else does).

Four definitions of `Posture` are inventories of the same kind, complete for the
hosts checked and, the first two, proved complete for all:

- `Trusted`: where a source that falls silent may turn a finding into a pass. For
  docker's API, MySQL's and the search engine's bind address a failed `ss`; a
  `sudoers.d` that cannot be listed; a configuration file that cannot be read and is
  passed over (MySQL, php.ini, JVM options). For redis every source of its
  detection, since with Redis and Valkey on one host the program judges only the
  first of which it finds a trace.
- `Presumed`: where it may make a finding of what was none.
- `Blinding`: two checks of MySQL that get worse when root is given a password,
  which the program does not have.
- `Misjudged`: nginx's TLSv1 in the place of SSLv3 is rated worse (SSLv3 alone is a
  warning); a pool of PHP-FPM that names its first user or limit counts as a worker
  from then on (`workerPools`, `phpfpm/module.go:998`) and is held to a limit it lacks
  or exceeds; the name localhost (finding 4); and for a search engine, security that
  is switched on hides version and snapshot repositories from an API call without
  a password.

`LossClearsNobody`, `LossAccusesNobody` and `HardeningPays` say that there are no
others; a new check that swallows an error breaks one of them. More of the same
kind, visible in the modules: `systemctl show` succeeds for a unit that does not
exist and prints nothing, which is read as root (`searchengine/module.go:943-948`);
session cookies and the error log of FPM are judged by the php.ini of the command
line if that sets them (`phpfpm/module.go:950`); one nginx server block that denies
hidden files vouches for all others.

## 4. Fairness

- `Audit`: `WF(DeadlinePasses)` and `WF(~ alive /\ Program)`. Until the deadline any
  command may hang. The deadline is that of `cli.go:62-86`, and it covers every
  command, because all get the same context; it kills the one that hangs, and later
  ones are not started. What goes on then is finite. That the killed command returns
  is an assumption about the commands of these modules: `systemctl`, `pgrep`, `ss`,
  `sshd -T`, `nginx -T` and `--version` leave no child behind that keeps the output
  open. A command that does (a wrapper script, say) holds the audit up as rsync's ssh
  holds up `Delivery`, which makes no such assumption.
- `Smtp`: `WF(Client)` only. After the dial no deadline is set, so nobody obliges
  the server: `OnlyServerHolds` says that `Send` returns or waits for a command it
  has issued.
- `Delivery`: weak fairness of the steps that depend on the program alone, of the
  passing of the deadline, and of the kill that it brings to the command of the audit
  or the rsync that runs then (`OwnStep`). The return of a killed command is *not*
  fair, since `CombinedOutput` waits for the children too; a command that was not
  started past the deadline is. Nothing is assumed of `wkhtmltopdf` and of the mail
  server, which is why `OnlyChildHolds` speaks of invocations without them.

## 5. Proofs

For all values of the constants, under the named assumptions of the modules. What
these assume: limits and bounds are natural numbers (`BoundsAssumption`,
`LimitsAssumption`); a result has a status and a severity that `StatusValues` and
`SeverityValues` know, one of them standing for every string that the program does
not, and lists of steps and references (`ResultsAssumption`); the ids and modules of a comparison
are finitely many numbers and names (`CompareAssumption`); a registry names no module
twice (`AuditAssumption`); and what the types of the code say of options and hosts.

- `ListProofs`, about sequences of any length: `RankingFacts`, `RankingIsUnique`,
  `SameTerms`, `TotalOfSizes`. The first two say that `Ranking`, which picks the n-th
  position as the one that n - 1 others go before, names every position once, best
  first, and that no other arrangement does: this is what `sort.SliceStable` promises,
  so that the definition without recursion is the sort. From them follow the lemmas
  that the other modules need: sorting what was picked ranks the positions picked
  (`SortPicked`), picking one more at the end appends it (`PickGrows`), and counts
  survive picking, joining and ranking (`CountPicked`, `CountJoined`, `CountRanked`).
  The last two are about sums (as are `SmallerTerms` and `OneTermPays`, which compare two):
  they depend on their nonzero terms alone, and the sizes of
  disjoint parts add up to the size of the whole.
- `PrepareProofs`, for reports of any length. The invariants:
  - `Inv` gives `TypeCorrect`, `CountsAreExact` and `ScoreIsMeaningful`. The counts
    are inductive with the fact that the results already passed are normalised
    (rated with a status and severity of their range) and that normalising is done
    once per index: each turn of the loop adds one index to the set counted, and the
    cardinality lemmas turn that into `+ 1`. For the score, the invariant of the
    second loop says that `penalty` is at least the penalty of every result passed,
    zero exactly when all of theirs are, and that the two flags are what they name;
    the cap and the clamp then give `ScoreMeans`.
  - `Listed` gives `FindingsAreSorted`, `TopIsTheWorst` and `RowsAgreeWithSummary`.
    It says, of the loop, that the lists hold exactly the positions passed, in order,
    and, from `Arrange` on, that they are rankings of positions. A list alone does
    not say which of several equal results stands where: that is why the invariant
    speaks of positions.
  - `Settled` gives `PreparingTwiceAgrees`: what the first pass normalised is a fixed
    point of `Normalize` (`NormalizedTwice`), and the score is the one that
    `CalculateScore` gives for the results as they are, so that a second pass over
    the same results gives it again.
  - `PagesAreComplete`, `TopHeadsThePage` and `WordsFitThePage` follow from `Inv` and
    `Listed` in one state. A result is counted on its way from the report to a page,
    to a section, to the two halves of it; only one section can have it, since no
    module has two rows; and both cuts, the report's and the page's, leave the head
    of the same ranking.
- `AuditProofs`, for any registry, any flags and any number of changes of the host.
  `TypeCorrect`, `PassesAreEarned`, `VerdictsDoAgree` and `LateVerdictsRepeat` rest on
  `Inv`: to `TypeOK` it adds where the loops may stand (`Places`), that results
  belong to modules already visited (`Recorded`), that each configuration result
  is the verdict of its module's cache or `not_applicable` (`AllJustified`), and
  that a cache only holds "good" if the host was good at some time
  (`CacheEarned`). Without the cache in it the invariant is not inductive: the
  second check of a module no longer looks at the host. `AbsentNeverJudged` and
  `AbsenceIsExplained` need what the audit knows of a module that was never there,
  and of one that was always up (`AbsenceInv`): both are properties of the past
  that later changes of the host can only end. `OneResultForEachCheck` needs that the
  results are those of the checks that were passed so far (`OrderInv`).
- `CompareProofs`, for any ids, any ratings and any number of audits: `LedgerIsExact`,
  `ComparisonMirrors`, `SilenceIsSame`. The invariant is that the comparison is the
  one of the two reports at hand (`Compared`), that these name no check twice
  (`IsReport`), and `LedgerExact` itself: what a reader strikes off and adds, step by
  step, are exactly the issues that changed. Silence is the subtle one: equal issues
  may stand at other places among other results, and the sums are equal because
  their nonzero terms correspond (`SameTerms`).
- `SmtpProofs`: `TypeCorrect`, `SaysNothingInTheClear`, `EnvelopeIsWhole`,
  `SendKeepsPromise`. The invariant relates the client's step to the command in
  flight (`Waiting`), the envelope to the recipients named so far (`Noted`), what
  was taken to the steps after the final dot (`Taken`), and the step to the channel
  (`Channel`). The last theorem is the refinement: `Obey` of the final dot is
  `Accept`, `Done` is `Sent`, every other return is `Fail`, and all else stutters.
- `DeliveryProofs`, for any number of invocations, any options and any clock:
  `TypeCorrect`, `LinksAlwaysResolve`, `TempAlwaysRemoved`, `SuccessAlwaysComplete`,
  `AttachmentAlwaysOwn`, `ArtifactsAlwaysAsAsked`, `BatchAlwaysFailsForAReason`. The
  invariant grows in layers. `Types` and `Place`: an invocation has a name exactly
  from its audit on, and a file open exactly while it writes or was killed writing.
  `Served`: only pages that were uploaded are announced. `Reached` and `Announced`:
  what lies behind an invocation, at the place it has come to, was done. `Owned`
  and `Undisturbed`: a file's data come from invocations of its minute, and those of
  an invocation without a rival in its minute are whole once written. The last is
  the hard part, since an open file survives its removal and a rival may appear at
  every step; that a rival never goes away again is what makes it inductive.
- `PostureProofs`: `TypeCorrect`, `RisksAreShown`, `LossesClearNobody`,
  `ChecksAlwaysAgree`, and `PostureChanges`: `LossesAccuseNobody`,
  `HardeningAlwaysPays`, for any set of the nine packages, any hosts (`Setups`) and any
  number of changes. `SetupsAssumption` says of the hosts that each has every fact its
  package is rated by (`Facts`), which `HardeningAlwaysPays` needs for a change to
  reach its fact, and of docker's that dockerd runs on Linux only, which
  `ChecksAlwaysAgree` needs.
  The report is a function of host and sources, so the inductive part is that it is
  the report of the *present* host (`Audited`). The theorems about losses go check
  by check: if a source fails and the check was a risk and now passes (or was none
  and now is one), host and all other answers being the same, then the source is in
  `Trusted` (or `Presumed`); one lemma per package does the cases, from what the
  loss does to detection, to the files that are read and to the facts seen.

  `HardeningAlwaysPays` relates two hosts one of which is nowhere laxer (`Stricter`).
  One lemma per package says that each check then costs no more and caps the score
  only if it did before (`NoWorse`), or is one of `Blinding` and `Misjudged`
  (`CheckPays`); it does not depend on which setting was changed, nor on how many. The
  score is a sum over the checks of a package, of which there are finitely many
  (`ChecksOfPackage`). Where every term is no larger, the sum is not
  (`SmallerTerms`). Where a new root password blinds `max_connections` and
  `tls_enabled`, these cost at most 3 and 6 more, and `root_password` costs 25 less
  (`PasswordPays`, `OneTermPays`); a new warning of `tls_enabled` caps nothing, since the
  missing password already had.

Only model-checked: liveness (`Terminates`, `OnlyServerHolds`, `OnlyChildHolds`), since
the prover does not reason about fairness. That a sort or a loop of the code computes what `Lists` says of it,
for every input, is by reading; `RankingIsUnique` says that there is nothing else
a stable sort could give.

## 6. Not modelled, and the plan

Done in this order, the most important behaviour first: scoring and preparation;
the audit over a changing host; comparison; mail; the end-to-end run; what the
checks of all nine packages decide; the pages; the proofs of all of these. What
comes next, in order:

1. *Command line.* Validation, exit codes and output files of the subcommands that
   read one report and render, send or publish it. They share no state but the
   output file, which each truncates before it renders (`internal/cli/cli.go:428`).
2. *Both search engines on one host*, as for Redis and Valkey, and several pools of
   PHP-FPM.

Not modelled, and why:

- *Parsers.* From text to lists of directives, one call and no state; what TLC can
  enumerate of texts is little beside what the repository's tests do. What is
  behaviour in them, which files are read, in which order, and what an unreadable
  one does to the others, is in the modules of the checks.
- *Sizes and numbers* in configurations are classes (fit, large, unset): the
  arithmetic on them, floats included, is in one expression each.
- *Totals over hosts* of the batch report: sums over prepared reports.
- *wkhtmltopdf, net/smtp, rsync, the host's tools*: external, modelled by how the
  code uses them.
- The wording of findings, HTML templates, MIME text, CSS, the Ansible playbook, and
  parsing of `os-release` and interface addresses, which are text without state.
