------------------------------- MODULE Issues -------------------------------
(***************************************************************************)
(* The life of an issue on Town's side: a request an operator submits and  *)
(* Town publishes once (requests.go), the intake an issue passes before    *)
(* it is worked on (reconcile.go, applySimplification, hall.go), the close *)
(* that carries out a decline (closeDeclinedProposals), the import of what *)
(* Issue Bot did (issue_jobs.go) and the fresh start after Town closed the *)
(* pull request (resolution.go).                                           *)
(*                                                                         *)
(* Several actors change one task between another's read and write: the    *)
(* repository pass, the request publisher, the runs of Simplifier Bot,     *)
(* Mayor Bot and Issue Bot, the operator's clicks, and people on GitHub.   *)
(* Every action is one Update of the store or one call to GitHub; what a   *)
(* goroutine read earlier is in a variable of its own.  Issue Bot itself   *)
(* is module IssueBot; here it is what its jobs show to Town.              *)
(***************************************************************************)
EXTENDS Integers, FiniteSets

CONSTANTS
  Numbers,    \* the issue numbers GitHub can hand out: 1 .. n
  Requests,   \* the requests operators may submit
  Filed,      \* who else files issues: a subset of {"outside", "feature", "simplifier"}
  Modes,      \* what operators set Simplifier to: a subset of {"auto", "suggest"}
  MaxIntake,  \* issues people file and requests they submit, together
  MaxPulls,   \* the pull requests Issue Bot may open
  MaxEvents,  \* what people do: close, reopen, lock, unlock, set the mode
  MaxFaults,  \* failed runs, refused or lost calls, crashes
  NoTask, Nobody

Pulls == 1 .. MaxPulls
Stages == {"simplifying", "awaiting_mayor", "declined", "closing", "closed", "locked",
           "queued", "implemented", "blocked"}
Tries == 0 .. 3   \* the failures of a bot a task counts
Tasks == [house : {"simplifier", "hall", "issue"}, stage : Stages,
          dec : {"", "pending", "admitted", "declined"}, ext : BOOLEAN,
          simp : {"none", "admit", "decline", "advice"}, att : Tries,
          blocked : BOOLEAN, requeue : Pulls \cup {0}]

ASSUME IssuesAssumption ==
  /\ Numbers \subseteq Nat \ {0} /\ NoTask \notin Tasks
  /\ Requests \cap Filed = {} /\ Nobody \notin Requests \cup Filed
  /\ Filed \subseteq {"outside", "feature", "simplifier"}
  /\ Modes \subseteq {"auto", "suggest"}
  /\ MaxIntake \in Nat /\ MaxPulls \in Nat /\ MaxEvents \in Nat /\ MaxFaults \in Nat

VARIABLES
  gh,       \* GitHub: per number its state, its lock and who filed it
  task,     \* Town's durable task of each issue, or NoTask
  req,      \* the durable state of each request
  owned,    \* durable: Town's pull requests and the issue each implements
  job,      \* Issue Bot's durable job of each issue, as it reports it
  pulls,    \* GitHub: state of each of Town's pull requests
  pub,      \* the request publisher, one at a time
  pass,     \* the repository pass, under its gate
  sync,     \* one import of Issue Bot's jobs, under issueMu
  sim,      \* the issue Simplifier Bot assesses, 0 when none, and the mode it was told
  jud,      \* the arrival Mayor Bot judges, 0 when none
  run,      \* the issue Issue Bot works on and the pull request it was told is closed
  mode,     \* Simplifier's configured mode
  events, faults,
  settled,  \* history: issues Town closed and recorded as closed, with nobody deciding since
  past,     \* history: which issues people closed, and locked
  refused   \* history: an Update the store's validation refused

storeVars == <<task, req, owned>>
githubVars == <<gh, pulls>>
runVars == <<sim, jud, run>>
vars == <<gh, task, req, owned, job, pulls, pub, pass, sync, sim, jud, run,
          mode, events, faults, settled, past, refused>>

NoJob == [status |-> "none", pr |-> 0]
Absent == [st |-> "none", locked |-> FALSE, from |-> Nobody]
IdlePub == [req |-> Nobody, at |-> "idle", num |-> 0, st |-> "open"]
IdlePass == [at |-> "idle", seen |-> {}, prs |-> {}, todo |-> {}, n |-> 0]
IdleSync == [by |-> "nobody", jobs |-> [n \in Numbers |-> NoJob]]
NoSim == [n |-> 0, mode |-> "auto"]
NoRun == [n |-> 0, superseded |-> 0, at |-> "idle"]

Fault == faults < MaxFaults /\ faults' = faults + 1
Known(n) == task[n] # NoTask
AutoDeclined(t) == t.simp = "decline"

\* Store.Update refuses a state that fails validate(): a pending decision
\* waits in Town Hall, a decline stays there, simplifying is Simplifier's.
Acceptable(t) ==
  \/ t = NoTask
  \/ /\ t.dec = "pending" => t.house = "hall" /\ t.stage = "awaiting_mayor"
     /\ t.dec = "declined" => t.house = "hall" /\ t.stage = "declined"
     /\ t.stage = "simplifying" => t.house = "simplifier"

Commit(new) ==
  IF \A n \in Numbers : Acceptable(new[n])
  THEN task' = new /\ UNCHANGED refused
  ELSE refused' = TRUE /\ UNCHANGED task

Put(n, t) == Commit([task EXCEPT ![n] = t])

Init ==
  /\ gh = [n \in Numbers |-> Absent]
  /\ task = [n \in Numbers |-> NoTask]
  /\ req = [r \in Requests |-> [status |-> "none", num |-> 0]]
  /\ owned = [p \in Pulls |-> 0] /\ pulls = [p \in Pulls |-> "none"]
  /\ job = [n \in Numbers |-> NoJob]
  /\ pub = IdlePub /\ pass = IdlePass /\ sync = IdleSync
  /\ sim = NoSim /\ jud = 0 /\ run = NoRun
  /\ mode = "auto"
  /\ events = 0 /\ faults = 0 /\ settled = {} /\ past = [n \in Numbers |-> {}] /\ refused = FALSE

-----------------------------------------------------------------------------
(* GitHub and the people on it.                                            *)

NextNumber == CHOOSE n \in Numbers : gh[n].st = "none" /\ \A m \in Numbers : m < n => gh[m].st # "none"
RoomLeft == \E n \in Numbers : gh[n].st = "none"
Opened(from) == [gh EXCEPT ![NextNumber] = [st |-> "open", locked |-> FALSE, from |-> from]]

Intake == Cardinality({n \in Numbers : gh[n].from \in Filed})
          + Cardinality({r \in Requests : req[r].status # "none"})

FileIssue(from) ==
  /\ Intake < MaxIntake /\ RoomLeft /\ gh' = Opened(from)
  /\ UNCHANGED <<task, req, owned, job, pulls, pub, pass, sync, runVars, mode, events, faults, settled, past, refused>>

PersonEdits(n, new, what) ==
  /\ events < MaxEvents /\ gh[n].st # "none" /\ gh[n] # new
  /\ gh' = [gh EXCEPT ![n] = new] /\ events' = events + 1
  /\ past' = [past EXCEPT ![n] = @ \cup what]
  /\ UNCHANGED <<task, req, owned, job, pulls, pub, pass, sync, runVars, mode, faults, settled, refused>>

PersonCloses(n) == PersonEdits(n, [gh[n] EXCEPT !.st = "closed"], {"closed"})
PersonReopens(n) == PersonEdits(n, [gh[n] EXCEPT !.st = "open"], {})
PersonLocks(n) == PersonEdits(n, [gh[n] EXCEPT !.locked = ~@], {"locked"})

\* An operator changes Simplifier's mode; a run keeps the mode it began with.
SetMode(m) ==
  /\ events < MaxEvents /\ mode # m /\ mode' = m /\ events' = events + 1
  /\ UNCHANGED <<gh, task, req, owned, job, pulls, pub, pass, sync, runVars, faults, settled, past, refused>>

-----------------------------------------------------------------------------
(* Requests: an issue submission is posted once, whatever is lost.         *)

NewTask(house, stage, dec, ext) ==
  [house |-> house, stage |-> stage, dec |-> dec, ext |-> ext, simp |-> "none",
   att |-> 0, blocked |-> FALSE, requeue |-> 0]

SubmitRequest(r) ==
  /\ req[r].status = "none" /\ Intake < MaxIntake
  /\ req' = [req EXCEPT ![r].status = "queued"]
  /\ UNCHANGED <<gh, task, owned, job, pulls, pub, pass, sync, runVars, mode, events, faults, settled, past, refused>>

\* Mutant: the possibility of the write is not saved first.
PublishUnsaved(r) ==
  /\ pub.at = "idle" /\ req[r].status \in {"queued", "uncertain"}
  /\ pub' = [IdlePub EXCEPT !.req = r, !.at = IF req[r].status = "queued" THEN "create" ELSE "find"]
  /\ UNCHANGED <<gh, task, req, owned, job, pulls, pass, sync, runVars, mode, events, faults, settled, past, refused>>

\* The possibility of a write is durable before the write: only a request
\* still "queued" is created, any other is looked up.
PublishRequest(r) ==
  /\ pub.at = "idle" /\ req[r].status \in {"queued", "uncertain"}
  /\ pub' = [IdlePub EXCEPT !.req = r, !.at = IF req[r].status = "queued" THEN "create" ELSE "find"]
  /\ req' = [req EXCEPT ![r].status = "uncertain"]
  /\ UNCHANGED <<gh, task, owned, job, pulls, pass, sync, runVars, mode, events, faults, settled, past, refused>>

\* What the publisher heard: no issue (0), or an issue and the state it was in.
Answered(n) == pub' = [pub EXCEPT !.at = "answer", !.num = n, !.st = IF n = 0 THEN "open" ELSE gh'[n].st]

CreateIssue ==
  /\ pub.at = "create"
  /\ \/ /\ RoomLeft /\ gh' = Opened(pub.req)
        /\ \/ Answered(NextNumber) /\ UNCHANGED faults
           \/ Answered(0) /\ Fault              \* the answer is lost
     \/ UNCHANGED gh /\ Answered(0) /\ Fault    \* nothing was created
  /\ UNCHANGED <<task, req, owned, job, pulls, pass, sync, runVars, mode, events, settled, past, refused>>

Receipts(r) == {n \in Numbers : gh[n].from = r}

FindRequest ==
  /\ pub.at = "find" /\ UNCHANGED gh
  /\ \/ Answered(IF Cardinality(Receipts(pub.req)) = 1 THEN CHOOSE n \in Receipts(pub.req) : TRUE ELSE 0)
        /\ UNCHANGED faults
     \/ Answered(0) /\ Fault
  /\ UNCHANGED <<task, req, owned, job, pulls, pass, sync, runVars, mode, events, settled, past, refused>>

ConfirmRequest ==
  /\ pub.at = "answer" /\ pub' = IdlePub
  /\ IF pub.num = 0 THEN UNCHANGED <<req, task, refused>>
     ELSE /\ req' = [req EXCEPT ![pub.req] = [status |-> "confirmed", num |-> pub.num]]
          /\ IF Known(pub.num) THEN UNCHANGED <<task, refused>>
             ELSE Put(pub.num, IF pub.st = "closed" THEN NewTask("issue", "closed", "", FALSE)
                               ELSE NewTask("simplifier", "simplifying", "", FALSE))
  /\ UNCHANGED <<gh, owned, job, pulls, pass, sync, runVars, mode, events, faults, settled, past>>

-----------------------------------------------------------------------------
(* The repository pass.                                                    *)

\* Mutant: a reopen of a declined issue is a close to retry.
ResumeDeclines(t) ==
  IF t.dec = "declined" \/ (t.house = "hall" /\ AutoDeclined(t)) THEN [t EXCEPT !.stage = "declined"]
  ELSE IF t.house = "simplifier" THEN [t EXCEPT !.stage = "simplifying"]
  ELSE IF t.house = "hall" THEN [t EXCEPT !.stage = "awaiting_mayor", !.dec = "pending"]
  ELSE [t EXCEPT !.stage = "queued", !.house = "issue"]

\* Mutant: a reopened issue goes to the worker whatever its intake.
ResumeToWork(t) ==
  IF t.dec = "declined" THEN [t EXCEPT !.stage = "declined"]
  ELSE [t EXCEPT !.stage = "queued", !.house = "issue"]

\* resume: work goes back where its intake stood; the house is the record.
Resume(t) ==
  IF t.house = "hall" /\ t.dec = "" /\ AutoDeclined(t) /\ t.stage = "closed"
  THEN [t EXCEPT !.stage = "awaiting_mayor", !.dec = "pending"]
  ELSE IF t.dec = "declined" \/ (t.house = "hall" /\ AutoDeclined(t))
  THEN [t EXCEPT !.stage = "declined"]
  ELSE IF t.house = "simplifier" THEN [t EXCEPT !.stage = "simplifying"]
  ELSE IF t.house = "hall" THEN [t EXCEPT !.stage = "awaiting_mayor", !.dec = "pending"]
  ELSE [t EXCEPT !.stage = "queued", !.house = "issue"]

\* Only the bots' own markers are recognised: an issue Town published for a
\* request is "outside" when the inventory is the first to meet it.
Arrival(from) ==
  IF from = "simplifier"
  THEN IF mode = "suggest" THEN NewTask("hall", "awaiting_mayor", "pending", FALSE)
       ELSE NewTask("issue", "queued", "", FALSE)
  ELSE NewTask("simplifier", "simplifying", "", from # "feature")

\* Mutant: a closure leaves the pending decision where it is.
ObservedPending(t, g) ==
  IF t.dec = "declined" THEN t
  ELSE IF g.st = "closed" THEN [t EXCEPT !.stage = "closed"]
  ELSE IF t.dec = "pending" THEN t
  ELSE IF g.locked THEN [t EXCEPT !.stage = "locked"]
  ELSE IF t.stage \in {"closed", "locked"} \/ (t.stage = "queued" /\ t.house # "issue") THEN Resume(t)
  ELSE t

Observed(t, g) ==
  IF t.dec = "declined" THEN t
  ELSE IF g.st = "closed" THEN [t EXCEPT !.stage = "closed", !.dec = IF @ = "pending" THEN "" ELSE @]
  ELSE IF t.dec = "pending" THEN t
  ELSE IF g.locked THEN [t EXCEPT !.stage = "locked"]
  ELSE IF t.stage \in {"closed", "locked"} \/ (t.stage = "queued" /\ t.house # "issue") THEN Resume(t)
  ELSE t

\* An open pull request of Town's own keeps its issue implemented.
Implementing(n, t) ==
  \E p \in pass.prs : owned[p] = n /\ t.stage # "closed" /\ t.requeue # p

Reconciled(n) ==
  IF \A g \in pass.seen : g.n # n THEN task[n]
  ELSE LET g == CHOOSE g \in pass.seen : g.n = n
           t == Observed(IF Known(n) THEN task[n] ELSE Arrival(g.from), g)
       IN  IF Implementing(n, t) THEN [t EXCEPT !.stage = "implemented"] ELSE t

StartPass ==
  /\ pass.at = "idle" /\ sync.by = "nobody"
  /\ pass' = [IdlePass EXCEPT !.at = "sync"]
  /\ sync' = [by |-> "pass", jobs |-> job]
  /\ UNCHANGED <<storeVars, githubVars, job, pub, runVars, mode, events, faults, settled, past, refused>>

Observe ==
  /\ pass.at = "observe"
  /\ \/ /\ pass' = [pass EXCEPT !.at = "read", !.prs = {p \in Pulls : pulls[p] = "open"},
                      !.seen = {[n |-> n, st |-> gh[n].st, locked |-> gh[n].locked, from |-> gh[n].from] :
                                n \in {m \in Numbers : gh[m].st # "none"}}]
        /\ UNCHANGED faults
     \/ pass' = IdlePass /\ Fault
  /\ UNCHANGED <<storeVars, githubVars, job, pub, sync, runVars, mode, events, settled, past, refused>>

Reconcile ==
  /\ pass.at = "read"
  /\ pass' = [pass EXCEPT !.at = "import", !.prs = {p \in @ : owned[p] # 0}]
  /\ Commit([n \in Numbers |-> Reconciled(n)])
  /\ UNCHANGED <<req, owned, githubVars, job, pub, sync, runVars, mode, events, faults, settled, past>>

ImportAgain ==
  /\ pass.at = "import" /\ sync.by = "nobody"
  /\ pass' = [pass EXCEPT !.at = "sync2"] /\ sync' = [by |-> "pass", jobs |-> job]
  /\ UNCHANGED <<storeVars, githubVars, job, pub, runVars, mode, events, faults, settled, past, refused>>

\* Town's own writes wait out quiet hours: the pass ends before them.
Quiet ==
  /\ pass.at = "writes" /\ pass' = IdlePass
  /\ UNCHANGED <<storeVars, githubVars, job, pub, sync, runVars, mode, events, faults, settled, past, refused>>

-----------------------------------------------------------------------------
(* Carrying out a decline.                                                 *)

\* Mutant: a close whose answer was lost is not tried again.
ClosableOnce(t) ==
  IF t.dec = "declined" THEN ~t.ext
  ELSE t.dec = "" /\ t.house = "hall" /\ AutoDeclined(t) /\ t.stage \in {"declined", "locked"}

ClosableDecline(t) ==
  IF t.dec = "declined" THEN ~t.ext
  ELSE /\ t.dec = "" /\ t.house = "hall" /\ AutoDeclined(t)
       /\ t.stage \in {"declined", "closing", "locked"}

\* The candidates come from a snapshot; each is claimed just before its write.
StartClosing ==
  /\ pass.at = "writes"
  /\ pass' = [pass EXCEPT !.at = "close", !.seen = {},
                !.todo = {g.n : g \in {h \in pass.seen : /\ h.st = "open" /\ Known(h.n)
                                                         /\ ClosableDecline(task[h.n])}}]
  /\ UNCHANGED <<storeVars, githubVars, job, pub, sync, runVars, mode, events, faults, settled, past, refused>>

\* Mutant: the claim is not recorded.
ClaimUnmarked(t) == t.stage

ClaimedStage(t) == IF t.dec = "" /\ t.stage = "declined" THEN "closing" ELSE t.stage

ClaimDecline(n) ==
  /\ pass.at = "close" /\ n \in pass.todo /\ \A m \in pass.todo : n <= m
  /\ IF ClosableDecline(task[n])
     THEN /\ pass' = [pass EXCEPT !.at = "call", !.todo = @ \ {n}, !.n = n]
          /\ Put(n, [task[n] EXCEPT !.stage = ClaimedStage(task[n])])
     ELSE /\ pass' = [pass EXCEPT !.todo = @ \ {n}]
          /\ UNCHANGED <<task, refused>>
  /\ UNCHANGED <<req, owned, githubVars, job, pub, sync, runVars, mode, events, faults, settled, past>>

Closed(n) == gh' = [gh EXCEPT ![n].st = "closed"]

CloseIssue ==
  /\ pass.at = "call"
  /\ \/ Closed(pass.n) /\ pass' = [pass EXCEPT !.at = "accepted"] /\ UNCHANGED faults
     \/ Fault /\ UNCHANGED gh /\ pass' = [pass EXCEPT !.at = "rejected"]
     \/ Fault /\ (Closed(pass.n) \/ UNCHANGED gh) /\ pass' = [pass EXCEPT !.at = "close", !.n = 0]
  /\ UNCHANGED <<storeVars, pulls, job, pub, sync, runVars, mode, events, settled, past, refused>>

\* An accepted close settles the claim, a refused one releases it.
SettleClose ==
  LET n == pass.n t == task[n] IN
  /\ pass.at \in {"accepted", "rejected"}
  /\ pass' = [pass EXCEPT !.at = "close", !.n = 0]
  /\ IF pass.at = "accepted"
     THEN IF ClosableDecline(t)
          THEN /\ Put(n, IF t.stage = "closing" THEN [t EXCEPT !.stage = "closed"] ELSE t)
               /\ settled' = IF t.dec = "" THEN settled \cup {n} ELSE settled
          ELSE UNCHANGED <<task, refused, settled>>
     ELSE /\ IF t.stage = "closing" /\ t.dec = "" THEN Put(n, [t EXCEPT !.stage = "declined"])
             ELSE UNCHANGED <<task, refused>>
          /\ UNCHANGED settled
  /\ UNCHANGED <<req, owned, githubVars, job, pub, sync, runVars, mode, events, faults, past>>

-----------------------------------------------------------------------------
(* Starting an issue over when Town closed its pull request.               *)

RequeuedIssue(p) ==
  LET n == owned[p] IN
  /\ n # 0 /\ Known(n) /\ task[n].stage = "implemented"
  /\ task[n].dec # "declined" /\ task[n].requeue # p
  /\ \A q \in Pulls \ {p} : owned[q] = n => pulls[q] # "open"

\* closeRetiredPulls settles a pull request the inventory knew as Town's own,
\* under the same gate; module PullRequest has the calls on the way.
ClosePull(p) ==
  /\ pass.at = "close" /\ pass.todo = {}
  /\ p \in pass.prs /\ pulls[p] = "open"
  /\ pulls' = [pulls EXCEPT ![p] = "closed"]
  /\ IF RequeuedIssue(p)
     THEN Put(owned[p], [task[owned[p]] EXCEPT !.requeue = p, !.blocked = FALSE, !.dec = "",
                                              !.stage = "queued", !.house = "issue"])
     ELSE UNCHANGED <<task, refused>>
  /\ UNCHANGED <<req, owned, gh, job, pub, pass, sync, runVars, mode, events, faults, settled, past>>

EndPass ==
  /\ pass.at = "close" /\ pass.todo = {} /\ pass' = IdlePass
  /\ UNCHANGED <<storeVars, githubVars, job, pub, sync, runVars, mode, events, faults, settled, past, refused>>

-----------------------------------------------------------------------------
(* Simplifier Bot, Mayor Bot and the operator.                             *)

StartSimplifier(n) ==
  /\ sim.n = 0 /\ Known(n) /\ sim' = [n |-> n, mode |-> mode]
  /\ task[n].house = "simplifier" /\ task[n].stage = "simplifying" /\ ~task[n].blocked
  /\ UNCHANGED <<storeVars, githubVars, job, pub, pass, sync, jud, run, mode, events, faults, settled, past, refused>>

\* The assessment counts only for the intake it answers.
InIntake(t) == t.house = "simplifier" /\ t.stage = "simplifying"

Assessed(t, a) ==
  LET u == [t EXCEPT !.simp = a, !.att = 0, !.blocked = FALSE] IN
  IF a = "advice" THEN [u EXCEPT !.stage = "awaiting_mayor", !.house = "hall", !.dec = "pending"]
  ELSE IF a = "decline" THEN [u EXCEPT !.stage = "declined", !.house = "hall", !.dec = ""]
  ELSE [u EXCEPT !.stage = "queued", !.house = "issue", !.dec = ""]

ApplySimplification ==
  LET n == sim.n t == task[n] IN
  /\ n # 0 /\ sim' = NoSim
  /\ \/ /\ \E a \in IF sim.mode = "suggest" THEN {"advice"} ELSE {"admit", "decline"} :
             IF InIntake(t) THEN Put(n, Assessed(t, a)) ELSE UNCHANGED <<task, refused>>
        /\ UNCHANGED faults
     \/ /\ Fault
        /\ IF InIntake(t) THEN Put(n, [t EXCEPT !.att = @ + 1, !.blocked = t.att >= 2])
           ELSE UNCHANGED <<task, refused>>
  /\ UNCHANGED <<req, owned, githubVars, job, pub, pass, sync, jud, run, mode, events, settled, past>>

AwaitsMayor(t) == t.dec = "pending" /\ t.stage = "awaiting_mayor" /\ t.house = "hall"
MayOverrule(t) == t.house = "hall" /\ t.stage = "declined" /\ t.dec = "" /\ AutoDeclined(t)

\* decideTask, the one path for the operator's clicks and Mayor Bot.
Decided(t, action) ==
  LET u == [t EXCEPT !.att = 0] IN
  IF action = "decline" THEN [u EXCEPT !.dec = "declined", !.stage = "declined"]
  ELSE [u EXCEPT !.dec = "admitted", !.stage = "queued", !.house = "issue",
                 !.simp = IF MayOverrule(t) THEN "none" ELSE @]

DecideTask(n, action) ==
  LET t == task[n] IN
  IF AwaitsMayor(t) \/ (action = "admit" /\ MayOverrule(t))
  THEN Put(n, Decided(t, action)) /\ settled' = settled \ {n}
  ELSE UNCHANGED <<task, refused, settled>>

Click(n, action) ==
  /\ Known(n) /\ DecideTask(n, action)
  /\ UNCHANGED <<req, owned, githubVars, job, pub, pass, sync, runVars, mode, events, faults, past>>

StartJudgment(n) ==
  /\ jud = 0 /\ Known(n) /\ AwaitsMayor(task[n]) /\ ~task[n].blocked /\ task[n].att < 3
  /\ jud' = n
  /\ UNCHANGED <<storeVars, githubVars, job, pub, pass, sync, sim, run, mode, events, faults, settled, past, refused>>

ApplyJudgment ==
  /\ jud # 0 /\ jud' = 0
  /\ \/ /\ \E verdict \in {"admit", "decline"} :
             IF AwaitsMayor(task[jud]) THEN DecideTask(jud, verdict)
             ELSE UNCHANGED <<task, refused, settled>>
        /\ UNCHANGED faults
     \/ /\ Fault /\ UNCHANGED settled
        /\ IF AwaitsMayor(task[jud]) THEN Put(jud, [task[jud] EXCEPT !.att = @ + 1])
           ELSE UNCHANGED <<task, refused>>
  /\ UNCHANGED <<req, owned, githubVars, job, pub, pass, sync, sim, run, mode, events, past>>

\* A retry of an issue: Issue Bot's job first, then Town's task.
RetryIssue(n) ==
  /\ Known(n) /\ (task[n].blocked \/ task[n].att > 0) /\ run.at = "idle"
  /\ job' = [job EXCEPT ![n].status = IF @ = "blocked" THEN "pending" ELSE @]
  /\ Put(n, [task[n] EXCEPT !.blocked = FALSE, !.att = 0, !.stage = IF @ = "blocked" THEN "queued" ELSE @])
  /\ UNCHANGED <<req, owned, githubVars, pub, pass, sync, runVars, mode, events, faults, settled, past>>

-----------------------------------------------------------------------------
(* Issue Bot's runs and the import of its jobs.                            *)

StartRun(n) ==
  /\ run.at = "idle" /\ Known(n) /\ task[n].house = "issue" /\ task[n].stage = "queued" /\ ~task[n].blocked
  /\ run' = [n |-> n, superseded |-> task[n].requeue, at |-> "working"]
  /\ UNCHANGED <<storeVars, githubVars, job, pub, pass, sync, sim, jud, mode, events, faults, settled, past, refused>>

\* A run starts over only when its job still names the pull request Town
\* said it closed; a job that is already settled is left as it is.
Workable(j) == j.status \in {"none", "pending"} \/ (j.pr # 0 /\ j.pr = run.superseded)

EndRun ==
  /\ run.at = "working" /\ run' = [run EXCEPT !.at = "import"]
  /\ IF Workable(job[run.n])
     THEN \/ \E p \in {q \in Pulls : pulls[q] = "none" /\ \A m \in Pulls : m < q => pulls[m] # "none"} :
               /\ job' = [job EXCEPT ![run.n] = [status |-> "submitted", pr |-> p]]
               /\ pulls' = [pulls EXCEPT ![p] = "open"] /\ UNCHANGED faults
          \/ /\ Fault /\ UNCHANGED pulls
             /\ \E s \in {"pending", "blocked"} : job' = [job EXCEPT ![run.n] = [status |-> s, pr |-> 0]]
     ELSE UNCHANGED <<job, pulls, faults>>
  /\ UNCHANGED <<storeVars, gh, pub, pass, sync, sim, jud, mode, events, settled, past, refused>>

\* The run's worker imports the jobs before it returns.
ImportAfterRun ==
  /\ run.at = "import" /\ sync.by = "nobody" /\ run' = NoRun
  /\ sync' = [by |-> "run", jobs |-> job]
  /\ UNCHANGED <<storeVars, githubVars, job, pub, pass, sim, jud, mode, events, faults, settled, past, refused>>

Terminal(t) == t.stage \in {"closed", "locked"}

\* Mutant: a job is imported whatever pull request it names.
NeverStartsOver(t, j) == FALSE

\* A job that still names the pull request Town closed does not put the
\* issue back to "implemented": the fresh attempt has not begun.
StartingOver(t, j) == t.requeue # 0 /\ (j.pr = t.requeue \/ j.status = "has_pr")

Imported(t, j) ==
  IF j = NoJob \/ t = NoTask THEN t
  ELSE IF StartingOver(t, j) THEN [t EXCEPT !.blocked = FALSE, !.stage = "queued", !.house = "issue"]
  ELSE LET u == [t EXCEPT !.requeue = 0, !.blocked = FALSE] IN
       IF j.status = "blocked"
       THEN IF Terminal(t) THEN u ELSE [u EXCEPT !.stage = "blocked", !.house = "issue", !.blocked = TRUE]
       ELSE IF j.status = "submitted"
       THEN IF Terminal(t) THEN u ELSE [u EXCEPT !.stage = "implemented"]
       ELSE [u EXCEPT !.stage = IF @ = "blocked" THEN "queued" ELSE @]

Submitted(n, j) == task[n] # NoTask /\ j.status = "submitted" /\ ~StartingOver(task[n], j)

SyncIssues ==
  /\ sync.by # "nobody" /\ sync' = IdleSync
  /\ Commit([n \in Numbers |-> Imported(task[n], sync.jobs[n])])
  /\ owned' = [p \in Pulls |->
                 IF \E n \in Numbers : sync.jobs[n].pr = p /\ Submitted(n, sync.jobs[n])
                 THEN CHOOSE n \in Numbers : sync.jobs[n].pr = p ELSE owned[p]]
  /\ pass' = IF sync.by = "run" THEN pass
             ELSE [pass EXCEPT !.at = IF @ = "sync" THEN "observe" ELSE "writes"]
  /\ UNCHANGED <<req, githubVars, job, pub, runVars, mode, events, faults, settled, past>>

-----------------------------------------------------------------------------
\* The daemon stops: goroutines and the bots' runs end, the store remains.
Crash ==
  /\ Fault
  /\ pub' = IdlePub /\ pass' = IdlePass /\ sync' = IdleSync
  /\ sim' = NoSim /\ jud' = 0 /\ run' = NoRun
  /\ UNCHANGED <<storeVars, githubVars, job, mode, events, settled, past, refused>>

PassStep ==
  \/ StartPass \/ Observe \/ Reconcile \/ ImportAgain \/ StartClosing
  \/ (\E n \in Numbers : ClaimDecline(n)) \/ CloseIssue \/ SettleClose \/ EndPass

Next ==
  \/ PassStep \/ Quiet \/ (\E p \in Pulls : ClosePull(p)) \/ SyncIssues
  \/ \E from \in Filed : FileIssue(from)
  \/ \E n \in Numbers : PersonCloses(n) \/ PersonReopens(n) \/ PersonLocks(n)
  \/ \E m \in Modes : SetMode(m)
  \/ \E r \in Requests : SubmitRequest(r) \/ PublishRequest(r)
  \/ CreateIssue \/ FindRequest \/ ConfirmRequest
  \/ \E n \in Numbers : StartSimplifier(n) \/ StartJudgment(n) \/ StartRun(n) \/ RetryIssue(n)
  \/ \E n \in Numbers, action \in {"admit", "decline"} : Click(n, action)
  \/ ApplySimplification \/ ApplyJudgment \/ EndRun \/ ImportAfterRun
  \/ Crash

Spec == Init /\ [][Next]_vars
FairSpec == Spec /\ SF_vars(PassStep) /\ SF_vars(StartClosing) /\ WF_vars(SyncIssues)

-----------------------------------------------------------------------------
\* The store's validation never refuses an Update: the handlers between them
\* keep every task in the shape validate() demands (a pending decision waits in
\* Town Hall, a Mayoral decline stays there), whatever they interleave with.
TypeOK ==
  /\ ~refused
  /\ \A n \in Numbers : Known(n) =>
       /\ task[n].house \in {"simplifier", "hall", "issue"}
       /\ task[n].dec \in {"", "pending", "admitted", "declined"}
       /\ task[n].att \in Tries /\ task[n].requeue \in Pulls \cup {0}
       /\ gh[n].st # "none"
  /\ \A r \in Requests : req[r].status = "confirmed" => gh[req[r].num].from = r

\* A submission becomes at most one issue, whatever answer is lost and
\* whenever the daemon stops (publishRequest: "An uncertain POST is never
\* blindly sent again").
OnePublication == \A r \in Requests : Cardinality(Receipts(r)) <= 1

\* While Town's close of an issue is on its way the decline behind it cannot
\* be taken back: nobody admits an issue that Town then closes.
ClaimStands == pass.at = "call" => ClosableDecline(task[pass.n])

\* An issue Town closed and recorded as closed is not closed again because
\* someone reopened it; a person decides first.  The property leaves out issues
\* whose conversation was locked, where the code does close again.
AppealHonored ==
  pass.at = "call" => \/ pass.n \notin settled \/ "locked" \in past[pass.n]
                      \/ task[pass.n].dec = "declined"

\* What resume() and the plan say of every issue: a reopen of an issue Town
\* closed on Simplifier's decline is an appeal, never a close to retry.
ReopenIsAppeal == pass.at = "call" => pass.n \notin settled \/ task[pass.n].dec = "declined"

\* Issue Bot works on an issue only after its intake: Simplifier passed it, a
\* person or Mayor Bot admitted it, or Simplifier filed it itself.
PassedIntake(n) ==
  \/ task[n].simp = "admit" \/ task[n].dec = "admitted" \/ gh[n].from = "simplifier"
  \/ \E p \in Pulls : owned[p] = n

\* It holds of every issue but the ones of submissions, which confirmRequest
\* can record as closed in Issue Bot's house.
NoWorkBeforeIntake == run.at = "working" => PassedIntake(run.n) \/ gh[run.n].from \in Requests

\* What resume() says of every issue: work that had not finished intake goes
\* back to it rather than straight to the worker after it.
IntakeFirst == run.at = "working" => PassedIntake(run.n)

\* An issue counted as implemented has a pull request of Town's own that is
\* still open: closing one always starts its issue over, whenever Issue Bot's
\* jobs were read.  Issues people closed meanwhile are left out: reopened, they
\* are counted as implemented by the pull request Town closed.
ImplementedHasPull ==
  \A n \in Numbers : Known(n) /\ task[n].stage = "implemented" /\ "closed" \notin past[n]
    => \E p \in Pulls : owned[p] = n /\ pulls[p] = "open"

StandingDecline(t) ==
  \/ t.dec = "declined" /\ ~t.ext
  \/ t.dec = "" /\ t.house = "hall" /\ t.simp = "decline" /\ t.stage # "closed"

\* Town never publishes a submission twice and never counts an issue as
\* implemented without a pull request, whichever answers, saves and runs fail.
WorkIsBacked == OnePublication /\ ImplementedHasPull

\* Every decision about an issue stands until a person takes it back: a close
\* on its way keeps its decline, an appeal waits for a person, and no work
\* starts before intake passed the issue.
DecisionsHold == ClaimStands /\ AppealHonored /\ NoWorkBeforeIntake

\* A decline Town carries out by closing the issue is carried out, over lost
\* answers, refusals, crashes and quiet hours: no issue stays open under it.
DeclineIsCarriedOut ==
  <>[](\A n \in Numbers : gh[n].st = "open" /\ Known(n) => ~StandingDecline(task[n]))
=============================================================================
