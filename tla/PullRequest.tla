---------------------------- MODULE PullRequest ----------------------------
(***************************************************************************)
(* One pull request of a managed repository, from the inventory that finds  *)
(* it to its merge or close: intake, review and certification, the fix      *)
(* round, the merge, the close, and the inventory that reconciles Town's    *)
(* record with GitHub (internal/town: reconcile.go, resolution.go,          *)
(* session.go, hall.go, and mergeReady in supervisor.go).                   *)
(*                                                                          *)
(* Four houses work on the record at once, each from the copy it read when  *)
(* its run started, and people change the pull request on GitHub meanwhile. *)
(* A step ends where the code commits to the store, calls GitHub to write,  *)
(* or reads GitHub again after an agent ran; reads of GitHub that follow    *)
(* each other at once are one step.                                         *)
(*                                                                          *)
(* Abstractions:                                                            *)
(*  - a revision is a number; an edit of the text stands for every change   *)
(*    that costs a review (title, description, base commit), and a draft    *)
(*    for a locked conversation, which the inventory records alike;         *)
(*  - clear stands for what GitHub itself asks of a merge besides the head  *)
(*    and an open pull request: it is mergeable and up to date, its checks  *)
(*    and reviews pass, squashing is allowed, no queue, lock or other base  *)
(*    is in the way; anything of it may change at any time;                 *)
(*  - retry delays, snoozes and polls are left out: what may run later may  *)
(*    run now, a superset of what the clock allows;                         *)
(*  - findings are blocking or minor against the town's close severity;     *)
(*  - how the close comments, the branch and the issue are handled after    *)
(*    GitHub closed the pull request is one step that may fail;             *)
(*  - GitHub shows a push to the branch at once, unless it merged already;  *)
(*  - the holds a crash leaves on a house are module Dispatch's subject.    *)
(***************************************************************************)
EXTENDS Integers, FiniteSets

CONSTANTS
    FromTown,      \* the pull request was opened by Issue Bot
    Modes,         \* the simplifier_mode settings the operator switches between
    MergePolicy,   \* "all", "bot" or "manual"
    MaxCycles,     \* the town's max_cycles setting
    Quiet,         \* quiet hours may begin and end at any time
    Cancels,       \* an operator may stop Simplifier Bot while it works
    Conditions,    \* GitHub's own conditions of a merge may fail, and hold again
    MaxHeads,      \* bound: revisions of the branch
    MaxEvents,     \* bound: things people do to the pull request on GitHub
    MaxFaults,     \* bound: GitHub calls refused or left without an answer
    MaxCrashes,    \* bound: crashes of the service
    MaxRetries     \* bound: retries the operator asks for

ASSUME PullConstants ==
    /\ FromTown \in BOOLEAN /\ Modes \subseteq {"auto", "suggest"}
    /\ MergePolicy \in {"all", "bot", "manual"}
    /\ MaxCycles \in 1..20
    /\ Quiet \in BOOLEAN /\ Cancels \in BOOLEAN /\ Conditions \in BOOLEAN
    /\ MaxHeads \in Nat \ {0} /\ MaxEvents \in Nat /\ MaxFaults \in Nat
    /\ MaxCrashes \in Nat /\ MaxRetries \in Nat

VARIABLES
    gh,          \* GitHub: the pull request as it is
    clear,       \* GitHub: its own conditions of a merge hold
    owned,       \* Town.Owned names the pull request
    task, intent,                        \* Town's durable record of it
    simplifier, review, repair, pass,    \* the runs of the four houses
    used,                                \* revisions that exist anywhere
    events, faults, crashes, retries,    \* spent from the bounds
    history      \* read by no action: what happened, for the properties

vars == <<gh, clear, owned, task, intent, simplifier, review, repair, pass, used,
          events, faults, crashes, retries, history>>

Heads    == 1..MaxHeads
Texts    == 0..MaxEvents
Tries    == 0..2
Verdicts == {"none", "clean", "minor", "blocking", "inconclusive"}
Stages   == {"unknown", "simplifying", "queued", "fixes", "ready", "draft",
             "awaiting_mayor", "declined", "closing", "closed", "merged"}
Audits   == [verdict : Verdicts, head : Heads \cup {0}, text : Texts, disc : Texts]
Intents  == [kind : {"none", "repair", "merge"}, head : Heads \cup {0},
             new : Heads \cup {0}, status : {"none", "uncertain", "retry", "confirmed"}]
Pulls    == [head : Heads, log : SUBSET Heads, text : Texts, disc : Texts,
             state : {"open", "closed", "merged"}, draft : BOOLEAN, here : BOOLEAN]
TaskRecords ==
    [stage : Stages, house : {"simplifier", "review", "issue", "hall", "release"},
     head : Heads \cup {0}, text : Texts, audit : Audits, blocked : BOOLEAN,
     attempts : Tries, cycles : Nat, decision : {"", "pending", "admitted", "declined"},
     declined : BOOLEAN,  \* Simplification holds an automatic decline
     external : BOOLEAN, offbranch : BOOLEAN]

NoAudit  == [verdict |-> "none", head |-> 0, text |-> 0, disc |-> 0]
NoIntent == [kind |-> "none", head |-> 0, new |-> 0, status |-> "none"]
NoTask   == [stage |-> "unknown", house |-> "simplifier", head |-> 0, text |-> 0,
             audit |-> NoAudit, blocked |-> FALSE, attempts |-> 0, cycles |-> 0,
             decision |-> "", declined |-> FALSE, external |-> TRUE, offbranch |-> FALSE]
FirstPull == [head |-> 1, log |-> {1}, text |-> 0, disc |-> 0, state |-> "open",
              draft |-> FALSE, here |-> TRUE]
NoReview  == [pc |-> "idle", head |-> 0, text |-> 0, audit |-> NoAudit]
NoRepair  == [pc |-> "idle", head |-> 0, audit |-> NoAudit, intent |-> NoIntent]
NoPass    == [pc |-> "idle", by |-> "repo", observed |-> 0, pull |-> FirstPull]

\* What each house carries between its steps: the revision and description its
\* run was dispatched for, the audit it works with, the intent it read.
ReviewRuns ==
    [pc : {"idle", "reviewing", "certifying", "judged", "failed", "gating", "doubting", "gated",
           "stale", "fresh", "calling", "accepted", "blocking", "confirming"},
     head : Heads \cup {0}, text : Texts, audit : Audits]
RepairRuns ==
    [pc : {"idle", "started", "fixing", "saving", "pushing", "pushed", "confirming",
           "superseding", "resuming", "requeueing", "blocking", "failed"},
     head : Heads \cup {0}, audit : Audits, intent : Intents]
PassRuns ==
    [pc : {"idle", "asked", "observed", "recorded", "closing", "refused", "explaining"},
     by : {"repo", "review"}, observed : Heads \cup {0}, pull : Pulls]

TypeOK ==
    /\ gh \in Pulls /\ clear \in BOOLEAN /\ owned \in BOOLEAN
    /\ task \in TaskRecords /\ intent \in Intents
    /\ simplifier \in {"idle", "assessing"}
    /\ review \in ReviewRuns /\ repair \in RepairRuns /\ pass \in PassRuns
    /\ used \in Heads /\ events \in 0..MaxEvents /\ faults \in 0..MaxFaults
    /\ crashes \in 0..MaxCrashes /\ retries \in 0..MaxRetries
    /\ history \in [certified : SUBSET Heads, repairs : SUBSET Heads, merged : BOOLEAN,
                    intake : BOOLEAN, tries : 0..2, early : BOOLEAN,
                    refused : BOOLEAN]

\* An open pull request Town has not seen; Issue Bot's own may be recorded
\* as owned only after the first inventory that lists it.
Init ==
    /\ gh = FirstPull /\ clear \in {TRUE, ~Conditions}
    /\ owned \in {FALSE, FromTown}
    /\ task = NoTask /\ intent = NoIntent
    /\ simplifier = "idle" /\ review = NoReview /\ repair = NoRepair /\ pass = NoPass
    /\ used = 1 /\ events = 0 /\ faults = 0 /\ crashes = 0 /\ retries = 0
    /\ history = [certified |-> {}, repairs |-> {}, merged |-> FALSE,
                  intake |-> FALSE, tries |-> 0, early |-> FALSE,
                  refused |-> FALSE]

houses == <<simplifier, review, repair, pass>>
bounds == <<used, events, faults, crashes, retries>>

-----------------------------------------------------------------------------
(***************************************************************************)
(* What the code does to the task record.                                   *)
(***************************************************************************)

\* holdsIntake: metadata never moves such a task to Review.
HoldsSimplifier(k) == k.stage = "simplifying"
HoldsIntake(k) == k.stage \in {"simplifying", "declined"} \/ k.decision \in {"pending", "declined"}

\* State.Move.
Moved(k, stage, house) == [k EXCEPT !.stage = stage, !.house = house]
Rested(k)              == [k EXCEPT !.attempts = 0]
Queued(k)              == Moved([k EXCEPT !.audit = NoAudit, !.blocked = FALSE], "queued", "review")

\* markClosing.
MarkClosing(k) ==
    IF k.stage \in {"closing", "closed", "merged"} THEN k
    ELSE Moved([Rested(k) EXCEPT !.blocked = FALSE, !.decision = ""], "closing", "hall")

\* The Mayor is asked about a contributor's pull request.
AskMayor(k) == [Moved(k, "awaiting_mayor", "hall") EXCEPT !.decision = "pending"]

\* retirePull: Town closes its own pull requests and nobody else's.
RetireAny(k) == MarkClosing(k)
Retire(k) == IF k.external THEN AskMayor(Rested(k)) ELSE MarkClosing(k)

\* failPullAttempt: a second attempt, then the end.
FailForgotten(k)  == [k EXCEPT !.attempts = 1, !.blocked = FALSE]
FailUnretired(k)  == [k EXCEPT !.attempts = @ + 1, !.blocked = FALSE]
FailAttempt(k) ==
    IF k.attempts = 0 THEN [k EXCEPT !.attempts = 1, !.blocked = FALSE]
    ELSE Retire([k EXCEPT !.attempts = 2, !.blocked = FALSE])

\* settleReview, for an audit of the task's own revision.
SettleReview(k) ==
    IF k.audit.verdict = "clean" THEN Moved(k, "ready", "review")
    ELSE IF k.external THEN AskMayor(k)
    ELSE IF k.cycles = 0 THEN Moved(k, "fixes", "issue")
    ELSE IF k.audit.verdict = "blocking" THEN MarkClosing(k)
    ELSE Moved([k EXCEPT !.audit = [@ EXCEPT !.verdict = "clean"]], "ready", "review")

\* resume: back to where intake or review stood.
Resume(k) ==
    IF ~k.external /\ k.house = "hall" /\ k.decision = "" /\ k.declined /\ k.stage = "closed"
      THEN AskMayor(k)
    ELSE IF k.decision = "declined" \/ (k.house = "hall" /\ k.declined)
      THEN [k EXCEPT !.stage = "declined"]
    ELSE IF k.house = "simplifier" THEN [k EXCEPT !.stage = "simplifying"]
    ELSE IF k.house = "hall" /\ k.external THEN AskMayor(k)
    ELSE Moved(k, "queued", "review")

\* declinedOwnPull and claimDeclinedPulls.
DeclinedOwn(k) ==
    /\ ~k.external /\ k.house = "hall" /\ k.stage = "declined"
    /\ k.decision = "declined" \/ (k.decision = "" /\ k.declined)
ClaimDeclined(k) ==
    IF DeclinedOwn(k) /\ ~k.blocked /\ ~k.offbranch
    THEN Moved([Rested(k) EXCEPT !.blocked = FALSE], "closing", "hall") ELSE k

(***************************************************************************)
(* Reconcile, for the observation p made while Town knew head observed.     *)
(***************************************************************************)

Arrived(mode) ==
    IF mode = "suggest" /\ ~owned THEN AskMayor(NoTask) ELSE [NoTask EXCEPT !.stage = "simplifying"]

\* The observation is of another branch than Town covers.
LeftBranch(k) ==
    IF k.stage \in {"unknown", "merged", "closed"} THEN k
    ELSE [k EXCEPT !.audit = NoAudit, !.offbranch = TRUE, !.blocked = TRUE]

\* An automatic decline that no longer describes where the task is.
DropStaleDecline(k) ==
    IF k.declined /\ (k.house # "hall" \/ (k.decision = "pending" /\ k.external)
                       \/ k.audit # NoAudit)
    THEN [k EXCEPT !.declined = FALSE] ELSE k

BackOnBranch(k) ==
    IF ~k.offbranch THEN k
    ELSE LET b == [Rested(k) EXCEPT !.offbranch = FALSE, !.blocked = FALSE, !.audit = NoAudit]
         IN  IF HoldsIntake(b) THEN b ELSE Moved(b, "queued", "review")

Ownership(k) ==
    LET o == [k EXCEPT !.external = ~owned]
    IN  IF owned /\ k.external /\ k.decision = "pending"
        THEN Moved([o EXCEPT !.decision = ""], "queued", "review") ELSE o

Revised(k, p) ==
    LET r == [Rested(k) EXCEPT !.audit = NoAudit, !.blocked = FALSE]
    IN  IF k.stage \in {"merged", "closed", "closing"} \/ HoldsIntake(k) THEN r
        ELSE Moved(r, "queued", "review")
SameRevision(k, p) == k.head = 0 \/ (k.head = p.head /\ k.text = p.text)
Revision(k, p) ==
    [(IF SameRevision(k, p) THEN k ELSE Revised(k, p)) EXCEPT !.head = p.head, !.text = p.text]

\* The saved repair is the observed head: its push landed.
RepairSeen(p) == intent.kind = "repair" /\ intent.status # "confirmed" /\ p.head = intent.new
RepairLanded(k) == Queued([Rested(k) EXCEPT !.cycles = @ + 1])

\* A Mayoral decline stays on a closed pull request, a pending decision does not.
ClosedPending(k) == [k EXCEPT !.stage = "closed"]
ClosedByPeople(k) == [k EXCEPT !.stage = "closed", !.decision = IF @ = "pending" THEN "" ELSE @]

Settled(k, p) ==
    CASE p.state = "merged" ->
             Moved([k EXCEPT !.decision = "",
                             !.blocked = IF intent.kind = "merge" THEN FALSE ELSE @],
                   "merged", "release")
      [] p.state = "closed" /\ k.stage = "closing" -> k
      [] p.state = "closed" /\ k.stage # "closing" ->
             ClosedByPeople(k)
      [] p.state = "open" ->
             LET o == IF k.stage = "closed" THEN Resume(k) ELSE k
             IN  IF o.stage = "closing" \/ HoldsIntake(o) THEN o
                 ELSE IF p.draft THEN [o EXCEPT !.stage = "draft"]
                 ELSE IF o.stage = "draft" THEN Resume(o) ELSE o

\* The inventory skips a pull request whose head Town changed meanwhile.
ObservationAlwaysNew(observed) == FALSE
ObservationStale(observed) == task.stage # "unknown" /\ task.head # observed

ReconciledTask(p, observed, mode) ==
    CASE ~p.here -> LeftBranch(task)
      [] p.here /\ ObservationStale(observed) -> task
      [] OTHER ->
           LET arrived == IF task.stage = "unknown" THEN Arrived(mode) ELSE task
               current == Revision(Ownership(BackOnBranch(DropStaleDecline(arrived))), p)
           IN  Settled(IF RepairSeen(p) THEN RepairLanded(current) ELSE current, p)

ReconciledIntent(p, observed) ==
    IF p.here /\ ~ObservationStale(observed)
          /\ (RepairSeen(p) \/ (p.state = "merged" /\ intent.kind = "merge"))
    THEN [intent EXCEPT !.status = "confirmed"] ELSE intent

-----------------------------------------------------------------------------
(***************************************************************************)
(* GitHub and the people on it.  Everything here is outside Town.           *)
(***************************************************************************)

Event == events < MaxEvents /\ events' = events + 1
Fault == faults < MaxFaults /\ faults' = faults + 1
townState == <<owned, task, intent, houses>>

People ==
    /\ Event
    /\ \/ /\ gh.state = "open" /\ used < MaxHeads /\ used' = used + 1
          /\ \E log \in {{}, gh.log} :  \* a force push drops the branch's history
                gh' = [gh EXCEPT !.head = used + 1, !.log = log \cup {used + 1}]
       \/ /\ used' = used
          /\ \/ gh.state = "open" /\ gh' = [gh EXCEPT !.disc = @ + 1]
             \/ gh.state = "open" /\ gh' = [gh EXCEPT !.text = @ + 1]
             \/ gh.state = "open" /\ gh' = [gh EXCEPT !.draft = ~@]
             \/ gh.state = "open" /\ gh' = [gh EXCEPT !.here = ~@]
             \/ gh.state = "open" /\ gh' = [gh EXCEPT !.state = "closed"]
             \/ gh.state = "open" /\ ~gh.draft /\ gh' = [gh EXCEPT !.state = "merged"]
             \/ gh.state = "closed" /\ gh' = [gh EXCEPT !.state = "open"]
    /\ UNCHANGED <<clear, townState, faults, crashes, retries, history>>

\* Checks, reviews, conflicts and the repository's rules come and go.
ConditionsChange ==
    /\ Conditions /\ gh.state = "open" /\ clear' = ~clear
    /\ UNCHANGED <<gh, townState, bounds, history>>

\* Issue Bot's receipt reaches Town.
OwnershipRecorded ==
    /\ FromTown /\ ~owned /\ owned' = TRUE
    /\ UNCHANGED <<gh, task, intent, houses, clear, bounds, history>>

-----------------------------------------------------------------------------
(***************************************************************************)
(* Simplifier Bot, the Mayor and the operator.                              *)
(***************************************************************************)

LosesRuns == simplifier' = "idle" /\ review' = NoReview /\ repair' = NoRepair /\ pass' = NoPass

AssessStarts ==
    /\ simplifier = "idle"
    /\ task.stage = "simplifying" /\ task.house = "simplifier" /\ ~task.blocked
    /\ simplifier' = "assessing"
    /\ UNCHANGED <<gh, owned, task, intent, review, repair, pass, clear, bounds, history>>

\* applySimplification answers only a task still in intake; a failed run then
\* also counts as a failed attempt on the pull request.
InIntake == task.house = "simplifier" /\ task.stage = "simplifying"
AssessEnds ==
    /\ simplifier = "assessing" /\ simplifier' = "idle"
    /\ \/ /\ InIntake
          /\ LET k == [Rested(task) EXCEPT !.blocked = FALSE] IN
             \/ /\ "suggest" \in Modes
                /\ task' = AskMayor([k EXCEPT !.declined = FALSE])
                /\ history' = [history EXCEPT !.intake = FALSE]
             \/ /\ "auto" \in Modes
                /\ task' = Moved([k EXCEPT !.decision = "", !.declined = FALSE],
                                 "queued", "review")
                /\ history' = [history EXCEPT !.intake = TRUE]
             \/ /\ "auto" \in Modes
                /\ task' = Moved([k EXCEPT !.decision = "", !.declined = TRUE],
                                 "declined", "hall")
                /\ history' = [history EXCEPT !.intake = FALSE]
       \/ ~InIntake /\ UNCHANGED <<task, history>>
       \/ /\ task' = FailAttempt(task)
          /\ UNCHANGED history
    /\ UNCHANGED <<gh, owned, intent, review, repair, pass, clear, bounds>>

\* A canceled run takes back an attempt that only an issue was charged.  The
\* store refuses a negative count, and a refused commit ends the service.
AssessCanceled ==
    /\ Cancels /\ simplifier = "assessing" /\ InIntake
    /\ IF task.attempts > 0
       THEN /\ task' = [task EXCEPT !.attempts = @ - 1] /\ simplifier' = "idle"
            /\ UNCHANGED <<review, repair, pass, history>>
       ELSE /\ history' = [history EXCEPT !.refused = TRUE]
            /\ LosesRuns /\ UNCHANGED task
    /\ UNCHANGED <<gh, clear, owned, intent, bounds>>

\* decideTask, by a person or by Mayor Bot; only a person may overrule.
AwaitsMayor == task.decision = "pending" /\ task.stage = "awaiting_mayor" /\ task.house = "hall"
Overrulable == /\ task.house = "hall" /\ task.stage = "declined"
               /\ task.decision = "" /\ task.declined
Decide ==
    /\ \/ /\ AwaitsMayor \/ Overrulable
          /\ task' = Moved([Rested(task) EXCEPT !.decision = "admitted",
                                !.declined = IF AwaitsMayor THEN @ ELSE FALSE],
                           "queued", "review")
          /\ history' = [history EXCEPT !.intake = TRUE]
       \/ /\ AwaitsMayor
          /\ task' = [Rested(task) EXCEPT !.decision = "declined", !.stage = "declined"]
          /\ history' = [history EXCEPT !.intake = FALSE]
    /\ UNCHANGED <<gh, owned, intent, houses, clear, bounds>>

\* resetTaskForRetry.
Retry ==
    /\ retries < MaxRetries /\ retries' = retries + 1
    /\ task.stage # "unknown"
    /\ task' = [Rested(task) EXCEPT !.blocked = FALSE,
                                   !.cycles = IF @ >= MaxCycles THEN 0 ELSE @]
    /\ intent' = [intent EXCEPT !.status = IF @ = "uncertain" THEN "retry" ELSE @]
    /\ UNCHANGED <<gh, clear, owned, houses, used, events, faults, crashes, history>>

\* Every run is lost; the record, the intent and GitHub stay.
Crash ==
    /\ crashes < MaxCrashes /\ crashes' = crashes + 1 /\ LosesRuns
    /\ UNCHANGED <<gh, clear, owned, task, intent, used, events, faults, retries, history>>

-----------------------------------------------------------------------------
(***************************************************************************)
(* The Review house: a review of the queued revision.                       *)
(***************************************************************************)

reviewOnly == <<gh, owned, intent, simplifier, repair, pass, clear, bounds>>

ReviewStarts ==
    /\ review.pc = "idle"
    /\ task.stage = "queued" /\ task.house = "review" /\ ~task.blocked
    /\ review' = [NoReview EXCEPT !.pc = "reviewing", !.head = task.head, !.text = task.text]
    /\ UNCHANGED <<reviewOnly, task, history>>

\* The bot or the certifier ends without a decision.
ReviewFails ==
    /\ review.pc \in {"reviewing", "certifying"}
    /\ review' = [review EXCEPT !.pc = "failed"]
    /\ UNCHANGED <<reviewOnly, task, history>>

\* certify reads the pull request and its discussion.
CertifyStarts ==
    /\ review.pc = "reviewing"
    /\ review' =
         IF gh.head = review.head /\ gh.state = "open" /\ ~gh.draft
         THEN [review EXCEPT !.pc = "certifying",
                             !.audit = [verdict |-> "none", head |-> gh.head,
                                        text |-> gh.text, disc |-> gh.disc]]
         ELSE [review EXCEPT !.pc = "failed"]
    /\ UNCHANGED <<reviewOnly, task, history>>

\* certify reads both again after the certifier ran.
UnchangedSinceRead ==
    /\ gh.head = review.audit.head /\ gh.text = review.audit.text
    /\ gh.disc = review.audit.disc /\ gh.state = "open" /\ ~gh.draft
CertifyEnds ==
    /\ review.pc = "certifying"
    /\ IF UnchangedSinceRead
       THEN \E v \in Verdicts \ {"none"} :
              review' = [review EXCEPT !.pc = "judged", !.audit.verdict = v]
       ELSE review' = [review EXCEPT !.pc = "failed"]
    /\ UNCHANGED <<reviewOnly, task, history>>

\* A failed attempt, counted against the revision its run was given.
Failing(head) ==
    LET tries == IF head = task.head /\ history.tries < 2 THEN history.tries + 1
                 ELSE history.tries
    IN  /\ task' = FailAttempt(task)
        /\ history' = [history EXCEPT !.tries = tries,
                         !.early = @ \/ (tries < 2 /\ task'.stage # task.stage),
                         !.intake = @ /\ task'.decision # "pending"]

\* The final commit takes an audit of the revision Town has recorded.
AuditIsCurrent == review.audit.head = task.head /\ review.audit.text = task.text
ReviewCommits ==
    /\ \/ review.pc = "failed" /\ Failing(review.head)
       \/ /\ review.pc = "judged" /\ AuditIsCurrent
          /\ \/ review.audit.verdict = "inconclusive" /\ Failing(review.head)
             \/ /\ review.audit.verdict # "inconclusive"
                /\ task' = SettleReview([Rested(task) EXCEPT !.audit = review.audit])
                /\ history' = [history EXCEPT
                      !.certified = IF task'.stage = "ready" THEN @ \cup {task.head} ELSE @,
                      !.intake = @ /\ task'.decision # "pending"]
       \/ review.pc = "judged" /\ ~AuditIsCurrent /\ UNCHANGED <<task, history>>
    /\ review' = NoReview
    /\ UNCHANGED reviewOnly

-----------------------------------------------------------------------------
(***************************************************************************)
(* The Review house: mergeReady.                                            *)
(***************************************************************************)

MayMerge == MergePolicy = "all" \/ (MergePolicy = "bot" /\ ~task.external)

\* An earlier merge call whose outcome Town never learned.
MergeUnresolved == intent.kind = "merge" /\ intent.status \notin {"confirmed", "retry"}
\* Gate.Allows: a clean audit of the head GitHub would merge, on the branch
\* Town covers, and nothing GitHub itself holds against the merge.
GateAllowsAnyHead ==
    gh.here /\ gh.state = "open" /\ ~gh.draft /\ clear /\ review.audit.verdict = "clean"
GateAllows ==
    /\ gh.here /\ gh.state = "open" /\ ~gh.draft /\ clear
    /\ review.audit.verdict = "clean" /\ review.audit.head = gh.head

\* The run works on the record its dispatch read.
MergeStarts ==
    /\ review.pc = "idle" /\ MayMerge
    /\ task.stage = "ready" /\ ~task.blocked
    /\ review' = [NoReview EXCEPT !.pc = IF MergeUnresolved THEN "doubting" ELSE "gating",
                                  !.audit = task.audit]
    /\ UNCHANGED <<reviewOnly, task, history>>

\* A refusing gate only records what it waits for: the pull request stays
\* ready, however long the refusal stands.
MergeGates ==
    /\ \/ /\ review.pc \in {"gating", "doubting"} /\ gh.state = "merged"
          /\ review' = [NoReview EXCEPT !.pc = "confirming"]
       \/ /\ review.pc = "doubting" /\ gh.state # "merged"
          /\ review' = [NoReview EXCEPT !.pc = "blocking"]
       \/ /\ review.pc = "gating" /\ GateAllows
          /\ review' =
               [NoReview EXCEPT
                  !.pc = IF review.audit.disc = gh.disc /\ review.audit.text = gh.text
                         THEN "gated" ELSE "stale",
                  !.head = gh.head, !.text = gh.text]
       \/ /\ review.pc = "gating" /\ gh.state # "merged" /\ ~GateAllows
          /\ review' = NoReview
    /\ UNCHANGED <<reviewOnly, task, history>>

\* The stale audit is dropped whatever became of the task meanwhile.
MergeIsStale ==
    /\ review.pc = "stale" /\ review' = NoReview
    /\ task' = [task EXCEPT !.audit = NoAudit, !.stage = "queued"]
    /\ UNCHANGED <<reviewOnly, history>>

\* The last look before the intent; quiet hours may have begun.  Of GitHub's
\* own conditions only a lock and the base are looked at again.
MergeRechecks ==
    /\ review.pc = "gated"
    /\ \/ /\ gh.head = review.head /\ gh.text = review.text
          /\ gh.here /\ gh.state = "open" /\ ~gh.draft
          /\ review' = [review EXCEPT !.pc = "fresh"]
       \/ /\ \/ Quiet \/ ~clear \/ ~gh.here \/ gh.state # "open" \/ gh.draft
             \/ gh.head # review.head \/ gh.text # review.text
          /\ review' = NoReview
    /\ UNCHANGED <<reviewOnly, task, history>>

MergeIntends ==
    /\ review.pc = "fresh" /\ review' = [review EXCEPT !.pc = "calling"]
    /\ intent' = [kind |-> "merge", head |-> review.head, new |-> 0, status |-> "uncertain"]
    /\ UNCHANGED <<gh, owned, task, simplifier, repair, pass, clear, bounds, history>>

\* GitHub merges only the head it was given, if it merges at all; a condition
\* Town asks for need not be one GitHub insists on.
MergeCalls ==
    /\ review.pc = "calling"
    /\ \/ /\ gh.state = "open" /\ ~gh.draft /\ gh.head = review.head
          /\ gh' = [gh EXCEPT !.state = "merged"]
          /\ history' = [history EXCEPT !.merged = TRUE]
          /\ \/ review' = [review EXCEPT !.pc = "accepted"] /\ UNCHANGED faults
             \/ Fault /\ review' = [review EXCEPT !.pc = "blocking"]
       \/ /\ \/ /\ gh.state # "open" \/ gh.draft \/ gh.head # review.head \/ ~clear
                /\ UNCHANGED faults
             \/ Fault
          /\ review' = [review EXCEPT !.pc = "blocking"]
          /\ UNCHANGED <<gh, history>>
    /\ UNCHANGED <<clear, owned, task, intent, simplifier, repair, pass, used, events,
                   crashes, retries>>

MergeConfirms ==
    /\ review.pc = "accepted" /\ review' = [NoReview EXCEPT !.pc = "confirming"]
    /\ intent' = [intent EXCEPT !.status = "confirmed"]
    /\ UNCHANGED <<gh, owned, task, simplifier, repair, pass, clear, bounds, history>>

\* block: the operator is asked to look at GitHub.
MergeBlocks ==
    /\ review.pc = "blocking" /\ review' = NoReview
    /\ task' = [task EXCEPT !.blocked = TRUE]
    /\ UNCHANGED <<reviewOnly, history>>

-----------------------------------------------------------------------------
(***************************************************************************)
(* The Issue house: the fix round.                                          *)
(***************************************************************************)

repairOnly == <<clear, owned, simplifier, review, pass, events, crashes, retries>>
RepairTo(pc) == repair' = [repair EXCEPT !.pc = pc]

\* One fix round is all a pull request gets: a repair request for a second
\* one is stale and closes the pull request instead.
RepairStarts ==
    /\ repair.pc = "idle"
    /\ task.stage = "fixes" /\ task.house = "issue" /\ ~task.blocked
    /\ IF task.cycles >= 1
       THEN task' = MarkClosing(task) /\ UNCHANGED repair
       ELSE /\ repair' = [pc |-> "started", head |-> task.head, audit |-> task.audit,
                          intent |-> intent]
            /\ UNCHANGED task
    /\ UNCHANGED <<gh, intent, repairOnly, used, faults, history>>

\* A saved repair whose push is not confirmed is settled, never redone.
UnresolvedRepair == repair.intent.kind = "repair" /\ repair.intent.status # "confirmed"

\* The probe of the branch's history may itself fail.
RepairRecovers ==
    /\ repair.pc = "started" /\ UnresolvedRepair
    /\ LET saved == repair.intent IN
       \/ /\ gh.head = saved.new /\ RepairTo("confirming") /\ UNCHANGED faults
       \/ /\ gh.head # saved.new /\ saved.new \in gh.log
          /\ repair' = [repair EXCEPT !.pc = "superseding", !.head = gh.head]
          /\ UNCHANGED faults
       \/ /\ gh.head # saved.new
          /\ IF saved.new \in gh.log THEN Fault ELSE UNCHANGED faults
          /\ IF saved.status # "retry" THEN RepairTo("blocking")
             ELSE IF gh.head = saved.head /\ gh.state = "open" /\ ~gh.draft
                  THEN RepairTo("resuming") ELSE RepairTo("failed")
    /\ UNCHANGED <<gh, task, intent, repairOnly, used, history>>

\* The feedback must be current on GitHub before an agent works on it.
FeedbackCurrent ==
    /\ gh.head = repair.head /\ gh.state = "open" /\ ~gh.draft
    /\ repair.audit.verdict \in {"minor", "blocking"} /\ repair.audit.head = gh.head
RepairReads ==
    /\ repair.pc = "started" /\ ~UnresolvedRepair
    /\ RepairTo(IF ~FeedbackCurrent THEN "failed"
                ELSE IF gh.disc = repair.audit.disc /\ gh.text = repair.audit.text
                     THEN "fixing" ELSE "requeueing")
    /\ UNCHANGED <<gh, task, intent, repairOnly, used, faults, history>>

\* The agent's verified commit is a new revision nobody else has yet.
RepairVerified ==
    /\ repair.pc = "fixing" /\ used < MaxHeads
    /\ IF /\ gh.head = repair.head /\ gh.text = repair.audit.text
          /\ gh.disc = repair.audit.disc /\ gh.state = "open" /\ ~gh.draft
       THEN /\ repair' = [repair EXCEPT !.pc = "saving",
                             !.intent = [kind |-> "repair", head |-> repair.head,
                                         new |-> used + 1, status |-> "uncertain"]]
            /\ used' = used + 1
       ELSE RepairTo("requeueing") /\ UNCHANGED used
    /\ UNCHANGED <<gh, task, intent, repairOnly, faults, history>>

\* The agent, or a check of the saved worktree, fails.
RepairAgentFails ==
    /\ repair.pc \in {"fixing", "resuming"} /\ RepairTo("failed")
    /\ UNCHANGED <<gh, task, intent, repairOnly, used, faults, history>>

\* The intent is durable before the push.
RepairSaves ==
    /\ repair.pc = "saving" /\ intent' = repair.intent /\ RepairTo("pushing")
    /\ UNCHANGED <<gh, task, repairOnly, used, faults, history>>
RepairResumes ==
    /\ repair.pc = "resuming" /\ intent' = [intent EXCEPT !.status = "uncertain"]
    /\ RepairTo("pushing")
    /\ UNCHANGED <<gh, task, repairOnly, used, faults, history>>

\* git push without force; the branch of a merged pull request takes it too.
RepairPushes ==
    /\ repair.pc = "pushing"
    /\ \/ /\ gh.head = repair.intent.head
          /\ gh' = IF gh.state = "merged" THEN gh
                   ELSE [gh EXCEPT !.head = repair.intent.new, !.log = @ \cup {repair.intent.new}]
          /\ history' = [history EXCEPT !.repairs = @ \cup {repair.intent.new}]
          /\ \/ RepairTo("pushed") /\ UNCHANGED faults
             \/ RepairTo("failed") /\ Fault
       \/ /\ \/ gh.head # repair.intent.head /\ UNCHANGED faults
             \/ Fault
          /\ RepairTo("failed") /\ UNCHANGED <<gh, history>>
    /\ UNCHANGED <<task, intent, repairOnly, used>>

\* confirmPush: the branch is at the exact commit, or the intent stays uncertain.
RepairProves ==
    /\ repair.pc = "pushed"
    /\ RepairTo(IF gh.head = repair.intent.new \/ gh.state = "merged" THEN "confirming" ELSE "failed")
    /\ UNCHANGED <<gh, task, intent, repairOnly, used, faults, history>>

\* confirmRepair and supersedeRepair: the inventory may have counted it already.
RoundsTwice == task.cycles + 1
RoundsLost  == task.cycles
RoundsOnce  == IF intent.status = "confirmed" THEN task.cycles ELSE task.cycles + 1
RepairConfirms ==
    /\ repair.pc = "confirming" /\ repair' = NoRepair
    /\ task' = Queued([Rested(task) EXCEPT !.cycles = RoundsOnce, !.head = repair.intent.new])
    /\ intent' = [intent EXCEPT !.status = "confirmed"]
    /\ UNCHANGED <<gh, repairOnly, used, faults, history>>
RepairSupersedes ==
    /\ repair.pc = "superseding" /\ repair' = NoRepair
    /\ IF intent.status \in {"none", "confirmed"} THEN UNCHANGED <<task, intent>>
       ELSE /\ task' = Queued([Rested(task) EXCEPT !.cycles = @ + 1, !.head = repair.head])
            /\ intent' = [intent EXCEPT !.status = "confirmed"]
    /\ UNCHANGED <<gh, repairOnly, used, faults, history>>

\* requeue and the block for an uncertain push.
RepairRequeues ==
    /\ repair.pc = "requeueing" /\ task' = Queued(task) /\ repair' = NoRepair
    /\ UNCHANGED <<gh, intent, repairOnly, used, faults, history>>
RepairBlocks ==
    /\ repair.pc = "blocking" /\ task' = [task EXCEPT !.blocked = TRUE] /\ repair' = NoRepair
    /\ UNCHANGED <<gh, intent, repairOnly, used, faults, history>>
RepairFails ==
    /\ repair.pc = "failed" /\ Failing(repair.head) /\ repair' = NoRepair
    /\ UNCHANGED <<gh, intent, repairOnly, used, faults>>

-----------------------------------------------------------------------------
(***************************************************************************)
(* An inventory pass: Repo's own, or Review's to confirm a merge.  The      *)
(* reconcile gate lets one run at a time.                                   *)
(***************************************************************************)

passOnly == <<clear, owned, simplifier, repair, used, events, crashes, retries>>
PassTo(pc) == pass' = [pass EXCEPT !.pc = pc]

\* The pass is over; a merge confirmation ends Review's run with it.
PassEnds ==
    /\ pass' = NoPass
    /\ review' = IF pass.by = "review" THEN NoReview ELSE review

\* The heads Town knows are noted before the repository is read.
PassStarts ==
    /\ pass.pc = "idle"
    /\ \E by \in {"repo"} \cup (IF review.pc = "confirming" THEN {"review"} ELSE {}) :
          pass' = [NoPass EXCEPT !.pc = "asked", !.by = by, !.observed = task.head]
    /\ UNCHANGED <<gh, task, intent, review, passOnly, faults, history>>

PassReads ==
    /\ pass.pc = "asked"
    /\ \/ /\ pass' = [pass EXCEPT !.pc = "observed", !.pull = gh]
          /\ UNCHANGED <<review, faults>>
       \/ Fault /\ PassEnds
    /\ UNCHANGED <<gh, task, intent, passOnly, history>>

PassRecords ==
    /\ pass.pc = "observed"
    /\ \E mode \in Modes : task' = ReconciledTask(pass.pull, pass.observed, mode)
    /\ intent' = ReconciledIntent(pass.pull, pass.observed)
    /\ pass' = [pass EXCEPT !.pc = "recorded", !.observed = 0]
    /\ history' = [history EXCEPT
          !.tries = IF task'.head = task.head THEN @ ELSE 0,
          !.intake = @ /\ task'.decision # "pending"]
    /\ UNCHANGED <<gh, review, passOnly, faults>>

\* claimDeclinedPulls, then closeRetiredPulls decides what to close.
PassClaims ==
    /\ pass.pc = "recorded"
    /\ \/ Quiet /\ UNCHANGED task /\ PassEnds
       \/ /\ task' = ClaimDeclined(task)
          /\ IF task'.stage = "closing" /\ pass.pull.state # "merged"
             THEN /\ PassTo(IF pass.pull.state = "open" THEN "closing" ELSE "explaining")
                  /\ UNCHANGED review
             ELSE PassEnds
    /\ UNCHANGED <<gh, intent, passOnly, faults, history>>

\* GitHub closes it, leaves the outcome unknown, or refuses.
PassCloses ==
    /\ pass.pc = "closing"
    /\ \/ /\ gh.state # "merged" /\ gh' = [gh EXCEPT !.state = "closed"]
          /\ \/ PassTo("explaining") /\ UNCHANGED <<review, faults>>
             \/ Fault /\ PassEnds
       \/ Fault /\ PassEnds /\ UNCHANGED gh
       \/ /\ \/ gh.state = "merged" /\ UNCHANGED faults
             \/ Fault
          /\ PassTo("refused") /\ UNCHANGED <<gh, review>>
    /\ UNCHANGED <<task, intent, passOnly, history>>

\* releaseDeclinedPull: a refused close gives a declined one back to the Mayor.
PassReleases ==
    /\ pass.pc = "refused" /\ PassEnds
    /\ task' = IF task.stage = "closing" /\ task.decision = "" /\ task.declined
               THEN [task EXCEPT !.stage = "declined"] ELSE task
    /\ UNCHANGED <<gh, intent, passOnly, faults, history>>

\* The comment, the branch and the issue, then finalizeClosedPull.
PassFinishesClose ==
    /\ pass.pc = "explaining" /\ PassEnds
    /\ \/ /\ task' = IF task.stage # "closing" THEN task
                     ELSE [Moved(task, "closed", "hall") EXCEPT
                             !.decision = IF @ = "declined" THEN @ ELSE ""]
          /\ UNCHANGED faults
       \/ Fault /\ UNCHANGED task
    /\ UNCHANGED <<gh, intent, passOnly, history>>

-----------------------------------------------------------------------------
ReviewStep == \/ ReviewStarts \/ ReviewFails \/ CertifyStarts \/ CertifyEnds \/ ReviewCommits
              \/ MergeStarts \/ MergeGates \/ MergeIsStale \/ MergeRechecks \/ MergeIntends \/ MergeCalls
              \/ MergeConfirms \/ MergeBlocks
RepairStep == \/ RepairStarts \/ RepairRecovers \/ RepairReads
              \/ RepairVerified \/ RepairAgentFails \/ RepairSaves \/ RepairResumes
              \/ RepairPushes \/ RepairProves \/ RepairConfirms \/ RepairSupersedes
              \/ RepairRequeues \/ RepairBlocks \/ RepairFails
PassStep   == \/ PassStarts \/ PassReads \/ PassRecords \/ PassClaims \/ PassCloses
              \/ PassReleases \/ PassFinishesClose

Next ==
    \/ People \/ ConditionsChange \/ OwnershipRecorded \/ Decide \/ Retry \/ Crash
    \/ AssessStarts \/ AssessEnds \/ AssessCanceled \/ ReviewStep \/ RepairStep \/ PassStep

Spec == Init /\ [][Next]_vars
FairSpec ==
    /\ Spec
    /\ WF_vars(OwnershipRecorded) /\ WF_vars(AssessStarts) /\ WF_vars(AssessEnds)
    /\ WF_vars(ReviewStep) /\ WF_vars(RepairStep) /\ WF_vars(PassStep)

-----------------------------------------------------------------------------
(***************************************************************************)
(* Properties.                                                              *)
(***************************************************************************)

\* Town merges only a head that a review certified without a blocking finding,
\* whatever reached the branch between the review, the gate and the call.
MergedHeadCertified == history.merged => gh.head \in history.certified

\* A landed repair counts as a fix round once, whether the repair run, its
\* successor or the inventory sees it first.
RoundsAreLanded == task.cycles <= Cardinality(history.repairs)

\* A pull request gets one fix round.
OneFixRound == Cardinality(history.repairs) <= 1

\* Both, over repairs whose answer was lost and runs that crashed after pushing.
RepairsAreCounted == RoundsAreLanded /\ OneFixRound

\* An inventory read before Town recorded a newer head never takes it back;
\* only the head of a merged pull request is settled by GitHub alone.
HeadNeverRegresses ==
    [][pass.pc = "observed" /\ pass'.pc = "recorded" /\ gh.state # "merged"
         => task'.head >= task.head]_<<task, pass>>

\* A contributor's pull request is reviewed only while intake admits it: a new
\* revision, a draft change, a reopen or a retarget does not bypass the decision.
IntakeDecides ==
    [][review.pc = "idle" /\ review'.pc = "reviewing" => owned \/ history.intake]_vars

\* Town asks GitHub to close only a pull request it opened.
ClosesOnlyItsOwn == pass.pc = "closing" => owned

\* A revision is retired only after two attempts at it did not complete.
RetiredAfterTwoTries == ~history.early

\* Every commit leaves a record the store accepts.
CommitsAreValid ==
    /\ ~history.refused
    /\ task.decision = "pending" => task.stage = "awaiting_mayor" /\ task.house = "hall"
    /\ task.stage = "simplifying" => task.house = "simplifier"
    /\ task.decision = "declined" =>
         /\ task.house = "hall"
         /\ task.stage \in {"declined", "closed"} \/ (task.stage = "closing" /\ ~task.external)

\* Where a pull request may rest: done, with the Mayor, off Town's branch, a
\* draft, or ready under a policy that leaves merging to people.
Ended   == task.stage \in {"merged", "closed"}
Resting == \/ Ended \/ task.offbranch \/ task.decision \in {"pending", "declined"}
           \/ task.stage \in {"draft", "declined"} \/ (task.stage = "ready" /\ ~MayMerge)
           \/ task.stage = "unknown" /\ ~gh.here

\* Every pull request comes to an end: whatever the reviews find and although
\* calls and the process fail, it ends merged, closed, with the Mayor, on an
\* operator's hold, or ready to be merged; and if GitHub's own conditions are
\* met for good, no pull request that Town may merge is left ready (mergeReady
\* looks again in every run; a refusal alone moves the task nowhere).
AtRest == Resting \/ task.blocked
PullSettles ==
    /\ <>[](AtRest \/ task.stage = "ready")
    /\ <>[]clear => <>[]AtRest

=============================================================================
